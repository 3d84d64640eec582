SPECIFICATION FairSpec
CONSTANTS
    Kind <- FullChart
    OneTimer = {4}
    Waited = {1, 2, 3, 5, 6}
    Cleared = {3}
    MaxFailures = 1
    MaxDeletes = 1
    MaxOthers = 2
    MaxFaults = 1
    MaxRestarts = 1
INVARIANTS InOrder SuccessIsComplete
PROPERTIES HooksOnce ComesToRest
CHECK_DEADLOCK FALSE
