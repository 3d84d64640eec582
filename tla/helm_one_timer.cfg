SPECIFICATION Spec
CONSTANTS
    Kind <- SmallChart
    OneTimer = {2}
    Waited = {1, 3}
    Cleared = {}
    MaxFailures = 0
    MaxDeletes = 0
    MaxOthers = 0
    MaxFaults = 0
    MaxRestarts = 0
INVARIANTS OneTimersCreated
CHECK_DEADLOCK FALSE
