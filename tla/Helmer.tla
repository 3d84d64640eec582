-------------------------------- MODULE Helmer --------------------------------
(***************************************************************************)
(* helmer.Run (pkg/helmer/helmer.go): one chart is run until a run         *)
(* succeeds, and again whenever one of its objects is deleted.             *)
(*                                                                         *)
(* The chart is the sequence of its objects in the order Run reaches them: *)
(* CRDs, pre-install hooks by weight, the manifest in install order,       *)
(* post-install hooks.  Each is created if it is not there (crud) and, if  *)
(* it has to be waited for, looked at once (afterCRUD): an object that is  *)
(* not available ends the run with an error.                               *)
(*                                                                         *)
(* Run keeps its release in h.actionConfig, which every dry run replaces.  *)
(* The helmer is shared by three controllers; "Other" is any run or        *)
(* preflight check of another one.  install.Run is called with ClientOnly, *)
(* which gives the configuration a release storage in memory and a client  *)
(* that only prints.                                                       *)
(***************************************************************************)
EXTENDS Naturals, Sequences

CONSTANTS
    Kind,         \* <<"crd", ..., "pre", ..., "manifest", ..., "post", ...>>
    OneTimer,     \* Pods with restartPolicy Never
    Waited,       \* objects afterCRUD waits for: hooks, CRDs, annotated ones
    Cleared,      \* hooks with the delete policy hook-succeeded
    MaxFailures,  \* hooks that fail
    MaxDeletes,   \* objects deleted by users
    MaxOthers,    \* dry runs of other controllers
    MaxFaults, MaxRestarts

Object == DOMAIN Kind
Hook   == {i \in Object : Kind[i] \in {"pre", "post"}}
Order  == [crd |-> 1, pre |-> 2, manifest |-> 3, post |-> 4]

ASSUME HelmerAssumption ==
    /\ Kind \in Seq(DOMAIN Order)
    /\ \A i, j \in Object : i < j => Order[Kind[i]] <= Order[Kind[j]]
    /\ OneTimer \subseteq Object /\ Waited \subseteq Object /\ Cleared \subseteq Hook
    /\ Hook \cup {i \in Object : Kind[i] = "crd"} \subseteq Waited
    /\ {MaxFailures, MaxDeletes, MaxOthers, MaxFaults, MaxRestarts} \subseteq Nat

VARIABLES
    obj,        \* the objects: "none", "waiting", "ready" or "failed"
    made,       \* those created at some time
    was,        \* those available at some time
    marked,     \* hook events with a config map sh.helm.hooks.<event>
    current,    \* whose dry run made h.actionConfig
    recorded,   \* it holds the release of this run
    setup,      \* another dry run is under way: no storage in memory yet
    queued,
    pc,
    at,         \* the object Run has come to
    installed,  \* what ReleaseInstalled returned
    failures, deletes, others, faults, restarts

objects == <<obj, made, was>>
config  == <<current, recorded, setup>>
pass    == <<pc, at, installed>>
bounds  == <<failures, deletes, others, faults, restarts>>
vars    == <<objects, marked, config, queued, pass, bounds>>

Init ==
    /\ obj = [i \in Object |-> "none"] /\ made = {} /\ was = {} /\ marked = {}
    /\ current = "Run" /\ recorded = FALSE /\ setup = FALSE
    /\ queued = TRUE
    /\ pc = "idle" /\ at = 1 /\ installed = FALSE
    /\ failures = 0 /\ deletes = 0 /\ others = 0 /\ faults = 0 /\ restarts = 0

-----------------------------------------------------------------------------
(* The cluster *)

BecomeReady(i) ==
    /\ obj[i] = "waiting"
    /\ obj' = [obj EXCEPT ![i] = "ready"]
    /\ was' = was \cup {i}
    /\ UNCHANGED <<made, marked, config, queued, pass, bounds>>

HookFails(i) ==
    /\ i \in Hook /\ obj[i] = "waiting"
    /\ failures < MaxFailures /\ failures' = failures + 1
    /\ obj' = [obj EXCEPT ![i] = "failed"]
    /\ UNCHANGED <<made, was, marked, config, queued, pass, deletes, others, faults, restarts>>

\* Objects are of the kinds the owner's controller watches.
DeleteOwnedObject(i) ==
    /\ obj[i] # "none"
    /\ deletes < MaxDeletes /\ deletes' = deletes + 1
    /\ obj' = [obj EXCEPT ![i] = "none"]
    /\ queued' = TRUE
    /\ UNCHANGED <<made, was, marked, config, pass, failures, others, faults, restarts>>

Restart ==
    /\ restarts < MaxRestarts /\ restarts' = restarts + 1
    /\ current' = "Run" /\ recorded' = FALSE /\ setup' = FALSE
    /\ queued' = TRUE
    /\ pc' = "idle" /\ at' = 1 /\ installed' = FALSE
    /\ UNCHANGED <<objects, marked, failures, deletes, others, faults>>

-----------------------------------------------------------------------------
(* Dry runs of other controllers *)

OtherNewConfig ==
    /\ ~setup
    /\ others < MaxOthers /\ others' = others + 1
    /\ setup' = TRUE /\ current' = "Other" /\ recorded' = FALSE
    /\ UNCHANGED <<objects, marked, queued, pass, failures, deletes, faults, restarts>>

\* If h.actionConfig was replaced meanwhile, the storage set is that of the old or
\* of the new one.
OtherRender ==
    /\ setup
    /\ setup' = FALSE
    /\ recorded' \in IF current = "Other" THEN {FALSE} ELSE {recorded, FALSE}
    /\ UNCHANGED <<objects, marked, current, queued, pass, bounds>>

-----------------------------------------------------------------------------
(* Run *)

Fault == faults < MaxFaults /\ faults' = faults + 1

Done == pc' = "idle" /\ at' = 1 /\ installed' = FALSE

\* Mutant: the error is not returned.
GiveUp == Done /\ UNCHANGED queued

\* failRelease, whose own error changes nothing; the caller queues the owner.
Fail == Done /\ queued' = TRUE

\* Another dry run has h.actionConfig at a storage and a client of the cluster.
Racing == setup /\ current = "Other"

\* actionConfig.Releases.Update: the release must be in the storage.
Updated    == recorded \/ Racing
NotUpdated == ~recorded

\* deleteHookByPolicy: the client prints.
Clears(S) == {obj} \cup IF Racing THEN {[i \in Object |-> IF i \in S THEN "none" ELSE obj[i]]} ELSE {}

\* dryRunHelmChart.
DryRun ==
    /\ pc = "idle" /\ queued
    /\ queued' = FALSE
    /\ current' = "Run" /\ recorded' = FALSE
    /\ pc' = "render"
    /\ UNCHANGED <<objects, marked, setup, at, installed, bounds>>

\* Mutant: the release is not stored.
CreateReleaseNever ==
    /\ pc = "render"
    /\ pc' = "enter"
    /\ UNCHANGED <<objects, marked, config, queued, at, installed, bounds>>

\* Releases.Create: an error is logged.
CreateRelease ==
    /\ pc = "render"
    /\ \/ /\ pc' = "enter"
          /\ recorded' \in IF Racing THEN BOOLEAN ELSE {TRUE}
          /\ UNCHANGED <<queued, at, installed, faults>>
       \/ Fault /\ Fail /\ UNCHANGED recorded
    /\ UNCHANGED <<objects, marked, current, setup, failures, deletes, others, restarts>>

\* i is the first after the objects of the kind of the one at hand.
NextKind(i) ==
    /\ \A j \in at..(i - 1) : Kind[j] = Kind[at]
    /\ i \in Object => Kind[i] # Kind[at]

\* Mutant: the config map is not looked for.
EnterAgain ==
    /\ pc = "enter" /\ at \in Object
    /\ pc' = IF at \in Hook THEN "hook" ELSE "crud"
    /\ installed' = FALSE
    /\ UNCHANGED <<objects, marked, config, queued, at, bounds>>

\* The release this run stored before is pending and counts as installed.  The
\* storage another dry run put in its place may hold a release of that name.
ReleaseInstalled == IF current = "Run" THEN {recorded} ELSE BOOLEAN

\* ExecHook looks for its config map, CreateFromYAML needs ReleaseInstalled.
Enter ==
    /\ pc = "enter" /\ at \in Object
    /\ \/ /\ Kind[at] \in marked
          /\ \E i \in (at + 1)..(Len(Kind) + 1) : NextKind(i) /\ at' = i
          /\ UNCHANGED <<pc, installed, queued, faults>>
       \/ /\ Kind[at] \notin marked
          /\ pc' = IF at \in Hook THEN "hook" ELSE "crud"
          /\ installed' \in IF Kind[at] = "manifest" THEN ReleaseInstalled ELSE {FALSE}
          /\ UNCHANGED <<at, queued, faults>>
       \/ at \in Hook /\ Fault /\ Fail
    /\ UNCHANGED <<objects, marked, config, failures, deletes, others, restarts>>

\* Before a hook: policy before-hook-creation, and the release is updated.
BeforeHook ==
    /\ pc = "hook"
    /\ obj' \in Clears({at})
    /\ \/ Updated /\ pc' = "crud" /\ UNCHANGED <<at, installed, queued>>
       \/ NotUpdated /\ Fail
    /\ UNCHANGED <<made, was, marked, config, bounds>>

\* crud: a one-timer of an installed release is not created.
Crud ==
    /\ pc = "crud"
    /\ \/ /\ obj[at] # "none" \/ (installed /\ at \in OneTimer)
          /\ pc' = "after"
          /\ UNCHANGED <<objects, queued, at, installed, faults>>
       \/ /\ obj[at] = "none" /\ ~(installed /\ at \in OneTimer)
          /\ obj' = [obj EXCEPT ![at] = "waiting"]
          /\ made' = made \cup {at}
          /\ pc' = "after"
          /\ UNCHANGED <<was, queued, at, installed, faults>>
       \/ Fault /\ Fail /\ UNCHANGED objects
    /\ UNCHANGED <<marked, config, failures, deletes, others, restarts>>

LastHook == at \in Hook /\ (at + 1 \in Object => Kind[at + 1] # Kind[at])

\* Mutant: hooks are not waited for.
AfterCRUDOfHook ==
    /\ pc = "after"
    /\ \/ /\ at \in Waited \ Hook => obj[at] = "ready"
          /\ IF LastHook THEN pc' = "mark" /\ UNCHANGED at
             ELSE /\ at' = at + 1
                  /\ pc' = IF at' \notin Object \/ Kind[at'] # Kind[at] THEN "enter"
                           ELSE IF at \in Hook THEN "hook" ELSE "crud"
          /\ UNCHANGED <<installed, queued>>
       \/ at \in Waited \ Hook /\ obj[at] # "ready" /\ Fail
    /\ UNCHANGED <<objects, marked, config, bounds>>

\* afterCRUD, and on to the next object.
AfterCRUD ==
    /\ pc = "after"
    /\ \/ /\ at \in Waited => obj[at] = "ready"
          /\ IF LastHook THEN pc' = "mark" /\ UNCHANGED at
             ELSE /\ at' = at + 1
                  /\ pc' = IF at' \notin Object \/ Kind[at'] # Kind[at] THEN "enter"
                           ELSE IF at \in Hook THEN "hook" ELSE "crud"
          /\ UNCHANGED <<installed, queued>>
       \/ at \in Waited /\ obj[at] # "ready" /\ Fail
    /\ UNCHANGED <<objects, marked, config, bounds>>

\* The end of ExecHook: policy hook-succeeded, and the config map.
MarkHook ==
    /\ pc = "mark"
    /\ obj' \in Clears({i \in Cleared : Kind[i] = Kind[at]})
    /\ \/ /\ marked' = marked \cup {Kind[at]}
          /\ at' = at + 1 /\ pc' = "enter"
          /\ UNCHANGED <<installed, queued, faults>>
       \/ Fault /\ Fail /\ UNCHANGED marked
    /\ UNCHANGED <<made, was, config, failures, deletes, others, restarts>>

\* The release is set to deployed.
Finish ==
    /\ pc = "enter" /\ at \notin Object
    /\ \/ Updated /\ Done /\ UNCHANGED queued
       \/ NotUpdated /\ Fail
    /\ UNCHANGED <<objects, marked, config, bounds>>

Run == DryRun \/ CreateRelease \/ Enter \/ BeforeHook \/ Crud \/ AfterCRUD \/ MarkHook \/ Finish

Next ==
    \/ Run
    \/ \E i \in Object : BecomeReady(i) \/ HookFails(i) \/ DeleteOwnedObject(i)
    \/ OtherNewConfig \/ OtherRender
    \/ Restart

Spec == Init /\ [][Next]_vars

\* Errors are retried; objects that do not fail become available.
Fairness ==
    /\ WF_vars(Run) /\ WF_vars(OtherRender)
    /\ \A i \in Object : WF_vars(BecomeReady(i))

FairSpec == Spec /\ Fairness

-----------------------------------------------------------------------------
(* Properties *)

\* The type invariant: Run is always at an object of the chart, or past the last.
TypeOK ==
    /\ obj \in [Object -> {"none", "waiting", "ready", "failed"}]
    /\ made \subseteq Object /\ was \subseteq made
    /\ marked \subseteq {"pre", "post"}
    /\ current \in {"Run", "Other"} /\ recorded \in BOOLEAN /\ setup \in BOOLEAN
    /\ queued \in BOOLEAN /\ installed \in BOOLEAN
    /\ pc \in {"idle", "render", "enter", "hook", "crud", "after", "mark"}
    /\ at \in 1..(Len(Kind) + 1) /\ (pc \in {"hook", "crud", "after", "mark"} => at \in Object)
    /\ failures \in 0..MaxFailures /\ deletes \in 0..MaxDeletes /\ others \in 0..MaxOthers
    /\ faults \in 0..MaxFaults /\ restarts \in 0..MaxRestarts

\* No object is created before every object Run reaches earlier has been created,
\* and available if it is waited for: the config map that lets a later run skip
\* the hooks tells the truth.
InOrder ==
    \A i \in made, j \in Object \ OneTimer :
       j < i => j \in IF j \in Waited THEN was ELSE made

\* Hooks that are done are not run a second time, though their objects be deleted.
HooksOnce == [][\A i \in Hook : Kind[i] \in marked /\ obj[i] = "none" => obj'[i] = "none"]_vars

Quiescent == pc = "idle" /\ ~queued

\* When Run has returned without an error, the objects of the manifest are there
\* and the hooks are done, whatever failed, was deleted or interfered before.
SuccessIsComplete ==
    Quiescent => \A i \in Object \ OneTimer :
                    IF i \in Hook THEN Kind[i] \in marked ELSE obj[i] # "none"

\* A chart is installed in the end, although another controller may take the
\* release storage away from a run, unless the object of a failed hook is in the
\* way (nothing deletes it).
ComesToRest == <>[](Quiescent \/ \E i \in Object : obj[i] = "failed")

\* crud: "We are not recreating all objects if a release is already installed":
\* they are created once.
OneTimersCreated == Quiescent => OneTimer \subseteq made

=============================================================================
