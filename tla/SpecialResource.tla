--------------------------- MODULE SpecialResource ---------------------------
(***************************************************************************)
(* The SpecialResource controller: its work queue and single worker, the   *)
(* informer cache it reads from, the event filter in front of the queue,   *)
(* the dependency config map, the finalizer and the status writes.         *)
(*                                                                         *)
(* The worker is one process.  Each of its calls that writes to the API    *)
(* server is a step of its own, so users, the informers, the garbage       *)
(* collector and a restart of the operator interleave with it.             *)
(*                                                                         *)
(* A chart is abstracted to the values it is installed with.  Everything   *)
(* it creates is one set of owned objects that exists or does not.  What   *)
(* happens inside ReconcileChartStates is the subject of ChartStates.      *)
(***************************************************************************)
EXTENDS Naturals, Sequences

CONSTANTS
    SR,           \* names of SpecialResources
    Deps,         \* Deps[s]: names of the dependencies of s, in spec order
    Stateful,     \* the SpecialResources whose chart has a state template
    UserStates,   \* management states users choose
    Values,       \* values of spec.set and of a dependency's set
    DefaultSet,   \* what createSpecialResourceFrom puts in spec.set
    KernelVersions, \* how many kernel versions the selected nodes run
    None,         \* no object, no name
    MaxLag,       \* versions of one object the cache may be behind
    MaxEdits,     \* writes by users
    MaxFaults,    \* failing calls of the worker, and nodes tainted when they are finalized
    MaxRestarts   \* restarts of the operator

ASSUME SRAssumption ==
    /\ None \notin SR
    /\ Deps \in [SR -> Seq(SR)]
    /\ \A s \in SR : \A i \in 1..Len(Deps[s]) : Deps[s][i] # s
    /\ Stateful \subseteq SR
    /\ UserStates \subseteq {"Managed", "Removed", "Unmanaged"}
    /\ DefaultSet \in Values
    /\ KernelVersions \in Nat \ {0}
    /\ MaxLag \in Nat \ {0}
    /\ {MaxEdits, MaxFaults, MaxRestarts} \subseteq Nat

VARIABLES
    api,        \* the stored SpecialResources
    status,     \* the condition that is True in their status
    pending,    \* per name: versions the informer has not seen yet, oldest first
    cache,      \* the informer's copy, which every read of the worker uses
    queue,      \* names in the work queue
    deployed,   \* the owned objects of each SpecialResource
    labelled,   \* SpecialResources with a state label on a node
    objEvents,  \* owners with an undelivered notification of an owned object
    depcm,      \* config map special-resource-dependencies: dependency -> parent
    cmcache,    \* the informer's copy of it, which every read of the worker uses
    pc,         \* where the worker is
    wi,         \* its WorkItem
    sr,         \* its in-memory SpecialResources (from the List of this pass)
    held,       \* how those copies relate to the stored objects
    skipped, unlisted, dropped, missed,    \* history, see below
    edits, faults, restarts

(***************************************************************************)
(* Four errors end a pass as if it had succeeded, so nothing retries it.   *)
(* The history variables say where that has happened; no action reads them.*)
(*   skipped   SpecialResources whose finalization left labels on nodes:   *)
(*             a node was tainted or no longer selected, or its Update     *)
(*             failed with another error than Forbidden and Conflict       *)
(*   unlisted  those whose latest removal could not list a kind of object  *)
(*   dropped   dropped[s]: the charts of which the latest pass on s that   *)
(*             came to them ignored the error of a state                   *)
(*   missed    names whose latest request was looked up in a copy of the   *)
(*             config map that did not have the entry yet                  *)
(***************************************************************************)
lapses  == <<skipped, unlisted, dropped, missed>>

stored  == <<api, status, pending>>
cluster == <<deployed, labelled, objEvents>>
worker  == <<pc, wi, sr, held>>
bounds  == <<edits, faults, restarts>>
vars    == <<stored, cache, queue, cluster, depcm, cmcache, worker, lapses, bounds>>

-----------------------------------------------------------------------------
ManagementState == {"Managed", "Removed", "Unmanaged"}
Condition       == {"None", "Progressing", "Ready", "Errored"}

Obj == [mgmt : ManagementState, deleting : BOOLEAN, finalizer : BOOLEAN, set : Values]

\* A version of an object on its way to the informer; None is a removal.
Version == [obj : Obj \cup {None}, newGeneration : BOOLEAN]

\* The owner of a SpecialResource's objects is the stored one ("live") or one
\* that no longer exists ("orphan").
Objects == [set : Values, owner : {"live", "orphan"}]

ASSUME NoneAssumption == None \notin Obj \cup Objects

Steps == {"idle", "markDeleted", "cleanup", "unfinalize", "remove", "progress",
          "load", "deps", "create", "chart", "states", "deploy", "ready"}

NoWorkItem == [req |-> None, main |-> None, cur |-> None, next |-> 1]
NoCopies   == [s \in SR |-> None]
NotHeld    == [s \in SR |-> "gone"]

EventFilter == INSTANCE Filter

\* A SpecialResource as the filter sees it.
Filtered(o) == [custom |-> TRUE, unmanaged |-> o.mgmt = "Unmanaged",
                owned |-> FALSE, affine |-> FALSE]

\* The version v follows old in the cache: does the filter let it through?
Passes(old, v) ==
    IF old = None THEN v.obj # None /\ EventFilter!CreateFunc(Filtered(v.obj))
    ELSE IF v.obj = None THEN EventFilter!DeleteFunc(Filtered(old))
    ELSE EventFilter!UpdateFunc(Filtered(v.obj), ~v.newGeneration, FALSE)

Init ==
    /\ api = [s \in SR |-> None]
    /\ status = [s \in SR |-> "None"]
    /\ pending = [s \in SR |-> <<>>]
    /\ cache = [s \in SR |-> None]
    /\ queue = {}
    /\ deployed = [s \in SR |-> None]
    /\ labelled = {}
    /\ objEvents = {}
    /\ depcm = [s \in SR |-> None]
    /\ cmcache = [s \in SR |-> None]
    /\ pc = "idle"
    /\ wi = NoWorkItem
    /\ sr = NoCopies
    /\ held = NotHeld
    /\ skipped = {} /\ unlisted = {} /\ missed = {}
    /\ dropped = [s \in SR |-> {}]
    /\ edits = 0 /\ faults = 0 /\ restarts = 0

-----------------------------------------------------------------------------
(* The API server *)

\* o becomes the stored version of s, which the informer will see in turn.
Store(s, o, newGeneration) ==
    /\ Len(pending[s]) < MaxLag
    /\ api' = [api EXCEPT ![s] = o]
    /\ pending' = [pending EXCEPT ![s] = Append(@, [obj |-> o, newGeneration |-> newGeneration])]

Orphaned(d) == IF d = None THEN None ELSE [d EXCEPT !.owner = "orphan"]

\* Removing the stored object leaves its owned objects without an owner.
OrphanIfGone(s, o) ==
    IF o = None THEN [deployed EXCEPT ![s] = Orphaned(@)] ELSE deployed

\* A write by anyone but the worker outdates the copy the worker holds.
UserWrite(s, o, newGeneration) ==
    /\ edits < MaxEdits
    /\ edits' = edits + 1
    /\ Store(s, o, newGeneration)
    /\ status' = IF o = None \/ api[s] = None THEN [status EXCEPT ![s] = "None"] ELSE status
    /\ deployed' = OrphanIfGone(s, o)
    /\ held' = [held EXCEPT ![s] = IF o = None THEN "gone"
                                   ELSE IF @ = "fresh" THEN "stale" ELSE @]
    /\ UNCHANGED <<cache, queue, labelled, objEvents, depcm, cmcache, pc, wi, sr, lapses, faults, restarts>>

CreateSpecialResource(s) ==
    /\ api[s] = None
    /\ \E m \in UserStates, v \in Values :
         UserWrite(s, [mgmt |-> m, deleting |-> FALSE, finalizer |-> FALSE, set |-> v], TRUE)

EditSpec(s) ==
    /\ api[s] # None
    /\ \E m \in UserStates, v \in Values :
         /\ <<m, v>> # <<api[s].mgmt, api[s].set>>
         /\ UserWrite(s, [api[s] EXCEPT !.mgmt = m, !.set = v], TRUE)

DeleteSpecialResource(s) ==
    /\ api[s] # None
    /\ ~api[s].deleting
    /\ UserWrite(s, IF api[s].finalizer THEN [api[s] EXCEPT !.deleting = TRUE] ELSE None, TRUE)

\* Someone else deletes what the operator deployed.
DeleteOwnedObject(s) ==
    /\ edits < MaxEdits
    /\ edits' = edits + 1
    /\ deployed[s] # None
    /\ deployed' = [deployed EXCEPT ![s] = None]
    /\ objEvents' = objEvents \cup {s}
    /\ UNCHANGED <<stored, cache, queue, labelled, depcm, cmcache, worker, lapses, faults, restarts>>

\* The garbage collector deletes objects whose owner does not exist.
GarbageCollect(s) ==
    /\ deployed[s] # None
    /\ deployed[s].owner = "orphan"
    /\ deployed' = [deployed EXCEPT ![s] = None]
    /\ objEvents' = objEvents \cup {s}
    /\ UNCHANGED <<stored, cache, queue, labelled, depcm, cmcache, worker, lapses, bounds>>

-----------------------------------------------------------------------------
(* Informers and the work queue *)

\* The next version reaches the cache; the filter decides whether it is queued.
SyncCache(s) ==
    /\ pending[s] # <<>>
    /\ cache' = [cache EXCEPT ![s] = Head(pending[s]).obj]
    /\ pending' = [pending EXCEPT ![s] = Tail(@)]
    /\ queue' = IF Passes(cache[s], Head(pending[s])) THEN queue \cup {s} ELSE queue
    /\ UNCHANGED <<api, status, cluster, depcm, cmcache, worker, lapses, bounds>>

\* The stored config map reaches its cache.  The worker is its only writer and
\* cannot write with an outdated copy, so the copy is at most one write behind.
SyncConfigMap ==
    /\ cmcache # depcm
    /\ cmcache' = depcm
    /\ UNCHANGED <<stored, cache, queue, cluster, depcm, worker, lapses, bounds>>

\* A notification of an owned object queues its owner's name, whatever the
\* owner's state: owned objects pass every predicate of the filter.
OwnedObjectEvent(s) ==
    /\ s \in objEvents
    /\ objEvents' = objEvents \ {s}
    /\ queue' = queue \cup {s}
    /\ UNCHANGED <<stored, cache, deployed, labelled, depcm, cmcache, worker, lapses, bounds>>

\* The operator process dies and starts again: queue and work in progress are
\* lost, the informers list everything that exists as created.
Restart ==
    /\ restarts < MaxRestarts
    /\ restarts' = restarts + 1
    /\ cache' = api /\ cmcache' = depcm
    /\ pending' = [s \in SR |-> <<>>]
    /\ queue' = {s \in SR : api[s] # None /\ EventFilter!CreateFunc(Filtered(api[s]))}
    /\ objEvents' = {s \in SR : deployed[s] # None}
    /\ pc' = "idle" /\ wi' = NoWorkItem /\ sr' = NoCopies /\ held' = NotHeld
    /\ UNCHANGED <<api, status, deployed, labelled, depcm, lapses, edits, faults>>

-----------------------------------------------------------------------------
(* The worker *)

Done == pc' = "idle" /\ wi' = NoWorkItem /\ sr' = NoCopies /\ held' = NotHeld

\* Mutants: the request is read after the work item was dropped; it is forgotten.
RequeueTooLate == Done /\ queue' = queue \cup {wi'.req}
ForgetRequest == Done /\ UNCHANGED queue

\* An error and Result{Requeue: true} both put the request back.
Requeue == Done /\ queue' = queue \cup {wi.req}

Fault == faults < MaxFaults /\ faults' = faults + 1

\* Mutant: the config map is not consulted.
TargetOnlyListed(n) == IF cache[n] # None THEN n ELSE None

\* The request names a dependency that is gone: its recorded parent is meant.
Target(n) == IF cache[n] # None THEN n ELSE cmcache[n]

Relation(s) ==
    IF cache[s] = None \/ \E i \in 1..Len(pending[s]) : pending[s][i].obj = None THEN "gone"
    ELSE IF pending[s] = <<>> THEN "fresh" ELSE "stale"

Family(m) == {m} \cup {Deps[m][i] : i \in 1..Len(Deps[m])}

Branch(o) ==
    CASE o.deleting -> "markDeleted"
      [] ~o.deleting /\ o.mgmt = "Removed" -> "remove"
      [] ~o.deleting /\ o.mgmt = "Unmanaged" -> "idle"
      [] ~o.deleting /\ o.mgmt = "Managed" -> "progress"

\* Take a request, list the SpecialResources from the cache, choose the branch.
Reconcile(n) ==
    /\ pc = "idle"
    /\ n \in queue
    /\ queue' = queue \ {n}
    /\ LET m == Target(n) IN
       IF m = None \/ cache[m] = None \/ Branch(cache[m]) = "idle"
       THEN UNCHANGED worker
       ELSE /\ pc' = Branch(cache[m])
            /\ wi' = [req |-> n, main |-> m, cur |-> m, next |-> 1]
            /\ sr' = [s \in SR |-> IF s \in Family(m) THEN cache[s] ELSE None]
            /\ held' = [s \in SR |-> IF s \in Family(m) THEN Relation(s) ELSE "gone"]
    /\ missed' = IF cache[n] = None /\ cmcache[n] # depcm[n] THEN missed \cup {n} ELSE missed \ {n}
    /\ UNCHANGED <<stored, cache, cluster, depcm, cmcache, skipped, unlisted, dropped, bounds>>

\* StatusUpdate with a current resourceVersion: the server answers with the
\* stored object, which is decoded over the in-memory one.
WriteStatus(s, c) ==
    /\ Store(s, api[s], FALSE)
    /\ status' = [status EXCEPT ![s] = c]

\* The status write at step from; a conflict or a missing object is an error.
SetAsProgressing(from, to) ==
    /\ pc = from
    /\ IF held[wi.main] = "fresh"
       THEN /\ WriteStatus(wi.main, "Progressing")
            /\ pc' = to
            /\ sr' = [sr EXCEPT ![wi.main] = api[wi.main]]
            /\ UNCHANGED <<queue, wi, held>>
       ELSE Requeue /\ UNCHANGED stored
    /\ UNCHANGED <<cache, cluster, depcm, cmcache, lapses, bounds>>

\* Failures of SetAsErrored are only logged.
SetAsErrored(s) ==
    IF held[s] = "fresh" THEN WriteStatus(s, "Errored") ELSE UNCHANGED stored

SetAsReady ==
    /\ pc = "ready"
    /\ IF held[wi.main] = "fresh"
       THEN WriteStatus(wi.main, "Ready") /\ Done /\ UNCHANGED queue
       ELSE Requeue /\ UNCHANGED stored
    /\ UNCHANGED <<cache, cluster, depcm, cmcache, lapses, bounds>>

(* Deletion and removal *)

\* Mutant: the finalizer is given up although the nodes still have their labels.
FinalizeWithoutNodes ==
    /\ pc = "cleanup"
    /\ IF sr[wi.main].finalizer
       THEN pc' = "unfinalize" /\ UNCHANGED <<wi, sr, held>>
       ELSE Done
    /\ UNCHANGED <<stored, cache, queue, cluster, depcm, cmcache, lapses, bounds>>

\* Mutant: a failed finalization is logged and not reported.
FinalizeOnce ==
    /\ pc = "cleanup"
    /\ \/ /\ sr[wi.main].finalizer
          /\ labelled' = labelled \ {wi.main}
          /\ pc' = "unfinalize"
          /\ UNCHANGED <<wi, sr, held, faults>>
       \/ Fault /\ Done /\ UNCHANGED labelled
    /\ UNCHANGED <<stored, cache, queue, deployed, objEvents, depcm, cmcache, lapses, edits, restarts>>

\* finalizeSpecialResource: without the finalizer there is nothing to do.  An
\* error is reported, except that of a node's Update other than Forbidden and
\* Conflict; nodes with taints and nodes no longer selected are left alone.
FinalizeSpecialResource ==
    /\ pc = "cleanup"
    /\ \/ /\ ~sr[wi.main].finalizer
          /\ Done
          /\ UNCHANGED <<queue, labelled, skipped, faults>>
       \/ /\ sr[wi.main].finalizer
          /\ labelled' = labelled \ {wi.main}
          /\ skipped' = skipped \ {wi.main}
          /\ pc' = "unfinalize"
          /\ UNCHANGED <<queue, wi, sr, held, faults>>
       \/ /\ sr[wi.main].finalizer
          /\ Fault
          /\ skipped' = skipped \cup ({wi.main} \cap labelled)
          /\ pc' = "unfinalize"
          /\ UNCHANGED <<queue, labelled, wi, sr, held>>
       \/ /\ sr[wi.main].finalizer
          /\ Fault
          /\ Requeue
          /\ labelled' \in {labelled, labelled \ {wi.main}}
          /\ UNCHANGED skipped
    /\ UNCHANGED <<stored, cache, deployed, objEvents, depcm, cmcache,
                   unlisted, dropped, missed, edits, restarts>>

\* Update without the finalizer: the API server then removes the object.
RemoveFinalizer ==
    /\ pc = "unfinalize"
    /\ IF held[wi.main] = "fresh"
       THEN /\ Store(wi.main, None, TRUE)
            /\ status' = [status EXCEPT ![wi.main] = "None"]
            /\ deployed' = OrphanIfGone(wi.main, None)
            /\ Done
            /\ UNCHANGED queue
       ELSE Requeue /\ UNCHANGED <<stored, deployed>>
    /\ UNCHANGED <<cache, labelled, objEvents, depcm, cmcache, lapses, bounds>>

\* Mutant: a failed deletion is logged and not reported.
RemoveResourcesOnce ==
    /\ pc = "remove"
    /\ \/ /\ deployed' = [deployed EXCEPT ![wi.main] = None]
          /\ objEvents' = objEvents \cup {wi.main}
          /\ UNCHANGED faults
       \/ Fault /\ UNCHANGED <<deployed, objEvents>>
    /\ Done
    /\ UNCHANGED <<stored, cache, queue, labelled, depcm, cmcache, lapses, edits, restarts>>

\* RemoveResources deletes what the SpecialResource of the List owns, by UID.  A
\* kind that cannot be listed is passed over: what is of other kinds goes, and
\* nothing is reported.
RemoveResources ==
    /\ pc = "remove"
    /\ \/ /\ IF held[wi.main] # "gone" /\ deployed[wi.main] # None
                /\ deployed[wi.main].owner = "live"
             THEN /\ deployed' = [deployed EXCEPT ![wi.main] = None]
                  /\ objEvents' = objEvents \cup {wi.main}
             ELSE UNCHANGED <<deployed, objEvents>>
          /\ Done
          /\ unlisted' = unlisted \ {wi.main}
          /\ UNCHANGED <<queue, faults>>
       \/ /\ Fault
          /\ Done
          /\ unlisted' = unlisted \cup {wi.main}
          /\ objEvents' \in {objEvents, objEvents \cup {wi.main}}
          /\ UNCHANGED <<queue, deployed>>
       \/ Fault /\ Requeue /\ UNCHANGED <<deployed, objEvents, unlisted>>
    /\ UNCHANGED <<stored, cache, labelled, depcm, cmcache, skipped, dropped, missed, edits, restarts>>

(* Charts and dependencies *)

LoadChart ==
    /\ pc = "load"
    /\ \/ /\ pc' = "deps"
          /\ UNCHANGED <<stored, queue, wi, sr, held, faults>>
       \/ Fault /\ SetAsErrored(wi.main) /\ Requeue
    /\ UNCHANGED <<cache, cluster, depcm, cmcache, lapses, edits, restarts>>

Dependency == Deps[wi.main][wi.next]

\* One turn of the dependency loop up to the look-up in the List: load the
\* chart, record the parent, and give the in-memory child the dependency's set.
\* The entry is compared in the cached config map; an Update of an outdated copy
\* is a conflict.
ResolveDependency ==
    /\ pc = "deps"
    /\ wi.next <= Len(Deps[wi.main])
    /\ \/ /\ cmcache[Dependency] = wi.main \/ cmcache = depcm
          /\ depcm' = IF cmcache[Dependency] = wi.main THEN depcm
                      ELSE [depcm EXCEPT ![Dependency] = wi.main]
          /\ IF sr[Dependency] = None
             THEN pc' = "create" /\ UNCHANGED <<wi, sr>>
             ELSE /\ pc' = "chart"
                  /\ wi' = [wi EXCEPT !.cur = Dependency]
                  /\ sr' = [sr EXCEPT ![Dependency].set = sr[wi.main].set]
          /\ UNCHANGED <<stored, queue, held, faults>>
       \/ /\ \/ cmcache[Dependency] # wi.main /\ cmcache # depcm /\ UNCHANGED faults
             \/ Fault
          /\ SetAsErrored(wi.main) /\ Requeue /\ UNCHANGED depcm
    /\ UNCHANGED <<cache, cmcache, cluster, lapses, edits, restarts>>

\* createSpecialResourceFrom, then Requeue: an object the cache did not show
\* makes the create fail, which puts the request back as well.
CreateSpecialResourceFrom ==
    /\ pc = "create"
    /\ \/ /\ IF api[Dependency] = None
             THEN Store(Dependency, [mgmt |-> "Managed", deleting |-> FALSE,
                                     finalizer |-> FALSE, set |-> DefaultSet], TRUE)
             ELSE UNCHANGED <<api, pending>>
          /\ UNCHANGED faults
       \/ Fault /\ UNCHANGED <<api, pending>>
    /\ Requeue
    /\ UNCHANGED <<status, cache, cluster, depcm, cmcache, lapses, edits, restarts>>

\* The dependencies are resolved: the main chart is next.
DependenciesDone ==
    /\ pc = "deps"
    /\ wi.next > Len(Deps[wi.main])
    /\ wi' = [wi EXCEPT !.cur = wi.main]
    /\ pc' = "chart"
    /\ UNCHANGED <<stored, cache, queue, cluster, depcm, cmcache, sr, held, lapses, bounds>>

ChartFails == SetAsErrored(wi.cur) /\ Requeue

AfterFinalizer == pc' = (IF wi.cur \in Stateful THEN "states" ELSE "deploy")

\* Mutant: the Update is made with the copy there is, without its resourceVersion.
AddFinalizerAnyVersion ==
    /\ pc = "chart"
    /\ IF sr[wi.cur].finalizer THEN UNCHANGED <<stored, sr>>
       ELSE /\ Store(wi.cur, [sr[wi.cur] EXCEPT !.finalizer = TRUE], TRUE)
            /\ sr' = [sr EXCEPT ![wi.cur].finalizer = TRUE]
            /\ UNCHANGED status
    /\ AfterFinalizer
    /\ UNCHANGED <<cache, queue, cluster, depcm, cmcache, wi, held, lapses, bounds>>

\* ReconcileSpecialResourceChart up to ReconcileChart: the finalizer is added
\* by an Update of the whole in-memory object, templated spec included.
AddFinalizer ==
    /\ pc = "chart"
    /\ \/ /\ sr[wi.cur].finalizer
          /\ AfterFinalizer
          /\ UNCHANGED <<stored, queue, wi, sr, held, faults>>
       \/ /\ ~sr[wi.cur].finalizer
          /\ IF held[wi.cur] = "fresh" /\ ~sr[wi.cur].deleting
             THEN /\ Store(wi.cur, [sr[wi.cur] EXCEPT !.finalizer = TRUE],
                           sr[wi.cur].set # api[wi.cur].set)
                  /\ sr' = [sr EXCEPT ![wi.cur].finalizer = TRUE]
                  /\ AfterFinalizer
                  /\ UNCHANGED <<status, queue, wi, held>>
             ELSE ChartFails
          /\ UNCHANGED faults
       \/ Fault /\ ChartFails
    /\ UNCHANGED <<cache, cluster, depcm, cmcache, lapses, edits, restarts>>

\* SetAsProgressing(HandlingState) before a state template is run.
HandleState ==
    /\ pc = "states"
    /\ IF held[wi.cur] = "fresh"
       THEN /\ WriteStatus(wi.cur, "Progressing")
            /\ sr' = [sr EXCEPT ![wi.cur] = api[wi.cur]]
            /\ pc' = "deploy"
            /\ UNCHANGED <<queue, wi, held>>
       ELSE ChartFails
    /\ UNCHANGED <<cache, cluster, depcm, cmcache, lapses, bounds>>

\* What the chart's objects become: created or updated with the in-memory
\* object as their owner.
Installed == [set |-> sr[wi.cur].set,
              owner |-> IF held[wi.cur] = "gone" THEN "orphan" ELSE "live"]

Install ==
    /\ deployed' = [deployed EXCEPT ![wi.cur] = Installed]
    /\ objEvents' = IF deployed[wi.cur] = Installed THEN objEvents ELSE objEvents \cup {wi.cur}

\* A label that a finalization left on a node is one of the new SpecialResource.
LabelNodes ==
    /\ labelled' = IF wi.cur \in Stateful THEN labelled \cup {wi.cur} ELSE labelled
    /\ skipped' = IF wi.cur \in Stateful THEN skipped \ {wi.cur} ELSE skipped

\* The next chart of the pass, or its final status.
ChartDone ==
    /\ IF wi.cur = wi.main
       THEN pc' = "ready" /\ UNCHANGED wi
       ELSE pc' = "deps" /\ wi' = [wi EXCEPT !.next = @ + 1]
    /\ UNCHANGED <<stored, queue, sr, held>>

\* Mutant: what a chart fails with is logged and the pass goes on.
ReconcileChartAnyhow ==
    /\ pc = "deploy"
    /\ \/ Install /\ LabelNodes /\ UNCHANGED faults
       \/ Fault /\ UNCHANGED <<cluster, skipped>>
    /\ ChartDone
    /\ UNCHANGED <<cache, depcm, cmcache, unlisted, dropped, missed, edits, restarts>>

\* ReconcileChart: namespace, states with their node labels, stateless part.
\* It may fail before, between or after them.  Where the nodes run several kernel
\* versions, only the error of a state's last replica counts: the others are
\* dropped, and that of a state without replicas always is.
ReconcileChart ==
    /\ pc = "deploy"
    /\ \/ /\ Install
          /\ LabelNodes
          /\ ChartDone
          /\ dropped' = [dropped EXCEPT ![wi.main] = @ \ {wi.cur}]
          /\ UNCHANGED faults
       \/ /\ wi.cur \in Stateful /\ KernelVersions > 1
          /\ Fault
          /\ \/ Install
             \/ objEvents' \in {objEvents, objEvents \cup {wi.cur}} /\ UNCHANGED deployed
          /\ LabelNodes
          /\ ChartDone
          /\ dropped' = [dropped EXCEPT ![wi.main] = @ \cup {wi.cur}]
       \/ /\ Fault
          /\ Install \/ UNCHANGED <<deployed, objEvents>>
          /\ LabelNodes \/ UNCHANGED <<labelled, skipped>>
          /\ ChartFails
          /\ UNCHANGED dropped
    /\ UNCHANGED <<cache, depcm, cmcache, unlisted, missed, edits, restarts>>

Worker ==
    \/ SetAsProgressing("markDeleted", "cleanup")
    \/ FinalizeSpecialResource
    \/ RemoveFinalizer
    \/ RemoveResources
    \/ SetAsProgressing("progress", "load")
    \/ LoadChart
    \/ ResolveDependency
    \/ CreateSpecialResourceFrom
    \/ DependenciesDone
    \/ AddFinalizer
    \/ HandleState
    \/ ReconcileChart
    \/ SetAsReady

Users ==
    \E s \in SR :
        \/ CreateSpecialResource(s)
        \/ EditSpec(s)
        \/ DeleteSpecialResource(s)
        \/ DeleteOwnedObject(s)

Next ==
    \/ Worker
    \/ \E s \in SR : Reconcile(s) \/ SyncCache(s) \/ OwnedObjectEvent(s) \/ GarbageCollect(s)
    \/ SyncConfigMap
    \/ Users
    \/ Restart

Spec == Init /\ [][Next]_vars

\* The worker runs whenever it can, informers and garbage collector deliver,
\* and the work queue is first in, first out: a queued name is not overtaken
\* for ever.  Nothing is assumed of users, failures and restarts.
Fairness ==
    /\ WF_vars(Worker)
    /\ WF_vars(SyncConfigMap)
    /\ \A s \in SR :
        /\ SF_vars(Reconcile(s))
        /\ WF_vars(SyncCache(s))
        /\ WF_vars(OwnedObjectEvent(s))
        /\ WF_vars(GarbageCollect(s))

FairSpec == Spec /\ Fairness

-----------------------------------------------------------------------------
(* Properties *)

\* The type invariant of the controller's state: copies, queue, the pass in progress.
TypeOK ==
    /\ api \in [SR -> Obj \cup {None}]
    /\ status \in [SR -> Condition]
    /\ pending \in [SR -> Seq(Version)]
    /\ \A s \in SR : Len(pending[s]) <= MaxLag
    /\ cache \in [SR -> Obj \cup {None}]
    /\ queue \subseteq SR
    /\ deployed \in [SR -> Objects \cup {None}]
    /\ labelled \subseteq SR
    /\ objEvents \subseteq SR
    /\ depcm \in [SR -> SR \cup {None}]
    /\ cmcache \in [SR -> SR \cup {None}]
    /\ pc \in Steps
    /\ wi \in [req : SR \cup {None}, main : SR \cup {None}, cur : SR \cup {None},
              next : Nat \ {0}]
    /\ sr \in [SR -> Obj \cup {None}]
    /\ held \in [SR -> {"fresh", "stale", "gone"}]
    /\ skipped \subseteq SR /\ unlisted \subseteq SR /\ missed \subseteq SR
    /\ dropped \in [SR -> SUBSET SR]
    /\ edits \in 0..MaxEdits /\ faults \in 0..MaxFaults /\ restarts \in 0..MaxRestarts

HasFinalizer(s) == api[s] # None /\ api[s].finalizer

\* The state labels a finalization has not passed over.
Marked == labelled \ skipped

\* Nothing the operator leaves in the cluster outlives its SpecialResource
\* unnoticed: while objects owned by the stored SpecialResource or state labels
\* on nodes exist, the stored object carries the finalizer, so the API server
\* cannot drop it before Finalize has run (AddFinalizerToSpecialResource comes
\* before ReconcileChart; labels are removed before the finalizer is).  Only the
\* labels finalizeNodes itself passes over stay: those on nodes with taints or no
\* longer selected, and those whose removal fails with an error it ignores.
FinalizerGuardsCluster ==
    \A s \in SR :
        \/ HasFinalizer(s)
        \/ /\ s \notin Marked
           /\ deployed[s] # None => deployed[s].owner = "orphan"

\* Nothing is on its way: no work, no request, no notification, no garbage.
Quiescent ==
    /\ pc = "idle" /\ queue = {} /\ objEvents = {}
    /\ \A s \in SR : pending[s] = <<>> /\ (deployed[s] # None => deployed[s].owner # "orphan")

Active(s, m) == api[s] # None /\ ~api[s].deleting /\ api[s].mgmt = m

\* No wake-up is lost: when the controller has come to rest, the chart of every
\* managed SpecialResource is installed with its stored values, whatever
\* conflicts, stale reads, failures, deletions and restarts came before, unless
\* its latest pass dropped the error of one of its states (ReconcileChartStates
\* counts the last replica's only).
ManagedIsDeployed ==
    Quiescent => \A s \in SR : Active(s, "Managed") /\ s \notin dropped[s] =>
        deployed[s] = [set |-> api[s].set, owner |-> "live"]

\* ... the objects of every SpecialResource in state Removed are gone, unless its
\* latest removal could not list them (deleteResource does not report that) ...
RemovedIsGone ==
    Quiescent => \A s \in SR : Active(s, "Removed") /\ s \notin unlisted => deployed[s] = None

\* ... a SpecialResource that is being deleted is gone, unless it is Unmanaged, and
\* of one that is gone no objects are left, and no labels but those its
\* finalization passed over (finalizeNodes) ...
DeletedIsGone ==
    Quiescent => \A s \in SR :
        /\ api[s] = None => deployed[s] = None /\ s \notin Marked
        /\ api[s] # None /\ api[s].deleting => api[s].mgmt = "Unmanaged"

\* No other SpecialResource depends on d: the config map has one parent per name.
OnlyParent(s, d) == \A t \in SR \ {s} : d \notin Family(t) \ {t}

\* ... and every dependency that only a managed SpecialResource has exists, however
\* it was deleted (the parent recorded in the config map is reconciled in its
\* stead), unless its latest request was looked up in a copy of the config map
\* that did not have the entry yet (getSpecialResources drops it then).
DependenciesExist ==
    Quiescent => \A s \in SR : Active(s, "Managed") =>
        \A d \in Family(s) \ {s} : OnlyParent(s, d) /\ d \notin missed => api[d] # None

\* What is not there is being reported to the controller.
Reported(s) == deployed[s] = None => s \in objEvents \cup queue

\* Ready is earned: the condition is written only if what is deployed has the values
\* the stored SpecialResource has then and belongs to it, its nodes are labelled, and
\* its dependencies are deployed too; of what was deleted behind the back of the
\* pass a request or a notification is on its way (SetAsReady comes last in a pass,
\* and fails with a copy that is not the stored one).  The charts of which the pass
\* has dropped an error are excepted: their Ready is not earned.
ReadyIsEarned ==
    [][\A s \in SR : status[s] # "Ready" /\ status'[s] = "Ready" =>
         /\ s \in dropped[s] \/ deployed[s] \in {None, [set |-> api[s].set, owner |-> "live"]}
         /\ s \in Stateful => s \in Marked
         /\ \A d \in Family(s) \ dropped[s] : Reported(d)]_vars

\* Once users, failures and restarts stop, the controller comes to rest: the
\* conflicts and the events its own writes cause do not keep it busy for ever.
ComesToRest == <>[]Quiescent

-----------------------------------------------------------------------------
(* What the finalizer promises *)

PhaseOf(o) ==
    IF o = None THEN "absent"
    ELSE IF ~o.finalizer THEN "bare" ELSE IF o.deleting THEN "closing" ELSE "claimed"

Phases == [s \in SR |-> PhaseOf(api[s])]

Live == {s \in SR : deployed[s] # None /\ deployed[s].owner = "live"}

Promise == INSTANCE Ownership WITH phase <- Phases, live <- Live, marked <- Marked

\* The controller implements Ownership: no write with an outdated copy takes the
\* finalizer off a SpecialResource that is not deleted, undoes its deletion, or
\* releases it while a node has a label its finalization did not pass over, and
\* nothing is deployed before the finalizer is stored.
ImplementsOwnership == Promise!Spec

=============================================================================
