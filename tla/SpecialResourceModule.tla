------------------------ MODULE SpecialResourceModule ------------------------
(***************************************************************************)
(* The SpecialResourceModule controller: one SpecialResourceModule, whose  *)
(* chart is run once for each OCP version found at the watched paths, and  *)
(* whose status records the versions that are complete                     *)
(* (controllers/specialresourcemodule_controller.go).                      *)
(*                                                                         *)
(* How the watches are kept, and the races there, is Watcher's subject;    *)
(* here a new value at a watched path queues the module, nothing else in a *)
(* watched object does, and its creation or deletion may or may not.  A    *)
(* version is known by its toolkit image.  The templates with a state name *)
(* create BuildConfigs, the kind the controller is notified of, in the     *)
(* module's namespace, with the kernel of the version.                     *)
(***************************************************************************)
EXTENDS Versions

CONSTANTS
    Toolkits,     \* references of toolkit images, in the order of sort.Strings
    NumStates,
    Specs,        \* contents of the module's spec
    WatchList,    \* [Specs -> Seq(watch)]
    Objects,      \* states of watched objects
    Worlds,       \* the watched objects at the beginning, [name -> Objects]
    MaxLag,       \* versions of the module the cache may be behind
    MaxMishaps    \* changes by users, calls that fail and restarts, in all

Version == {Toolkits[i] : i \in DOMAIN Toolkits}
States  == 1..NumStates

ASSUME SRMAssumption ==
    /\ NumStates \in Nat
    /\ Toolkits \in Seq(DOMAIN Contents)
    /\ \A image \in DOMAIN Contents : \A v \in getVersionInfoFromImage[image] : v = Panic \/ v.DTKImage \in Version
    /\ \A w \in Worlds : \A n \in DOMAIN w : w[n] \in Objects \cup {None}
    /\ WatchList \in [Specs -> Seq([name : UNION {DOMAIN w : w \in Worlds} \cup {None},
                                    selector : SUBSET [value : STRING, exclude : BOOLEAN]])]
    /\ MaxLag \in Nat \ {0}
    /\ MaxMishaps \in Nat

VARIABLES
    srm,       \* the stored module: spec, complete versions, deletion timestamp; or None
    pending,   \* what the informer has not seen yet, oldest first
    cache,     \* the informer's copy
    objs,      \* the watched objects
    silent,    \* they changed, unnoticed, since the versions were read
    ns,        \* the namespace exists
    deployed,  \* per version and template: spec and kernel it was last run with, or None
    wiped,     \* the controller has deleted the namespace
    objEvent,  \* a notification of an owned object is under way
    queued,
    pc,
    mem,       \* the in-memory module
    fresh,     \* its resourceVersion is the stored one
    todo,      \* versions left to reconcile
    next,      \* the next template of the first of them
    mishaps

store   == <<srm, pending>>
world   == <<objs, silent>>
cluster == <<ns, deployed, wiped>>
pass    == <<pc, mem, fresh, todo, next>>
vars    == <<store, cache, world, cluster, objEvent, queued, pass, mishaps>>

-----------------------------------------------------------------------------
Obj  == [spec : Specs, complete : SUBSET Version, deleting : BOOLEAN]
Note == [obj : Obj \cup {None}, newGeneration : BOOLEAN]

ASSUME NoneIsNoModule == None \notin Obj

EventFilter == INSTANCE Filter

Filtered == [custom |-> TRUE, unmanaged |-> FALSE, owned |-> FALSE, affine |-> FALSE]

Nothing == [x \in Version \X States |-> None]

\* The module has just been created.
Init ==
    /\ \E s \in Specs : srm = [spec |-> s, complete |-> {}, deleting |-> FALSE]
    /\ pending = <<>> /\ cache = srm
    /\ objs \in Worlds /\ silent = FALSE
    /\ ns = FALSE /\ deployed = Nothing /\ wiped = FALSE /\ objEvent = FALSE
    /\ queued = TRUE
    /\ pc = "idle" /\ mem = None /\ fresh = FALSE /\ todo = {} /\ next = 1
    /\ mishaps = 0

-----------------------------------------------------------------------------
(* Users, the API server, the informers *)

Store(o, newGeneration) ==
    /\ Len(pending) < MaxLag
    /\ srm' = o
    /\ pending' = Append(pending, [obj |-> o, newGeneration |-> newGeneration])

Mishap == mishaps < MaxMishaps /\ mishaps' = mishaps + 1

Edit == Mishap /\ UNCHANGED <<cache, pc, mem, todo, next, ns, wiped>>

EditSpec ==
    /\ srm # None
    /\ \E s \in Specs \ {srm.spec} : Store([srm EXCEPT !.spec = s], TRUE)
    /\ fresh' = FALSE
    /\ Edit
    /\ UNCHANGED <<world, deployed, objEvent, queued>>

\* The module is removed, or stays until a finalizer that is not the operator's is.
DeleteModule ==
    /\ srm # None
    /\ \/ Store(None, TRUE)
       \/ ~srm.deleting /\ Store([srm EXCEPT !.deleting = TRUE], TRUE)
    /\ fresh' = FALSE
    /\ Edit
    /\ UNCHANGED <<world, deployed, objEvent, queued>>

\* mapper compares the values at the watched path; the objects it is shown when one
\* is created or deleted may have a value it has seen.
Notified(old, new) == IF None \in {old, new} THEN BOOLEAN ELSE {old.value # new.value}

ObjectChanges(n) ==
    /\ \E o \in (Objects \cup {None}) \ {objs[n]} :
         /\ objs' = [objs EXCEPT ![n] = o]
         /\ \E notified \in Notified(objs[n], o) :
              queued' = (queued \/ notified) /\ silent' = (silent \/ ~notified)
    /\ Edit
    /\ UNCHANGED <<store, deployed, objEvent, fresh>>

DeleteOwnedObject(x) ==
    /\ deployed[x] # None
    /\ deployed' = [deployed EXCEPT ![x] = None]
    /\ objEvent' = TRUE
    /\ Edit
    /\ UNCHANGED <<store, world, queued, fresh>>

\* What the templates created is owned by the module.  The namespace has no owner
\* reference and stays.
GarbageCollect ==
    /\ srm = None /\ deployed # Nothing
    /\ deployed' = Nothing
    /\ objEvent' = TRUE
    /\ UNCHANGED <<store, cache, world, ns, wiped, queued, pass, mishaps>>

SyncCache ==
    /\ pending # <<>>
    /\ cache' = Head(pending).obj
    /\ pending' = Tail(pending)
    /\ queued' = \/ queued
                 \/ IF cache' = None THEN EventFilter!DeleteFunc(Filtered)
                    ELSE EventFilter!UpdateFunc(Filtered, ~Head(pending).newGeneration, FALSE)
    /\ UNCHANGED <<srm, world, cluster, objEvent, pass, mishaps>>

OwnedObjectEvent ==
    /\ objEvent
    /\ objEvent' = FALSE
    /\ queued' = TRUE
    /\ UNCHANGED <<store, cache, world, cluster, pass, mishaps>>

Done == pc' = "idle" /\ mem' = None /\ fresh' = FALSE /\ todo' = {} /\ next' = 1

\* The process starts again.
Started ==
    /\ cache' = srm /\ pending' = <<>> /\ queued' = (srm # None) /\ objEvent' = FALSE
    /\ Done
    /\ UNCHANGED <<srm, world, cluster>>

Restart == Mishap /\ Started

-----------------------------------------------------------------------------
(* The worker *)

\* Mutant: the request is not put back.
DoneWithError == Done /\ UNCHANGED queued

\* An error and Result{Requeue: true}.
Requeue == Done /\ queued' = TRUE

\* createNamespace; its error is dropped.
CreateNamespace == (ns' = TRUE /\ UNCHANGED mishaps) \/ (Mishap /\ UNCHANGED ns)

\* deleteNamespace, with all that is in it.  If there is none, that is an error.
DeleteNamespace ==
    \/ /\ ns
       /\ ns' = FALSE /\ deployed' = Nothing /\ wiped' = TRUE
       /\ objEvent' = (objEvent \/ deployed' # deployed)
       /\ queued' = FALSE
       /\ Done
       /\ UNCHANGED mishaps
    \/ /\ (~ns /\ UNCHANGED mishaps) \/ Mishap
       /\ Requeue
       /\ UNCHANGED <<cluster, objEvent>>

Proceed ==
    /\ pc' = "versions"
    /\ mem' = cache
    /\ fresh' = (pending = <<>>)
    /\ queued' = FALSE
    /\ UNCHANGED <<todo, next>>

\* Mutant: the pass goes on after the namespace is deleted.
ReconcileWithoutReturn ==
    /\ pc = "idle" /\ queued /\ cache # None
    /\ IF cache.deleting THEN wiped' = TRUE /\ deployed' = Nothing ELSE UNCHANGED <<wiped, deployed>>
    /\ CreateNamespace
    /\ Proceed
    /\ UNCHANGED <<store, cache, world, objEvent>>

\* Reconcile up to getOCPVersions.  The module is listed from the cache; the List or
\* ReconcileWatches may fail.
Reconcile ==
    /\ pc = "idle" /\ queued
    /\ \/ /\ cache = None
          /\ queued' = FALSE
          /\ UNCHANGED <<cluster, objEvent, pass, mishaps>>
       \/ cache # None /\ cache.deleting /\ DeleteNamespace
       \/ /\ cache # None /\ ~cache.deleting
          /\ CreateNamespace
          /\ Proceed
          /\ UNCHANGED <<deployed, wiped, objEvent>>
       \/ Mishap /\ Requeue /\ UNCHANGED <<cluster, objEvent>>
    /\ UNCHANGED <<store, cache, world>>

Found(spec) == getOCPVersions(objs, WatchList[spec])

Keys(infos) == {v.DTKImage : v \in infos}

\* getOCPVersions fails, or ends the process.
NoVersions ==
    \/ /\ (None \in Found(mem.spec) /\ UNCHANGED mishaps) \/ Mishap
       /\ Requeue
       /\ UNCHANGED <<store, cache, world, cluster, objEvent>>
    \/ Panic \in Found(mem.spec) /\ Started /\ UNCHANGED mishaps

\* Mutant: versions that are no longer there stay in the status.
GetOCPVersionsOnly ==
    /\ pc = "versions"
    /\ \/ /\ \E infos \in Found(mem.spec) \ {None, Panic} : todo' = infos
          /\ pc' = "chart" /\ next' = 1 /\ silent' = FALSE
          /\ UNCHANGED <<store, cache, objs, cluster, objEvent, queued, mem, fresh, mishaps>>
       \/ NoVersions

\* getOCPVersions, and obsolete versions are dropped from the in-memory status.
GetOCPVersions ==
    /\ pc = "versions"
    /\ \/ \E infos \in Found(mem.spec) \ {None, Panic} :
            /\ todo' = infos
            /\ mem' = [mem EXCEPT !.complete = @ \cap Keys(infos)]
            /\ pc' = "chart" /\ next' = 1 /\ silent' = FALSE
            /\ UNCHANGED <<store, cache, objs, cluster, objEvent, queued, fresh, mishaps>>
       \/ NoVersions

Rank(version) == CHOOSE i \in DOMAIN Toolkits : Toolkits[i] = version

Current == CHOOSE v \in todo : \A w \in todo : Rank(v.DTKImage) <= Rank(w.DTKImage)

\* Mutant: one template too many.
RunTemplateTooFar ==
    /\ pc = "chart" /\ todo # {} /\ next <= NumStates + 1
    /\ next' = next + 1
    /\ UNCHANGED <<store, cache, world, cluster, objEvent, queued, pc, mem, fresh, todo, mishaps>>

\* Mutant: what a template fails with is logged and the pass goes on.
RunTemplateAnyhow ==
    /\ pc = "chart" /\ todo # {} /\ next <= NumStates
    /\ next' = next + 1
    /\ \/ /\ ns
          /\ deployed' = [deployed EXCEPT ![<<Current.DTKImage, next>>] = [spec |-> mem.spec, kernel |-> Current.kernel]]
          /\ objEvent' = (objEvent \/ deployed' # deployed)
          /\ UNCHANGED mishaps
       \/ ((~ns /\ UNCHANGED mishaps) \/ Mishap) /\ UNCHANGED <<deployed, objEvent>>
    /\ UNCHANGED <<store, cache, world, ns, wiped, queued, pc, mem, fresh, todo>>

\* reconcileChart: the next template in the order of names.
RunTemplate ==
    /\ pc = "chart" /\ todo # {} /\ next <= NumStates
    /\ \/ /\ ns
          /\ deployed' = [deployed EXCEPT ![<<Current.DTKImage, next>>] = [spec |-> mem.spec, kernel |-> Current.kernel]]
          /\ objEvent' = (objEvent \/ deployed' # deployed)
          /\ next' = next + 1
          /\ UNCHANGED <<queued, pc, mem, fresh, todo, mishaps>>
       \/ ((~ns /\ UNCHANGED mishaps) \/ Mishap) /\ Requeue /\ UNCHANGED <<deployed, objEvent>>
    /\ UNCHANGED <<store, cache, world, ns, wiped>>

Completed == [mem EXCEPT !.complete = @ \cup {Current.DTKImage}]

\* Mutant: something in the status is different at every write.
UpdateStatusAlways ==
    /\ pc = "chart" /\ todo # {} /\ next > NumStates
    /\ \/ /\ fresh
          /\ Store([srm EXCEPT !.complete = Completed.complete], FALSE)
          /\ fresh' = FALSE
          /\ mem' = Completed
          /\ todo' = todo \ {Current} /\ next' = 1
          /\ UNCHANGED <<queued, pc>>
       \/ ~fresh /\ Requeue /\ UNCHANGED store
    /\ UNCHANGED <<cache, world, cluster, objEvent, mishaps>>

\* updateSpecialResourceModuleStatus gets the module by value: the new
\* resourceVersion is lost, and the status of the next version is in conflict
\* unless the write changed nothing.
UpdateStatus ==
    /\ pc = "chart" /\ todo # {} /\ next > NumStates
    /\ \/ /\ fresh
          /\ IF Completed.complete = srm.complete THEN UNCHANGED <<store, fresh>>
             ELSE Store([srm EXCEPT !.complete = Completed.complete], FALSE) /\ fresh' = FALSE
          /\ mem' = Completed
          /\ todo' = todo \ {Current} /\ next' = 1
          /\ UNCHANGED <<queued, pc, mishaps>>
       \/ ((~fresh /\ UNCHANGED mishaps) \/ Mishap) /\ Requeue /\ UNCHANGED store
    /\ UNCHANGED <<cache, world, cluster, objEvent>>

AllVersionsDone ==
    /\ pc = "chart" /\ todo = {}
    /\ Done
    /\ UNCHANGED <<store, cache, world, cluster, objEvent, queued, mishaps>>

Worker == GetOCPVersions \/ RunTemplate \/ UpdateStatus \/ AllVersionsDone

Users ==
    \/ EditSpec \/ DeleteModule
    \/ \E n \in DOMAIN objs : ObjectChanges(n)
    \/ \E x \in Version \X States : DeleteOwnedObject(x)

Next == Users \/ GarbageCollect \/ SyncCache \/ OwnedObjectEvent \/ Reconcile \/ Worker \/ Restart

Spec == Init /\ [][Next]_vars

\* The worker and the informers proceed.
Fairness == WF_vars(Worker) /\ WF_vars(Reconcile) /\ WF_vars(SyncCache) /\ WF_vars(OwnedObjectEvent)

FairSpec == Spec /\ Fairness

-----------------------------------------------------------------------------
(* Properties *)

\* The type invariant of the module, the versions and the pass.
TypeOK ==
    /\ {srm, cache, mem} \subseteq Obj \cup {None}
    /\ pending \in Seq(Note) /\ Len(pending) <= MaxLag
    /\ \A n \in DOMAIN objs : objs[n] \in Objects \cup {None}
    /\ Keys(todo) \subseteq Version
    /\ DOMAIN deployed = Version \X States
    /\ {silent, ns, wiped, objEvent, queued, fresh} \subseteq BOOLEAN
    /\ pc \in {"idle", "versions", "chart"} /\ (mem = None <=> pc = "idle")
    /\ next \in 1..(NumStates + 1)
    /\ mishaps \in 0..MaxMishaps

Quiescent == pc = "idle" /\ ~queued /\ ~objEvent /\ pending = <<>>

Live == srm # None /\ ~srm.deleting

\* No wake-up is lost: at rest the versions can be read and every template has been
\* run for each of them, with the stored spec and the kernel of the version's toolkit,
\* whatever failed and changed during earlier passes.  (Unless only selectors would
\* notice the change of a watched object, or it was created or deleted unnoticed.)
ActiveIsDeployed ==
    Quiescent /\ ~silent /\ Live =>
        \A infos \in Found(srm.spec) :
            /\ infos \notin {None, Panic}
            /\ \A v \in infos, i \in States :
                  deployed[<<v.DTKImage, i>>] = [spec |-> srm.spec, kernel |-> v.kernel]

\* At rest the status lists the versions there are, although a pass can write the
\* status of one new version only: its own write outdates the resourceVersion
\* it goes on with.  (With no version at all nothing is written.)
StatusIsComplete ==
    Quiescent /\ ~silent /\ Live =>
        \A infos \in Found(srm.spec) : infos # {} => srm.complete = Keys(infos)

\* The namespace of a module that is being deleted is not created again after the
\* controller deleted it, by a pass with an older copy of the module, and nothing
\* is deployed (Reconcile looks at the copy once, at its beginning).
WipedStaysEmpty == wiped => ~ns /\ deployed = Nothing

\* The status is earned: a version enters it only if its templates were run with the
\* stored spec and the kernel the pass has read for the version; what was deleted
\* since has a request or a notification on its way (updateSpecialResourceModuleStatus
\* comes after the last template, and fails if the module was edited meanwhile).
StatusIsEarned ==
    [][srm # None /\ srm' # None =>
         \A version \in srm'.complete \ srm.complete : \E v \in todo :
            /\ v.DTKImage = version
            /\ \A i \in States :
                 \/ deployed[<<version, i>>] = [spec |-> srm.spec, kernel |-> v.kernel]
                 \/ deployed[<<version, i>>] = None /\ (objEvent \/ queued)]_vars

\* If in the end the versions can be read and the module is not kept from being
\* deleted, the controller comes to rest: the conflicts it causes itself end, one
\* version per pass.
ComesToRest ==
    <>[](srm = None \/ (Live /\ Found(srm.spec) \cap {None, Panic} = {})) => <>[]Quiescent

=============================================================================
