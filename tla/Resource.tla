------------------------------- MODULE Resource -------------------------------
(***************************************************************************)
(* resource.CreateFromYAML (pkg/resource): the objects of charts are       *)
(* created or updated one after the other, driver containers are rebuilt   *)
(* when their image cannot be pulled, and annotated objects are waited     *)
(* for, with the rules of Poll.                                            *)
(*                                                                         *)
(* Every owner (a SpecialResource or a SpecialResourceModule, in a         *)
(* namespace of its own) has a chart: the sequence of its objects in the   *)
(* order they are reached, at most one DaemonSet among them (whose pods    *)
(* are those of the owner).  A worker reconciles one owner at a time; an   *)
(* error ends the pass and queues the owner again.  The workers share the  *)
(* package variables UpdateVendor and clients.Namespace.                   *)
(*                                                                         *)
(* Around them run the controllers of the cluster: DaemonSets get a pod    *)
(* per node, kubelets pull images, builds publish the image the pods need, *)
(* and each publishes the status of its object in its own time.            *)
(***************************************************************************)
EXTENDS Poll, Sequences, FiniteSets

CONSTANTS
    Owner, Worker,
    WorkerOf,      \* [Owner -> Worker]: the controller of each owner
    Watched,       \* [Worker -> SUBSET Kinds]: the kinds its controller owns
    Scenarios,     \* the charts of the owners, [Owner -> Seq(Manifest)]
    Node,
    NoVendor,      \* UpdateVendor = ""
    None,
    MaxRevisions,  \* edits of an owner that change its templates
    MaxMishaps     \* calls that fail, lists of pods that are behind, objects deleted
                   \* by users and restarts, in all

Kinds == {"BuildConfig", "DaemonSet", "Deployment", "StatefulSet", "Job", "Pod",
          "CustomResourceDefinition", "Secret"}

\* An object of a chart and the annotations that matter: driver is the state
\* driver-container, vendor that a driver-container-vendor is named (each owner
\* has a vendor of its own), affine is kernel-affine; the node selector of a
\* DaemonSet matches nodes.
Manifest == [kind : Kinds, wait : BOOLEAN, logs : BOOLEAN, driver : BOOLEAN,
             vendor : BOOLEAN, onDelete : BOOLEAN, affine : BOOLEAN, nodes : SUBSET Node]

F == INSTANCE Filter

ASSUME ResourceAssumption ==
    /\ WorkerOf \in [Owner -> Worker] /\ Watched \in [Worker -> SUBSET Kinds]
    /\ Scenarios \subseteq [Owner -> Seq(Manifest)]
    /\ \A c \in Scenarios : \A o \in Owner : \A i, j \in DOMAIN c[o] :
          {c[o][i].kind, c[o][j].kind} = {"DaemonSet"} => i = j
    /\ IsFiniteSet(Node)
    /\ NoVendor \notin Owner
    /\ {MaxRevisions, MaxMishaps} \subseteq Nat

VARIABLES
    chart,         \* the charts, chosen once
    revision,      \* the revision of each owner's templates
    store,         \* [o -> [i -> None or the object]]
    pods,          \* [o -> [Node -> None or a pod of its DaemonSet]]
    builds,        \* [o -> Seq of phases]: the builds of its BuildConfig
    image,         \* owners whose driver image can be pulled
    UpdateVendor,
    Namespace,     \* clients.Namespace
    queue,
    run,           \* what each worker is doing
    was,           \* <<o, i>> that were available since they were created
    refused,       \* owners with a pod that could not pull its image
    blind,         \* owners whose latest pass waited for pods it could not see
    mishaps

cluster == <<chart, revision, store, pods, builds, image, was, refused>>
shared  == <<UpdateVendor, Namespace>>
vars    == <<cluster, shared, queue, run, blind, mishaps>>

Object(o) == DOMAIN chart[o]

Idle == [owner |-> None, pc |-> "idle", at |-> 0, rev |-> 0, found |-> None,
         fresh |-> FALSE, gen |-> 0]

Init ==
    /\ chart \in Scenarios
    /\ revision = [o \in Owner |-> 1]
    /\ store = [o \in Owner |-> [i \in DOMAIN chart[o] |-> None]]
    /\ pods = [o \in Owner |-> [n \in Node |-> None]]
    /\ builds = [o \in Owner |-> <<>>]
    /\ image \in {S \in SUBSET Owner : {o \in Owner : \A i \in DOMAIN chart[o] : ~chart[o][i].vendor} \subseteq S}
    /\ UpdateVendor = NoVendor /\ Namespace = None
    /\ queue = {o \in Owner : chart[o] # <<>>}
    /\ run = [w \in Worker |-> Idle]
    /\ was = {} /\ refused = {} /\ blind = {}
    /\ mishaps = 0

-----------------------------------------------------------------------------
(* The cluster *)

Exists(o, i) == i \in Object(o) /\ store[o][i] # None

OfKind(o, kind) == {i \in Object(o) : Exists(o, i) /\ chart[o][i].kind = kind}

\* The status of a Deployment and of a StatefulSet with two replicas, by how far
\* their controllers have come since the object was created or updated.
Replicas == 2

ReplicaSets(x) ==
    (IF x.gen > 1 THEN {[replicas |-> Replicas, availableReplicas |-> Replicas]} ELSE {})
    \cup CASE x.stage = 0 -> {}
           [] x.stage = 1 -> {[replicas |-> 0, availableReplicas |-> Absent]}
           [] OTHER -> {[replicas |-> Replicas, availableReplicas |-> Written(x.stage - 2)]}

CurrentReplicas(x) == IF x.stage < Replicas THEN Written(x.stage) ELSE Replicas

FinalStage(kind) ==
    CASE kind = "Deployment" -> Replicas + 2
      [] kind = "StatefulSet" -> Replicas + 1
      [] kind \in {"Job", "Pod"} -> 2
      [] OTHER -> 0

\* What the poll rules are meant to find out: the pods run, the work is done.
Available(o, i) ==
    CASE chart[o][i].kind = "DaemonSet" ->
           \A n \in chart[o][i].nodes : pods[o][n] # None /\ pods[o][n].state = "running"
      [] chart[o][i].kind = "BuildConfig" -> \E b \in DOMAIN builds[o] : builds[o][b] = "Complete"
      [] OTHER -> store[o][i].stage = FinalStage(chart[o][i].kind)

NowAvailable == UNION {{<<o, i>> : i \in {i \in Object(o) : Exists(o, i) /\ Available(o, i)}} : o \in Owner}

\* The informers' notification of an update of an owned object, through the filter
\* of the owner's controller.
Notify(o, i, sameGeneration) ==
    IF /\ chart[o][i].kind \in Watched[WorkerOf[o]]
       /\ F!UpdateFunc([custom |-> FALSE, unmanaged |-> FALSE, owned |-> TRUE,
                        affine |-> chart[o][i].affine], sameGeneration, FALSE)
    THEN {o} ELSE {}

\* The same for its creation and its deletion.
NotifyAlways(o, i) == IF chart[o][i].kind \in Watched[WorkerOf[o]] THEN {o} ELSE {}

\* The object is written by someone else: what a worker found of it is outdated.
Touch(o, i) == run' = [w \in Worker |-> IF run[w].owner = o /\ run[w].at = i
                                        THEN [run[w] EXCEPT !.fresh = FALSE] ELSE run[w]]

\* The controller of a Deployment, StatefulSet, Job or Pod makes progress.
Progress(o, i) ==
    /\ Exists(o, i) /\ store[o][i].stage < FinalStage(chart[o][i].kind)
    /\ store' = [store EXCEPT ![o][i].stage = @ + 1]
    /\ queue' = queue \cup Notify(o, i, TRUE)
    /\ Touch(o, i)
    /\ UNCHANGED <<chart, revision, pods, builds, image, refused, blind, shared, mishaps>>
    /\ was' = was \cup NowAvailable'

\* The DaemonSet controller.
CreatePod(o, n) ==
    \E i \in OfKind(o, "DaemonSet") :
       /\ n \in chart[o][i].nodes /\ pods[o][n] = None
       /\ pods' = [pods EXCEPT ![o][n] = [gen |-> store[o][i].gen, state |-> "pending"]]
       /\ UNCHANGED <<chart, revision, store, builds, image, was, refused, blind, shared, queue, run, mishaps>>

\* Pods made from an older template are deleted by the controller, or, with the
\* strategy OnDelete, by the administrator.
DeleteOldPod(o, n) ==
    \E i \in OfKind(o, "DaemonSet") :
       /\ pods[o][n] # None /\ pods[o][n].gen < store[o][i].gen
       /\ pods' = [pods EXCEPT ![o][n] = None]
       /\ UNCHANGED <<chart, revision, store, builds, image, was, refused, blind, shared, queue, run, mishaps>>

Running(o) == Cardinality({n \in Node : pods[o][n] # None /\ pods[o][n].state = "running"})

PublishStatus(o) ==
    \E i \in OfKind(o, "DaemonSet") :
       LET wanted == Cardinality(chart[o][i].nodes)
           status == [desiredNumberScheduled |-> wanted,
                      numberAvailable |-> Written(Running(o)),
                      numberUnavailable |-> Written(wanted - Running(o))]
       IN  /\ store[o][i].status # status
           /\ store' = [store EXCEPT ![o][i].status = status]
           /\ queue' = queue \cup Notify(o, i, TRUE)
           /\ Touch(o, i)
           /\ UNCHANGED <<chart, revision, pods, builds, image, was, refused, blind, shared, mishaps>>

\* The kubelet: a pod without container statuses, then waiting for its container,
\* then for its image, then running.
StartPod(o, n) ==
    /\ pods[o][n] # None
    /\ \/ /\ pods[o][n].state = "pending"
          /\ pods' = [pods EXCEPT ![o][n].state = "creating"]
          /\ UNCHANGED refused
       \/ /\ pods[o][n].state = "creating" /\ o \notin image
          /\ pods' = [pods EXCEPT ![o][n].state = "ImagePullBackOff"]
          /\ refused' = refused \cup {o}
       \/ /\ pods[o][n].state \in {"creating", "ImagePullBackOff"} /\ o \in image
          /\ pods' = [pods EXCEPT ![o][n].state = "running"]
          /\ UNCHANGED refused
    /\ UNCHANGED <<chart, revision, store, builds, image, blind, shared, queue, run, mishaps>>
    /\ was' = was \cup NowAvailable'

\* The build controller: a build per configuration, one at a time.
StartBuild(o) ==
    \E i \in OfKind(o, "BuildConfig") :
       /\ Len(builds[o]) < store[o][i].gen /\ \A b \in DOMAIN builds[o] : builds[o][b] # "Running"
       /\ builds' = [builds EXCEPT ![o] = Append(@, "Running")]
       /\ UNCHANGED <<chart, revision, store, pods, image, was, refused, blind, shared, queue, run, mishaps>>

CompleteBuild(o) ==
    \E b \in DOMAIN builds[o] :
       /\ builds[o][b] = "Running"
       /\ builds' = [builds EXCEPT ![o][b] = "Complete"]
       /\ image' = image \cup {o}
       /\ UNCHANGED <<chart, revision, store, pods, refused, blind, shared, queue, run, mishaps>>
       /\ was' = was \cup NowAvailable'

Cluster(o) ==
    \/ \E i \in Object(o) : Progress(o, i)
    \/ \E n \in Node : CreatePod(o, n) \/ StartPod(o, n)
    \/ PublishStatus(o) \/ StartBuild(o) \/ CompleteBuild(o)

-----------------------------------------------------------------------------
(* Users *)

Mishap == mishaps < MaxMishaps /\ mishaps' = mishaps + 1

Revise(o) ==
    /\ chart[o] # <<>> /\ revision[o] < MaxRevisions
    /\ revision' = [revision EXCEPT ![o] = @ + 1]
    /\ queue' = queue \cup {o}
    /\ UNCHANGED <<chart, store, pods, builds, image, was, refused, blind, shared, run, mishaps>>

\* With its object go the pods of a DaemonSet and the builds of a BuildConfig.
DeleteObject(o, i) ==
    /\ Exists(o, i)
    /\ Mishap
    /\ store' = [store EXCEPT ![o][i] = None]
    /\ pods' = IF chart[o][i].kind = "DaemonSet" THEN [pods EXCEPT ![o] = [n \in Node |-> None]] ELSE pods
    /\ builds' = IF chart[o][i].kind = "BuildConfig" THEN [builds EXCEPT ![o] = <<>>] ELSE builds
    /\ queue' = queue \cup NotifyAlways(o, i)
    /\ Touch(o, i)
    /\ UNCHANGED <<chart, revision, image, was, refused, blind, shared>>

\* The process stops and starts again.
Restart ==
    /\ Mishap
    /\ UpdateVendor' = NoVendor /\ Namespace' = None
    /\ queue' = {o \in Owner : chart[o] # <<>>}
    /\ run' = [w \in Worker |-> Idle]
    /\ UNCHANGED <<cluster, blind>>

-----------------------------------------------------------------------------
(* A worker *)

M(w) == chart[run[w].owner][run[w].at]
X(w) == store[run[w].owner][run[w].at]

Set(w, r) == run' = [run EXCEPT ![w] = r]

\* The error ends the pass; the owner is queued again.
Fail(w) == Set(w, Idle) /\ queue' = queue \cup {run[w].owner}

\* Mutant: one object too many.
AdvanceTooFar(w) ==
    Set(w, IF run[w].at <= Len(chart[run[w].owner])
           THEN [run[w] EXCEPT !.at = @ + 1, !.pc = "get", !.found = None, !.fresh = FALSE, !.gen = 0]
           ELSE Idle)

\* On to the next object, or the end of the pass.
Advance(w) ==
    Set(w, IF run[w].at < Len(chart[run[w].owner])
           THEN [run[w] EXCEPT !.at = @ + 1, !.pc = "get", !.found = None, !.fresh = FALSE,
                               !.gen = 0]
           ELSE Idle)

Begin(w) ==
    \E o \in queue :
       /\ run[w].pc = "idle" /\ WorkerOf[o] = w
       /\ queue' = queue \ {o}
       /\ Set(w, [Idle EXCEPT !.owner = o, !.pc = "get", !.at = 1, !.rev = revision[o]])
       /\ blind' = blind \ {o}
       /\ UNCHANGED <<cluster, shared, mishaps>>

IsNotUpdateable(kind) == kind = "Pod"

NeedsResourceVersionUpdate(kind) ==
    kind \in {"BuildConfig", "CustomResourceDefinition", "Deployment"}

\* A revision changes these; the hash of the others stays.
Revised == {"BuildConfig", "DaemonSet", "Deployment", "Secret"}

Hash(w) == IF M(w).kind \in Revised THEN run[w].rev ELSE 1

\* Mutant: a driver container is built when any is asked for.
skipRebuildForNobody(w) ==
    M(w).kind = "BuildConfig" /\ M(w).vendor /\ UpdateVendor = NoVendor

\* UpdateVendor is the vendor of the last driver container found without its image.
skipRebuildDriverContainer(w) ==
    M(w).kind = "BuildConfig" /\ M(w).vendor /\ UpdateVendor # run[w].owner

\* createObjFromYAML up to the point where crud knows what to write.
Get(w) ==
    /\ run[w].pc = "get"
    /\ \/ skipRebuildDriverContainer(w) /\ Advance(w) /\ UNCHANGED <<queue, mishaps>>
       \/ /\ ~skipRebuildDriverContainer(w)
          /\ LET done == X(w) # None /\ (IsNotUpdateable(M(w).kind) \/ X(w).hash = Hash(w))
             IN  Set(w, [run[w] EXCEPT !.pc = IF done THEN "after" ELSE "write",
                                       !.found = X(w), !.fresh = TRUE,
                                       !.gen = IF done THEN X(w).gen ELSE 0])
          /\ UNCHANGED <<queue, mishaps>>
       \/ ~skipRebuildDriverContainer(w) /\ Mishap /\ Fail(w)
    /\ UNCHANGED <<cluster, shared, blind>>

\* crud: the object that was not found is created.
Create(w) ==
    /\ run[w].pc = "write" /\ run[w].found = None
    /\ UNCHANGED <<chart, revision, pods, builds, image, refused, blind, shared>>
    /\ LET o == run[w].owner
           i == run[w].at
       IN  \/ /\ store[o][i] = None
              /\ store' = [store EXCEPT ![o][i] =
                    [hash |-> Hash(w), gen |-> 1, stage |-> 0,
                     status |-> [desiredNumberScheduled |-> 0, numberAvailable |-> Absent,
                                 numberUnavailable |-> Absent]]]
              /\ was' = (was \ {<<o, i>>}) \cup NowAvailable'
              /\ queue' = queue \cup NotifyAlways(o, i)
              /\ Set(w, [run[w] EXCEPT !.pc = "after", !.gen = 1])
              /\ UNCHANGED mishaps
           \/ Mishap /\ Fail(w) /\ UNCHANGED <<store, was>>

\* crud: the object that was found differs, and is updated.  The generation left in
\* the object for the poll is that of what was found.
Update(w) ==
    /\ run[w].pc = "write" /\ run[w].found # None
    /\ LET o == run[w].owner
           i == run[w].at
           refuses == store[o][i] = None \/ (NeedsResourceVersionUpdate(M(w).kind) /\ ~run[w].fresh)
       IN  \/ /\ ~refuses
              /\ store' = [store EXCEPT ![o][i] = [X(w) EXCEPT !.hash = Hash(w), !.gen = X(w).gen + 1, !.stage = 0]]
              /\ queue' = queue \cup Notify(o, i, FALSE)
              /\ Set(w, [run[w] EXCEPT !.pc = "after", !.gen = run[w].found.gen])
              /\ UNCHANGED mishaps
           \/ refuses /\ Fail(w) /\ UNCHANGED <<store, mishaps>>
           \/ Mishap /\ Fail(w) /\ UNCHANGED store
    /\ UNCHANGED <<chart, revision, pods, builds, image, was, refused, blind, shared>>

PodGenerations(o) == {pods[o][n].gen : n \in {n \in Node : pods[o][n] # None}}

\* ForDaemonSet.  Its pods are looked up in the informers' copies of the DaemonSet
\* and of the pods.  A copy that is behind, or a read that fails, may show none.
ForDaemonSet(w, listed) ==
    /\ X(w) # None
    /\ forLifecycleAvailability(M(w).onDelete, run[w].gen, IF listed THEN PodGenerations(run[w].owner) ELSE {})
    /\ forDaemonSetCallback(X(w).status)

\* Mutant: the vendor is not kept.
CheckOnlyForImagePullBackOff(w) ==
    LET o == run[w].owner
        decide == {n \in Node : pods[o][n] # None /\ pods[o][n].state # "pending"}
    IN  IF \E n \in decide : pods[o][n].state # "ImagePullBackOff"
        THEN UpdateVendor' = NoVendor /\ Set(w, [run[w] EXCEPT !.pc = "wait"]) /\ UNCHANGED queue
        ELSE Fail(w) /\ UNCHANGED UpdateVendor

\* checkForImagePullBackOff: the first pod with container statuses decides.
CheckForImagePullBackOff(w) ==
    LET o == run[w].owner
        decide == {n \in Node : pods[o][n] # None /\ pods[o][n].state # "pending"}
    IN  IF decide = {} THEN Fail(w) /\ UNCHANGED UpdateVendor
        ELSE \E n \in decide :
                IF pods[o][n].state = "ImagePullBackOff" /\ M(w).vendor
                THEN UpdateVendor' = o /\ Fail(w)
                ELSE UpdateVendor' = NoVendor /\ Set(w, [run[w] EXCEPT !.pc = "wait"]) /\ UNCHANGED queue

\* The same with a list that cannot be had or is behind: of a pod that is no longer
\* there, or no longer without its image.
CheckForStalePods(w) ==
    \/ Fail(w) /\ UNCHANGED UpdateVendor
    \/ M(w).vendor /\ run[w].owner \in refused /\ Fail(w) /\ UpdateVendor' = run[w].owner
    \/ /\ \/ ForDaemonSet(w, FALSE) /\ UNCHANGED UpdateVendor
          \/ UpdateVendor' = NoVendor
       /\ Set(w, [run[w] EXCEPT !.pc = "wait"])
       /\ UNCHANGED queue

\* afterCRUD, up to the waits.
After(w) ==
    /\ run[w].pc = "after"
    /\ Namespace' = run[w].owner
    /\ \/ /\ M(w).driver => ForDaemonSet(w, TRUE)
          /\ Set(w, [run[w] EXCEPT !.pc = "wait"])
          /\ UNCHANGED <<UpdateVendor, queue, mishaps>>
       \/ /\ M(w).driver /\ ~ForDaemonSet(w, TRUE)
          /\ CheckForImagePullBackOff(w)
          /\ UNCHANGED mishaps
       \/ M(w).driver /\ Mishap /\ CheckForStalePods(w)
    /\ UNCHANGED <<cluster, blind>>

\* ForResource: the rule of the kind.  forBuild lists the builds of the namespace
\* some afterCRUD set last, and takes the first one of this BuildConfig, which it
\* knows by name: those of different owners have different names here.
ForResource(w, listed) ==
    LET o == run[w].owner
        x == X(w)
    IN  /\ x # None
        /\ CASE M(w).kind = "BuildConfig" ->
                  Namespace = o /\ builds[o] # <<>> /\ forPhase(builds[o][1], "Complete")
             [] M(w).kind = "DaemonSet" -> ForDaemonSet(w, listed)
             [] M(w).kind = "Deployment" -> forDeployment(ReplicaSets(x))
             [] M(w).kind = "StatefulSet" -> forStatefulSet(Replicas, CurrentReplicas(x))
             [] M(w).kind = "Job" -> forJob(IF x.stage = 2 THEN {"Complete"} ELSE {})
             [] M(w).kind = "Pod" -> forPhase(x.stage, FinalStage("Pod"))
             [] OTHER -> TRUE

\* The logs of the pods found in the namespace set last.
LogsMatch(w) ==
    ForDaemonSetLogs(IF Namespace = run[w].owner
                     THEN {pods[Namespace][n].state = "running" : n \in {n \in Node : pods[Namespace][n] # None}}
                     ELSE {})

Waits(w) == M(w).wait \/ M(w).kind = "CustomResourceDefinition"

\* afterCRUD: the annotations wait and wait-for-logs.
Wait(w) ==
    /\ run[w].pc = "wait"
    /\ \/ /\ Waits(w) => ForResource(w, TRUE)
          /\ M(w).logs => LogsMatch(w)
          /\ Advance(w) /\ UNCHANGED <<queue, blind, mishaps>>
       \/ /\ (Waits(w) /\ ~ForResource(w, TRUE)) \/ (M(w).logs /\ ~LogsMatch(w))
          /\ Fail(w) /\ UNCHANGED <<blind, mishaps>>
       \/ /\ Waits(w) /\ M(w).kind = "DaemonSet" /\ Mishap
          /\ ForResource(w, FALSE) /\ (M(w).logs => LogsMatch(w))
          /\ Advance(w) /\ blind' = blind \cup {run[w].owner} /\ UNCHANGED queue
       \/ (Waits(w) \/ M(w).logs) /\ Mishap /\ Fail(w) /\ UNCHANGED blind
    /\ UNCHANGED <<cluster, shared>>

Work(w) == Begin(w) \/ Get(w) \/ Create(w) \/ Update(w) \/ After(w) \/ Wait(w)

Next ==
    \/ \E w \in Worker : Work(w)
    \/ \E o \in Owner : \/ Cluster(o) \/ Revise(o)
                        \/ \E n \in Node : DeleteOldPod(o, n)
                        \/ \E i \in Object(o) : DeleteObject(o, i)
    \/ Restart

Spec == Init /\ [][Next]_vars

\* A worker takes queued owners and its passes end.  The cluster's controllers do
\* their work, and an administrator deletes the old pods of a DaemonSet in the end.
Fairness ==
    /\ \A w \in Worker : WF_vars(Work(w))
    /\ \A o \in Owner : WF_vars(Cluster(o) \/ \E n \in Node : DeleteOldPod(o, n))

FairSpec == Spec /\ Fairness

-----------------------------------------------------------------------------
(* Properties *)

\* The type invariant: a worker is at an object of its owner's chart, and holds what
\* it found of it.
TypeOK ==
    /\ chart \in Scenarios
    /\ \A o \in Owner : /\ revision[o] \in 1..(MaxRevisions + 1)
                        /\ \A b \in DOMAIN builds[o] : builds[o][b] \in {"Running", "Complete"}
    /\ image \subseteq Owner /\ refused \subseteq Owner /\ queue \subseteq Owner /\ blind \subseteq Owner
    /\ UpdateVendor \in Owner \cup {NoVendor} /\ Namespace \in Owner \cup {None}
    /\ \A w \in Worker :
         \/ run[w] = Idle
         \/ /\ WorkerOf[run[w].owner] = w
            /\ run[w].pc \in {"get", "write", "after", "wait"} /\ run[w].at \in Object(run[w].owner)
    /\ mishaps \in 0..MaxMishaps

\* Objects the pass of a worker has come past.
Past(w) == IF run[w] = Idle THEN {} ELSE 1..(run[w].at - 1)

\* An object that is waited for was really available, at some time since it was
\* created, before anything that comes after it is touched: the lag of the status
\* behind the pods never makes a wait succeed too early.
WaitIsSound ==
    \A w \in Worker : \A i \in Past(w) :
       LET m == chart[run[w].owner][i]
       IN  /\ m.wait /\ m.kind \notin {"Deployment", "StatefulSet"} /\ ~(m.kind = "BuildConfig" /\ m.vendor)
           => <<run[w].owner, i>> \in was

\* "We are only building a driver-container if we cannot pull the image": a
\* BuildConfig of a vendor exists only if one of its own pods could not be started,
\* whatever the driver containers of other vendors ask for.
BuildIsNeeded ==
    \A o \in Owner : \A i \in OfKind(o, "BuildConfig") : chart[o][i].vendor => o \in refused

Drivers == {o \in Owner : \E i \in Object(o) : chart[o][i].driver}

\* An object of a kind its controller does not own is not created again.
AllDone == \A o \in Owner : \A i \in Object(o) :
              \/ chart[o][i].kind = "BuildConfig"
              \/ chart[o][i].kind \notin Watched[WorkerOf[o]] /\ ~Exists(o, i)
              \/ Exists(o, i) /\ Available(o, i)

\* With one driver container, every chart is installed in the end: an image that
\* cannot be pulled is built, although the request to build it is kept in a
\* variable that is lost in a restart, and the workers come to rest.
ComesToRest ==
    Cardinality(Drivers) < 2 => <>[](AllDone /\ queue = {} /\ \A w \in Worker : run[w] = Idle)

OldPods(o) == \E i \in OfKind(o, "DaemonSet") :
                 chart[o][i].wait /\ chart[o][i].onDelete /\ ~(PodGenerations(o) \subseteq {store[o][i].gen})

\* A controller that watches DaemonSets does not rest while pods of an older template
\* run: a pass that updated one does not see them, but the pass its own update causes
\* does, whatever calls fail and whoever restarts, unless the list of pods itself is
\* behind or cannot be had (forLifecycleAvailability takes that for no pods, and
\* nothing makes the controller look again).
OldPodsAreSeen ==
    \A o \in Owner \ blind :
        OldPods(o) /\ "DaemonSet" \in Watched[WorkerOf[o]]
        => o \in queue \/ \E w \in Worker : run[w].owner = o

\* "we need to update the template generation for daemonset, since it will be used
\* in the poll": no pod of an older template runs when a wait for a DaemonSet with
\* the strategy OnDelete is over.
NoOldPods ==
    \A w \in Worker : \A i \in Past(w) :
       chart[run[w].owner][i].kind = "DaemonSet" /\ chart[run[w].owner][i].wait => ~OldPods(run[w].owner)

=============================================================================
