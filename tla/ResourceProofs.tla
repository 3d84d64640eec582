---------------------------- MODULE ResourceProofs ----------------------------
(***************************************************************************)
(* For any charts, owners, workers, nodes, revisions and mishaps: a driver *)
(* container is only built if one of its own pods could not pull its       *)
(* image; an object that is waited for was available before the next one   *)
(* is touched; and no controller rests while old pods of a DaemonSet it    *)
(* waits for are running.                                                  *)
(***************************************************************************)
EXTENDS Resource, FiniteSetTheorems, TLAPS

\* Most steps are first-order; the time given to a prover covers what the proof
\* manager does meanwhile.
USE ZenonT(3), SMTT(20), ZenonT(30)

Phase == {"Running", "Complete"}

StoreTypes ==
    /\ chart \in Scenarios
    /\ store = [o \in Owner |-> [i \in DOMAIN chart[o] |-> store[o][i]]]

\* A pod is known to lack its image only if it was refused.
PodTypes ==
    /\ pods = [o \in Owner |-> [n \in Node |-> pods[o][n]]]
    /\ \A o \in Owner : \A n \in Node : pods[o][n] # None =>
          /\ pods[o][n] = [gen |-> pods[o][n].gen, state |-> pods[o][n].state]
          /\ pods[o][n].state = "ImagePullBackOff" => o \in refused

OtherTypes ==
    /\ revision \in [Owner -> 1..(MaxRevisions + 1)]
    /\ builds \in [Owner -> Seq(Phase)]
    /\ image \subseteq Owner /\ refused \subseteq Owner
    /\ mishaps \in 0..MaxMishaps

\* A worker that is not idle is at an object of its owner's chart, and about to
\* write a vendor's BuildConfig only if the vendor's image was refused.
Working(w, r) ==
    /\ r.owner \in Owner /\ WorkerOf[r.owner] = w
    /\ r.pc \in {"get", "write", "after", "wait"}
    /\ r.at \in DOMAIN chart[r.owner]
    /\ r = [owner |-> r.owner, pc |-> r.pc, at |-> r.at, rev |-> r.rev, found |-> r.found,
            fresh |-> r.fresh, gen |-> r.gen]
    /\ /\ r.pc = "write" /\ chart[r.owner][r.at].kind = "BuildConfig" /\ chart[r.owner][r.at].vendor
       => r.owner \in refused

Runs ==
    /\ run = [w \in Worker |-> run[w]]
    /\ \A w \in Worker : run[w] = Idle \/ Working(w, run[w])

\* Owners whose chart has objects.
Queueable == {o \in Owner : DOMAIN chart[o] # {}}

\* The package variables: a vendor to be built was refused.
Globals ==
    /\ queue \subseteq Queueable
    /\ UpdateVendor \in refused \cup {NoVendor} /\ Namespace \in Owner \cup {None}

IInv == StoreTypes /\ PodTypes /\ OtherTypes /\ Runs /\ Globals /\ BuildIsNeeded

-----------------------------------------------------------------------------
\* An owner with a chart has an object to start with.
LEMMA NonEmpty ==
    ASSUME StoreTypes
    PROVE  \A o \in Owner : chart[o] # <<>> => DOMAIN chart[o] # {}
<1> SUFFICES ASSUME NEW o \in Owner, chart[o] # <<>> PROVE DOMAIN chart[o] # {}
  OBVIOUS
<1>1. chart[o] \in Seq(Manifest)
  BY ResourceAssumption DEF StoreTypes
<1>2. Len(chart[o]) \in Nat /\ Len(chart[o]) # 0 /\ DOMAIN chart[o] = 1..Len(chart[o])
  BY <1>1
<1> QED  BY <1>2

\* Before the first pass there is nothing.
THEOREM Initially == Init => IInv
<1> SUFFICES ASSUME Init PROVE IInv
  OBVIOUS
<1> USE ResourceAssumption
<1>1. StoreTypes
  BY DEF Init, StoreTypes
<1>2. PodTypes
  BY DEF Init, PodTypes
<1>3. OtherTypes
  <2>1. <<>> \in Seq(Phase) /\ 1 \in 1..(MaxRevisions + 1) /\ MaxMishaps \in Nat
    OBVIOUS
  <2> QED  BY <2>1 DEF Init, OtherTypes
<1>4. Runs
  BY DEF Init, Runs
<1>5. Globals
  <2>1. \A o \in Owner : chart[o] # <<>> => DOMAIN chart[o] # {}
    BY <1>1, NonEmpty
  <2> QED  BY <2>1 DEF Init, Globals, Queueable
<1>6. BuildIsNeeded
  BY DEF Init, BuildIsNeeded, OfKind, Exists, Object
<1> QED  BY <1>1, <1>2, <1>3, <1>4, <1>5, <1>6 DEF IInv

\* Objects that are there stay, go, or are of no vendor.
LEMMA NeedKeeps ==
    ASSUME BuildIsNeeded, UNCHANGED chart, refused \subseteq refused',
           \A o \in Owner : \A i \in Object(o) : store'[o][i] # None =>
              store[o][i] # None \/ (chart[o][i].kind = "BuildConfig" /\ chart[o][i].vendor => o \in refused')
    PROVE  BuildIsNeeded'
  BY DEF BuildIsNeeded, OfKind, Exists, Object

\* What a worker knows does not change with what others do to its object.
LEMMA RunsKeep ==
    ASSUME Runs, UNCHANGED chart, refused \subseteq refused', UNCHANGED run \/ \E o, i : Touch(o, i)
    PROVE  Runs'
<1>1. CASE UNCHANGED run
  BY <1>1 DEF Runs, Working
<1>2. ASSUME NEW o, NEW i, Touch(o, i) PROVE Runs'
  <2>1. run' = [w \in Worker |-> run'[w]]
    BY <1>2 DEF Touch
  <2>2. ASSUME NEW w \in Worker, NEW r, r = run'[w] PROVE r = Idle \/ Working(w, r)'
    <3>1. r = run[w] \/ r = [run[w] EXCEPT !.fresh = FALSE]
      BY <1>2, <2>2 DEF Touch
    <3>2. CASE r = run[w]
      BY <3>2 DEF Runs, Working
    <3>3. CASE r = [run[w] EXCEPT !.fresh = FALSE] /\ run[w] = Idle
      <4>1. Idle.fresh = FALSE /\ DOMAIN Idle = DOMAIN [Idle EXCEPT !.fresh = FALSE]
        BY Zenon DEF Idle
      <4>2. Idle = [f \in DOMAIN Idle |-> Idle[f]]
        BY DEF Idle
      <4> HIDE DEF Idle
      <4>3. [Idle EXCEPT !.fresh = FALSE] = Idle
        BY <4>1, <4>2, Zenon
      <4> QED  BY <3>3, <4>3
    <3>4. CASE r = [run[w] EXCEPT !.fresh = FALSE] /\ Working(w, run[w])
      BY <3>4 DEF Working
    <3> QED  BY <3>1, <3>2, <3>3, <3>4 DEF Runs
  <2> QED  BY <2>1, <2>2 DEF Runs
<1> QED  BY <1>1, <1>2

\* One object is written.
LEMMA StoreKeeps ==
    ASSUME StoreTypes, NEW o \in Owner, NEW i \in Object(o), NEW x, UNCHANGED chart,
           store' = [store EXCEPT ![o][i] = x]
    PROVE  /\ StoreTypes'
           /\ \A p \in Owner : \A j \in Object(p) : (p = o /\ j = i) \/ store'[p][j] = store[p][j]
<1>1. store' = [p \in Owner |-> [j \in DOMAIN chart[p] |-> IF p = o /\ j = i THEN x ELSE store[p][j]]]
  BY DEF StoreTypes, Object
<1>2. \A p \in Owner : \A j \in DOMAIN chart[p] : store'[p][j] = IF p = o /\ j = i THEN x ELSE store[p][j]
  BY <1>1
<1>3. store' = [p \in Owner |-> [j \in DOMAIN chart[p] |-> store'[p][j]]]
  BY <1>1, <1>2
<1> QED  BY <1>2, <1>3 DEF StoreTypes, Object

\* One pod is written.
LEMMA PodsKeep ==
    ASSUME PodTypes, NEW o \in Owner, NEW n \in Node, NEW x, refused \subseteq refused',
           pods' = [pods EXCEPT ![o][n] = x],
           x # None => /\ x = [gen |-> x.gen, state |-> x.state]
                       /\ x.state = "ImagePullBackOff" => o \in refused'
    PROVE  PodTypes'
<1>1. pods' = [p \in Owner |-> [m \in Node |-> IF p = o /\ m = n THEN x ELSE pods[p][m]]]
  BY DEF PodTypes
<1>2. \A p \in Owner : \A m \in Node : pods'[p][m] = IF p = o /\ m = n THEN x ELSE pods[p][m]
  BY <1>1
<1>3. pods' = [p \in Owner |-> [m \in Node |-> pods'[p][m]]]
  BY <1>1, <1>2
<1>4. ASSUME NEW p \in Owner, NEW m \in Node, pods'[p][m] # None
      PROVE  /\ pods'[p][m] = [gen |-> pods'[p][m].gen, state |-> pods'[p][m].state]
             /\ pods'[p][m].state = "ImagePullBackOff" => p \in refused'
  <2>1. CASE p = o /\ m = n
    <3>1. pods'[p][m] = x
      BY <1>2, <2>1
    <3> QED  BY <1>4, <2>1, <3>1
  <2>2. CASE ~(p = o /\ m = n)
    <3>1. pods'[p][m] = pods[p][m]
      BY <1>2, <2>2
    <3> QED  BY <1>4, <3>1 DEF PodTypes
  <2> QED  BY <2>1, <2>2
<1> QED  BY <1>3, <1>4 DEF PodTypes

\* A notification queues the owner of the object, or nobody.
LEMMA Notified ==
    ASSUME NEW o \in Owner, NEW i \in Object(o), NEW g
    PROVE  Notify(o, i, g) \subseteq Queueable
  BY DEF Notify, Queueable, Object

\* The other controllers of the cluster change statuses, pods and builds.
LEMMA ClusterKeeps ==
    ASSUME IInv, NEW o \in Owner, Cluster(o)
    PROVE  IInv'
<1>1. ASSUME NEW i \in Object(o), Progress(o, i) PROVE IInv'
  <2>1. UNCHANGED <<chart, revision, pods, builds, image, refused, shared, mishaps>> /\ Touch(o, i) /\ Exists(o, i)
    BY <1>1 DEF Progress
  <2>2. store' = [store EXCEPT ![o][i] = [store[o][i] EXCEPT !.stage = store[o][i].stage + 1]]
    BY <1>1 DEF Progress
  <2>3. StoreTypes' /\ \A p \in Owner : \A j \in Object(p) : (p = o /\ j = i) \/ store'[p][j] = store[p][j]
    BY <2>1, <2>2, StoreKeeps DEF IInv
  <2>4. BuildIsNeeded'
    BY <2>1, <2>3, NeedKeeps DEF IInv, Exists
  <2>5. Runs'
    BY <2>1, RunsKeep DEF IInv
  <2>6. PodTypes' /\ OtherTypes'
    BY <2>1 DEF IInv, PodTypes, OtherTypes
  <2>7. Globals'
    BY <1>1, <2>1, Notified DEF IInv, Globals, Queueable, Progress, shared
  <2> QED  BY <2>3, <2>4, <2>5, <2>6, <2>7 DEF IInv
<1>2. ASSUME NEW n \in Node, CreatePod(o, n) PROVE IInv'
  <2>1. UNCHANGED <<chart, revision, store, builds, image, was, refused, shared, queue, run, mishaps>>
    BY <1>2 DEF CreatePod
  <2>2. PICK g : pods' = [pods EXCEPT ![o][n] = [gen |-> g, state |-> "pending"]]
    BY <1>2 DEF CreatePod
  <2>3. PodTypes'
    BY <2>1, <2>2, PodsKeep DEF IInv
  <2>4. BuildIsNeeded' /\ Runs'
    BY <2>1, NeedKeeps, RunsKeep DEF IInv
  <2> QED  BY <2>1, <2>3, <2>4 DEF IInv, StoreTypes, OtherTypes, Globals, Queueable, shared
<1>3. ASSUME NEW n \in Node, StartPod(o, n) PROVE IInv'
  <2>1. UNCHANGED <<chart, revision, store, builds, image, shared, queue, run, mishaps>> /\ pods[o][n] # None
    BY <1>3 DEF StartPod
  <2>2. refused \subseteq refused' /\ refused' \subseteq Owner
    BY <1>3 DEF StartPod, IInv, OtherTypes
  <2>3. PICK s : /\ pods' = [pods EXCEPT ![o][n].state = s]
                 /\ s = "ImagePullBackOff" => o \in refused'
    BY <1>3 DEF StartPod
  <2>4. pods' = [pods EXCEPT ![o][n] = [gen |-> pods[o][n].gen, state |-> s]]
    <3>1. [pods[o][n] EXCEPT !.state = s] = [gen |-> pods[o][n].gen, state |-> s]
      <4>1. PICK g, u : g = pods[o][n].gen /\ u = pods[o][n].state
        OBVIOUS
      <4>2. pods[o][n] = [gen |-> g, state |-> u]
        BY <2>1, <4>1 DEF IInv, PodTypes
      <4> QED  BY <4>1, <4>2
    <3>2. pods' = [pods EXCEPT ![o][n] = [pods[o][n] EXCEPT !.state = s]]
      BY <2>3
    <3> QED  BY <3>1, <3>2
  <2>5. PodTypes'
    <3> DEFINE x == [gen |-> pods[o][n].gen, state |-> s]
    <3>1. PICK y : y = x
      OBVIOUS
    <3>2. y = [gen |-> y.gen, state |-> y.state] /\ (y.state = "ImagePullBackOff" => o \in refused')
      BY <2>3, <3>1
    <3> QED  BY <2>2, <2>4, <3>1, <3>2, PodsKeep DEF IInv
  <2>6. BuildIsNeeded' /\ Runs'
    BY <2>1, <2>2, NeedKeeps, RunsKeep DEF IInv
  <2> QED  BY <2>1, <2>2, <2>5, <2>6 DEF IInv, StoreTypes, OtherTypes, Globals, Queueable, shared
<1>4. CASE PublishStatus(o)
  <2>1. UNCHANGED <<chart, revision, pods, builds, image, was, refused, shared, mishaps>>
    BY <1>4 DEF PublishStatus
  <2>2. PICK i \in OfKind(o, "DaemonSet") : \E st :
           /\ store' = [store EXCEPT ![o][i].status = st]
           /\ queue' = queue \cup Notify(o, i, TRUE) /\ Touch(o, i)
    BY <1>4 DEF PublishStatus
  <2>3. PICK st : store' = [store EXCEPT ![o][i] = [store[o][i] EXCEPT !.status = st]]
    BY <2>2
  <2>4. i \in Object(o) /\ Exists(o, i)
    BY DEF OfKind
  <2>5. StoreTypes' /\ \A p \in Owner : \A j \in Object(p) : (p = o /\ j = i) \/ store'[p][j] = store[p][j]
    BY <2>1, <2>3, <2>4, StoreKeeps DEF IInv
  <2>6. BuildIsNeeded'
    BY <2>1, <2>4, <2>5, NeedKeeps DEF IInv, Exists
  <2>7. Runs'
    BY <2>1, <2>2, RunsKeep DEF IInv
  <2>8. PodTypes' /\ OtherTypes'
    BY <2>1 DEF IInv, PodTypes, OtherTypes
  <2>9. Globals'
    BY <2>1, <2>2, <2>4, Notified DEF IInv, Globals, Queueable, shared
  <2> QED  BY <2>5, <2>6, <2>7, <2>8, <2>9 DEF IInv
<1>5. CASE StartBuild(o)
  <2>1. UNCHANGED <<chart, revision, store, pods, image, was, refused, shared, queue, run, mishaps>>
        /\ builds' = [builds EXCEPT ![o] = Append(builds[o], "Running")]
    BY <1>5 DEF StartBuild
  <2>2. builds' \in [Owner -> Seq(Phase)]
    BY <2>1 DEF IInv, OtherTypes, Phase
  <2>3. BuildIsNeeded' /\ Runs'
    BY <2>1, NeedKeeps, RunsKeep DEF IInv
  <2>4. StoreTypes' /\ PodTypes' /\ Globals'
    BY <2>1 DEF IInv, StoreTypes, PodTypes, Globals, Queueable, shared
  <2> QED  BY <2>1, <2>2, <2>3, <2>4 DEF IInv, OtherTypes
<1>6. CASE CompleteBuild(o)
  <2>1. UNCHANGED <<chart, revision, store, pods, refused, shared, queue, run, mishaps>> /\ image' = image \cup {o}
    BY <1>6 DEF CompleteBuild
  <2>2. PICK b \in DOMAIN builds[o] : builds' = [builds EXCEPT ![o] = [builds[o] EXCEPT ![b] = "Complete"]]
    BY <1>6 DEF CompleteBuild
  <2>3. builds' \in [Owner -> Seq(Phase)]
    <3>1. [builds[o] EXCEPT ![b] = "Complete"] \in Seq(Phase)
      BY DEF IInv, OtherTypes, Phase
    <3> QED  BY <2>2, <3>1 DEF IInv, OtherTypes
  <2>4. BuildIsNeeded' /\ Runs'
    BY <2>1, NeedKeeps, RunsKeep DEF IInv
  <2>5. StoreTypes' /\ PodTypes' /\ Globals'
    BY <2>1 DEF IInv, StoreTypes, PodTypes, Globals, Queueable, shared
  <2> QED  BY <2>1, <2>3, <2>4, <2>5 DEF IInv, OtherTypes
<1> QED  BY <1>1, <1>2, <1>3, <1>4, <1>5, <1>6 DEF Cluster

\* Users revise charts and delete objects and old pods.
LEMMA UsersKeep ==
    ASSUME IInv, NEW o \in Owner,
           \/ Revise(o)
           \/ \E n \in Node : DeleteOldPod(o, n)
           \/ \E i \in Object(o) : DeleteObject(o, i)
    PROVE  IInv'
<1> USE ResourceAssumption
<1>1. CASE Revise(o)
  <2>1. UNCHANGED <<chart, store, pods, builds, image, was, refused, shared, run, mishaps>> /\ queue' = queue \cup {o}
    BY <1>1 DEF Revise
  <2>2. revision' \in [Owner -> 1..(MaxRevisions + 1)]
    BY <1>1 DEF Revise, IInv, OtherTypes
  <2>3. BuildIsNeeded' /\ Runs'
    BY <2>1, NeedKeeps, RunsKeep DEF IInv
  <2>4. o \in Queueable
    BY <1>1, NonEmpty DEF Revise, IInv, Queueable
  <2>5. StoreTypes' /\ PodTypes' /\ Globals'
    BY <2>1, <2>4 DEF IInv, StoreTypes, PodTypes, Globals, Queueable, shared
  <2> QED  BY <2>1, <2>2, <2>3, <2>5 DEF IInv, OtherTypes
<1>2. ASSUME NEW n \in Node, DeleteOldPod(o, n) PROVE IInv'
  <2>1. UNCHANGED <<chart, revision, store, builds, image, was, refused, shared, queue, run, mishaps>>
        /\ pods' = [pods EXCEPT ![o][n] = None]
    BY <1>2 DEF DeleteOldPod
  <2>2. PodTypes'
    BY <2>1, PodsKeep DEF IInv
  <2>3. BuildIsNeeded' /\ Runs'
    BY <2>1, NeedKeeps, RunsKeep DEF IInv
  <2> QED  BY <2>1, <2>2, <2>3 DEF IInv, StoreTypes, OtherTypes, Globals, Queueable, shared
<1>3. ASSUME NEW i \in Object(o), DeleteObject(o, i) PROVE IInv'
  <2>1. /\ UNCHANGED <<chart, revision, image, was, refused, shared>> /\ Touch(o, i) /\ Mishap
        /\ store' = [store EXCEPT ![o][i] = None]
        /\ queue' = queue \cup NotifyAlways(o, i)
        /\ pods' = pods \/ pods' = [pods EXCEPT ![o] = [n \in Node |-> None]]
        /\ builds' = builds \/ builds' = [builds EXCEPT ![o] = <<>>]
    BY <1>3 DEF DeleteObject
  <2>2. StoreTypes' /\ \A p \in Owner : \A j \in Object(p) : (p = o /\ j = i) \/ store'[p][j] = store[p][j]
    BY <2>1, StoreKeeps DEF IInv
  <2>3. store'[o][i] = None
    BY <2>1 DEF IInv, StoreTypes, Object
  <2>4. BuildIsNeeded'
    BY <2>1, <2>2, <2>3, NeedKeeps DEF IInv
  <2>5. Runs'
    BY <2>1, RunsKeep DEF IInv
  <2>6. PodTypes'
    <3>1. CASE pods' = pods
      BY <2>1, <3>1 DEF IInv, PodTypes
    <3>2. CASE pods' = [pods EXCEPT ![o] = [n \in Node |-> None]]
      <4>1. pods' = [p \in Owner |-> [n \in Node |-> IF p = o THEN None ELSE pods[p][n]]]
        BY <3>2 DEF IInv, PodTypes
      <4>2. \A p \in Owner : \A n \in Node : pods'[p][n] = IF p = o THEN None ELSE pods[p][n]
        BY <4>1
      <4>3. pods' = [p \in Owner |-> [n \in Node |-> pods'[p][n]]]
        BY <4>1, <4>2
      <4>4. \A p \in Owner : \A n \in Node : pods'[p][n] = None \/ pods'[p][n] = pods[p][n]
        BY <4>2
      <4> QED  BY <2>1, <4>3, <4>4 DEF IInv, PodTypes
    <3> QED  BY <2>1, <3>1, <3>2
  <2>7. builds' \in [Owner -> Seq(Phase)]
    <3>1. <<>> \in Seq(Phase) /\ builds \in [Owner -> Seq(Phase)]
      BY DEF IInv, OtherTypes
    <3> QED  BY <2>1, <3>1
  <2>8. OtherTypes'
    BY <2>1, <2>7 DEF IInv, OtherTypes, Mishap
  <2>9. Globals'
    <3>1. NotifyAlways(o, i) \subseteq Queueable
      BY DEF NotifyAlways, Queueable, Object
    <3>2. queue' = queue \cup NotifyAlways(o, i) /\ UNCHANGED <<chart, refused, UpdateVendor, Namespace>>
      BY <2>1 DEF shared
    <3> QED  BY <3>1, <3>2 DEF IInv, Globals, Queueable
  <2> QED  BY <2>2, <2>4, <2>5, <2>6, <2>8, <2>9 DEF IInv
<1> QED  BY <1>1, <1>2, <1>3

\* What a worker writes into its own entry.
LEMMA SetKeeps ==
    ASSUME Runs, NEW w \in Worker, NEW r, Set(w, r), UNCHANGED <<chart, refused>>,
           r = Idle \/ Working(w, r)
    PROVE  Runs'
<1>1. run' = [run EXCEPT ![w] = r]
  BY DEF Set
<1>2. \A v \in Worker : run'[v] = IF v = w THEN r ELSE run[v]
  BY <1>1 DEF Runs
<1>3. run' = [v \in Worker |-> run'[v]]
  BY <1>1, <1>2 DEF Runs
<1>4. ASSUME NEW v \in Worker, NEW x, x = run'[v] PROVE x = Idle \/ Working(v, x)'
  <2>1. x = Idle \/ Working(v, x)
    BY <1>2, <1>4 DEF Runs
  <2> QED  BY <2>1 DEF Working
<1> QED  BY <1>3, <1>4 DEF Runs

\* The pass goes on to the next object, or ends.
LEMMA AdvanceKeeps ==
    ASSUME IInv, NEW w \in Worker, Working(w, run[w]), Advance(w), UNCHANGED <<chart, refused>>
    PROVE  Runs'
<1>1. PICK r : r = run[w]
  OBVIOUS
<1>2. Working(w, r) /\ chart[r.owner] \in Seq(Manifest)
  <2>1. Working(w, r) /\ r.owner \in Owner
    BY <1>1 DEF Working
  <2>2. chart \in Scenarios
    BY DEF IInv, StoreTypes
  <2> QED  BY <2>1, <2>2, ResourceAssumption
<1>3. PICK x : Set(w, x) /\ x = IF r.at < Len(chart[r.owner])
                              THEN [r EXCEPT !.at = r.at + 1, !.pc = "get", !.found = None, !.fresh = FALSE, !.gen = 0]
                              ELSE Idle
  BY <1>1 DEF Advance
<1>4. CASE r.at < Len(chart[r.owner])
  <2>1. x = [owner |-> r.owner, pc |-> "get", at |-> r.at + 1, rev |-> r.rev, found |-> None,
             fresh |-> FALSE, gen |-> 0]
    <3>1. PICK a, b, c, d, e, f, g : r = [owner |-> a, pc |-> b, at |-> c, rev |-> d, found |-> e, fresh |-> f, gen |-> g]
      <4>1. PICK a, b, c, d, e, f, g : a = r.owner /\ b = r.pc /\ c = r.at /\ d = r.rev /\ e = r.found /\ f = r.fresh /\ g = r.gen
        OBVIOUS
      <4> QED  BY <1>2, <4>1 DEF Working
    <3> QED  BY <1>3, <1>4, <3>1
  <2>2. r.at + 1 \in DOMAIN chart[r.owner]
    BY <1>2, <1>4 DEF Working
  <2>3. Working(w, x)
    BY <1>2, <2>1, <2>2 DEF Working
  <2> QED  BY <1>3, <2>3, SetKeeps DEF IInv
<1>5. CASE ~(r.at < Len(chart[r.owner]))
  BY <1>3, <1>5, SetKeeps DEF IInv
<1> QED  BY <1>4, <1>5

\* The worker moves on within its object.
LEMMA MoveKeeps ==
    ASSUME IInv, NEW w \in Worker, Working(w, run[w]), UNCHANGED <<chart, refused>>,
           NEW p \in {"after", "wait"}, NEW g,
           \/ Set(w, [run[w] EXCEPT !.pc = p])
           \/ Set(w, [run[w] EXCEPT !.pc = p, !.gen = g])
    PROVE  Runs'
<1>1. PICK r : r = run[w]
  OBVIOUS
<1>2. PICK x : Set(w, x) /\ (x = [r EXCEPT !.pc = p] \/ x = [r EXCEPT !.pc = p, !.gen = g])
  BY <1>1
<1>3. PICK y : x = [owner |-> r.owner, pc |-> p, at |-> r.at, rev |-> r.rev, found |-> r.found,
                    fresh |-> r.fresh, gen |-> y]
  BY <1>1, <1>2 DEF Working
<1>4. Working(w, x)
  BY <1>1, <1>3 DEF Working
<1> QED  BY <1>2, <1>4, SetKeeps DEF IInv

\* A pass that fails leaves its owner in the queue.
LEMMA FailKeeps ==
    ASSUME IInv, NEW w \in Worker, Working(w, run[w]), UNCHANGED <<chart, refused>>, Fail(w)
    PROVE  Runs' /\ queue' \subseteq Queueable
<1>1. Runs'
  BY SetKeeps DEF Fail, IInv
<1> QED  BY <1>1 DEF Fail, IInv, Globals, Queueable, Working

\* Reading the object: a vendor's BuildConfig is written only on request.
LEMMA GetKeeps ==
    ASSUME IInv, NEW w \in Worker, Get(w)
    PROVE  IInv'
<1> USE ResourceAssumption
<1>1. UNCHANGED <<cluster, shared>> /\ run[w].pc = "get"
  BY DEF Get
<1>2. Working(w, run[w])
  BY <1>1 DEF IInv, Runs, Idle
<1>3. StoreTypes' /\ PodTypes' /\ UNCHANGED <<chart, refused>>
  BY <1>1 DEF IInv, StoreTypes, PodTypes, cluster
<1>4. BuildIsNeeded'
  BY <1>1, NeedKeeps DEF IInv, cluster
<1>5. (UNCHANGED mishaps \/ Mishap) => OtherTypes'
  BY <1>1 DEF IInv, OtherTypes, Mishap, cluster
<1>6. queue' \subseteq Queueable => Globals'
  BY <1>1, <1>3 DEF IInv, Globals, Queueable, shared
<1>7. CASE Advance(w) /\ UNCHANGED <<queue, mishaps>>
  <2>1. Runs'
    BY <1>2, <1>3, <1>7, AdvanceKeeps
  <2> QED  BY <1>3, <1>4, <1>5, <1>6, <1>7, <2>1 DEF IInv, Globals, Queueable
<1>8. CASE Mishap /\ Fail(w)
  <2>1. Runs' /\ queue' \subseteq Queueable
    BY <1>2, <1>3, <1>8, FailKeeps
  <2> QED  BY <1>3, <1>4, <1>5, <1>6, <1>8, <2>1 DEF IInv
<1>9. ASSUME ~skipRebuildDriverContainer(w), UNCHANGED <<queue, mishaps>>,
             NEW p \in {"after", "write"}, NEW f, NEW g,
             Set(w, [run[w] EXCEPT !.pc = p, !.found = f, !.fresh = TRUE, !.gen = g])
      PROVE  IInv'
  <2>1. PICK r : r = run[w]
    OBVIOUS
  <2>2. PICK x : x = [owner |-> r.owner, pc |-> p, at |-> r.at, rev |-> r.rev, found |-> f, fresh |-> TRUE, gen |-> g]
    OBVIOUS
  <2>3. Set(w, x)
    <3>1. PICK a, b, c, d, h, k, l : a = r.owner /\ b = r.pc /\ c = r.at /\ d = r.rev /\ h = r.found /\ k = r.fresh /\ l = r.gen
      OBVIOUS
    <3>2. r = [owner |-> a, pc |-> b, at |-> c, rev |-> d, found |-> h, fresh |-> k, gen |-> l]
      BY <1>2, <2>1, <3>1 DEF Working
    <3>3. PICK y : y = [r EXCEPT !.pc = p, !.found = f, !.fresh = TRUE, !.gen = g]
      OBVIOUS
    <3>4. y = [owner |-> a, pc |-> p, at |-> c, rev |-> d, found |-> f, fresh |-> TRUE, gen |-> g]
      BY <3>2, <3>3, Zenon
    <3>5. y = x
      BY <2>2, <3>1, <3>4
    <3> QED  BY <1>9, <2>1, <3>3, <3>5
  <2>4. /\ chart[r.owner][r.at].kind = "BuildConfig" /\ chart[r.owner][r.at].vendor
        => r.owner \in refused
    <3>1. M(w) = chart[r.owner][r.at] /\ r.owner \in Owner
      BY <1>2, <2>1 DEF M, Working
    <3>2. M(w).kind = "BuildConfig" /\ M(w).vendor => UpdateVendor = r.owner
      BY <1>9, <2>1 DEF skipRebuildDriverContainer
    <3>3. UpdateVendor \in refused \cup {NoVendor}
      BY DEF IInv, Globals
    <3> QED  BY <3>1, <3>2, <3>3
  <2>5. Working(w, x)
    BY <1>2, <2>1, <2>2, <2>4 DEF Working
  <2>6. Runs'
    BY <1>3, <2>3, <2>5, SetKeeps DEF IInv
  <2> QED  BY <1>3, <1>4, <1>5, <1>6, <1>9, <2>6 DEF IInv, Globals, Queueable
<1>10. CASE /\ ~skipRebuildDriverContainer(w)
            /\ LET done == X(w) # None /\ (IsNotUpdateable(M(w).kind) \/ X(w).hash = Hash(w))
               IN  Set(w, [run[w] EXCEPT !.pc = IF done THEN "after" ELSE "write",
                                         !.found = X(w), !.fresh = TRUE,
                                         !.gen = IF done THEN X(w).gen ELSE 0])
            /\ UNCHANGED <<queue, mishaps>>
  <2> DEFINE done == X(w) # None /\ (IsNotUpdateable(M(w).kind) \/ X(w).hash = Hash(w))
  <2>1. Set(w, [run[w] EXCEPT !.pc = IF done THEN "after" ELSE "write",
                              !.found = X(w), !.fresh = TRUE,
                              !.gen = IF done THEN X(w).gen ELSE 0])
    BY <1>10
  <2> HIDE DEF done
  <2>2. PICK p, f, g : p = (IF done THEN "after" ELSE "write") /\ f = X(w) /\ g = IF done THEN X(w).gen ELSE 0
    OBVIOUS
  <2>3. p \in {"after", "write"}
    BY <2>2
  <2>4. Set(w, [run[w] EXCEPT !.pc = p, !.found = f, !.fresh = TRUE, !.gen = g])
    BY <2>1, <2>2
  <2> QED  BY <1>9, <1>10, <2>3, <2>4
<1> QED  BY <1>7, <1>8, <1>10 DEF Get

\* crud creates the object; if it is a vendor's BuildConfig it was asked for.
LEMMA CreateKeeps ==
    ASSUME IInv, NEW w \in Worker, Create(w)
    PROVE  IInv'
<1> USE ResourceAssumption
<1>1. UNCHANGED <<chart, revision, pods, builds, image, refused, shared>> /\ run[w].pc = "write"
  BY DEF Create
<1>2. Working(w, run[w])
  BY <1>1 DEF IInv, Runs, Idle
<1>3. PodTypes'
  BY <1>1 DEF IInv, PodTypes
<1>4. (UNCHANGED mishaps \/ Mishap) => OtherTypes'
  BY <1>1 DEF IInv, OtherTypes, Mishap
<1>5. queue' \subseteq Queueable => Globals'
  BY <1>1 DEF IInv, Globals, Queueable, shared
<1>6. PICK o, i : o = run[w].owner /\ i = run[w].at
  OBVIOUS
<1>7. o \in Owner /\ i \in Object(o)
  BY <1>2, <1>6 DEF Working, Object
<1>8. ASSUME NEW x, store' = [store EXCEPT ![o][i] = x], queue' = queue \cup NotifyAlways(o, i),
             Set(w, [run[w] EXCEPT !.pc = "after", !.gen = 1]), UNCHANGED mishaps
      PROVE  IInv'
  <2>1. StoreTypes' /\ \A p \in Owner : \A j \in Object(p) : (p = o /\ j = i) \/ store'[p][j] = store[p][j]
    BY <1>1, <1>7, <1>8, StoreKeeps DEF IInv
  <2>2. chart[o][i].kind = "BuildConfig" /\ chart[o][i].vendor => o \in refused
    BY <1>1, <1>2, <1>6 DEF Working
  <2>3. BuildIsNeeded'
    BY <1>1, <2>1, <2>2, NeedKeeps DEF IInv
  <2>4. Runs'
    BY <1>1, <1>2, <1>8, MoveKeeps
  <2>5. NotifyAlways(o, i) \subseteq Queueable
    BY <1>7 DEF NotifyAlways, Queueable, Object
  <2>6. queue' \subseteq Queueable
    BY <1>8, <2>5 DEF IInv, Globals, Queueable
  <2> QED  BY <1>3, <1>4, <1>5, <1>8, <2>1, <2>3, <2>4, <2>6 DEF IInv
<1>9. CASE Mishap /\ Fail(w) /\ UNCHANGED <<store, was>>
  <2>1. Runs' /\ queue' \subseteq Queueable
    BY <1>1, <1>2, <1>9, FailKeeps
  <2>2. StoreTypes' /\ BuildIsNeeded'
    BY <1>1, <1>9, NeedKeeps DEF IInv, StoreTypes
  <2> QED  BY <1>3, <1>4, <1>5, <1>9, <2>1, <2>2 DEF IInv
<1>10. \/ \E x : /\ store' = [store EXCEPT ![o][i] = x] /\ queue' = queue \cup NotifyAlways(o, i)
                 /\ Set(w, [run[w] EXCEPT !.pc = "after", !.gen = 1]) /\ UNCHANGED mishaps
       \/ Mishap /\ Fail(w) /\ UNCHANGED <<store, was>>
  BY <1>6 DEF Create
<1> QED  BY <1>8, <1>9, <1>10

\* crud updates the object it found.
LEMMA UpdateKeeps ==
    ASSUME IInv, NEW w \in Worker, Update(w)
    PROVE  IInv'
<1> USE ResourceAssumption
<1>1. UNCHANGED <<chart, revision, pods, builds, image, was, refused, shared>> /\ run[w].pc = "write"
  BY DEF Update
<1>2. Working(w, run[w])
  BY <1>1 DEF IInv, Runs, Idle
<1>3. PodTypes'
  BY <1>1 DEF IInv, PodTypes
<1>4. (UNCHANGED mishaps \/ Mishap) => OtherTypes'
  BY <1>1 DEF IInv, OtherTypes, Mishap
<1>5. queue' \subseteq Queueable => Globals'
  BY <1>1 DEF IInv, Globals, Queueable, shared
<1>6. PICK o, i : o = run[w].owner /\ i = run[w].at
  OBVIOUS
<1>7. o \in Owner /\ i \in Object(o)
  BY <1>2, <1>6 DEF Working, Object
<1>8. ASSUME NEW x, store' = [store EXCEPT ![o][i] = x], store[o][i] # None, queue' = queue \cup Notify(o, i, FALSE),
             NEW g, Set(w, [run[w] EXCEPT !.pc = "after", !.gen = g]), UNCHANGED mishaps
      PROVE  IInv'
  <2>1. StoreTypes' /\ \A p \in Owner : \A j \in Object(p) : (p = o /\ j = i) \/ store'[p][j] = store[p][j]
    BY <1>1, <1>7, <1>8, StoreKeeps DEF IInv
  <2>2. BuildIsNeeded'
    BY <1>1, <1>8, <2>1, NeedKeeps DEF IInv
  <2>3. Runs'
    BY <1>1, <1>2, <1>8, MoveKeeps
  <2>4. queue' \subseteq Queueable
    BY <1>7, <1>8, Notified DEF IInv, Globals, Queueable
  <2> QED  BY <1>3, <1>4, <1>5, <1>8, <2>1, <2>2, <2>3, <2>4 DEF IInv
<1>9. CASE Fail(w) /\ (UNCHANGED mishaps \/ Mishap) /\ UNCHANGED store
  <2>1. Runs' /\ queue' \subseteq Queueable
    BY <1>1, <1>2, <1>9, FailKeeps
  <2>2. StoreTypes' /\ BuildIsNeeded'
    BY <1>1, <1>9, NeedKeeps DEF IInv, StoreTypes
  <2> QED  BY <1>3, <1>4, <1>5, <1>9, <2>1, <2>2 DEF IInv
<1>10. \/ /\ store[o][i] # None /\ queue' = queue \cup Notify(o, i, FALSE) /\ UNCHANGED mishaps
          /\ store' = [store EXCEPT ![o][i] = [X(w) EXCEPT !.hash = Hash(w), !.gen = X(w).gen + 1, !.stage = 0]]
          /\ Set(w, [run[w] EXCEPT !.pc = "after", !.gen = run[w].found.gen])
       \/ Fail(w) /\ (UNCHANGED mishaps \/ Mishap) /\ UNCHANGED store
  BY <1>6 DEF Update
<1>11. ASSUME store[o][i] # None /\ queue' = queue \cup Notify(o, i, FALSE) /\ UNCHANGED mishaps,
              store' = [store EXCEPT ![o][i] = [X(w) EXCEPT !.hash = Hash(w), !.gen = X(w).gen + 1, !.stage = 0]],
              Set(w, [run[w] EXCEPT !.pc = "after", !.gen = run[w].found.gen])
       PROVE  IInv'
  <2>1. PICK x, g : x = [X(w) EXCEPT !.hash = Hash(w), !.gen = X(w).gen + 1, !.stage = 0] /\ g = run[w].found.gen
    OBVIOUS
  <2>2. store' = [store EXCEPT ![o][i] = x] /\ Set(w, [run[w] EXCEPT !.pc = "after", !.gen = g])
    BY <1>11, <2>1
  <2> QED  BY <1>8, <1>11, <2>2
<1> QED  BY <1>9, <1>10, <1>11

\* The steps of a worker that leave the cluster alone.
LEMMA WaitingKeeps ==
    ASSUME IInv, NEW w \in Worker, Working(w, run[w]), UNCHANGED cluster, UNCHANGED mishaps \/ Mishap,
           UpdateVendor' \in refused \cup {NoVendor}, Namespace' \in Owner \cup {None},
           \/ Advance(w) /\ UNCHANGED queue
           \/ Set(w, [run[w] EXCEPT !.pc = "wait"]) /\ UNCHANGED queue
           \/ Fail(w)
    PROVE  IInv'
<1>1. UNCHANGED <<chart, store, refused>>
  BY DEF cluster
<1>2. StoreTypes' /\ PodTypes' /\ OtherTypes'
  BY ResourceAssumption DEF IInv, StoreTypes, PodTypes, OtherTypes, Mishap, cluster
<1>3. BuildIsNeeded'
  BY <1>1, NeedKeeps DEF IInv
<1>4. queue \subseteq Queueable
  BY DEF IInv, Globals, Queueable
<1>5. CASE Advance(w) /\ UNCHANGED queue
  BY <1>1, <1>2, <1>3, <1>4, <1>5, AdvanceKeeps DEF IInv, Globals, Queueable
<1>6. CASE Set(w, [run[w] EXCEPT !.pc = "wait"]) /\ UNCHANGED queue
  <2>1. Runs'
    BY <1>1, <1>6, MoveKeeps
  <2> QED  BY <1>1, <1>2, <1>3, <1>4, <1>6, <2>1 DEF IInv, Globals, Queueable
<1>7. CASE Fail(w)
  BY <1>1, <1>2, <1>3, <1>7, FailKeeps DEF IInv, Globals, Queueable
<1> QED  BY <1>5, <1>6, <1>7

\* checkForImagePullBackOff asks for a build only of what was refused.
LEMMA AfterKeeps ==
    ASSUME IInv, NEW w \in Worker, After(w)
    PROVE  IInv'
<1>1. run[w].pc = "after" /\ UNCHANGED cluster /\ Namespace' = run[w].owner
  BY DEF After
<1>2. Working(w, run[w])
  BY <1>1 DEF IInv, Runs, Idle
<1>3. Namespace' \in Owner \cup {None} /\ UpdateVendor \in refused \cup {NoVendor}
  BY <1>1, <1>2 DEF IInv, Globals, Queueable, Working
<1>4. CASE Set(w, [run[w] EXCEPT !.pc = "wait"]) /\ UNCHANGED <<UpdateVendor, queue, mishaps>>
  BY <1>1, <1>2, <1>3, <1>4, WaitingKeeps
<1>5. CASE CheckForImagePullBackOff(w) /\ UNCHANGED mishaps
  <2>1. PICK o : o = run[w].owner
    OBVIOUS
  <2>2. \/ Fail(w) /\ UNCHANGED UpdateVendor
        \/ \E n \in Node : pods[o][n] # None /\ pods[o][n].state = "ImagePullBackOff" /\ UpdateVendor' = o /\ Fail(w)
        \/ UpdateVendor' = NoVendor /\ Set(w, [run[w] EXCEPT !.pc = "wait"]) /\ UNCHANGED queue
    BY <1>5, <2>1 DEF CheckForImagePullBackOff
  <2>3. UpdateVendor' \in refused \cup {NoVendor}
    BY <1>2, <1>3, <2>1, <2>2 DEF IInv, PodTypes, Working
  <2> QED  BY <1>1, <1>2, <1>3, <1>5, <2>2, <2>3, WaitingKeeps
<1>6. CASE Mishap /\ CheckForStalePods(w)
  <2>1. UpdateVendor' \in refused \cup {NoVendor}
    BY <1>3, <1>6 DEF CheckForStalePods
  <2>2. Fail(w) \/ (Set(w, [run[w] EXCEPT !.pc = "wait"]) /\ UNCHANGED queue)
    BY <1>6 DEF CheckForStalePods
  <2> QED  BY <1>1, <1>2, <1>3, <1>6, <2>1, <2>2, WaitingKeeps
<1> QED  BY <1>4, <1>5, <1>6 DEF After

\* Waiting changes nothing in the cluster.
LEMMA WaitKeeps ==
    ASSUME IInv, NEW w \in Worker, Wait(w)
    PROVE  IInv'
<1>1. run[w].pc = "wait" /\ UNCHANGED <<cluster, shared>>
  BY DEF Wait
<1>2. Working(w, run[w])
  BY <1>1 DEF IInv, Runs, Idle
<1>3. Namespace' \in Owner \cup {None} /\ UpdateVendor' \in refused \cup {NoVendor}
  BY <1>1 DEF IInv, Globals, Queueable, shared
<1>4. (UNCHANGED mishaps \/ Mishap) /\ ((Advance(w) /\ UNCHANGED queue) \/ Fail(w))
  BY DEF Wait
<1> QED  BY <1>1, <1>2, <1>3, <1>4, WaitingKeeps

\* A worker takes an owner from the queue and starts with the first object.
LEMMA BeginKeeps ==
    ASSUME IInv, NEW w \in Worker, Begin(w)
    PROVE  IInv'
<1>1. UNCHANGED <<cluster, shared, mishaps>>
  BY DEF Begin
<1>2. PICK o \in queue : /\ WorkerOf[o] = w /\ queue' = queue \ {o}
                         /\ Set(w, [Idle EXCEPT !.owner = o, !.pc = "get", !.at = 1, !.rev = revision[o]])
  BY DEF Begin
<1>3. StoreTypes' /\ PodTypes' /\ OtherTypes' /\ Globals' /\ UNCHANGED <<chart, refused>>
  BY <1>1, <1>2 DEF IInv, StoreTypes, PodTypes, OtherTypes, Globals, Queueable, cluster, shared
<1>4. BuildIsNeeded'
  BY <1>1, NeedKeeps DEF IInv, cluster
<1>5. PICK x : x = [Idle EXCEPT !.owner = o, !.pc = "get", !.at = 1, !.rev = revision[o]]
  OBVIOUS
<1>6. PICK v : v = revision[o]
  OBVIOUS
<1>7. x = [owner |-> o, pc |-> "get", at |-> 1, rev |-> v, found |-> None, fresh |-> FALSE, gen |-> 0]
  BY <1>5, <1>6, Zenon DEF Idle
<1>8. Working(w, x)
  <2>1. o \in Owner /\ chart[o] \in Seq(Manifest) /\ DOMAIN chart[o] # {}
    BY ResourceAssumption DEF IInv, Globals, Queueable, StoreTypes
  <2>2. 1 \in DOMAIN chart[o]
    BY <2>1
  <2> QED  BY <1>2, <1>7, <2>1, <2>2 DEF Working
<1>9. Runs'
  BY <1>2, <1>3, <1>5, <1>8, SetKeeps DEF IInv
<1> QED  BY <1>3, <1>4, <1>9 DEF IInv

\* Every step of the workers, the cluster and the users keeps the invariant.
THEOREM Inductive == IInv /\ [Next]_vars => IInv'
<1> SUFFICES ASSUME IInv, [Next]_vars PROVE IInv'
  OBVIOUS
<1>1. CASE UNCHANGED vars
  <2>1. UNCHANGED <<chart, revision, store, pods, builds, image, refused, UpdateVendor, Namespace, queue, run, mishaps>>
    BY <1>1 DEF vars, cluster, shared
  <2>2. BuildIsNeeded' /\ Runs'
    BY <2>1, NeedKeeps, RunsKeep DEF IInv
  <2> QED  BY <2>1, <2>2 DEF IInv, StoreTypes, PodTypes, OtherTypes, Globals, Queueable
<1>2. ASSUME NEW w \in Worker, Work(w) PROVE IInv'
  BY <1>2, BeginKeeps, GetKeeps, CreateKeeps, UpdateKeeps, AfterKeeps, WaitKeeps DEF Work
<1>3. CASE Restart
  <2>1. UNCHANGED cluster /\ Mishap /\ UpdateVendor' = NoVendor /\ Namespace' = None
        /\ run' = [w \in Worker |-> Idle] /\ queue' = {o \in Owner : chart[o] # <<>>}
    BY <1>3 DEF Restart
  <2>2. StoreTypes' /\ PodTypes' /\ OtherTypes' /\ BuildIsNeeded'
    BY <2>1, NeedKeeps, ResourceAssumption DEF IInv, StoreTypes, PodTypes, OtherTypes, Mishap, cluster
  <2>3. queue' \subseteq Queueable
    BY <2>1, NonEmpty DEF IInv, Queueable
  <2>4. Globals'
    BY <2>1, <2>3 DEF Globals, Queueable, cluster
  <2>5. Runs'
    BY <2>1 DEF Runs
  <2> QED  BY <2>2, <2>4, <2>5 DEF IInv
<1>4. ASSUME NEW o \in Owner,
             \/ Cluster(o) \/ Revise(o)
             \/ \E n \in Node : DeleteOldPod(o, n)
             \/ \E i \in Object(o) : DeleteObject(o, i)
      PROVE  IInv'
  BY <1>4, ClusterKeeps, UsersKeep
<1> QED  BY <1>1, <1>2, <1>3, <1>4 DEF Next

BlindTypes == blind \subseteq Owner

\* Only the owner of a pass is waited for.
LEMMA BlindOwners == IInv /\ BlindTypes /\ [Next]_vars => BlindTypes'
<1> SUFFICES ASSUME IInv, blind \subseteq Owner, [Next]_vars PROVE blind' \subseteq Owner
  BY DEF BlindTypes
<1>1. ASSUME NEW w \in Worker, Wait(w) PROVE blind' \subseteq Owner
  <2>1. run[w].pc = "wait" /\ blind' \subseteq blind \cup {run[w].owner}
    BY <1>1 DEF Wait
  <2>2. run[w].owner \in Owner
    BY <2>1 DEF IInv, Runs, Idle, Working
  <2> QED  BY <2>1, <2>2
<1>2. ASSUME NEW w \in Worker, Work(w), ~Wait(w) PROVE blind' \subseteq blind
  BY <1>2 DEF Work, Begin, Get, Create, Update, After
<1>3. ASSUME NEW o \in Owner,
             \/ Cluster(o) \/ Revise(o)
             \/ \E n \in Node : DeleteOldPod(o, n)
             \/ \E i \in Object(o) : DeleteObject(o, i)
      PROVE  blind' = blind
  BY <1>3 DEF Cluster, Progress, CreatePod, StartPod, PublishStatus, StartBuild, CompleteBuild,
              Revise, DeleteOldPod, DeleteObject
<1>4. CASE Restart \/ UNCHANGED vars
  BY <1>4 DEF Restart, vars
<1> QED  BY <1>1, <1>2, <1>3, <1>4 DEF Next

\* Every worker is at an object of the chart of an owner of its own.
THEOREM TypeCorrect == Spec => []TypeOK
<1>1. IInv /\ BlindTypes => TypeOK
  <2> SUFFICES ASSUME IInv, BlindTypes PROVE TypeOK
    OBVIOUS
  <2>1. \A w \in Worker :
           \/ run[w] = Idle
           \/ /\ WorkerOf[run[w].owner] = w
              /\ run[w].pc \in {"get", "write", "after", "wait"} /\ run[w].at \in Object(run[w].owner)
    BY DEF IInv, Runs, Working, Object
  <2>2. \A o \in Owner : \A b \in DOMAIN builds[o] : builds[o][b] \in {"Running", "Complete"}
    BY DEF IInv, OtherTypes, Phase
  <2>3. queue \subseteq Owner /\ UpdateVendor \in Owner \cup {NoVendor} /\ Namespace \in Owner \cup {None}
    BY DEF IInv, OtherTypes, Globals, Queueable
  <2> QED  BY <2>1, <2>2, <2>3 DEF IInv, StoreTypes, OtherTypes, BlindTypes, TypeOK
<1>2. Init => BlindTypes
  BY DEF Init, BlindTypes
<1> QED  BY <1>1, <1>2, Initially, Inductive, BlindOwners, PTL DEF Spec

\* "We are only building a driver-container if we cannot pull the image": whatever the
\* order in which the workers set and read UpdateVendor, a vendor's BuildConfig is only
\* there if a pod of that vendor was refused its image.
THEOREM BuildsAreNeeded == Spec => []BuildIsNeeded
<1>1. IInv => BuildIsNeeded
  BY DEF IInv
<1> QED  BY <1>1, Initially, Inductive, PTL DEF Spec

-----------------------------------------------------------------------------
(* Waits *)

Typed(x, kind) ==
    /\ x = [hash |-> x.hash, gen |-> x.gen, stage |-> x.stage, status |-> x.status]
    /\ x.stage \in 0..FinalStage(kind)

ObjTypes == \A o \in Owner : \A i \in Object(o) : store[o][i] # None => Typed(store[o][i], chart[o][i].kind)

PodsOnNodes ==
    \A o \in Owner : \A n \in Node : pods[o][n] # None =>
       \E i \in Object(o) : chart[o][i].kind = "DaemonSet" /\ n \in chart[o][i].nodes

\* The object is available, or its status says so.
Seems(o, i) == Available(o, i) \/ (chart[o][i].kind = "DaemonSet" /\ forDaemonSetCallback(store[o][i].status))

\* What seems to be available was.
Seen == \A o \in Owner : \A i \in Object(o) : Exists(o, i) /\ Seems(o, i) => <<o, i>> \in was

CInv == ObjTypes /\ PodsOnNodes /\ Seen

\* An object of a chart, and the only DaemonSet of its owner.
LEMMA Charts ==
    ASSUME StoreTypes, NEW o \in Owner, NEW i \in Object(o)
    PROVE  /\ i \in Nat /\ chart[o] \in Seq(Manifest) /\ chart[o][i].kind \in Kinds
           /\ chart[o][i].nodes \subseteq Node /\ IsFiniteSet(chart[o][i].nodes)
           /\ \A j \in Object(o) : chart[o][i].kind = "DaemonSet" /\ chart[o][j].kind = "DaemonSet" => i = j
<1>1. chart \in Scenarios /\ chart[o] \in Seq(Manifest)
  BY ResourceAssumption DEF StoreTypes
<1>2. PICK m : m = chart[o][i]
  OBVIOUS
<1>3. i \in Nat /\ m \in Manifest
  BY <1>1, <1>2 DEF Object
<1>4. m.kind \in Kinds /\ m.nodes \subseteq Node
  BY <1>3 DEF Manifest
<1>5. IsFiniteSet(m.nodes)
  BY <1>4, ResourceAssumption, FS_Subset
<1>6. \A j \in Object(o) : chart[o][i].kind = "DaemonSet" /\ chart[o][j].kind = "DaemonSet" => i = j
  BY <1>1, ResourceAssumption DEF Object
<1> QED  BY <1>1, <1>2, <1>3, <1>4, <1>5, <1>6

\* How far an object's controller can come.
LEMMA StagesAreNumbers == \A k : FinalStage(k) \in Nat
  BY DEF FinalStage, Replicas

\* One object is written.
LEMMA ObjKeeps ==
    ASSUME ObjTypes, NEW o \in Owner, NEW i \in Object(o), NEW x, UNCHANGED chart, store'[o][i] = x,
           \A p \in Owner : \A j \in Object(p) : (p = o /\ j = i) \/ store'[p][j] = store[p][j],
           Typed(x, chart[o][i].kind)
    PROVE  ObjTypes'
<1>1. ASSUME NEW p \in Owner, NEW j \in DOMAIN chart[p], NEW y, y = store'[p][j], y # None PROVE Typed(y, chart[p][j].kind)
  <2>1. CASE p = o /\ j = i
    BY <1>1, <2>1
  <2>2. CASE ~(p = o /\ j = i)
    BY <1>1, <2>2 DEF ObjTypes, Object
  <2> QED  BY <2>1, <2>2
<1> QED  BY <1>1 DEF ObjTypes, Object, Typed

\* Objects that become available are recorded.
LEMMA SeenGrows ==
    ASSUME Seen, UNCHANGED chart, was \subseteq was', NowAvailable' \subseteq was',
           \A p \in Owner : \A j \in Object(p) : store'[p][j] # None =>
              store[p][j] # None /\ store'[p][j].status = store[p][j].status
    PROVE  Seen'
<1> SUFFICES ASSUME NEW o \in Owner, NEW i \in Object(o)', Exists(o, i)', Seems(o, i)' PROVE <<o, i>> \in was'
  BY DEF Seen
<1>1. CASE Available(o, i)'
  BY <1>1 DEF NowAvailable
<1>2. CASE (chart[o][i].kind = "DaemonSet" /\ forDaemonSetCallback(store[o][i].status))'
  BY <1>2 DEF Seen, Seems, Exists, Object, forDaemonSetCallback
<1> QED  BY <1>1, <1>2 DEF Seems

\* Nothing becomes available.
LEMMA SeenStays ==
    ASSUME Seen, UNCHANGED <<chart, was>>,
           \A o \in Owner : \A i \in Object(o) : Exists(o, i)' /\ Seems(o, i)' => Exists(o, i) /\ Seems(o, i)
    PROVE  Seen'
  BY DEF Seen, Object

\* What makes an object available.
LEMMA AvailableStays ==
    ASSUME UNCHANGED chart, NEW o \in Owner, NEW i \in Object(o), Available(o, i)',
           \A n \in Node : pods'[o][n] # None /\ pods'[o][n].state = "running" =>
                         pods[o][n] # None /\ pods[o][n].state = "running",
           \A b \in DOMAIN builds'[o] : builds'[o][b] = "Complete" => b \in DOMAIN builds[o] /\ builds[o][b] = "Complete",
           StoreTypes,
           store'[o][i].stage = FinalStage(chart[o][i].kind) => store[o][i].stage = FinalStage(chart[o][i].kind)
    PROVE  Available(o, i)
<1>1. CASE chart[o][i].kind = "DaemonSet"
  <2>1. chart[o][i].nodes \subseteq Node
    BY Charts
  <2> QED  BY <1>1, <2>1 DEF Available
<1>2. CASE chart[o][i].kind = "BuildConfig"
  BY <1>2 DEF Available
<1>3. CASE chart[o][i].kind \notin {"DaemonSet", "BuildConfig"}
  BY <1>3 DEF Available
<1> QED  BY <1>1, <1>2, <1>3

\* The pods of an owner are on nodes of its DaemonSet.
LEMMA NodesKeep ==
    ASSUME PodsOnNodes, UNCHANGED chart,
           \A o \in Owner : \A n \in Node : pods'[o][n] # None =>
              \/ pods[o][n] # None
              \/ \E i \in Object(o) : chart[o][i].kind = "DaemonSet" /\ n \in chart[o][i].nodes
    PROVE  PodsOnNodes'
  BY DEF PodsOnNodes, Object

\* A status that says that all pods run is true when it is published.
LEMMA StatusIsTrue ==
    ASSUME StoreTypes, PodsOnNodes, NEW o \in Owner, NEW i \in Object(o), chart[o][i].kind = "DaemonSet",
           NEW st, st = [desiredNumberScheduled |-> Cardinality(chart[o][i].nodes),
                         numberAvailable |-> Written(Running(o)),
                         numberUnavailable |-> Written(Cardinality(chart[o][i].nodes) - Running(o))],
           forDaemonSetCallback(st)
    PROVE  Available(o, i)
<1> DEFINE N == chart[o][i].nodes
           R == {n \in Node : pods[o][n] # None /\ pods[o][n].state = "running"}
<1>1. N \subseteq Node /\ IsFiniteSet(N)
  BY Charts
<1>2. \A j \in Object(o) : chart[o][j].kind = "DaemonSet" => j = i
  BY Charts
<1>3. R \subseteq N
  BY <1>2 DEF PodsOnNodes
<1>4. Cardinality(R) = Cardinality(N)
  <2>1. PICK d, a, u : d = Cardinality(N) /\ a = Cardinality(R) /\ u = d - a
    OBVIOUS
  <2>2. st = [desiredNumberScheduled |-> d, numberAvailable |-> Written(a), numberUnavailable |-> Written(u)]
    BY <2>1 DEF Running
  <2>3. a \in Nat /\ d \in Nat
    BY <1>1, <1>3, <2>1, FS_Subset, FS_CardinalityType
  <2>4. IF Written(a) # Absent THEN Written(a) = d ELSE Written(u) = 0
    BY <2>2 DEF forDaemonSetCallback
  <2> QED  BY <2>1, <2>3, <2>4 DEF Written, Absent
<1>5. R = N
  BY <1>1, <1>3, <1>4, FS_Subset
<1> QED  BY <1>5 DEF Available

\* The controllers of the cluster.
LEMMA ClusterSees ==
    ASSUME IInv, CInv, NEW o \in Owner, Cluster(o)
    PROVE  CInv'
<1>1. ASSUME NEW i \in Object(o), Progress(o, i) PROVE CInv'
  <2>1. UNCHANGED <<chart, pods>> /\ was' = was \cup NowAvailable' /\ store[o][i] # None
    BY <1>1 DEF Progress, Exists
  <2>2. PICK x : store' = [store EXCEPT ![o][i] = x] /\ x = [store[o][i] EXCEPT !.stage = store[o][i].stage + 1]
    BY <1>1 DEF Progress
  <2>3. Typed(x, chart[o][i].kind) /\ x.status = store[o][i].status
    <3>1. PICK y, k : y = store[o][i] /\ k = chart[o][i].kind
      OBVIOUS
    <3>2. Typed(y, k)
      BY <2>1, <3>1 DEF CInv, ObjTypes
    <3>3. y.stage \in 0..FinalStage(k) /\ y.stage < FinalStage(k) /\ FinalStage(k) \in Nat
      BY <1>1, <3>1, <3>2, StagesAreNumbers DEF Progress, Typed
    <3>4. x = [hash |-> y.hash, gen |-> y.gen, stage |-> y.stage + 1, status |-> y.status]
      BY <2>2, <3>1, <3>2 DEF Typed
    <3>5. y.stage + 1 \in 0..FinalStage(k)
      BY <3>3
    <3> QED  BY <3>1, <3>4, <3>5 DEF Typed
  <2>4. /\ ObjTypes' /\ store'[o][i] = x
        /\ \A p \in Owner : \A j \in Object(p) : (p = o /\ j = i) \/ store'[p][j] = store[p][j]
    <3>1. UNCHANGED chart /\ StoreTypes /\ ObjTypes /\ store' = [store EXCEPT ![o][i] = x]
      BY <2>1, <2>2 DEF IInv, CInv
    <3>2. /\ store'[o][i] = x
          /\ \A p \in Owner : \A j \in Object(p) : (p = o /\ j = i) \/ store'[p][j] = store[p][j]
      <4>1. store'[o][i] = x
        BY <3>1 DEF StoreTypes, Object
      <4>2. \A p \in Owner : \A j \in Object(p) : (p = o /\ j = i) \/ store'[p][j] = store[p][j]
        BY <3>1, StoreKeeps
      <4> QED  BY <4>1, <4>2
    <3> QED  BY <2>3, <3>1, <3>2, ObjKeeps
  <2>5. Seen'
    BY <2>1, <2>3, <2>4, SeenGrows DEF CInv
  <2>6. PodsOnNodes'
    BY <2>1, NodesKeep DEF CInv
  <2> QED  BY <2>4, <2>5, <2>6 DEF CInv
<1>2. ASSUME NEW n \in Node, CreatePod(o, n) PROVE CInv'
  <2>1. UNCHANGED <<chart, store, builds, was>>
    BY <1>2 DEF CreatePod
  <2>2. PICK i \in OfKind(o, "DaemonSet") : /\ n \in chart[o][i].nodes /\ pods[o][n] = None
                                            /\ pods' = [pods EXCEPT ![o][n] = [gen |-> store[o][i].gen, state |-> "pending"]]
    BY <1>2 DEF CreatePod
  <2>3. /\ \A p \in Owner : \A m \in Node : (p = o /\ m = n) \/ pods'[p][m] = pods[p][m]
        /\ pods'[o][n].state = "pending"
    BY <2>2 DEF IInv, PodTypes
  <2>4. PodsOnNodes'
    BY <2>1, <2>2, <2>3, NodesKeep DEF CInv, OfKind
  <2>5. ASSUME NEW p \in Owner, NEW j \in Object(p), Seems(p, j)' PROVE Seems(p, j)
    <3>1. Available(p, j)' => Available(p, j)
      BY <2>1, <2>3, AvailableStays DEF IInv
    <3> QED  BY <2>1, <2>5, <3>1 DEF Seems
  <2>6. Seen'
    BY <2>1, <2>5, SeenStays DEF CInv, Exists, Object
  <2>7. ObjTypes'
    BY <2>1 DEF CInv, ObjTypes, Object, Typed
  <2> QED  BY <2>4, <2>6, <2>7 DEF CInv
<1>3. ASSUME NEW n \in Node, StartPod(o, n) PROVE CInv'
  <2>1. UNCHANGED <<chart, store>> /\ was' = was \cup NowAvailable' /\ pods[o][n] # None
    BY <1>3 DEF StartPod
  <2>2. PICK s : pods' = [pods EXCEPT ![o][n].state = s]
    BY <1>3 DEF StartPod
  <2>3. \A p \in Owner : \A m \in Node : (p = o /\ m = n) \/ pods'[p][m] = pods[p][m]
    BY <2>2 DEF IInv, PodTypes
  <2>4. PodsOnNodes'
    BY <2>1, <2>3, NodesKeep DEF CInv
  <2>5. Seen'
    BY <2>1, SeenGrows DEF CInv
  <2>6. ObjTypes'
    BY <2>1 DEF CInv, ObjTypes, Object, Typed
  <2> QED  BY <2>4, <2>5, <2>6 DEF CInv
<1>4. CASE PublishStatus(o)
  <2>1. UNCHANGED <<chart, pods, builds, was>>
    BY <1>4 DEF PublishStatus
  <2>2. PICK i \in OfKind(o, "DaemonSet") : \E st :
           /\ st = [desiredNumberScheduled |-> Cardinality(chart[o][i].nodes),
                    numberAvailable |-> Written(Running(o)),
                    numberUnavailable |-> Written(Cardinality(chart[o][i].nodes) - Running(o))]
           /\ store' = [store EXCEPT ![o][i] = [store[o][i] EXCEPT !.status = st]]
    BY <1>4 DEF PublishStatus
  <2>3. PICK st :
           /\ st = [desiredNumberScheduled |-> Cardinality(chart[o][i].nodes),
                    numberAvailable |-> Written(Running(o)),
                    numberUnavailable |-> Written(Cardinality(chart[o][i].nodes) - Running(o))]
           /\ store' = [store EXCEPT ![o][i] = [store[o][i] EXCEPT !.status = st]]
    BY <2>2
  <2>4. i \in Object(o) /\ store[o][i] # None /\ chart[o][i].kind = "DaemonSet"
    BY DEF OfKind, Exists
  <2>5. PICK x, y : y = store[o][i] /\ x = [y EXCEPT !.status = st]
    OBVIOUS
  <2>6. x = [hash |-> y.hash, gen |-> y.gen, stage |-> y.stage, status |-> st] /\ Typed(y, chart[o][i].kind)
    BY <2>4, <2>5 DEF CInv, ObjTypes, Typed
  <2>7. Typed(x, chart[o][i].kind)
    BY <2>6 DEF Typed
  <2>8. /\ ObjTypes' /\ store'[o][i] = x
        /\ \A p \in Owner : \A j \in Object(p) : (p = o /\ j = i) \/ store'[p][j] = store[p][j]
    <3>1. UNCHANGED chart /\ StoreTypes /\ ObjTypes /\ store' = [store EXCEPT ![o][i] = x]
      BY <2>1, <2>3, <2>5 DEF IInv, CInv
    <3>2. /\ store'[o][i] = x
          /\ \A p \in Owner : \A j \in Object(p) : (p = o /\ j = i) \/ store'[p][j] = store[p][j]
      <4>1. store'[o][i] = x
        BY <2>4, <3>1 DEF StoreTypes, Object
      <4>2. \A p \in Owner : \A j \in Object(p) : (p = o /\ j = i) \/ store'[p][j] = store[p][j]
        BY <2>4, <3>1, StoreKeeps
      <4> QED  BY <4>1, <4>2
    <3> QED  BY <2>4, <2>7, <3>1, <3>2, ObjKeeps
  <2>9. ASSUME NEW p \in Owner, NEW j \in Object(p), Exists(p, j)', Seems(p, j)' PROVE Exists(p, j) /\ Seems(p, j)
    <3>1. store'[p][j].stage = store[p][j].stage
      BY <2>5, <2>6, <2>8
    <3>2. Available(p, j)' => Available(p, j)
      BY <2>1, <3>1, AvailableStays DEF IInv
    <3>3. CASE p = o /\ j = i
      <4>1. forDaemonSetCallback(st) => Available(o, i)
        BY <2>3, <2>4, StatusIsTrue DEF IInv, CInv
      <4>2. store'[p][j].status = st
        BY <2>6, <2>8, <3>3
      <4> QED  BY <2>1, <2>4, <2>9, <3>2, <3>3, <4>1, <4>2 DEF Seems, Exists
    <3>4. CASE ~(p = o /\ j = i)
      BY <2>1, <2>8, <2>9, <3>2, <3>4 DEF Seems, Exists, Object
    <3> QED  BY <3>3, <3>4
  <2>10. Seen'
    BY <2>1, <2>9, SeenStays DEF CInv
  <2>11. PodsOnNodes'
    BY <2>1, NodesKeep DEF CInv
  <2> QED  BY <2>8, <2>10, <2>11 DEF CInv
<1>5. CASE StartBuild(o)
  <2>1. UNCHANGED <<chart, store, pods, was>> /\ builds' = [builds EXCEPT ![o] = Append(builds[o], "Running")]
    BY <1>5 DEF StartBuild
  <2>2. ASSUME NEW p \in Owner, NEW b \in DOMAIN builds'[p], builds'[p][b] = "Complete"
        PROVE  b \in DOMAIN builds[p] /\ builds[p][b] = "Complete"
    BY <2>1, <2>2 DEF IInv, OtherTypes
  <2>3. ASSUME NEW p \in Owner, NEW j \in Object(p), Seems(p, j)' PROVE Seems(p, j)
    <3>1. Available(p, j)' => Available(p, j)
      BY <2>1, <2>2, AvailableStays DEF IInv
    <3> QED  BY <2>1, <2>3, <3>1 DEF Seems
  <2>4. Seen'
    BY <2>1, <2>3, SeenStays DEF CInv, Exists, Object
  <2> QED  BY <2>1, <2>4 DEF CInv, ObjTypes, PodsOnNodes, Object, Typed
<1>6. CASE CompleteBuild(o)
  <2>1. UNCHANGED <<chart, store, pods>> /\ was' = was \cup NowAvailable'
    BY <1>6 DEF CompleteBuild
  <2>2. Seen'
    BY <2>1, SeenGrows DEF CInv
  <2> QED  BY <2>1, <2>2 DEF CInv, ObjTypes, PodsOnNodes, Object, Typed
<1> QED  BY <1>1, <1>2, <1>3, <1>4, <1>5, <1>6 DEF Cluster

\* Nothing of this changes.
LEMMA SameSees ==
    ASSUME CInv, UNCHANGED <<chart, store, pods, builds, was>>
    PROVE  CInv'
<1>1. Seen'
  BY SeenStays DEF CInv, Exists, Seems, Available
<1> QED  BY <1>1 DEF CInv, ObjTypes, PodsOnNodes, Object, Typed

\* What users delete is not available any more.
LEMMA UsersSee ==
    ASSUME IInv, CInv, NEW o \in Owner,
           \/ Revise(o)
           \/ \E n \in Node : DeleteOldPod(o, n)
           \/ \E i \in Object(o) : DeleteObject(o, i)
    PROVE  CInv'
<1>1. CASE Revise(o)
  BY <1>1, SameSees DEF Revise
<1>2. ASSUME NEW n \in Node, DeleteOldPod(o, n) PROVE CInv'
  <2>1. UNCHANGED <<chart, store, builds, was>> /\ pods' = [pods EXCEPT ![o][n] = None]
    BY <1>2 DEF DeleteOldPod
  <2>2. \A p \in Owner : \A m \in Node : pods'[p][m] = None \/ pods'[p][m] = pods[p][m]
    BY <2>1 DEF IInv, PodTypes
  <2>3. PodsOnNodes'
    BY <2>1, <2>2, NodesKeep DEF CInv
  <2>4. ASSUME NEW p \in Owner, NEW j \in Object(p), Seems(p, j)' PROVE Seems(p, j)
    <3>1. Available(p, j)' => Available(p, j)
      BY <2>1, <2>2, AvailableStays DEF IInv
    <3> QED  BY <2>1, <2>4, <3>1 DEF Seems
  <2>5. Seen'
    BY <2>1, <2>4, SeenStays DEF CInv, Exists, Object
  <2> QED  BY <2>1, <2>3, <2>5 DEF CInv, ObjTypes, Object, Typed
<1>3. ASSUME NEW i \in Object(o), DeleteObject(o, i) PROVE CInv'
  <2>1. /\ UNCHANGED <<chart, was>> /\ store' = [store EXCEPT ![o][i] = None]
        /\ pods' = pods \/ pods' = [pods EXCEPT ![o] = [n \in Node |-> None]]
        /\ builds' = builds \/ builds' = [builds EXCEPT ![o] = <<>>]
    BY <1>3 DEF DeleteObject
  <2>2. \A p \in Owner : \A m \in Node : pods'[p][m] = None \/ pods'[p][m] = pods[p][m]
    BY <2>1 DEF IInv, PodTypes
  <2>3. \A p \in Owner : builds'[p] = builds[p] \/ builds'[p] = <<>>
    BY <2>1 DEF IInv, OtherTypes
  <2>4. store'[o][i] = None
    BY <2>1 DEF IInv, StoreTypes, Object
  <2>5. \A p \in Owner : \A j \in Object(p) : (p = o /\ j = i) \/ store'[p][j] = store[p][j]
    BY <2>1, StoreKeeps DEF IInv
  <2>6. PodsOnNodes'
    BY <2>1, <2>2, NodesKeep DEF CInv
  <2>7. ASSUME NEW p \in Owner, NEW j \in Object(p), Exists(p, j)', Seems(p, j)' PROVE Exists(p, j) /\ Seems(p, j)
    <3>1. store'[p][j] = store[p][j] /\ UNCHANGED chart
      BY <2>1, <2>4, <2>5, <2>7 DEF Exists
    <3>2. \A b \in DOMAIN builds'[p] : builds'[p][b] = "Complete" => b \in DOMAIN builds[p] /\ builds[p][b] = "Complete"
      BY <2>3
    <3>3. Available(p, j)' => Available(p, j)
      BY <2>2, <3>1, <3>2, AvailableStays DEF IInv
    <3> QED  BY <2>7, <3>1, <3>3 DEF Seems, Exists, Object
  <2>8. Seen'
    BY <2>1, <2>7, SeenStays DEF CInv
  <2>9. ObjTypes'
    <3>1. \A p \in Owner : \A j \in Object(p) : store'[p][j] # None => store'[p][j] = store[p][j]
      BY <2>4, <2>5
    <3>2. \A p \in Owner : Object(p)' = Object(p) /\ chart' = chart
      BY <2>1 DEF Object
    <3> QED  BY <3>1, <3>2 DEF CInv, ObjTypes, Typed
  <2> QED  BY <2>6, <2>8, <2>9 DEF CInv
<1> QED  BY <1>1, <1>2, <1>3

\* A new object is not available because an older one of its name was.
LEMMA CreateSees ==
    ASSUME IInv, CInv, NEW w \in Worker, Create(w)
    PROVE  CInv'
<1>1. UNCHANGED <<chart, pods, builds>> /\ run[w].pc = "write"
  BY DEF Create
<1>2. Working(w, run[w])
  BY <1>1 DEF IInv, Runs, Idle
<1>3. PICK o, i, h : o = run[w].owner /\ i = run[w].at /\ h = Hash(w)
  OBVIOUS
<1>4. o \in Owner /\ i \in Object(o)
  BY <1>2, <1>3 DEF Working, Object
<1>5. CASE UNCHANGED <<store, was>>
  BY <1>1, <1>5, SameSees
<1>6. ASSUME NEW x, x = [hash |-> h, gen |-> 1, stage |-> 0,
                         status |-> [desiredNumberScheduled |-> 0, numberAvailable |-> Absent,
                                     numberUnavailable |-> Absent]],
             store' = [store EXCEPT ![o][i] = x], was' = (was \ {<<o, i>>}) \cup NowAvailable'
      PROVE  CInv'
  <2>1. Typed(x, chart[o][i].kind)
    BY <1>6, StagesAreNumbers DEF Typed
  <2>2. store'[o][i] = x
    BY <1>4, <1>6 DEF IInv, StoreTypes, Object
  <2>3. \A p \in Owner : \A j \in Object(p) : (p = o /\ j = i) \/ store'[p][j] = store[p][j]
    BY <1>1, <1>4, <1>6, StoreKeeps DEF IInv
  <2>4. ObjTypes'
    BY <1>1, <1>4, <2>1, <2>2, <2>3, ObjKeeps DEF CInv
  <2>5. ~forDaemonSetCallback(x.status)
    BY <1>6 DEF forDaemonSetCallback, Absent
  <2>6. ASSUME NEW p \in Owner, NEW j \in Object(p)', Exists(p, j)', Seems(p, j)' PROVE <<p, j>> \in was'
    <3>1. CASE Available(p, j)'
      BY <1>6, <2>6, <3>1 DEF NowAvailable
    <3>2. CASE (chart[p][j].kind = "DaemonSet" /\ forDaemonSetCallback(store[p][j].status))'
      <4>1. ~(p = o /\ j = i)
        BY <2>2, <2>5, <3>2
      <4>2. store'[p][j] = store[p][j] /\ j \in Object(p)
        BY <1>1, <2>3, <4>1 DEF Object
      <4>3. <<p, j>> \in was
        BY <1>1, <2>6, <3>2, <4>2 DEF CInv, Seen, Seems, Exists
      <4> QED  BY <1>6, <4>1, <4>3
    <3> QED  BY <2>6, <3>1, <3>2 DEF Seems
  <2>7. Seen'
    BY <2>6 DEF Seen
  <2>8. PodsOnNodes'
    BY <1>1, NodesKeep DEF CInv
  <2> QED  BY <2>4, <2>7, <2>8 DEF CInv
<1>7. \/ UNCHANGED <<store, was>>
      \/ \E x : /\ x = [hash |-> h, gen |-> 1, stage |-> 0,
                        status |-> [desiredNumberScheduled |-> 0, numberAvailable |-> Absent,
                                    numberUnavailable |-> Absent]]
                /\ store' = [store EXCEPT ![o][i] = x] /\ was' = (was \ {<<o, i>>}) \cup NowAvailable'
  BY <1>3 DEF Create
<1> QED  BY <1>5, <1>6, <1>7

\* An update only sets back what the object's controller had reached.
LEMMA UpdateSees ==
    ASSUME IInv, CInv, NEW w \in Worker, Update(w)
    PROVE  CInv'
<1>1. UNCHANGED <<chart, pods, builds, was>> /\ run[w].pc = "write"
  BY DEF Update
<1>2. Working(w, run[w])
  BY <1>1 DEF IInv, Runs, Idle
<1>3. PICK o, i, h, y : o = run[w].owner /\ i = run[w].at /\ h = Hash(w) /\ y = store[o][i]
  OBVIOUS
<1>4. o \in Owner /\ i \in Object(o)
  BY <1>2, <1>3 DEF Working, Object
<1>5. CASE UNCHANGED store
  BY <1>1, <1>5, SameSees
<1>6. ASSUME NEW x, x = [y EXCEPT !.hash = h, !.gen = y.gen + 1, !.stage = 0], y # None,
             store' = [store EXCEPT ![o][i] = x]
      PROVE  CInv'
  <2>1. Typed(y, chart[o][i].kind)
    BY <1>3, <1>4, <1>6 DEF CInv, ObjTypes
  <2>2. PICK g : g = y.gen + 1
    OBVIOUS
  <2>3. x = [hash |-> h, gen |-> g, stage |-> 0, status |-> y.status]
    <3>1. PICK a, b, c, d : a = y.hash /\ b = y.gen /\ c = y.stage /\ d = y.status
      OBVIOUS
    <3>2. y = [hash |-> a, gen |-> b, stage |-> c, status |-> d]
      BY <2>1, <3>1 DEF Typed
    <3>3. x = [y EXCEPT !.hash = h, !.gen = g, !.stage = 0]
      BY <1>6, <2>2
    <3>4. x = [hash |-> h, gen |-> g, stage |-> 0, status |-> d]
      BY <3>2, <3>3, Zenon
    <3> QED  BY <3>1, <3>4
  <2>4. Typed(x, chart[o][i].kind)
    BY <2>3, StagesAreNumbers DEF Typed
  <2>5. store'[o][i] = x
    BY <1>4, <1>6 DEF IInv, StoreTypes, Object
  <2>6. \A p \in Owner : \A j \in Object(p) : (p = o /\ j = i) \/ store'[p][j] = store[p][j]
    BY <1>1, <1>4, <1>6, StoreKeeps DEF IInv
  <2>7. ObjTypes'
    BY <1>1, <1>4, <2>4, <2>5, <2>6, ObjKeeps DEF CInv
  <2>8. store'[o][i].stage = 0 /\ store'[o][i].status = y.status
    BY <2>3, <2>5
  <2>9. store[o][i] = y
    BY <1>3
  <2>10. ASSUME NEW p \in Owner, NEW j \in Object(p), Exists(p, j)', Seems(p, j)' PROVE Exists(p, j) /\ Seems(p, j)
    <3>1. store'[p][j].stage = FinalStage(chart[p][j].kind) => store[p][j].stage = FinalStage(chart[p][j].kind)
      <4>1. CASE p = o /\ j = i
        <5>1. PICK f, s : f = FinalStage(chart[o][i].kind) /\ s = y.stage
          OBVIOUS
        <5>2. s \in 0..f /\ f \in Nat
          BY <2>1, <5>1, StagesAreNumbers DEF Typed
        <5>3. f = 0 => s = 0
          BY <5>2
        <5>4. store'[o][i].stage = 0 /\ store[o][i].stage = s
          BY <2>8, <2>9, <5>1
        <5> QED  BY <4>1, <5>1, <5>3, <5>4
      <4> QED  BY <2>6, <4>1
    <3>2. Available(p, j)' => Available(p, j)
      BY <1>1, <3>1, AvailableStays DEF IInv
    <3>3. store'[p][j].status = store[p][j].status /\ store[p][j] # None
      <4>1. CASE p = o /\ j = i
        BY <1>6, <2>8, <2>9, <4>1
      <4>2. CASE ~(p = o /\ j = i)
        BY <2>6, <2>10, <4>2 DEF Exists
      <4> QED  BY <4>1, <4>2
    <3> QED  BY <1>1, <2>10, <3>2, <3>3 DEF Seems, Exists, Object
  <2>11. Seen'
    BY <1>1, <2>10, SeenStays DEF CInv
  <2>12. PodsOnNodes'
    BY <1>1, NodesKeep DEF CInv
  <2> QED  BY <2>7, <2>11, <2>12 DEF CInv
<1>7. \/ UNCHANGED store
      \/ /\ y # None
         /\ store' = [store EXCEPT ![o][i] = [X(w) EXCEPT !.hash = Hash(w), !.gen = X(w).gen + 1, !.stage = 0]]
  BY <1>3 DEF Update
<1>8. X(w) = y
  BY <1>3 DEF X
<1>9. ASSUME y # None, store' = [store EXCEPT ![o][i] = [X(w) EXCEPT !.hash = Hash(w), !.gen = X(w).gen + 1, !.stage = 0]]
      PROVE  CInv'
  <2>1. PICK x : x = [y EXCEPT !.hash = h, !.gen = y.gen + 1, !.stage = 0]
    OBVIOUS
  <2>2. store' = [store EXCEPT ![o][i] = x]
    BY <1>3, <1>8, <1>9, <2>1
  <2> QED  BY <1>6, <1>9, <2>1, <2>2
<1> QED  BY <1>5, <1>7, <1>9

\* What seems to be available was, whatever the statuses lag behind.
LEMMA SeenInductive == IInv /\ CInv /\ [Next]_vars => CInv'
<1> SUFFICES ASSUME IInv, CInv, [Next]_vars PROVE CInv'
  OBVIOUS
<1>1. CASE UNCHANGED cluster
  BY <1>1, SameSees DEF cluster
<1>2. ASSUME NEW w \in Worker, Work(w) PROVE CInv'
  BY <1>1, <1>2, CreateSees, UpdateSees DEF Work, Begin, Get, After, Wait
<1>3. ASSUME NEW o \in Owner,
             \/ Cluster(o) \/ Revise(o)
             \/ \E n \in Node : DeleteOldPod(o, n)
             \/ \E i \in Object(o) : DeleteObject(o, i)
      PROVE  CInv'
  BY <1>3, ClusterSees, UsersSee
<1> QED  BY <1>1, <1>2, <1>3 DEF Next, Restart, vars

\* Before the first pass there is nothing to see.
LEMMA SeenInitially == Init => CInv
<1> SUFFICES ASSUME Init PROVE CInv
  OBVIOUS
<1>1. \A o \in Owner : \A i \in Object(o) : store[o][i] = None
  BY DEF Init, Object
<1>2. \A o \in Owner : \A n \in Node : pods[o][n] = None
  BY DEF Init
<1> QED  BY <1>1, <1>2 DEF CInv, ObjTypes, PodsOnNodes, Seen, Exists

\* The objects a worker in the state r has come past.
Been(r) == IF r.pc = "idle" THEN {} ELSE 1..(r.at - 1)

Sound(o, i) ==
    /\ chart[o][i].wait /\ chart[o][i].kind \notin {"Deployment", "StatefulSet"}
    /\ ~(chart[o][i].kind = "BuildConfig" /\ chart[o][i].vendor)
    => <<o, i>> \in was

SoundInv == \A w \in Worker : \A i \in Been(run[w]) : Sound(run[w].owner, i)

\* A worker without an owner has come past nothing.
LEMMA PastIsBeen ==
    ASSUME Runs, NEW w \in Worker
    PROVE  Past(w) = Been(run[w])
<1>1. run[w] = Idle <=> run[w].pc = "idle"
  BY DEF Runs, Working, Idle
<1> QED  BY <1>1 DEF Past, Been

\* A touch leaves a worker where it is.
LEMMA SameRuns ==
    ASSUME Runs, UNCHANGED run \/ \E o, i : Touch(o, i), NEW w \in Worker
    PROVE  run'[w].owner = run[w].owner /\ run'[w].pc = run[w].pc /\ run'[w].at = run[w].at /\ run'[w].gen = run[w].gen
<1>1. PICK r, s : r = run[w] /\ s = run'[w]
  OBVIOUS
<1>2. s = r \/ s = [r EXCEPT !.fresh = FALSE]
  BY <1>1 DEF Touch
<1>3. r = [owner |-> r.owner, pc |-> r.pc, at |-> r.at, rev |-> r.rev, found |-> r.found,
           fresh |-> r.fresh, gen |-> r.gen]
  BY <1>1 DEF Runs, Working, Idle
<1>4. s.owner = r.owner /\ s.pc = r.pc /\ s.at = r.at /\ s.gen = r.gen
  BY <1>2, <1>3
<1> QED  BY <1>1, <1>4

\* The users and the controllers of the cluster take nothing back of what was.
LEMMA OthersSound ==
    ASSUME IInv, SoundInv, UNCHANGED chart, was \subseteq was', UNCHANGED run \/ \E o, i : Touch(o, i)
    PROVE  SoundInv'
<1> SUFFICES ASSUME NEW w \in Worker, NEW i \in Been(run'[w]) PROVE Sound(run[w].owner, i)'
  BY DEF SoundInv, Been
<1>1. run'[w].owner = run[w].owner /\ run'[w].pc = run[w].pc /\ run'[w].at = run[w].at
  BY SameRuns DEF IInv
<1>2. Sound(run[w].owner, i)
  BY <1>1 DEF SoundInv, Been
<1> QED  BY <1>1, <1>2 DEF Sound

\* A worker comes past an object only when it is sound to.
LEMMA WorkerSound ==
    ASSUME IInv, SoundInv, NEW w \in Worker, NEW r, Set(w, r), UNCHANGED chart,
           \A v \in Worker : \A k \in Been(run[v]) : <<run[v].owner, k>> \in was => <<run[v].owner, k>> \in was',
           \/ Been(r) = {}
           \/ /\ r.owner = run[w].owner /\ Working(w, run[w])
              /\ \/ r.at = run[w].at
                 \/ r.at = run[w].at + 1 /\ Sound(run[w].owner, run[w].at) /\ UNCHANGED was
    PROVE  SoundInv'
<1>1. \A v \in Worker : run'[v] = IF v = w THEN r ELSE run[v]
  BY DEF Set, IInv, Runs
<1>2. ASSUME NEW v \in Worker, NEW k \in Been(run[v]), NEW o, o = run[v].owner PROVE Sound(o, k)'
  BY <1>2 DEF SoundInv, Sound
<1>3. ASSUME NEW k \in Been(r), NEW o, o = r.owner PROVE Sound(o, k)'
  <2>1. o = run[w].owner /\ Working(w, run[w]) /\ run[w].at \in Nat /\ run[w].pc # "idle"
    BY <1>3, Charts DEF Working, IInv, Object
  <2>2. CASE k \in Been(run[w])
    BY <1>2, <2>1, <2>2
  <2>3. CASE k \notin Been(run[w])
    <3>1. r.at = run[w].at + 1 /\ k = run[w].at /\ Sound(run[w].owner, run[w].at) /\ UNCHANGED was
      BY <1>3, <2>1, <2>3 DEF Been
    <3> QED  BY <2>1, <3>1 DEF Sound
  <2> QED  BY <2>2, <2>3
<1>4. ASSUME NEW v \in Worker, NEW k \in Been(run'[v]), NEW o, o = run'[v].owner PROVE Sound(o, k)'
  BY <1>1, <1>2, <1>3, <1>4
<1> QED  BY <1>4 DEF SoundInv, Been, Sound

\* The pass goes on, or ends.
LEMMA AdvanceSound ==
    ASSUME IInv, SoundInv, NEW w \in Worker, Working(w, run[w]), Advance(w), UNCHANGED <<chart, was>>,
           Sound(run[w].owner, run[w].at)
    PROVE  SoundInv'
<1>1. PICK r : r = run[w]
  OBVIOUS
<1>2. PICK x : Set(w, x) /\ x = IF r.at < Len(chart[r.owner])
                              THEN [r EXCEPT !.at = r.at + 1, !.pc = "get", !.found = None, !.fresh = FALSE, !.gen = 0]
                              ELSE Idle
  BY <1>1 DEF Advance
<1>3. CASE r.at < Len(chart[r.owner])
  <2>1. PICK a, b, c, d, e, f, g : a = r.owner /\ b = r.pc /\ c = r.at /\ d = r.rev /\ e = r.found /\ f = r.fresh /\ g = r.gen
    OBVIOUS
  <2>2. r = [owner |-> a, pc |-> b, at |-> c, rev |-> d, found |-> e, fresh |-> f, gen |-> g]
    BY <1>1, <2>1 DEF Working
  <2>3. x.owner = a /\ x.at = c + 1
    BY <1>2, <1>3, <2>2
  <2> QED  BY <1>1, <1>2, <2>1, <2>3, WorkerSound
<1>4. CASE ~(r.at < Len(chart[r.owner]))
  <2>1. x = Idle /\ Been(x) = {}
    BY <1>2, <1>4 DEF Been, Idle
  <2> QED  BY <1>2, <2>1, WorkerSound
<1> QED  BY <1>3, <1>4

\* The worker moves on within its object, or fails.
LEMMA MoveSound ==
    ASSUME IInv, SoundInv, NEW w \in Worker, Working(w, run[w]), UNCHANGED chart,
           \A v \in Worker : \A k \in Been(run[v]) : <<run[v].owner, k>> \in was => <<run[v].owner, k>> \in was',
           NEW p, NEW f, NEW g,
           \/ Set(w, [run[w] EXCEPT !.pc = p])
           \/ Set(w, [run[w] EXCEPT !.pc = p, !.gen = g])
           \/ Set(w, [run[w] EXCEPT !.pc = p, !.found = f, !.fresh = TRUE, !.gen = g])
           \/ Set(w, Idle)
    PROVE  SoundInv'
<1>1. PICK r : r = run[w]
  OBVIOUS
<1>2. CASE Set(w, Idle)
  <2>1. Been(Idle) = {}
    BY DEF Been, Idle
  <2> QED  BY <1>2, <2>1, WorkerSound
<1>3. CASE ~Set(w, Idle)
  <2>1. PICK x : Set(w, x) /\ \/ x = [r EXCEPT !.pc = p] \/ x = [r EXCEPT !.pc = p, !.gen = g]
                              \/ x = [r EXCEPT !.pc = p, !.found = f, !.fresh = TRUE, !.gen = g]
    BY <1>1, <1>3
  <2>2. PICK a, b, c, d, e, h, k : a = r.owner /\ b = r.pc /\ c = r.at /\ d = r.rev /\ e = r.found /\ h = r.fresh /\ k = r.gen
    OBVIOUS
  <2>3. r = [owner |-> a, pc |-> b, at |-> c, rev |-> d, found |-> e, fresh |-> h, gen |-> k]
    BY <1>1, <2>2 DEF Working
  <2>4. x.owner = a /\ x.at = c
    BY <2>1, <2>3
  <2> QED  BY <1>1, <2>1, <2>2, <2>4, WorkerSound
<1> QED  BY <1>2, <1>3

\* The rule of each kind succeeds only for an object that was available.
LEMMA PolledWas ==
    ASSUME IInv, CInv, NEW w \in Worker, Working(w, run[w]), NEW b \in BOOLEAN, Waits(w) => ForResource(w, b)
    PROVE  Sound(run[w].owner, run[w].at)
<1>1. PICK o, i : o = run[w].owner /\ i = run[w].at
  OBVIOUS
<1>2. o \in Owner /\ i \in Object(o)
  BY <1>1 DEF Working, Object
<1> SUFFICES ASSUME chart[o][i].wait, chart[o][i].kind \notin {"Deployment", "StatefulSet"} PROVE <<o, i>> \in was
  BY <1>1 DEF Sound
<1>3. PICK x, k : x = store[o][i] /\ k = chart[o][i].kind
  OBVIOUS
<1>4. M(w) = chart[o][i] /\ X(w) = x
  BY <1>1, <1>3 DEF M, X
<1>5. ForResource(w, b)
  BY <1>4 DEF Waits
<1>6. x # None /\ Exists(o, i)
  BY <1>2, <1>3, <1>4, <1>5 DEF ForResource, Exists
<1>7. Seems(o, i) => <<o, i>> \in was
  BY <1>2, <1>6 DEF CInv, Seen
<1>8. k \in Kinds /\ k # "Deployment" /\ k # "StatefulSet"
  BY <1>2, <1>3, Charts DEF IInv
<1>9. CASE k = "BuildConfig"
  <2>1. builds[o] # <<>> /\ builds[o][1] = "Complete"
    BY <1>1, <1>3, <1>4, <1>5, <1>9 DEF ForResource, forPhase
  <2>2. 1 \in DOMAIN builds[o]
    BY <1>2, <2>1 DEF IInv, OtherTypes
  <2>3. Available(o, i)
    BY <1>3, <1>9, <2>1, <2>2 DEF Available
  <2> QED  BY <1>7, <2>3 DEF Seems
<1>10. CASE k = "DaemonSet"
  <2>1. forDaemonSetCallback(x.status)
    BY <1>3, <1>4, <1>5, <1>10 DEF ForResource, ForDaemonSet
  <2> QED  BY <1>3, <1>7, <1>10, <2>1 DEF Seems
<1>11. CASE k \notin {"BuildConfig", "DaemonSet"}
  <2>1. x.stage = FinalStage(k)
    <3>1. CASE k = "Job"
      BY <1>3, <1>4, <1>5, <3>1 DEF ForResource, forJob, FinalStage
    <3>2. CASE k = "Pod"
      BY <1>3, <1>4, <1>5, <3>2 DEF ForResource, forPhase
    <3>3. CASE k \notin {"Job", "Pod"}
      <4>1. FinalStage(k) = 0
        BY <1>8, <3>3 DEF FinalStage
      <4>2. x.stage \in 0..FinalStage(k)
        BY <1>2, <1>3, <1>6 DEF CInv, ObjTypes, Typed
      <4> QED  BY <4>1, <4>2
    <3> QED  BY <3>1, <3>2, <3>3
  <2>2. Available(o, i)
    BY <1>3, <1>11, <2>1 DEF Available
  <2> QED  BY <1>7, <2>2 DEF Seems
<1> QED  BY <1>9, <1>10, <1>11

\* The steps of a worker.
LEMMA WorkSound ==
    ASSUME IInv, CInv, SoundInv, NEW w \in Worker, Work(w)
    PROVE  SoundInv'
<1>1. CASE Begin(w)
  <2>1. PICK o \in queue : Set(w, [Idle EXCEPT !.owner = o, !.pc = "get", !.at = 1, !.rev = revision[o]])
    BY <1>1 DEF Begin
  <2>2. PICK x, v : v = revision[o] /\ x = [Idle EXCEPT !.owner = o, !.pc = "get", !.at = 1, !.rev = revision[o]]
    OBVIOUS
  <2>3. x = [owner |-> o, pc |-> "get", at |-> 1, rev |-> v, found |-> None, fresh |-> FALSE, gen |-> 0]
    BY <2>2, Zenon DEF Idle
  <2>4. Been(x) = {}
    BY <2>3 DEF Been
  <2>5. UNCHANGED <<chart, was>>
    BY <1>1 DEF Begin, cluster
  <2> QED  BY <2>1, <2>2, <2>4, <2>5, WorkerSound
<1>2. ASSUME run[w].pc # "idle" PROVE Working(w, run[w])
  BY <1>2 DEF IInv, Runs, Idle
<1>3. CASE Get(w)
  <2>1. UNCHANGED <<chart, was>> /\ Working(w, run[w])
    BY <1>2, <1>3 DEF Get, cluster
  <2>2. CASE skipRebuildDriverContainer(w) /\ Advance(w)
    <3>1. Sound(run[w].owner, run[w].at)
      BY <2>2 DEF skipRebuildDriverContainer, M, Sound
    <3> QED  BY <2>1, <2>2, <3>1, AdvanceSound
  <2>3. CASE Fail(w)
    BY <2>1, <2>3, MoveSound DEF Fail
  <2>4. ASSUME NEW p, NEW f, NEW g, Set(w, [run[w] EXCEPT !.pc = p, !.found = f, !.fresh = TRUE, !.gen = g])
        PROVE  SoundInv'
    BY <2>1, <2>4, MoveSound
  <2>5. \/ skipRebuildDriverContainer(w) /\ Advance(w)
        \/ Fail(w)
        \/ \E p, f, g : Set(w, [run[w] EXCEPT !.pc = p, !.found = f, !.fresh = TRUE, !.gen = g])
    BY <1>3 DEF Get
  <2> QED  BY <2>2, <2>3, <2>4, <2>5
<1>4. CASE Create(w)
  <2>1. UNCHANGED chart /\ Working(w, run[w])
    BY <1>2, <1>4 DEF Create
  <2>2. PICK o, i : o = run[w].owner /\ i = run[w].at
    OBVIOUS
  <2>3. /\ was \ {<<o, i>>} \subseteq was'
        /\ Fail(w) \/ Set(w, [run[w] EXCEPT !.pc = "after", !.gen = 1])
    BY <1>4, <2>2 DEF Create
  <2>4. ASSUME NEW v \in Worker, NEW k \in Been(run[v]), <<run[v].owner, k>> \in was PROVE <<run[v].owner, k>> \in was'
    <3>1. Working(v, run[v]) /\ run[v].at \in Nat
      <4>1. run[v].pc # "idle"
        BY DEF Been
      <4>2. run[v] # Idle
        BY <4>1 DEF Idle
      <4>3. Working(v, run[v])
        BY <4>2 DEF IInv, Runs
      <4>4. run[v].owner \in Owner /\ run[v].at \in Object(run[v].owner)
        BY <4>3 DEF Working, Object
      <4> QED  BY <4>3, <4>4, Charts DEF IInv
    <3>2. <<run[v].owner, k>> # <<o, i>>
      <4>1. SUFFICES ASSUME run[v].owner = o, k = i PROVE FALSE
        OBVIOUS
      <4>2. v = w
        BY <2>1, <2>2, <3>1, <4>1 DEF Working
      <4>3. run[v].pc # "idle" /\ k \in 1..(run[v].at - 1)
        BY DEF Been
      <4> QED  BY <2>2, <3>1, <4>1, <4>2, <4>3
    <3> QED  BY <2>3, <2>4, <3>2
  <2> QED  BY <2>1, <2>3, <2>4, MoveSound DEF Fail
<1>5. CASE Update(w)
  <2>1. UNCHANGED <<chart, was>> /\ Working(w, run[w])
    BY <1>2, <1>5 DEF Update
  <2>2. Fail(w) \/ Set(w, [run[w] EXCEPT !.pc = "after", !.gen = run[w].found.gen])
    BY <1>5 DEF Update
  <2>3. PICK g : g = run[w].found.gen
    OBVIOUS
  <2>4. Fail(w) \/ Set(w, [run[w] EXCEPT !.pc = "after", !.gen = g])
    BY <2>2, <2>3
  <2> QED  BY <2>1, <2>4, MoveSound DEF Fail
<1>6. CASE After(w)
  <2>1. UNCHANGED <<chart, was>> /\ Working(w, run[w])
    BY <1>2, <1>6 DEF After, cluster
  <2>2. Fail(w) \/ Set(w, [run[w] EXCEPT !.pc = "wait"])
    BY <1>6 DEF After, CheckForImagePullBackOff, CheckForStalePods
  <2> QED  BY <2>1, <2>2, MoveSound DEF Fail
<1>7. CASE Wait(w)
  <2>1. UNCHANGED <<chart, was>> /\ Working(w, run[w])
    BY <1>2, <1>7 DEF Wait, cluster
  <2>2. CASE Fail(w)
    BY <2>1, <2>2, MoveSound DEF Fail
  <2>3. ASSUME NEW b \in BOOLEAN, Waits(w) => ForResource(w, b), Advance(w) PROVE SoundInv'
    <3>1. Sound(run[w].owner, run[w].at)
      BY <2>1, <2>3, PolledWas
    <3> QED  BY <2>1, <2>3, <3>1, AdvanceSound
  <2>4. \/ Fail(w)
        \/ \E b \in BOOLEAN : (Waits(w) => ForResource(w, b)) /\ Advance(w)
    BY <1>7 DEF Wait
  <2> QED  BY <2>2, <2>3, <2>4
<1> QED  BY <1>1, <1>3, <1>4, <1>5, <1>6, <1>7 DEF Work

\* Every step keeps it.
LEMMA SoundInductive == IInv /\ CInv /\ SoundInv /\ [Next]_vars => SoundInv'
<1> SUFFICES ASSUME IInv, CInv, SoundInv, [Next]_vars PROVE SoundInv'
  OBVIOUS
<1>1. CASE UNCHANGED vars
  BY <1>1, OthersSound DEF vars, cluster
<1>2. ASSUME NEW w \in Worker, Work(w) PROVE SoundInv'
  BY <1>2, WorkSound
<1>3. ASSUME NEW o \in Owner, Cluster(o) PROVE SoundInv'
  <2>1. UNCHANGED chart /\ was \subseteq was' /\ (UNCHANGED run \/ \E p, i : Touch(p, i))
    BY <1>3 DEF Cluster, Progress, CreatePod, StartPod, PublishStatus, StartBuild, CompleteBuild
  <2> QED  BY <2>1, OthersSound
<1>4. ASSUME NEW o \in Owner,
             \/ Revise(o)
             \/ \E n \in Node : DeleteOldPod(o, n)
             \/ \E i \in Object(o) : DeleteObject(o, i)
      PROVE  SoundInv'
  <2>1. UNCHANGED chart /\ was \subseteq was' /\ (UNCHANGED run \/ \E p, i : Touch(p, i))
    BY <1>4 DEF Revise, DeleteOldPod, DeleteObject
  <2> QED  BY <2>1, OthersSound
<1>5. CASE Restart
  <2>1. \A w \in Worker : run'[w].pc = "idle"
    BY <1>5 DEF Restart, Idle
  <2> QED  BY <2>1 DEF SoundInv, Been
<1> QED  BY <1>1, <1>2, <1>3, <1>4, <1>5 DEF Next

\* An object that is waited for was really available, at some time since it was created,
\* before a pass touches anything that comes after it: whatever the order of the
\* statuses, the pods, the updates and the restarts, no rule of pkg/poll other than
\* those for Deployments and StatefulSets succeeds too early.
THEOREM WaitsAreSound == Spec => []WaitIsSound
<1>1. Init => SoundInv
  <2> SUFFICES ASSUME Init PROVE SoundInv
    OBVIOUS
  <2>1. \A w \in Worker : run[w] = Idle
    BY DEF Init
  <2>2. \A w \in Worker : Been(run[w]) = {}
    BY <2>1 DEF Been, Idle
  <2> QED  BY <2>2 DEF SoundInv
<1>2. IInv /\ SoundInv => WaitIsSound
  <2> SUFFICES ASSUME IInv, SoundInv, NEW w \in Worker, NEW i \in Past(w) PROVE Sound(run[w].owner, i)
    BY DEF WaitIsSound, Sound
  <2> QED  BY PastIsBeen DEF IInv, SoundInv
<1> QED  BY <1>1, <1>2, Initially, Inductive, SeenInitially, SeenInductive, SoundInductive, PTL DEF Spec

-----------------------------------------------------------------------------
(* Old pods *)

\* A pod of an older template than that of a DaemonSet that is waited for.
Old(o, i) ==
    /\ chart[o][i].kind = "DaemonSet" /\ chart[o][i].wait /\ chart[o][i].onDelete /\ store[o][i] # None
    /\ \E n \in Node : pods[o][n] # None /\ pods[o][n].gen # store[o][i].gen

\* A pass in the state r has still to look at the DaemonSet, of the generation g.
Sees(r, o, i, g) ==
    /\ r.pc # "idle" /\ r.owner = o
    /\ r.at < i \/ (r.at = i /\ (r.pc \in {"get", "write"} \/ r.gen = g))

Seeing ==
    \A o \in Owner : \A i \in Object(o) : Old(o, i) /\ "DaemonSet" \in Watched[WorkerOf[o]] =>
       o \in queue \cup blind \/ \E w \in Worker : Sees(run[w], o, i, store[o][i].gen)

\* Steps of others that make no pod old.
LEMMA OthersSee ==
    ASSUME IInv, Seeing, UNCHANGED <<chart, blind>>, queue \subseteq queue', UNCHANGED run \/ \E o, i : Touch(o, i),
           \A o \in Owner : \A i \in Object(o) : Old(o, i)' => Old(o, i) /\ store'[o][i].gen = store[o][i].gen
    PROVE  Seeing'
<1> SUFFICES ASSUME NEW o \in Owner, NEW i \in Object(o), Old(o, i)', "DaemonSet" \in Watched[WorkerOf[o]],
                    o \notin queue' \cup blind'
             PROVE  \E w \in Worker : Sees(run'[w], o, i, store'[o][i].gen)
  <2>1. \A o \in Owner : Object(o)' = Object(o)
    BY DEF Object
  <2> QED  BY <2>1 DEF Seeing, Sees
<1>1. PICK w \in Worker : Sees(run[w], o, i, store[o][i].gen)
  BY DEF Seeing
<1>2. run'[w].owner = run[w].owner /\ run'[w].pc = run[w].pc /\ run'[w].at = run[w].at /\ run'[w].gen = run[w].gen
  BY SameRuns DEF IInv
<1>3. store'[o][i].gen = store[o][i].gen
  OBVIOUS
<1> QED  BY <1>1, <1>2, <1>3 DEF Sees

\* The controllers of the cluster make pods of the latest template.
LEMMA ClusterSeesOld ==
    ASSUME IInv, CInv, Seeing, NEW o \in Owner, Cluster(o)
    PROVE  Seeing'
<1>1. ASSUME NEW i \in Object(o), Progress(o, i) PROVE Seeing'
  <2>1. UNCHANGED <<chart, pods, blind>> /\ queue \subseteq queue' /\ Touch(o, i) /\ Exists(o, i)
    BY <1>1 DEF Progress
  <2>2. PICK x, y : store' = [store EXCEPT ![o][i] = x] /\ y = store[o][i] /\ x = [y EXCEPT !.stage = y.stage + 1]
    BY <1>1 DEF Progress
  <2>3. store'[o][i] = x
    BY <2>2 DEF IInv, StoreTypes, Object
  <2>4. \A p \in Owner : \A j \in Object(p) : (p = o /\ j = i) \/ store'[p][j] = store[p][j]
    BY <2>1, <2>2, StoreKeeps DEF IInv
  <2>5. x.gen = y.gen
    BY <2>1, <2>2 DEF CInv, ObjTypes, Typed, Exists
  <2>6. \A p \in Owner : \A j \in Object(p) : Old(p, j)' => Old(p, j) /\ store'[p][j].gen = store[p][j].gen
    BY <2>1, <2>2, <2>3, <2>4, <2>5 DEF Old, Exists
  <2> QED  BY <2>1, <2>6, OthersSee
<1>2. ASSUME NEW n \in Node, CreatePod(o, n) PROVE Seeing'
  <2>1. UNCHANGED <<chart, store, queue, run, blind>>
    BY <1>2 DEF CreatePod
  <2>2. PICK i, g : i \in OfKind(o, "DaemonSet") /\ g = store[o][i].gen /\ pods' = [pods EXCEPT ![o][n] = [gen |-> g, state |-> "pending"]]
    BY <1>2 DEF CreatePod
  <2>3. /\ \A p \in Owner : \A m \in Node : (p = o /\ m = n) \/ pods'[p][m] = pods[p][m]
        /\ pods'[o][n].gen = g
    BY <2>2 DEF IInv, PodTypes
  <2>4. \A j \in Object(o) : chart[o][j].kind = "DaemonSet" => j = i
    BY <2>2, Charts DEF IInv, OfKind
  <2>5. \A p \in Owner : \A j \in Object(p) : Old(p, j)' => Old(p, j) /\ store'[p][j].gen = store[p][j].gen
    BY <2>1, <2>2, <2>3, <2>4 DEF Old
  <2> QED  BY <2>1, <2>5, OthersSee
<1>3. ASSUME NEW n \in Node, StartPod(o, n) PROVE Seeing'
  <2>1. UNCHANGED <<chart, store, queue, run, blind>> /\ pods[o][n] # None
    BY <1>3 DEF StartPod
  <2>2. PICK s, y : y = pods[o][n] /\ pods' = [pods EXCEPT ![o][n] = [y EXCEPT !.state = s]]
    BY <1>3 DEF StartPod
  <2>3. y = [gen |-> y.gen, state |-> y.state]
    BY <2>1, <2>2 DEF IInv, PodTypes
  <2>4. [y EXCEPT !.state = s].gen = y.gen
    BY <2>3
  <2>5. /\ \A p \in Owner : \A m \in Node : (p = o /\ m = n) \/ pods'[p][m] = pods[p][m]
        /\ pods'[o][n].gen = y.gen
    BY <2>2, <2>4 DEF IInv, PodTypes
  <2>6. \A p \in Owner : \A j \in Object(p) : Old(p, j)' => Old(p, j) /\ store'[p][j].gen = store[p][j].gen
    BY <2>1, <2>2, <2>5 DEF Old
  <2> QED  BY <2>1, <2>6, OthersSee
<1>4. CASE PublishStatus(o)
  <2>1. UNCHANGED <<chart, pods, blind>>
    BY <1>4 DEF PublishStatus
  <2>2. PICK i \in OfKind(o, "DaemonSet") : \E st :
           store' = [store EXCEPT ![o][i] = [store[o][i] EXCEPT !.status = st]] /\ queue \subseteq queue' /\ Touch(o, i)
    BY <1>4 DEF PublishStatus
  <2>3. PICK st, x, y : /\ y = store[o][i] /\ x = [y EXCEPT !.status = st] /\ store' = [store EXCEPT ![o][i] = x]
                        /\ queue \subseteq queue' /\ Touch(o, i)
    BY <2>2
  <2>4. i \in Object(o) /\ y # None
    BY <2>3 DEF OfKind, Exists
  <2>5. x.gen = y.gen
    BY <2>3, <2>4 DEF CInv, ObjTypes, Typed
  <2>6. store'[o][i] = x
    BY <2>3, <2>4 DEF IInv, StoreTypes, Object
  <2>7. \A p \in Owner : \A j \in Object(p) : (p = o /\ j = i) \/ store'[p][j] = store[p][j]
    BY <2>1, <2>3, <2>4, StoreKeeps DEF IInv
  <2>8. \A p \in Owner : \A j \in Object(p) : Old(p, j)' => Old(p, j) /\ store'[p][j].gen = store[p][j].gen
    BY <2>1, <2>3, <2>4, <2>5, <2>6, <2>7 DEF Old
  <2> QED  BY <2>1, <2>3, <2>8, OthersSee
<1>5. CASE StartBuild(o) \/ CompleteBuild(o)
  BY <1>5, OthersSee DEF StartBuild, CompleteBuild, Old
<1> QED  BY <1>1, <1>2, <1>3, <1>4, <1>5 DEF Cluster

\* Users make no pod old: the pods of a DaemonSet that is deleted go with it.
LEMMA UsersSeeOld ==
    ASSUME IInv, Seeing, NEW o \in Owner,
           \/ Revise(o)
           \/ \E n \in Node : DeleteOldPod(o, n)
           \/ \E i \in Object(o) : DeleteObject(o, i)
    PROVE  Seeing'
<1>1. CASE Revise(o)
  BY <1>1, OthersSee DEF Revise, Old
<1>2. ASSUME NEW n \in Node, DeleteOldPod(o, n) PROVE Seeing'
  <2>1. UNCHANGED <<chart, store, queue, run, blind>> /\ pods' = [pods EXCEPT ![o][n] = None]
    BY <1>2 DEF DeleteOldPod
  <2>2. \A p \in Owner : \A m \in Node : pods'[p][m] = None \/ pods'[p][m] = pods[p][m]
    BY <2>1 DEF IInv, PodTypes
  <2>3. \A p \in Owner : \A j \in Object(p) : Old(p, j)' => Old(p, j) /\ store'[p][j].gen = store[p][j].gen
    BY <2>1, <2>2 DEF Old
  <2> QED  BY <2>1, <2>3, OthersSee
<1>3. ASSUME NEW i \in Object(o), DeleteObject(o, i) PROVE Seeing'
  <2>1. /\ UNCHANGED <<chart, blind>> /\ queue \subseteq queue' /\ Touch(o, i)
        /\ store' = [store EXCEPT ![o][i] = None]
        /\ chart[o][i].kind = "DaemonSet" \/ UNCHANGED pods
        /\ pods' = pods \/ pods' = [pods EXCEPT ![o] = [n \in Node |-> None]]
    BY <1>3 DEF DeleteObject
  <2>2. store'[o][i] = None
    BY <2>1 DEF IInv, StoreTypes, Object
  <2>3. \A p \in Owner : \A j \in Object(p) : (p = o /\ j = i) \/ store'[p][j] = store[p][j]
    BY <2>1, StoreKeeps DEF IInv
  <2>4. \A p \in Owner : \A m \in Node : pods'[p][m] = None \/ pods'[p][m] = pods[p][m]
    BY <2>1 DEF IInv, PodTypes
  <2>5. \A p \in Owner : \A j \in Object(p) : Old(p, j)' => Old(p, j) /\ store'[p][j].gen = store[p][j].gen
    BY <2>1, <2>2, <2>3, <2>4 DEF Old
  <2> QED  BY <2>1, <2>5, OthersSee
<1> QED  BY <1>1, <1>2, <1>3

\* A worker's step that does not touch the cluster loses no pass that has still to look.
LEMMA WorkerSees ==
    ASSUME IInv, Seeing, NEW w \in Worker, NEW r, Set(w, r), UNCHANGED <<chart, store, pods>>,
           \A o \in queue \cup blind : o \in queue' \cup blind' \/ \A i \in Object(o) : Sees(r, o, i, store[o][i].gen),
           \A o \in Owner : \A i \in Object(o) : Old(o, i) /\ Sees(run[w], o, i, store[o][i].gen) =>
              o \in queue' \cup blind' \/ Sees(r, o, i, store[o][i].gen)
    PROVE  Seeing'
<1>1. \A v \in Worker : run'[v] = IF v = w THEN r ELSE run[v]
  BY DEF Set, IInv, Runs
<1> SUFFICES ASSUME NEW o \in Owner, NEW i \in Object(o), Old(o, i), "DaemonSet" \in Watched[WorkerOf[o]],
                    o \notin queue' \cup blind', NEW g, g = store[o][i].gen
             PROVE  \E v \in Worker : Sees(run'[v], o, i, g)
  <2>1. \A o \in Owner : Object(o)' = Object(o) /\ \A i \in Object(o) : Old(o, i)' <=> Old(o, i)
    BY DEF Object, Old
  <2>2. \A o \in Owner : \A i \in Object(o) : \A v \in Worker :
           Sees(run[v], o, i, store[o][i].gen)' <=> Sees(run'[v], o, i, store'[o][i].gen)
    BY DEF Sees
  <2> QED  BY <2>1, <2>2 DEF Seeing
<1>2. o \in queue \cup blind \/ \E v \in Worker : Sees(run[v], o, i, g)
  BY DEF Seeing
<1>3. CASE o \in queue \cup blind
  BY <1>1, <1>3
<1>4. ASSUME NEW v \in Worker, Sees(run[v], o, i, g) PROVE \E u \in Worker : Sees(run'[u], o, i, g)
  <2>1. CASE v = w
    BY <1>1, <1>4, <2>1
  <2>2. CASE v # w
    BY <1>1, <1>4, <2>2
  <2> QED  BY <2>1, <2>2
<1> QED  BY <1>2, <1>3, <1>4

\* A pass that fails comes again.
LEMMA FailSees ==
    ASSUME IInv, Seeing, NEW w \in Worker, Fail(w), UNCHANGED <<chart, store, pods, blind>>
    PROVE  Seeing'
<1>1. Set(w, Idle) /\ queue' = queue \cup {run[w].owner}
  BY DEF Fail
<1>2. \A o, i, g : Sees(run[w], o, i, g) => o \in queue'
  BY <1>1 DEF Sees
<1> QED  BY <1>1, <1>2, WorkerSees

\* A pass goes on from an object that is no DaemonSet with old pods, or blindly.
LEMMA AdvanceSees ==
    ASSUME IInv, Seeing, NEW w \in Worker, Working(w, run[w]), Advance(w), UNCHANGED <<chart, store, pods, queue>>,
           blind \subseteq blind',
           \/ run[w].owner \in blind'
           \/ ~(Old(run[w].owner, run[w].at) /\ Sees(run[w], run[w].owner, run[w].at, store[run[w].owner][run[w].at].gen))
    PROVE  Seeing'
<1>1. PICK r : r = run[w]
  OBVIOUS
<1>2. PICK x : Set(w, x) /\ x = IF r.at < Len(chart[r.owner])
                              THEN [r EXCEPT !.at = r.at + 1, !.pc = "get", !.found = None, !.fresh = FALSE, !.gen = 0]
                              ELSE Idle
  BY <1>1 DEF Advance
<1>3. r.owner \in Owner /\ chart[r.owner] \in Seq(Manifest) /\ r.at \in Nat
  BY <1>1, Charts DEF Working, IInv, Object
<1>4. ASSUME NEW o \in Owner, NEW i \in Object(o), NEW g, g = store[o][i].gen, Old(o, i), Sees(r, o, i, g),
             o \notin blind'
      PROVE  Sees(x, o, i, g)
  <2>1. o = r.owner /\ i \in Nat /\ i <= Len(chart[o])
    BY <1>3, <1>4 DEF Sees, Object
  <2>2. r.at # i
    BY <1>1, <1>4, <2>1
  <2>3. r.at < i
    BY <1>4, <2>2 DEF Sees
  <2>4. r.at < Len(chart[r.owner])
    BY <1>3, <2>1, <2>3
  <2>5. PICK a, b, c, d, e, f, h : a = r.owner /\ b = r.pc /\ c = r.at /\ d = r.rev /\ e = r.found /\ f = r.fresh /\ h = r.gen
    OBVIOUS
  <2>6. r = [owner |-> a, pc |-> b, at |-> c, rev |-> d, found |-> e, fresh |-> f, gen |-> h]
    BY <1>1, <2>5 DEF Working
  <2>7. x.owner = a /\ x.at = c + 1 /\ x.pc = "get"
    BY <1>2, <2>4, <2>6
  <2>8. c < i /\ c \in Nat /\ a = o
    BY <1>3, <2>1, <2>3, <2>5
  <2>9. c + 1 < i \/ c + 1 = i
    BY <2>1, <2>8
  <2> QED  BY <2>7, <2>8, <2>9 DEF Sees
<1>5. \A o \in Owner : \A i \in Object(o) : Old(o, i) /\ Sees(run[w], o, i, store[o][i].gen) =>
         o \in blind' \/ Sees(x, o, i, store[o][i].gen)
  BY <1>1, <1>4
<1> QED  BY <1>2, <1>5, WorkerSees

\* A worker begins with an owner it takes from the queue.
LEMMA BeginSees ==
    ASSUME IInv, Seeing, NEW w \in Worker, Begin(w)
    PROVE  Seeing'
<1>1. PICK o \in queue : /\ queue' = queue \ {o} /\ blind' = blind \ {o}
                         /\ Set(w, [Idle EXCEPT !.owner = o, !.pc = "get", !.at = 1, !.rev = revision[o]])
  BY DEF Begin
<1>2. run[w].pc = "idle" /\ UNCHANGED <<chart, store, pods>>
  BY DEF Begin, cluster
<1>3. PICK x, v : v = revision[o] /\ x = [Idle EXCEPT !.owner = o, !.pc = "get", !.at = 1, !.rev = revision[o]]
  OBVIOUS
<1>4. x = [owner |-> o, pc |-> "get", at |-> 1, rev |-> v, found |-> None, fresh |-> FALSE, gen |-> 0]
  BY <1>3, Zenon DEF Idle
<1>5. o \in Owner
  BY DEF IInv, Globals, Queueable
<1>6. chart[o] \in Seq(Manifest)
  BY <1>5, ResourceAssumption DEF IInv, StoreTypes
<1>7. ASSUME NEW i \in Object(o), NEW g PROVE Sees(x, o, i, g)
  <2>1. i \in Nat /\ i >= 1
    BY <1>6 DEF Object
  <2>2. 1 < i \/ 1 = i
    BY <2>1
  <2> QED  BY <1>4, <2>2 DEF Sees
<1>8. \A p \in queue \cup blind : p \in queue' \cup blind' \/ \A i \in Object(p) : Sees(x, p, i, store[p][i].gen)
  BY <1>1, <1>7
<1>9. \A p, i, g : ~Sees(run[w], p, i, g)
  BY <1>2 DEF Sees
<1> QED  BY <1>1, <1>2, <1>3, <1>8, <1>9, WorkerSees

\* Reading the DaemonSet: the generation to compare with is the one that is found.
LEMMA GetSees ==
    ASSUME IInv, Seeing, NEW w \in Worker, Get(w)
    PROVE  Seeing'
<1>1. UNCHANGED <<chart, store, pods, blind>> /\ run[w].pc = "get" /\ Working(w, run[w])
  BY DEF Get, cluster, IInv, Runs, Idle
<1>2. CASE skipRebuildDriverContainer(w) /\ Advance(w) /\ UNCHANGED queue
  <2>1. ~Old(run[w].owner, run[w].at)
    BY <1>2 DEF skipRebuildDriverContainer, M, Old
  <2> QED  BY <1>1, <1>2, <2>1, AdvanceSees
<1>3. CASE Fail(w)
  BY <1>1, <1>3, FailSees
<1>4. ASSUME UNCHANGED queue, NEW p, NEW f, NEW g,
             Set(w, [run[w] EXCEPT !.pc = p, !.found = f, !.fresh = TRUE, !.gen = g]),
             p = "write" \/ (p = "after" /\ g = X(w).gen)
      PROVE  Seeing'
  <2>1. PICK r, x : r = run[w] /\ x = [r EXCEPT !.pc = p, !.found = f, !.fresh = TRUE, !.gen = g]
    OBVIOUS
  <2>2. PICK a, b, c, d, e, h, k : a = r.owner /\ b = r.pc /\ c = r.at /\ d = r.rev /\ e = r.found /\ h = r.fresh /\ k = r.gen
    OBVIOUS
  <2>3. r = [owner |-> a, pc |-> b, at |-> c, rev |-> d, found |-> e, fresh |-> h, gen |-> k]
    BY <1>1, <2>1, <2>2 DEF Working
  <2>4. x = [owner |-> a, pc |-> p, at |-> c, rev |-> d, found |-> f, fresh |-> TRUE, gen |-> g]
    <3>1. x = [r EXCEPT !.pc = p, !.found = f, !.fresh = TRUE, !.gen = g]
      BY <2>1
    <3> QED  BY <2>3, <3>1, Zenon
  <2>5. X(w) = store[a][c]
    BY <2>1, <2>2 DEF X
  <2>6. ASSUME NEW o \in Owner, NEW i \in Object(o), Sees(r, o, i, store[o][i].gen) PROVE Sees(x, o, i, store[o][i].gen)
    <3>1. a = o /\ (c < i \/ c = i)
      BY <2>2, <2>6 DEF Sees
    <3>2. CASE c < i
      BY <1>4, <2>4, <3>1, <3>2 DEF Sees
    <3>3. CASE c = i
      BY <1>4, <2>4, <2>5, <3>1, <3>3 DEF Sees
    <3> QED  BY <3>1, <3>2, <3>3
  <2>7. Set(w, x)
    BY <1>4, <2>1
  <2> QED  BY <1>1, <1>4, <2>1, <2>6, <2>7, WorkerSees
<1>5. CASE /\ LET done == X(w) # None /\ (IsNotUpdateable(M(w).kind) \/ X(w).hash = Hash(w))
              IN  Set(w, [run[w] EXCEPT !.pc = IF done THEN "after" ELSE "write",
                                        !.found = X(w), !.fresh = TRUE,
                                        !.gen = IF done THEN X(w).gen ELSE 0])
           /\ UNCHANGED queue
  <2> DEFINE done == X(w) # None /\ (IsNotUpdateable(M(w).kind) \/ X(w).hash = Hash(w))
  <2>1. Set(w, [run[w] EXCEPT !.pc = IF done THEN "after" ELSE "write",
                              !.found = X(w), !.fresh = TRUE,
                              !.gen = IF done THEN X(w).gen ELSE 0])
    BY <1>5
  <2> HIDE DEF done
  <2>2. PICK p, f, g : p = (IF done THEN "after" ELSE "write") /\ f = X(w) /\ g = IF done THEN X(w).gen ELSE 0
    OBVIOUS
  <2>3. Set(w, [run[w] EXCEPT !.pc = p, !.found = f, !.fresh = TRUE, !.gen = g])
    BY <2>1, <2>2
  <2>4. p = "write" \/ (p = "after" /\ g = X(w).gen)
    BY <2>2
  <2> QED  BY <1>4, <1>5, <2>3, <2>4
<1> QED  BY <1>2, <1>3, <1>5 DEF Get

\* afterCRUD leaves the generation alone.
LEMMA AfterSees ==
    ASSUME IInv, Seeing, NEW w \in Worker, After(w)
    PROVE  Seeing'
<1>1. UNCHANGED <<chart, store, pods, blind>> /\ run[w].pc = "after" /\ Working(w, run[w])
  BY DEF After, cluster, IInv, Runs, Idle
<1>2. CASE Fail(w)
  BY <1>1, <1>2, FailSees
<1>4. CASE Set(w, [run[w] EXCEPT !.pc = "wait"]) /\ UNCHANGED queue
  <2>1. PICK r, x : r = run[w] /\ x = [r EXCEPT !.pc = "wait"]
    OBVIOUS
  <2>2. x.owner = r.owner /\ x.pc = "wait" /\ x.at = r.at /\ x.gen = r.gen /\ r.pc = "after"
    BY <1>1, <2>1 DEF Working
  <2>3. \A o, i, g : Sees(r, o, i, g) => Sees(x, o, i, g)
    BY <2>2 DEF Sees
  <2> QED  BY <1>1, <1>4, <2>1, <2>3, WorkerSees
<1> QED  BY <1>2, <1>4 DEF After, CheckForImagePullBackOff, CheckForStalePods

\* A wait that knows the generation does not succeed while old pods run.
LEMMA WaitSees ==
    ASSUME IInv, Seeing, NEW w \in Worker, Wait(w)
    PROVE  Seeing'
<1>1. UNCHANGED <<chart, store, pods>> /\ run[w].pc = "wait" /\ Working(w, run[w])
  BY DEF Wait, cluster, IInv, Runs, Idle
<1>2. CASE Fail(w) /\ UNCHANGED blind
  BY <1>1, <1>2, FailSees
<1>3. CASE Advance(w) /\ blind' = blind \cup {run[w].owner} /\ UNCHANGED queue
  BY <1>1, <1>3, AdvanceSees
<1>4. CASE (Waits(w) => ForResource(w, TRUE)) /\ Advance(w) /\ UNCHANGED <<queue, blind>>
  <2>1. PICK o, i : o = run[w].owner /\ i = run[w].at
    OBVIOUS
  <2>2. ASSUME Old(o, i), Sees(run[w], o, i, store[o][i].gen) PROVE FALSE
    <3>1. M(w) = chart[o][i] /\ X(w) = store[o][i]
      BY <2>1 DEF M, X
    <3>2. ForDaemonSet(w, TRUE)
      BY <1>4, <2>2, <3>1 DEF Old, Waits, ForResource
    <3>3. PodGenerations(o) \subseteq {run[w].gen}
      BY <2>1, <2>2, <3>1, <3>2 DEF ForDaemonSet, forLifecycleAvailability, Old
    <3>4. run[w].gen = store[o][i].gen
      <4>1. i \in Nat
        BY <1>1, <2>1, Charts DEF Working, IInv, Object
      <4> QED  BY <1>1, <2>1, <2>2, <4>1 DEF Sees
    <3> QED  BY <2>2, <3>3, <3>4 DEF Old, PodGenerations
  <2> QED  BY <1>1, <1>4, <2>1, <2>2, AdvanceSees
<1> QED  BY <1>2, <1>3, <1>4 DEF Wait

\* One object is written by a worker that stays at it: only it can have new old pods.
LEMMA WriteSees ==
    ASSUME IInv, Seeing, NEW w \in Worker, NEW r, Set(w, r), UNCHANGED <<chart, pods, blind>>, queue \subseteq queue',
           Working(w, run[w]), r.owner = run[w].owner, r.at = run[w].at, r.pc = "after",
           \A p \in Owner : \A j \in Object(p) : (p = r.owner /\ j = r.at) \/ store'[p][j] = store[p][j],
           Old(r.owner, r.at)' /\ "DaemonSet" \in Watched[WorkerOf[r.owner]] =>
              r.owner \in queue' \/ r.gen = store'[r.owner][r.at].gen
    PROVE  Seeing'
<1>1. \A v \in Worker : run'[v] = IF v = w THEN r ELSE run[v]
  BY DEF Set, IInv, Runs
<1> SUFFICES ASSUME NEW o \in Owner, NEW i \in Object(o), Old(o, i)', "DaemonSet" \in Watched[WorkerOf[o]],
                    o \notin queue' \cup blind', NEW g, g = store'[o][i].gen
             PROVE  \E v \in Worker : Sees(run'[v], o, i, g)
  <2>1. \A o \in Owner : Object(o)' = Object(o)
    BY DEF Object
  <2>2. \A o \in Owner : \A i \in Object(o) : \A v \in Worker :
           Sees(run[v], o, i, store[o][i].gen)' <=> Sees(run'[v], o, i, store'[o][i].gen)
    BY DEF Sees
  <2>3. ASSUME NEW o \in Owner, NEW i \in Object(o), Old(o, i)', "DaemonSet" \in Watched[WorkerOf[o]]
        PROVE  o \in queue' \cup blind' \/ \E v \in Worker : Sees(run'[v], o, i, store'[o][i].gen)
    BY <2>3
  <2> QED  BY <2>1, <2>2, <2>3 DEF Seeing
<1>2. CASE o = r.owner /\ i = r.at
  <2>1. Sees(r, o, i, g)
    BY <1>2 DEF Sees
  <2> QED  BY <1>1, <2>1
<1>3. CASE ~(o = r.owner /\ i = r.at)
  <2>1. store'[o][i] = store[o][i]
    BY <1>3
  <2>2. Old(o, i)
    BY <2>1 DEF Old
  <2>3. PICK v \in Worker : Sees(run[v], o, i, g)
    BY <2>1, <2>2 DEF Seeing
  <2>4. CASE v = w
    <3>1. r.owner = o /\ r.at < i
      BY <1>3, <2>3, <2>4 DEF Sees
    <3>2. Sees(r, o, i, g)
      BY <3>1 DEF Sees
    <3> QED  BY <1>1, <3>2
  <2>5. CASE v # w
    BY <1>1, <2>3, <2>5
  <2> QED  BY <2>4, <2>5
<1> QED  BY <1>2, <1>3

\* A new DaemonSet is waited for with its own generation.
LEMMA CreateSeesOld ==
    ASSUME IInv, Seeing, NEW w \in Worker, Create(w)
    PROVE  Seeing'
<1>1. UNCHANGED <<chart, pods, blind>> /\ Working(w, run[w])
  BY DEF Create, IInv, Runs, Idle
<1>2. PICK o, i, h, r : o = run[w].owner /\ i = run[w].at /\ h = Hash(w) /\ r = [run[w] EXCEPT !.pc = "after", !.gen = 1]
  OBVIOUS
<1>3. o \in Owner /\ i \in Object(o)
  BY <1>1, <1>2 DEF Working, Object
<1>4. CASE Fail(w) /\ UNCHANGED store
  BY <1>1, <1>4, FailSees
<1>5. ASSUME NEW x, x.gen = 1, store' = [store EXCEPT ![o][i] = x], queue \subseteq queue', Set(w, r)
      PROVE  Seeing'
  <2>1. store'[o][i] = x
    BY <1>3, <1>5 DEF IInv, StoreTypes, Object
  <2>2. \A p \in Owner : \A j \in Object(p) : (p = o /\ j = i) \/ store'[p][j] = store[p][j]
    BY <1>1, <1>3, <1>5, StoreKeeps DEF IInv
  <2>3. r.owner = o /\ r.at = i /\ r.pc = "after" /\ r.gen = 1
    BY <1>1, <1>2 DEF Working
  <2>4. r.owner = run[w].owner /\ r.at = run[w].at /\ r.gen = store'[r.owner][r.at].gen
    BY <1>2, <1>5, <2>1, <2>3
  <2>5. Set(w, r) /\ queue \subseteq queue'
    BY <1>5
  <2> QED  BY <1>1, <2>2, <2>3, <2>4, <2>5, WriteSees
<1>6. \/ Fail(w) /\ UNCHANGED store
      \/ \E x : /\ x = [hash |-> h, gen |-> 1, stage |-> 0,
                        status |-> [desiredNumberScheduled |-> 0, numberAvailable |-> Absent,
                                    numberUnavailable |-> Absent]]
                /\ store' = [store EXCEPT ![o][i] = x]
                /\ queue \subseteq queue' /\ Set(w, r)
  BY <1>2 DEF Create
<1> QED  BY <1>4, <1>5, <1>6

\* An update of a DaemonSet that is watched queues its owner: the pass that made it
\* compares with the generation before, the next one with the new one.
LEMMA UpdateSeesOld ==
    ASSUME IInv, Seeing, NEW w \in Worker, Update(w)
    PROVE  Seeing'
<1>1. UNCHANGED <<chart, pods, blind>> /\ Working(w, run[w])
  BY DEF Update, IInv, Runs, Idle
<1>2. PICK o, i, g, y : o = run[w].owner /\ i = run[w].at /\ g = run[w].found.gen
                        /\ y = [X(w) EXCEPT !.hash = Hash(w), !.gen = X(w).gen + 1, !.stage = 0]
  OBVIOUS
<1>3. o \in Owner /\ i \in Object(o)
  BY <1>1, <1>2 DEF Working, Object
<1>5. CASE Fail(w) /\ UNCHANGED store
  BY <1>1, <1>5, FailSees
<1>6. CASE /\ store' = [store EXCEPT ![o][i] = y] /\ queue' = queue \cup Notify(o, i, FALSE)
           /\ Set(w, [run[w] EXCEPT !.pc = "after", !.gen = g])
  <2>1. PICK r : r = [run[w] EXCEPT !.pc = "after", !.gen = g]
    OBVIOUS
  <2>2. \A p \in Owner : \A j \in Object(p) : (p = o /\ j = i) \/ store'[p][j] = store[p][j]
    <3>1. store' = [store EXCEPT ![o][i] = y] /\ StoreTypes
      BY <1>6 DEF IInv
    <3> QED  BY <1>1, <1>3, <3>1, StoreKeeps
  <2>3. r.owner = o /\ r.at = i /\ r.pc = "after"
    BY <1>1, <1>2, <2>1 DEF Working
  <2>4. chart[o][i].kind = "DaemonSet" /\ "DaemonSet" \in Watched[WorkerOf[o]] => o \in queue'
    BY <1>6 DEF Notify, F!UpdateFunc, F!isSpecialResource, F!isSpecialResourceUnmanaged
  <2>5. Old(o, i)' => chart[o][i].kind = "DaemonSet"
    BY <1>1 DEF Old
  <2>6. Set(w, r) /\ queue \subseteq queue'
    BY <1>6, <2>1
  <2> QED  BY <1>1, <1>2, <2>2, <2>3, <2>4, <2>5, <2>6, WriteSees
<1>7. \/ Fail(w) /\ UNCHANGED store
      \/ /\ store' = [store EXCEPT ![o][i] = y] /\ queue' = queue \cup Notify(o, i, FALSE)
         /\ Set(w, [run[w] EXCEPT !.pc = "after", !.gen = g])
  BY <1>2 DEF Update
<1> QED  BY <1>5, <1>6, <1>7

\* Every step keeps it.
LEMMA SeeingInductive == IInv /\ CInv /\ Seeing /\ [Next]_vars => Seeing'
<1> SUFFICES ASSUME IInv, CInv, Seeing, [Next]_vars PROVE Seeing'
  OBVIOUS
<1>1. CASE UNCHANGED vars
  BY <1>1, OthersSee DEF vars, cluster, Old
<1>2. ASSUME NEW w \in Worker, Work(w) PROVE Seeing'
  BY <1>2, BeginSees, GetSees, CreateSeesOld, UpdateSeesOld, AfterSees, WaitSees DEF Work
<1>3. ASSUME NEW o \in Owner,
             \/ Cluster(o) \/ Revise(o)
             \/ \E n \in Node : DeleteOldPod(o, n)
             \/ \E i \in Object(o) : DeleteObject(o, i)
      PROVE  Seeing'
  BY <1>3, ClusterSeesOld, UsersSeeOld
<1>4. CASE Restart
  <2>1. \A o \in Owner : \A i \in Object(o)' : o \in queue'
    BY <1>4, Charts DEF Restart, cluster, Object, IInv, StoreTypes
  <2> QED  BY <2>1 DEF Seeing
<1> QED  BY <1>1, <1>2, <1>3, <1>4 DEF Next

\* A pass that updated a DaemonSet compares its pods with the generation before the
\* update, and so may not see that old ones run; but the controller of an owner with
\* old pods is never at rest, whatever fails, is deleted or restarts: its own update
\* causes the pass that sees them, unless the informers' copies that pass reads
\* (GetPodFromDaemonSet) are behind or cannot be read.
THEOREM OldPodsSeen == Spec => []OldPodsAreSeen
<1>1. Init => Seeing
  <2>1. ASSUME Init, NEW o \in Owner, NEW i \in Object(o) PROVE ~Old(o, i)
    BY <2>1 DEF Init, Old, Object
  <2> QED  BY <2>1 DEF Seeing
<1>2. Seeing => OldPodsAreSeen
  <2> SUFFICES ASSUME Seeing, NEW o \in Owner \ blind, OldPods(o), "DaemonSet" \in Watched[WorkerOf[o]]
               PROVE  o \in queue \/ \E w \in Worker : run[w].owner = o
    BY DEF OldPodsAreSeen
  <2>1. PICK i \in Object(o) : Old(o, i)
    BY DEF OldPods, OfKind, Exists, PodGenerations, Old
  <2> QED  BY <2>1 DEF Seeing, Sees
<1> QED  BY <1>1, <1>2, Initially, Inductive, SeenInitially, SeenInductive, SeeingInductive, PTL DEF Spec

=============================================================================
