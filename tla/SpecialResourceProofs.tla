------------------------ MODULE SpecialResourceProofs ------------------------
(***************************************************************************)
(* Type correctness of the SpecialResource controller, the invariant       *)
(* FinalizerGuardsCluster, and that the controller implements Ownership,   *)
(* for any set of SpecialResources, dependencies, values and bounds.       *)
(***************************************************************************)
EXTENDS SpecialResource, TLAPS

\* Most steps are first-order; the time given to a prover covers what the proof
\* manager does meanwhile.
USE ZenonT(3), SMTT(20), ZenonT(30)

\* The informer is behind the API server, never beside it: what it has not seen
\* yet ends with the stored object.
CacheFollows ==
    \A s \in SR :
        /\ pending[s] = <<>> => cache[s] = api[s]
        /\ pending[s] # <<>> => pending[s][Len(pending[s])].obj = api[s]

NoRemovalAfter(s, i) == \A j \in (i + 1)..Len(pending[s]) : pending[s][j].obj # None

Seen(s, i) == IF i = 0 THEN cache[s] ELSE pending[s][i].obj

\* A version with the finalizer stays a version of an object with the finalizer
\* until the object is removed.
FinalizerStays ==
    \A s \in SR : \A i \in 0..Len(pending[s]) :
        /\ Seen(s, i) # None
        /\ Seen(s, i).finalizer
        /\ NoRemovalAfter(s, i)
        => HasFinalizer(s)

\* What the worker may conclude from a copy it holds.
HeldIsSound ==
    \A s \in SR : held[s] # "gone" =>
        /\ api[s] # None
        /\ sr[s] # None
        /\ sr[s].finalizer => api[s].finalizer

\* The worker's own progress.
WorkerInv ==
    /\ pc # "idle" => /\ wi.req \in SR /\ wi.main \in SR /\ wi.cur \in SR
                      /\ sr[wi.main] # None /\ sr[wi.cur] # None
    /\ pc = "create" => wi.next \in 1..Len(Deps[wi.main])
    /\ pc \in {"states", "deploy"} => sr[wi.cur].finalizer
    /\ pc = "deploy" /\ wi.cur \in Stateful => HasFinalizer(wi.cur)
    /\ pc = "unfinalize" => wi.main \notin Marked

IInv ==
    /\ TypeOK
    /\ CacheFollows
    /\ FinalizerStays
    /\ HeldIsSound
    /\ WorkerInv
    /\ FinalizerGuardsCluster

HistoryOK ==
    /\ skipped \subseteq SR /\ unlisted \subseteq SR /\ missed \subseteq SR
    /\ dropped \in [SR -> SUBSET SR]

-----------------------------------------------------------------------------
(* What a write to the API server and a delivery to the cache preserve *)

StoredOK ==
    /\ api \in [SR -> Obj \cup {None}]
    /\ pending \in [SR -> Seq(Version)]
    /\ \A s \in SR : Len(pending[s]) <= MaxLag
    /\ cache \in [SR -> Obj \cup {None}]
    /\ CacheFollows
    /\ FinalizerStays

\* A write that does not take the finalizer from an object others rely on keeps
\* the relation between stored, pending and cached versions (client.Update, Create).
LEMMA StoreKeeps ==
    ASSUME StoredOK, NEW s \in SR, NEW o \in Obj \cup {None}, NEW g \in BOOLEAN,
           Store(s, o, g), cache' = cache,
           o # None /\ HasFinalizer(s) => o.finalizer
    PROVE  StoredOK'
<1> DEFINE v == [obj |-> o, newGeneration |-> g]
           n == Len(pending[s])
<1>a. v \in Version
  BY DEF Version
<1>1. v \in Version /\ pending[s] \in Seq(Version) /\ n \in Nat
  <2>1. pending[s] \in Seq(Version)
    BY DEF StoredOK
  <2> QED  BY <1>a, <2>1
<1>2. /\ pending'[s] = Append(pending[s], v)
      /\ \A t \in SR \ {s} : pending'[t] = pending[t] /\ api'[t] = api[t]
      /\ api'[s] = o
      /\ pending' \in [SR -> Seq(Version)]
      /\ api' \in [SR -> Obj \cup {None}]
  BY <1>1 DEF StoredOK, Store
<1>3. /\ Len(pending'[s]) = n + 1
      /\ \A i \in 1..n : pending'[s][i] = pending[s][i]
      /\ pending'[s][n + 1] = v
      /\ pending'[s] # <<>>
  BY <1>1, <1>2
<1>4. \A t \in SR : Len(pending'[t]) <= MaxLag
  BY <1>1, <1>2, <1>3, SRAssumption DEF StoredOK, Store
<1>5. CacheFollows'
  BY <1>2, <1>3 DEF StoredOK, CacheFollows
<1>6. FinalizerStays'
  <2> SUFFICES ASSUME NEW t \in SR, NEW i \in 0..Len(pending'[t]),
                      Seen(t, i)' # None, Seen(t, i)'.finalizer, NoRemovalAfter(t, i)'
               PROVE  HasFinalizer(t)'
    BY DEF FinalizerStays
  <2>1. CASE t # s
    <3>1. Seen(t, i) = Seen(t, i)' /\ NoRemovalAfter(t, i) /\ i \in 0..Len(pending[t])
      BY <2>1, <1>2 DEF Seen, NoRemovalAfter
    <3>2. HasFinalizer(t)
      BY <3>1 DEF StoredOK, FinalizerStays
    <3> QED  BY <3>2, <2>1, <1>2 DEF HasFinalizer
  <2>2. CASE t = s /\ i = n + 1
    BY <2>2, <1>1, <1>2, <1>3 DEF Seen, HasFinalizer
  <2>3. CASE t = s /\ i # n + 1
    <3>1. i \in 0..n
      BY <2>3, <1>1, <1>3
    <3>2. o # None
      BY <3>1, <2>3, <1>1, <1>3 DEF NoRemovalAfter
    <3>3. Seen(s, i) = Seen(s, i)' /\ NoRemovalAfter(s, i)
      BY <3>1, <2>3, <1>1, <1>3 DEF NoRemovalAfter, Seen
    <3>4. HasFinalizer(s)
      BY <3>1, <3>3, <2>3 DEF StoredOK, FinalizerStays
    <3> QED  BY <3>2, <3>4, <2>3, <1>2 DEF HasFinalizer
  <2> QED  BY <2>1, <2>2, <2>3
<1> QED  BY <1>2, <1>4, <1>5, <1>6 DEF StoredOK

\* So does the informer when it takes the next version into its cache.
LEMMA SyncKeeps ==
    ASSUME StoredOK, NEW s \in SR, pending[s] # <<>>, api' = api,
           cache' = [cache EXCEPT ![s] = Head(pending[s]).obj],
           pending' = [pending EXCEPT ![s] = Tail(@)]
    PROVE  StoredOK'
<1> DEFINE n == Len(pending[s])
<1>1. pending[s] \in Seq(Version) /\ n \in Nat \ {0}
  BY DEF StoredOK
<1>2. /\ pending'[s] = Tail(pending[s])
      /\ Tail(pending[s]) \in Seq(Version)
      /\ Len(pending'[s]) = n - 1
      /\ \A i \in 1..(n - 1) : pending'[s][i] = pending[s][i + 1]
      /\ cache'[s] = pending[s][1].obj
      /\ pending[s][1] \in Version
      /\ \A t \in SR \ {s} : pending'[t] = pending[t] /\ cache'[t] = cache[t]
  BY <1>1 DEF StoredOK
<1>3. pending' \in [SR -> Seq(Version)] /\ cache' \in [SR -> Obj \cup {None}]
  BY <1>2 DEF StoredOK, Version
<1>4. \A t \in SR : Len(pending'[t]) <= MaxLag
  BY <1>1, <1>2, SRAssumption DEF StoredOK
<1>5. CacheFollows'
  <2> SUFFICES ASSUME NEW t \in SR
               PROVE  /\ pending'[t] = <<>> => cache'[t] = api[t]
                      /\ pending'[t] # <<>> => pending'[t][Len(pending'[t])].obj = api[t]
    BY DEF CacheFollows
  <2>1. CASE t # s
    BY <2>1, <1>2 DEF StoredOK, CacheFollows
  <2>2. CASE t = s
    <3>1. pending[s][n].obj = api[s]
      BY DEF StoredOK, CacheFollows
    <3>2. CASE n = 1
      <4>1. pending'[s] = <<>>
        BY <3>2, <1>1, <1>2
      <4> QED  BY <4>1, <3>1, <3>2, <2>2, <1>2
    <3>3. CASE n # 1
      <4> HIDE DEF n
      <4>1. n - 1 \in 1..(n - 1) /\ Len(pending'[s]) # 0
        BY <3>3, <1>1, <1>2
      <4>2. pending'[s] # <<>>
        BY <4>1
      <4> QED  BY <4>1, <4>2, <3>1, <2>2, <1>1, <1>2
    <3> QED  BY <3>2, <3>3
  <2> QED  BY <2>1, <2>2
<1>6. FinalizerStays'
  <2> SUFFICES ASSUME NEW t \in SR, NEW i \in 0..Len(pending'[t]),
                      Seen(t, i)' # None, Seen(t, i)'.finalizer, NoRemovalAfter(t, i)'
               PROVE  HasFinalizer(t)'
    BY DEF FinalizerStays
  <2>1. CASE t # s
    <3>1. Seen(t, i) = Seen(t, i)' /\ NoRemovalAfter(t, i) /\ i \in 0..Len(pending[t])
      BY <2>1, <1>2 DEF Seen, NoRemovalAfter
    <3> QED  BY <3>1 DEF StoredOK, FinalizerStays, HasFinalizer
  <2>2. CASE t = s
    <3>1. i \in 0..(n - 1) /\ i + 1 \in 0..n
      BY <2>2, <1>1, <1>2
    <3>2. Seen(s, i + 1) = Seen(s, i)'
      BY <3>1, <1>1, <1>2 DEF Seen
    <3>3. NoRemovalAfter(s, i + 1)
      <4> SUFFICES ASSUME NEW j \in (i + 2)..n  PROVE pending[s][j].obj # None
        BY <3>1, <1>1 DEF NoRemovalAfter
      <4>1. j - 1 \in (i + 1)..(n - 1) /\ j - 1 \in 1..(n - 1) /\ (j - 1) + 1 = j
        BY <3>1, <1>1
      <4>2. pending'[s][j - 1].obj # None
        BY <4>1, <2>2, <1>2 DEF NoRemovalAfter
      <4> QED  BY <4>1, <4>2, <1>2
    <3> QED  BY <3>1, <3>2, <3>3, <2>2 DEF StoredOK, FinalizerStays, HasFinalizer
  <2> QED  BY <2>1, <2>2
<1> QED  BY <1>3, <1>4, <1>5, <1>6 DEF StoredOK

\* What concerns stored and cached versions only does not depend on the rest.
LEMMA SameStored ==
    ASSUME StoredOK, UNCHANGED <<api, pending, cache>>
    PROVE  StoredOK'
  BY DEF StoredOK, CacheFollows, FinalizerStays, Seen, NoRemovalAfter, HasFinalizer

\* The part of the invariant that concerns stored and cached versions.
LEMMA StoredPart == TypeOK /\ CacheFollows /\ FinalizerStays => StoredOK
  BY DEF TypeOK, StoredOK, lapses

\* A status write leaves the stored object as it is.
LEMMA StatusKeeps ==
    ASSUME IInv, NEW s \in SR, NEW c \in Condition, WriteStatus(s, c), cache' = cache
    PROVE  StoredOK' /\ api' = api /\ status' \in [SR -> Condition]
<1>1. StoredOK /\ api[s] \in Obj \cup {None}
  BY StoredPart DEF IInv, TypeOK
<1>2. Store(s, api[s], FALSE)
  BY DEF WriteStatus
<1>3. StoredOK'
  BY <1>1, <1>2, StoreKeeps DEF HasFinalizer
<1>4. api' = api
  BY <1>2 DEF Store, IInv, TypeOK
<1>5. status' \in [SR -> Condition]
  BY DEF WriteStatus, IInv, TypeOK
<1> QED  BY <1>3, <1>4, <1>5

\* SetAsErrored, whether its write succeeds or is given up.
LEMMA ErroredKeeps ==
    ASSUME IInv, NEW s \in SR, SetAsErrored(s), cache' = cache
    PROVE  StoredOK' /\ api' = api /\ status' \in [SR -> Condition]
<1>1. CASE held[s] = "fresh"
  <2>1. WriteStatus(s, "Errored") /\ "Errored" \in Condition
    BY <1>1 DEF SetAsErrored, Condition
  <2> QED  BY <2>1, StatusKeeps
<1>2. CASE held[s] # "fresh"
  BY <1>2, StoredPart, SameStored DEF SetAsErrored, stored, IInv, TypeOK
<1> QED  BY <1>1, <1>2

\* A worker that has finished its pass holds nothing.
LEMMA DoneKeeps ==
    ASSUME Done
    PROVE  /\ HeldIsSound' /\ WorkerInv'
           /\ pc' \in Steps
           /\ wi' \in [req : SR \cup {None}, main : SR \cup {None},
                       cur : SR \cup {None}, next : Nat \ {0}]
           /\ sr' \in [SR -> Obj \cup {None}]
           /\ held' \in [SR -> {"fresh", "stale", "gone"}]
  BY DEF Done, NoWorkItem, NoCopies, NotHeld, Steps, HeldIsSound, WorkerInv

\* The operator starts in a state of the invariant: nothing is stored, cached,
\* queued or deployed.
THEOREM Initially == Init => IInv
<1> SUFFICES ASSUME Init PROVE IInv
  OBVIOUS
<1>1. TypeOK
  BY SRAssumption DEF Init, TypeOK, Condition, NoWorkItem, NoCopies, NotHeld, Steps
<1>2. CacheFollows
  BY DEF Init, CacheFollows
<1>3. FinalizerStays
  BY DEF Init, FinalizerStays, Seen
<1>4. HeldIsSound /\ WorkerInv
  BY DEF Init, HeldIsSound, WorkerInv, NotHeld
<1>5. FinalizerGuardsCluster
  BY DEF Init, FinalizerGuardsCluster, Marked, lapses
<1> QED  BY <1>1, <1>2, <1>3, <1>4, <1>5 DEF IInv

-----------------------------------------------------------------------------
(* Users, the garbage collector, the informers and restarts *)

\* Updates of one or two fields of an object.
LEMMA FieldUpdates ==
    ASSUME NEW o \in Obj, NEW m \in ManagementState, NEW v \in Values
    PROVE  /\ [o EXCEPT !.mgmt = m, !.set = v] \in Obj
           /\ [o EXCEPT !.mgmt = m, !.set = v].finalizer = o.finalizer
           /\ [o EXCEPT !.deleting = TRUE] \in Obj
           /\ [o EXCEPT !.deleting = TRUE].finalizer = o.finalizer
           /\ [o EXCEPT !.finalizer = TRUE] \in Obj
           /\ [o EXCEPT !.finalizer = TRUE].finalizer = TRUE
           /\ [o EXCEPT !.set = v] \in Obj
           /\ [o EXCEPT !.set = v].finalizer = o.finalizer
  BY DEF Obj

\* Objects whose owner is removed become orphans.
LEMMA OrphanedObjects ==
    ASSUME NEW d \in Objects \cup {None}
    PROVE  /\ Orphaned(d) \in Objects \cup {None}
           /\ Orphaned(d) # None => Orphaned(d).owner = "orphan"
  BY DEF Orphaned, Objects

\* A user's write of an object that keeps its finalizer, or removes an object
\* that has none.
LEMMA UserWriteKeeps ==
    ASSUME IInv, NEW s \in SR, NEW o \in Obj \cup {None}, UserWrite(s, o, TRUE),
           HasFinalizer(s) => o # None /\ o.finalizer
    PROVE  IInv'
<1>1. StoredOK'
  BY StoredPart, StoreKeeps DEF IInv, UserWrite
<1>2. api'[s] = o /\ \A t \in SR \ {s} : api'[t] = api[t]
  BY DEF IInv, TypeOK, UserWrite, Store
<1>3. /\ deployed' \in [SR -> Objects \cup {None}]
      /\ \A t \in SR \ {s} : deployed'[t] = deployed[t]
      /\ \/ deployed'[s] = deployed[s]
         \/ deployed'[s] # None => deployed'[s].owner = "orphan"
  BY OrphanedObjects DEF IInv, TypeOK, UserWrite, OrphanIfGone
<1>4. TypeOK'
  <2>1. status' \in [SR -> Condition]
    BY DEF IInv, TypeOK, UserWrite, Condition
  <2>2. held' \in [SR -> {"fresh", "stale", "gone"}]
    BY DEF IInv, TypeOK, UserWrite
  <2>3. edits' \in 0..MaxEdits
    BY SRAssumption DEF IInv, TypeOK, UserWrite
  <2> QED  BY <1>1, <1>3, <2>1, <2>2, <2>3 DEF IInv, TypeOK, UserWrite, StoredOK, lapses
<1>5. HeldIsSound'
  BY <1>2 DEF IInv, TypeOK, UserWrite, HeldIsSound, HasFinalizer
<1>6. WorkerInv'
  BY <1>2 DEF IInv, UserWrite, WorkerInv, Marked, lapses, HasFinalizer
<1>7. FinalizerGuardsCluster'
  BY <1>2, <1>3 DEF IInv, UserWrite, FinalizerGuardsCluster, Marked, lapses, HasFinalizer
<1> QED  BY <1>1, <1>4, <1>5, <1>6, <1>7 DEF IInv, StoredOK

\* Creating, editing and deleting SpecialResources and deleting owned objects.
LEMMA UsersKeep == IInv /\ Users => IInv'
<1> SUFFICES ASSUME IInv, NEW s \in SR,
                    \/ CreateSpecialResource(s) \/ EditSpec(s)
                    \/ DeleteSpecialResource(s) \/ DeleteOwnedObject(s)
             PROVE  IInv'
  BY DEF Users
<1>1. CASE CreateSpecialResource(s)
  <2>1. PICK m \in UserStates, v \in Values :
          UserWrite(s, [mgmt |-> m, deleting |-> FALSE, finalizer |-> FALSE, set |-> v], TRUE)
    BY <1>1 DEF CreateSpecialResource
  <2>2. [mgmt |-> m, deleting |-> FALSE, finalizer |-> FALSE, set |-> v] \in Obj
    BY SRAssumption DEF Obj, ManagementState
  <2>3. ~HasFinalizer(s)
    BY <1>1 DEF CreateSpecialResource, HasFinalizer
  <2> QED  BY <2>1, <2>2, <2>3, UserWriteKeeps
<1>2. CASE EditSpec(s)
  <2>1. PICK m \in UserStates, v \in Values :
          UserWrite(s, [api[s] EXCEPT !.mgmt = m, !.set = v], TRUE)
    BY <1>2 DEF EditSpec
  <2> DEFINE o == [api[s] EXCEPT !.mgmt = m, !.set = v]
  <2>2. o \in Obj /\ o.finalizer = api[s].finalizer
    <3>1. api[s] \in Obj /\ m \in ManagementState
      BY <1>2, SRAssumption DEF EditSpec, IInv, TypeOK, ManagementState
    <3> QED  BY <3>1, FieldUpdates
  <2> HIDE DEF o
  <2> QED  BY <2>1, <2>2, UserWriteKeeps, NoneAssumption DEF HasFinalizer, o
<1>3. CASE DeleteSpecialResource(s)
  <2> DEFINE o == IF api[s].finalizer THEN [api[s] EXCEPT !.deleting = TRUE] ELSE None
  <2>1. UserWrite(s, o, TRUE)
    BY <1>3 DEF DeleteSpecialResource
  <2>2. o \in Obj \cup {None} /\ (HasFinalizer(s) => o \in Obj /\ o.finalizer)
    <3>1. api[s] \in Obj
      BY <1>3 DEF DeleteSpecialResource, IInv, TypeOK
    <3>2. PICK m \in ManagementState, v \in Values : TRUE
      BY SRAssumption DEF ManagementState
    <3>3. [api[s] EXCEPT !.deleting = TRUE] \in Obj
          /\ [api[s] EXCEPT !.deleting = TRUE].finalizer = api[s].finalizer
      BY <3>1, <3>2, FieldUpdates
    <3> QED  BY <3>3 DEF HasFinalizer
  <2> HIDE DEF o
  <2> QED  BY <2>1, <2>2, UserWriteKeeps, NoneAssumption
<1>4. CASE DeleteOwnedObject(s)
  <2>1. StoredOK'
    BY <1>4, StoredPart, SameStored DEF DeleteOwnedObject, stored, IInv
  <2>2. TypeOK'
    <3>1. /\ UNCHANGED <<status, queue, labelled, depcm, cmcache, worker, lapses, faults, restarts>>
          /\ edits' = edits + 1 /\ edits < MaxEdits /\ objEvents' = objEvents \cup {s}
          /\ deployed' = [deployed EXCEPT ![s] = None]
      BY <1>4 DEF DeleteOwnedObject, stored
    <3>2. edits' \in 0..MaxEdits /\ objEvents' \subseteq SR /\ deployed' \in [SR -> Objects \cup {None}]
      BY <3>1, SRAssumption DEF IInv, TypeOK
    <3> QED  BY <2>1, <3>1, <3>2 DEF worker, IInv, TypeOK, StoredOK, lapses
  <2>3. HeldIsSound' /\ WorkerInv'
    BY <1>4 DEF DeleteOwnedObject, stored, worker, IInv, HeldIsSound, WorkerInv, Marked, lapses, HasFinalizer
  <2>4. FinalizerGuardsCluster'
    BY <1>4 DEF DeleteOwnedObject, stored, IInv, TypeOK, FinalizerGuardsCluster, Marked, lapses, HasFinalizer
  <2> QED  BY <2>1, <2>2, <2>3, <2>4 DEF IInv, StoredOK
<1> QED  BY <1>1, <1>2, <1>3, <1>4

\* The garbage collector takes only orphans.
LEMMA GarbageCollectKeeps == ASSUME IInv, NEW s \in SR, GarbageCollect(s) PROVE IInv'
<1>1. StoredOK'
  BY StoredPart, SameStored DEF GarbageCollect, stored, IInv
<1>2. TypeOK'
  BY <1>1 DEF GarbageCollect, stored, worker, bounds, IInv, TypeOK, StoredOK, lapses
<1>3. HeldIsSound' /\ WorkerInv'
  BY DEF GarbageCollect, stored, worker, IInv, HeldIsSound, WorkerInv, Marked, lapses, HasFinalizer
<1>4. FinalizerGuardsCluster'
  BY DEF GarbageCollect, stored, IInv, TypeOK, FinalizerGuardsCluster, Marked, lapses, HasFinalizer
<1> QED  BY <1>1, <1>2, <1>3, <1>4 DEF IInv, StoredOK

\* Notifications of SpecialResources and of owned objects.
LEMMA InformersKeep ==
    ASSUME IInv, NEW s \in SR, SyncCache(s) \/ OwnedObjectEvent(s)
    PROVE  IInv'
<1>1. StoredOK'
  <2>1. CASE SyncCache(s)
    BY <2>1, StoredPart, SyncKeeps DEF SyncCache, IInv
  <2>2. CASE OwnedObjectEvent(s)
    BY <2>2, StoredPart, SameStored DEF OwnedObjectEvent, stored, IInv
  <2> QED  BY <2>1, <2>2
<1>2. /\ UNCHANGED <<api, status, deployed, labelled, depcm, cmcache, lapses, worker, bounds>>
      /\ queue' \subseteq SR /\ objEvents' \subseteq SR
  BY DEF SyncCache, OwnedObjectEvent, stored, cluster, IInv, TypeOK
<1>3. TypeOK'
  BY <1>1, <1>2 DEF worker, bounds, IInv, TypeOK, StoredOK, lapses
<1>4. HeldIsSound' /\ WorkerInv' /\ FinalizerGuardsCluster'
  BY <1>2 DEF worker, IInv, HeldIsSound, WorkerInv, FinalizerGuardsCluster, Marked, lapses, HasFinalizer
<1> QED  BY <1>1, <1>3, <1>4 DEF IInv, StoredOK

\* A restart forgets the work in progress and reads everything anew.
LEMMA RestartKeeps == IInv /\ Restart => IInv'
<1> SUFFICES ASSUME IInv, Restart PROVE IInv'
  OBVIOUS
<1>1. Done
  BY DEF Restart, Done
<1>2. TypeOK'
  <2>1. pending' \in [SR -> Seq(Version)] /\ \A s \in SR : Len(pending'[s]) <= MaxLag
    BY SRAssumption DEF Restart
  <2>2. restarts' \in 0..MaxRestarts
    BY SRAssumption DEF Restart, IInv, TypeOK
  <2> QED  BY <1>1, <2>1, <2>2, DoneKeeps DEF Restart, IInv, TypeOK, lapses
<1>3. CacheFollows'
  BY DEF Restart, CacheFollows
<1>4. FinalizerStays'
  BY DEF Restart, FinalizerStays, Seen, HasFinalizer
<1>5. FinalizerGuardsCluster'
  BY DEF Restart, IInv, FinalizerGuardsCluster, Marked, lapses, HasFinalizer
<1> QED  BY <1>1, <1>2, <1>3, <1>4, <1>5, DoneKeeps DEF IInv

-----------------------------------------------------------------------------
(* The worker *)

\* The branches of SpecialResourcesReconcile.
LEMMA BranchSteps ==
    ASSUME NEW o \in Obj
    PROVE  Branch(o) \in {"markDeleted", "remove", "idle", "progress"}
  BY DEF Obj, ManagementState, Branch

\* What Relation says of a cached copy is true of the stored object.
LEMMA RelationIsSound ==
    ASSUME IInv, NEW s \in SR, Relation(s) # "gone"
    PROVE  /\ cache[s] # None
           /\ api[s] # None
           /\ cache[s].finalizer => api[s].finalizer
<1> DEFINE n == Len(pending[s])
<1>1. cache[s] # None /\ \A i \in 1..n : pending[s][i].obj # None
  BY DEF Relation
<1>2. n \in Nat /\ (pending[s] # <<>> => n \in 1..n)
  <2>1. pending[s] \in Seq(Version)
    BY DEF IInv, TypeOK
  <2> QED  BY <2>1
<1>3. api[s] # None
  BY <1>1, <1>2 DEF IInv, CacheFollows
<1>4. cache[s].finalizer => HasFinalizer(s)
  <2>1. 0 \in 0..n /\ Seen(s, 0) = cache[s] /\ NoRemovalAfter(s, 0)
    BY <1>1, <1>2 DEF Seen, NoRemovalAfter
  <2> QED  BY <2>1, <1>1 DEF IInv, FinalizerStays
<1> QED  BY <1>1, <1>3, <1>4 DEF HasFinalizer

\* Taking a request: the copies the pass will work with are sound.
LEMMA ReconcileKeeps == ASSUME IInv, NEW n \in SR, Reconcile(n) PROVE IInv'
<1> DEFINE m == Target(n)
           started == ~(m = None \/ cache[m] = None \/ Branch(cache[m]) = "idle")
<1>1. StoredOK'
  BY StoredPart, SameStored DEF Reconcile, stored, IInv
<1>2. /\ UNCHANGED <<api, status, deployed, labelled, objEvents, depcm, cmcache,
                     skipped, unlisted, dropped, bounds>>
      /\ queue' \subseteq SR /\ missed' \subseteq SR
  BY DEF Reconcile, stored, cluster, IInv, TypeOK
<1>3. FinalizerGuardsCluster'
  BY <1>2 DEF IInv, FinalizerGuardsCluster, Marked, lapses, HasFinalizer
<1>4. CASE ~started
  <2>1. UNCHANGED worker
    BY <1>4 DEF Reconcile
  <2>2. TypeOK'
    BY <1>1, <1>2, <2>1 DEF worker, bounds, IInv, TypeOK, StoredOK, lapses
  <2>3. HeldIsSound' /\ WorkerInv'
    BY <1>2, <2>1 DEF worker, IInv, HeldIsSound, WorkerInv, Marked, HasFinalizer
  <2> QED  BY <1>1, <1>3, <2>2, <2>3 DEF IInv, StoredOK
<1>5. CASE started
  <2>1. m \in SR /\ cache[m] \in Obj
    BY <1>5 DEF Target, IInv, TypeOK
  <2>2. /\ pc' = Branch(cache[m])
        /\ wi' = [req |-> n, main |-> m, cur |-> m, next |-> 1]
        /\ sr' = [s \in SR |-> IF s \in Family(m) THEN cache[s] ELSE None]
        /\ held' = [s \in SR |-> IF s \in Family(m) THEN Relation(s) ELSE "gone"]
    BY <1>5 DEF Reconcile
  <2> HIDE DEF m
  <2>3. pc' \in {"markDeleted", "remove", "progress"}
    BY <1>5, <2>1, <2>2, BranchSteps
  <2>4. sr' \in [SR -> Obj \cup {None}] /\ held' \in [SR -> {"fresh", "stale", "gone"}]
    BY <2>2 DEF IInv, TypeOK, Relation
  <2>5. TypeOK'
    BY <1>1, <1>2, <2>1, <2>2, <2>3, <2>4 DEF bounds, IInv, TypeOK, StoredOK, lapses, Steps
  <2>6. HeldIsSound'
    BY <1>2, <2>2, RelationIsSound DEF HeldIsSound
  <2>7. WorkerInv'
    <3>1. m \in Family(m)
      BY DEF Family
    <3>2. sr'[m] # None
      BY <3>1, <2>1, <2>2, NoneAssumption
    <3> QED  BY <3>2, <2>1, <2>2, <2>3 DEF WorkerInv
  <2> QED  BY <1>1, <1>3, <2>5, <2>6, <2>7 DEF IInv, StoredOK
<1> QED  BY <1>4, <1>5

\* A worker that is not idle has a complete work item.
LEMMA Busy ==
    ASSUME IInv, pc # "idle"
    PROVE  /\ wi.req \in SR /\ wi.main \in SR /\ wi.cur \in SR /\ wi.next \in Nat \ {0}
           /\ sr[wi.main] \in Obj /\ sr[wi.cur] \in Obj
  BY DEF IInv, TypeOK, WorkerInv

\* The end of a pass, whatever it did to the cluster.
LEMMA EndOfPass ==
    ASSUME IInv, Done, StoredOK', status' \in [SR -> Condition],
           queue' = queue \/ (pc # "idle" /\ queue' = queue \cup {wi.req}),
           depcm' \in [SR -> SR \cup {None}], cmcache' = cmcache, HistoryOK',
           deployed' \in [SR -> Objects \cup {None}], objEvents' \subseteq SR,
           labelled' \subseteq SR, FinalizerGuardsCluster',
           UNCHANGED <<edits, restarts>>, faults' \in 0..MaxFaults
    PROVE  IInv'
<1>1. queue' \subseteq SR
  BY Busy DEF IInv, TypeOK
<1>2. TypeOK'
  BY <1>1, DoneKeeps DEF IInv, TypeOK, StoredOK, HistoryOK
<1> QED  BY <1>2, DoneKeeps DEF IInv, StoredOK

\* ... and of one that leaves objects, labels and stored objects alone.
LEMMA QuietEndOfPass ==
    ASSUME IInv, Done, StoredOK', api' = api, status' \in [SR -> Condition],
           queue' = queue \/ (pc # "idle" /\ queue' = queue \cup {wi.req}),
           depcm' \in [SR -> SR \cup {None}], UNCHANGED <<cmcache, lapses>>,
           UNCHANGED <<deployed, labelled, objEvents, edits, restarts>>,
           faults' \in 0..MaxFaults
    PROVE  IInv'
<1>1. FinalizerGuardsCluster'
  BY DEF IInv, FinalizerGuardsCluster, Marked, lapses, HasFinalizer
<1>2. HistoryOK'
  BY DEF IInv, TypeOK, HistoryOK, lapses
<1> QED  BY <1>1, <1>2, EndOfPass DEF IInv, TypeOK

\* A failure stays within the bound.
LEMMA FaultBound == IInv /\ Fault => faults' \in 0..MaxFaults
  BY SRAssumption DEF IInv, TypeOK, Fault

\* The status write at the start of a pass.
LEMMA SetAsProgressingKeeps ==
    ASSUME IInv, NEW from \in Steps \ {"idle"}, NEW to \in {"cleanup", "load"},
           SetAsProgressing(from, to)
    PROVE  IInv'
<1>1. pc # "idle" /\ UNCHANGED <<cache, deployed, labelled, objEvents, depcm, cmcache, lapses, bounds>>
  BY DEF SetAsProgressing, cluster
<1>2. CASE held[wi.main] = "fresh"
  <2>1. /\ WriteStatus(wi.main, "Progressing")
        /\ pc' = to
        /\ sr' = [sr EXCEPT ![wi.main] = api[wi.main]]
        /\ UNCHANGED <<queue, wi, held>>
    BY <1>2 DEF SetAsProgressing
  <2>2. StoredOK' /\ api' = api /\ status' \in [SR -> Condition]
    BY <1>1, <2>1, Busy, StatusKeeps DEF Condition
  <2>3. TypeOK'
    BY <1>1, <2>1, <2>2, Busy DEF bounds, IInv, TypeOK, StoredOK, lapses, Steps
  <2>4. api[wi.main] # None
    BY <1>1, <1>2, Busy DEF IInv, HeldIsSound
  <2>5. HeldIsSound'
    BY <1>1, <2>1, <2>2, <2>4, Busy DEF IInv, TypeOK, HeldIsSound
  <2>6. WorkerInv'
    BY <1>1, <2>1, <2>2, <2>4, Busy DEF IInv, TypeOK, WorkerInv
  <2>7. FinalizerGuardsCluster'
    BY <1>1, <2>2 DEF IInv, FinalizerGuardsCluster, Marked, lapses, HasFinalizer
  <2> QED  BY <2>2, <2>3, <2>5, <2>6, <2>7 DEF IInv, StoredOK
<1>3. CASE held[wi.main] # "fresh"
  <2>1. Requeue /\ UNCHANGED stored
    BY <1>3 DEF SetAsProgressing
  <2>2. StoredOK'
    BY <1>1, <2>1, StoredPart, SameStored DEF stored, IInv
  <2> QED  BY <1>1, <2>1, <2>2, QuietEndOfPass DEF stored, bounds, Requeue, IInv, TypeOK
<1> QED  BY <1>2, <1>3

\* The status write at its end.
LEMMA SetAsReadyKeeps == IInv /\ SetAsReady => IInv'
<1> SUFFICES ASSUME IInv, SetAsReady PROVE IInv'
  OBVIOUS
<1>1. pc # "idle" /\ UNCHANGED <<cache, deployed, labelled, objEvents, depcm, cmcache, lapses, bounds>>
  BY DEF SetAsReady, cluster
<1>2. StoredOK' /\ api' = api /\ status' \in [SR -> Condition]
  <2>1. CASE held[wi.main] = "fresh"
    BY <1>1, <2>1, Busy, StatusKeeps DEF SetAsReady, Condition
  <2>2. CASE held[wi.main] # "fresh"
    BY <1>1, <2>2, StoredPart, SameStored DEF SetAsReady, stored, IInv, TypeOK
  <2> QED  BY <2>1, <2>2
<1>3. Done /\ (queue' = queue \/ queue' = queue \cup {wi.req})
  BY DEF SetAsReady, Requeue
<1> QED  BY <1>1, <1>2, <1>3, QuietEndOfPass DEF bounds, IInv, TypeOK

\* Removing the node labels, while the finalizer is still there.
LEMMA FinalizeKeeps == IInv /\ FinalizeSpecialResource => IInv'
<1> SUFFICES ASSUME IInv, FinalizeSpecialResource PROVE IInv'
  OBVIOUS
<1>1. /\ pc # "idle" /\ wi.main \in SR
      /\ UNCHANGED <<api, status, pending, cache, deployed, objEvents, depcm, cmcache,
                     unlisted, dropped, missed, edits, restarts>>
  BY Busy DEF FinalizeSpecialResource, stored
<1>2. StoredOK'
  BY <1>1, StoredPart, SameStored DEF IInv
<1>3. labelled' \subseteq SR /\ skipped' \subseteq SR /\ Marked' \subseteq Marked
  BY <1>1 DEF FinalizeSpecialResource, Marked, IInv, TypeOK
<1>4. FinalizerGuardsCluster'
  BY <1>1, <1>3 DEF IInv, FinalizerGuardsCluster, HasFinalizer
<1>5. CASE Done /\ faults' \in 0..MaxFaults /\ (queue' = queue \/ queue' = queue \cup {wi.req})
  <2>1. HistoryOK'
    BY <1>1, <1>3 DEF HistoryOK, IInv, TypeOK
  <2> QED  BY <1>1, <1>2, <1>3, <1>4, <1>5, <2>1, EndOfPass DEF IInv, TypeOK
<1>6. CASE /\ wi.main \notin Marked'
           /\ pc' = "unfinalize" /\ faults' \in 0..MaxFaults
           /\ UNCHANGED <<queue, wi, sr, held>>
  <2>1. TypeOK'
    BY <1>1, <1>2, <1>3, <1>6 DEF IInv, TypeOK, StoredOK, Steps
  <2>2. HeldIsSound' /\ WorkerInv'
    BY <1>1, <1>6 DEF IInv, HeldIsSound, WorkerInv, HasFinalizer
  <2> QED  BY <1>2, <1>4, <2>1, <2>2 DEF IInv, StoredOK
<1> QED  BY <1>5, <1>6, FaultBound DEF FinalizeSpecialResource, Marked, Requeue, IInv, TypeOK

\* Removing the finalizer, after the labels: the objects become orphans.
LEMMA RemoveFinalizerKeeps == IInv /\ RemoveFinalizer => IInv'
<1> SUFFICES ASSUME IInv, RemoveFinalizer PROVE IInv'
  OBVIOUS
<1>1. /\ pc # "idle" /\ pc = "unfinalize"
      /\ UNCHANGED <<cache, labelled, objEvents, depcm, cmcache, lapses, edits, faults, restarts>>
  BY DEF RemoveFinalizer, bounds
<1>2. CASE held[wi.main] = "fresh"
  <2>1. /\ Store(wi.main, None, TRUE)
        /\ status' = [status EXCEPT ![wi.main] = "None"]
        /\ deployed' = [deployed EXCEPT ![wi.main] = Orphaned(@)]
        /\ Done /\ queue' = queue
    BY <1>2 DEF RemoveFinalizer, OrphanIfGone
  <2>2. StoredOK'
    BY <1>1, <2>1, Busy, StoredPart, StoreKeeps DEF IInv
  <2>3. /\ deployed' \in [SR -> Objects \cup {None}]
        /\ \A t \in SR \ {wi.main} : deployed'[t] = deployed[t]
        /\ deployed'[wi.main] # None => deployed'[wi.main].owner = "orphan"
    BY <1>1, <2>1, Busy, OrphanedObjects DEF IInv, TypeOK
  <2>4. \A t \in SR \ {wi.main} : api'[t] = api[t]
    BY <2>1 DEF Store, IInv, TypeOK
  <2>5. wi.main \notin Marked
    BY <1>1 DEF IInv, WorkerInv
  <2>6. FinalizerGuardsCluster'
    BY <1>1, <2>3, <2>4, <2>5 DEF IInv, FinalizerGuardsCluster, Marked, lapses, HasFinalizer
  <2>7. status' \in [SR -> Condition]
    BY <2>1 DEF IInv, TypeOK, Condition
  <2> QED  BY <1>1, <2>1, <2>2, <2>3, <2>6, <2>7, EndOfPass DEF IInv, TypeOK, HistoryOK, lapses
<1>3. CASE held[wi.main] # "fresh"
  <2>1. Requeue /\ UNCHANGED <<api, status, pending, deployed>>
    BY <1>3 DEF RemoveFinalizer, stored
  <2>2. StoredOK'
    BY <1>1, <2>1, StoredPart, SameStored DEF IInv
  <2> QED  BY <1>1, <2>1, <2>2, QuietEndOfPass DEF Requeue, IInv, TypeOK
<1> QED  BY <1>2, <1>3

\* Removing the owned objects.
LEMMA RemoveResourcesKeeps == IInv /\ RemoveResources => IInv'
<1> SUFFICES ASSUME IInv, RemoveResources PROVE IInv'
  OBVIOUS
<1>1. /\ pc # "idle" /\ Done
      /\ UNCHANGED <<api, status, pending, cache, labelled, depcm, cmcache,
                     skipped, dropped, missed, edits, restarts>>
      /\ queue' = queue \/ queue' = queue \cup {wi.req}
  BY DEF RemoveResources, Requeue, stored
<1>2. StoredOK'
  BY <1>1, StoredPart, SameStored DEF IInv
<1>3. /\ \/ deployed' = deployed
         \/ deployed' = [deployed EXCEPT ![wi.main] = None]
      /\ objEvents' = objEvents \/ objEvents' = objEvents \cup {wi.main}
  BY DEF RemoveResources
<1>4. deployed' \in [SR -> Objects \cup {None}] /\ objEvents' \subseteq SR
  BY <1>1, <1>3, Busy DEF IInv, TypeOK
<1>5. FinalizerGuardsCluster'
  BY <1>1, <1>3 DEF IInv, TypeOK, FinalizerGuardsCluster, Marked, lapses, HasFinalizer
<1>6. faults' \in 0..MaxFaults
  BY FaultBound DEF RemoveResources, IInv, TypeOK
<1>7. HistoryOK'
  BY <1>1, Busy DEF RemoveResources, HistoryOK, IInv, TypeOK
<1> QED  BY <1>1, <1>2, <1>4, <1>5, <1>6, <1>7, EndOfPass DEF IInv, TypeOK

\* Loading the chart.
LEMMA LoadChartKeeps == IInv /\ LoadChart => IInv'
<1> SUFFICES ASSUME IInv, LoadChart PROVE IInv'
  OBVIOUS
<1>1. /\ pc # "idle" /\ pc = "load"
      /\ UNCHANGED <<cache, deployed, labelled, objEvents, depcm, cmcache, lapses, edits, restarts>>
  BY DEF LoadChart, cluster
<1>2. CASE pc' = "deps" /\ UNCHANGED <<stored, queue, wi, sr, held, faults>>
  <2>1. StoredOK'
    BY <1>1, <1>2, StoredPart, SameStored DEF stored, IInv
  <2>2. TypeOK'
    BY <1>1, <1>2, <2>1 DEF stored, IInv, TypeOK, StoredOK, lapses, Steps
  <2>3. HeldIsSound' /\ WorkerInv' /\ FinalizerGuardsCluster'
    BY <1>1, <1>2 DEF stored, IInv, HeldIsSound, WorkerInv, FinalizerGuardsCluster, Marked, lapses, HasFinalizer
  <2> QED  BY <2>1, <2>2, <2>3 DEF IInv, StoredOK
<1>3. CASE Fault /\ SetAsErrored(wi.main) /\ Requeue
  BY <1>1, <1>3, Busy, ErroredKeeps, FaultBound, QuietEndOfPass DEF Requeue, IInv, TypeOK
<1> QED  BY <1>2, <1>3 DEF LoadChart

\* Recording the parent of a dependency and choosing the child.
LEMMA ResolveDependencyKeeps == IInv /\ ResolveDependency => IInv'
<1> SUFFICES ASSUME IInv, ResolveDependency PROVE IInv'
  OBVIOUS
<1>1. /\ pc # "idle" /\ pc = "deps" /\ wi.next <= Len(Deps[wi.main])
      /\ UNCHANGED <<cache, cmcache, deployed, labelled, objEvents, lapses, edits, restarts>>
  BY DEF ResolveDependency, cluster
<1>a. wi.next \in 1..Len(Deps[wi.main]) /\ Dependency \in SR
  <2>1. Deps[wi.main] \in Seq(SR)
    BY <1>1, Busy, SRAssumption
  <2> QED  BY <1>1, <2>1, Busy DEF Dependency
<1>2. CASE /\ depcm' \in {depcm, [depcm EXCEPT ![Dependency] = wi.main]}
           /\ IF sr[Dependency] = None
              THEN pc' = "create" /\ UNCHANGED <<wi, sr>>
              ELSE /\ pc' = "chart"
                   /\ wi' = [wi EXCEPT !.cur = Dependency]
                   /\ sr' = [sr EXCEPT ![Dependency].set = sr[wi.main].set]
           /\ UNCHANGED <<stored, queue, held, faults>>
  <2>1. StoredOK'
    BY <1>1, <1>2, StoredPart, SameStored DEF stored, IInv
  <2>2. FinalizerGuardsCluster'
    BY <1>1, <1>2 DEF stored, IInv, FinalizerGuardsCluster, Marked, lapses, HasFinalizer
  <2>3. depcm' \in [SR -> SR \cup {None}]
    BY <1>1, <1>2, Busy DEF IInv, TypeOK
  <2>4. CASE sr[Dependency] = None
    <3>2. TypeOK'
      BY <1>1, <1>2, <2>1, <2>3, <2>4 DEF stored, IInv, TypeOK, StoredOK, lapses, Steps
    <3>3. HeldIsSound' /\ WorkerInv'
      BY <1>1, <1>2, <1>a, <2>4 DEF stored, IInv, HeldIsSound, WorkerInv
    <3> QED  BY <2>1, <2>2, <3>2, <3>3 DEF IInv, StoredOK
  <2>5. CASE sr[Dependency] # None
    <3>1. Dependency \in SR /\ sr[Dependency] \in Obj /\ sr[wi.main].set \in Values
      BY <1>1, <1>a, <2>5, Busy DEF IInv, TypeOK, Obj
    <3> DEFINE d == Dependency
               o == [sr[d] EXCEPT !.set = sr[wi.main].set]
    <3>2. o \in Obj /\ o.finalizer = sr[d].finalizer
      <4>1. "Managed" \in ManagementState
        BY DEF ManagementState
      <4> QED  BY <3>1, <4>1, FieldUpdates
    <3>3. /\ sr' = [sr EXCEPT ![d] = o] /\ pc' = "chart" /\ wi' = [wi EXCEPT !.cur = d]
          /\ UNCHANGED <<api, status, pending, queue, held, faults>>
      BY <1>2, <2>5 DEF stored
    <3> HIDE DEF d, o
    <3>4. d \in SR
      BY <3>1 DEF d
    <3>5. TypeOK'
      BY <1>1, <2>1, <2>3, <3>2, <3>3, <3>4 DEF IInv, TypeOK, StoredOK, lapses, Steps
    <3>6. HeldIsSound'
      BY <3>2, <3>3, <3>4, NoneAssumption DEF IInv, TypeOK, HeldIsSound
    <3>7. WorkerInv'
      BY <1>1, <3>2, <3>3, <3>4, NoneAssumption DEF IInv, TypeOK, WorkerInv
    <3> QED  BY <2>1, <2>2, <3>5, <3>6, <3>7 DEF IInv, StoredOK
  <2> QED  BY <2>4, <2>5
<1>3. CASE (Fault \/ faults' = faults) /\ SetAsErrored(wi.main) /\ Requeue /\ UNCHANGED depcm
  BY <1>1, <1>3, Busy, ErroredKeeps, FaultBound, QuietEndOfPass DEF Requeue, IInv, TypeOK
<1> QED  BY <1>2, <1>3 DEF ResolveDependency

\* Creating a SpecialResource for a dependency.
LEMMA CreateFromKeeps == IInv /\ CreateSpecialResourceFrom => IInv'
<1> SUFFICES ASSUME IInv, CreateSpecialResourceFrom PROVE IInv'
  OBVIOUS
<1> DEFINE o == [mgmt |-> "Managed", deleting |-> FALSE, finalizer |-> FALSE, set |-> DefaultSet]
<1>1. /\ pc # "idle" /\ pc = "create" /\ Requeue
      /\ UNCHANGED <<status, cache, deployed, labelled, objEvents, depcm, cmcache, lapses, edits, restarts>>
  BY DEF CreateSpecialResourceFrom, cluster
<1>2. faults' \in 0..MaxFaults
  BY FaultBound DEF CreateSpecialResourceFrom, IInv, TypeOK
<1>3. Dependency \in SR
  <2>1. wi.next \in 1..Len(Deps[wi.main]) /\ Deps[wi.main] \in Seq(SR)
    BY <1>1, Busy, SRAssumption DEF IInv, WorkerInv
  <2> QED  BY <2>1 DEF Dependency
<1>4. CASE api[Dependency] = None /\ Store(Dependency, o, TRUE)
  <2>1. o \in Obj
    BY SRAssumption DEF Obj, ManagementState
  <2>2. StoredOK'
    BY <1>1, <1>3, <1>4, <2>1, StoredPart, StoreKeeps DEF IInv, HasFinalizer
  <2>3. \A t \in SR \ {Dependency} : api'[t] = api[t]
    BY <1>4 DEF Store, IInv, TypeOK
  <2>4. FinalizerGuardsCluster'
    BY <1>1, <1>4, <2>3 DEF IInv, FinalizerGuardsCluster, Marked, lapses, HasFinalizer
  <2>5. HistoryOK'
    BY <1>1 DEF HistoryOK, lapses, IInv, TypeOK
  <2> QED  BY <1>1, <1>2, <2>2, <2>4, <2>5, EndOfPass DEF Requeue, IInv, TypeOK
<1>5. CASE UNCHANGED <<api, pending>>
  <2>1. StoredOK'
    BY <1>1, <1>5, StoredPart, SameStored DEF IInv
  <2> QED  BY <1>1, <1>2, <1>5, <2>1, QuietEndOfPass DEF Requeue, IInv, TypeOK
<1> QED  BY <1>4, <1>5 DEF CreateSpecialResourceFrom

\* Turning to the chart of the main SpecialResource.
LEMMA DependenciesDoneKeeps == IInv /\ DependenciesDone => IInv'
<1> SUFFICES ASSUME IInv, DependenciesDone PROVE IInv'
  OBVIOUS
<1>1. /\ pc # "idle" /\ pc' = "chart" /\ wi' = [wi EXCEPT !.cur = wi.main]
      /\ UNCHANGED <<api, status, pending, cache, queue, deployed, labelled, objEvents,
                     depcm, cmcache, lapses, sr, held, bounds>>
  BY DEF DependenciesDone, stored, cluster
<1>2. StoredOK'
  BY <1>1, StoredPart, SameStored DEF IInv
<1>3. TypeOK'
  BY <1>1, <1>2, Busy DEF bounds, IInv, TypeOK, StoredOK, lapses, Steps
<1>4. HeldIsSound' /\ WorkerInv' /\ FinalizerGuardsCluster'
  BY <1>1, Busy, NoneAssumption
     DEF IInv, TypeOK, HeldIsSound, WorkerInv, FinalizerGuardsCluster, Marked, lapses, HasFinalizer
<1> QED  BY <1>2, <1>3, <1>4 DEF IInv, StoredOK

\* A chart that could not be reconciled.
LEMMA ChartFailsKeeps ==
    ASSUME IInv, pc # "idle", ChartFails, faults' \in 0..MaxFaults,
           UNCHANGED <<cache, deployed, labelled, objEvents, depcm, cmcache, lapses, edits, restarts>>
    PROVE  IInv'
  BY Busy, ErroredKeeps, QuietEndOfPass DEF ChartFails, Requeue, IInv, TypeOK

\* Adding the finalizer, before anything is deployed.
LEMMA AddFinalizerKeeps == IInv /\ AddFinalizer => IInv'
<1> SUFFICES ASSUME IInv, AddFinalizer PROVE IInv'
  OBVIOUS
<1>1. /\ pc # "idle"
      /\ UNCHANGED <<cache, deployed, labelled, objEvents, depcm, cmcache, lapses, edits, restarts>>
  BY DEF AddFinalizer, cluster
<1>2. CASE sr[wi.cur].finalizer /\ AfterFinalizer /\ UNCHANGED <<stored, queue, wi, sr, held, faults>>
  <2>1. pc' \in {"states", "deploy"} /\ (pc' = "deploy" => wi.cur \notin Stateful)
    BY <1>2 DEF AfterFinalizer
  <2>2. StoredOK'
    BY <1>1, <1>2, StoredPart, SameStored DEF stored, IInv
  <2>3. TypeOK'
    BY <1>1, <1>2, <2>1, <2>2 DEF stored, IInv, TypeOK, StoredOK, lapses, Steps
  <2>4. HeldIsSound' /\ WorkerInv' /\ FinalizerGuardsCluster'
    BY <1>1, <1>2, <2>1
       DEF stored, IInv, HeldIsSound, WorkerInv, FinalizerGuardsCluster, Marked, lapses, HasFinalizer
  <2> QED  BY <2>2, <2>3, <2>4 DEF IInv, StoredOK
<1>3. CASE ChartFails /\ faults' \in 0..MaxFaults
  BY <1>1, <1>3, ChartFailsKeeps
<1>4. CASE /\ held[wi.cur] = "fresh"
           /\ Store(wi.cur, [sr[wi.cur] EXCEPT !.finalizer = TRUE],
                    sr[wi.cur].set # api[wi.cur].set)
           /\ sr' = [sr EXCEPT ![wi.cur].finalizer = TRUE]
           /\ AfterFinalizer
           /\ UNCHANGED <<status, queue, wi, held, faults>>
  <2> DEFINE o == [sr[wi.cur] EXCEPT !.finalizer = TRUE]
             g == sr[wi.cur].set # api[wi.cur].set
  <2>1. o \in Obj /\ o.finalizer
    <3>1. PICK m \in ManagementState, v \in Values : TRUE
      BY SRAssumption DEF ManagementState
    <3> QED  BY <1>1, <3>1, Busy, FieldUpdates
  <2>2. pc' \in {"states", "deploy"} /\ (pc' = "deploy" => wi.cur \notin Stateful)
    BY <1>4 DEF AfterFinalizer
  <2>3. g \in BOOLEAN /\ Store(wi.cur, o, g) /\ sr' = [sr EXCEPT ![wi.cur] = o]
    BY <1>4
  <2> HIDE DEF o, g
  <2>4. StoredOK'
    BY <1>1, <2>1, <2>3, Busy, StoredPart, StoreKeeps DEF IInv
  <2>5. /\ api'[wi.cur] = o /\ \A t \in SR \ {wi.cur} : api'[t] = api[t]
        /\ sr'[wi.cur] = o /\ \A t \in SR \ {wi.cur} : sr'[t] = sr[t]
        /\ sr' \in [SR -> Obj \cup {None}]
        /\ o # None
    BY <1>1, <2>1, <2>3, Busy, NoneAssumption DEF Store, IInv, TypeOK
  <2>6. TypeOK'
    BY <1>1, <1>4, <2>2, <2>4, <2>5 DEF IInv, TypeOK, StoredOK, lapses, Steps
  <2>7. HeldIsSound'
    BY <1>4, <2>1, <2>5 DEF IInv, HeldIsSound
  <2>8. WorkerInv'
    BY <1>1, <1>4, <2>1, <2>2, <2>5 DEF IInv, WorkerInv
  <2>9. FinalizerGuardsCluster'
    BY <1>1, <2>1, <2>5 DEF IInv, FinalizerGuardsCluster, Marked, lapses, HasFinalizer
  <2> QED  BY <2>4, <2>6, <2>7, <2>8, <2>9 DEF IInv, StoredOK
<1> QED  BY <1>2, <1>3, <1>4, FaultBound DEF AddFinalizer, IInv, TypeOK

\* The status write before a state template.
LEMMA HandleStateKeeps == IInv /\ HandleState => IInv'
<1> SUFFICES ASSUME IInv, HandleState PROVE IInv'
  OBVIOUS
<1>1. /\ pc # "idle" /\ pc = "states"
      /\ UNCHANGED <<cache, deployed, labelled, objEvents, depcm, cmcache, lapses, edits, faults, restarts>>
  BY DEF HandleState, cluster, bounds
<1>2. CASE held[wi.cur] = "fresh"
  <2>1. /\ WriteStatus(wi.cur, "Progressing")
        /\ sr' = [sr EXCEPT ![wi.cur] = api[wi.cur]]
        /\ pc' = "deploy"
        /\ UNCHANGED <<queue, wi, held>>
    BY <1>2 DEF HandleState
  <2>2. StoredOK' /\ api' = api /\ status' \in [SR -> Condition]
    BY <1>1, <2>1, Busy, StatusKeeps DEF Condition
  <2>3. api[wi.cur] # None /\ api[wi.cur].finalizer
    BY <1>1, <1>2, Busy DEF IInv, HeldIsSound, WorkerInv
  <2>4. TypeOK'
    BY <1>1, <2>1, <2>2, Busy DEF IInv, TypeOK, StoredOK, lapses, Steps
  <2>5. HeldIsSound'
    BY <1>1, <2>1, <2>2, <2>3, Busy DEF IInv, TypeOK, HeldIsSound
  <2>6. WorkerInv'
    BY <1>1, <2>1, <2>2, <2>3, Busy DEF IInv, TypeOK, WorkerInv, HasFinalizer
  <2>7. FinalizerGuardsCluster'
    BY <1>1, <2>2 DEF IInv, FinalizerGuardsCluster, Marked, lapses, HasFinalizer
  <2> QED  BY <2>2, <2>4, <2>5, <2>6, <2>7 DEF IInv, StoredOK
<1>3. CASE held[wi.cur] # "fresh"
  BY <1>1, <1>3, ChartFailsKeeps DEF HandleState, IInv, TypeOK
<1> QED  BY <1>2, <1>3

\* What ReconcileChart does to the cluster, completely or in part.
LEMMA ChartEffects ==
    ASSUME IInv, pc = "deploy", api' = api,
           Install \/ (deployed' = deployed /\ objEvents' \in {objEvents, objEvents \cup {wi.cur}}),
           LabelNodes \/ UNCHANGED <<labelled, skipped>>
    PROVE  /\ deployed' \in [SR -> Objects \cup {None}]
           /\ objEvents' \subseteq SR /\ labelled' \subseteq SR /\ skipped' \subseteq SR
           /\ FinalizerGuardsCluster'
<1>1. wi.cur \in SR /\ sr[wi.cur] \in Obj /\ sr[wi.cur].finalizer
  BY Busy DEF IInv, WorkerInv
<1>2. Installed \in Objects
  BY <1>1 DEF Installed, Objects, Obj
<1>3. /\ deployed' \in [SR -> Objects \cup {None}]
      /\ \A t \in SR \ {wi.cur} : deployed'[t] = deployed[t]
      /\ deployed'[wi.cur] = deployed[wi.cur] \/ deployed'[wi.cur] = Installed
  <2>1. deployed \in [SR -> Objects \cup {None}]
    BY DEF IInv, TypeOK
  <2>2. deployed' = deployed \/ deployed' = [deployed EXCEPT ![wi.cur] = Installed]
    BY DEF Install
  <2> QED  BY <1>1, <1>2, <2>1, <2>2
<1>4. objEvents' \subseteq SR
  BY <1>1 DEF Install, IInv, TypeOK
<1>5. /\ labelled' \subseteq SR /\ skipped' \subseteq SR
      /\ \/ Marked' = Marked
         \/ wi.cur \in Stateful /\ Marked' = Marked \cup {wi.cur}
  BY <1>1 DEF LabelNodes, Marked, IInv, TypeOK
<1>6. \/ HasFinalizer(wi.cur)
      \/ wi.cur \notin Stateful /\ Installed.owner = "orphan"
  <2>1. CASE held[wi.cur] # "gone"
    BY <1>1, <2>1 DEF IInv, HeldIsSound, HasFinalizer
  <2>2. CASE held[wi.cur] = "gone"
    <3>1. Installed.owner = "orphan"
      BY <2>2 DEF Installed
    <3> QED  BY <3>1 DEF IInv, WorkerInv
  <2> QED  BY <2>1, <2>2
<1>7. FinalizerGuardsCluster'
  BY <1>3, <1>5, <1>6 DEF IInv, FinalizerGuardsCluster, HasFinalizer
<1> QED  BY <1>3, <1>4, <1>5, <1>7

\* Deploying the chart, under the finalizer.
LEMMA ReconcileChartKeeps == IInv /\ ReconcileChart => IInv'
<1> SUFFICES ASSUME IInv, ReconcileChart PROVE IInv'
  OBVIOUS
<1>1. /\ pc # "idle" /\ pc = "deploy"
      /\ UNCHANGED <<cache, depcm, cmcache, unlisted, missed, edits, restarts>>
      /\ Install \/ (deployed' = deployed /\ objEvents' \in {objEvents, objEvents \cup {wi.cur}})
      /\ LabelNodes \/ UNCHANGED <<labelled, skipped>>
  BY DEF ReconcileChart
<1>a. dropped' \in [SR -> SUBSET SR] /\ faults' \in 0..MaxFaults
  <2>1. /\ wi.main \in SR /\ wi.cur \in SR
        /\ dropped \in [SR -> SUBSET SR] /\ faults \in 0..MaxFaults
    BY <1>1, Busy DEF IInv, TypeOK
  <2>2. \/ dropped' = dropped
        \/ dropped' = [dropped EXCEPT ![wi.main] = @ \ {wi.cur}]
        \/ dropped' = [dropped EXCEPT ![wi.main] = @ \cup {wi.cur}]
    BY DEF ReconcileChart
  <2>3. faults' = faults \/ Fault
    BY DEF ReconcileChart
  <2> QED  BY <2>1, <2>2, <2>3, FaultBound
<1>2. CASE /\ IF wi.cur = wi.main
              THEN pc' = "ready" /\ UNCHANGED wi
              ELSE pc' = "deps" /\ wi' = [wi EXCEPT !.next = @ + 1]
           /\ UNCHANGED <<stored, queue, sr, held>>
  <2>1. StoredOK' /\ api' = api
    BY <1>1, <1>2, StoredPart, SameStored DEF stored, IInv
  <2>2. /\ pc' \in {"ready", "deps"}
        /\ wi' \in [req : SR \cup {None}, main : SR \cup {None}, cur : SR \cup {None},
                    next : Nat \ {0}]
        /\ wi'.req = wi.req /\ wi'.main = wi.main /\ wi'.cur = wi.cur
    <3>1. wi \in [req : SR \cup {None}, main : SR \cup {None}, cur : SR \cup {None},
                   next : Nat \ {0}]
      BY DEF IInv, TypeOK
    <3>2. CASE wi.cur = wi.main
      BY <1>2, <3>1, <3>2
    <3>3. CASE wi.cur # wi.main
      BY <1>2, <3>1, <3>3
    <3> QED  BY <3>2, <3>3
  <2>3. TypeOK' /\ FinalizerGuardsCluster'
    BY <1>1, <1>2, <1>a, <2>1, <2>2, ChartEffects DEF stored, IInv, TypeOK, StoredOK, Steps
  <2>4. HeldIsSound' /\ WorkerInv'
    BY <1>1, <1>2, <2>1, <2>2 DEF stored, IInv, HeldIsSound, WorkerInv
  <2> QED  BY <2>1, <2>3, <2>4 DEF IInv, StoredOK
<1>3. CASE Fault /\ ChartFails
  <2>1. StoredOK' /\ api' = api /\ status' \in [SR -> Condition]
    BY <1>1, <1>3, Busy, ErroredKeeps DEF ChartFails
  <2>2. HistoryOK'
    BY <1>1, <1>a, <2>1, ChartEffects DEF HistoryOK, IInv, TypeOK
  <2> QED  BY <1>1, <1>3, <1>a, <2>1, <2>2, ChartEffects, EndOfPass DEF ChartFails, Requeue, IInv, TypeOK
<1> QED  BY <1>2, <1>3 DEF ReconcileChart, ChartDone

-----------------------------------------------------------------------------
\* Every step of the controller, of users and of the cluster keeps the invariant
\* (Reconcile and everything it calls, informers, garbage collector, restart).
THEOREM Inductive == IInv /\ [Next]_vars => IInv'
<1> SUFFICES ASSUME IInv, [Next]_vars PROVE IInv'
  OBVIOUS
<1>1. CASE Worker
  <2>1. CASE SetAsProgressing("markDeleted", "cleanup")
    BY <2>1, SetAsProgressingKeeps DEF Steps
  <2>2. CASE SetAsProgressing("progress", "load")
    BY <2>2, SetAsProgressingKeeps DEF Steps
  <2> QED  BY <1>1, <2>1, <2>2, FinalizeKeeps, RemoveFinalizerKeeps, RemoveResourcesKeeps,
              LoadChartKeeps, ResolveDependencyKeeps, CreateFromKeeps, DependenciesDoneKeeps,
              AddFinalizerKeeps, HandleStateKeeps, ReconcileChartKeeps, SetAsReadyKeeps
           DEF Worker
<1>2. CASE \E s \in SR : Reconcile(s) \/ SyncCache(s) \/ OwnedObjectEvent(s) \/ GarbageCollect(s)
  BY <1>2, ReconcileKeeps, InformersKeep, GarbageCollectKeeps
<1>3. CASE UNCHANGED vars
  <2>1. StoredOK'
    BY <1>3, StoredPart, SameStored DEF vars, stored, IInv
  <2>2. TypeOK'
    BY <1>3, <2>1 DEF vars, stored, cluster, worker, bounds, IInv, TypeOK, StoredOK, lapses
  <2>3. HeldIsSound' /\ WorkerInv' /\ FinalizerGuardsCluster'
    BY <1>3 DEF vars, stored, cluster, worker, IInv, HeldIsSound, WorkerInv,
                FinalizerGuardsCluster, Marked, lapses, HasFinalizer
  <2> QED  BY <2>1, <2>2, <2>3 DEF IInv, StoredOK
<1>4. CASE SyncConfigMap
  <2>1. StoredOK'
    BY <1>4, StoredPart, SameStored DEF SyncConfigMap, stored, IInv
  <2>2. TypeOK'
    BY <1>4, <2>1 DEF SyncConfigMap, stored, cluster, worker, bounds, IInv, TypeOK, StoredOK, lapses
  <2>3. HeldIsSound' /\ WorkerInv' /\ FinalizerGuardsCluster'
    BY <1>4 DEF SyncConfigMap, stored, cluster, worker, IInv, HeldIsSound, WorkerInv,
                FinalizerGuardsCluster, Marked, lapses, HasFinalizer
  <2> QED  BY <2>1, <2>2, <2>3 DEF IInv, StoredOK
<1> QED  BY <1>1, <1>2, <1>3, <1>4, UsersKeep, RestartKeeps DEF Next

\* Every variable of the controller keeps its type, and the cache is never more
\* than MaxLag versions behind (Reconcile and every call it makes).
THEOREM TypeCorrect == Spec => []TypeOK
<1>1. IInv => TypeOK
  BY DEF IInv
<1> QED  BY <1>1, Initially, Inductive, PTL DEF Spec

\* Live owned objects never outlive the finalizer of their SpecialResource, and no
\* labels on nodes do but those finalizeNodes passed over
\* (AddFinalizerToSpecialResource, ReconcileChart, Finalize), for any number of
\* SpecialResources, any dependencies and any staleness.
THEOREM FinalizerGuard == Spec => []FinalizerGuardsCluster
<1>1. IInv => FinalizerGuardsCluster
  BY DEF IInv
<1> QED  BY <1>1, Initially, Inductive, PTL DEF Spec

-----------------------------------------------------------------------------
(* The controller implements Ownership *)

\* Only an object with the finalizer is ever marked as deleted: without it the
\* API server removes the object at once, and nobody sets it on a deleted one.
DeletingIsClaimed ==
    \A s \in SR : api[s] # None /\ api[s].deleting => api[s].finalizer

\* A copy whose resourceVersion is current has the stored finalizer, the stored
\* deletionTimestamp and the stored management state.
FreshAgrees ==
    \A s \in SR : held[s] = "fresh" =>
        /\ sr[s] # None /\ api[s] # None
        /\ sr[s].finalizer = api[s].finalizer
        /\ sr[s].deleting = api[s].deleting
        /\ sr[s].mgmt = api[s].mgmt

\* The worker finalizes what it has seen deleted.
DeletesDeleting ==
    pc \in {"markDeleted", "cleanup", "unfinalize"} => sr[wi.main].deleting

DInv == DeletingIsClaimed /\ FreshAgrees /\ DeletesDeleting

-----------------------------------------------------------------------------
(* DInv is inductive relative to IInv *)

\* The flags an update of other fields leaves alone.
LEMMA OtherFields ==
    ASSUME NEW o \in Obj, NEW m \in ManagementState, NEW v \in Values
    PROVE  /\ [o EXCEPT !.mgmt = m, !.set = v].finalizer = o.finalizer
           /\ [o EXCEPT !.mgmt = m, !.set = v].deleting = o.deleting
           /\ [o EXCEPT !.finalizer = TRUE].finalizer
           /\ [o EXCEPT !.finalizer = TRUE].deleting = o.deleting
           /\ [o EXCEPT !.deleting = TRUE].finalizer = o.finalizer
           /\ [o EXCEPT !.deleting = TRUE].deleting
           /\ [o EXCEPT !.set = v].finalizer = o.finalizer
           /\ [o EXCEPT !.set = v].deleting = o.deleting
           /\ [o EXCEPT !.set = v].mgmt = o.mgmt
  BY DEF Obj

\* A status write stores the object as it is.
LEMMA StatusStores ==
    ASSUME IInv, NEW s \in SR, NEW c, WriteStatus(s, c)
    PROVE  api' = api
  BY DEF WriteStatus, Store, IInv, TypeOK

\* SetAsErrored writes nothing but the status.
LEMMA ErroredStores ==
    ASSUME IInv, NEW s \in SR, SetAsErrored(s)
    PROVE  api' = api
  BY StatusStores DEF SetAsErrored, stored

\* A worker that has finished its pass holds no copy.
LEMMA DoneHolds ==
    ASSUME Done
    PROVE  FreshAgrees' /\ DeletesDeleting'
  BY DEF Done, NotHeld, FreshAgrees, DeletesDeleting

\* A pass that ends without a change of a stored object.
LEMMA QuietDone ==
    ASSUME DInv, Done, api' = api
    PROVE  DInv'
  BY DoneHolds DEF DInv, DeletingIsClaimed

\* A step that touches neither a stored object nor the worker's copies.
LEMMA QuietStep ==
    ASSUME DInv, UNCHANGED <<api, sr, held>>, wi'.main = wi.main,
           pc' \in {"markDeleted", "cleanup", "unfinalize"} =>
               pc \in {"markDeleted", "cleanup", "unfinalize"}
    PROVE  DInv'
  BY DEF DInv, DeletingIsClaimed, FreshAgrees, DeletesDeleting

\* A write by a user outdates the copy the worker holds.
LEMMA UserWriteHolds ==
    ASSUME IInv, DInv, NEW s \in SR, NEW o, NEW g, UserWrite(s, o, g),
           o # None => (o.deleting => o.finalizer)
    PROVE  DInv'
<1>1. api'[s] = o /\ \A t \in SR \ {s} : api'[t] = api[t]
  BY DEF UserWrite, Store, IInv, TypeOK
<1>2. held'[s] # "fresh" /\ \A t \in SR \ {s} : held'[t] = held[t]
  BY DEF UserWrite, IInv, TypeOK
<1>3. UNCHANGED <<pc, wi, sr>>
  BY DEF UserWrite
<1>4. DeletingIsClaimed'
  BY <1>1 DEF DInv, DeletingIsClaimed
<1>5. FreshAgrees'
  BY <1>1, <1>2, <1>3 DEF DInv, FreshAgrees
<1>6. DeletesDeleting'
  BY <1>3 DEF DInv, DeletesDeleting
<1> QED  BY <1>4, <1>5, <1>6 DEF DInv

\* Creating, editing and deleting SpecialResources, and deleting their objects.
LEMMA UsersHold == IInv /\ DInv /\ Users => DInv'
<1> SUFFICES ASSUME IInv, DInv, NEW s \in SR,
                    \/ CreateSpecialResource(s) \/ EditSpec(s)
                    \/ DeleteSpecialResource(s) \/ DeleteOwnedObject(s)
             PROVE  DInv'
  BY DEF Users
<1>1. CASE CreateSpecialResource(s)
  BY <1>1, UserWriteHolds DEF CreateSpecialResource
<1>2. CASE EditSpec(s)
  <2>1. PICK m \in UserStates, v \in Values :
          UserWrite(s, [api[s] EXCEPT !.mgmt = m, !.set = v], TRUE)
    BY <1>2 DEF EditSpec
  <2>2. api[s] \in Obj /\ (api[s].deleting => api[s].finalizer)
    BY <1>2 DEF EditSpec, IInv, TypeOK, DInv, DeletingIsClaimed
  <2> DEFINE o == [api[s] EXCEPT !.mgmt = m, !.set = v]
  <2>3. UserWrite(s, o, TRUE)
    BY <2>1
  <2>4. o.deleting => o.finalizer
    BY <2>2, OtherFields, SRAssumption DEF ManagementState
  <2> HIDE DEF o
  <2> QED  BY <2>3, <2>4, UserWriteHolds
<1>3. CASE DeleteSpecialResource(s)
  <2> DEFINE o == IF api[s].finalizer THEN [api[s] EXCEPT !.deleting = TRUE] ELSE None
  <2>1. api[s] \in Obj /\ UserWrite(s, o, TRUE)
    BY <1>3 DEF DeleteSpecialResource, IInv, TypeOK
  <2>2. o # None => o.finalizer
    <3>1. PICK m \in ManagementState, v \in Values : TRUE
      BY SRAssumption DEF ManagementState
    <3> QED  BY <2>1, <3>1, OtherFields
  <2> HIDE DEF o
  <2> QED  BY <2>1, <2>2, UserWriteHolds
<1>4. CASE DeleteOwnedObject(s)
  BY <1>4, QuietStep DEF DeleteOwnedObject, stored, worker
<1> QED  BY <1>1, <1>2, <1>3, <1>4

\* Taking a request: a copy is current only if the cache is.
LEMMA ReconcileHolds == ASSUME IInv, DInv, NEW n \in SR, Reconcile(n) PROVE DInv'
<1> DEFINE m == Target(n)
           started == ~(m = None \/ cache[m] = None \/ Branch(cache[m]) = "idle")
<1>1. api' = api
  BY DEF Reconcile, stored
<1>2. CASE ~started
  BY <1>1, <1>2, QuietStep DEF Reconcile, worker
<1>3. CASE started
  <2>1. m \in SR /\ cache[m] \in Obj
    BY <1>3 DEF Target, IInv, TypeOK
  <2>2. /\ pc' = Branch(cache[m])
        /\ wi' = [req |-> n, main |-> m, cur |-> m, next |-> 1]
        /\ sr' = [s \in SR |-> IF s \in Family(m) THEN cache[s] ELSE None]
        /\ held' = [s \in SR |-> IF s \in Family(m) THEN Relation(s) ELSE "gone"]
    BY <1>3 DEF Reconcile
  <2> HIDE DEF m
  <2>3. \A s \in SR : Relation(s) = "fresh" => cache[s] # None /\ cache[s] = api[s]
    BY DEF Relation, IInv, CacheFollows
  <2>4. FreshAgrees'
    BY <1>1, <2>2, <2>3 DEF FreshAgrees
  <2>5. m \in Family(m)
    BY DEF Family
  <2>6. Branch(cache[m]) = "markDeleted" => cache[m].deleting
    BY <2>1 DEF Branch, Obj, ManagementState
  <2>7. DeletesDeleting'
    <3>1. Branch(cache[m]) \in {"markDeleted", "remove", "idle", "progress"}
      BY <2>1, BranchSteps
    <3> QED  BY <2>1, <2>2, <2>5, <2>6, <3>1 DEF DeletesDeleting
  <2> QED  BY <1>1, <2>4, <2>7 DEF DInv, DeletingIsClaimed
<1> QED  BY <1>2, <1>3

\* The status write at the start of a pass reads the stored object back.
LEMMA SetAsProgressingHolds ==
    ASSUME IInv, DInv, NEW from, NEW to,
           <<from, to>> \in {<<"markDeleted", "cleanup">>, <<"progress", "load">>},
           SetAsProgressing(from, to)
    PROVE  DInv'
<1>1. wi.main \in SR /\ pc = from
  BY Busy DEF SetAsProgressing
<1>2. CASE held[wi.main] = "fresh"
  <2>1. /\ WriteStatus(wi.main, "Progressing")
        /\ pc' = to
        /\ sr' = [sr EXCEPT ![wi.main] = api[wi.main]]
        /\ UNCHANGED <<wi, held>>
    BY <1>2 DEF SetAsProgressing
  <2>2. api' = api
    BY <1>1, <2>1, StatusStores
  <2>3. /\ sr'[wi.main] = api[wi.main] /\ api[wi.main] # None
        /\ api[wi.main].deleting = sr[wi.main].deleting
        /\ \A t \in SR \ {wi.main} : sr'[t] = sr[t]
    BY <1>1, <1>2, <2>1 DEF IInv, TypeOK, DInv, FreshAgrees
  <2>4. FreshAgrees'
    BY <2>1, <2>2, <2>3 DEF DInv, FreshAgrees
  <2>5. DeletesDeleting'
    BY <1>1, <2>1, <2>3 DEF DInv, DeletesDeleting
  <2> QED  BY <2>2, <2>4, <2>5 DEF DInv, DeletingIsClaimed
<1>3. CASE held[wi.main] # "fresh"
  BY <1>3, QuietDone DEF SetAsProgressing, Requeue, stored
<1> QED  BY <1>2, <1>3

\* The status write before a state template does, too.
LEMMA HandleStateHolds == IInv /\ DInv /\ HandleState => DInv'
<1> SUFFICES ASSUME IInv, DInv, HandleState PROVE DInv'
  OBVIOUS
<1>1. wi.cur \in SR
  BY Busy DEF HandleState
<1>2. CASE held[wi.cur] = "fresh"
  <2>1. /\ WriteStatus(wi.cur, "Progressing")
        /\ pc' = "deploy"
        /\ sr' = [sr EXCEPT ![wi.cur] = api[wi.cur]]
        /\ UNCHANGED <<wi, held>>
    BY <1>2 DEF HandleState
  <2>2. api' = api
    BY <1>1, <2>1, StatusStores
  <2>3. /\ sr'[wi.cur] = api[wi.cur] /\ api[wi.cur] # None
        /\ \A t \in SR \ {wi.cur} : sr'[t] = sr[t]
    BY <1>1, <1>2, <2>1 DEF IInv, TypeOK, DInv, FreshAgrees
  <2>4. FreshAgrees'
    BY <2>1, <2>2, <2>3 DEF DInv, FreshAgrees
  <2> QED  BY <2>1, <2>2, <2>4 DEF DInv, DeletingIsClaimed, DeletesDeleting
<1>3. CASE held[wi.cur] # "fresh"
  BY <1>1, <1>3, ErroredStores, QuietDone DEF HandleState, ChartFails, Requeue
<1> QED  BY <1>2, <1>3

\* Adding the finalizer to the copy and to the stored object alike.
LEMMA AddFinalizerHolds == IInv /\ DInv /\ AddFinalizer => DInv'
<1> SUFFICES ASSUME IInv, DInv, AddFinalizer PROVE DInv'
  OBVIOUS
<1>1. wi.cur \in SR /\ sr[wi.cur] \in Obj
  BY Busy DEF AddFinalizer
<1>2. CASE ChartFails
  BY <1>1, <1>2, ErroredStores, QuietDone DEF ChartFails, Requeue
<1>3. CASE AfterFinalizer /\ UNCHANGED <<stored, queue, wi, sr, held, faults>>
  BY <1>3, QuietStep DEF AfterFinalizer, stored
<1>4. CASE /\ held[wi.cur] = "fresh" /\ ~sr[wi.cur].deleting
           /\ Store(wi.cur, [sr[wi.cur] EXCEPT !.finalizer = TRUE],
                    sr[wi.cur].set # api[wi.cur].set)
           /\ sr' = [sr EXCEPT ![wi.cur].finalizer = TRUE]
           /\ AfterFinalizer
           /\ UNCHANGED <<status, queue, wi, held>>
  <2> DEFINE o == [sr[wi.cur] EXCEPT !.finalizer = TRUE]
  <2>1. o.finalizer /\ ~o.deleting /\ o # None
    <3>1. o \in Obj
      BY <1>1 DEF Obj
    <3>2. PICK m \in ManagementState, v \in Values : TRUE
      BY SRAssumption DEF ManagementState
    <3> QED  BY <1>1, <1>4, <3>1, <3>2, OtherFields, NoneAssumption
  <2>2. api' = [api EXCEPT ![wi.cur] = o] /\ sr' = [sr EXCEPT ![wi.cur] = o]
    BY <1>4 DEF Store
  <2> HIDE DEF o
  <2>3. /\ api'[wi.cur] = o /\ sr'[wi.cur] = o
        /\ \A t \in SR \ {wi.cur} : api'[t] = api[t] /\ sr'[t] = sr[t]
    BY <1>1, <2>2 DEF IInv, TypeOK
  <2>4. DeletingIsClaimed'
    BY <2>1, <2>3 DEF DInv, DeletingIsClaimed
  <2>5. held' = held
    BY <1>4
  <2>6. FreshAgrees'
    BY <2>1, <2>3, <2>5 DEF DInv, FreshAgrees
  <2>7. DeletesDeleting'
    BY <1>4 DEF AfterFinalizer, DeletesDeleting
  <2> QED  BY <2>4, <2>6, <2>7 DEF DInv
<1> QED  BY <1>2, <1>3, <1>4 DEF AddFinalizer

\* Giving the child its dependency's values.
LEMMA ResolveDependencyHolds == IInv /\ DInv /\ ResolveDependency => DInv'
<1> SUFFICES ASSUME IInv, DInv, ResolveDependency PROVE DInv'
  OBVIOUS
<1>1. wi.main \in SR /\ Dependency \in SR
  <2>1. wi.main \in SR /\ wi.next \in 1..Len(Deps[wi.main]) /\ Deps[wi.main] \in Seq(SR)
    BY Busy, SRAssumption DEF ResolveDependency
  <2> QED  BY <2>1 DEF Dependency
<1>2. CASE SetAsErrored(wi.main) /\ Requeue
  BY <1>1, <1>2, ErroredStores, QuietDone DEF Requeue
<1>3. CASE pc' = "create" /\ UNCHANGED <<wi, sr, held, stored>>
  BY <1>3, QuietStep DEF stored
<1>4. CASE /\ sr[Dependency] # None /\ pc' = "chart"
           /\ sr' = [sr EXCEPT ![Dependency].set = sr[wi.main].set]
           /\ UNCHANGED <<stored, held>>
  <2> DEFINE d == Dependency
             o == [sr[d] EXCEPT !.set = sr[wi.main].set]
  <2>1. d \in SR /\ sr[d] \in Obj
    BY <1>1, <1>4 DEF IInv, TypeOK
  <2>2. /\ o # None /\ o.finalizer = sr[d].finalizer /\ o.deleting = sr[d].deleting
        /\ o.mgmt = sr[d].mgmt
    <3>1. sr[wi.main].set \in Values
      BY Busy DEF ResolveDependency, Obj
    <3>2. o \in Obj
      BY <2>1, <3>1 DEF Obj
    <3>3. "Managed" \in ManagementState
      BY DEF ManagementState
    <3> QED  BY <2>1, <3>1, <3>2, <3>3, OtherFields, NoneAssumption
  <2>3. sr' = [sr EXCEPT ![d] = o]
    BY <1>4
  <2> HIDE DEF d, o
  <2>4. sr'[d] = o /\ \A t \in SR \ {d} : sr'[t] = sr[t]
    BY <2>1, <2>3 DEF IInv, TypeOK
  <2>5. FreshAgrees'
    BY <1>4, <2>2, <2>4 DEF stored, DInv, FreshAgrees
  <2> QED  BY <1>4, <2>5 DEF stored, DInv, DeletingIsClaimed, DeletesDeleting
<1> QED  BY <1>2, <1>3, <1>4 DEF ResolveDependency

\* The steps of the worker that end the pass or leave its copies alone, and those
\* that store a new object or none.
LEMMA OtherWorkerStepsHold ==
    ASSUME IInv, DInv,
           \/ FinalizeSpecialResource \/ RemoveFinalizer \/ RemoveResources \/ LoadChart
           \/ CreateSpecialResourceFrom \/ DependenciesDone \/ ReconcileChart \/ SetAsReady
    PROVE  DInv'
<1>1. CASE FinalizeSpecialResource
  <2>1. api' = api
    BY <1>1 DEF FinalizeSpecialResource, stored
  <2>2. Done \/ (pc' = "unfinalize" /\ UNCHANGED <<wi, sr, held>>)
    BY <1>1 DEF FinalizeSpecialResource, Requeue
  <2>3. pc = "cleanup"
    BY <1>1 DEF FinalizeSpecialResource
  <2> QED  BY <2>1, <2>2, <2>3, QuietDone, QuietStep
<1>2. CASE RemoveFinalizer
  <2>1. Done
    BY <1>2 DEF RemoveFinalizer, Requeue
  <2>2. api' = api \/ api' = [api EXCEPT ![wi.main] = None]
    BY <1>2 DEF RemoveFinalizer, Store, stored
  <2>3. DeletingIsClaimed'
    BY <2>2 DEF IInv, TypeOK, DInv, DeletingIsClaimed
  <2> QED  BY <2>1, <2>3, DoneHolds DEF DInv
<1>3. CASE RemoveResources
  BY <1>3, QuietDone DEF RemoveResources, Requeue, stored
<1>4. CASE LoadChart
  <2>1. wi.main \in SR
    BY <1>4, Busy DEF LoadChart
  <2>2. CASE pc' = "deps" /\ UNCHANGED <<stored, wi, sr, held>>
    BY <2>2, QuietStep DEF stored
  <2>3. CASE SetAsErrored(wi.main) /\ Requeue
    BY <2>1, <2>3, ErroredStores, QuietDone DEF Requeue
  <2> QED  BY <1>4, <2>2, <2>3 DEF LoadChart
<1>5. CASE CreateSpecialResourceFrom
  <2>1. Done
    BY <1>5 DEF CreateSpecialResourceFrom, Requeue
  <2>2. \/ api' = api
        \/ api' = [api EXCEPT ![Dependency] =
                     [mgmt |-> "Managed", deleting |-> FALSE,
                      finalizer |-> FALSE, set |-> DefaultSet]]
    BY <1>5 DEF CreateSpecialResourceFrom, Store
  <2>3. DeletingIsClaimed'
    <3> SUFFICES ASSUME NEW s \in SR, api'[s] # None, api'[s].deleting
                 PROVE  api'[s].finalizer
      BY DEF DeletingIsClaimed
    <3>1. api \in [SR -> Obj \cup {None}]
      BY DEF IInv, TypeOK
    <3>2. api'[s] = api[s]
      BY ONLY <2>2, <3>1, api'[s].deleting, s \in SR
    <3> QED  BY <3>2 DEF DInv, DeletingIsClaimed
  <2> QED  BY <2>1, <2>3, DoneHolds DEF DInv
<1>6. CASE DependenciesDone
  <2>1. /\ UNCHANGED <<api, sr, held>> /\ pc' = "chart"
        /\ wi' = [wi EXCEPT !.cur = wi.main]
    BY <1>6 DEF DependenciesDone, stored
  <2>2. wi'.main = wi.main
    BY <2>1 DEF IInv, TypeOK
  <2> QED  BY <2>1, <2>2, QuietStep
<1>7. CASE ReconcileChart
  <2>1. wi.cur \in SR
    BY <1>7, Busy DEF ReconcileChart
  <2>2. CASE ChartFails
    BY <2>1, <2>2, ErroredStores, QuietDone DEF ChartFails, Requeue
  <2>3. CASE /\ pc' \in {"ready", "deps"} /\ UNCHANGED <<stored, sr, held>>
             /\ wi' = wi \/ wi' = [wi EXCEPT !.next = @ + 1]
    <3>1. wi'.main = wi.main
      BY <2>3 DEF IInv, TypeOK
    <3> QED  BY <2>3, <3>1, QuietStep DEF stored
  <2> QED  BY <1>7, <2>2, <2>3 DEF ReconcileChart, ChartDone
<1>8. CASE SetAsReady
  <2>1. wi.main \in SR /\ Done
    BY <1>8, Busy DEF SetAsReady, Requeue
  <2>2. api' = api
    <3>1. CASE WriteStatus(wi.main, "Ready")
      BY <2>1, <3>1, StatusStores
    <3> QED  BY <1>8, <3>1 DEF SetAsReady, stored
  <2> QED  BY <2>1, <2>2, QuietDone
<1> QED  BY <1>1, <1>2, <1>3, <1>4, <1>5, <1>6, <1>7, <1>8

\* Every step keeps the worker's knowledge of deletions true.
LEMMA DInductive == IInv /\ DInv /\ [Next]_vars => DInv'
<1> SUFFICES ASSUME IInv, DInv, [Next]_vars PROVE DInv'
  OBVIOUS
<1>1. CASE Worker
  BY <1>1, SetAsProgressingHolds, HandleStateHolds, AddFinalizerHolds,
     ResolveDependencyHolds, OtherWorkerStepsHold DEF Worker
<1>2. ASSUME NEW s \in SR, SyncCache(s) \/ OwnedObjectEvent(s) \/ GarbageCollect(s) PROVE DInv'
  BY <1>2, QuietStep DEF SyncCache, OwnedObjectEvent, GarbageCollect, stored, worker
<1>3. CASE Restart
  BY <1>3, QuietDone DEF Restart, Done
<1>4. CASE SyncConfigMap \/ UNCHANGED vars
  BY <1>4, QuietStep DEF SyncConfigMap, vars, stored, worker
<1> QED  BY <1>1, <1>2, <1>3, <1>4, ReconcileHolds, UsersHold DEF Next

\* Nothing is stored and no pass is under way at the start.
LEMMA DInitially == Init => DInv
  BY DEF Init, NotHeld, DInv, DeletingIsClaimed, FreshAgrees, DeletesDeleting

-----------------------------------------------------------------------------
(* Every step is a step of Ownership or changes nothing it speaks of *)

\* A write of one object moves that object's phase.
LEMMA PhaseMoves ==
    ASSUME TypeOK, NEW s \in SR, NEW o, api' = [api EXCEPT ![s] = o]
    PROVE  /\ Phases[s] = PhaseOf(api[s])
           /\ Phases' = [Phases EXCEPT ![s] = PhaseOf(o)]
  BY DEF TypeOK, Phases

\* Without a write the phases stay ...
LEMMA SamePhases == ASSUME api' = api PROVE Phases' = Phases
  BY DEF Phases

\* ... and without a change of the deployments, so do the owners of objects.
LEMMA SameLive == ASSUME deployed' = deployed PROVE Live' = Live
  BY DEF Live

\* Live after a change of the objects of one SpecialResource.
LEMMA LiveChanges ==
    ASSUME TypeOK, NEW s \in SR, NEW d, deployed' = [deployed EXCEPT ![s] = d]
    PROVE  Live' = IF d # None /\ d.owner = "live" THEN Live \cup {s} ELSE Live \ {s}
  BY DEF TypeOK, Live

\* A step that changes no stored object, no deployment and no label.
LEMMA Stutters ==
    ASSUME UNCHANGED <<api, deployed, labelled, skipped>>
    PROVE  UNCHANGED Promise!vars
  BY SamePhases, SameLive DEF Promise!vars, Marked

\* Users create, edit and delete SpecialResources, and delete their objects.
LEMMA UsersSimulate == IInv /\ DInv /\ Users => [Promise!Next]_Promise!vars
<1> SUFFICES ASSUME IInv, DInv, NEW s \in SR,
                    \/ CreateSpecialResource(s) \/ EditSpec(s)
                    \/ DeleteSpecialResource(s) \/ DeleteOwnedObject(s)
             PROVE  [Promise!Next]_Promise!vars
  BY DEF Users
<1>0. TypeOK
  BY DEF IInv
<1>1. CASE CreateSpecialResource(s)
  <2>1. PICK m \in UserStates, v \in Values :
          UserWrite(s, [mgmt |-> m, deleting |-> FALSE, finalizer |-> FALSE, set |-> v], TRUE)
    BY <1>1 DEF CreateSpecialResource
  <2> DEFINE o == [mgmt |-> m, deleting |-> FALSE, finalizer |-> FALSE, set |-> v]
  <2>2. o \in Obj /\ ~o.finalizer
    BY SRAssumption DEF Obj, ManagementState
  <2>3. api' = [api EXCEPT ![s] = o] /\ UNCHANGED Marked /\ deployed' = OrphanIfGone(s, o)
    BY <2>1 DEF UserWrite, Store, Marked, lapses
  <2> HIDE DEF o
  <2>4. PhaseOf(o) = "bare" /\ PhaseOf(api[s]) = "absent" /\ deployed' = deployed
    BY <1>1, <2>2, <2>3, NoneAssumption DEF PhaseOf, OrphanIfGone, CreateSpecialResource
  <2>5. Promise!Create(s)
    BY <1>0, <2>3, <2>4, PhaseMoves, SameLive DEF Promise!Create, Promise!Move
  <2> QED  BY <2>5 DEF Promise!Next
<1>2. CASE EditSpec(s)
  <2>1. PICK m \in UserStates, v \in Values :
          UserWrite(s, [api[s] EXCEPT !.mgmt = m, !.set = v], TRUE)
    BY <1>2 DEF EditSpec
  <2> DEFINE o == [api[s] EXCEPT !.mgmt = m, !.set = v]
  <2>2. api[s] \in Obj /\ m \in ManagementState
    BY <1>2, SRAssumption DEF EditSpec, IInv, TypeOK, ManagementState
  <2>3. o \in Obj /\ o.finalizer = api[s].finalizer /\ o.deleting = api[s].deleting
    <3>1. o \in Obj
      BY <2>2, FieldUpdates
    <3>2. o.finalizer = api[s].finalizer
      BY <2>2, OtherFields
    <3>3. o.deleting = api[s].deleting
      BY <2>2, OtherFields
    <3> QED  BY <3>1, <3>2, <3>3
  <2>4. api' = [api EXCEPT ![s] = o] /\ UNCHANGED Marked /\ deployed' = OrphanIfGone(s, o)
    BY <2>1 DEF UserWrite, Store, Marked, lapses
  <2> HIDE DEF o
  <2>5. PhaseOf(o) = PhaseOf(api[s]) /\ deployed' = deployed
    BY <2>2, <2>3, <2>4, NoneAssumption DEF PhaseOf, OrphanIfGone
  <2>6. Phases' = Phases
    BY <1>0, <2>4, <2>5, PhaseMoves DEF Phases
  <2> QED  BY <2>4, <2>5, <2>6, SameLive DEF Promise!vars
<1>3. CASE DeleteSpecialResource(s)
  <2> DEFINE o == IF api[s].finalizer THEN [api[s] EXCEPT !.deleting = TRUE] ELSE None
  <2>1. api[s] \in Obj /\ ~api[s].deleting
    BY <1>3 DEF DeleteSpecialResource, IInv, TypeOK
  <2>2. api' = [api EXCEPT ![s] = o] /\ UNCHANGED Marked /\ deployed' = OrphanIfGone(s, o)
    BY <1>3 DEF DeleteSpecialResource, UserWrite, Store, Marked, lapses
  <2>3. CASE api[s].finalizer
    <3>1. o \in Obj /\ o.finalizer /\ o.deleting
      <4>1. PICK m \in ManagementState, v \in Values : TRUE
        BY SRAssumption DEF ManagementState
      <4> DEFINE p == [api[s] EXCEPT !.deleting = TRUE]
      <4>2. p \in Obj
        BY <2>1, <4>1, FieldUpdates
      <4>3. p.finalizer /\ p.deleting
        BY <2>1, <2>3, <4>1, OtherFields
      <4>4. o = p
        BY <2>3
      <4> QED  BY <4>2, <4>3, <4>4
    <3> HIDE DEF o
    <3>2. /\ PhaseOf(o) = "closing" /\ PhaseOf(api[s]) = "claimed"
          /\ deployed' = deployed
      BY <2>1, <2>2, <2>3, <3>1, NoneAssumption DEF PhaseOf, OrphanIfGone
    <3>3. Promise!Close(s)
      BY <1>0, <2>2, <3>2, PhaseMoves, SameLive DEF Promise!Close, Promise!Move
    <3> QED  BY <3>3 DEF Promise!Next
  <2>4. CASE ~api[s].finalizer
    <3>1. o = None
      BY <2>4
    <3> HIDE DEF o
    <3>2. /\ PhaseOf(o) = "absent" /\ PhaseOf(api[s]) = "bare"
          /\ deployed' = [deployed EXCEPT ![s] = Orphaned(@)]
      BY <2>1, <2>2, <2>4, <3>1, NoneAssumption DEF PhaseOf, OrphanIfGone
    <3>3. s \notin Live
      BY <2>4, NoneAssumption DEF IInv, FinalizerGuardsCluster, HasFinalizer, Live
    <3>4. Live' = Live
      <4>1. Orphaned(deployed[s]) # None => Orphaned(deployed[s]).owner = "orphan"
        BY OrphanedObjects DEF IInv, TypeOK
      <4>2. deployed' = [deployed EXCEPT ![s] = Orphaned(deployed[s])]
        BY <3>2
      <4> QED  BY <1>0, <3>3, <4>1, <4>2, LiveChanges
    <3>5. Promise!Remove(s)
      BY <1>0, <2>2, <3>2, <3>4, PhaseMoves DEF Promise!Remove, Promise!Move
    <3> QED  BY <3>5 DEF Promise!Next
  <2> QED  BY <2>3, <2>4
<1>4. CASE DeleteOwnedObject(s)
  <2>1. deployed' = [deployed EXCEPT ![s] = None] /\ UNCHANGED <<api, Marked>>
    BY <1>4 DEF DeleteOwnedObject, stored, Marked, lapses
  <2>2. Live' = Live \ {s}
    BY <1>0, <2>1, LiveChanges
  <2>3. Promise!Withdraw(s)
    BY <2>1, <2>2, SamePhases DEF Promise!Withdraw
  <2> QED  BY <2>3 DEF Promise!Next
<1> QED  BY <1>1, <1>2, <1>3, <1>4

\* The worker's steps that write nothing, or a status.
LEMMA StatusStepsStutter ==
    ASSUME IInv,
           \/ SetAsProgressing("markDeleted", "cleanup") \/ SetAsProgressing("progress", "load")
           \/ LoadChart \/ ResolveDependency \/ DependenciesDone \/ HandleState \/ SetAsReady
    PROVE  UNCHANGED Promise!vars
<1>1. wi.main \in SR /\ wi.cur \in SR
  <2>1. pc # "idle"
    BY DEF SetAsProgressing, LoadChart, ResolveDependency, DependenciesDone, HandleState, SetAsReady
  <2> QED  BY <2>1, Busy
<1>2. UNCHANGED <<deployed, labelled, skipped>>
  BY DEF SetAsProgressing, LoadChart, ResolveDependency, DependenciesDone, HandleState,
         SetAsReady, cluster, lapses
<1>3. \/ UNCHANGED stored
      \/ \E s \in {wi.main, wi.cur}, c \in Condition : WriteStatus(s, c)
  BY DEF SetAsProgressing, LoadChart, ResolveDependency, DependenciesDone, HandleState,
         SetAsReady, SetAsErrored, ChartFails, Condition
<1>4. api' = api
  BY <1>1, <1>3, StatusStores DEF stored
<1> QED  BY <1>2, <1>4, Stutters

\* Finalize takes the labels, then the finalizer; RemoveResources the objects.
LEMMA CleanupSimulates ==
    ASSUME IInv, DInv, FinalizeSpecialResource \/ RemoveFinalizer \/ RemoveResources
    PROVE  [Promise!Next]_Promise!vars
<1>0. TypeOK /\ wi.main \in SR
  <2>1. pc # "idle"
    BY DEF FinalizeSpecialResource, RemoveFinalizer, RemoveResources
  <2> QED  BY <2>1, Busy DEF IInv
<1>1. CASE FinalizeSpecialResource
  <2>1. UNCHANGED <<api, deployed>> /\ Marked' \in {Marked, Marked \ {wi.main}}
    BY <1>1 DEF FinalizeSpecialResource, stored, Marked
  <2>2. Promise!Withdraw(wi.main)
    BY <2>1, SamePhases, SameLive DEF Promise!Withdraw
  <2> QED  BY <1>0, <2>2 DEF Promise!Next
<1>2. CASE RemoveFinalizer /\ held[wi.main] = "fresh"
  <2>1. /\ api' = [api EXCEPT ![wi.main] = None] /\ UNCHANGED Marked
        /\ deployed' = [deployed EXCEPT ![wi.main] = Orphaned(deployed[wi.main])]
    BY <1>2 DEF RemoveFinalizer, Store, OrphanIfGone, Marked, lapses
  <2>2. wi.main \notin Marked
    BY <1>2 DEF RemoveFinalizer, IInv, WorkerInv
  <2>3. api[wi.main] # None /\ api[wi.main].deleting /\ api[wi.main].finalizer
    <3>1. sr[wi.main].deleting
      BY <1>2 DEF RemoveFinalizer, DInv, DeletesDeleting
    <3>2. api[wi.main] # None /\ api[wi.main].deleting
      BY <1>0, <1>2, <3>1 DEF DInv, FreshAgrees
    <3> QED  BY <1>0, <3>2 DEF DInv, DeletingIsClaimed
  <2>4. PhaseOf(api[wi.main]) = "closing" /\ PhaseOf(None) = "absent"
    BY <2>3 DEF PhaseOf
  <2>5. Live' = Live \ {wi.main}
    <3>1. Orphaned(deployed[wi.main]) # None => Orphaned(deployed[wi.main]).owner = "orphan"
      BY <1>0, OrphanedObjects DEF TypeOK
    <3> QED  BY <1>0, <2>1, <3>1, LiveChanges
  <2>6. Promise!Release(wi.main)
    BY <1>0, <2>1, <2>2, <2>4, <2>5, PhaseMoves DEF Promise!Release, Promise!Move
  <2> QED  BY <1>0, <2>6 DEF Promise!Next
<1>3. CASE RemoveFinalizer /\ held[wi.main] # "fresh"
  BY <1>3, Stutters DEF RemoveFinalizer, stored, lapses
<1>4. CASE RemoveResources
  <2>1. /\ UNCHANGED <<api, Marked>>
        /\ deployed' = deployed \/ deployed' = [deployed EXCEPT ![wi.main] = None]
    BY <1>4 DEF RemoveResources, stored, Marked
  <2>2. Live' \in {Live, Live \ {wi.main}}
    BY <1>0, <2>1, SameLive, LiveChanges
  <2>3. Promise!Withdraw(wi.main)
    BY <2>1, <2>2, SamePhases DEF Promise!Withdraw
  <2> QED  BY <1>0, <2>3 DEF Promise!Next
<1> QED  BY <1>1, <1>2, <1>3, <1>4

\* A SpecialResource for a dependency is created bare, or not at all.
LEMMA CreateFromSimulates ==
    ASSUME IInv, CreateSpecialResourceFrom
    PROVE  [Promise!Next]_Promise!vars
<1> DEFINE o == [mgmt |-> "Managed", deleting |-> FALSE, finalizer |-> FALSE, set |-> DefaultSet]
<1>1. Dependency \in SR
  <2>1. wi.next \in 1..Len(Deps[wi.main]) /\ Deps[wi.main] \in Seq(SR)
    BY Busy, SRAssumption DEF CreateSpecialResourceFrom, IInv, WorkerInv
  <2> QED  BY <2>1 DEF Dependency
<1>2. UNCHANGED <<deployed, labelled, skipped>>
  BY DEF CreateSpecialResourceFrom, cluster, lapses
<1>3. CASE api' = api
  BY <1>2, <1>3, Stutters
<1>4. CASE api[Dependency] = None /\ api' = [api EXCEPT ![Dependency] = o]
  <2>1. o \in Obj /\ ~o.finalizer
    BY SRAssumption DEF Obj, ManagementState
  <2> HIDE DEF o
  <2>2. PhaseOf(o) = "bare" /\ PhaseOf(api[Dependency]) = "absent"
    BY <1>4, <2>1, NoneAssumption DEF PhaseOf
  <2>3. Promise!Create(Dependency)
    BY <1>1, <1>2, <1>4, <2>2, PhaseMoves, SameLive
    DEF IInv, Promise!Create, Promise!Move, Marked
  <2> QED  BY <1>1, <2>3 DEF Promise!Next
<1> QED  BY <1>3, <1>4 DEF CreateSpecialResourceFrom, Store

\* The finalizer is set on an object that is stored, not deleted and without it.
LEMMA AddFinalizerSimulates ==
    ASSUME IInv, DInv, AddFinalizer
    PROVE  [Promise!Next]_Promise!vars
<1>1. wi.cur \in SR /\ sr[wi.cur] \in Obj /\ UNCHANGED <<deployed, labelled, skipped>>
  BY Busy DEF AddFinalizer, cluster, lapses
<1>2. CASE ChartFails \/ UNCHANGED stored
  BY <1>1, <1>2, ErroredStores, Stutters DEF ChartFails, stored
<1>3. CASE /\ ~sr[wi.cur].finalizer /\ held[wi.cur] = "fresh" /\ ~sr[wi.cur].deleting
           /\ Store(wi.cur, [sr[wi.cur] EXCEPT !.finalizer = TRUE],
                    sr[wi.cur].set # api[wi.cur].set)
  <2> DEFINE o == [sr[wi.cur] EXCEPT !.finalizer = TRUE]
  <2>1. o \in Obj
    BY <1>1 DEF Obj
  <2>2. o.finalizer /\ ~o.deleting
    <3>1. PICK m \in ManagementState, v \in Values : TRUE
      BY SRAssumption DEF ManagementState
    <3> QED  BY <1>1, <1>3, <3>1, OtherFields
  <2>3. api' = [api EXCEPT ![wi.cur] = o]
    BY <1>3 DEF Store
  <2> HIDE DEF o
  <2>4. api[wi.cur] # None /\ ~api[wi.cur].finalizer
    BY <1>1, <1>3 DEF DInv, FreshAgrees
  <2>5. PhaseOf(o) = "claimed" /\ PhaseOf(api[wi.cur]) = "bare"
    BY <2>1, <2>2, <2>4, NoneAssumption DEF PhaseOf
  <2>6. Promise!Claim(wi.cur)
    BY <1>1, <2>3, <2>5, PhaseMoves, SameLive
    DEF IInv, Promise!Claim, Promise!Move, Marked
  <2> QED  BY <1>1, <2>6 DEF Promise!Next
<1> QED  BY <1>2, <1>3 DEF AddFinalizer

\* A chart is deployed under the finalizer; what a copy of an object that is gone
\* creates has no owner, and has no labels.
LEMMA ReconcileChartSimulates ==
    ASSUME IInv, ReconcileChart
    PROVE  [Promise!Next]_Promise!vars
<1>1. TypeOK /\ pc = "deploy" /\ wi.cur \in SR /\ sr[wi.cur].finalizer
  BY Busy DEF ReconcileChart, IInv, WorkerInv
<1>2. api' = api
  BY <1>1, ErroredStores DEF ReconcileChart, ChartDone, ChartFails, stored
<1>3. deployed' = deployed \/ deployed' = [deployed EXCEPT ![wi.cur] = Installed]
  BY DEF ReconcileChart, Install
<1>4. \/ Marked' = Marked
      \/ wi.cur \in Stateful /\ Marked' = Marked \cup {wi.cur}
  BY DEF ReconcileChart, LabelNodes, Marked
<1>5. CASE HasFinalizer(wi.cur)
  <2>1. Live' \in {Live, Live \cup {wi.cur}, Live \ {wi.cur}}
    BY <1>1, <1>3, SameLive, LiveChanges
  <2>2. Phases[wi.cur] \in {"claimed", "closing"}
    BY <1>1, <1>5 DEF Phases, PhaseOf, HasFinalizer
  <2>3. Promise!Deploy(wi.cur)
    BY <1>2, <1>4, <2>1, <2>2, SamePhases DEF Promise!Deploy
  <2> QED  BY <1>1, <2>3 DEF Promise!Next
<1>6. CASE ~HasFinalizer(wi.cur)
  <2>1. held[wi.cur] = "gone" /\ wi.cur \notin Stateful
    BY <1>1, <1>6 DEF IInv, HeldIsSound, WorkerInv, HasFinalizer
  <2>2. Installed.owner = "orphan"
    BY <2>1 DEF Installed
  <2>3. Live' \in {Live, Live \ {wi.cur}}
    BY <1>1, <1>3, <2>2, SameLive, LiveChanges
  <2>4. Promise!Withdraw(wi.cur)
    BY <1>2, <1>4, <2>1, <2>3, SamePhases DEF Promise!Withdraw
  <2> QED  BY <1>1, <2>4 DEF Promise!Next
<1> QED  BY <1>5, <1>6

\* Every step of the controller and of its environment is a step of Ownership or
\* leaves what Ownership speaks of alone.
THEOREM StepSimulation == IInv /\ DInv /\ [Next]_vars => [Promise!Next]_Promise!vars
<1> SUFFICES ASSUME IInv, DInv, [Next]_vars PROVE [Promise!Next]_Promise!vars
  OBVIOUS
<1>1. CASE Worker
  BY <1>1, StatusStepsStutter, CleanupSimulates, CreateFromSimulates,
     AddFinalizerSimulates, ReconcileChartSimulates DEF Worker
<1>2. ASSUME NEW s \in SR, Reconcile(s) \/ SyncCache(s) \/ OwnedObjectEvent(s)
      PROVE  [Promise!Next]_Promise!vars
  BY <1>2, Stutters DEF Reconcile, SyncCache, OwnedObjectEvent, stored, cluster, lapses
<1>3. ASSUME NEW s \in SR, GarbageCollect(s) PROVE [Promise!Next]_Promise!vars
  <2>1. deployed' = [deployed EXCEPT ![s] = None] /\ UNCHANGED <<api, Marked>>
    BY <1>3 DEF GarbageCollect, stored, Marked, lapses
  <2>2. Live' = Live \ {s}
    BY <2>1, LiveChanges DEF IInv
  <2>3. Promise!Withdraw(s)
    BY <2>1, <2>2, SamePhases DEF Promise!Withdraw
  <2> QED  BY <2>3 DEF Promise!Next
<1>4. CASE Restart
  BY <1>4, Stutters DEF Restart, lapses
<1>5. CASE SyncConfigMap \/ UNCHANGED vars
  BY <1>5, Stutters DEF SyncConfigMap, vars, stored, cluster, lapses
<1> QED  BY <1>1, <1>2, <1>3, <1>4, <1>5, UsersSimulate DEF Next

\* The operator starts with nothing stored, deployed or labelled.
LEMMA InitSimulation == Init => Promise!Init
  BY DEF Init, Promise!Init, Phases, PhaseOf, Live, Marked

\* The controller implements Ownership: no write with an outdated copy takes the
\* finalizer off an object that is not deleted, undoes a deletion, or releases an
\* object while a node has its label, other than a label its finalization passed
\* over, and nothing is deployed before the finalizer is stored
\* (AddFinalizerToSpecialResource, Finalize, ReconcileChart).
THEOREM Refinement == Spec => ImplementsOwnership
<1>1. Init => IInv /\ DInv
  BY Initially, DInitially
<1>2. IInv /\ DInv /\ [Next]_vars => (IInv /\ DInv)'
  BY Inductive, DInductive
<1> QED  BY <1>1, <1>2, InitSimulation, StepSimulation, PTL
         DEF Spec, ImplementsOwnership, Promise!Spec

-----------------------------------------------------------------------------
(* Ready is earned *)

AtDependency == wi.next <= Len(Deps[wi.main]) /\ wi.cur = Deps[wi.main][wi.next]
AtMain       == wi.next > Len(Deps[wi.main]) /\ wi.cur = wi.main

\* The chart at hand is that of the next dependency, and the main one is the last.
InTurn ==
    /\ pc \in {"chart", "states", "deploy"} => AtDependency \/ AtMain
    /\ pc = "ready" => AtMain

\* A copy whose resourceVersion is current has the stored values.
ValuesAgree ==
    pc # "idle" /\ held[wi.main] = "fresh" => sr[wi.main].set = api[wi.main].set

\* What the pass on m has installed is there or reported as gone, unless it
\* ignored an error.
Accounted(m, t) == t \in dropped[m] \/ Reported(t)

\* So it is with the charts of the dependencies behind the worker ...
BehindIsReported ==
    pc # "idle" => \A i \in 1..Len(Deps[wi.main]) : i < wi.next => Accounted(wi.main, Deps[wi.main][i])

\* ... and with the main chart, before the status is written, its labels and values.
MainIsReported ==
    pc = "ready" =>
        /\ Accounted(wi.main, wi.main)
        /\ wi.main \in Stateful => wi.main \in Marked
        /\ held[wi.main] = "fresh" /\ wi.main \notin dropped[wi.main] =>
              deployed[wi.main] \in {None, [set |-> api[wi.main].set, owner |-> "live"]}

ReadyInv == InTurn /\ ValuesAgree /\ BehindIsReported /\ MainIsReported

\* Between two passes there is nothing to say.
LEMMA EndedEarns == ASSUME pc' = "idle" PROVE ReadyInv'
  BY DEF ReadyInv, InTurn, ValuesAgree, BehindIsReported, MainIsReported

\* A step beside the pass reports what it deletes, and outdates the copy if it writes.
LEMMA AsideEarns ==
    ASSUME ReadyInv, IInv, UNCHANGED <<pc, wi, sr, labelled, lapses>>,
           \A t \in SR : Reported(t) => Reported(t)',
           \A t \in SR : held'[t] = "fresh" =>
               /\ held[t] = "fresh" /\ api'[t] = api[t]
               /\ deployed'[t] = deployed[t] \/ deployed'[t] = None
                                            \/ (deployed[t] # None /\ deployed[t].owner = "orphan")
    PROVE  ReadyInv'
<1>1. CASE pc = "idle"
  BY <1>1, EndedEarns
<1>2. CASE pc # "idle"
  <2>1. wi.main \in SR /\ Deps[wi.main] \in Seq(SR)
    BY <1>2, Busy, SRAssumption
  <2>2. InTurn'
    BY DEF ReadyInv, InTurn, AtDependency, AtMain
  <2>3. ValuesAgree'
    BY <2>1 DEF ReadyInv, ValuesAgree
  <2>4. BehindIsReported'
    <3>1. \A i \in 1..Len(Deps[wi.main]) : Deps[wi.main][i] \in SR
      BY <2>1
    <3>2. \A i \in 1..Len(Deps[wi.main]) : i < wi.next => Accounted(wi.main, Deps[wi.main][i])
      BY <1>2 DEF ReadyInv, BehindIsReported
    <3>3. PICK m, n : m = wi.main /\ n = wi.next
      OBVIOUS
    <3>4. \A i \in 1..Len(Deps[m]) : i < n => Accounted(m, Deps[m][i])'
      BY <3>1, <3>2, <3>3 DEF Accounted, lapses
    <3> QED  BY <3>3, <3>4 DEF BehindIsReported
  <2>5. MainIsReported'
    <3> SUFFICES ASSUME pc = "ready" PROVE MainIsReported'
      BY DEF MainIsReported
    <3>1. PICK m \in SR : m = wi.main
      BY <2>1
    <3>2. Accounted(m, m) /\ (m \in Stateful => m \in Marked)
      BY <3>1 DEF ReadyInv, MainIsReported
    <3>a. Accounted(m, m)' /\ (m \in Stateful => m \in Marked')
      BY <3>2 DEF Accounted, Marked, lapses
    <3>3. held'[m] = "fresh" /\ m \notin dropped'[m] => deployed'[m] \in {None, [set |-> api'[m].set, owner |-> "live"]}
      <4> SUFFICES ASSUME held'[m] = "fresh", m \notin dropped'[m]
                   PROVE  deployed'[m] \in {None, [set |-> api'[m].set, owner |-> "live"]}
        OBVIOUS
      <4>1. deployed[m] \in {None, [set |-> api'[m].set, owner |-> "live"]}
        BY <3>1 DEF ReadyInv, MainIsReported, lapses
      <4>2. ~(deployed[m] # None /\ deployed[m].owner = "orphan")
        BY <4>1
      <4> QED  BY <4>1, <4>2
    <3> QED  BY <3>1, <3>a, <3>3 DEF MainIsReported
  <2> QED  BY <2>2, <2>3, <2>4, <2>5 DEF ReadyInv
<1> QED  BY <1>1, <1>2

\* A step of the pass that installs nothing.
LEMMA WithinEarns ==
    ASSUME ReadyInv, IInv, pc # "idle", pc' # "ready",
           UNCHANGED <<deployed, objEvents, queue, held, dropped>>,
           wi'.main = wi.main, wi'.next = wi.next, InTurn',
           held[wi.main] = "fresh" => sr'[wi.main].set = api'[wi.main].set
    PROVE  ReadyInv'
<1>1. ValuesAgree' /\ MainIsReported'
  BY DEF ValuesAgree, MainIsReported
<1>2. \A m, t : Accounted(m, t) => Accounted(m, t)'
  BY DEF Accounted, Reported
<1>3. BehindIsReported'
  BY <1>2 DEF ReadyInv, BehindIsReported
<1> QED  BY <1>1, <1>3 DEF ReadyInv

\* Users, informers and the garbage collector.
LEMMA OthersEarn ==
    ASSUME IInv, ReadyInv,
           Users \/ (\E s \in SR : SyncCache(s) \/ OwnedObjectEvent(s) \/ GarbageCollect(s))
           \/ SyncConfigMap \/ UNCHANGED vars
    PROVE  ReadyInv'
<1>0. /\ deployed \in [SR -> Objects \cup {None}] /\ api \in [SR -> Obj \cup {None}]
      /\ held \in [SR -> {"fresh", "stale", "gone"}]
  BY DEF IInv, TypeOK
<1>1. ASSUME NEW s \in SR, NEW o, NEW g, UserWrite(s, o, g) PROVE ReadyInv'
  <2>1. UNCHANGED <<pc, wi, sr, labelled, lapses, objEvents, queue>>
    BY <1>1 DEF UserWrite
  <2>2. held'[s] # "fresh" /\ \A t \in SR \ {s} : held'[t] = held[t] /\ api'[t] = api[t]
    BY <1>0, <1>1 DEF UserWrite, Store
  <2>3. \A t \in SR : deployed'[t] = deployed[t] \/ (t = s /\ deployed'[t] = Orphaned(deployed[t]))
    BY <1>0, <1>1 DEF UserWrite, OrphanIfGone
  <2>4. \A t \in SR : deployed'[t] = None => deployed[t] = None
    <3>1. \A d \in Objects : Orphaned(d) \in Objects
      BY NoneAssumption DEF Orphaned, Objects
    <3>2. \A t \in SR : deployed[t] # None => Orphaned(deployed[t]) # None
      BY <1>0, <3>1, NoneAssumption
    <3> QED  BY <2>3, <3>2
  <2>5. \A t \in SR : Reported(t) => Reported(t)'
    BY <2>1, <2>4 DEF Reported
  <2> QED  BY <2>1, <2>2, <2>3, <2>5, AsideEarns
<1>2. ASSUME NEW s \in SR, DeleteOwnedObject(s) \/ GarbageCollect(s) PROVE ReadyInv'
  <2>1. /\ UNCHANGED <<pc, wi, sr, held, labelled, lapses, queue, api>>
        /\ objEvents' = objEvents \cup {s} /\ deployed' = [deployed EXCEPT ![s] = None]
    BY <1>2 DEF DeleteOwnedObject, GarbageCollect, worker, stored
  <2>2. \A t \in SR : Reported(t) => Reported(t)'
    BY <1>0, <2>1 DEF Reported
  <2>3. \A t \in SR : deployed'[t] = deployed[t] \/ deployed'[t] = None
    BY <1>0, <2>1
  <2> QED  BY <2>1, <2>2, <2>3, AsideEarns
<1>3. ASSUME NEW s \in SR, SyncCache(s) \/ OwnedObjectEvent(s) PROVE ReadyInv'
  <2>1. /\ UNCHANGED <<pc, wi, sr, held, labelled, lapses, deployed, api>>
        /\ objEvents \cup queue \subseteq objEvents' \cup queue'
    BY <1>3 DEF SyncCache, OwnedObjectEvent, worker, cluster, stored
  <2>2. \A t \in SR : Reported(t) => Reported(t)'
    BY <2>1 DEF Reported
  <2> QED  BY <2>1, <2>2, AsideEarns
<1>4. CASE SyncConfigMap \/ UNCHANGED vars
  <2>1. UNCHANGED <<pc, wi, sr, held, labelled, lapses, deployed, api, objEvents, queue>>
    BY <1>4 DEF SyncConfigMap, vars, worker, cluster, stored
  <2>2. \A t \in SR : Reported(t) => Reported(t)'
    BY <2>1 DEF Reported
  <2> QED  BY <2>1, <2>2, AsideEarns
<1> QED  BY <1>1, <1>2, <1>3, <1>4 DEF Users, CreateSpecialResource, EditSpec, DeleteSpecialResource

\* A pass begins with the first dependency and what the cache has.
LEMMA ReconcileEarns == ASSUME IInv, ReadyInv, NEW n \in SR, Reconcile(n) PROVE ReadyInv'
<1>1. CASE worker' = worker
  BY <1>1, EndedEarns DEF Reconcile, worker
<1>2. CASE worker' # worker
  <2>1. PICK m : m = Target(n) /\ cache[m] # None /\ m # None /\ Branch(cache[m]) # "idle"
    BY <1>2 DEF Reconcile
  <2>2. m \in SR /\ cache[m] \in Obj
    BY <2>1 DEF Target, IInv, TypeOK
  <2>3. /\ pc' = Branch(cache[m]) /\ api' = api
        /\ wi' = [req |-> n, main |-> m, cur |-> m, next |-> 1]
        /\ sr' = [s \in SR |-> IF s \in Family(m) THEN cache[s] ELSE None]
        /\ held' = [s \in SR |-> IF s \in Family(m) THEN Relation(s) ELSE "gone"]
    BY <1>2, <2>1 DEF Reconcile, stored
  <2>4. wi'.main = m /\ wi'.next = 1 /\ sr'[m] = cache[m] /\ held'[m] = Relation(m)
    BY <2>2, <2>3 DEF Family
  <2>5. ValuesAgree'
    <3>1. Relation(m) = "fresh" => cache[m] = api[m]
      BY <2>2 DEF Relation, IInv, CacheFollows
    <3> QED  BY <2>3, <2>4, <3>1 DEF ValuesAgree
  <2>6. BehindIsReported'
    <3>1. \A i \in 1..Len(Deps[m]) : ~(i < wi'.next)
      BY <2>4
    <3> QED  BY <2>4, <3>1 DEF BehindIsReported
  <2>7. pc' \in {"markDeleted", "remove", "idle", "progress"}
    BY <2>2, <2>3, BranchSteps
  <2> QED  BY <2>5, <2>6, <2>7 DEF ReadyInv, InTurn, MainIsReported
<1> QED  BY <1>1, <1>2

\* The status write at the start of a pass and the chart of the main SpecialResource.
LEMMA BeginningEarns ==
    ASSUME IInv, ReadyInv, SetAsProgressing("markDeleted", "cleanup") \/ SetAsProgressing("progress", "load")
                           \/ FinalizeSpecialResource \/ LoadChart
    PROVE  ReadyInv'
<1>0. wi.main \in SR /\ pc # "idle"
  BY Busy DEF SetAsProgressing, FinalizeSpecialResource, LoadChart
<1>1. CASE Done
  BY <1>1, EndedEarns DEF Done
<1>2. CASE ~Done
  <2>1. /\ UNCHANGED <<deployed, objEvents, queue, held, dropped, wi>>
        /\ pc' \in {"cleanup", "load", "unfinalize", "deps"}
        /\ \/ sr' = sr /\ api' = api
           \/ sr' = [sr EXCEPT ![wi.main] = api[wi.main]] /\ WriteStatus(wi.main, "Progressing")
    BY <1>2 DEF SetAsProgressing, FinalizeSpecialResource, LoadChart, Requeue, cluster, stored, lapses
  <2>2. api' = api
    BY <1>0, <2>1, StatusStores
  <2>3. held[wi.main] = "fresh" => sr'[wi.main].set = api'[wi.main].set
    <3>1. CASE sr' = sr
      BY <1>0, <2>2, <3>1 DEF ReadyInv, ValuesAgree
    <3>2. CASE sr' = [sr EXCEPT ![wi.main] = api[wi.main]]
      BY <1>0, <2>2, <3>2 DEF IInv, TypeOK
    <3> QED  BY <2>1, <3>1, <3>2
  <2>4. InTurn'
    BY <2>1 DEF InTurn
  <2> QED  BY <1>0, <2>1, <2>3, <2>4, WithinEarns
<1> QED  BY <1>1, <1>2

\* The turns of the dependency loop.
LEMMA LoopEarns ==
    ASSUME IInv, ReadyInv, ResolveDependency \/ DependenciesDone
    PROVE  ReadyInv'
<1>0. /\ wi.main \in SR /\ pc = "deps" /\ wi.next \in Nat \ {0} /\ Deps[wi.main] \in Seq(SR)
      /\ wi \in [req : SR \cup {None}, main : SR \cup {None}, cur : SR \cup {None}, next : Nat \ {0}]
  BY Busy, SRAssumption DEF ResolveDependency, DependenciesDone, IInv, TypeOK
<1>1. CASE Done
  BY <1>1, EndedEarns DEF Done
<1>2. CASE DependenciesDone
  <2>1. /\ UNCHANGED <<deployed, objEvents, queue, held, dropped, sr, api>> /\ pc' = "chart"
        /\ wi.next > Len(Deps[wi.main]) /\ wi' = [wi EXCEPT !.cur = wi.main]
    BY <1>2 DEF DependenciesDone, stored, cluster, lapses
  <2>2. wi'.main = wi.main /\ wi'.next = wi.next /\ wi'.cur = wi.main
    BY <1>0, <2>1
  <2>3. InTurn'
    BY <2>1, <2>2 DEF InTurn, AtMain
  <2> QED  BY <1>0, <2>1, <2>2, <2>3, WithinEarns DEF ReadyInv, ValuesAgree
<1>3. CASE ResolveDependency /\ ~Done
  <2>1. PICK d : d = Dependency
    OBVIOUS
  <2>2. /\ UNCHANGED <<deployed, objEvents, queue, held, dropped, api>> /\ wi.next <= Len(Deps[wi.main])
        /\ \/ pc' = "create" /\ UNCHANGED <<wi, sr>>
           \/ /\ sr[d] # None /\ pc' = "chart"
              /\ wi' = [wi EXCEPT !.cur = d]
              /\ sr' = [sr EXCEPT ![d].set = sr[wi.main].set]
    BY <1>3, <2>1 DEF ResolveDependency, stored, cluster, Requeue, lapses
  <2>3. wi.next \in 1..Len(Deps[wi.main])
    BY <1>0, <2>2
  <2>4. d = Deps[wi.main][wi.next] /\ d \in SR /\ d # wi.main
    BY <1>0, <2>1, <2>3, SRAssumption DEF Dependency
  <2>5. sr'[wi.main] = sr[wi.main]
    BY <1>0, <2>2, <2>4 DEF IInv, TypeOK
  <2>6. wi'.main = wi.main /\ wi'.next = wi.next /\ (pc' = "chart" => wi'.cur = d)
    BY <1>0, <2>2
  <2>7. InTurn'
    BY <2>2, <2>4, <2>6 DEF InTurn, AtDependency
  <2>8. held[wi.main] = "fresh" => sr'[wi.main].set = api'[wi.main].set
    BY <1>0, <2>2, <2>5 DEF ReadyInv, ValuesAgree
  <2> QED  BY <1>0, <2>2, <2>6, <2>7, <2>8, WithinEarns
<1> QED  BY <1>1, <1>2, <1>3 DEF ResolveDependency

\* The chart at hand up to its installation: the finalizer and the state.
LEMMA ChartEarns ==
    ASSUME IInv, ReadyInv, AddFinalizer \/ HandleState
    PROVE  ReadyInv'
<1>0. wi.main \in SR /\ wi.cur \in SR /\ sr[wi.cur] \in Obj /\ pc \in {"chart", "states"}
  BY Busy DEF AddFinalizer, HandleState
<1>1. CASE Done
  BY <1>1, EndedEarns DEF Done
<1>2. CASE ~Done
  <2>1. /\ UNCHANGED <<deployed, objEvents, queue, held, dropped, wi>> /\ pc' \in {"states", "deploy"}
        /\ \/ sr' = sr /\ api' = api
           \/ /\ sr' = [sr EXCEPT ![wi.cur].finalizer = TRUE]
              /\ api' = [api EXCEPT ![wi.cur] = [sr[wi.cur] EXCEPT !.finalizer = TRUE]]
           \/ sr' = [sr EXCEPT ![wi.cur] = api[wi.cur]] /\ WriteStatus(wi.cur, "Progressing")
    BY <1>2 DEF AddFinalizer, AfterFinalizer, HandleState, ChartFails, Requeue, Store, cluster, stored, lapses
  <2>2. held[wi.main] = "fresh" => sr[wi.main].set = api[wi.main].set
    BY <1>0 DEF ReadyInv, ValuesAgree
  <2>3. held[wi.main] = "fresh" => sr'[wi.main].set = api'[wi.main].set
    <3>0. sr \in [SR -> Obj \cup {None}] /\ api \in [SR -> Obj \cup {None}]
      BY DEF IInv, TypeOK
    <3>1. CASE sr' = sr /\ api' = api
      BY <2>2, <3>1
    <3>2. CASE /\ sr' = [sr EXCEPT ![wi.cur].finalizer = TRUE]
               /\ api' = [api EXCEPT ![wi.cur] = [sr[wi.cur] EXCEPT !.finalizer = TRUE]]
      <4>1. PICK o : o = [sr[wi.cur] EXCEPT !.finalizer = TRUE]
        OBVIOUS
      <4>2. sr' = [sr EXCEPT ![wi.cur] = o] /\ api' = [api EXCEPT ![wi.cur] = o]
        BY <3>2, <4>1
      <4> QED  BY <1>0, <2>2, <3>0, <4>2
    <3>3. CASE sr' = [sr EXCEPT ![wi.cur] = api[wi.cur]] /\ WriteStatus(wi.cur, "Progressing")
      <4>1. api' = api
        BY <1>0, <3>3, StatusStores
      <4> QED  BY <1>0, <2>2, <3>0, <3>3, <4>1
    <3> QED  BY <2>1, <3>1, <3>2, <3>3
  <2>4. InTurn'
    BY <1>0, <2>1 DEF ReadyInv, InTurn, AtDependency, AtMain
  <2> QED  BY <1>0, <2>1, <2>3, <2>4, WithinEarns
<1> QED  BY <1>1, <1>2

\* ReconcileChart: what it installs is there, with the values of the copy.
LEMMA InstallEarns == ASSUME IInv, ReadyInv, ReconcileChart PROVE ReadyInv'
<1>0. /\ wi.main \in SR /\ wi.cur \in SR /\ pc = "deploy" /\ wi.next \in Nat \ {0} /\ Deps[wi.main] \in Seq(SR)
      /\ wi \in [req : SR \cup {None}, main : SR \cup {None}, cur : SR \cup {None}, next : Nat \ {0}]
  BY Busy, SRAssumption DEF ReconcileChart, IInv, TypeOK
<1>1. CASE Done
  BY <1>1, EndedEarns DEF Done
<1>2. CASE ~Done
  <2>1. /\ \/ Install /\ dropped' = [dropped EXCEPT ![wi.main] = @ \ {wi.cur}]
           \/ /\ Install \/ (deployed' = deployed /\ objEvents \subseteq objEvents')
              /\ dropped' = [dropped EXCEPT ![wi.main] = @ \cup {wi.cur}]
        /\ LabelNodes /\ UNCHANGED <<api, sr, held, queue>>
        /\ IF wi.cur = wi.main THEN pc' = "ready" /\ UNCHANGED wi
           ELSE pc' = "deps" /\ wi' = [wi EXCEPT !.next = @ + 1]
    BY <1>2 DEF ReconcileChart, ChartDone, ChartFails, Requeue, stored
  <2>2. PICK m \in SR, c \in SR, n \in Nat \ {0} : m = wi.main /\ c = wi.cur /\ n = wi.next
    BY <1>0
  <2>3. Installed \in Objects
    <3>1. sr[wi.cur] \in Obj
      BY <1>0, Busy
    <3> QED  BY <3>1 DEF Installed, Objects, Obj
  <2>a. /\ c \in dropped'[m] \/ deployed' = [deployed EXCEPT ![c] = Installed]
        /\ deployed' = deployed \/ deployed' = [deployed EXCEPT ![c] = Installed]
        /\ \A t \in SR \ {c} : t \in dropped'[m] <=> t \in dropped[m]
    BY <2>1, <2>2 DEF Install, IInv, TypeOK
  <2>4. /\ c \in dropped'[m] \/ (deployed'[c] = Installed /\ deployed'[c] # None)
        /\ \A t \in SR \ {c} : deployed'[t] = deployed[t]
        /\ objEvents \subseteq objEvents'
    BY <2>1, <2>2, <2>a, <2>3, NoneAssumption DEF Install, IInv, TypeOK
  <2>5. Accounted(m, c)' /\ \A t \in SR : Accounted(m, t) => Accounted(m, t)'
    <3>1. c \in dropped'[m] \/ Reported(c)'
      BY <2>4 DEF Reported
    <3>2. \A t \in SR \ {c} : Reported(t) => Reported(t)'
      BY <2>1, <2>4 DEF Reported
    <3>3. Accounted(m, c)'
      BY <3>1 DEF Accounted
    <3>4. \A t \in SR \ {c} : Accounted(m, t) => Accounted(m, t)'
      BY <2>a, <3>2 DEF Accounted
    <3> QED  BY <3>3, <3>4
  <2>6. wi'.main = m /\ wi'.cur = c /\ wi'.next = IF c = m THEN n ELSE n + 1
    BY <1>0, <2>1, <2>2
  <2>7. IF c = m THEN n > Len(Deps[m]) ELSE n <= Len(Deps[m]) /\ c = Deps[m][n]
    <3>1. AtDependency => wi.cur # wi.main
      BY <1>0, SRAssumption DEF AtDependency
    <3> QED  BY <1>0, <2>2, <3>1 DEF ReadyInv, InTurn, AtDependency, AtMain
  <2>8. InTurn'
    BY <2>1, <2>2, <2>6, <2>7 DEF InTurn, AtMain
  <2>9. ValuesAgree'
    BY <1>0, <2>1, <2>2, <2>6 DEF ReadyInv, ValuesAgree
  <2>10. BehindIsReported'
    <3>1. \A i \in 1..Len(Deps[m]) : Deps[m][i] \in SR /\ (i < n => Accounted(m, Deps[m][i]))
      BY <1>0, <2>2 DEF ReadyInv, BehindIsReported
    <3>2. \A i \in 1..Len(Deps[m]) : i < wi'.next => i < n \/ (i = n /\ c # m)
      BY <2>6
    <3>3. \A i \in 1..Len(Deps[m]) : i < wi'.next => Accounted(m, Deps[m][i])'
      BY <2>5, <2>7, <3>1, <3>2
    <3> QED  BY <2>6, <3>3 DEF BehindIsReported
  <2>11. MainIsReported'
    <3> SUFFICES ASSUME pc' = "ready" PROVE MainIsReported'
      BY DEF MainIsReported
    <3>1. c = m
      BY <2>1, <2>2
    <3>2. m \in Stateful => m \in Marked'
      BY <2>1, <2>2, <3>1 DEF LabelNodes, Marked
    <3>3. held[m] = "fresh" /\ m \notin dropped'[m] => deployed'[m] = [set |-> api[m].set, owner |-> "live"]
      BY <1>0, <2>2, <2>4, <3>1 DEF Installed, ReadyInv, ValuesAgree
    <3> QED  BY <2>1, <2>5, <2>6, <3>1, <3>2, <3>3 DEF MainIsReported
  <2> QED  BY <2>8, <2>9, <2>10, <2>11 DEF ReadyInv
<1> QED  BY <1>1, <1>2

\* Every step keeps it.
LEMMA ReadyInductive == IInv /\ ReadyInv /\ [Next]_vars => ReadyInv'
<1> SUFFICES ASSUME IInv, ReadyInv, [Next]_vars PROVE ReadyInv'
  OBVIOUS
<1>1. CASE RemoveFinalizer \/ RemoveResources \/ CreateSpecialResourceFrom \/ SetAsReady \/ Restart
  <2>1. pc' = "idle"
    BY <1>1 DEF RemoveFinalizer, RemoveResources, CreateSpecialResourceFrom, SetAsReady, Restart, Requeue, Done
  <2> QED  BY <2>1, EndedEarns
<1>2. ASSUME NEW s \in SR, Reconcile(s) PROVE ReadyInv'
  BY <1>2, ReconcileEarns
<1> QED  BY <1>1, <1>2, OthersEarn, BeginningEarns, LoopEarns, ChartEarns, InstallEarns DEF Next, Worker

\* The pass that writes Ready (SetAsReady) has found the stored SpecialResource
\* unchanged and installed its values, labels and dependencies, the charts excepted
\* of which it dropped a state's error (ReconcileChartStates); if any of it was
\* deleted meanwhile, a request or a notification is on its way.
THEOREM ReadyStatusIsEarned == Spec => ReadyIsEarned
<1> DEFINE Earned ==
      \A s \in SR : status[s] # "Ready" /\ status'[s] = "Ready" =>
         /\ s \in dropped[s] \/ deployed[s] \in {None, [set |-> api[s].set, owner |-> "live"]}
         /\ s \in Stateful => s \in Marked
         /\ \A d \in Family(s) \ dropped[s] : Reported(d)
<1>1. IInv /\ ReadyInv /\ [Next]_vars => [Earned]_vars
  <2> SUFFICES ASSUME IInv, ReadyInv, Next, NEW s \in SR, status[s] # "Ready", status'[s] = "Ready"
               PROVE  /\ s \in dropped[s] \/ deployed[s] \in {None, [set |-> api[s].set, owner |-> "live"]}
                      /\ s \in Stateful => s \in Marked
                      /\ \A d \in Family(s) \ dropped[s] : Reported(d)
    OBVIOUS
  <2>0. status \in [SR -> Condition]
    BY DEF IInv, TypeOK
  <2>1. ASSUME NEW t, NEW c, c # "Ready", WriteStatus(t, c) PROVE FALSE
    BY <2>0, <2>1 DEF WriteStatus
  <2>2. ~\E t : SetAsErrored(t)
    BY <2>1 DEF SetAsErrored, stored
  <2>3. CASE SetAsReady
    <3>1. pc = "ready" /\ held[wi.main] = "fresh" /\ WriteStatus(wi.main, "Ready")
      BY <2>3 DEF SetAsReady, stored
    <3>2. s = wi.main /\ Deps[s] \in Seq(SR)
      BY <2>0, <3>1, SRAssumption DEF WriteStatus
    <3>3. \A i \in 1..Len(Deps[s]) : i < wi.next
      BY <3>1, <3>2 DEF ReadyInv, InTurn, AtMain, IInv, TypeOK
    <3>4. \A i \in 1..Len(Deps[s]) : Accounted(s, Deps[s][i])
      BY <3>1, <3>2, <3>3 DEF ReadyInv, BehindIsReported
    <3> QED  BY <3>1, <3>2, <3>4 DEF ReadyInv, MainIsReported, Accounted, Family
  <2>4. CASE Worker /\ ~SetAsReady
    BY <2>0, <2>1, <2>2, <2>4 DEF Worker, SetAsProgressing, FinalizeSpecialResource, RemoveFinalizer,
          RemoveResources, LoadChart, ResolveDependency, CreateSpecialResourceFrom, DependenciesDone,
          AddFinalizer, HandleState, ReconcileChart, ChartDone, ChartFails, stored
  <2>5. CASE Users
    <3>1. ASSUME NEW t, NEW o, NEW g, UserWrite(t, o, g) PROVE FALSE
      BY <2>0, <3>1 DEF UserWrite
    <3> QED  BY <2>5, <3>1 DEF Users, CreateSpecialResource, EditSpec, DeleteSpecialResource, DeleteOwnedObject, stored
  <2> QED  BY <2>3, <2>4, <2>5 DEF Next, Reconcile, SyncCache, SyncConfigMap, OwnedObjectEvent,
              GarbageCollect, Restart, stored
<1>2. Init => ReadyInv
  BY DEF Init, ReadyInv, InTurn, ValuesAgree, BehindIsReported, MainIsReported
<1> QED  BY <1>1, <1>2, Initially, Inductive, ReadyInductive, PTL DEF Spec, ReadyIsEarned

=============================================================================
