----------------------------- MODULE RestProofs -----------------------------
(***************************************************************************)
(* No wake-up is lost: what holds of the SpecialResource controller when   *)
(* it has come to rest.  For each duty that is not done yet the invariants *)
(* name what will make the worker do it: the queued request, a version the *)
(* filter will let through, the notification of an owned object, or the    *)
(* pass in progress.                                                       *)
(***************************************************************************)
EXTENDS SpecialResourceProofs

\* Most steps are first-order; the time given to a prover covers what the proof
\* manager does meanwhile.
USE ZenonT(3), SMTT(20), ZenonT(30)

\* No version after the i-th has a new generation ...
QuietAfter(s, i) == \A j \in (i + 1)..Len(pending[s]) : ~pending[s][j].newGeneration

\* ... or one of them will pass the filter, whatever the cache holds then.
Waking(v) == v.newGeneration /\ v.obj # None /\ v.obj.mgmt # "Unmanaged"

WakesAfter(s, i) == \E j \in (i + 1)..Len(pending[s]) : Waking(pending[s][j])

RemovalPending(s) == \E i \in 1..Len(pending[s]) : pending[s][i].obj = None

Same(x, y) == x # None /\ x.mgmt = y.mgmt /\ x.deleting = y.deleting /\ x.set = y.set

\* A version without a new generation says nothing new, and what is new will wake
\* the worker unless it is Unmanaged.
Versions ==
    \A s \in SR : api[s] # None => \A i \in 0..Len(pending[s]) :
        /\ QuietAfter(s, i) => Same(Seen(s, i), api[s])
        /\ api[s].mgmt # "Unmanaged" => QuietAfter(s, i) \/ WakesAfter(s, i)

\* An object is removed once.
Removals ==
    \A s \in SR : \A i \in 1..Len(pending[s]) :
        pending[s][i].obj = None => Seen(s, i - 1) # None

VInv == Versions /\ Removals

\* The name is queued, or will be when the versions on their way have arrived.
Awake(s) == s \in queue \/ WakesAfter(s, 0)

\* ... or the worker will be told of the removal of s.
Noticed(s) == s \in queue \/ RemovalPending(s)

\* What every step but Reconcile and Restart does to the stored object of s.
Wakes(s) ==
    /\ Awake(s) => Awake(s)'
    /\ Noticed(s) => Noticed(s)'
    /\ api'[s] # None /\ api'[s].mgmt # "Unmanaged" =>
           Awake(s)' \/ (api[s] # None /\ Same(api'[s], api[s]))
    /\ api'[s] = None => api[s] = None \/ Noticed(s)'

-----------------------------------------------------------------------------
(* Writes and deliveries *)

\* A cache that is not behind has no versions to come.
LEMMA Lengths ==
    ASSUME NEW S, NEW q \in Seq(S)
    PROVE  (q = <<>> <=> Len(q) = 0) /\ (q # <<>> => Len(q) \in Nat \ {0})
  OBVIOUS

\* A write to the API server announces what it changes (client.Create, Update,
\* Delete; the status of a SpecialResource is not part of its generation).
LEMMA StoreWakes ==
    ASSUME StoredOK, VInv, NEW s \in SR, NEW o \in Obj \cup {None}, NEW g \in BOOLEAN,
           Store(s, o, g), cache' = cache, queue \subseteq queue',
           ~g => api[s] # None /\ Same(o, api[s]),
           o = None => api[s] # None
    PROVE  VInv' /\ \A t \in SR : Wakes(t)
<1> DEFINE v == [obj |-> o, newGeneration |-> g]
<1>a. pending[s] \in Seq(Version) /\ v \in Version
  BY DEF StoredOK, Version
<1>b. PICK n \in Nat : n = Len(pending[s])
  BY <1>a
<1>1. pending[s] \in Seq(Version) /\ n = Len(pending[s]) /\ v \in Version
  BY <1>a, <1>b
<1>2. /\ pending'[s] = Append(pending[s], v) /\ api'[s] = o
      /\ \A t \in SR \ {s} : pending'[t] = pending[t] /\ api'[t] = api[t]
  BY DEF StoredOK, Store
<1>3. /\ Len(pending'[s]) = n + 1
      /\ \A i \in 1..n : pending'[s][i] = pending[s][i]
      /\ pending'[s][n + 1] = v
  BY <1>1, <1>2
<1>4. v.obj = o /\ (v.newGeneration <=> g)
  OBVIOUS
<1> HIDE DEF v
<1>5. \A i \in 0..n : /\ QuietAfter(s, i)' <=> QuietAfter(s, i) /\ ~g
                      /\ WakesAfter(s, i) => WakesAfter(s, i)'
                      /\ Seen(s, i)' = Seen(s, i)
                      /\ Waking(v) => WakesAfter(s, i)'
  <2> SUFFICES ASSUME NEW i \in 0..n
               PROVE  /\ QuietAfter(s, i)' <=> QuietAfter(s, i) /\ ~g
                      /\ WakesAfter(s, i) => WakesAfter(s, i)'
                      /\ Seen(s, i)' = Seen(s, i)
                      /\ Waking(v) => WakesAfter(s, i)'
    OBVIOUS
  <2>1. \A j : j \in (i + 1)..(n + 1) <=> j \in (i + 1)..n \/ j = n + 1
    BY <1>1
  <2>2. \A j \in (i + 1)..n : pending'[s][j] = pending[s][j]
    BY <1>1, <1>3
  <2>3. QuietAfter(s, i)' <=> QuietAfter(s, i) /\ ~g
    BY <1>1, <1>3, <1>4, <2>1, <2>2 DEF QuietAfter
  <2>4. (WakesAfter(s, i) => WakesAfter(s, i)') /\ (Waking(v) => WakesAfter(s, i)')
    BY <1>1, <1>3, <2>1, <2>2 DEF WakesAfter
  <2>5. Seen(s, i)' = Seen(s, i)
    BY <1>1, <1>3 DEF Seen
  <2> QED  BY <2>3, <2>4, <2>5
<1>6. /\ Seen(s, n + 1)' = o /\ QuietAfter(s, n + 1)'
      /\ Noticed(s) => Noticed(s)'
      /\ o = None => Noticed(s)'
  <2>1. Seen(s, n + 1)' = o
    BY <1>1, <1>3, <1>4 DEF Seen
  <2>2. QuietAfter(s, n + 1)'
    BY <1>1, <1>3 DEF QuietAfter
  <2>3. \A j \in 1..n : j \in 1..(n + 1) /\ pending'[s][j] = pending[s][j]
    BY <1>1, <1>3
  <2>4. RemovalPending(s) => RemovalPending(s)'
    BY <1>1, <1>3, <2>3 DEF RemovalPending
  <2>5. o = None => RemovalPending(s)'
    BY <1>1, <1>3, <1>4 DEF RemovalPending
  <2> QED  BY <2>1, <2>2, <2>4, <2>5 DEF Noticed
<1>7. ASSUME NEW t \in SR \ {s}
      PROVE  /\ \A i : /\ QuietAfter(t, i)' <=> QuietAfter(t, i)
                       /\ WakesAfter(t, i)' <=> WakesAfter(t, i)
                       /\ Seen(t, i)' = Seen(t, i)
             /\ RemovalPending(t)' <=> RemovalPending(t)
  BY <1>2 DEF QuietAfter, WakesAfter, Seen, RemovalPending
<1>8. Versions'
  <2> SUFFICES ASSUME NEW t \in SR, api'[t] # None, NEW i \in 0..Len(pending'[t])
               PROVE  /\ QuietAfter(t, i)' => Same(Seen(t, i)', api'[t])
                      /\ api'[t].mgmt # "Unmanaged" => QuietAfter(t, i)' \/ WakesAfter(t, i)'
    BY DEF Versions, Same
  <2>1. CASE t # s
    <3>1. /\ QuietAfter(t, i) => Same(Seen(t, i), api[t])
          /\ api[t].mgmt # "Unmanaged" => QuietAfter(t, i) \/ WakesAfter(t, i)
      BY <2>1, <1>2 DEF VInv, Versions
    <3> QED  BY <2>1, <3>1, <1>2, <1>7
  <2>2. CASE t = s /\ i = n + 1
    BY <2>2, <1>2, <1>6 DEF Same
  <2>3. CASE t = s /\ i # n + 1
    <3>1. i \in 0..n
      BY <2>3, <1>1, <1>3
    <3>2. CASE g
      BY <2>3, <3>1, <3>2, <1>2, <1>4, <1>5 DEF Waking
    <3>3. CASE ~g
      <4>1. /\ QuietAfter(s, i) => Same(Seen(s, i), api[s])
            /\ api[s].mgmt # "Unmanaged" => QuietAfter(s, i) \/ WakesAfter(s, i)
        BY <1>1, <3>1, <3>3 DEF VInv, Versions
      <4>2. Same(Seen(s, i), api[s]) => Same(Seen(s, i), o)
        BY <3>3 DEF Same
      <4> QED  BY <2>3, <3>1, <3>3, <4>1, <4>2, <1>2, <1>5 DEF Same
    <3> QED  BY <3>2, <3>3
  <2> QED  BY <2>1, <2>2, <2>3
<1>9. Removals'
  <2> SUFFICES ASSUME NEW t \in SR, NEW i \in 1..Len(pending'[t]), pending'[t][i].obj = None
               PROVE  Seen(t, i - 1)' # None
    BY DEF Removals
  <2>1. CASE t # s
    BY <2>1, <1>2, <1>7 DEF VInv, Removals
  <2>2. CASE t = s /\ i = n + 1
    <3>1. Seen(s, n) = api[s]
      <4>1. CASE n = 0
        <5>1. pending[s] = <<>>
          BY <1>1, <4>1, Lengths
        <5> QED  BY <4>1, <5>1 DEF StoredOK, CacheFollows, Seen
      <4>2. CASE n # 0
        <5>1. pending[s] # <<>>
          BY <1>1, <4>2
        <5> QED  BY <1>1, <4>2, <5>1 DEF StoredOK, CacheFollows, Seen
      <4> QED  BY <4>1, <4>2
    <3>2. o = None /\ n \in 0..n /\ i - 1 = n
      BY <2>2, <1>1, <1>3, <1>4
    <3> QED  BY <2>2, <3>1, <3>2, <1>5
  <2>3. CASE t = s /\ i # n + 1
    <3>1. i \in 1..n /\ i - 1 \in 0..n
      BY <2>3, <1>1, <1>3
    <3>2. Seen(s, i - 1) # None
      BY <1>1, <2>3, <3>1, <1>3 DEF VInv, Removals
    <3> QED  BY <2>3, <3>1, <3>2, <1>5
  <2> QED  BY <2>1, <2>2, <2>3
<1>10. Wakes(s)
  <2>1. (WakesAfter(s, 0) => WakesAfter(s, 0)') /\ (Waking(v) => WakesAfter(s, 0)')
    BY <1>1, <1>5
  <2>2. CASE g
    BY <2>1, <2>2, <1>2, <1>4, <1>6 DEF Wakes, Awake, Waking
  <2>3. CASE ~g
    BY <2>1, <2>3, <1>2, <1>6 DEF Wakes, Awake, Same
  <2> QED  BY <2>2, <2>3
<1>11. ASSUME NEW t \in SR \ {s} PROVE Wakes(t)
  BY <1>2, <1>7 DEF Wakes, Awake, Noticed, Same
<1> QED  BY <1>8, <1>9, <1>10, <1>11 DEF VInv

\* What has been announced stays so while nothing is written and no version arrives.
LEMMA QuietVersions == ASSUME VInv, UNCHANGED <<api, pending, cache>> PROVE VInv'
<1>1. Versions'
  BY DEF VInv, Versions, Seen, Same, QuietAfter, WakesAfter
<1>2. Removals'
  BY DEF VInv, Removals, Seen
<1> QED  BY <1>1, <1>2 DEF VInv

\* Nothing is written and nothing taken off the queue.
LEMMA QuietWakes ==
    ASSUME VInv, UNCHANGED <<api, pending, cache>>, queue \subseteq queue'
    PROVE  VInv' /\ \A t \in SR : Wakes(t)
<1>1. VInv'
  BY QuietVersions
<1>2. ASSUME NEW t \in SR PROVE Wakes(t)
  BY DEF Wakes, Awake, Noticed, WakesAfter, RemovalPending, Same
<1> QED  BY <1>1, <1>2

\* The filter lets through what wakes the worker, and every removal
\* (CreateFunc, UpdateFunc, DeleteFunc).
LEMMA FilterPasses ==
    ASSUME NEW old, NEW v, Waking(v) \/ (v.obj = None /\ old # None)
    PROVE  Passes(old, v)
  BY DEF Passes, Waking, Filtered, EventFilter!CreateFunc, EventFilter!UpdateFunc,
         EventFilter!DeleteFunc, EventFilter!isSpecialResource,
         EventFilter!isSpecialResourceUnmanaged

\* A delivery to the cache queues what was announced.
LEMMA SyncWakes ==
    ASSUME StoredOK, VInv, NEW s \in SR, SyncCache(s)
    PROVE  VInv' /\ \A t \in SR : Wakes(t)
<1>a. pending[s] \in Seq(Version) /\ pending[s] # <<>> /\ api' = api
  BY DEF StoredOK, SyncCache
<1>b. PICK n \in Nat : n = Len(pending[s])
  BY <1>a
<1>1. n \in Nat \ {0} /\ n = Len(pending[s])
  BY <1>a, <1>b, Lengths
<1>2. /\ Len(pending'[s]) = n - 1
      /\ \A i \in 1..(n - 1) : pending'[s][i] = pending[s][i + 1]
      /\ cache'[s] = pending[s][1].obj
      /\ \A t \in SR \ {s} : pending'[t] = pending[t] /\ cache'[t] = cache[t]
      /\ queue' = IF Passes(cache[s], pending[s][1]) THEN queue \cup {s} ELSE queue
  BY <1>a, <1>1 DEF StoredOK, SyncCache
<1>3. \A i \in 0..(n - 1) : /\ QuietAfter(s, i)' <=> QuietAfter(s, i + 1)
                            /\ WakesAfter(s, i)' <=> WakesAfter(s, i + 1)
                            /\ Seen(s, i)' = Seen(s, i + 1)
  <2> SUFFICES ASSUME NEW i \in 0..(n - 1)
               PROVE  /\ QuietAfter(s, i)' <=> QuietAfter(s, i + 1)
                      /\ WakesAfter(s, i)' <=> WakesAfter(s, i + 1)
                      /\ Seen(s, i)' = Seen(s, i + 1)
    OBVIOUS
  <2>1. \A j \in (i + 1)..(n - 1) : pending'[s][j] = pending[s][j + 1] /\ j + 1 \in (i + 2)..n
    BY <1>1, <1>2
  <2>2. \A k \in (i + 2)..n : \E j \in (i + 1)..(n - 1) : pending[s][k] = pending'[s][j]
    <3> SUFFICES ASSUME NEW k \in (i + 2)..n
                 PROVE  \E j \in (i + 1)..(n - 1) : pending[s][k] = pending'[s][j]
      OBVIOUS
    <3>1. k - 1 \in (i + 1)..(n - 1) /\ k = (k - 1) + 1
      BY <1>1
    <3> QED  BY <2>1, <3>1
  <2>3. (i + 1) + 1 = i + 2
    BY <1>1
  <2>4. QuietAfter(s, i)' <=> QuietAfter(s, i + 1)
    BY <1>1, <1>2, <2>1, <2>2, <2>3 DEF QuietAfter
  <2>5. WakesAfter(s, i)' <=> WakesAfter(s, i + 1)
    BY <1>1, <1>2, <2>1, <2>2, <2>3 DEF WakesAfter
  <2>6. Seen(s, i)' = Seen(s, i + 1)
    BY <1>1, <1>2 DEF Seen
  <2> QED  BY <2>4, <2>5, <2>6
<1>4. ASSUME NEW t \in SR \ {s}
      PROVE  /\ \A i : /\ QuietAfter(t, i)' <=> QuietAfter(t, i)
                       /\ WakesAfter(t, i)' <=> WakesAfter(t, i)
                       /\ Seen(t, i)' = Seen(t, i)
             /\ RemovalPending(t)' <=> RemovalPending(t)
  BY <1>2 DEF QuietAfter, WakesAfter, Seen, RemovalPending
<1>5. Versions'
  <2> SUFFICES ASSUME NEW t \in SR, api[t] # None, NEW i \in 0..Len(pending'[t])
               PROVE  /\ QuietAfter(t, i)' => Same(Seen(t, i)', api[t])
                      /\ api[t].mgmt # "Unmanaged" => QuietAfter(t, i)' \/ WakesAfter(t, i)'
    BY <1>a DEF Versions, Same
  <2>1. CASE t # s
    <3>1. /\ QuietAfter(t, i) => Same(Seen(t, i), api[t])
          /\ api[t].mgmt # "Unmanaged" => QuietAfter(t, i) \/ WakesAfter(t, i)
      BY <2>1, <1>2 DEF VInv, Versions
    <3> QED  BY <2>1, <3>1, <1>4
  <2>2. CASE t = s
    <3>1. i \in 0..(n - 1) /\ i + 1 \in 0..n
      BY <2>2, <1>1, <1>2
    <3>2. /\ QuietAfter(s, i + 1) => Same(Seen(s, i + 1), api[s])
          /\ api[s].mgmt # "Unmanaged" => QuietAfter(s, i + 1) \/ WakesAfter(s, i + 1)
      BY <2>2, <3>1, <1>1 DEF VInv, Versions
    <3> QED  BY <2>2, <3>1, <3>2, <1>3
  <2> QED  BY <2>1, <2>2
<1>6. Removals'
  <2> SUFFICES ASSUME NEW t \in SR, NEW i \in 1..Len(pending'[t]), pending'[t][i].obj = None
               PROVE  Seen(t, i - 1)' # None
    BY DEF Removals
  <2>1. CASE t # s
    BY <2>1, <1>2, <1>4 DEF VInv, Removals
  <2>2. CASE t = s
    <3>1. i \in 1..(n - 1) /\ i - 1 \in 0..(n - 1) /\ i + 1 \in 1..n /\ (i + 1) - 1 = (i - 1) + 1
      BY <2>2, <1>1, <1>2
    <3>2. Seen(s, (i + 1) - 1) # None
      BY <2>2, <3>1, <1>1, <1>2 DEF VInv, Removals
    <3> QED  BY <2>2, <3>1, <3>2, <1>3
  <2> QED  BY <2>1, <2>2
<1>7. Wakes(s)
  <2>1. 0 \in 0..(n - 1) /\ (0 + 1) = 1 /\ 1 \in 1..n /\ 1 - 1 = 0
    BY <1>1
  <2>2. WakesAfter(s, 0) => Waking(pending[s][1]) \/ WakesAfter(s, 1)
    BY <1>1 DEF WakesAfter
  <2>3. WakesAfter(s, 1) => WakesAfter(s, 0)'
    BY <2>1, <1>3
  <2>4. Waking(pending[s][1]) => s \in queue'
    BY <1>2, FilterPasses
  <2>5. pending[s][1].obj = None => s \in queue'
    <3>1. pending[s][1].obj = None => Seen(s, 0) # None
      BY <2>1, <1>1 DEF VInv, Removals
    <3> QED  BY <3>1, <1>2, FilterPasses DEF Seen
  <2>6. RemovalPending(s) => pending[s][1].obj = None \/ RemovalPending(s)'
    <3> SUFFICES ASSUME NEW i \in 1..n, pending[s][i].obj = None, i # 1
                 PROVE  RemovalPending(s)'
      BY <1>1 DEF RemovalPending
    <3>1. i - 1 \in 1..(n - 1) /\ (i - 1) + 1 = i
      BY <1>1
    <3>2. i - 1 \in 1..Len(pending'[s]) /\ pending'[s][i - 1] = pending[s][i]
      BY <3>1, <1>2
    <3> QED  BY <3>2 DEF RemovalPending
  <2>7. s \in queue => s \in queue'
    BY <1>2
  <2>8. api'[s] = api[s] /\ (api[s] # None => Same(api'[s], api[s]))
    BY <1>a DEF Same
  <2>9. Awake(s) => Awake(s)'
    BY <2>2, <2>3, <2>4, <2>7 DEF Awake
  <2>10. Noticed(s) => Noticed(s)'
    BY <2>5, <2>6, <2>7 DEF Noticed
  <2> QED  BY <2>8, <2>9, <2>10 DEF Wakes
<1>8. ASSUME NEW t \in SR \ {s} PROVE Wakes(t)
  BY <1>a, <1>2, <1>4 DEF Wakes, Awake, Noticed, Same
<1> QED  BY <1>5, <1>6, <1>7, <1>8 DEF VInv

\* A restart lists every object there is, and the filter lets those through
\* that are not Unmanaged.
LEMMA RestartWakes ==
    ASSUME IInv, Restart
    PROVE  /\ VInv'
           /\ \A t \in SR : api[t] # None /\ api[t].mgmt # "Unmanaged" => t \in queue'
<1>1. \A t \in SR : pending'[t] = <<>> /\ cache'[t] = api'[t]
  BY DEF Restart
<1>2. VInv'
  BY <1>1 DEF VInv, Versions, Removals, Seen, Same, QuietAfter
<1>3. \A t \in SR : api[t] # None /\ api[t].mgmt # "Unmanaged" => t \in queue'
  BY DEF Restart, Filtered, EventFilter!CreateFunc, EventFilter!isSpecialResource,
         EventFilter!isSpecialResourceUnmanaged
<1> QED  BY <1>2, <1>3

\* A status write announces nothing, and there is nothing to announce.
LEMMA StatusWakes ==
    ASSUME IInv, VInv, NEW s \in SR, NEW c, held[s] = "fresh", WriteStatus(s, c),
           cache' = cache, queue \subseteq queue'
    PROVE  VInv' /\ \A t \in SR : Wakes(t)
<1>1. api[s] # None /\ api[s] \in Obj \cup {None} /\ Store(s, api[s], FALSE)
  BY DEF IInv, TypeOK, HeldIsSound, WriteStatus
<1>2. Same(api[s], api[s])
  BY <1>1 DEF Same
<1>3. PICK o \in Obj \cup {None} : o = api[s]
  BY <1>1
<1>4. Store(s, o, FALSE) /\ Same(o, api[s]) /\ o # None
  BY <1>1, <1>2, <1>3
<1> QED  BY <1>1, <1>4, StoredPart, StoreWakes DEF IInv

\* ... whether it succeeds or not.
LEMMA ErroredWakes ==
    ASSUME IInv, VInv, NEW s \in SR, SetAsErrored(s), cache' = cache, queue \subseteq queue'
    PROVE  VInv' /\ \A t \in SR : Wakes(t)
<1>1. CASE held[s] = "fresh"
  BY <1>1, StatusWakes DEF SetAsErrored
<1>2. CASE held[s] # "fresh"
  BY <1>2, QuietWakes DEF SetAsErrored, stored
<1> QED  BY <1>1, <1>2

\* A user's write announces what it changes.
LEMMA UserWriteWakes ==
    ASSUME IInv, VInv, NEW s \in SR, NEW o \in Obj \cup {None}, UserWrite(s, o, TRUE),
           o = None => api[s] # None
    PROVE  VInv' /\ \A t \in SR : Wakes(t)
<1>1. Store(s, o, TRUE) /\ cache' = cache /\ queue' = queue
  BY DEF UserWrite
<1> QED  BY <1>1, StoredPart, StoreWakes DEF IInv

\* Creating, editing and deleting SpecialResources, and deleting their objects.
LEMMA UsersWake == IInv /\ VInv /\ Users => VInv' /\ \A t \in SR : Wakes(t)
<1> SUFFICES ASSUME IInv, VInv, NEW s \in SR,
                    \/ CreateSpecialResource(s) \/ EditSpec(s)
                    \/ DeleteSpecialResource(s) \/ DeleteOwnedObject(s)
             PROVE  VInv' /\ \A t \in SR : Wakes(t)
  BY DEF Users
<1>1. CASE CreateSpecialResource(s)
  <2>1. PICK m \in UserStates, v \in Values :
          UserWrite(s, [mgmt |-> m, deleting |-> FALSE, finalizer |-> FALSE, set |-> v], TRUE)
    BY <1>1 DEF CreateSpecialResource
  <2> DEFINE o == [mgmt |-> m, deleting |-> FALSE, finalizer |-> FALSE, set |-> v]
  <2>2. o \in Obj
    BY SRAssumption DEF Obj, ManagementState
  <2>3. UserWrite(s, o, TRUE)
    BY <2>1
  <2> HIDE DEF o
  <2> QED  BY <2>2, <2>3, UserWriteWakes, NoneAssumption
<1>2. CASE EditSpec(s)
  <2>1. PICK m \in UserStates, v \in Values :
          UserWrite(s, [api[s] EXCEPT !.mgmt = m, !.set = v], TRUE)
    BY <1>2 DEF EditSpec
  <2>2. PICK o : o = [api[s] EXCEPT !.mgmt = m, !.set = v]
    OBVIOUS
  <2>3. api[s] # None /\ api[s] \in Obj
    BY <1>2 DEF EditSpec, IInv, TypeOK
  <2>4. o \in Obj
    BY <2>2, <2>3, SRAssumption DEF Obj, ManagementState
  <2> QED  BY <2>1, <2>2, <2>3, <2>4, UserWriteWakes
<1>3. CASE DeleteSpecialResource(s)
  <2>1. PICK o : o = IF api[s].finalizer THEN [api[s] EXCEPT !.deleting = TRUE] ELSE None
    OBVIOUS
  <2>2. api[s] # None /\ api[s] \in Obj /\ UserWrite(s, o, TRUE)
    BY <1>3, <2>1 DEF DeleteSpecialResource, IInv, TypeOK
  <2>3. o \in Obj \cup {None}
    BY <2>1, <2>2 DEF Obj
  <2> QED  BY <2>2, <2>3, UserWriteWakes
<1>4. CASE DeleteOwnedObject(s)
  BY <1>4, QuietWakes DEF DeleteOwnedObject, stored
<1> QED  BY <1>1, <1>2, <1>3, <1>4

\* Every call of a pass (SpecialResourcesReconcile and what it calls).
LEMMA WorkerWakes == IInv /\ DInv /\ VInv /\ Worker => VInv' /\ \A t \in SR : Wakes(t)
<1> SUFFICES ASSUME IInv, DInv, VInv, Worker PROVE VInv' /\ \A t \in SR : Wakes(t)
  OBVIOUS
<1>1. ASSUME NEW from, NEW to, from # "idle", SetAsProgressing(from, to)
      PROVE  VInv' /\ \A t \in SR : Wakes(t)
  <2>1. wi.main \in SR /\ cache' = cache
    BY <1>1, Busy DEF SetAsProgressing
  <2>2. CASE held[wi.main] = "fresh"
    BY <1>1, <2>1, <2>2, StatusWakes DEF SetAsProgressing
  <2>3. CASE held[wi.main] # "fresh"
    BY <1>1, <2>1, <2>3, QuietWakes DEF SetAsProgressing, Requeue, stored
  <2> QED  BY <2>2, <2>3
<1>2. CASE FinalizeSpecialResource \/ RemoveResources \/ DependenciesDone
  BY <1>2, QuietWakes
     DEF FinalizeSpecialResource, RemoveResources, DependenciesDone, Requeue, stored
<1>3. CASE RemoveFinalizer
  <2>1. wi.main \in SR /\ cache' = cache
    BY <1>3, Busy DEF RemoveFinalizer
  <2>2. CASE held[wi.main] = "fresh"
    <3>1. Store(wi.main, None, TRUE) /\ queue' = queue
      BY <1>3, <2>2 DEF RemoveFinalizer
    <3>2. api[wi.main] # None
      BY <2>1, <2>2 DEF IInv, HeldIsSound
    <3>3. StoredOK
      BY StoredPart DEF IInv
    <3> QED  BY <2>1, <3>1, <3>2, <3>3, StoreWakes
  <2>3. CASE held[wi.main] # "fresh"
    BY <1>3, <2>1, <2>3, QuietWakes DEF RemoveFinalizer, Requeue, stored
  <2> QED  BY <2>2, <2>3
<1>4. ASSUME NEW s \in SR, SetAsErrored(s), Requeue, cache' = cache
      PROVE  VInv' /\ \A t \in SR : Wakes(t)
  BY <1>4, ErroredWakes DEF Requeue
<1>5. ASSUME UNCHANGED <<stored, queue, cache>> PROVE VInv' /\ \A t \in SR : Wakes(t)
  BY <1>5, QuietWakes DEF stored
<1>6. pc # "idle" => wi.main \in SR /\ wi.cur \in SR
  BY Busy
<1>7. CASE LoadChart
  BY <1>4, <1>5, <1>6, <1>7 DEF LoadChart
<1>8. CASE ResolveDependency
  BY <1>4, <1>5, <1>6, <1>8 DEF ResolveDependency
<1>9. CASE CreateSpecialResourceFrom
  <2> DEFINE o == [mgmt |-> "Managed", deleting |-> FALSE, finalizer |-> FALSE, set |-> DefaultSet]
  <2>1. o \in Obj
    BY SRAssumption DEF Obj, ManagementState
  <2>2. cache' = cache /\ queue \subseteq queue'
    BY <1>9 DEF CreateSpecialResourceFrom, Requeue
  <2>3. Dependency \in SR
    <3>1. wi.main \in SR /\ wi.next \in 1..Len(Deps[wi.main]) /\ Deps[wi.main] \in Seq(SR)
      BY <1>9, Busy, SRAssumption DEF CreateSpecialResourceFrom, IInv, WorkerInv
    <3> QED  BY <3>1 DEF Dependency
  <2>4. UNCHANGED <<api, pending>> \/ Store(Dependency, o, TRUE)
    BY <1>9 DEF CreateSpecialResourceFrom
  <2> HIDE DEF o
  <2>5. StoredOK
    BY StoredPart DEF IInv
  <2>6. PICK d \in SR : d = Dependency
    BY <2>3
  <2>7. UNCHANGED <<api, pending>> \/ Store(d, o, TRUE)
    BY <2>4, <2>6
  <2> QED  BY <2>1, <2>2, <2>5, <2>7, StoreWakes, QuietWakes, NoneAssumption
<1>10. CASE AddFinalizer
  <2>1. wi.cur \in SR /\ cache' = cache /\ sr[wi.cur] \in Obj
    BY <1>10, Busy DEF AddFinalizer
  <2>2. CASE ChartFails
    BY <1>4, <2>1, <2>2 DEF ChartFails
  <2>3. CASE UNCHANGED <<stored, queue>>
    BY <1>5, <2>1, <2>3
  <2>4. CASE /\ held[wi.cur] = "fresh"
             /\ Store(wi.cur, [sr[wi.cur] EXCEPT !.finalizer = TRUE],
                      sr[wi.cur].set # api[wi.cur].set)
             /\ queue' = queue
    <3>1. PICK s \in SR : s = wi.cur
      BY <2>1
    <3>2. PICK o, g : o = [sr[s] EXCEPT !.finalizer = TRUE] /\ g = (sr[s].set # api[s].set)
      OBVIOUS
    <3>3. o \in Obj /\ o.mgmt = sr[s].mgmt /\ o.deleting = sr[s].deleting /\ o.set = sr[s].set
      BY <2>1, <3>1, <3>2 DEF Obj
    <3>4. g \in BOOLEAN /\ (~g => sr[s].set = api[s].set)
      BY <3>2
    <3>5. /\ api[s] # None /\ sr[s].mgmt = api[s].mgmt
          /\ sr[s].deleting = api[s].deleting
      BY <2>4, <3>1 DEF DInv, FreshAgrees
    <3>6. o # None /\ (~g => Same(o, api[s]))
      BY <3>3, <3>4, <3>5, NoneAssumption DEF Same
    <3>7. Store(s, o, g)
      BY <2>4, <3>1, <3>2
    <3>8. StoredOK
      BY StoredPart DEF IInv
    <3> QED  BY <2>1, <2>4, <3>3, <3>4, <3>5, <3>6, <3>7, <3>8, StoreWakes
  <2> QED  BY <1>10, <2>2, <2>3, <2>4 DEF AddFinalizer
<1>11. CASE HandleState
  <2>1. CASE held[wi.cur] = "fresh"
    BY <1>6, <1>11, <2>1, StatusWakes DEF HandleState
  <2>2. CASE held[wi.cur] # "fresh"
    BY <1>4, <1>6, <1>11, <2>2 DEF HandleState, ChartFails
  <2> QED  BY <2>1, <2>2
<1>12. CASE ReconcileChart
  BY <1>4, <1>5, <1>6, <1>12 DEF ReconcileChart, ChartDone, ChartFails
<1>13. CASE SetAsReady
  <2>1. CASE held[wi.main] = "fresh"
    BY <1>6, <1>13, <2>1, StatusWakes DEF SetAsReady
  <2>2. CASE held[wi.main] # "fresh"
    BY <1>13, <2>2, QuietWakes DEF SetAsReady, Requeue, stored
  <2> QED  BY <2>1, <2>2
<1> QED  BY <1>1, <1>2, <1>3, <1>7, <1>8, <1>9, <1>10, <1>11, <1>12, <1>13 DEF Worker

-----------------------------------------------------------------------------
(* What is owed to one SpecialResource, and who will see to it *)

\* The pass in progress was started for s and works on s.
Serves(s) == wi.req = s /\ wi.main = s

Installing == {"load", "deps", "create", "chart", "states", "deploy"}

\* The copy the pass works with is one of the stored object, and from the first
\* status write on it has the stored values.
CopyAt(s) ==
    pc # "idle" /\ wi.main = s /\ api[s] # None /\ api[s].mgmt # "Unmanaged" =>
        \/ Awake(s)
        \/ held[s] # "gone" /\ (pc \in Installing => sr[s].set = api[s].set)

\* Removed, but there are objects: unless the latest removal did not see them.
RemovedAt(s) ==
    Active(s, "Removed") /\ s \in Live =>
        \/ Awake(s) \/ s \in objEvents \/ s \in unlisted
        \/ pc = "remove" /\ Serves(s) /\ held[s] # "gone"

\* Deleted, but still stored.
DeletedAt(s) ==
    api[s] # None /\ api[s].deleting /\ api[s].mgmt # "Unmanaged" =>
        \/ Awake(s)
        \/ pc = "markDeleted" /\ Serves(s)
        \/ pc \in {"cleanup", "unfinalize"} /\ Serves(s) /\ sr[s].finalizer

\* Managed, but not installed with the stored values: unless the latest pass
\* dropped an error.
ManagedAt(s) ==
    Active(s, "Managed") /\ deployed[s] # [set |-> api[s].set, owner |-> "live"] =>
        \/ Awake(s) \/ s \in objEvents \/ s \in dropped[s]
        \/ deployed[s] # None /\ deployed[s].owner = "orphan"
        \/ pc = "progress" /\ Serves(s) /\ held[s] # "gone"
        \/ /\ pc \in Installing
           /\ Serves(s) /\ held[s] # "gone" /\ sr[s].set = api[s].set

Owed(s) == RemovedAt(s) /\ DeletedAt(s) /\ ManagedAt(s)

\* A name that is awake owes nothing more.
LEMMA AwakeOwes == ASSUME NEW s \in SR, Awake(s)' PROVE Owed(s)'
  BY DEF Owed, RemovedAt, DeletedAt, ManagedAt

\* Nothing is owed to a SpecialResource that is gone or Unmanaged.
LEMMA GoneOwes ==
    ASSUME NEW s \in SR, api'[s] = None \/ api'[s].mgmt = "Unmanaged"
    PROVE  Owed(s)'
  BY DEF Owed, RemovedAt, DeletedAt, ManagedAt, Active

\* What a step does to the objects of s is notified, and notifications are kept
\* until they are delivered.
Notified(s) ==
    /\ s \in objEvents => s \in objEvents' \/ s \in queue'
    /\ deployed'[s] = deployed[s] \/ s \in objEvents'

\* What a pass has ignored for s is not forgotten.
Kept(s) ==
    /\ s \in unlisted => s \in unlisted'
    /\ s \in dropped[s] => s \in dropped'[s]

\* A step that is not part of the pass for s, or leaves the pass where it is.
LEMMA ElsewhereOwes ==
    ASSUME NEW s \in SR, Owed(s), Wakes(s), Notified(s), Kept(s),
           \/ pc \in {"idle", "ready"} \/ ~Serves(s)
           \/ UNCHANGED <<pc, wi>> /\ sr'[s] = sr[s] /\ (held[s] # "gone" => held'[s] # "gone")
    PROVE  Owed(s)'
<1>1. CASE Awake(s)' \/ api'[s] = None \/ api'[s].mgmt = "Unmanaged"
  BY <1>1, AwakeOwes, GoneOwes
<1>2. CASE ~Awake(s)' /\ api'[s] # None /\ api'[s].mgmt # "Unmanaged"
  <2>1. /\ ~Awake(s) /\ s \notin queue' /\ api[s] # None /\ api'[s].mgmt = api[s].mgmt
        /\ api'[s].deleting = api[s].deleting /\ api'[s].set = api[s].set
    BY <1>2 DEF Wakes, Awake, Same
  <2>2. RemovedAt(s)'
    BY <1>2, <2>1 DEF Owed, RemovedAt, Notified, Kept, Live, Active, Serves
  <2>3. DeletedAt(s)'
    BY <1>2, <2>1 DEF Owed, DeletedAt, Serves
  <2>4. ManagedAt(s)'
    BY <1>2, <2>1 DEF Owed, ManagedAt, Notified, Kept, Active, Serves, Installing
  <2> QED  BY <2>2, <2>3, <2>4 DEF Owed
<1> QED  BY <1>1, <1>2

OInv == \A s \in SR : Owed(s)
CInv == \A s \in SR : CopyAt(s)

\* A step that keeps the copy of the pass, or takes the stored values into it.
LEMMA CopyStays ==
    ASSUME CInv, \A t \in SR : Wakes(t),
           \/ pc' = "idle"
           \/ /\ pc # "idle" /\ wi'.main = wi.main
              /\ \A s \in SR : s = wi.main =>
                    /\ held[s] # "gone" => held'[s] # "gone" \/ api'[s] = None
                    /\ pc' \in Installing => \/ sr'[s].set \in {api[s].set, api'[s].set}
                                             \/ pc \in Installing /\ sr'[s].set = sr[s].set
    PROVE  CInv'
<1> SUFFICES ASSUME NEW s \in SR, pc' # "idle", wi'.main = s, api'[s] # None,
                    api'[s].mgmt # "Unmanaged", ~Awake(s)'
             PROVE  held'[s] # "gone" /\ (pc' \in Installing => sr'[s].set = api'[s].set)
  BY DEF CInv, CopyAt
<1>1. ~Awake(s) /\ api[s] # None /\ api[s].mgmt # "Unmanaged" /\ api'[s].set = api[s].set
  BY DEF Wakes, Same
<1>2. held[s] # "gone" /\ (pc \in Installing => sr[s].set = api[s].set)
  BY <1>1 DEF CInv, CopyAt
<1> QED  BY <1>1, <1>2

\* What users do to the stored objects and to what the operator deployed.
LEMMA UsersOwe ==
    ASSUME IInv, OInv, Users, \A t \in SR : Wakes(t)
    PROVE  OInv'
<1>1. PICK s \in SR : \/ CreateSpecialResource(s) \/ EditSpec(s)
                      \/ DeleteSpecialResource(s) \/ DeleteOwnedObject(s)
  BY DEF Users
<1> SUFFICES ASSUME NEW t \in SR PROVE Owed(t)'
  BY DEF OInv
<1>2. Owed(t) /\ Wakes(t)
  BY DEF OInv
<1>3. CASE DeleteOwnedObject(s)
  <2>1. Notified(t)
    BY <1>3 DEF DeleteOwnedObject, Notified, IInv, TypeOK
  <2>2. UNCHANGED <<pc, wi, sr, held>> /\ Kept(t)
    BY <1>3 DEF DeleteOwnedObject, worker, Kept, lapses
  <2> QED  BY <1>2, <2>1, <2>2, ElsewhereOwes
<1>4. ASSUME NEW o, UserWrite(s, o, TRUE) PROVE Owed(t)'
  <2>1. UNCHANGED <<pc, wi, sr, objEvents, queue>> /\ Kept(t)
    BY <1>4 DEF UserWrite, Kept, lapses
  <2>2. CASE t = s /\ o = None
    <3>1. api'[t] = None
      BY <1>4, <2>2 DEF UserWrite, Store, IInv, TypeOK
    <3> QED  BY <3>1, GoneOwes
  <2>3. CASE t # s \/ o # None
    <3>1. deployed'[t] = deployed[t]
      BY <1>4, <2>3 DEF UserWrite, OrphanIfGone, IInv, TypeOK
    <3>2. held[t] # "gone" => held'[t] # "gone"
      BY <1>4, <2>3 DEF UserWrite, IInv, TypeOK
    <3>3. Notified(t)
      BY <2>1, <3>1 DEF Notified
    <3> QED  BY <1>2, <2>1, <3>2, <3>3, ElsewhereOwes
  <2> QED  BY <2>2, <2>3
<1>5. CASE CreateSpecialResource(s)
  BY <1>4, <1>5 DEF CreateSpecialResource
<1>6. CASE EditSpec(s)
  BY <1>4, <1>6 DEF EditSpec
<1>7. CASE DeleteSpecialResource(s)
  BY <1>4, <1>7 DEF DeleteSpecialResource
<1> QED  BY <1>1, <1>3, <1>5, <1>6, <1>7

\* Deliveries to the cache and to the queue, and the garbage collector.
LEMMA ClusterOwes ==
    ASSUME IInv, OInv, \A t \in SR : Wakes(t), NEW s \in SR,
           SyncCache(s) \/ OwnedObjectEvent(s) \/ GarbageCollect(s)
    PROVE  OInv'
<1> SUFFICES ASSUME NEW t \in SR PROVE Owed(t)'
  BY DEF OInv
<1>1. Owed(t) /\ Wakes(t)
  BY DEF OInv
<1>2. UNCHANGED <<pc, wi, sr, held>> /\ Kept(t)
  BY DEF SyncCache, OwnedObjectEvent, GarbageCollect, worker, Kept, lapses
<1>3. Notified(t)
  BY DEF SyncCache, OwnedObjectEvent, GarbageCollect, cluster, Notified, IInv, TypeOK
<1> QED  BY <1>1, <1>2, <1>3, ElsewhereOwes

\* A restart queues everything that is not Unmanaged.
LEMMA RestartOwes ==
    ASSUME IInv, Restart
    PROVE  OInv'
<1>1. ASSUME NEW t \in SR PROVE Owed(t)'
  <2>1. api' = api
    BY DEF Restart
  <2>2. CASE api[t] = None \/ api[t].mgmt = "Unmanaged"
    BY <2>1, <2>2, GoneOwes
  <2>3. CASE api[t] # None /\ api[t].mgmt # "Unmanaged"
    BY <2>3, RestartWakes, AwakeOwes DEF Awake
  <2> QED  BY <2>2, <2>3
<1> QED  BY <1>1 DEF OInv

\* With nothing new on its way the cached copy is as good as the stored object:
\* the pass takes the branch the stored object asks for.
LEMMA Informed ==
    ASSUME IInv, VInv, NEW s \in SR, ~WakesAfter(s, 0),
           api[s] # None, api[s].mgmt # "Unmanaged"
    PROVE  /\ Same(cache[s], api[s])
           /\ Relation(s) # "gone"
           /\ cache[s].deleting => Branch(cache[s]) = "markDeleted"
           /\ ~cache[s].deleting /\ cache[s].mgmt = "Removed" => Branch(cache[s]) = "remove"
           /\ ~cache[s].deleting /\ cache[s].mgmt = "Managed" => Branch(cache[s]) = "progress"
<1>a. pending[s] \in Seq(Version)
  BY DEF IInv, TypeOK
<1>b. PICK n \in Nat : n = Len(pending[s])
  BY <1>a
<1>1. QuietAfter(s, 0)
  BY <1>b DEF VInv, Versions
<1>2. \A i \in 0..n : Same(Seen(s, i), api[s])
  <2> SUFFICES ASSUME NEW i \in 0..n PROVE Same(Seen(s, i), api[s])
    OBVIOUS
  <2>1. QuietAfter(s, i)
    BY <1>b, <1>1 DEF QuietAfter
  <2> QED  BY <1>b, <2>1 DEF VInv, Versions
<1>3. Same(cache[s], api[s])
  <2>1. 0 \in 0..n
    OBVIOUS
  <2> QED  BY <1>2, <2>1 DEF Seen
<1>4. \A i \in 1..n : pending[s][i].obj # None
  <2> SUFFICES ASSUME NEW i \in 1..n PROVE pending[s][i].obj # None
    OBVIOUS
  <2>1. i \in 0..n /\ i # 0
    OBVIOUS
  <2> QED  BY <1>2, <2>1 DEF Seen, Same
<1>5. Relation(s) # "gone"
  BY <1>b, <1>3, <1>4 DEF Relation, Same
<1>6. cache[s] \in Obj
  BY <1>3 DEF Same, IInv, TypeOK
<1> QED  BY <1>3, <1>5, <1>6 DEF Branch, Obj, ManagementState

\* ... and it serves that object.
LEMMA Started ==
    ASSUME IInv, VInv, NEW n \in SR, Reconcile(n), NEW s \in SR, Target(n) = s,
           ~WakesAfter(s, 0), api[s] # None, api[s].mgmt # "Unmanaged"
    PROVE  /\ wi' = [req |-> n, main |-> s, cur |-> s, next |-> 1]
           /\ held'[s] # "gone"
           /\ api[s].deleting => pc' = "markDeleted"
           /\ Active(s, "Removed") => pc' = "remove"
           /\ Active(s, "Managed") => pc' = "progress"
<1>1. /\ Same(cache[s], api[s]) /\ Relation(s) # "gone"
      /\ cache[s].deleting => Branch(cache[s]) = "markDeleted"
      /\ ~cache[s].deleting /\ cache[s].mgmt = "Removed" => Branch(cache[s]) = "remove"
      /\ ~cache[s].deleting /\ cache[s].mgmt = "Managed" => Branch(cache[s]) = "progress"
  BY Informed
<1>2. cache[s] # None /\ cache[s].mgmt = api[s].mgmt /\ cache[s].deleting = api[s].deleting
  BY <1>1 DEF Same
<1>3. api[s].mgmt \in {"Managed", "Removed"}
  BY DEF IInv, TypeOK, Obj, ManagementState
<1>4. s # None /\ Branch(cache[s]) # "idle"
  BY <1>1, <1>2, <1>3, SRAssumption
<1>5. /\ pc' = Branch(cache[s])
      /\ wi' = [req |-> n, main |-> s, cur |-> s, next |-> 1]
      /\ held' = [t \in SR |-> IF t \in Family(s) THEN Relation(t) ELSE "gone"]
  BY <1>2, <1>4 DEF Reconcile
<1>6. held'[s] = Relation(s)
  BY <1>5 DEF Family
<1> QED  BY <1>1, <1>2, <1>5, <1>6 DEF Active

\* Taking a request: the pass takes over from the queue.
LEMMA ReconcileOwes ==
    ASSUME IInv, VInv, OInv, NEW n \in SR, Reconcile(n)
    PROVE  OInv'
<1> SUFFICES ASSUME NEW s \in SR PROVE Owed(s)'
  BY DEF OInv
<1>1. /\ pc = "idle" /\ queue' = queue \ {n}
      /\ UNCHANGED <<api, pending, cache, deployed, objEvents, unlisted, dropped>>
  BY DEF Reconcile, stored, cluster
<1>2. WakesAfter(s, 0)' <=> WakesAfter(s, 0)
  BY <1>1 DEF WakesAfter
<1>3. CASE s # n
  <2>1. Awake(s)' <=> Awake(s)
    BY <1>1, <1>2, <1>3 DEF Awake
  <2>2. CASE Awake(s)'
    BY <2>2, AwakeOwes
  <2>3. CASE ~Awake(s)'
    BY <1>1, <2>1, <2>3 DEF OInv, Owed, RemovedAt, DeletedAt, ManagedAt, Active, Live, Installing
  <2> QED  BY <2>2, <2>3
<1>4. CASE s = n /\ (WakesAfter(s, 0) \/ api[s] = None \/ api[s].mgmt = "Unmanaged")
  BY <1>1, <1>2, <1>4, AwakeOwes, GoneOwes DEF Awake
<1>5. CASE s = n /\ ~WakesAfter(s, 0) /\ api[s] # None /\ api[s].mgmt # "Unmanaged"
  <2>1. Target(n) = s
    <3>1. cache[s] # None
      BY <1>5, Informed DEF Same
    <3> QED  BY <1>5, <3>1 DEF Target
  <2>2. /\ wi' = [req |-> n, main |-> s, cur |-> s, next |-> 1]
        /\ held'[s] # "gone"
        /\ api[s].deleting => pc' = "markDeleted"
        /\ Active(s, "Removed") => pc' = "remove"
        /\ Active(s, "Managed") => pc' = "progress"
    BY <1>5, <2>1, Started
  <2>3. Serves(s)'
    BY <1>5, <2>2 DEF Serves
  <2>4. /\ Active(s, "Removed")' <=> Active(s, "Removed")
        /\ Active(s, "Managed")' <=> Active(s, "Managed")
    BY <1>1 DEF Active
  <2> QED  BY <1>1, <2>2, <2>3, <2>4 DEF Owed, RemovedAt, DeletedAt, ManagedAt
<1> QED  BY <1>3, <1>4, <1>5

\* A pass that puts its request back owes nothing.
LEMMA RequeueOwes ==
    ASSUME OInv, Requeue, \A t \in SR : Wakes(t) /\ Notified(t) /\ Kept(t)
    PROVE  OInv'
<1> SUFFICES ASSUME NEW t \in SR PROVE Owed(t)'
  BY DEF OInv
<1>1. CASE t = wi.req
  BY <1>1, AwakeOwes DEF Requeue, Awake
<1>2. CASE t # wi.req
  BY <1>2, ElsewhereOwes DEF OInv, Serves
<1> QED  BY <1>1, <1>2

\* A step of the pass has to be looked at for the SpecialResource it serves, and
\* for the one whose failures it makes good.
LEMMA PassOwes ==
    ASSUME OInv, \A t \in SR : Wakes(t), \A t \in SR : Notified(t) \/ api'[t] = None,
           \A s \in SR : (Serves(s) \/ ~Kept(s)) /\ ~Awake(s) /\ ~Awake(s)' /\ api'[s] # None
                             => Owed(s)'
    PROVE  OInv'
<1> SUFFICES ASSUME NEW t \in SR PROVE Owed(t)'
  BY DEF OInv
<1>1. CASE (Serves(t) \/ ~Kept(t)) /\ ~Awake(t)' /\ api'[t] # None
  BY <1>1 DEF Wakes
<1>2. CASE ~Serves(t) /\ Kept(t) /\ Notified(t)
  BY <1>2, ElsewhereOwes DEF OInv
<1>3. CASE Awake(t)' \/ api'[t] = None
  BY <1>3, AwakeOwes, GoneOwes
<1> QED  BY <1>1, <1>2, <1>3

\* Deletion: the deleted object keeps its finalizer until the pass removes it.
LEMMA DeletionOwes ==
    ASSUME IInv, DInv, OInv, \A t \in SR : Wakes(t),
           \/ SetAsProgressing("markDeleted", "cleanup")
           \/ FinalizeSpecialResource
           \/ RemoveFinalizer
    PROVE  OInv'
<1>0. UNCHANGED <<unlisted, dropped>> /\ \A t \in SR : Kept(t)
  BY DEF SetAsProgressing, FinalizeSpecialResource, RemoveFinalizer, Kept, lapses
<1>1. CASE SetAsProgressing("markDeleted", "cleanup")
  <2>1. /\ pc = "markDeleted" /\ wi.main \in SR
        /\ UNCHANGED <<deployed, objEvents>>
    BY <1>1, Busy DEF SetAsProgressing, cluster
  <2>2. \A t \in SR : Notified(t)
    BY <2>1 DEF Notified
  <2>3. CASE held[wi.main] = "fresh"
    <3>1. /\ WriteStatus(wi.main, "Progressing")
          /\ pc' = "cleanup" /\ sr' = [sr EXCEPT ![wi.main] = api[wi.main]]
          /\ UNCHANGED <<queue, wi, held>>
      BY <1>1, <2>3 DEF SetAsProgressing
    <3>2. api' = api
      BY <2>1, <3>1, StatusStores
    <3>3. ASSUME NEW s \in SR, Serves(s), ~Awake(s) PROVE Owed(s)'
      <4>1. sr'[s] = api[s]
        BY <3>1, <3>3 DEF Serves, IInv, TypeOK
      <4>2. api[s] # None /\ api[s].deleting => sr'[s].finalizer
        BY <4>1 DEF DInv, DeletingIsClaimed
      <4>3. Serves(s)'
        BY <3>1, <3>3 DEF Serves
      <4>4. DeletedAt(s)'
        BY <3>1, <3>2, <4>2, <4>3 DEF DeletedAt
      <4>5. RemovedAt(s)' /\ ManagedAt(s)'
        BY <1>0, <2>1, <3>2, <3>3 DEF OInv, Owed, RemovedAt, ManagedAt, Live, Active, Installing
      <4> QED  BY <4>4, <4>5 DEF Owed
    <3> QED  BY <1>0, <2>2, <3>3, PassOwes
  <2>4. CASE held[wi.main] # "fresh"
    BY <1>0, <1>1, <2>2, <2>4, RequeueOwes DEF SetAsProgressing
  <2> QED  BY <2>3, <2>4
<1>2. CASE FinalizeSpecialResource
  <2>1. /\ pc = "cleanup" /\ UNCHANGED <<api, deployed, objEvents>>
    BY <1>2 DEF FinalizeSpecialResource, stored
  <2>2. \A t \in SR : Notified(t)
    BY <2>1 DEF Notified
  <2>3. CASE Requeue
    BY <1>0, <2>2, <2>3, RequeueOwes
  <2>4. CASE \/ ~sr[wi.main].finalizer
             \/ pc' = "unfinalize" /\ UNCHANGED <<queue, wi, sr, held>>
    <3>1. ASSUME NEW s \in SR, Serves(s), ~Awake(s) PROVE Owed(s)'
      <4>1. DeletedAt(s)'
        BY <2>1, <2>4, <3>1 DEF OInv, Owed, DeletedAt, Serves
      <4>2. RemovedAt(s)' /\ ManagedAt(s)'
        BY <1>0, <2>1, <3>1 DEF OInv, Owed, RemovedAt, ManagedAt, Live, Active, Installing
      <4> QED  BY <4>1, <4>2 DEF Owed
    <3> QED  BY <1>0, <2>2, <3>1, PassOwes
  <2> QED  BY <1>2, <2>3, <2>4 DEF FinalizeSpecialResource
<1>3. CASE RemoveFinalizer
  <2>1. pc = "unfinalize" /\ wi.main \in SR /\ objEvents' = objEvents
    BY <1>3, Busy DEF RemoveFinalizer
  <2>2. CASE held[wi.main] = "fresh"
    <3>1. api'[wi.main] = None /\ \A t \in SR \ {wi.main} : deployed'[t] = deployed[t]
      BY <1>3, <2>1, <2>2 DEF RemoveFinalizer, Store, OrphanIfGone, IInv, TypeOK
    <3>2. \A t \in SR : Notified(t) \/ api'[t] = None
      BY <2>1, <3>1 DEF Notified
    <3> QED  BY <1>0, <3>1, <3>2, PassOwes DEF Serves
  <2>3. CASE held[wi.main] # "fresh"
    BY <1>0, <1>3, <2>1, <2>3, RequeueOwes DEF RemoveFinalizer, Notified
  <2> QED  BY <2>2, <2>3
<1> QED  BY <1>1, <1>2, <1>3

\* Removal: what the stored SpecialResource owns is deleted, or the request is
\* put back, or its kind was not listed.
LEMMA RemovalOwes ==
    ASSUME IInv, OInv, CInv, \A t \in SR : Wakes(t), RemoveResources
    PROVE  OInv'
<1>1. pc = "remove" /\ wi.main \in SR /\ UNCHANGED <<api, dropped>>
  BY Busy DEF RemoveResources, stored
<1>2. \A t \in SR : Notified(t)
  BY <1>1 DEF RemoveResources, Notified, IInv, TypeOK
<1>3. CASE Requeue /\ unlisted' = unlisted
  BY <1>1, <1>2, <1>3, RequeueOwes DEF Kept
<1>4. CASE /\ IF held[wi.main] # "gone" /\ deployed[wi.main] # None
                 /\ deployed[wi.main].owner = "live"
              THEN /\ deployed' = [deployed EXCEPT ![wi.main] = None]
                   /\ objEvents' = objEvents \cup {wi.main}
              ELSE UNCHANGED <<deployed, objEvents>>
           /\ unlisted' = unlisted \ {wi.main}
  <2>1. ASSUME NEW s \in SR, Serves(s) \/ ~Kept(s), ~Awake(s) PROVE Owed(s)'
    <3>0. s = wi.main
      BY <1>1, <1>4, <2>1 DEF Serves, Kept
    <3>1. \/ s \in objEvents'
          \/ /\ UNCHANGED <<deployed, objEvents>>
             /\ held[s] = "gone" \/ s \notin Live
      BY <1>4, <3>0 DEF Live
    <3>2. Active(s, "Removed") => held[s] # "gone"
      BY <1>1, <2>1, <3>0 DEF CInv, CopyAt, Active
    <3>3. RemovedAt(s)'
      BY <1>1, <3>1, <3>2 DEF RemovedAt, Live, Active
    <3>4. DeletedAt(s)' /\ ManagedAt(s)'
      BY <1>1, <2>1, <3>1 DEF OInv, Owed, DeletedAt, ManagedAt, Active, Installing
    <3> QED  BY <3>3, <3>4 DEF Owed
  <2> QED  BY <1>2, <2>1, PassOwes
<1>5. CASE /\ unlisted' = unlisted \cup {wi.main}
           /\ UNCHANGED deployed /\ objEvents \subseteq objEvents'
  <2>1. \A t \in SR : Kept(t)
    BY <1>1, <1>5 DEF Kept
  <2>2. ASSUME NEW s \in SR, Serves(s), ~Awake(s) PROVE Owed(s)'
    <3>1. RemovedAt(s)'
      BY <1>5, <2>2 DEF RemovedAt, Serves
    <3>2. DeletedAt(s)' /\ ManagedAt(s)'
      BY <1>1, <1>5, <2>2 DEF OInv, Owed, DeletedAt, ManagedAt, Active, Installing
    <3> QED  BY <3>1, <3>2 DEF Owed
  <2> QED  BY <1>2, <2>1, <2>2, PassOwes
<1> QED  BY <1>3, <1>4, <1>5 DEF RemoveResources

\* A step on the way to the installation of the main chart keeps its values the
\* stored ones, or the worker is woken again.
LEMMA InstallingOwes ==
    ASSUME IInv, OInv, \A t \in SR : Wakes(t), \A t \in SR : Notified(t) /\ Kept(t),
           pc \in Installing \cup {"progress"}, pc' \in Installing,
           wi'.req = wi.req, wi'.main = wi.main, held' = held,
           \A t \in SR : Serves(t) =>
               /\ deployed'[t] = deployed[t]
               /\ \/ sr'[t].set = api[t].set
                  \/ pc # "progress" /\ sr'[t].set = sr[t].set
    PROVE  OInv'
<1>1. ASSUME NEW s \in SR, Serves(s), ~Awake(s), ~Awake(s)', api'[s] # None PROVE Owed(s)'
  <2>1. CASE api'[s].mgmt = "Unmanaged"
    BY <2>1, GoneOwes
  <2>2. CASE api'[s].mgmt # "Unmanaged"
    <3>1. /\ api[s] # None /\ api'[s].mgmt = api[s].mgmt
          /\ api'[s].deleting = api[s].deleting /\ api'[s].set = api[s].set
      BY <1>1, <2>2 DEF Wakes, Same
    <3>2. deployed'[s] = deployed[s] /\ (s \in objEvents => s \in objEvents')
      BY <1>1 DEF Notified, Awake
    <3>3. RemovedAt(s)'
      BY <1>1, <3>1, <3>2 DEF OInv, Owed, RemovedAt, Kept, Live, Active, Installing
    <3>4. DeletedAt(s)'
      BY <1>1, <3>1 DEF OInv, Owed, DeletedAt, Installing
    <3>5. Serves(s)'
      BY <1>1 DEF Serves
    <3>6. ManagedAt(s)'
      BY <1>1, <3>1, <3>2, <3>5 DEF OInv, Owed, ManagedAt, Kept, Active, Installing
    <3> QED  BY <3>3, <3>4, <3>6 DEF Owed
  <2> QED  BY <2>1, <2>2
<1> QED  BY <1>1, PassOwes

\* The pass of a managed SpecialResource up to its chart.
LEMMA DependenciesOwe ==
    ASSUME IInv, DInv, OInv, \A t \in SR : Wakes(t),
           \/ SetAsProgressing("progress", "load")
           \/ LoadChart \/ ResolveDependency \/ CreateSpecialResourceFrom \/ DependenciesDone
    PROVE  OInv'
<1>1. UNCHANGED <<deployed, objEvents>> /\ pc # "idle"
  BY DEF SetAsProgressing, LoadChart, ResolveDependency, CreateSpecialResourceFrom,
         DependenciesDone, cluster
<1>2. \A t \in SR : Notified(t) /\ Kept(t)
  BY <1>1 DEF Notified, Kept, SetAsProgressing, LoadChart, ResolveDependency,
              CreateSpecialResourceFrom, DependenciesDone, lapses
<1>3. CASE Requeue
  BY <1>2, <1>3, RequeueOwes
<1>4. CASE SetAsProgressing("progress", "load") /\ held[wi.main] = "fresh"
  <2>1. /\ pc = "progress" /\ pc' = "load" /\ UNCHANGED <<wi, held>>
        /\ sr' = [sr EXCEPT ![wi.main] = api[wi.main]]
    BY <1>4 DEF SetAsProgressing
  <2>2. \A t \in SR : Serves(t) => sr'[t] = api[t]
    BY <2>1 DEF Serves, IInv, TypeOK
  <2> QED  BY <1>1, <1>2, <2>1, <2>2, InstallingOwes DEF Installing
<1>5. CASE LoadChart /\ pc' = "deps" /\ UNCHANGED <<wi, sr, held>>
  BY <1>1, <1>2, <1>5, InstallingOwes DEF Installing, LoadChart
<1>6. CASE ResolveDependency /\ ~Requeue
  <2>1. /\ pc = "deps" /\ pc' \in {"create", "chart"} /\ held' = held
        /\ wi' = wi \/ wi' = [wi EXCEPT !.cur = Dependency]
        /\ sr' = sr \/ sr' = [sr EXCEPT ![Dependency].set = sr[wi.main].set]
    BY <1>6 DEF ResolveDependency
  <2>2. wi'.req = wi.req /\ wi'.main = wi.main
    BY <2>1 DEF IInv, TypeOK
  <2>3. Dependency # wi.main
    <3>1. wi.main \in SR /\ wi.next \in 1..Len(Deps[wi.main])
      <4>1. wi.main \in SR /\ wi.next \in Nat \ {0} /\ Deps[wi.main] \in Seq(SR)
        BY <1>1, Busy, SRAssumption
      <4> QED  BY <1>6, <4>1 DEF ResolveDependency
    <3> QED  BY <3>1, SRAssumption DEF Dependency
  <2>4. \A t \in SR : Serves(t) => sr'[t] = sr[t]
    BY <2>1, <2>3 DEF Serves, IInv, TypeOK
  <2> QED  BY <1>1, <1>2, <2>1, <2>2, <2>4, InstallingOwes DEF Installing
<1>7. CASE DependenciesDone
  <2>1. /\ pc = "deps" /\ pc' = "chart" /\ UNCHANGED <<sr, held>>
        /\ wi' = [wi EXCEPT !.cur = wi.main]
    BY <1>7 DEF DependenciesDone
  <2>2. wi'.req = wi.req /\ wi'.main = wi.main
    BY <2>1 DEF IInv, TypeOK
  <2> QED  BY <1>1, <1>2, <2>1, <2>2, InstallingOwes DEF Installing
<1>8. \/ Requeue
      \/ SetAsProgressing("progress", "load") /\ held[wi.main] = "fresh"
      \/ LoadChart /\ pc' = "deps" /\ UNCHANGED <<wi, sr, held>>
      \/ ResolveDependency /\ ~Requeue
      \/ DependenciesDone
  BY DEF SetAsProgressing, LoadChart, CreateSpecialResourceFrom
<1> QED  BY <1>3, <1>4, <1>5, <1>6, <1>7, <1>8

\* A chart: its finalizer, its state label, its objects, and the final status.
LEMMA ChartOwes ==
    ASSUME IInv, DInv, OInv, CInv, \A t \in SR : Wakes(t),
           AddFinalizer \/ HandleState \/ ReconcileChart \/ SetAsReady
    PROVE  OInv'
<1>1. pc # "idle" /\ wi.main \in SR /\ wi.cur \in SR /\ sr[wi.cur] \in Obj
  BY Busy DEF AddFinalizer, HandleState, ReconcileChart, SetAsReady
<1>2. \A t \in SR : Notified(t)
  <2>1. (UNCHANGED deployed /\ objEvents \subseteq objEvents') \/ Install
    BY DEF AddFinalizer, HandleState, ReconcileChart, SetAsReady, cluster
  <2> QED  BY <1>1, <2>1 DEF Install, Notified, IInv, TypeOK
<1>a. unlisted' = unlisted /\ (dropped' = dropped \/ (ReconcileChart /\ ~Requeue))
  <2>1. Requeue => pc' = "idle"
    BY DEF Requeue, Done
  <2> QED  BY <2>1 DEF AddFinalizer, HandleState, ReconcileChart, ChartDone, ChartFails, SetAsReady, lapses
<1>b. \A t \in SR : dropped' = dropped => Kept(t)
  BY <1>a DEF Kept
<1>3. CASE Requeue
  BY <1>2, <1>3, <1>a, <1>b, RequeueOwes
<1>4. CASE AddFinalizer /\ ~Requeue
  <2>1. /\ pc = "chart" /\ pc' \in {"states", "deploy"} /\ UNCHANGED <<wi, held, deployed>>
        /\ sr' = sr \/ sr' = [sr EXCEPT ![wi.cur].finalizer = TRUE]
    BY <1>4 DEF AddFinalizer, AfterFinalizer, ChartFails, cluster
  <2>2. \A t \in SR : Serves(t) => sr'[t].set = sr[t].set
    <3>1. [sr[wi.cur] EXCEPT !.finalizer = TRUE].set = sr[wi.cur].set
      BY <1>1 DEF Obj
    <3> QED  BY <1>1, <2>1, <3>1 DEF IInv, TypeOK
  <2>3. dropped' = dropped
    BY <2>1 DEF ReconcileChart, AddFinalizer, HandleState, SetAsReady, lapses
  <2> QED  BY <1>2, <1>b, <2>1, <2>2, <2>3, InstallingOwes DEF Installing
<1>5. CASE HandleState /\ ~Requeue
  <2>1. /\ pc = "states" /\ pc' = "deploy" /\ UNCHANGED <<wi, held, deployed>>
        /\ sr' = [sr EXCEPT ![wi.cur] = api[wi.cur]]
    BY <1>5 DEF HandleState, ChartFails, cluster
  <2>2. \A t \in SR : sr'[t] = sr[t] \/ sr'[t] = api[t]
    BY <1>1, <2>1 DEF IInv, TypeOK
  <2>3. dropped' = dropped
    BY <2>1 DEF ReconcileChart, AddFinalizer, HandleState, SetAsReady, lapses
  <2> QED  BY <1>2, <1>b, <2>1, <2>2, <2>3, InstallingOwes DEF Installing
<1>6. CASE ReconcileChart /\ ~Requeue
  <2>1. /\ pc = "deploy" /\ UNCHANGED <<api, queue, sr, held>>
        /\ IF wi.cur = wi.main THEN pc' = "ready" /\ UNCHANGED wi
           ELSE pc' = "deps" /\ wi' = [wi EXCEPT !.next = wi.next + 1]
        /\ \/ Install /\ dropped' = [dropped EXCEPT ![wi.main] = @ \ {wi.cur}]
           \/ /\ Install \/ (deployed' = deployed /\ objEvents \subseteq objEvents')
              /\ dropped' = [dropped EXCEPT ![wi.main] = @ \cup {wi.cur}]
    BY <1>6 DEF ReconcileChart, ChartDone, ChartFails, stored
  <2>a. \A t \in SR : t # wi.main \/ wi.cur # wi.main => Kept(t)
    BY <1>1, <1>a, <2>1 DEF Kept, IInv, TypeOK
  <2>2. CASE wi.cur # wi.main
    <3>1. pc' = "deps" /\ wi' = [wi EXCEPT !.next = wi.next + 1]
      BY <2>1, <2>2
    <3>2. wi'.req = wi.req /\ wi'.main = wi.main
      BY <3>1 DEF IInv, TypeOK
    <3>3. \A t \in SR : Serves(t) => deployed'[t] = deployed[t]
      BY <2>1, <2>2 DEF Serves, Install, IInv, TypeOK
    <3> QED  BY <1>2, <2>1, <2>2, <2>a, <3>1, <3>2, <3>3, InstallingOwes DEF Installing
  <2>3. CASE wi.cur = wi.main
    <3>1. ASSUME NEW s \in SR, Serves(s) \/ ~Kept(s), ~Awake(s), ~Awake(s)', api'[s] # None
          PROVE  Owed(s)'
      <4>0. s = wi.main
        BY <2>a, <3>1 DEF Serves
      <4>1. /\ \/ s \in dropped'[s]
               \/ deployed'[s] = [set |-> sr[s].set, owner |-> IF held[s] = "gone" THEN "orphan" ELSE "live"]
            /\ deployed'[s] = deployed[s] \/ s \in objEvents'
            /\ s \in objEvents => s \in objEvents'
        BY <2>1, <2>3, <4>0 DEF Install, Installed, IInv, TypeOK
      <4>2. RemovedAt(s)' /\ DeletedAt(s)'
        BY <1>a, <2>1, <3>1, <4>1 DEF OInv, Owed, RemovedAt, DeletedAt, Live, Active
      <4>3. Active(s, "Managed") => held[s] # "gone" /\ sr[s].set = api[s].set
        BY <2>1, <3>1, <4>0 DEF CInv, CopyAt, Active, Installing
      <4>4. ManagedAt(s)'
        BY <2>1, <4>1, <4>3 DEF ManagedAt, Active
      <4> QED  BY <4>2, <4>4 DEF Owed
    <3> QED  BY <1>2, <3>1, PassOwes
  <2> QED  BY <2>2, <2>3
<1>7. CASE SetAsReady
  <2>1. pc = "ready" /\ dropped' = dropped
    BY <1>7 DEF SetAsReady, lapses
  <2> QED  BY <1>2, <1>b, <2>1, ElsewhereOwes DEF OInv
<1> QED  BY <1>3, <1>4, <1>5, <1>6, <1>7

-----------------------------------------------------------------------------
(* At rest *)

\* Every step keeps what is announced and what is owed.
LEMMA RestInductive == IInv /\ DInv /\ VInv /\ CInv /\ OInv /\ [Next]_vars => VInv' /\ OInv'
<1> SUFFICES ASSUME IInv, DInv, VInv, CInv, OInv, [Next]_vars PROVE VInv' /\ OInv'
  OBVIOUS
<1>1. CASE Worker
  <2>1. VInv' /\ \A t \in SR : Wakes(t)
    BY <1>1, WorkerWakes
  <2> QED  BY <1>1, <2>1, DeletionOwes, RemovalOwes, DependenciesOwe, ChartOwes DEF Worker
<1>2. ASSUME NEW s \in SR, SyncCache(s) \/ OwnedObjectEvent(s) \/ GarbageCollect(s)
      PROVE  VInv' /\ OInv'
  <2>1. StoredOK
    BY StoredPart DEF IInv
  <2>2. VInv' /\ \A t \in SR : Wakes(t)
    BY <1>2, <2>1, SyncWakes, QuietWakes DEF OwnedObjectEvent, GarbageCollect, stored
  <2> QED  BY <1>2, <2>2, ClusterOwes
<1>3. ASSUME NEW s \in SR, Reconcile(s) PROVE VInv' /\ OInv'
  <2>1. UNCHANGED <<api, pending, cache>>
    BY <1>3 DEF Reconcile, stored
  <2>2. VInv'
    BY <2>1, QuietVersions
  <2> QED  BY <1>3, <2>2, ReconcileOwes
<1>4. CASE Users
  BY <1>4, UsersWake, UsersOwe
<1>5. CASE Restart
  BY <1>5, RestartWakes, RestartOwes
<1>6. CASE SyncConfigMap \/ UNCHANGED vars
  <2>1. VInv' /\ \A t \in SR : Wakes(t)
    BY <1>6, QuietWakes DEF SyncConfigMap, vars, stored
  <2>2. ASSUME NEW t \in SR PROVE Owed(t)'
    <3>1. UNCHANGED <<cluster, worker, lapses>>
      BY <1>6 DEF SyncConfigMap, vars
    <3>2. Notified(t) /\ Kept(t)
      BY <3>1 DEF cluster, lapses, Notified, Kept
    <3> QED  BY <2>1, <3>1, <3>2, ElsewhereOwes DEF worker, OInv
  <2> QED  BY <2>1, <2>2 DEF OInv
<1> QED  BY <1>1, <1>2, <1>3, <1>4, <1>5, <1>6 DEF Next

\* Every step keeps the copy of the pass as good as the stored object.
LEMMA CopyInductive == IInv /\ DInv /\ VInv /\ CInv /\ [Next]_vars => CInv'
<1> SUFFICES ASSUME IInv, DInv, VInv, CInv, [Next]_vars PROVE CInv'
  OBVIOUS
<1>1. ASSUME pc' = "idle", Worker PROVE CInv'
  BY <1>1, WorkerWakes, CopyStays
<1>2. ASSUME Worker, wi'.main = wi.main, held' = held,
             \A s \in SR : s = wi.main =>
                 \/ pc' \notin Installing
                 \/ sr'[s].set \in {api[s].set, api'[s].set}
                 \/ pc \in Installing /\ sr'[s].set = sr[s].set
      PROVE  CInv'
  <2>1. pc # "idle"
    BY <1>2 DEF Worker, SetAsProgressing, FinalizeSpecialResource, RemoveFinalizer, RemoveResources,
         LoadChart, ResolveDependency, CreateSpecialResourceFrom, DependenciesDone,
         AddFinalizer, HandleState, ReconcileChart, SetAsReady
  <2>2. \A t \in SR : Wakes(t)
    BY <1>2, WorkerWakes
  <2> QED  BY <1>2, <2>1, <2>2, CopyStays
<1>3. CASE Worker
  <2>0. /\ pc # "idle" => wi.main \in SR /\ wi.cur \in SR /\ sr[wi.cur] \in Obj
        /\ sr \in [SR -> Obj \cup {None}]
        /\ wi \in [req : SR \cup {None}, main : SR \cup {None}, cur : SR \cup {None}, next : Nat \ {0}]
    BY Busy DEF IInv, TypeOK
  <2>1. CASE Done
    BY <1>1, <1>3, <2>1 DEF Done
  <2>2. CASE SetAsProgressing("markDeleted", "cleanup") /\ ~Done
    BY <1>2, <1>3, <2>2 DEF SetAsProgressing, Requeue, Installing
  <2>3. CASE FinalizeSpecialResource /\ ~Done
    BY <1>2, <1>3, <2>3 DEF FinalizeSpecialResource, Requeue, Installing
  <2>4. CASE SetAsProgressing("progress", "load") /\ ~Done
    <3>1. /\ pc = "progress" /\ UNCHANGED <<wi, held>>
          /\ sr' = [sr EXCEPT ![wi.main] = api[wi.main]]
      BY <2>4 DEF SetAsProgressing, Requeue
    <3>2. \A s \in SR : s = wi.main => sr'[s].set = api[s].set
      BY <2>0, <3>1
    <3> QED  BY <1>2, <1>3, <3>1, <3>2
  <2>5. CASE LoadChart /\ ~Done
    BY <1>2, <1>3, <2>5 DEF LoadChart, Requeue, Installing
  <2>6. CASE ResolveDependency /\ ~Done
    <3>1. /\ pc = "deps" /\ wi.next <= Len(Deps[wi.main]) /\ held' = held
          /\ wi' = wi \/ wi' = [wi EXCEPT !.cur = Dependency]
          /\ sr' = sr \/ sr' = [sr EXCEPT ![Dependency].set = sr[wi.main].set]
      BY <2>6 DEF ResolveDependency, Requeue
    <3>2. Dependency # wi.main
      <4>1. wi.main \in SR /\ wi.next \in Nat \ {0} /\ Deps[wi.main] \in Seq(SR)
        BY <3>1, Busy, SRAssumption
      <4>2. wi.next \in 1..Len(Deps[wi.main])
        BY <3>1, <4>1
      <4> QED  BY <4>1, <4>2, SRAssumption DEF Dependency
    <3>3. wi'.main = wi.main
      BY <2>0, <3>1
    <3>4. \A s \in SR : s = wi.main => sr'[s] = sr[s]
      BY <2>0, <3>1, <3>2
    <3> QED  BY <1>2, <1>3, <3>1, <3>3, <3>4 DEF Installing
  <2>7. CASE DependenciesDone
    <3>1. wi' = [wi EXCEPT !.cur = wi.main] /\ UNCHANGED <<sr, held>> /\ pc = "deps"
      BY <2>7 DEF DependenciesDone
    <3>2. wi'.main = wi.main
      BY <2>0, <3>1
    <3> QED  BY <1>2, <1>3, <3>1, <3>2 DEF Installing
  <2>8. CASE AddFinalizer /\ ~Done
    <3>1. /\ pc = "chart" /\ UNCHANGED <<wi, held>>
          /\ sr' = sr \/ sr' = [sr EXCEPT ![wi.cur].finalizer = TRUE]
      BY <2>8 DEF AddFinalizer, ChartFails, Requeue
    <3>2. [sr[wi.cur] EXCEPT !.finalizer = TRUE].set = sr[wi.cur].set
      BY <2>0, <3>1 DEF Obj
    <3>3. \A s \in SR : sr'[s].set = sr[s].set
      BY <2>0, <3>1, <3>2
    <3> QED  BY <1>2, <1>3, <3>1, <3>3 DEF Installing
  <2>9. CASE HandleState /\ ~Done
    <3>1. /\ pc = "states" /\ UNCHANGED <<wi, held>>
          /\ sr' = [sr EXCEPT ![wi.cur] = api[wi.cur]]
      BY <2>9 DEF HandleState, ChartFails, Requeue
    <3>2. \A s \in SR : sr'[s] = sr[s] \/ sr'[s] = api[s]
      BY <2>0, <3>1
    <3> QED  BY <1>2, <1>3, <3>1, <3>2 DEF Installing
  <2>10. CASE ReconcileChart /\ ~Done
    <3>1. /\ pc = "deploy" /\ UNCHANGED <<sr, held>>
          /\ wi' = wi \/ wi' = [wi EXCEPT !.next = wi.next + 1]
      BY <2>10 DEF ReconcileChart, ChartDone, ChartFails, Requeue
    <3>2. wi'.main = wi.main
      BY <2>0, <3>1
    <3> QED  BY <1>2, <1>3, <3>1, <3>2 DEF Installing
  <2>11. RemoveFinalizer \/ RemoveResources \/ CreateSpecialResourceFrom \/ SetAsReady => Done
    BY DEF RemoveFinalizer, RemoveResources, CreateSpecialResourceFrom, SetAsReady, Requeue
  <2> QED  BY <1>3, <2>1, <2>2, <2>3, <2>4, <2>5, <2>6, <2>7, <2>8, <2>9, <2>10, <2>11 DEF Worker
<1>4. ASSUME UNCHANGED <<pc, wi, sr>>, \A t \in SR : Wakes(t),
             \A s \in SR : held[s] # "gone" => held'[s] # "gone" \/ api'[s] = None
      PROVE  CInv'
  <2>1. CASE pc = "idle"
    BY <1>4, <2>1 DEF CInv, CopyAt
  <2>2. CASE pc # "idle"
    BY <1>4, <2>2, CopyStays
  <2> QED  BY <2>1, <2>2
<1>5. ASSUME NEW s \in SR, SyncCache(s) \/ OwnedObjectEvent(s) \/ GarbageCollect(s) PROVE CInv'
  <2>1. StoredOK
    BY StoredPart DEF IInv
  <2>2. \A t \in SR : Wakes(t)
    BY <1>5, <2>1, SyncWakes, QuietWakes DEF OwnedObjectEvent, GarbageCollect, stored
  <2> QED  BY <1>4, <1>5, <2>2 DEF SyncCache, OwnedObjectEvent, GarbageCollect, worker
<1>6. CASE SyncConfigMap \/ UNCHANGED vars
  BY <1>4, <1>6, QuietWakes DEF SyncConfigMap, vars, stored, worker
<1>7. CASE Users
  <2>1. UNCHANGED <<pc, wi, sr>>
    BY <1>7 DEF Users, CreateSpecialResource, EditSpec, DeleteSpecialResource,
                DeleteOwnedObject, UserWrite, worker
  <2>2. ASSUME NEW s \in SR, NEW o, NEW g, UserWrite(s, o, g), NEW t \in SR, held[t] # "gone"
        PROVE  held'[t] # "gone" \/ api'[t] = None
    BY <2>2 DEF UserWrite, Store, IInv, TypeOK
  <2>3. \A t \in SR : held[t] # "gone" => held'[t] # "gone" \/ api'[t] = None
    BY <1>7, <2>2 DEF Users, CreateSpecialResource, EditSpec, DeleteSpecialResource,
                      DeleteOwnedObject, worker
  <2> QED  BY <1>4, <1>7, <2>1, <2>3, UsersWake
<1>8. CASE Restart
  BY <1>8 DEF Restart, CInv, CopyAt
<1>9. ASSUME NEW n \in SR, Reconcile(n) PROVE CInv'
  <2> SUFFICES ASSUME NEW s \in SR, pc' # "idle", wi'.main = s, api'[s] # None,
                      api'[s].mgmt # "Unmanaged", ~Awake(s)'
               PROVE  held'[s] # "gone" /\ pc' \notin Installing
    BY DEF CInv, CopyAt
  <2>1. api' = api /\ pc = "idle" /\ (WakesAfter(s, 0)' <=> WakesAfter(s, 0))
    BY <1>9 DEF Reconcile, stored, WakesAfter
  <2>2. ~WakesAfter(s, 0)
    BY <2>1 DEF Awake
  <2>3. ~UNCHANGED worker
    BY <2>1 DEF worker
  <2>4. Target(n) = s
    BY <1>9, <2>3 DEF Reconcile
  <2>5. /\ held'[s] # "gone"
        /\ api[s].deleting => pc' = "markDeleted"
        /\ Active(s, "Removed") => pc' = "remove"
        /\ Active(s, "Managed") => pc' = "progress"
    BY <1>9, <2>1, <2>2, <2>4, Started
  <2>6. api[s].mgmt \in {"Managed", "Removed"}
    BY <2>1 DEF IInv, TypeOK, Obj, ManagementState
  <2> QED  BY <2>1, <2>5, <2>6 DEF Active, Installing
<1> QED  BY <1>3, <1>5, <1>6, <1>7, <1>8, <1>9 DEF Next

\* Nothing is stored, announced or deployed at the start.
LEMMA RestInitially == Init => VInv /\ CInv /\ OInv
<1> SUFFICES ASSUME Init PROVE VInv /\ CInv /\ OInv
  OBVIOUS
<1>1. VInv
  BY DEF Init, VInv, Versions, Removals
<1>2. CInv /\ OInv
  BY DEF Init, CInv, CopyAt, OInv, Owed, RemovedAt, DeletedAt, ManagedAt, Active
<1> QED  BY <1>1, <1>2

\* In every reachable state, what is owed to a SpecialResource is on its way.
LEMMA RestInvariant == Spec => [](IInv /\ DInv /\ VInv /\ CInv /\ OInv)
<1>1. Init => IInv /\ DInv /\ VInv /\ CInv /\ OInv
  BY Initially, DInitially, RestInitially
<1>2. IInv /\ DInv /\ VInv /\ CInv /\ OInv /\ [Next]_vars => (IInv /\ DInv /\ VInv /\ CInv /\ OInv)'
  BY Inductive, DInductive, CopyInductive, RestInductive
<1> QED  BY <1>1, <1>2, PTL DEF Spec

\* A controller at rest owes nothing.
LEMMA NothingOwed ==
    ASSUME Quiescent, NEW s \in SR
    PROVE  ~Awake(s) /\ s \notin objEvents /\ pc = "idle"
<1>1. pending[s] = <<>>
  BY DEF Quiescent
<1>2. ~WakesAfter(s, 0)
  BY ONLY <1>1 DEF WakesAfter
<1> QED  BY <1>2 DEF Quiescent, Awake

\* When the controller has come to rest, the chart of every managed SpecialResource
\* is installed with its stored values: neither a conflict, a stale read, a reported
\* failure, a deletion behind the operator's back nor a restart loses the wake-up
\* that corrects it (EventFilter, requeues of SpecialResourcesReconcile, owned
\* objects).  Only an error of a state that ReconcileChartStates drops does.
THEOREM ManagedAtRest == Spec => []ManagedIsDeployed
<1>1. OInv => ManagedIsDeployed
  <2> SUFFICES ASSUME OInv, Quiescent, NEW s \in SR, Active(s, "Managed"), s \notin dropped[s],
                      deployed[s] # [set |-> api[s].set, owner |-> "live"]
               PROVE  FALSE
    BY DEF ManagedIsDeployed
  <2> QED  BY NothingOwed DEF OInv, Owed, ManagedAt, Quiescent, Installing
<1> QED  BY <1>1, RestInvariant, PTL

\* ... the objects of every SpecialResource in state Removed are gone
\* (RemoveResources, and the request put back when a deletion fails), unless the
\* latest removal could not list a kind of them (deleteResource); its labels on
\* nodes stay ...
THEOREM RemovedAtRest == Spec => []RemovedIsGone
<1>1. IInv /\ OInv => RemovedIsGone
  <2> SUFFICES ASSUME IInv, OInv, Quiescent, NEW s \in SR, Active(s, "Removed"),
                      s \notin unlisted, deployed[s] # None
               PROVE  FALSE
    BY DEF RemovedIsGone
  <2>1. deployed[s].owner = "live"
    BY DEF Quiescent, IInv, TypeOK, Objects
  <2> QED  BY <2>1, NothingOwed DEF OInv, Owed, RemovedAt, Live
<1> QED  BY <1>1, RestInvariant, PTL

\* ... and a SpecialResource that was deleted is gone, with its objects and with its
\* labels on nodes, but for those finalizeNodes passed over, unless it is Unmanaged
\* (Finalize, RemoveFinalizer, the garbage collector).
THEOREM DeletedAtRest == Spec => []DeletedIsGone
<1>1. IInv /\ OInv => DeletedIsGone
  <2> SUFFICES ASSUME IInv, OInv, Quiescent, NEW s \in SR
               PROVE  /\ api[s] = None => deployed[s] = None /\ s \notin Marked
                      /\ api[s] # None /\ api[s].deleting => api[s].mgmt = "Unmanaged"
    BY DEF DeletedIsGone
  <2>1. api[s] = None => deployed[s] = None /\ s \notin Marked
    BY DEF Quiescent, IInv, FinalizerGuardsCluster, HasFinalizer
  <2>2. api[s] # None /\ api[s].deleting => api[s].mgmt = "Unmanaged"
    BY NothingOwed DEF OInv, Owed, DeletedAt
  <2> QED  BY <2>1, <2>2
<1> QED  BY <1>1, RestInvariant, PTL

-----------------------------------------------------------------------------
(* Dependencies *)

\* The pass on s has not resolved its dependency d yet.
Before(s, d) ==
    /\ wi.main = s
    /\ \/ /\ pc \in {"progress", "load", "deps", "create"}
          /\ \E i \in wi.next..Len(Deps[s]) : Deps[s][i] = d
       \/ /\ pc \in {"chart", "states", "deploy"}
          /\ \E i \in (wi.next + 1)..Len(Deps[s]) : Deps[s][i] = d

\* The main chart comes after those of the dependencies.
MainLast ==
    pc \in {"chart", "states", "deploy"} /\ wi.cur = wi.main =>
        wi.next > Len(Deps[wi.main])

\* A copy of an object that is gone: the worker will be told.
LostAt(d) == pc # "idle" /\ sr[d] # None /\ api[d] = None => Noticed(d)

\* The copy of the config map is behind: it has no entry the config map has not.
RecordAt(s, d) == cmcache[d] = s => depcm[d] = s

\* A managed SpecialResource is recorded as the parent of its dependency, and a
\* dependency that does not exist will be created by the pass of its parent, unless
\* the request that named it met a copy of the config map without the entry.
DependencyAt(s, d) ==
    Active(s, "Managed") =>
        /\ depcm[d] = s \/ Awake(s) \/ (Before(s, d) /\ wi.req = s)
        /\ api[d] = None => \/ Awake(s) \/ Noticed(d) \/ (Before(s, d) /\ wi.req \in {s, d})
                           \/ d \in missed

PInv ==
    /\ MainLast
    /\ \A d \in SR : LostAt(d)
    /\ \A s \in SR : \A d \in Family(s) \ {s} :
           OnlyParent(s, d) => RecordAt(s, d) /\ DependencyAt(s, d)

\* A name in Family is that of a SpecialResource, and a place in the loop.
LEMMA FamilyNames ==
    ASSUME NEW s \in SR, NEW d \in Family(s) \ {s}
    PROVE  d \in SR /\ \E i \in 1..Len(Deps[s]) : Deps[s][i] = d
<1>1. PICK i \in 1..Len(Deps[s]) : Deps[s][i] = d
  BY DEF Family
<1>2. Deps[s] \in Seq(SR)
  BY SRAssumption
<1> QED  BY <1>1, <1>2

\* A step that keeps the config map and the dependencies still to be resolved,
\* or puts the request back.
LEMMA DependencyStays ==
    ASSUME NEW s \in SR, NEW d \in SR, DependencyAt(s, d), Wakes(s), Wakes(d),
           depcm[d] = s => depcm'[d] = s, d \in missed => d \in missed',
           Before(s, d) => wi.req \in queue' \/ (Before(s, d)' /\ wi'.req = wi.req)
    PROVE  DependencyAt(s, d)'
<1> SUFFICES ASSUME Active(s, "Managed")', ~Awake(s)'
             PROVE  /\ depcm'[d] = s \/ (Before(s, d)' /\ wi'.req = s)
                    /\ api'[d] = None => \/ Noticed(d)' \/ (Before(s, d)' /\ wi'.req \in {s, d})
                                        \/ d \in missed'
  BY DEF DependencyAt
<1>1. ~Awake(s) /\ s \notin queue' /\ Active(s, "Managed")
  BY DEF Wakes, Awake, Active, Same
<1>2. /\ depcm[d] = s \/ (Before(s, d) /\ wi.req = s)
      /\ api[d] = None => Noticed(d) \/ (Before(s, d) /\ wi.req \in {s, d}) \/ d \in missed
  BY <1>1 DEF DependencyAt
<1>3. depcm'[d] = s \/ (Before(s, d)' /\ wi'.req = s)
  BY <1>1, <1>2
<1>4. api'[d] = None => Noticed(d)' \/ (Before(s, d)' /\ wi'.req \in {s, d}) \/ d \in missed'
  <2>1. d \in queue' => Noticed(d)'
    BY DEF Noticed
  <2>2. /\ api'[d] = None => api[d] = None \/ Noticed(d)'
        /\ Noticed(d) => Noticed(d)'
    BY DEF Wakes
  <2> QED  BY <1>1, <1>2, <2>1, <2>2
<1> QED  BY <1>3, <1>4

\* A step that gives the worker no copy of an object that is gone.
LEMMA LostStays ==
    ASSUME NEW d \in SR, LostAt(d), Wakes(d),
           \/ pc' = "idle"
           \/ pc # "idle" /\ (sr'[d] # None => sr[d] # None \/ api'[d] # None)
    PROVE  LostAt(d)'
  BY DEF LostAt, Wakes

\* A step that leaves the pass where it is and the config map as it is.
LEMMA SamePass ==
    ASSUME PInv, \A t \in SR : Wakes(t), UNCHANGED <<pc, wi, sr, depcm, missed>>,
           cmcache' \in {cmcache, depcm}
    PROVE  PInv'
<1>1. MainLast'
  BY DEF PInv, MainLast
<1>2. ASSUME NEW d \in SR PROVE LostAt(d)'
  BY LostStays DEF PInv
<1>3. ASSUME NEW s \in SR, NEW d \in Family(s) \ {s}, OnlyParent(s, d)
      PROVE  RecordAt(s, d)' /\ DependencyAt(s, d)'
  <2>1. Before(s, d) => Before(s, d)'
    BY DEF Before
  <2>2. RecordAt(s, d)'
    BY <1>3 DEF PInv, RecordAt
  <2> QED  BY <1>3, <2>1, <2>2, FamilyNames, DependencyStays DEF PInv
<1> QED  BY <1>1, <1>2, <1>3 DEF PInv, Family, OnlyParent

\* The end of a pass that puts its request back, or has no dependency left.
LEMMA PassEnds ==
    ASSUME PInv, \A t \in SR : Wakes(t), Done, UNCHANGED <<depcm, cmcache, missed>>,
           \/ wi.req \in queue'
           \/ pc \notin {"progress", "load", "deps", "create", "chart", "states", "deploy"}
    PROVE  PInv'
<1>1. pc' = "idle"
  BY DEF Done
<1>2. MainLast' /\ \A d \in SR : LostAt(d)'
  BY <1>1 DEF MainLast, LostAt
<1>3. ASSUME NEW s \in SR, NEW d \in Family(s) \ {s}, OnlyParent(s, d)
      PROVE  RecordAt(s, d)' /\ DependencyAt(s, d)'
  <2>1. Before(s, d) => wi.req \in queue'
    BY DEF Before
  <2>2. RecordAt(s, d)'
    BY <1>3 DEF PInv, RecordAt
  <2> QED  BY <1>3, <2>1, <2>2, FamilyNames, DependencyStays DEF PInv
<1> QED  BY <1>2, <1>3 DEF PInv, Family, OnlyParent

\* A step within a pass that resolves no dependency.
LEMMA PassGoesOn ==
    ASSUME PInv, \A t \in SR : Wakes(t), UNCHANGED <<depcm, cmcache, missed>>,
           pc # "idle", wi'.req = wi.req, MainLast',
           \A d \in SR : sr'[d] # None => sr[d] # None \/ api'[d] # None,
           \A s \in SR : \A d \in Family(s) \ {s} : Before(s, d) => Before(s, d)'
    PROVE  PInv'
<1>1. ASSUME NEW d \in SR PROVE LostAt(d)'
  BY LostStays DEF PInv
<1>2. ASSUME NEW s \in SR, NEW d \in Family(s) \ {s}, OnlyParent(s, d)
      PROVE  RecordAt(s, d)' /\ DependencyAt(s, d)'
  <2>1. RecordAt(s, d)'
    BY <1>2 DEF PInv, RecordAt
  <2> QED  BY <1>2, <2>1, FamilyNames, DependencyStays DEF PInv
<1> QED  BY <1>1, <1>2 DEF PInv, Family, OnlyParent

\* Recording the parent of a dependency: that of a dependency with one parent is
\* never overwritten, and a child that is missed is created.
LEMMA ResolvePends ==
    ASSUME IInv, PInv, \A t \in SR : Wakes(t), ResolveDependency, ~Requeue
    PROVE  PInv'
<1>1. /\ pc = "deps" /\ wi.next <= Len(Deps[wi.main])
      /\ depcm' = IF cmcache[Dependency] = wi.main THEN depcm
                  ELSE [depcm EXCEPT ![Dependency] = wi.main]
      /\ UNCHANGED <<cmcache, missed>>
      /\ \/ /\ sr[Dependency] = None
            /\ pc' = "create" /\ UNCHANGED <<wi, sr>>
         \/ /\ sr[Dependency] # None
            /\ pc' = "chart"
            /\ wi' = [wi EXCEPT !.cur = Dependency]
            /\ sr' = [sr EXCEPT ![Dependency].set = sr[wi.main].set]
  BY DEF ResolveDependency, lapses
<1>2. wi.main \in SR /\ wi.next \in Nat \ {0} /\ Deps[wi.main] \in Seq(SR)
  BY <1>1, Busy, SRAssumption
<1>a. PICK m \in SR : m = wi.main
  BY <1>2
<1>3. PICK k \in 1..Len(Deps[m]) : m = wi.main /\ k = wi.next
  BY <1>1, <1>2, <1>a
<1>4. PICK c \in SR : c = Dependency /\ c = Deps[m][k] /\ c # m
  BY <1>2, <1>3, SRAssumption DEF Dependency
<1>5. /\ wi'.req = wi.req /\ wi'.main = m /\ wi'.next = k
      /\ pc' = "chart" => wi'.cur = c
  BY <1>1, <1>3, <1>4 DEF IInv, TypeOK
<1>6. MainLast'
  BY <1>1, <1>4, <1>5 DEF MainLast
<1>7. \A d \in SR : sr'[d] # None => sr[d] # None
  BY <1>1 DEF IInv, TypeOK
<1>8. ASSUME NEW d \in SR PROVE LostAt(d)'
  BY <1>1, <1>7, LostStays DEF PInv
<1>9. ASSUME NEW s \in SR, NEW d \in Family(s) \ {s}, OnlyParent(s, d)
      PROVE  RecordAt(s, d)' /\ DependencyAt(s, d)'
  <2>1. d \in SR /\ \E i \in 1..Len(Deps[s]) : Deps[s][i] = d
    BY FamilyNames
  <2>a. d = c => s = m /\ depcm'[d] = s
    <3> SUFFICES ASSUME d = c PROVE s = m /\ depcm'[d] = s
      OBVIOUS
    <3>1. c \in Family(m) \ {m}
      BY <1>3, <1>4 DEF Family
    <3>2. s = m
      BY <1>9, <3>1 DEF OnlyParent
    <3>3. cmcache[c] = m => depcm[c] = m
      BY <1>9, <3>2 DEF PInv, RecordAt
    <3> QED  BY <1>1, <1>3, <1>4, <3>2, <3>3 DEF IInv, TypeOK
  <2>2. depcm[d] = s => depcm'[d] = s
    <3>2. CASE d # c
      BY <1>1, <1>4, <2>1, <3>2 DEF IInv, TypeOK
    <3> QED  BY <2>a, <3>2
  <2>b. RecordAt(s, d)'
    BY <1>9, <1>1, <2>2 DEF PInv, RecordAt
  <2>3. CASE Before(s, d) => Before(s, d)'
    BY <1>9, <1>1, <1>5, <2>1, <2>2, <2>b, <2>3, DependencyStays DEF PInv
  <2>4. CASE Before(s, d) /\ ~Before(s, d)'
    <3>1. s = m /\ pc' = "chart"
      <4>1. s = m /\ \E i \in k..Len(Deps[s]) : Deps[s][i] = d
        BY <1>1, <1>3, <2>4 DEF Before
      <4>2. pc' = "create" => Before(s, d)'
        BY <1>5, <4>1 DEF Before
      <4> QED  BY <1>1, <2>4, <4>1, <4>2
    <3>2. d = c
      <4>1. PICK i \in k..Len(Deps[m]) : Deps[m][i] = d
        BY <1>1, <1>3, <2>4 DEF Before
      <4>2. i \in (k + 1)..Len(Deps[m]) => Before(s, d)'
        BY <1>5, <3>1, <4>1 DEF Before
      <4>3. i = k
        BY <1>2, <1>3, <2>4, <4>1, <4>2
      <4> QED  BY <1>4, <4>1, <4>3
    <3>3. depcm'[d] = s
      BY <2>a, <3>2
    <3>4. api'[d] = None => Noticed(d)'
      <4>1. api[d] = None => Noticed(d)
        BY <1>1, <1>4, <3>1, <3>2 DEF PInv, LostAt
      <4> QED  BY <2>1, <4>1 DEF Wakes
    <3> QED  BY <2>b, <3>3, <3>4 DEF DependencyAt
  <2> QED  BY <2>3, <2>4
<1> QED  BY <1>6, <1>8, <1>9 DEF PInv, Family, OnlyParent

\* Every other call of a pass.
LEMMA WorkerPends ==
    ASSUME IInv, PInv, \A t \in SR : Wakes(t), Worker
    PROVE  PInv'
<1>1. pc # "idle"
  BY DEF Worker, SetAsProgressing, FinalizeSpecialResource, RemoveFinalizer, RemoveResources,
         LoadChart, ResolveDependency, CreateSpecialResourceFrom, DependenciesDone,
         AddFinalizer, HandleState, ReconcileChart, SetAsReady
<1>2. /\ wi.main \in SR /\ wi.cur \in SR /\ wi.next \in Nat \ {0}
      /\ sr \in [SR -> Obj \cup {None}] /\ sr[wi.main] # None /\ sr[wi.cur] # None
      /\ Deps[wi.main] \in Seq(SR)
  <2>1. wi.main \in SR /\ wi.cur \in SR /\ sr[wi.main] \in Obj /\ sr[wi.cur] \in Obj
    BY <1>1, Busy
  <2>2. sr \in [SR -> Obj \cup {None}] /\ wi.next \in Nat \ {0}
    BY <1>1 DEF IInv, TypeOK
  <2> QED  BY <2>1, <2>2, SRAssumption, NoneAssumption
<1>0. UNCHANGED <<cmcache, missed>>
  <2>1. ASSUME NEW from, NEW to, SetAsProgressing(from, to) PROVE UNCHANGED <<cmcache, missed>>
    BY <2>1 DEF SetAsProgressing, lapses
  <2>2. CASE FinalizeSpecialResource \/ RemoveFinalizer \/ RemoveResources
    BY <2>2 DEF FinalizeSpecialResource, RemoveFinalizer, RemoveResources, lapses
  <2>3. CASE LoadChart \/ ResolveDependency \/ CreateSpecialResourceFrom \/ DependenciesDone
    BY <2>3 DEF LoadChart, ResolveDependency, CreateSpecialResourceFrom, DependenciesDone, lapses
  <2>4. CASE AddFinalizer \/ HandleState \/ ReconcileChart \/ SetAsReady
    BY <2>4 DEF AddFinalizer, HandleState, ReconcileChart, SetAsReady, lapses
  <2> QED  BY <2>1, <2>2, <2>3, <2>4 DEF Worker
<1>3. CASE ResolveDependency /\ ~Requeue
  BY <1>3, ResolvePends
<1>4. CASE Requeue
  <2>1. depcm' = depcm
    <3>1. CASE ResolveDependency
      <4>1. pc' = "idle"
        BY <1>4 DEF Requeue, Done
      <4> QED  BY <3>1, <4>1 DEF ResolveDependency
    <3> QED  BY <3>1 DEF Worker, SetAsProgressing, FinalizeSpecialResource, RemoveFinalizer,
                         RemoveResources, LoadChart, CreateSpecialResourceFrom,
                         DependenciesDone, AddFinalizer, HandleState, ReconcileChart, SetAsReady
  <2> QED  BY <1>0, <1>4, <2>1, PassEnds DEF Requeue
<1>5. CASE Done /\ pc \in {"cleanup", "unfinalize", "remove", "ready"} /\ depcm' = depcm
  BY <1>0, <1>5, PassEnds
<1>6. ASSUME pc \in {"markDeleted", "cleanup"}, pc' \in {"cleanup", "unfinalize"}, wi' = wi,
             depcm' = depcm, sr' = sr \/ sr' = [sr EXCEPT ![wi.main] = api[wi.main]]
      PROVE  PInv'
  <2>1. MainLast' /\ \A s \in SR : \A d \in Family(s) \ {s} : ~Before(s, d)
    BY <1>6 DEF MainLast, Before
  <2>2. \A d \in SR : sr'[d] # None => sr[d] # None
    BY <1>2, <1>6
  <2> QED  BY <1>0, <1>1, <1>6, <2>1, <2>2, PassGoesOn
<1>7. ASSUME \/ pc = "progress" /\ pc' = "load"
             \/ pc = "load" /\ pc' = "deps"
             \/ pc = "chart" /\ pc' \in {"states", "deploy"}
             \/ pc = "states" /\ pc' = "deploy",
             wi' = wi, depcm' = depcm,
             \A d \in SR : sr'[d] # None => sr[d] # None
      PROVE  PInv'
  <2>1. MainLast'
    BY <1>7 DEF PInv, MainLast
  <2>2. ASSUME NEW s \in SR, NEW d PROVE Before(s, d) => Before(s, d)'
    BY <1>7 DEF Before
  <2> QED  BY <1>0, <1>1, <1>7, <2>1, <2>2, PassGoesOn
<1>8. CASE DependenciesDone
  <2>1. /\ pc = "deps" /\ pc' = "chart" /\ wi' = [wi EXCEPT !.cur = wi.main]
        /\ wi.next > Len(Deps[wi.main]) /\ UNCHANGED <<depcm, sr>>
    BY <1>8 DEF DependenciesDone
  <2>2. wi'.req = wi.req /\ wi'.main = wi.main /\ wi'.next = wi.next
    BY <2>1 DEF IInv, TypeOK
  <2>3. MainLast'
    BY <2>1, <2>2 DEF MainLast
  <2>4. \A s \in SR : \A d \in Family(s) \ {s} : ~Before(s, d)
    BY <1>2, <2>1 DEF Before
  <2> QED  BY <1>0, <1>1, <2>1, <2>2, <2>3, <2>4, PassGoesOn
<1>9. CASE ReconcileChart /\ ~Requeue
  <2>1. /\ pc = "deploy" /\ UNCHANGED <<depcm, sr>>
        /\ IF wi.cur = wi.main THEN pc' = "ready" /\ UNCHANGED wi
           ELSE pc' = "deps" /\ wi' = [wi EXCEPT !.next = wi.next + 1]
    BY <1>9 DEF ReconcileChart, ChartDone, ChartFails
  <2>2. wi'.req = wi.req /\ wi'.main = wi.main
    BY <2>1 DEF IInv, TypeOK
  <2>3. MainLast'
    BY <2>1 DEF MainLast
  <2>4. ASSUME NEW s \in SR, NEW d, Before(s, d) PROVE Before(s, d)'
    <3>1. PICK i \in (wi.next + 1)..Len(Deps[s]) : Deps[s][i] = d /\ s = wi.main
      BY <2>1, <2>4 DEF Before
    <3>2. wi.cur # wi.main
      BY <1>2, <2>1, <3>1 DEF PInv, MainLast
    <3>3. wi'.next = wi.next + 1
      BY <2>1, <3>2 DEF IInv, TypeOK
    <3> QED  BY <2>1, <2>2, <3>1, <3>2, <3>3 DEF Before
  <2> QED  BY <1>0, <1>1, <2>1, <2>2, <2>3, <2>4, PassGoesOn
<1>10. CASE SetAsProgressing("markDeleted", "cleanup")
  BY <1>4, <1>6, <1>10 DEF SetAsProgressing
<1>11. CASE SetAsProgressing("progress", "load")
  <2>1. CASE held[wi.main] = "fresh"
    <3>1. /\ pc = "progress" /\ pc' = "load" /\ UNCHANGED <<wi, depcm>>
          /\ sr' = [sr EXCEPT ![wi.main] = api[wi.main]]
      BY <1>11, <2>1 DEF SetAsProgressing
    <3>2. \A d \in SR : sr'[d] # None => sr[d] # None
      BY <1>2, <3>1
    <3> QED  BY <1>7, <3>1, <3>2
  <2>2. CASE held[wi.main] # "fresh"
    BY <1>4, <1>11, <2>2 DEF SetAsProgressing
  <2> QED  BY <2>1, <2>2
<1>12. CASE FinalizeSpecialResource
  BY <1>4, <1>5, <1>6, <1>12 DEF FinalizeSpecialResource
<1>13. CASE RemoveFinalizer \/ RemoveResources \/ SetAsReady
  BY <1>4, <1>5, <1>13 DEF RemoveFinalizer, RemoveResources, SetAsReady
<1>14. CASE LoadChart
  BY <1>4, <1>7, <1>14 DEF LoadChart
<1>15. CASE CreateSpecialResourceFrom
  BY <1>4, <1>15 DEF CreateSpecialResourceFrom
<1>16. CASE AddFinalizer /\ ~Requeue
  <2>1. /\ pc = "chart" /\ pc' \in {"states", "deploy"} /\ UNCHANGED <<wi, depcm>>
        /\ sr' = sr \/ sr' = [sr EXCEPT ![wi.cur].finalizer = TRUE]
    BY <1>16 DEF AddFinalizer, AfterFinalizer, ChartFails
  <2>2. \A d \in SR : sr'[d] # None => sr[d] # None
    BY <1>2, <2>1
  <2> QED  BY <1>7, <2>1, <2>2
<1>17. CASE HandleState /\ ~Requeue
  <2>1. /\ pc = "states" /\ pc' = "deploy" /\ UNCHANGED <<wi, depcm>>
        /\ sr' = [sr EXCEPT ![wi.cur] = api[wi.cur]]
    BY <1>17 DEF HandleState, ChartFails
  <2>2. \A d \in SR : sr'[d] # None => sr[d] # None
    BY <1>2, <2>1
  <2> QED  BY <1>7, <2>1, <2>2
<1> QED  BY <1>3, <1>4, <1>8, <1>9, <1>10, <1>11, <1>12, <1>13, <1>14, <1>15, <1>16, <1>17
         DEF Worker

\* Taking a request: the pass of the parent takes over from the queue, also when
\* the request names a dependency that is gone.
LEMMA ReconcilePends ==
    ASSUME IInv, VInv, PInv, NEW n \in SR, Reconcile(n)
    PROVE  PInv'
<1>1. /\ pc = "idle" /\ queue' = queue \ {n}
      /\ UNCHANGED <<api, pending, cache, depcm, cmcache>>
      /\ missed' = IF cache[n] = None /\ cmcache[n] # depcm[n] THEN missed \cup {n}
                   ELSE missed \ {n}
  BY DEF Reconcile, stored
<1>2. \A t \in SR : /\ WakesAfter(t, 0)' <=> WakesAfter(t, 0)
                    /\ RemovalPending(t)' <=> RemovalPending(t)
  BY <1>1 DEF WakesAfter, RemovalPending
<1>3. UNCHANGED worker \/ pc' \in {"markDeleted", "remove", "progress"}
  <2> DEFINE m == Target(n)
  <2>1. m \in SR \cup {None}
    BY DEF Target, IInv, TypeOK
  <2>2. UNCHANGED worker \/ (m # None /\ cache[m] # None /\ Branch(cache[m]) # "idle" /\ pc' = Branch(cache[m]))
    BY DEF Reconcile
  <2> HIDE DEF m
  <2>3. m # None /\ cache[m] # None => cache[m] \in Obj
    BY <2>1 DEF IInv, TypeOK
  <2> QED  BY <2>2, <2>3, BranchSteps
<1>4. MainLast'
  BY <1>1, <1>3 DEF worker, MainLast
<1>5. \A d \in SR : api[d] = None /\ ~RemovalPending(d) => cache[d] = None
  <2> SUFFICES ASSUME NEW d \in SR, api[d] = None, ~RemovalPending(d) PROVE cache[d] = None
    OBVIOUS
  <2>1. pending[d] \in Seq(Version)
    BY DEF IInv, TypeOK
  <2>2. pending[d] = <<>>
    <3> SUFFICES ASSUME pending[d] # <<>> PROVE FALSE
      OBVIOUS
    <3>1. Len(pending[d]) \in 1..Len(pending[d])
      BY <2>1, Lengths
    <3>2. pending[d][Len(pending[d])].obj = None
      BY DEF IInv, CacheFollows
    <3> QED  BY <3>1, <3>2 DEF RemovalPending
  <2> QED  BY <2>2 DEF IInv, CacheFollows
<1>6. ASSUME NEW d \in SR PROVE LostAt(d)'
  <2>1. UNCHANGED worker \/ sr'[d] = cache[d] \/ sr'[d] = None
    BY DEF Reconcile
  <2> QED  BY <1>1, <1>2, <1>5, <2>1 DEF LostAt, worker, Noticed
<1>7. ASSUME NEW s \in SR, NEW d \in Family(s) \ {s}, OnlyParent(s, d)
      PROVE  RecordAt(s, d)' /\ DependencyAt(s, d)'
  <2> SUFFICES ASSUME Active(s, "Managed"), ~Awake(s)'
               PROVE  /\ depcm[d] = s \/ (Before(s, d)' /\ wi'.req = s)
                      /\ api[d] = None => \/ Noticed(d)' \/ (Before(s, d)' /\ wi'.req \in {s, d})
                                         \/ d \in missed'
    <3>1. RecordAt(s, d)'
      BY <1>7, <1>1 DEF PInv, RecordAt
    <3> QED  BY <1>1, <3>1 DEF DependencyAt, Active
  <2>1. d \in SR /\ \E i \in 1..Len(Deps[s]) : Deps[s][i] = d
    BY FamilyNames
  <2>2. ~WakesAfter(s, 0) /\ (s \in queue => s = n)
    BY <1>1, <1>2 DEF Awake
  <2>3. api[s] # None /\ api[s].mgmt # "Unmanaged"
    BY DEF Active
  <2>4. Target(n) = s => Before(s, d)' /\ wi'.req = n
    <3> SUFFICES ASSUME Target(n) = s PROVE Before(s, d)' /\ wi'.req = n
      OBVIOUS
    <3>1. wi' = [req |-> n, main |-> s, cur |-> s, next |-> 1] /\ pc' = "progress"
      BY <2>2, <2>3, Started
    <3> QED  BY <2>1, <3>1 DEF Before
  <2>5. CASE s = n
    <3>1. Target(n) = s
      BY <2>2, <2>3, <2>5, Informed DEF Target, Same
    <3> QED  BY <2>4, <2>5, <3>1
  <2>6. CASE s # n
    <3>1. ~Awake(s) /\ ~Before(s, d)
      BY <1>1, <2>2, <2>6 DEF Awake, Before
    <3>2. depcm[d] = s /\ (api[d] = None => Noticed(d) \/ d \in missed)
      BY <1>7, <3>1 DEF PInv, DependencyAt
    <3>3. CASE d = n /\ api[d] = None /\ ~RemovalPending(d)
      <4>1. CASE cmcache[d] = depcm[d]
        <5>1. Target(n) = s
          BY <1>5, <2>1, <3>2, <3>3, <4>1 DEF Target
        <5> QED  BY <2>4, <3>2, <3>3, <5>1
      <4>2. CASE cmcache[d] # depcm[d]
        BY <1>1, <1>5, <2>1, <3>2, <3>3, <4>2
      <4> QED  BY <4>1, <4>2
    <3>4. CASE ~(d = n /\ api[d] = None /\ ~RemovalPending(d))
      <4>1. CASE d = n
        BY <1>2, <2>1, <3>2, <3>4, <4>1 DEF Noticed
      <4>2. CASE d # n
        BY <1>1, <1>2, <2>1, <3>2, <4>2 DEF Noticed
      <4> QED  BY <4>1, <4>2
    <3> QED  BY <3>3, <3>4
  <2> QED  BY <2>5, <2>6
<1> QED  BY <1>4, <1>6, <1>7 DEF PInv, Family, OnlyParent

\* A restart queues every managed SpecialResource.
LEMMA RestartPends ==
    ASSUME IInv, Restart
    PROVE  PInv'
<1>1. pc' = "idle" /\ UNCHANGED <<api, depcm>> /\ cmcache' = depcm
  BY DEF Restart
<1>2. MainLast' /\ \A d \in SR : LostAt(d)'
  BY <1>1 DEF MainLast, LostAt
<1>3. ASSUME NEW s \in SR, NEW d \in Family(s) \ {s}, OnlyParent(s, d)
      PROVE  RecordAt(s, d)' /\ DependencyAt(s, d)'
  BY <1>1, RestartWakes DEF DependencyAt, RecordAt, Active, Awake
<1> QED  BY <1>2, <1>3 DEF PInv, Family, OnlyParent

\* Every step keeps what is known of dependencies with one parent.
LEMMA DependenciesInductive ==
    IInv /\ DInv /\ VInv /\ PInv /\ [Next]_vars => PInv'
<1> SUFFICES ASSUME IInv, DInv, VInv, PInv, [Next]_vars PROVE PInv'
  OBVIOUS
<1>1. CASE Worker
  BY <1>1, WorkerWakes, WorkerPends
<1>2. ASSUME NEW s \in SR, SyncCache(s) \/ OwnedObjectEvent(s) \/ GarbageCollect(s)
      PROVE  PInv'
  <2>1. StoredOK
    BY StoredPart DEF IInv
  <2>2. \A t \in SR : Wakes(t)
    BY <1>2, <2>1, SyncWakes, QuietWakes DEF OwnedObjectEvent, GarbageCollect, stored
  <2> QED  BY <1>2, <2>2, SamePass DEF SyncCache, OwnedObjectEvent, GarbageCollect, worker, lapses
<1>3. CASE Users
  <2>1. UNCHANGED <<pc, wi, sr, depcm, cmcache, missed>>
    BY <1>3 DEF Users, CreateSpecialResource, EditSpec, DeleteSpecialResource,
                DeleteOwnedObject, UserWrite, worker, lapses
  <2> QED  BY <1>3, <2>1, UsersWake, SamePass
<1>4. CASE SyncConfigMap \/ UNCHANGED vars
  <2>1. \A t \in SR : Wakes(t)
    BY <1>4, QuietWakes DEF SyncConfigMap, vars, stored
  <2> QED  BY <1>4, <2>1, SamePass DEF SyncConfigMap, vars, worker, lapses
<1> QED  BY <1>1, <1>2, <1>3, <1>4, ReconcilePends, RestartPends DEF Next

\* A dependency of a managed SpecialResource that is no other's exists when the
\* controller has come to rest: a request for a dependency that is gone reaches the
\* parent recorded in the config map, whose pass creates it (getDependencyFrom,
\* createSpecialResourceFrom, storage.CheckConfigMapEntry), unless the request is
\* taken while the informer's copy of the config map lacks the entry.
THEOREM DependenciesAtRest == Spec => []DependenciesExist
<1>1. Init => PInv
  BY DEF Init, PInv, MainLast, LostAt, RecordAt, DependencyAt, Active
<1>2. IInv /\ DInv /\ VInv /\ PInv /\ [Next]_vars => PInv'
  BY DependenciesInductive
<1>3. PInv => DependenciesExist
  <2> SUFFICES ASSUME PInv, Quiescent, NEW s \in SR, Active(s, "Managed"),
                      NEW d \in Family(s) \ {s}, OnlyParent(s, d), d \notin missed,
                      api[d] = None
               PROVE  FALSE
    BY DEF DependenciesExist
  <2>2. d \in SR
    BY FamilyNames
  <2>3. ~Noticed(d)
    BY <2>2 DEF Quiescent, Noticed, RemovalPending
  <2> QED  BY <2>3, NothingOwed DEF PInv, DependencyAt, Before
<1> QED  BY <1>1, <1>2, <1>3, RestInvariant, PTL DEF Spec

=============================================================================
