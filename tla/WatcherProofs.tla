---------------------------- MODULE WatcherProofs ----------------------------
(***************************************************************************)
(* The maps of the watcher agree with each other and, at rest, with the    *)
(* specs of the modules, for any number of modules, objects, paths and     *)
(* watches, until mapper and the removal loop have written a map under     *)
(* each other.  Until then no change of a watched object is missed either, *)
(* if a kind is watched as a whole or by names, not both.                  *)
(***************************************************************************)
EXTENDS Watcher, TLAPS, WellFoundedInduction

\* Most steps are first-order; the time given to a prover covers what the proof
\* manager does meanwhile.
USE ZenonT(3), SMTT(20), ZenonT(30)

-----------------------------------------------------------------------------
(* The inductive invariant *)

UserTypes ==
    /\ spec \in [SRM -> (SUBSET Watches) \cup {None}] /\ listed \in [SRM -> (SUBSET Watches) \cup {None}]
    /\ value \in [Object -> Content]
    /\ queue \subseteq SRM
    /\ seen \in [SRM -> [Watch -> SUBSET Values]]
    /\ edits \in 0..MaxEdits /\ changes \in 0..MaxChanges
    /\ faults \in 0..MaxFaults /\ restarts \in 0..MaxRestarts

EventTypes ==
    /\ starting \in Nat /\ handlers \in Seq(Seq(Call)) /\ starting + Len(handlers) <= MaxHandlers
    /\ mapping \in Mapping \cup {None}

MapTypes ==
    /\ paths \in [Resource -> SUBSET Path]
    /\ data \in [Watch -> Entry \cup {None}]

WorkerTypes ==
    /\ pc \in {"idle", "remove", "add", "read"}
    /\ srm \in SRM \cup {None} /\ (pc # "idle" => srm \in SRM) /\ (pc = "idle" => srm = None)
    /\ want \subseteq Watches /\ visit \subseteq Watch
    /\ copy \in Copy \cup {None} /\ adding \in Watch \cup {None}

\* The copy of an entry that the removal loop holds is empty or names the module.
Holding ==
    copy # None => pc = "remove" /\ (copy.entry.names = <<>> \/ srm \in Range(copy.entry.names))

RacedType == raced \in BOOLEAN

\* This much holds whatever races: no step finds a name missing that it removes.
TInv == UserTypes /\ EventTypes /\ MapTypes /\ WorkerTypes /\ Holding

\* The copies of entries that mapper and the removal loop hold are the entries;
\* the loop's names the module in vain, or nobody.
Copied ==
    /\ mapping # None /\ mapping.copy # None => mapping.copy.entry = data[mapping.copy.watch]
    /\ copy # None => /\ copy.entry = data[copy.watch]
                      /\ copy.entry.names = <<>> \/ copy.watch \notin want

\* The maps agree, also while an entry without names is about to be dropped.
Agree ==
    \A w \in Watch :
        /\ w[2] \in paths[w[1]] <=> data[w] # None
        /\ data[w] # None => /\ IsInjective(data[w].names)
                             /\ data[w].names # <<>> \/ (copy # None /\ copy.watch = w)

\* A watch is added for a module that is not registered.
Adding ==
    /\ pc = "add" => visit \subseteq want
    /\ adding # None => pc = "add" /\ adding \in visit /\ ~Registered(srm, adding)

\* How far the registrations of the module at hand are.
Progress ==
    /\ pc = "remove" => \A w \in Watch : Registered(srm, w) =>
          w \in want \/ w \in visit \/ (copy # None /\ copy.watch = w)
    /\ pc = "add" => \A w \in Watch : /\ Registered(srm, w) => w \in want
                                      /\ w \in want => w \in visit \/ Registered(srm, w)
    /\ pc = "read" => \A w \in Watch : Registered(srm, w) <=> w \in want

\* A module that is neither at hand nor queued has the registrations of its spec.
Settled ==
    /\ pc # "idle" => srm \in queue \/ listed[srm] = want
    /\ \A s \in SRM : s \notin queue /\ s # srm /\ listed[s] # None =>
          \A w \in Watch : Registered(s, w) <=> w \in listed[s]

\* This holds until there was a race.
Sound == Copied /\ Agree /\ Adding /\ Progress /\ Settled

IInv == TInv /\ Sound

-----------------------------------------------------------------------------
(* Names of modules in an entry *)

\* A name that is there has a first place.
LEMMA FirstPlace ==
    ASSUME NEW S, NEW names \in Seq(S), NEW s \in Range(names)
    PROVE  Index(names, s) \in 1..Len(names) /\ names[Index(names, s)] = s
<1> DEFINE T == {i \in 1..Len(names) : names[i] = s}
<1>1. Len(names) \in Nat /\ DOMAIN names = 1..Len(names)
  OBVIOUS
<1>2. T \subseteq Nat /\ T # {}
  BY <1>1 DEF Range
<1>3. PICK i \in T : \A j \in T : ~(<<j, i>> \in OpToRel(<, Nat))
  <2> HIDE DEF T
  <2> QED  BY ONLY <1>2, NatLessThanWellFounded, WFMin
<1>4. \A j \in T : ~(j < i)
  BY <1>2, <1>3 DEF OpToRel
<1>5. i \in DOMAIN names /\ names[i] = s /\ \A j \in 1..(i - 1) : names[j] # s
  BY <1>1, <1>4
<1> HIDE DEF T
<1>6. Index(names, s) \in DOMAIN names /\ names[Index(names, s)] = s
  BY <1>5 DEF Index
<1> QED  BY <1>1, <1>6

\* DropName: what is left of the names are names, with or without duplicates.
LEMMA WithoutTyped ==
    ASSUME NEW S, NEW names \in Seq(S), NEW s \in Range(names)
    PROVE  Without(names, s) \in Seq(S)
<1>1. PICK i \in 1..Len(names) : i = Index(names, s)
  BY FirstPlace
<1>2. SubSeq(names, 1, i - 1) \in Seq(S) /\ SubSeq(names, i + 1, Len(names)) \in Seq(S)
  OBVIOUS
<1> QED  BY <1>1, <1>2 DEF Without

\* DropName: so are the names that mapper then finds in its copy.
LEMMA ShiftedTyped ==
    ASSUME NEW S, NEW names \in Seq(S), NEW s
    PROVE  Shifted(names, s) \in Seq(S)
<1>1. PICK i : i = Index(names, s)
  OBVIOUS
<1>2. Len(names) \in Nat /\ DOMAIN names = 1..Len(names) /\ \A j \in 1..Len(names) : names[j] \in S
  OBVIOUS
<1>3. \A j \in 1..Len(names) : (IF j >= i /\ j < Len(names) THEN names[j + 1] ELSE names[j]) \in S
  BY <1>2
<1> QED  BY <1>1, <1>2, <1>3 DEF Shifted

\* DropName: without duplicates, exactly the name is removed.
LEMMA RemoveName ==
    ASSUME NEW S, NEW names \in Seq(S), IsInjective(names), NEW s, s \in Range(names)
    PROVE  /\ Without(names, s) \in Seq(S)
           /\ IsInjective(Without(names, s))
           /\ \A t : t \in Range(Without(names, s)) <=> t \in Range(names) /\ t # s
<1>1. PICK i \in 1..Len(names) : names[i] = s
  BY DEF Range
<1>2. \A j \in 1..Len(names) : names[j] = s <=> j = i
  BY <1>1 DEF IsInjective
<1>3. Index(names, s) = i
  <2>1. i \in DOMAIN names /\ names[i] = s /\ \A j \in 1..(i - 1) : names[j] # s
    BY <1>1, <1>2
  <2> QED  BY <1>2, <2>1 DEF Index
<1> DEFINE r == Without(names, s)
           front == SubSeq(names, 1, i - 1)
           back  == SubSeq(names, i + 1, Len(names))
<1>4. r = front \o back
  BY <1>1, <1>3 DEF Without
<1>5. Len(names) \in Nat /\ i \in Nat /\ i >= 1 /\ i <= Len(names)
  BY <1>1
<1>6. front \in Seq(S) /\ Len(front) = i - 1 /\ \A j \in 1..(i - 1) : front[j] = names[j]
  BY <1>5
<1>7. back \in Seq(S) /\ Len(back) = Len(names) - i /\ \A j \in 1..(Len(names) - i) : back[j] = names[i + j]
  BY <1>5
<1> HIDE DEF r, front, back
<1>8. /\ r \in Seq(S) /\ Len(r) = Len(names) - 1
      /\ \A j \in 1..Len(r) : r[j] = IF j < i THEN names[j] ELSE names[j + 1]
  <2>1. /\ r \in Seq(S) /\ Len(r) = Len(front) + Len(back)
        /\ \A j \in 1..Len(r) : r[j] = IF j <= Len(front) THEN front[j] ELSE back[j - Len(front)]
    <3>1. front \in Seq(S) /\ back \in Seq(S)
      BY <1>6, <1>7
    <3> QED  BY <1>4, <3>1
  <2>2. Len(r) = Len(names) - 1
    BY <1>5, <1>6, <1>7, <2>1
  <2>3. ASSUME NEW j \in 1..Len(r), j < i PROVE r[j] = names[j]
    BY <1>5, <1>6, <2>1, <2>3
  <2>4. ASSUME NEW j \in 1..Len(r), ~(j < i) PROVE r[j] = names[j + 1]
    <3>1. r[j] = back[j - (i - 1)] /\ j - (i - 1) \in 1..(Len(names) - i) /\ i + (j - (i - 1)) = j + 1
      BY <1>5, <1>6, <2>1, <2>2, <2>4
    <3> QED  BY <1>7, <3>1
  <2> QED  BY <2>1, <2>2, <2>3, <2>4
<1>9. IsInjective(r)
  BY <1>5, <1>8 DEF IsInjective
<1>10. ASSUME NEW t PROVE t \in Range(r) <=> t \in Range(names) /\ t # s
  <2>1. ASSUME NEW j \in 1..Len(r), r[j] = t PROVE t \in Range(names) /\ t # s
    <3>1. CASE j < i
      <4>1. j \in 1..Len(names) /\ j # i /\ r[j] = names[j]
        BY <1>5, <1>8, <3>1
      <4> QED  BY <1>2, <2>1, <4>1 DEF Range
    <3>2. CASE ~(j < i)
      <4>1. j + 1 \in 1..Len(names) /\ j + 1 # i /\ r[j] = names[j + 1]
        BY <1>5, <1>8, <3>2
      <4> QED  BY <1>2, <2>1, <4>1 DEF Range
    <3> QED  BY <3>1, <3>2
  <2>2. ASSUME NEW j \in 1..Len(names), names[j] = t, t # s PROVE t \in Range(r)
    <3>1. j # i
      BY <1>1, <2>2
    <3>2. \A k \in 1..Len(r) : r[k] \in Range(r)
      BY <1>8 DEF Range
    <3>3. CASE j < i
      <4>1. j \in 1..Len(r) /\ r[j] = names[j]
        BY <1>5, <1>8, <3>3
      <4> QED  BY <2>2, <3>2, <4>1
    <3>4. CASE j > i
      <4>1. j - 1 \in 1..Len(r) /\ r[j - 1] = names[(j - 1) + 1] /\ (j - 1) + 1 = j
        BY <1>5, <1>8, <3>4
      <4> QED  BY <2>2, <3>2, <4>1
    <3>5. j < i \/ j > i
      BY <1>5, <3>1
    <3> QED  BY <3>3, <3>4, <3>5
  <2> QED  BY <2>1, <2>2 DEF Range
<1> QED  BY <1>8, <1>9, <1>10 DEF r

\* AddToWatched: a name that is not there is added once.
LEMMA AddName ==
    ASSUME NEW S, NEW names \in Seq(S), IsInjective(names), NEW s \in S, s \notin Range(names)
    PROVE  /\ Append(names, s) \in Seq(S) /\ Append(names, s) # <<>>
           /\ IsInjective(Append(names, s))
           /\ \A t : t \in Range(Append(names, s)) <=> t \in Range(names) \/ t = s
<1> DEFINE r == Append(names, s)
<1>1. /\ r \in Seq(S) /\ Len(names) \in Nat /\ Len(r) = Len(names) + 1
      /\ \A j \in 1..Len(names) : r[j] = names[j]
      /\ r[Len(r)] = s
  OBVIOUS
<1> HIDE DEF r
<1>2. DOMAIN r = 1..Len(r) /\ DOMAIN names = 1..Len(names)
  BY <1>1
<1>3. IsInjective(r)
  BY <1>1, <1>2 DEF IsInjective, Range
<1>4. r # <<>>
  BY <1>1
<1>5. ASSUME NEW t PROVE t \in Range(r) <=> t \in Range(names) \/ t = s
  <2>1. t \in Range(r) => t \in Range(names) \/ t = s
    BY <1>1 DEF Range
  <2>2. t \in Range(names) => t \in Range(r)
    BY <1>1 DEF Range
  <2>3. s \in Range(r)
    <3>1. Len(r) \in 1..Len(r)
      BY <1>1
    <3> QED  BY <1>1, <3>1 DEF Range
  <2> QED  BY <2>1, <2>2, <2>3
<1> QED  BY <1>1, <1>3, <1>4, <1>5 DEF r

\* MapperCall: what comes after the first call is still there.
LEMMA InTail ==
    ASSUME NEW S, NEW calls \in Seq(S), calls # <<>>, NEW i \in DOMAIN calls
    PROVE  calls[i] = Head(calls) \/ \E j \in DOMAIN Tail(calls) : Tail(calls)[j] = calls[i]
<1>1. CASE i = 1
  BY <1>1
<1>2. CASE i # 1
  <2>1. i - 1 \in DOMAIN Tail(calls) /\ Tail(calls)[i - 1] = calls[i]
    BY <1>2
  <2> QED  BY <2>1
<1> QED  BY <1>1, <1>2

\* The fields of a call.
LEMMA Fields == ASSUME NEW c, NEW o, NEW v, c = [obj |-> o, vals |-> v] PROVE c.obj = o /\ c.vals = v
  OBVIOUS

\* A new entry has one name.
LEMMA OneName ==
    ASSUME NEW S, NEW s \in S
    PROVE  /\ <<s>> \in Seq(S) /\ <<s>> # <<>> /\ IsInjective(<<s>>)
           /\ \A t : t \in Range(<<s>>) <=> t = s
  BY DEF IsInjective, Range

-----------------------------------------------------------------------------
(* Types, whatever races *)

\* The parts of the invariant.
LEMMA TParts == TInv => UserTypes /\ EventTypes /\ MapTypes /\ WorkerTypes /\ Holding
  BY DEF TInv

\* It is a type invariant.
LEMMA IsTyped == TInv /\ RacedType => TypeOK
  BY WatcherAssumption DEF TInv, RacedType, UserTypes, EventTypes, MapTypes, WorkerTypes, TypeOK

\* Steps of others, which leave the maps and the worker alone.
LEMMA AsideTyped ==
    ASSUME TInv, UNCHANGED <<paths, data, pc, srm, want, visit, copy, adding>>, UserTypes', EventTypes'
    PROVE  TInv'
  BY DEF TInv, MapTypes, WorkerTypes, Holding

\* Nothing is watched when the process starts.
LEMMA InitiallyTyped == ASSUME Init PROVE TInv /\ RacedType
<1>1. UserTypes
  BY WatcherAssumption DEF Init, UserTypes
<1>2. EventTypes
  <2>1. <<>> \in Seq(Seq(Call)) /\ Len(<<>>) = 0
    OBVIOUS
  <2> QED  BY <2>1, WatcherAssumption DEF Init, EventTypes
<1>3. MapTypes /\ WorkerTypes /\ Holding /\ RacedType
  BY DEF Init, MapTypes, WorkerTypes, Holding, RacedType
<1> QED  BY <1>1, <1>2, <1>3 DEF TInv

\* Users edit specs, the informer sees them.
LEMMA UsersTyped == ASSUME TInv, NEW s \in SRM, EditSpec(s) \/ SyncSpec(s) PROVE TInv'
<1> USE TParts
<1>1. UserTypes'
  <2>1. CASE EditSpec(s)
    BY <2>1, WatcherAssumption DEF EditSpec, UserTypes
  <2>2. CASE SyncSpec(s)
    BY <2>2 DEF SyncSpec, UserTypes, bounds
  <2> QED  BY <2>1, <2>2
<1>2. EventTypes'
  BY DEF EditSpec, SyncSpec, EventTypes, events
<1> QED  BY <1>1, <1>2, AsideTyped DEF EditSpec, SyncSpec, maps, worker

\* A watched object changes: every handler is called twice more.
LEMMA ChangesTyped == ASSUME TInv, NEW o \in Object, ChangeValue(o) PROVE TInv'
<1> USE TParts
<1>1. PICK p \in Path, v \in Values :
         /\ value' = [value EXCEPT ![o] = [value[o] EXCEPT ![p] = v]]
         /\ handlers' = [h \in DOMAIN handlers |-> handlers[h] \o
                           <<[obj |-> o, vals |-> value[o]], [obj |-> o, vals |-> [value[o] EXCEPT ![p] = v]]>>]
  BY ZenonT(30) DEF ChangeValue
<1>2. value[o] \in Content /\ [value[o] EXCEPT ![p] = v] \in Content
  BY DEF UserTypes, Content
<1>3. UserTypes'
  <2>1. value' \in [Object -> Content]
    BY <1>1, <1>2 DEF UserTypes
  <2>2. changes' \in 0..MaxChanges /\ UNCHANGED <<spec, listed, queue, seen, edits, faults, restarts>>
    BY WatcherAssumption DEF ChangeValue, UserTypes
  <2> QED  BY <2>1, <2>2 DEF UserTypes
<1> DEFINE calls == <<[obj |-> o, vals |-> value[o]], [obj |-> o, vals |-> [value[o] EXCEPT ![p] = v]]>>
<1>4. calls \in Seq(Call)
  BY <1>2 DEF Call
<1> HIDE DEF calls
<1>5. \A h \in DOMAIN handlers : handlers[h] \o calls \in Seq(Call)
  BY <1>4 DEF EventTypes
<1>6. handlers' = [h \in DOMAIN handlers |-> handlers[h] \o calls]
  BY <1>1 DEF calls
<1>7. handlers' \in Seq(Seq(Call)) /\ Len(handlers') = Len(handlers)
  <2>1. handlers \in [1..Len(handlers) -> Seq(Call)] /\ Len(handlers) \in Nat
    BY DEF EventTypes
  <2>2. handlers' \in [1..Len(handlers) -> Seq(Call)]
    BY <1>5, <1>6, <2>1
  <2> QED  BY <2>1, <2>2
<1>8. EventTypes'
  BY <1>7 DEF ChangeValue, EventTypes
<1> QED  BY <1>3, <1>8, AsideTyped DEF ChangeValue, maps, worker

\* A handler is registered, with a call for every object.
LEMMA RegisterHandlerTyped == ASSUME TInv, RegisterHandler PROVE TInv'
<1> USE TParts
<1>1. PICK order \in Bijection(1..Cardinality(Object), Object) :
         handlers' = Append(handlers, [i \in DOMAIN order |-> [obj |-> order[i], vals |-> value[order[i]]]])
  BY ZenonT(30) DEF RegisterHandler
<1>2. Cardinality(Object) \in Nat
  BY WatcherAssumption
<1>3. order \in [1..Cardinality(Object) -> Object]
  BY DEF Bijection, Injection
<1> DEFINE calls == [i \in DOMAIN order |-> [obj |-> order[i], vals |-> value[order[i]]]]
<1>4. calls \in Seq(Call)
  <2>1. DOMAIN order = 1..Cardinality(Object)
    BY <1>3
  <2>2. \A i \in 1..Cardinality(Object) : [obj |-> order[i], vals |-> value[order[i]]] \in Call
    BY <1>3 DEF Call, UserTypes
  <2> QED  BY <1>2, <2>1, <2>2
<1> HIDE DEF calls
<1>5. handlers' = Append(handlers, calls)
  BY <1>1 DEF calls
<1>6. handlers' \in Seq(Seq(Call)) /\ Len(handlers') = Len(handlers) + 1 /\ Len(handlers) \in Nat
  BY <1>4, <1>5 DEF EventTypes
<1>7. EventTypes'
  BY <1>6, WatcherAssumption DEF RegisterHandler, EventTypes
<1>8. UserTypes'
  BY DEF RegisterHandler, UserTypes, users, bounds
<1> QED  BY <1>7, <1>8, AsideTyped DEF RegisterHandler, maps, worker

\* mapper is called, compares and returns.
LEMMA MapperTyped ==
    ASSUME TInv, (\E h \in DOMAIN handlers : MapperCall(h)) \/ (\E p \in Path : MapperCompare(p)) \/ MapperReturn
    PROVE  TInv'
<1> USE TParts
<1>1. ASSUME NEW h \in DOMAIN handlers, MapperCall(h) PROVE TInv'
  <2> DEFINE c == Head(handlers[h])
             r == Key(c.obj)
  <2>1. handlers[h] \in Seq(Call) /\ handlers[h] # <<>>
    BY <1>1 DEF MapperCall, EventTypes
  <2>2. c \in Call /\ Tail(handlers[h]) \in Seq(Call)
    BY <2>1
  <2>3. r \in Resource /\ paths[r] \in SUBSET Path /\ c.vals \in Content
    BY <2>2 DEF Key, Resource, MapTypes, Call
  <2> HIDE DEF c, r
  <2>4. /\ handlers' = [handlers EXCEPT ![h] = Tail(@)]
        /\ mapping' = IF paths[r] = {} THEN None
                      ELSE [res |-> r, vals |-> c.vals, todo |-> paths[r], copy |-> None, hits |-> {}]
    BY <1>1 DEF MapperCall, c, r
  <2>5. handlers' \in Seq(Seq(Call)) /\ Len(handlers') = Len(handlers)
    BY <2>2, <2>4 DEF EventTypes
  <2>6. mapping' \in Mapping \cup {None}
    BY <2>3, <2>4 DEF Mapping
  <2>7. EventTypes' /\ UserTypes'
    BY <1>1, <2>5, <2>6 DEF MapperCall, EventTypes, UserTypes, users, bounds
  <2> QED  BY <1>1, <2>7, AsideTyped DEF MapperCall, maps, worker
<1>2. ASSUME NEW p \in Path, MapperCompare(p) PROVE TInv'
  <2> DEFINE w == <<mapping.res, p>>
             changed == data[w] # None /\ data[w].data # mapping.vals[p]
             new == IF changed THEN [watch |-> w, entry |-> data[w]] ELSE None
  <2>1. mapping \in Mapping /\ w \in Watch
    BY <1>2 DEF MapperCompare, EventTypes, Mapping, Watch
  <2>2. new \in Copy \cup {None}
    BY <2>1 DEF Copy, MapTypes
  <2>3. mapping' = [mapping EXCEPT !.todo = @ \ {p}, !.copy = new]
    BY <1>2 DEF MapperCompare
  <2> HIDE DEF w, changed, new
  <2>4. mapping' \in Mapping
    BY ZenonT(30), <2>1, <2>2, <2>3 DEF Mapping
  <2>5. EventTypes' /\ UserTypes'
    BY ZenonT(30), <1>2, <2>4 DEF MapperCompare, EventTypes, UserTypes, users, bounds, events
  <2> QED  BY ZenonT(30), <1>2, <2>5, AsideTyped DEF MapperCompare, maps, worker
<1>3. CASE MapperReturn
  <2>1. mapping.hits \subseteq SRM
    BY <1>3 DEF MapperReturn, EventTypes, Mapping
  <2>2. UserTypes' /\ EventTypes'
    BY <1>3, <2>1 DEF MapperReturn, UserTypes, EventTypes, users, bounds, events
  <2> QED  BY <1>3, <2>2, AsideTyped DEF MapperReturn, maps, worker
<1> QED  BY <1>1, <1>2, <1>3

\* mapper stores a value in its copy of an entry.
LEMMA MapperStoreTyped == ASSUME TInv, MapperStore PROVE TInv'
<1> USE TParts
<1>1. mapping \in Mapping /\ mapping.copy \in Copy
  BY DEF MapperStore, EventTypes, Mapping
<1>2. PICK w \in Watch, e \in Entry, m \in Values :
         w = mapping.copy.watch /\ e = mapping.copy.entry /\ m = mapping.vals[w[2]]
  BY <1>1 DEF Copy, Watch, Mapping, Content
<1>3. /\ data' = [data EXCEPT ![w] = [e EXCEPT !.data = m]]
      /\ mapping' = [mapping EXCEPT !.hits = @ \cup Range(e.names), !.copy = None]
      /\ UNCHANGED <<users, queue, seen, paths, events, worker, bounds>>
  BY <1>2 DEF MapperStore
<1>4. [e EXCEPT !.data = m] \in Entry /\ Range(e.names) \subseteq SRM
  BY DEF Range, Entry
<1>5. data' \in [Watch -> Entry \cup {None}]
  BY <1>3, <1>4 DEF MapTypes
<1>6. mapping' \in Mapping
  BY ZenonT(30), <1>1, <1>3, <1>4 DEF Mapping
<1>7. UserTypes' /\ EventTypes' /\ MapTypes'
  BY <1>3, <1>5, <1>6 DEF UserTypes, EventTypes, MapTypes, users, events, bounds
<1>8. WorkerTypes' /\ Holding'
  BY <1>3 DEF WorkerTypes, Holding, worker
<1> QED  BY <1>7, <1>8 DEF TInv

\* The worker takes a request.
LEMMA ReconcileTyped == ASSUME TInv, NEW s \in SRM, Reconcile(s) PROVE TInv'
<1> USE TParts
<1>1. UserTypes' /\ EventTypes' /\ MapTypes'
  BY DEF Reconcile, UserTypes, EventTypes, MapTypes, users, events, maps, bounds
<1>2. copy = None
  BY DEF Reconcile, Holding
<1>3. WorkerTypes' /\ Holding'
  BY <1>2 DEF Reconcile, WorkerTypes, Holding, UserTypes, worker
<1> QED  BY <1>1, <1>3 DEF TInv

\* What the steps of the two loops leave alone.
LEMMA LoopTypes ==
    ASSUME TInv, UNCHANGED <<users, queue, seen, events, bounds>>
    PROVE  UserTypes' /\ (mapping' = mapping => EventTypes') /\ UNCHANGED <<listed, queue>>
  BY DEF TInv, UserTypes, EventTypes, users, events, bounds

\* An entry is copied if it names the module, or nobody.
LEMMA VisitEntryTyped == ASSUME TInv, VisitEntry PROVE TInv'
<1> USE TParts
<1>1. PICK w \in visit :
         /\ visit' = visit \ {w}
         /\ copy' = IF \/ w \notin want /\ Registered(srm, w)
                       \/ data[w] # None /\ data[w].names = <<>>
                    THEN [watch |-> w, entry |-> data[w]] ELSE None
  BY DEF VisitEntry
<1>2. pc = "remove" /\ UNCHANGED <<paths, data, mapping, pc, srm, want, adding>>
  BY DEF VisitEntry, maps
<1>3. w \in Watch /\ (data[w] # None => data[w] \in Entry)
  BY DEF WorkerTypes, MapTypes
<1>4. copy' # None => /\ copy' \in Copy /\ copy'.entry = data[w]
                      /\ data[w].names = <<>> \/ srm \in Range(data[w].names)
  BY <1>1, <1>3 DEF Registered, Copy
<1>5. UserTypes' /\ EventTypes' /\ MapTypes'
  BY <1>2, LoopTypes DEF VisitEntry, MapTypes
<1>6. WorkerTypes' /\ Holding'
  BY <1>1, <1>2, <1>4 DEF WorkerTypes, Holding
<1> QED  BY <1>5, <1>6 DEF TInv

\* A name is removed that is there, and a copy that mapper holds keeps its length.
LEMMA DropNameTyped == ASSUME TInv, DropName PROVE TInv'
<1> USE TParts
<1>1. PICK w \in Watch, c \in Entry : w = copy.watch /\ c = copy.entry
  BY DEF DropName, WorkerTypes, Copy
<1>2. PICK e : e = [c EXCEPT !.names = Without(@, srm)]
  OBVIOUS
<1>3. /\ pc = "remove" /\ copy # None /\ c.names # <<>>
      /\ data' = [data EXCEPT ![w] = e]
      /\ copy' = IF e.names = <<>> THEN [copy EXCEPT !.entry = e] ELSE None
      /\ UNCHANGED <<paths, pc, srm, want, visit, adding>>
  BY <1>1, <1>2 DEF DropName
<1>4. c.names \in Seq(SRM) /\ srm \in Range(c.names)
  BY <1>1, <1>3 DEF Holding, Entry
<1>5. Without(c.names, srm) \in Seq(SRM)
  BY <1>4, WithoutTyped
<1>6. e \in Entry
  BY <1>2, <1>5 DEF Entry
<1>7. MapTypes'
  BY <1>3, <1>6 DEF MapTypes
<1>8. copy' # None => copy' \in Copy /\ copy'.entry.names = <<>>
  BY <1>3, <1>6 DEF WorkerTypes, Copy
<1>9. WorkerTypes' /\ Holding'
  BY <1>3, <1>8 DEF WorkerTypes, Holding
<1>10. EventTypes'
  <2>1. CASE mapping # None /\ mapping.copy # None /\ mapping.copy.watch = w
    <3>1. mapping \in Mapping
      BY <2>1 DEF EventTypes
    <3>2. PICK k \in Copy : k = mapping.copy
      BY <2>1, <3>1 DEF Mapping
    <3>3. PICK f \in Entry : f = k.entry
      BY DEF Copy
    <3>4. mapping' = [mapping EXCEPT !.copy.entry.names = Shifted(@, srm)]
      BY <1>1, <2>1 DEF DropName
    <3>5. mapping' = [mapping EXCEPT !.copy = [k EXCEPT !.entry = [f EXCEPT !.names = Shifted(f.names, srm)]]]
      BY <3>2, <3>3, <3>4
    <3>6. Shifted(f.names, srm) \in Seq(SRM)
      BY ShiftedTyped DEF Entry
    <3>7. [f EXCEPT !.names = Shifted(f.names, srm)] \in Entry
      BY <3>6 DEF Entry
    <3>8. [k EXCEPT !.entry = [f EXCEPT !.names = Shifted(f.names, srm)]] \in Copy
      BY <3>7 DEF Copy
    <3>9. mapping' \in Mapping
      BY ZenonT(30), <3>1, <3>5, <3>8 DEF Mapping
    <3> QED  BY <3>9 DEF DropName, EventTypes, events
  <2>2. CASE ~(mapping # None /\ mapping.copy # None /\ mapping.copy.watch = w)
    BY <1>1, <2>2, LoopTypes DEF DropName
  <2> QED  BY <2>1, <2>2
<1>11. UserTypes'
  BY LoopTypes DEF DropName
<1> QED  BY <1>7, <1>9, <1>10, <1>11 DEF TInv

\* An entry without names goes, and its path with it.
LEMMA DropEntryTyped == ASSUME TInv, DropEntry PROVE TInv'
<1> USE TParts
<1>1. PICK w \in Watch : w = copy.watch
  BY DEF DropEntry, WorkerTypes, Copy
<1>2. /\ data' = [data EXCEPT ![w] = None]
      /\ paths' = [paths EXCEPT ![w[1]] = @ \ {w[2]}]
      /\ copy' = None
      /\ UNCHANGED <<mapping, pc, srm, want, visit, adding>>
  BY <1>1 DEF DropEntry
<1>3. MapTypes' /\ WorkerTypes' /\ Holding'
  BY <1>2 DEF MapTypes, WorkerTypes, Holding, Watch
<1>4. UserTypes' /\ EventTypes'
  BY <1>2, LoopTypes DEF DropEntry
<1> QED  BY <1>3, <1>4 DEF TInv

\* From one loop to the next.
LEMMA LoopDoneTyped == ASSUME TInv, RemovalDone \/ AdditionDone PROVE TInv'
<1> USE TParts
<1>1. /\ copy = None /\ pc # "idle" /\ pc' \in {"add", "read"} /\ visit' = want
      /\ UNCHANGED <<mapping, paths, data, srm, want, copy, adding>>
  BY DEF RemovalDone, AdditionDone, Goto, maps, Holding
<1>2. UserTypes' /\ EventTypes'
  BY <1>1, LoopTypes DEF RemovalDone, AdditionDone
<1>3. MapTypes' /\ WorkerTypes' /\ Holding'
  BY <1>1, WatcherAssumption DEF MapTypes, WorkerTypes, Holding
<1> QED  BY <1>2, <1>3 DEF TInv

\* The worker lets go of a module.
LEMMA DoneTyped ==
    ASSUME TInv, Done, UserTypes', UNCHANGED <<paths, data, starting, handlers, mapping>>
    PROVE  TInv'
  BY DEF TInv, Done, EventTypes, MapTypes, WorkerTypes, Holding

\* ctrl.Watch is called, or the request fails.
LEMMA TryAddTyped == ASSUME TInv, TryAddResourceToWatch PROVE TInv'
<1> USE TParts
<1>1. PICK w \in visit :
         \/ /\ Registered(srm, w)
            /\ visit' = visit \ {w}
            /\ UNCHANGED <<queue, starting, pc, srm, want, copy, adding, faults>>
         \/ /\ ~Registered(srm, w)
            /\ starting + Len(handlers) < MaxHandlers
            /\ starting' = starting + 1
            /\ adding' = w
            /\ UNCHANGED <<queue, pc, srm, want, visit, copy, faults>>
         \/ /\ ~Registered(srm, w)
            /\ Fails
            /\ UNCHANGED starting
  BY DEF TryAddResourceToWatch
<1>2. /\ pc = "add"
      /\ UNCHANGED <<spec, listed, value, seen, paths, data, handlers, mapping, edits, changes, restarts>>
  BY DEF TryAddResourceToWatch, users, maps
<1>3. CASE /\ visit' = visit \ {w}
           /\ UNCHANGED <<queue, starting, pc, srm, want, copy, adding, faults>>
  <2>1. UserTypes' /\ EventTypes' /\ MapTypes'
    BY <1>2, <1>3 DEF UserTypes, EventTypes, MapTypes
  <2>2. WorkerTypes' /\ Holding'
    BY <1>3 DEF WorkerTypes, Holding
  <2> QED  BY <2>1, <2>2 DEF TInv
<1>4. CASE /\ starting + Len(handlers) < MaxHandlers
           /\ starting' = starting + 1 /\ adding' = w
           /\ UNCHANGED <<queue, pc, srm, want, visit, copy, faults>>
  <2>1. EventTypes'
    BY <1>2, <1>4, WatcherAssumption DEF EventTypes
  <2>2. UserTypes' /\ MapTypes'
    BY <1>2, <1>4 DEF UserTypes, MapTypes
  <2>3. WorkerTypes' /\ Holding'
    BY <1>1, <1>4 DEF WorkerTypes, Holding
  <2> QED  BY <2>1, <2>2, <2>3 DEF TInv
<1>5. CASE Fails /\ UNCHANGED starting
  <2>1. srm \in SRM
    BY <1>2 DEF WorkerTypes
  <2>2. UserTypes'
    BY <1>2, <1>5, <2>1, WatcherAssumption DEF Fails, UserTypes
  <2> QED  BY <1>2, <1>5, <2>2, DoneTyped DEF Fails
<1> QED  BY <1>1, <1>3, <1>4, <1>5

\* addToWatched adds the path and the name.
LEMMA AddToWatchedTyped == ASSUME TInv, AddToWatched PROVE TInv'
<1> USE TParts
<1>1. PICK w \in Watch : w = adding
  BY DEF AddToWatched, WorkerTypes
<1>2. srm \in SRM /\ UNCHANGED <<mapping, pc, srm, want, copy>> /\ visit' = visit \ {w} /\ adding' = None
  BY <1>1 DEF AddToWatched, WorkerTypes
<1>3. PICK e : e = IF data[w] = None THEN [data |-> None, names |-> <<srm>>]
                   ELSE [data[w] EXCEPT !.names = Append(@, srm)]
  OBVIOUS
<1>4. data' = [data EXCEPT ![w] = e] /\ paths' = [paths EXCEPT ![w[1]] = @ \cup {w[2]}]
  BY <1>1, <1>3 DEF AddToWatched
<1>5. e \in Entry
  <2>1. CASE data[w] = None
    BY <1>2, <1>3, <2>1, OneName DEF Entry
  <2>2. CASE data[w] # None
    <3>1. PICK c \in Entry : c = data[w]
      BY <2>2 DEF MapTypes
    <3>2. Append(c.names, srm) \in Seq(SRM)
      BY <1>2 DEF Entry
    <3>3. e = [c EXCEPT !.names = Append(c.names, srm)]
      BY <1>3, <2>2, <3>1
    <3> QED  BY ZenonT(30), <3>2, <3>3 DEF Entry
  <2> QED  BY <2>1, <2>2
<1>6. MapTypes'
  BY <1>4, <1>5 DEF MapTypes, Watch
<1>7. WorkerTypes' /\ Holding'
  BY <1>2 DEF WorkerTypes, Holding
<1>8. UserTypes' /\ EventTypes'
  BY <1>2, LoopTypes DEF AddToWatched
<1> QED  BY <1>6, <1>7, <1>8 DEF TInv

\* The objects are read; then the worker is done, or something failed.
LEMMA GetOCPVersionsTyped == ASSUME TInv, GetOCPVersions PROVE TInv'
<1> USE TParts
<1>1. /\ pc = "read" /\ srm \in SRM
      /\ UNCHANGED <<spec, listed, value, paths, data, starting, handlers, mapping, edits, changes, restarts>>
  BY DEF GetOCPVersions, WorkerTypes, users, maps, events
<1>2. CASE \E w \in visit :
            /\ seen' = [seen EXCEPT ![srm][w] = Current(w)]
            /\ visit' = visit \ {w}
            /\ UNCHANGED <<queue, pc, srm, want, copy, adding, faults>>
  <2>1. PICK w \in visit : seen' = [seen EXCEPT ![srm][w] = Current(w)] /\ visit' = visit \ {w}
    BY ZenonT(30), <1>2
  <2>2. UNCHANGED <<queue, pc, srm, want, copy, adding, faults>>
    BY <1>2
  <2>3. w \in Watch /\ w[1] \in Resource /\ w[2] \in Path
    BY DEF WorkerTypes, Watch
  <2>4. Current(w) \subseteq Values
    BY <2>3 DEF Current, Resource, UserTypes, Content
  <2>5. UserTypes'
    BY <1>1, <2>1, <2>2, <2>3, <2>4 DEF UserTypes
  <2>6. EventTypes' /\ MapTypes'
    BY <1>1 DEF EventTypes, MapTypes
  <2>7. WorkerTypes' /\ Holding'
    BY <2>1, <2>2 DEF WorkerTypes, Holding
  <2> QED  BY <2>5, <2>6, <2>7 DEF TInv
<1>3. CASE Fails /\ UNCHANGED seen
  <2>1. UserTypes'
    BY <1>1, <1>3, WatcherAssumption DEF Fails, UserTypes
  <2> QED  BY <1>1, <1>3, <2>1, DoneTyped DEF Fails
<1>4. CASE Done /\ UNCHANGED <<queue, seen, faults>>
  <2>1. UserTypes'
    BY <1>1, <1>4 DEF UserTypes
  <2> QED  BY <1>1, <1>4, <2>1, DoneTyped
<1> QED  BY <1>2, <1>3, <1>4 DEF GetOCPVersions

\* After a restart nothing is registered and every module is queued.
LEMMA RestartTyped == ASSUME TInv, Restart PROVE TInv'
<1> USE TParts
<1>1. UserTypes'
  BY WatcherAssumption DEF Restart, UserTypes
<1>2. EventTypes'
  <2>1. <<>> \in Seq(Seq(Call)) /\ Len(<<>>) = 0
    OBVIOUS
  <2> QED  BY <2>1, WatcherAssumption DEF Restart, EventTypes
<1>3. MapTypes' /\ WorkerTypes' /\ Holding'
  BY DEF Restart, Done, MapTypes, WorkerTypes, Holding
<1> QED  BY <1>1, <1>2, <1>3 DEF TInv

\* Every step of users, handlers and the worker keeps the types.
LEMMA TypesKept == ASSUME TInv, [Next]_vars PROVE TInv'
<1>1. CASE \E s \in SRM : EditSpec(s) \/ SyncSpec(s)
  <2>1. PICK s \in SRM : EditSpec(s) \/ SyncSpec(s)
    BY <1>1
  <2> QED  BY <2>1, UsersTyped
<1>2. CASE \E s \in SRM : Reconcile(s)
  BY <1>2, ReconcileTyped
<1>3. CASE \E o \in Object : ChangeValue(o)
  BY <1>3, ChangesTyped
<1>4. CASE RegisterHandler
  BY <1>4, RegisterHandlerTyped
<1>5. CASE (\E h \in DOMAIN handlers : MapperCall(h)) \/ (\E p \in Path : MapperCompare(p)) \/ MapperReturn
  BY <1>5, MapperTyped
<1>6. CASE MapperStore
  BY <1>6, MapperStoreTyped
<1>7. CASE VisitEntry \/ DropName \/ DropEntry
  BY <1>7, VisitEntryTyped, DropNameTyped, DropEntryTyped
<1>8. CASE RemovalDone \/ AdditionDone
  BY <1>8, LoopDoneTyped
<1>9. CASE TryAddResourceToWatch \/ AddToWatched
  BY <1>9, TryAddTyped, AddToWatchedTyped
<1>10. CASE GetOCPVersions
  BY <1>10, GetOCPVersionsTyped
<1>11. CASE Restart
  BY <1>11, RestartTyped
<1>12. CASE UNCHANGED vars
  <2>1. /\ UNCHANGED <<spec, listed, value, queue, seen, starting, handlers, mapping, edits, changes, faults, restarts>>
        /\ UNCHANGED <<paths, data, pc, srm, want, visit, copy, adding>>
    BY <1>12 DEF vars, users, maps, events, worker, bounds
  <2>2. UserTypes' /\ EventTypes'
    BY <2>1 DEF TInv, UserTypes, EventTypes
  <2> QED  BY <2>1, <2>2, AsideTyped
<1> QED  BY <1>1, <1>2, <1>3, <1>4, <1>5, <1>6, <1>7, <1>8, <1>9, <1>10, <1>11, <1>12
         DEF Next, Mapper, ReconcileWatches

\* A race is noted by the step that writes a map, and forgotten by a restart only.
LEMMA RacesAreNoted ==
    ASSUME RacedType, [Next]_vars
    PROVE  RacedType' /\ (Restart \/ (raced => raced'))
<1>1. CASE MapperStore \/ DropName \/ DropEntry
  BY <1>1 DEF MapperStore, DropName, DropEntry, RacedType
<1>2. CASE Restart
  BY <1>2 DEF Restart, RacedType
<1>3. CASE ~(MapperStore \/ DropName \/ DropEntry \/ Restart)
  <2>1. raced' = raced
    BY <1>3 DEF Next, EditSpec, SyncSpec, Reconcile, ChangeValue, RegisterHandler, MapperCall, Mapper,
                MapperCompare, MapperReturn, ReconcileWatches, VisitEntry, RemovalDone,
                TryAddResourceToWatch, AddToWatched, AdditionDone, GetOCPVersions, vars
  <2> QED  BY <2>1 DEF RacedType
<1> QED  BY <1>1, <1>2, <1>3

\* Maps, calls of mapper and the pass keep their types, whatever races: in particular
\* the removal loop finds the name it removes in its copy of the entry.
THEOREM TypeCorrect == Spec => []TypeOK
<1>1. Init => TInv /\ RacedType
  BY InitiallyTyped
<1>2. TInv /\ RacedType /\ [Next]_vars => TInv' /\ RacedType'
  BY TypesKept, RacesAreNoted
<1>3. TInv /\ RacedType => TypeOK
  BY IsTyped
<1> QED  BY <1>1, <1>2, <1>3, PTL DEF Spec

-----------------------------------------------------------------------------
(* Maps and registrations, until there is a race *)

\* The parts of the invariant.
LEMMA IParts ==
    IInv => /\ TInv /\ UserTypes /\ EventTypes /\ MapTypes /\ WorkerTypes /\ Holding
            /\ Copied /\ Agree /\ Adding /\ Progress /\ Settled
  BY DEF IInv, TInv, Sound

\* Nothing is watched when the process starts.
LEMMA Initially == ASSUME Init PROVE IInv
<1>1. TInv
  BY InitiallyTyped
<1>2. Copied /\ Adding /\ Progress
  BY DEF Init, Copied, Adding, Progress
<1>3. Agree /\ Settled
  BY DEF Init, Agree, Settled, Watch
<1> QED  BY <1>1, <1>2, <1>3 DEF IInv, Sound

\* Steps of others, which leave the maps and the worker alone.
LEMMA Aside ==
    ASSUME IInv, UNCHANGED <<paths, data, pc, srm, want, visit, copy, adding>>,
           Copied', queue \subseteq queue',
           \A s \in SRM : listed'[s] = listed[s] \/ s \in queue'
    PROVE  Sound'
<1> USE IParts
<1>1. Agree'
  BY DEF Agree
<1>2. Adding' /\ Progress'
  BY DEF Adding, Progress, Registered
<1>3. Settled'
  BY DEF Settled, Registered, WorkerTypes
<1> QED  BY <1>1, <1>2, <1>3 DEF Sound

\* Users edit specs, the informer sees them; objects change, handlers are registered.
LEMMA UsersKeep ==
    ASSUME IInv, \/ \E s \in SRM : EditSpec(s) \/ SyncSpec(s)
                 \/ \E o \in Object : ChangeValue(o)
                 \/ RegisterHandler
    PROVE  Sound'
<1> USE IParts
<1>1. UNCHANGED <<paths, data, mapping, pc, srm, want, visit, copy, adding>> /\ queue \subseteq queue'
  BY DEF EditSpec, SyncSpec, ChangeValue, RegisterHandler, maps, worker
<1>2. \A t \in SRM : listed'[t] = listed[t] \/ t \in queue'
  BY DEF EditSpec, SyncSpec, ChangeValue, RegisterHandler, users, UserTypes
<1>3. Copied'
  BY <1>1 DEF Copied
<1> QED  BY <1>1, <1>2, <1>3, Aside

\* mapper is called, compares and returns.
LEMMA MapperKeeps ==
    ASSUME IInv, (\E h \in DOMAIN handlers : MapperCall(h)) \/ (\E p \in Path : MapperCompare(p)) \/ MapperReturn
    PROVE  Sound'
<1> USE IParts
<1>1. /\ UNCHANGED <<listed, paths, data, pc, srm, want, visit, copy, adding>>
      /\ queue \subseteq queue'
  BY DEF MapperCall, MapperCompare, MapperReturn, maps, worker, users
<1>2. mapping' # None /\ mapping'.copy # None => mapping'.copy.entry = data[mapping'.copy.watch]
  <2>1. ASSUME NEW h \in DOMAIN handlers, MapperCall(h) PROVE mapping' # None => mapping'.copy = None
    BY <2>1 DEF MapperCall
  <2>2. ASSUME NEW p \in Path, MapperCompare(p), mapping'.copy # None
        PROVE  mapping'.copy.entry = data[mapping'.copy.watch]
    <3>1. PICK w, new :
             /\ w = <<mapping.res, p>>
             /\ new = IF data[w] # None /\ data[w].data # mapping.vals[p]
                      THEN [watch |-> w, entry |-> data[w]] ELSE None
      OBVIOUS
    <3>2. mapping' = [mapping EXCEPT !.todo = @ \ {p}, !.copy = new]
      BY <2>2, <3>1 DEF MapperCompare
    <3>3. mapping \in Mapping
      BY <2>2 DEF MapperCompare, EventTypes
    <3>4. mapping'.copy = new
      BY <3>2, <3>3 DEF Mapping
    <3>5. new = [watch |-> w, entry |-> data[w]]
      BY <2>2, <3>1, <3>4
    <3> QED  BY <3>4, <3>5
  <2>3. MapperReturn => mapping' = None
    BY DEF MapperReturn
  <2> QED  BY <2>1, <2>2, <2>3
<1>3. Copied'
  BY <1>1, <1>2 DEF Copied
<1> QED  BY <1>1, <1>3, Aside

\* mapper stores a value: the entry it writes back has the names that are there.
LEMMA MapperStoreKeeps == ASSUME IInv, MapperStore, ~raced' PROVE Sound'
<1> USE IParts
<1>1. mapping \in Mapping /\ mapping.copy \in Copy
  BY DEF MapperStore, EventTypes, Mapping
<1>2. PICK w \in Watch, e \in Entry, m \in Values :
         w = mapping.copy.watch /\ e = mapping.copy.entry /\ m = mapping.vals[w[2]]
  BY <1>1 DEF Copy, Watch, Mapping, Content
<1>3. data[w] = e /\ data[w] # None
  BY <1>2, WatcherAssumption DEF MapperStore, Copied
<1>4. PICK new : new = [e EXCEPT !.data = m]
  OBVIOUS
<1>5. new \in Entry /\ new # None /\ new.names = data[w].names
  BY <1>3, <1>4, WatcherAssumption DEF Entry
<1>6. /\ data' = [data EXCEPT ![w] = new]
      /\ mapping' = [mapping EXCEPT !.hits = @ \cup Range(e.names), !.copy = None]
      /\ UNCHANGED <<listed, queue, paths, pc, srm, want, visit, copy, adding>>
  BY <1>2, <1>4 DEF MapperStore, users, worker
<1>7. \A x \in Watch : /\ data'[x] # None <=> data[x] # None
                       /\ data[x] # None => data'[x].names = data[x].names
  BY <1>3, <1>5, <1>6 DEF MapTypes
<1>8. mapping'.copy = None
  BY <1>1, <1>6 DEF Mapping
<1>9. pc # "remove" /\ copy = None
  BY DEF MapperStore, Holding
<1>10. \A s, x : x \in Watch => (Registered(s, x)' <=> Registered(s, x))
  BY <1>7 DEF Registered
<1>11. Copied'
  BY <1>6, <1>8, <1>9 DEF Copied
<1>12. Agree'
  BY <1>6, <1>7, <1>9 DEF Agree
<1>13. Adding' /\ Progress'
  <2>1. adding # None => adding \in Watch
    BY DEF WorkerTypes
  <2>2. Adding'
    BY <1>6, <1>10, <2>1 DEF Adding
  <2>3. Progress'
    BY <1>6, <1>10 DEF Progress
  <2> QED  BY <2>2, <2>3
<1>14. Settled'
  BY <1>6, <1>10 DEF Settled
<1> QED  BY <1>11, <1>12, <1>13, <1>14 DEF Sound

\* The worker lets go of a module that is queued again, or has its registrations.
LEMMA DoneKeeps ==
    ASSUME IInv, Done, UNCHANGED <<paths, data, listed, mapping>>,
           copy = None, queue \subseteq queue', pc = "read" \/ srm \in queue', pc # "idle"
    PROVE  Sound'
<1> USE IParts
<1>1. Copied' /\ Agree' /\ Adding' /\ Progress'
  BY DEF Done, Copied, Agree, Adding, Progress
<1>2. Settled'
  <2> SUFFICES ASSUME NEW s \in SRM, s \notin queue', listed[s] # None, NEW w \in Watch
               PROVE  Registered(s, w) <=> w \in listed[s]
    BY DEF Settled, Done, Registered
  <2>1. CASE s = srm
    BY <2>1 DEF Settled, Progress
  <2>2. CASE s # srm
    BY <2>2 DEF Settled
  <2> QED  BY <2>1, <2>2
<1> QED  BY <1>1, <1>2 DEF Sound

\* The worker takes a request: all registrations are to be visited.
LEMMA ReconcileKeeps == ASSUME IInv, NEW s \in SRM, Reconcile(s) PROVE Sound'
<1> USE IParts
<1>1. /\ pc = "idle" /\ srm = None /\ copy = None /\ adding = None /\ queue' = queue \ {s}
      /\ UNCHANGED <<listed, paths, data, mapping>>
  BY DEF Reconcile, WorkerTypes, Holding, Adding, users, maps
<1>2. \A t, w : Registered(t, w)' <=> Registered(t, w)
  BY <1>1 DEF Registered
<1>3. CASE listed[s] = None /\ UNCHANGED worker
  <2>1. UNCHANGED <<pc, srm, want, visit, copy, adding>>
    BY <1>3 DEF worker
  <2>2. Copied' /\ Agree' /\ Adding' /\ Progress'
    BY <1>1, <2>1 DEF Copied, Agree, Adding, Progress
  <2>3. Settled'
    BY <1>1, <1>2, <1>3, <2>1 DEF Settled
  <2> QED  BY <2>2, <2>3 DEF Sound
<1>4. CASE /\ listed[s] # None
           /\ pc' = "remove" /\ srm' = s /\ want' = listed[s]
           /\ visit' = {w \in Watch : data[w] # None}
           /\ UNCHANGED <<copy, adding>>
  <2>1. Copied' /\ Agree' /\ Adding'
    BY <1>1, <1>4 DEF Copied, Agree, Adding
  <2>2. Progress'
    BY <1>2, <1>4 DEF Progress, Registered
  <2>3. Settled'
    <3>1. \A t \in SRM : t # srm
      BY <1>1, WatcherAssumption
    <3> QED  BY <1>1, <1>2, <1>4, <3>1 DEF Settled
  <2> QED  BY <2>1, <2>2, <2>3 DEF Sound
<1> QED  BY <1>3, <1>4 DEF Reconcile

\* An entry is copied if the module is to be removed from it.
LEMMA VisitEntryKeeps == ASSUME IInv, VisitEntry PROVE Sound'
<1> USE IParts
<1>1. PICK w \in visit :
         /\ visit' = visit \ {w}
         /\ copy' = IF \/ w \notin want /\ Registered(srm, w)
                       \/ data[w] # None /\ data[w].names = <<>>
                    THEN [watch |-> w, entry |-> data[w]] ELSE None
  BY DEF VisitEntry
<1>2. pc = "remove" /\ copy = None /\ UNCHANGED <<paths, data, mapping, pc, srm, want, adding, listed, queue>>
  BY DEF VisitEntry, maps, users
<1>3. w \in Watch /\ (data[w] # None => data[w] \in Entry)
  BY DEF WorkerTypes, MapTypes
<1>4. copy' # None => /\ copy'.watch = w /\ copy'.entry = data[w]
                      /\ data[w].names = <<>> \/ w \notin want
  BY <1>1
<1>5. w \notin want /\ Registered(srm, w) => copy' # None /\ copy'.watch = w
  <2> SUFFICES ASSUME w \notin want /\ Registered(srm, w) PROVE copy' # None /\ copy'.watch = w
    OBVIOUS
  <2>1. copy' = [watch |-> w, entry |-> data[w]] /\ data[w] \in Entry
    BY <1>1, <1>3 DEF Registered
  <2>2. copy' \in Copy
    BY <1>3, <2>1 DEF Copy
  <2> QED  BY <2>1, <2>2, WatcherAssumption
<1>6. Copied'
  BY <1>2, <1>4 DEF Copied
<1>7. Agree' /\ Adding'
  BY <1>2 DEF Agree, Adding
<1>8. Progress'
  BY <1>1, <1>2, <1>5 DEF Progress, Registered
<1>9. Settled'
  BY <1>2 DEF Settled, Registered
<1> QED  BY <1>6, <1>7, <1>8, <1>9 DEF Sound

\* The name of the module is removed, and of no other.
LEMMA DropNameKeeps == ASSUME IInv, DropName, ~raced' PROVE Sound'
<1> USE IParts
<1>1. PICK w \in Watch, c \in Entry : w = copy.watch /\ c = copy.entry
  BY DEF DropName, WorkerTypes, Copy
<1>2. PICK e : e = [c EXCEPT !.names = Without(@, srm)]
  OBVIOUS
<1>3. /\ pc = "remove" /\ copy # None /\ c.names # <<>> /\ mapping = None
      /\ data' = [data EXCEPT ![w] = e]
      /\ copy' = IF e.names = <<>> THEN [copy EXCEPT !.entry = e] ELSE None
      /\ UNCHANGED <<mapping, paths, pc, srm, want, visit, adding, listed, queue>>
  BY <1>1, <1>2 DEF DropName, users
<1>4. data[w] = c /\ w \notin want /\ srm \in Range(c.names)
  BY <1>1, <1>3 DEF Copied, Holding
<1>5. c.names \in Seq(SRM) /\ IsInjective(c.names) /\ data[w] # None
  BY <1>1, <1>4, WatcherAssumption DEF Entry, Agree
<1>6. /\ Without(c.names, srm) \in Seq(SRM)
      /\ IsInjective(Without(c.names, srm))
      /\ \A t : t \in Range(Without(c.names, srm)) <=> t \in Range(c.names) /\ t # srm
  BY <1>4, <1>5, RemoveName
<1>7. e \in Entry /\ e.names = Without(c.names, srm)
  BY <1>2, <1>6 DEF Entry
<1>8. e # None
  BY <1>7, WatcherAssumption
<1>9. data'[w] = e /\ \A x \in Watch : x # w => data'[x] = data[x]
  BY <1>3 DEF MapTypes
<1>10. copy' # None => copy'.watch = w /\ copy'.entry = e /\ e.names = <<>>
  BY <1>1, <1>3 DEF WorkerTypes, Copy
<1>11. e.names = <<>> => copy' # None
  <2>1. [copy EXCEPT !.entry = e] \in Copy
    BY <1>3, <1>7 DEF WorkerTypes, Copy
  <2> QED  BY <1>3, <2>1, WatcherAssumption
<1>12. \A t : Registered(t, w)' <=> Registered(t, w) /\ t # srm
  BY <1>4, <1>5, <1>6, <1>7, <1>8, <1>9 DEF Registered
<1>13. \A t : \A x \in Watch : x # w => (Registered(t, x)' <=> Registered(t, x))
  BY <1>9 DEF Registered
<1>14. Copied' /\ Adding'
  BY <1>3, <1>9, <1>10 DEF Copied, Adding
<1>15. Agree'
  <2> SUFFICES ASSUME NEW x \in Watch
               PROVE  /\ x[2] \in paths[x[1]] <=> data'[x] # None
                      /\ data'[x] # None => /\ IsInjective(data'[x].names)
                                            /\ data'[x].names # <<>> \/ (copy' # None /\ copy'.watch = x)
    BY <1>3 DEF Agree
  <2>1. CASE x = w
    BY <1>5, <1>6, <1>7, <1>8, <1>9, <1>10, <1>11, <2>1 DEF Agree
  <2>2. CASE x # w
    BY <1>1, <1>9, <2>2 DEF Agree
  <2> QED  BY <2>1, <2>2
<1>16. Progress'
  BY <1>1, <1>3, <1>12, <1>13 DEF Progress
<1>17. Settled'
  BY <1>3, <1>12, <1>13 DEF Settled
<1> QED  BY <1>14, <1>15, <1>16, <1>17 DEF Sound

\* An entry without names goes, and its path with it.
LEMMA DropEntryKeeps == ASSUME IInv, DropEntry, ~raced' PROVE Sound'
<1> USE IParts
<1>1. PICK w \in Watch : w = copy.watch
  BY DEF DropEntry, WorkerTypes, Copy
<1>2. /\ pc = "remove" /\ copy # None /\ copy.entry.names = <<>> /\ mapping = None
      /\ data' = [data EXCEPT ![w] = None]
      /\ paths' = [paths EXCEPT ![w[1]] = @ \ {w[2]}]
      /\ copy' = None
      /\ UNCHANGED <<mapping, pc, srm, want, visit, adding, listed, queue>>
  BY <1>1 DEF DropEntry, users
<1>3. copy.entry = data[w] /\ \A t : ~Registered(t, w)
  BY <1>1, <1>2 DEF Copied, Registered, Range
<1>4. data'[w] = None /\ \A x \in Watch : x # w => data'[x] = data[x]
  BY <1>2 DEF MapTypes
<1>5. \A t : \A x \in Watch : Registered(t, x)' <=> Registered(t, x)
  BY <1>3, <1>4 DEF Registered
<1>6. /\ w[2] \notin paths'[w[1]]
      /\ \A x \in Watch : x # w => (x[2] \in paths'[x[1]] <=> x[2] \in paths[x[1]])
  BY <1>2 DEF MapTypes, Watch
<1>7. Copied' /\ Adding'
  BY <1>2 DEF Copied, Adding
<1>8. Agree'
  BY <1>1, <1>4, <1>6 DEF Agree
<1>9. Progress'
  BY <1>1, <1>2, <1>3, <1>5 DEF Progress
<1>10. Settled'
  BY <1>2, <1>5 DEF Settled
<1> QED  BY <1>7, <1>8, <1>9, <1>10 DEF Sound

\* From one loop to the next.
LEMMA LoopDoneKeeps == ASSUME IInv, RemovalDone \/ AdditionDone PROVE Sound'
<1> USE IParts
<1>1. /\ visit = {} /\ copy = None /\ adding = None
      /\ \/ pc = "remove" /\ pc' = "add"
         \/ pc = "add" /\ pc' = "read"
      /\ visit' = want
      /\ UNCHANGED <<mapping, paths, data, srm, want, copy, adding, listed, queue>>
  BY DEF RemovalDone, AdditionDone, Goto, maps, users, Adding, Holding
<1>2. Copied' /\ Agree' /\ Adding'
  BY <1>1 DEF Copied, Agree, Adding
<1>3. Progress' /\ Settled'
  BY <1>1 DEF Progress, Settled, Registered
<1> QED  BY <1>2, <1>3 DEF Sound

\* ctrl.Watch is called for a watch that is not registered.
LEMMA TryAddKeeps == ASSUME IInv, TryAddResourceToWatch PROVE Sound'
<1> USE IParts
<1>1. PICK w \in visit :
         \/ /\ Registered(srm, w)
            /\ visit' = visit \ {w}
            /\ UNCHANGED <<queue, starting, pc, srm, want, copy, adding, faults>>
         \/ /\ ~Registered(srm, w)
            /\ starting + Len(handlers) < MaxHandlers
            /\ starting' = starting + 1
            /\ adding' = w
            /\ UNCHANGED <<queue, pc, srm, want, visit, copy, faults>>
         \/ /\ ~Registered(srm, w)
            /\ Fails
            /\ UNCHANGED starting
  BY DEF TryAddResourceToWatch
<1>2. pc = "add" /\ adding = None /\ copy = None /\ UNCHANGED <<listed, paths, data, mapping>>
  BY DEF TryAddResourceToWatch, Holding, users, maps
<1>3. w \in want
  BY <1>2 DEF Adding
<1>4. CASE /\ Registered(srm, w) /\ visit' = visit \ {w}
           /\ UNCHANGED <<queue, pc, srm, want, copy, adding>>
  <2>1. Copied' /\ Agree' /\ Adding'
    BY <1>2, <1>4 DEF Copied, Agree, Adding
  <2>2. Progress' /\ Settled'
    BY <1>2, <1>4 DEF Progress, Settled, Registered
  <2> QED  BY <2>1, <2>2 DEF Sound
<1>5. CASE /\ ~Registered(srm, w) /\ adding' = w
           /\ UNCHANGED <<queue, pc, srm, want, visit, copy>>
  <2>1. Copied' /\ Agree' /\ Adding'
    BY <1>2, <1>5 DEF Copied, Agree, Adding, Registered
  <2>2. Progress' /\ Settled'
    BY <1>2, <1>5 DEF Progress, Settled, Registered
  <2> QED  BY <2>1, <2>2 DEF Sound
<1>6. CASE Fails
  BY <1>2, <1>6, DoneKeeps DEF Fails
<1> QED  BY <1>1, <1>4, <1>5, <1>6

\* addToWatched adds the path and the name.
LEMMA AddToWatchedKeeps == ASSUME IInv, AddToWatched PROVE Sound'
<1> USE IParts
<1>1. PICK w \in Watch : w = adding
  BY DEF AddToWatched, WorkerTypes
<1>2. PICK e : e = IF data[w] = None THEN [data |-> None, names |-> <<srm>>]
                   ELSE [data[w] EXCEPT !.names = Append(@, srm)]
  OBVIOUS
<1>3. /\ pc = "add" /\ adding # None /\ mapping = None /\ copy = None
      /\ paths' = [paths EXCEPT ![w[1]] = @ \cup {w[2]}]
      /\ data' = [data EXCEPT ![w] = e]
      /\ visit' = visit \ {w} /\ adding' = None
      /\ UNCHANGED <<mapping, pc, srm, want, copy, listed, queue>>
  BY <1>1, <1>2 DEF AddToWatched, Holding, users
<1>4. srm \in SRM /\ w \in want /\ ~Registered(srm, w)
  BY <1>1, <1>3 DEF WorkerTypes, Adding
<1>5. /\ e # None /\ IsInjective(e.names) /\ e.names # <<>>
      /\ \A t : t \in Range(e.names) <=> Registered(t, w) \/ t = srm
  <2>1. CASE data[w] = None
    <3>1. e = [data |-> None, names |-> <<srm>>] /\ e.names = <<srm>>
      BY <1>2, <2>1
    <3>2. e \in Entry
      BY <1>4, <3>1, OneName DEF Entry
    <3> QED  BY <1>4, <2>1, <3>1, <3>2, OneName, WatcherAssumption DEF Registered
  <2>2. CASE data[w] # None
    <3>1. PICK c \in Entry : c = data[w]
      BY <2>2 DEF MapTypes
    <3>2. c.names \in Seq(SRM) /\ IsInjective(c.names) /\ srm \notin Range(c.names)
      BY <1>4, <2>2, <3>1 DEF Agree, Entry, Registered
    <3>3. e = [c EXCEPT !.names = Append(@, srm)] /\ e.names = Append(c.names, srm)
      BY <1>2, <2>2, <3>1 DEF Entry
    <3>4. /\ e.names \in Seq(SRM) /\ e.names # <<>> /\ IsInjective(e.names)
          /\ \A t : t \in Range(e.names) <=> t \in Range(c.names) \/ t = srm
      BY <1>4, <3>2, <3>3, AddName
    <3>5. e \in Entry
      BY ZenonT(30), <3>3, <3>4 DEF Entry
    <3> QED  BY <2>2, <3>1, <3>4, <3>5, WatcherAssumption DEF Registered
  <2> QED  BY <2>1, <2>2
<1>6. data'[w] = e /\ \A x \in Watch : x # w => data'[x] = data[x]
  BY <1>3 DEF MapTypes
<1>7. /\ \A t : Registered(t, w)' <=> Registered(t, w) \/ t = srm
      /\ \A t : \A x \in Watch : x # w => (Registered(t, x)' <=> Registered(t, x))
  BY <1>5, <1>6 DEF Registered
<1>8. /\ w[2] \in paths'[w[1]]
      /\ \A x \in Watch : x # w => (x[2] \in paths'[x[1]] <=> x[2] \in paths[x[1]])
  BY <1>3 DEF MapTypes, Watch
<1>9. Copied' /\ Adding'
  BY <1>3 DEF Copied, Adding
<1>10. Agree'
  BY <1>3, <1>5, <1>6, <1>8 DEF Agree
<1>11. Progress'
  BY <1>3, <1>4, <1>7 DEF Progress
<1>12. Settled'
  BY <1>3, <1>7 DEF Settled
<1> QED  BY <1>9, <1>10, <1>11, <1>12 DEF Sound

\* The objects are read; then the worker is done, or something failed.
LEMMA GetOCPVersionsKeeps == ASSUME IInv, GetOCPVersions PROVE Sound'
<1> USE IParts
<1>1. pc = "read" /\ copy = None /\ UNCHANGED <<listed, paths, data, mapping>>
  BY DEF GetOCPVersions, Holding, users, maps
<1>2. CASE UNCHANGED <<queue, pc, srm, want, copy, adding>>
  <2>1. Copied' /\ Agree' /\ Adding'
    BY <1>1, <1>2 DEF Copied, Agree, Adding
  <2>2. Progress' /\ Settled'
    BY <1>1, <1>2 DEF Progress, Settled, Registered
  <2> QED  BY <2>1, <2>2 DEF Sound
<1>3. CASE Fails
  BY <1>1, <1>3, DoneKeeps DEF Fails
<1>4. CASE Done /\ UNCHANGED queue
  BY <1>1, <1>4, DoneKeeps
<1> QED  BY <1>2, <1>3, <1>4 DEF GetOCPVersions

\* After a restart nothing is registered and every module is queued, races forgotten.
LEMMA RestartKeeps == ASSUME TInv, Restart PROVE Sound'
<1>1. Copied' /\ Adding' /\ Progress'
  BY DEF Restart, Done, Copied, Adding, Progress
<1>2. Agree'
  BY DEF Restart, Agree, Watch
<1>3. Settled'
  BY DEF Restart, Done, Settled
<1> QED  BY <1>1, <1>2, <1>3 DEF Sound

\* Every step that is not itself a race keeps the invariant.
LEMMA SoundKept == ASSUME IInv, [Next]_vars, ~raced' PROVE IInv'
<1>0. TInv'
  BY TypesKept DEF IInv
<1> SUFFICES Sound'
  BY <1>0 DEF IInv
<1>1. CASE (\E s \in SRM : EditSpec(s) \/ SyncSpec(s)) \/ (\E o \in Object : ChangeValue(o)) \/ RegisterHandler
  BY <1>1, UsersKeep
<1>2. CASE \E s \in SRM : Reconcile(s)
  BY <1>2, ReconcileKeeps
<1>3. CASE (\E h \in DOMAIN handlers : MapperCall(h)) \/ (\E p \in Path : MapperCompare(p)) \/ MapperReturn
  BY <1>3, MapperKeeps
<1>4. CASE MapperStore
  BY <1>4, MapperStoreKeeps
<1>5. CASE VisitEntry \/ DropName \/ DropEntry
  BY <1>5, VisitEntryKeeps, DropNameKeeps, DropEntryKeeps
<1>6. CASE RemovalDone \/ AdditionDone
  BY <1>6, LoopDoneKeeps
<1>7. CASE TryAddResourceToWatch \/ AddToWatched
  BY <1>7, TryAddKeeps, AddToWatchedKeeps
<1>8. CASE GetOCPVersions
  BY <1>8, GetOCPVersionsKeeps
<1>9. CASE Restart
  BY <1>9, RestartKeeps DEF IInv
<1>10. CASE UNCHANGED vars
  <2>1. UNCHANGED <<listed, queue, mapping, paths, data, pc, srm, want, visit, copy, adding>>
    BY <1>10 DEF vars, users, maps, worker
  <2>2. Copied'
    BY <2>1 DEF IInv, Sound, Copied
  <2> QED  BY <2>1, <2>2, Aside
<1> QED  BY <1>1, <1>2, <1>3, <1>4, <1>5, <1>6, <1>7, <1>8, <1>9, <1>10
         DEF Next, Mapper, ReconcileWatches

\* What holds always, races or not.
UnlessRaced == TInv /\ RacedType /\ (raced \/ IInv)

\* Every step keeps the invariant, or is or follows a race; a restart ends that.
LEMMA Inductive == UnlessRaced /\ [Next]_vars => UnlessRaced'
<1> SUFFICES ASSUME UnlessRaced, [Next]_vars, ~raced' PROVE UnlessRaced'
  BY TypesKept, RacesAreNoted DEF UnlessRaced
<1>1. TInv' /\ RacedType' /\ (Restart \/ ~raced)
  BY TypesKept, RacesAreNoted DEF UnlessRaced
<1>2. CASE Restart
  BY <1>1, <1>2, RestartKeeps DEF UnlessRaced, IInv
<1>3. CASE ~raced
  BY <1>1, <1>3, SoundKept DEF UnlessRaced
<1> QED  BY <1>1, <1>2, <1>3

-----------------------------------------------------------------------------
(* What follows from it *)

\* addToWatched, mapper and the removal loop keep the two maps in agreement, until
\* mapper and that loop have written a map under each other.
THEOREM MapsStayInAgreement == Spec => []MapsAgree
<1>1. UnlessRaced => MapsAgree
  BY DEF UnlessRaced, IInv, Sound, Agree, MapsAgree
<1>2. Init => UnlessRaced
  BY Initially, InitiallyTyped DEF UnlessRaced
<1> QED  BY <1>1, <1>2, Inductive, PTL DEF Spec

\* At rest ReconcileWatches has registered every module for the watches of its spec
\* and for no other, whatever failed before, until mapper and the removal loop have
\* written a map under each other.
THEOREM RegistrationsFollowSpecs == Spec => []RegistrationsMatchSpecs
<1>1. UnlessRaced => RegistrationsMatchSpecs
  <2> SUFFICES ASSUME UnlessRaced, ~raced, Quiescent PROVE RegistrationsMatchSpecs
    BY DEF RegistrationsMatchSpecs
  <2>1. WorkerTypes /\ Settled
    BY IParts DEF UnlessRaced
  <2> QED  BY <2>1, WatcherAssumption DEF WorkerTypes, Settled, Quiescent, RegistrationsMatchSpecs
<1>2. Init => UnlessRaced
  BY Initially, InitiallyTyped DEF UnlessRaced
<1> QED  BY <1>1, <1>2, Inductive, PTL DEF Spec

\* DropName writes back the names of an entry without that of the module at hand.
LEMMA DropNameTakes ==
    ASSUME IInv, DropName, NEW s, NEW x \in Watch, Registered(s, x), ~Registered(s, x)'
    PROVE  pc = "remove" /\ s = srm /\ x \notin want
<1> USE IParts
<1>0. PICK w \in Watch : w = copy.watch
  BY DEF DropName, WorkerTypes, Copy
<1>1. PICK c \in Entry : c = copy.entry
  BY DEF DropName, WorkerTypes, Copy
<1>2. /\ pc = "remove" /\ copy # None /\ c.names # <<>>
      /\ data' = [data EXCEPT ![w] = [c EXCEPT !.names = Without(@, srm)]]
  BY <1>0, <1>1 DEF DropName
<1>3. data[w] = c /\ w \notin want /\ srm \in Range(c.names)
  BY <1>0, <1>1, <1>2 DEF Copied, Holding
<1>4. c.names \in Seq(SRM) /\ IsInjective(c.names)
  BY <1>1, <1>3, WatcherAssumption DEF Entry, Agree
<1>5. /\ Without(c.names, srm) \in Seq(SRM)
      /\ \A t : t \in Range(Without(c.names, srm)) <=> t \in Range(c.names) /\ t # srm
  BY <1>3, <1>4, RemoveName
<1>6. PICK e : e = [c EXCEPT !.names = Without(@, srm)]
  OBVIOUS
<1>7. e \in Entry /\ e.names = Without(c.names, srm) /\ e # None
  BY <1>1, <1>5, <1>6, WatcherAssumption DEF Entry
<1>8. data'[w] = e /\ (x # w => data'[x] = data[x])
  BY <1>2, <1>6 DEF MapTypes
<1>9. x = w
  BY <1>8 DEF Registered
<1> QED  BY <1>2, <1>3, <1>5, <1>7, <1>8, <1>9 DEF Registered

\* The other steps that write an entry take nobody's name from it: DropEntry (which
\* finds none), mapper and addToWatched.
LEMMA OthersTakeNone ==
    ASSUME IInv, DropEntry \/ MapperStore \/ AddToWatched, NEW s, NEW x \in Watch, Registered(s, x)
    PROVE  Registered(s, x)'
<1> USE IParts
<1>0. data \in [Watch -> Entry \cup {None}]
  BY DEF MapTypes
<1>1. CASE DropEntry
  <2>1. PICK w \in Watch : w = copy.watch
    BY <1>1 DEF DropEntry, WorkerTypes, Copy
  <2>2. ~Registered(s, w) /\ data' = [data EXCEPT ![w] = None]
    BY <1>1, <2>1 DEF DropEntry, Copied, Registered, Range
  <2> QED  BY <1>0, <2>2 DEF Registered
<1>2. CASE MapperStore
  <2>1. PICK w \in Watch, e \in Entry, m \in Values :
           w = mapping.copy.watch /\ e = mapping.copy.entry /\ m = mapping.vals[w[2]]
    BY <1>2 DEF MapperStore, EventTypes, Mapping, Copy, Watch, Content
  <2>2. data[w] = e /\ data' = [data EXCEPT ![w] = [e EXCEPT !.data = m]]
    BY <1>2, <2>1 DEF MapperStore, Copied
  <2>3. PICK new : new = [e EXCEPT !.data = m]
    OBVIOUS
  <2>4. new \in Entry /\ new.names = e.names /\ new # None
    BY <2>1, <2>3, WatcherAssumption DEF Entry
  <2>5. data'[w] = new /\ (x # w => data'[x] = data[x])
    BY <1>0, <2>2, <2>3
  <2> QED  BY <2>2, <2>4, <2>5 DEF Registered
<1>3. CASE AddToWatched
  <2>1. PICK w \in Watch : w = adding
    BY <1>3 DEF AddToWatched, WorkerTypes
  <2>2. CASE x # w
    BY <1>0, <1>3, <2>1, <2>2 DEF AddToWatched, Registered
  <2>3. CASE x = w
    <3>1. PICK c \in Entry : c = data[w] /\ c # None
      BY <1>0, <2>3 DEF Registered
    <3>2. data'[w] = [c EXCEPT !.names = Append(@, srm)]
      BY <1>0, <1>3, <2>1, <3>1 DEF AddToWatched
    <3>3. srm \in SRM /\ srm \notin Range(c.names) /\ c.names \in Seq(SRM) /\ IsInjective(c.names)
      BY <1>3, <2>1, <3>1 DEF AddToWatched, WorkerTypes, Adding, Registered, Agree, Entry
    <3>4. PICK new : new = [c EXCEPT !.names = Append(@, srm)]
      OBVIOUS
    <3>5. new.names = Append(c.names, srm)
      BY <3>1, <3>4 DEF Entry
    <3>6. new.names \in Seq(SRM) /\ \A t \in Range(c.names) : t \in Range(new.names)
      BY <3>3, <3>5, AddName
    <3>7. new \in Entry /\ new # None
      BY ZenonT(30), <3>1, <3>4, <3>5, <3>6, WatcherAssumption DEF Entry
    <3> QED  BY <2>3, <3>1, <3>2, <3>4, <3>6, <3>7 DEF Registered
  <2> QED  BY <2>2, <2>3
<1> QED  BY <1>1, <1>2, <1>3

\* The removal loop of ReconcileWatches takes the name of its module from the entries
\* of watches that the module no longer has, and nobody else's name from any, until
\* mapper and that loop have written a map under each other.
THEOREM PassesTakeTheirOwn == Spec => OthersStayRegistered
<1> DEFINE Own == ~raced' => \A s \in SRM, w \in Watch :
                    Registered(s, w) /\ ~Registered(s, w)' =>
                        restarts' > restarts \/ (pc = "remove" /\ s = srm /\ w \notin want)
<1>1. UnlessRaced /\ [Next]_vars => [Own]_vars
  <2> SUFFICES ASSUME UnlessRaced, Next, ~raced', NEW s \in SRM, NEW w \in Watch,
                      Registered(s, w), ~Registered(s, w)'
               PROVE  restarts' > restarts \/ (pc = "remove" /\ s = srm /\ w \notin want)
    OBVIOUS
  <2>1. CASE Restart
    <3>1. restarts \in Nat /\ restarts' = restarts + 1
      BY <2>1, WatcherAssumption DEF Restart, UnlessRaced, TInv, UserTypes
    <3> QED  BY <3>1
  <2>2. CASE ~Restart
    <3>1. IInv
      BY <2>2, RacesAreNoted DEF UnlessRaced
    <3>2. CASE DropName
      BY <3>1, <3>2, DropNameTakes
    <3>3. CASE DropEntry \/ MapperStore \/ AddToWatched
      BY <3>1, <3>3, OthersTakeNone
    <3>4. data' # data
      BY DEF Registered
    <3> QED  BY <2>2, <3>2, <3>3, <3>4 DEF Next, EditSpec, SyncSpec, Reconcile, ChangeValue, RegisterHandler,
                MapperCall, Mapper, MapperCompare, MapperReturn, ReconcileWatches, VisitEntry, RemovalDone,
                TryAddResourceToWatch, AdditionDone, GetOCPVersions, maps
  <2> QED  BY <2>1, <2>2
<1>2. Init => UnlessRaced
  BY Initially, InitiallyTyped DEF UnlessRaced
<1> QED  BY <1>1, <1>2, Inductive, PTL DEF Spec, OthersStayRegistered

-----------------------------------------------------------------------------
(* No change is missed *)

\* Either the watches of the kind all lack a name or none does: mapper finds the
\* entry without a name first and then does not look for the one with the name.
Unmixed == (\E w \in Watches : w[1] = AnyName) => \A w \in Watches : w[1] = AnyName

\* A call of mapper that finds another value for w than the stored one.
Differs(c, w) == w[1] \in {c.obj, AnyName} /\ c.vals[w[2]] # data[w].data

\* What will put module s on the queue for watch w: a call to come, a
\* comparison to come, a value to store, a module to return, and, before there
\* is any handler, one that is starting.
Delivery(w)  == \E h \in DOMAIN handlers : \E i \in DOMAIN handlers[h] : Differs(handlers[h][i], w)
Comparing(w) == /\ mapping # None
                /\ mapping.res = w[1] /\ w[2] \in mapping.todo
                /\ mapping.vals[w[2]] # data[w].data
Storing(w)   == mapping # None /\ mapping.copy # None /\ mapping.copy.watch = w
Hit(s)       == mapping # None /\ s \in mapping.hits
Starting     == handlers = <<>> /\ starting > 0 /\ Object # {}

\* What s has seen is there, or s will look again.
Watching(s, w) ==
    \/ seen[s][w] = Current(w)
    \/ Delivery(w) \/ Comparing(w) \/ Storing(w) \/ Hit(s) \/ Starting

\* There is a handler, or one is starting, for what is registered; only handlers
\* store values.
Handled ==
    /\ (adding # None \/ \E w \in Watch : data[w] # None) => starting + Len(handlers) > 0
    /\ handlers = <<>> => mapping = None /\ \A w \in Watch : data[w] # None => data[w].data = None

\* Only what users write is registered.
Written == \A w \in Watch : data[w] # None => w \in Watches

\* A module that is neither queued nor at hand is watching, and so is the one at
\* hand for the watches it has read.
Looked ==
    /\ \A s \in SRM : s \notin queue /\ s # srm /\ listed[s] # None =>
          \A w \in listed[s] : Watching(s, w)
    /\ pc = "read" => srm \in queue \/ \A w \in want \ visit : Watching(srm, w)

LInv == Unmixed /\ IInv /\ Handled /\ Written /\ Looked

\* The parts of the invariant.
LEMMA Parts ==
    LInv => /\ IInv /\ TInv /\ UserTypes /\ EventTypes /\ MapTypes /\ WorkerTypes /\ Holding
            /\ Copied /\ Agree /\ Adding /\ Progress /\ Settled
            /\ Unmixed /\ Handled /\ Written /\ Looked
  BY IParts DEF LInv

\* Reconcile and mapper: a step after which every registered module that was
\* watching still is, or is queued.
LEMMA LookedOn ==
    ASSUME IInv, Looked, queue \subseteq queue', srm' = srm,
           \A s \in SRM : listed'[s] = listed[s] \/ s \in queue',
           pc' = "read" => pc = "read" /\ UNCHANGED <<want, visit>>,
           \A s \in SRM : \A w \in Watch : Registered(s, w) /\ Watching(s, w) => Watching(s, w)' \/ s \in queue'
    PROVE  Looked'
<1> USE IParts
<1>1. ASSUME NEW s \in SRM, s \notin queue', s # srm', listed'[s] # None, NEW w \in listed'[s]
      PROVE  Watching(s, w)'
  <2>1. listed'[s] = listed[s] /\ s \notin queue /\ s # srm
    BY <1>1
  <2>2. w \in Watch
    BY <1>1, <2>1, WatcherAssumption DEF UserTypes
  <2>3. Registered(s, w)
    BY <1>1, <2>1, <2>2 DEF Settled
  <2>4. Watching(s, w)
    BY <1>1, <2>1 DEF Looked
  <2> QED  BY <1>1, <2>2, <2>3, <2>4
<1>2. ASSUME pc' = "read", srm \notin queue', NEW w \in want' \ visit' PROVE Watching(srm, w)'
  <2>1. pc = "read" /\ w \in want \ visit /\ srm \in SRM /\ srm \notin queue
    BY <1>2 DEF WorkerTypes
  <2>2. w \in Watch /\ Registered(srm, w)
    BY <2>1, WatcherAssumption DEF WorkerTypes, Progress
  <2>3. Watching(srm, w)
    BY <2>1 DEF Looked
  <2>4. PICK s \in SRM : s = srm
    BY <2>1
  <2>5. Watching(s, w)'
    BY <1>2, <2>2, <2>3, <2>4
  <2>6. s = srm'
    BY <2>4
  <2> QED  BY <2>5, <2>6
<1> QED  BY <1>1, <1>2 DEF Looked

\* Steps that leave objects, handlers and mapper alone keep a module watching.
LEMMA WatchingOn ==
    ASSUME NEW s, NEW w, UNCHANGED <<value, seen, handlers, mapping>>,
           starting > 0 => starting' > 0, data'[w].data = data[w].data, Watching(s, w)
    PROVE  Watching(s, w)'
<1>1. Current(w)' = Current(w)
  BY DEF Current
<1> QED  BY <1>1 DEF Watching, Delivery, Differs, Comparing, Storing, Hit, Starting

\* Nothing is registered when the process starts.
LEMMA LookedInitially == ASSUME Unmixed, Init PROVE LInv
<1>1. IInv
  BY Initially
<1>2. Handled /\ Written /\ Looked
  BY DEF Init, Handled, Written, Looked, Watch
<1> QED  BY <1>1, <1>2 DEF LInv

\* Users edit specs and the informer sees them, which queues the module.
LEMMA UsersLook == ASSUME LInv, NEW s \in SRM, EditSpec(s) \/ SyncSpec(s) PROVE (Handled /\ Written /\ Looked)'
<1> USE Parts
<1>1. /\ UNCHANGED <<value, seen, paths, data, starting, handlers, mapping, pc, srm, want, visit, copy, adding>>
      /\ queue \subseteq queue'
  BY DEF EditSpec, SyncSpec, maps, events, worker
<1>2. \A t \in SRM : listed'[t] = listed[t] \/ t \in queue'
  BY DEF EditSpec, SyncSpec, UserTypes
<1>3. Handled' /\ Written'
  BY <1>1 DEF Handled, Written
<1>4. ASSUME NEW t \in SRM, NEW w \in Watch, Watching(t, w) PROVE Watching(t, w)'
  BY <1>1, <1>4, WatchingOn
<1>5. Looked'
  BY <1>1, <1>2, <1>4, LookedOn
<1> QED  BY <1>3, <1>5

\* An object changes: of the old and the new version one is not the stored one.
LEMMA ChangesLook == ASSUME LInv, NEW o \in Object, ChangeValue(o) PROVE (Handled /\ Written /\ Looked)'
<1> USE Parts
<1>1. PICK p \in Path, v \in Values :
         /\ [value[o] EXCEPT ![p] = v] # value[o]
         /\ value' = [value EXCEPT ![o] = [value[o] EXCEPT ![p] = v]]
         /\ handlers' = [h \in DOMAIN handlers |-> handlers[h] \o
                           <<[obj |-> o, vals |-> value[o]], [obj |-> o, vals |-> [value[o] EXCEPT ![p] = v]]>>]
  BY ZenonT(30) DEF ChangeValue
<1>2. UNCHANGED <<listed, queue, seen, paths, data, starting, mapping, pc, srm, want, visit, copy, adding>>
  BY DEF ChangeValue, maps, worker
<1>3. PICK new \in Content : new = [value[o] EXCEPT ![p] = v]
  BY ZenonT(30) DEF UserTypes, Content
<1>4. value[o] \in Content /\ new[p] # value[o][p] /\ \A q \in Path : q # p => new[q] = value[o][q]
  BY <1>1, <1>3 DEF UserTypes, Content
<1>5. PICK a \in Call : a = [obj |-> o, vals |-> value[o]]
  BY ZenonT(30), <1>4 DEF Call
<1>6. PICK b \in Call : b = [obj |-> o, vals |-> new]
  BY ZenonT(30) DEF Call
<1>7. handlers' = [h \in DOMAIN handlers |-> handlers[h] \o <<a, b>>] /\ value' = [value EXCEPT ![o] = new]
  BY <1>1, <1>3, <1>5, <1>6
<1>8. ASSUME NEW h \in DOMAIN handlers
      PROVE  /\ Len(handlers[h]) \in Nat /\ DOMAIN handlers'[h] = 1..(Len(handlers[h]) + 2)
             /\ DOMAIN handlers[h] = 1..Len(handlers[h])
             /\ \A i \in DOMAIN handlers[h] : handlers'[h][i] = handlers[h][i]
             /\ handlers'[h][Len(handlers[h]) + 1] = a /\ handlers'[h][Len(handlers[h]) + 2] = b
  <2>1. handlers[h] \in Seq(Call) /\ handlers'[h] = handlers[h] \o <<a, b>>
    BY <1>7 DEF EventTypes
  <2> QED  BY <2>1
<1>9. DOMAIN handlers' = DOMAIN handlers
  BY <1>7
<1>10. handlers \in Seq(Seq(Call)) /\ handlers' \in Seq(Seq(Call)) /\ Len(handlers') = Len(handlers)
  <2>1. TInv'
    BY ChangesTyped
  <2>2. handlers \in Seq(Seq(Call)) /\ handlers' \in Seq(Seq(Call))
    BY <2>1 DEF EventTypes, TInv
  <2> QED  BY <1>9, <2>2
<1>11. handlers' = <<>> <=> handlers = <<>>
  BY <1>10
<1>12. Handled' /\ Written'
  BY <1>2, <1>10, <1>11 DEF Handled, Written
<1>13. ASSUME NEW s \in SRM, NEW w \in Watch, Registered(s, w), Watching(s, w) PROVE Watching(s, w)'
  <2>1. w[1] \in Resource /\ w[2] \in Path
    BY DEF Watch
  <2>2. CASE Delivery(w)
    <3>1. PICK h \in DOMAIN handlers : \E i \in DOMAIN handlers[h] : Differs(handlers[h][i], w)
      BY <2>2 DEF Delivery
    <3>2. PICK i \in DOMAIN handlers[h] : Differs(handlers[h][i], w)
      BY <3>1
    <3>3. i \in DOMAIN handlers'[h] /\ handlers'[h][i] = handlers[h][i] /\ h \in DOMAIN handlers'
      BY <1>8, <1>9
    <3>4. Differs(handlers[h][i], w)'
      BY <1>2, <3>2, <3>3 DEF Differs
    <3> QED  BY <3>3, <3>4 DEF Watching, Delivery
  <2>3. CASE Comparing(w) \/ Storing(w) \/ Hit(s) \/ Starting
    BY <1>2, <1>11, <2>3 DEF Watching, Comparing, Storing, Hit, Starting
  <2>4. CASE seen[s][w] = Current(w) /\ ~(w[1] \in {o, AnyName} /\ w[2] = p)
    <3>1. Current(w)' = Current(w)
      <4>1. CASE w[1] = AnyName
        <5>1. \A x \in Object : value'[x][w[2]] = value[x][w[2]]
          BY <1>4, <1>7, <2>1, <2>4, <4>1 DEF UserTypes
        <5> QED  BY <4>1, <5>1 DEF Current
      <4>2. CASE w[1] # AnyName
        <5>1. value'[w[1]][w[2]] = value[w[1]][w[2]]
          BY <1>4, <1>7, <2>1, <2>4, <4>2 DEF UserTypes, Resource
        <5> QED  BY <4>2, <5>1 DEF Current
      <4> QED  BY <4>1, <4>2
    <3> QED  BY <1>2, <2>4, <3>1 DEF Watching
  <2>5. CASE w[1] \in {o, AnyName} /\ w[2] = p /\ handlers # <<>>
    <3>1. 1 \in DOMAIN handlers
      BY <1>10, <2>5
    <3>2. a.obj = o /\ b.obj = o /\ a.vals[w[2]] # b.vals[w[2]]
      BY <1>4, <1>5, <1>6, <2>5
    <3>3. Differs(a, w)' \/ Differs(b, w)'
      BY <2>5, <3>2 DEF Differs
    <3>4. PICK n \in Nat : n = Len(handlers[1])
      BY <1>8, <3>1
    <3>5. /\ 1 \in DOMAIN handlers' /\ n + 1 \in DOMAIN handlers'[1] /\ n + 2 \in DOMAIN handlers'[1]
          /\ handlers'[1][n + 1] = a /\ handlers'[1][n + 2] = b
      BY <1>8, <1>9, <3>1, <3>4
    <3>6. Delivery(w)'
      BY <3>3, <3>5 DEF Delivery
    <3> QED  BY <3>6 DEF Watching
  <2>6. CASE handlers = <<>>
    <3>1. starting > 0
      BY <1>13, <2>6 DEF Handled, Registered, EventTypes
    <3> QED  BY <1>2, <1>11, <2>6, <3>1 DEF Watching, Starting
  <2> QED  BY <1>13, <2>2, <2>3, <2>4, <2>5, <2>6 DEF Watching
<1>14. Looked'
  BY <1>2, <1>13, LookedOn
<1> QED  BY <1>12, <1>14

\* The first handler finds a value where none is stored; others add calls.
LEMMA RegisterHandlerLooks == ASSUME LInv, RegisterHandler PROVE (Handled /\ Written /\ Looked)'
<1> USE Parts
<1>1. PICK order \in Bijection(1..Cardinality(Object), Object) :
         handlers' = Append(handlers, [i \in DOMAIN order |-> [obj |-> order[i], vals |-> value[order[i]]]])
  BY ZenonT(30) DEF RegisterHandler
<1>2. /\ UNCHANGED <<listed, value, queue, seen, paths, data, mapping, pc, srm, want, visit, copy, adding>>
      /\ starting > 0 /\ starting' = starting - 1
  BY DEF RegisterHandler, users, maps, worker
<1>3. PICK calls : calls = [i \in DOMAIN order |-> [obj |-> order[i], vals |-> value[order[i]]]]
  OBVIOUS
<1>4. \A x \in Object : \E i \in DOMAIN calls : calls[i] = [obj |-> x, vals |-> value[x]]
  BY <1>3 DEF Bijection, Injection, Surjection
<1>5. handlers \in Seq(Seq(Call)) /\ handlers' = Append(handlers, calls) /\ handlers' \in Seq(Seq(Call))
  <2>1. TInv'
    BY RegisterHandlerTyped
  <2> QED  BY <1>1, <1>3, <2>1 DEF EventTypes, TInv
<1>6. PICK n \in Nat : n = Len(handlers)
  BY <1>5
<1>7. /\ DOMAIN handlers = 1..n /\ DOMAIN handlers' = 1..(n + 1) /\ Len(handlers') = n + 1
      /\ handlers'[n + 1] = calls /\ \A h \in 1..n : handlers'[h] = handlers[h]
  <2>1. calls \in Seq(Call)
    <3>1. Len(handlers') = n + 1 /\ handlers'[n + 1] = calls
      BY <1>5, <1>6
    <3> QED  BY <1>5, <1>6, <3>1
  <2> QED  BY <1>5, <1>6, <2>1
<1>8. handlers' # <<>>
  BY <1>5, <1>7
<1>9. Handled' /\ Written'
  BY <1>2, <1>6, <1>7, <1>8 DEF Handled, Written, EventTypes
<1>10. ASSUME NEW s \in SRM, NEW w \in Watch, Registered(s, w), Watching(s, w) PROVE Watching(s, w)'
  <2>1. w[1] \in Resource /\ w[2] \in Path
    BY DEF Watch
  <2>2. CASE Delivery(w)
    <3>1. PICK h \in DOMAIN handlers : \E i \in DOMAIN handlers[h] : Differs(handlers[h][i], w)
      BY <2>2 DEF Delivery
    <3>2. PICK i \in DOMAIN handlers[h] : Differs(handlers[h][i], w)
      BY <3>1
    <3>3. h \in DOMAIN handlers' /\ handlers'[h] = handlers[h]
      BY <1>7
    <3>4. Differs(handlers[h][i], w)'
      BY <1>2, <3>2, <3>3 DEF Differs
    <3> QED  BY <3>3, <3>4 DEF Watching, Delivery
  <2>3. CASE Comparing(w) \/ Storing(w) \/ Hit(s)
    BY <1>2, <2>3 DEF Watching, Comparing, Storing, Hit
  <2>4. CASE seen[s][w] = Current(w)
    BY <1>2, <2>4 DEF Watching, Current
  <2>5. CASE Starting
    <3>1. PICK x \in Object : w[1] \in {x, AnyName}
      BY <2>1, <2>5 DEF Starting, Resource
    <3>2. PICK i \in DOMAIN calls : calls[i] = [obj |-> x, vals |-> value[x]]
      BY <1>4
    <3>3. data'[w].data = None /\ value[x][w[2]] \in Values
      BY <1>2, <1>10, <2>1, <2>5 DEF Starting, Handled, Registered, UserTypes, Content
    <3>4. value[x][w[2]] # None
      BY <3>3, WatcherAssumption
    <3>5. Differs(calls[i], w)'
      <4>1. calls[i].obj = x /\ calls[i].vals = value[x]
        BY ONLY <3>2, Fields
      <4> QED  BY <3>1, <3>3, <3>4, <4>1 DEF Differs
    <3>6. n + 1 \in DOMAIN handlers' /\ i \in DOMAIN handlers'[n + 1] /\ handlers'[n + 1][i] = calls[i]
      BY <1>7
    <3>7. Delivery(w)'
      <4>1. Differs(handlers[n + 1][i], w)'
        BY <3>5, <3>6 DEF Differs
      <4> QED  BY <3>6, <4>1 DEF Delivery
    <3> QED  BY <3>7 DEF Watching
  <2> QED  BY <1>10, <2>2, <2>3, <2>4, <2>5 DEF Watching
<1>11. Looked'
  BY <1>2, <1>10, LookedOn
<1> QED  BY <1>9, <1>11

\* mapper looks an object up where its watches are.
LEMMA KeyFound ==
    ASSUME LInv, NEW o \in Object, NEW w \in Watch, data[w] # None, w[1] \in {o, AnyName}
    PROVE  Key(o) = w[1] /\ w[2] \in paths[w[1]]
<1> USE Parts
<1>1. w[2] \in paths[w[1]] /\ w \in Watches
  BY DEF Agree, Written
<1>2. CASE w[1] = AnyName
  BY <1>1, <1>2 DEF Key
<1>3. CASE w[1] = o
  <2>1. \A p \in Path : <<AnyName, p>> \in Watch /\ <<AnyName, p>> \notin Watches
    BY <1>1, <1>3, WatcherAssumption DEF Unmixed, Watch, Resource
  <2>2. \A p \in Path : p \notin paths[AnyName]
    BY ZenonT(30), <2>1 DEF Agree, Written
  <2>3. paths[AnyName] = {}
    BY <2>2 DEF MapTypes, Resource
  <2> QED  BY <1>1, <1>3, <2>3 DEF Key
<1> QED  BY <1>2, <1>3

\* mapper is called: what the call tells it, it will compare.
LEMMA MapperCallLooks ==
    ASSUME LInv, NEW h \in DOMAIN handlers, MapperCall(h) PROVE (Handled /\ Written /\ Looked)'
<1> USE Parts
<1>1. handlers \in Seq(Seq(Call)) /\ handlers[h] \in Seq(Call) /\ handlers[h] # <<>>
  BY DEF MapperCall, EventTypes
<1>2. PICK c \in Call : c = Head(handlers[h])
  BY <1>1
<1>3. PICK rest \in Seq(Call) : rest = Tail(handlers[h])
  <2>1. Tail(handlers[h]) \in Seq(Call)
    BY <1>1
  <2> QED  BY ZenonT(30), <2>1
<1>4. PICK r \in Resource : r = Key(c.obj)
  BY DEF Call, Key, Resource
<1>5. /\ handlers' = [handlers EXCEPT ![h] = rest]
      /\ mapping' = IF paths[r] = {} THEN None
                    ELSE [res |-> r, vals |-> c.vals, todo |-> paths[r], copy |-> None, hits |-> {}]
      /\ mapping = None
      /\ UNCHANGED <<listed, value, queue, seen, paths, data, starting, pc, srm, want, visit, copy, adding>>
  BY <1>2, <1>3, <1>4 DEF MapperCall, users, maps, worker
<1>6. /\ handlers' # <<>> /\ handlers # <<>> /\ Len(handlers') = Len(handlers) /\ DOMAIN handlers' = DOMAIN handlers
      /\ handlers'[h] = rest /\ \A g \in DOMAIN handlers : g # h => handlers'[g] = handlers[g]
  BY <1>1, <1>5
<1>7. Handled' /\ Written'
  BY <1>5, <1>6 DEF Handled, Written
<1>8. ASSUME NEW s \in SRM, NEW w \in Watch, Registered(s, w), Watching(s, w) PROVE Watching(s, w)'
  <2>1. CASE seen[s][w] = Current(w)
    BY <1>5, <2>1 DEF Watching, Current
  <2>2. CASE Delivery(w)
    <3>1. PICK g \in DOMAIN handlers : \E i \in DOMAIN handlers[g] : Differs(handlers[g][i], w)
      BY <2>2 DEF Delivery
    <3>2. PICK i \in DOMAIN handlers[g] : Differs(handlers[g][i], w)
      BY <3>1
    <3>3. CASE g # h
      <4>1. Differs(handlers[g][i], w)' /\ g \in DOMAIN handlers' /\ i \in DOMAIN handlers'[g]
        BY <1>5, <1>6, <3>2, <3>3 DEF Differs
      <4> QED  BY <4>1 DEF Watching, Delivery
    <3>4. CASE g = h /\ \E j \in DOMAIN rest : rest[j] = handlers[h][i]
      <4>1. PICK j \in DOMAIN rest : rest[j] = handlers[h][i]
        BY <3>4
      <4>2. Differs(handlers[h][j], w)' /\ h \in DOMAIN handlers' /\ j \in DOMAIN handlers'[h]
        BY <1>5, <1>6, <3>2, <3>4, <4>1 DEF Differs
      <4> QED  BY <4>2 DEF Watching, Delivery
    <3>5. CASE g = h /\ handlers[h][i] = c
      <4>1. w[1] \in {c.obj, AnyName} /\ c.vals[w[2]] # data[w].data /\ c.obj \in Object
        BY <3>2, <3>5 DEF Differs, Call
      <4>2. Key(c.obj) = w[1] /\ w[2] \in paths[w[1]]
        BY <1>8, <4>1, KeyFound DEF Registered
      <4>3. mapping' = [res |-> r, vals |-> c.vals, todo |-> paths[r], copy |-> None, hits |-> {}] /\ r = w[1]
        BY <1>4, <1>5, <4>2
      <4>4. mapping' # None
        BY <4>3, WatcherAssumption DEF Mapping, Call, MapTypes
      <4>5. Comparing(w)'
        BY <1>5, <4>1, <4>2, <4>3, <4>4 DEF Comparing
      <4> QED  BY <4>5 DEF Watching
    <3> QED  BY <1>1, <1>2, <1>3, <3>3, <3>4, <3>5, InTail
  <2> QED  BY <1>5, <1>6, <1>8, <2>1, <2>2 DEF Watching, Comparing, Storing, Hit, Starting
<1>9. Looked'
  BY <1>5, <1>8, LookedOn
<1> QED  BY <1>7, <1>9

\* mapper compares: what differs, it will store.
LEMMA MapperCompareLooks ==
    ASSUME LInv, NEW p \in Path, MapperCompare(p) PROVE (Handled /\ Written /\ Looked)'
<1> USE Parts
<1> DEFINE x == <<mapping.res, p>>
           new == IF data[x] # None /\ data[x].data # mapping.vals[p] THEN [watch |-> x, entry |-> data[x]] ELSE None
<1>1. /\ mapping \in Mapping /\ mapping # None /\ mapping.copy = None
      /\ mapping' = [mapping EXCEPT !.todo = @ \ {p}, !.copy = new]
      /\ UNCHANGED <<listed, value, queue, seen, paths, data, starting, handlers, pc, srm, want, visit, copy, adding>>
  BY DEF MapperCompare, EventTypes, users, maps, events, worker
<1>2. x \in Watch /\ (new # None => new \in Copy)
  BY <1>1 DEF Mapping, Watch, Copy, MapTypes
<1>3. data[x] # None /\ data[x].data # mapping.vals[p] => new # None /\ new.watch = x
  <2>1. data[x] # None => [watch |-> x, entry |-> data[x]] \in Copy
    BY <1>2 DEF Copy, MapTypes
  <2> QED  BY <2>1, WatcherAssumption
<1> HIDE DEF new
<1>4. /\ mapping' \in Mapping /\ mapping' # None /\ mapping'.copy = new
      /\ mapping'.res = mapping.res /\ mapping'.vals = mapping.vals
      /\ mapping'.todo = mapping.todo \ {p} /\ mapping'.hits = mapping.hits
  <2>1. mapping' \in Mapping
    BY ZenonT(30), <1>1, <1>2 DEF Mapping
  <2> QED  BY ZenonT(30), <1>1, <2>1, WatcherAssumption DEF Mapping
<1>5. Handled' /\ Written'
  BY <1>1 DEF Handled, Written
<1>6. ASSUME NEW s \in SRM, NEW w \in Watch, Registered(s, w), Watching(s, w) PROVE Watching(s, w)'
  <2>1. CASE seen[s][w] = Current(w) \/ Delivery(w) \/ Hit(s) \/ Starting
    BY <1>1, <1>4, <2>1 DEF Watching, Current, Delivery, Differs, Hit, Starting
  <2>2. CASE Comparing(w) /\ w[2] # p
    BY <1>1, <1>4, <2>2 DEF Watching, Comparing
  <2>3. CASE Comparing(w) /\ w[2] = p
    <3>1. w = x
      BY <2>3 DEF Comparing, Watch
    <3>2. new # None /\ new.watch = w
      BY <1>3, <1>6, <2>3, <3>1 DEF Comparing, Registered
    <3>3. Storing(w)'
      BY <1>4, <3>2 DEF Storing
    <3> QED  BY <3>3 DEF Watching
  <2> QED  BY <1>1, <1>6, <2>1, <2>2, <2>3 DEF Watching, Storing
<1>7. Looked'
  BY <1>1, <1>6, LookedOn
<1> QED  BY <1>5, <1>7

\* mapper stores a value, and will return every module of the entry.
LEMMA MapperStoreLooks == ASSUME LInv, MapperStore PROVE (Handled /\ Written /\ Looked)'
<1> USE Parts
<1>1. mapping \in Mapping /\ mapping # None /\ mapping.copy \in Copy
  BY DEF MapperStore, EventTypes, Mapping
<1>2. PICK x \in Watch : x = mapping.copy.watch
  BY <1>1 DEF Copy
<1>3. PICK e \in Entry : e = mapping.copy.entry
  BY <1>1 DEF Copy
<1>4. data[x] = e /\ data[x] # None
  BY <1>1, <1>2, <1>3, WatcherAssumption DEF MapperStore, Copied
<1>5. PICK f \in Entry : f = [e EXCEPT !.data = mapping.vals[x[2]]]
  BY ZenonT(30), <1>1, <1>2 DEF Entry, Mapping, Watch, Content
<1>6. /\ data' = [data EXCEPT ![x] = f]
      /\ mapping' = [mapping EXCEPT !.hits = @ \cup Range(e.names), !.copy = None]
      /\ UNCHANGED <<listed, value, queue, seen, paths, starting, handlers, pc, srm, want, visit, copy, adding>>
  BY <1>2, <1>3, <1>5 DEF MapperStore, users, events, worker
<1>7. \A w \in Watch : (data'[w] # None => data[w] # None) /\ (w # x => data'[w] = data[w])
  BY <1>4, <1>6 DEF MapTypes
<1>8. /\ mapping' # None /\ mapping'.res = mapping.res /\ mapping'.vals = mapping.vals
      /\ mapping'.todo = mapping.todo /\ mapping'.hits = mapping.hits \cup Range(e.names)
  <2>1. Range(e.names) \subseteq SRM
    BY DEF Range, Entry
  <2>2. mapping' \in Mapping
    BY ZenonT(30), <1>1, <1>6, <2>1 DEF Mapping
  <2> QED  BY ZenonT(30), <1>1, <1>6, <2>2, WatcherAssumption DEF Mapping
<1>9. Handled' /\ Written'
  BY <1>1, <1>6, <1>7 DEF Handled, Written
<1>10. ASSUME NEW s \in SRM, NEW w \in Watch, Registered(s, w), Watching(s, w) PROVE Watching(s, w)'
  <2>1. CASE seen[s][w] = Current(w) \/ Hit(s) \/ Starting
    BY <1>6, <1>8, <2>1 DEF Watching, Current, Hit, Starting
  <2>2. CASE w # x
    BY <1>2, <1>6, <1>7, <1>8, <1>10, <2>1, <2>2 DEF Watching, Delivery, Differs, Comparing, Storing
  <2>3. CASE w = x
    <3>1. s \in Range(e.names) /\ e.names \in Seq(SRM)
      BY <1>4, <1>10, <2>3 DEF Registered, Entry
    <3>2. s \in Range(e.names)
      BY <3>1 DEF Range
    <3> QED  BY <1>8, <3>2 DEF Watching, Hit
  <2> QED  BY <2>2, <2>3
<1>11. Looked'
  BY <1>6, <1>10, LookedOn
<1> QED  BY <1>9, <1>11

\* mapper returns: its modules are queued.
LEMMA MapperReturnLooks == ASSUME LInv, MapperReturn PROVE (Handled /\ Written /\ Looked)'
<1> USE Parts
<1>1. /\ mapping # None /\ mapping.copy = None /\ mapping.todo = {} /\ mapping' = None
      /\ queue' = queue \cup mapping.hits
      /\ UNCHANGED <<listed, value, seen, paths, data, starting, handlers, pc, srm, want, visit, copy, adding>>
  BY DEF MapperReturn, users, maps, events, worker
<1>2. Handled' /\ Written'
  BY <1>1 DEF Handled, Written
<1>3. ASSUME NEW s \in SRM, NEW w \in Watch, Watching(s, w) PROVE Watching(s, w)' \/ s \in queue'
  <2>1. CASE seen[s][w] = Current(w) \/ Delivery(w) \/ Starting
    BY <1>1, <2>1 DEF Watching, Current, Delivery, Differs, Starting
  <2>2. CASE Hit(s)
    BY <1>1, <2>2 DEF Hit
  <2> QED  BY <1>1, <1>3, <2>1, <2>2 DEF Watching, Comparing, Storing
<1>4. Looked'
  BY <1>1, <1>3, LookedOn
<1> QED  BY <1>2, <1>4

\* The worker takes a request and is then at hand.
LEMMA ReconcileLooks == ASSUME LInv, NEW s \in SRM, Reconcile(s) PROVE (Handled /\ Written /\ Looked)'
<1> USE Parts
<1>1. /\ pc = "idle" /\ srm = None /\ queue' = queue \ {s}
      /\ UNCHANGED <<listed, value, seen, paths, data, starting, handlers, mapping, copy, adding>>
      /\ listed[s] # None => pc' = "remove" /\ srm' = s
      /\ listed[s] = None => UNCHANGED <<pc, srm>>
  BY DEF Reconcile, WorkerTypes, users, maps, events, worker
<1>2. Handled' /\ Written'
  BY <1>1 DEF Handled, Written
<1>3. ASSUME NEW t \in SRM, t \notin queue', t # srm', listed[t] # None, NEW w \in listed[t] PROVE Watching(t, w)'
  <2>1. t # s /\ t \notin queue /\ t # srm
    BY <1>1, <1>3, WatcherAssumption
  <2>2. Watching(t, w)
    BY <1>3, <2>1 DEF Looked
  <2> QED  BY <1>1, <2>2, WatchingOn
<1>4. pc' # "read"
  BY <1>1
<1>5. Looked'
  BY <1>1, <1>3, <1>4 DEF Looked
<1> QED  BY <1>2, <1>5

\* The removal loop takes the module's name from entries, and goes from one loop
\* to the next: nobody else's registrations, and no stored value, change.
LEMMA RemovalLooks ==
    ASSUME LInv, VisitEntry \/ DropName \/ DropEntry \/ RemovalDone \/ AdditionDone, ~raced'
    PROVE  (Handled /\ Written /\ Looked)'
<1> USE Parts
<1>1. UNCHANGED <<listed, value, queue, seen, starting, handlers, srm, want, adding>>
  BY DEF VisitEntry, DropName, DropEntry, RemovalDone, AdditionDone, Goto, users, events
<1>2. mapping' = mapping
  BY DEF VisitEntry, DropName, DropEntry, RemovalDone, AdditionDone
<1>3. ASSUME NEW w \in Watch
      PROVE  /\ data'[w] # None => data[w] # None /\ data'[w].data = data[w].data
             /\ data'[w] = None => \A s : ~Registered(s, w)
  <2>1. CASE VisitEntry \/ RemovalDone \/ AdditionDone
    BY <2>1 DEF VisitEntry, RemovalDone, AdditionDone, maps, Registered
  <2>2. CASE DropName
    <3>1. PICK x \in Watch : x = copy.watch
      BY <2>2 DEF DropName, WorkerTypes, Copy
    <3>2. PICK e \in Entry : e = copy.entry
      BY <2>2 DEF DropName, WorkerTypes, Copy
    <3>3. data' = [data EXCEPT ![x] = [e EXCEPT !.names = Without(@, srm)]] /\ data[x] = e
      BY <2>2, <3>1, <3>2 DEF DropName, Copied
    <3>4. data[x] # None /\ data'[x].data = data[x].data
      BY <3>2, <3>3, WatcherAssumption DEF MapTypes, Entry
    <3>5. CASE w = x
      <4>1. Agree'
        BY <2>2, DropNameKeeps DEF Sound
      <4>2. x[2] \in paths[x[1]] /\ paths' = paths
        BY <2>2, <3>4 DEF Agree, DropName
      <4>3. data'[x] # None
        BY <4>1, <4>2 DEF Agree
      <4> QED  BY <3>4, <3>5, <4>3
    <3>6. CASE w # x
      BY <3>3, <3>6 DEF MapTypes, Registered
    <3> QED  BY <3>5, <3>6
  <2>3. CASE DropEntry
    <3>1. PICK x \in Watch : x = copy.watch
      BY <2>3 DEF DropEntry, WorkerTypes, Copy
    <3>2. data' = [data EXCEPT ![x] = None] /\ data[x].names = <<>>
      BY <2>3, <3>1 DEF DropEntry, Copied
    <3>3. \A s : ~Registered(s, x)
      BY <3>2 DEF Registered, Range
    <3> QED  BY <3>2, <3>3 DEF MapTypes, Registered
  <2> QED  BY <2>1, <2>2, <2>3
<1>4. Handled' /\ Written'
  BY <1>1, <1>2, <1>3 DEF Handled, Written
<1>5. ASSUME NEW s \in SRM, NEW w \in Watch, Registered(s, w), Watching(s, w) PROVE Watching(s, w)'
  <2>1. data'[w].data = data[w].data
    BY <1>3, <1>5
  <2> QED  BY <1>1, <1>2, <1>5, <2>1, WatchingOn
<1>6. pc' # "read" => Looked'
  BY <1>1, <1>5, LookedOn
<1>7. ASSUME pc' = "read" PROVE Looked'
  <2>1. visit' = want
    BY <1>7 DEF VisitEntry, DropName, DropEntry, RemovalDone, AdditionDone, Goto
  <2>2. ASSUME NEW s \in SRM, s \notin queue, s # srm, listed[s] # None, NEW w \in listed[s] PROVE Watching(s, w)'
    <3>1. w \in Watch
      BY <2>2, WatcherAssumption DEF UserTypes
    <3>2. Registered(s, w) /\ Watching(s, w)
      BY <2>2, <3>1 DEF Settled, Looked
    <3> QED  BY <1>5, <3>1, <3>2
  <2> QED  BY <1>1, <2>1, <2>2 DEF Looked
<1> QED  BY <1>4, <1>6, <1>7

\* The worker lets go of a module that is queued again, or has read every watch.
LEMMA DoneLooks ==
    ASSUME LInv, Done, UNCHANGED <<listed, value, seen, paths, data, starting, handlers, mapping>>,
           \/ queue' = queue /\ pc = "read" /\ visit = {}
           \/ queue' = queue \cup {srm}
    PROVE  (Handled /\ Written /\ Looked)'
<1> USE Parts
<1>1. pc' = "idle" /\ srm' = None /\ adding' = None /\ queue \subseteq queue'
  BY DEF Done
<1>2. Handled' /\ Written'
  BY <1>1 DEF Handled, Written
<1>3. ASSUME NEW s \in SRM, s \notin queue', listed[s] # None, NEW w \in listed[s] PROVE Watching(s, w)'
  <2>1. Watching(s, w)
    <3>1. CASE s # srm
      BY <1>1, <1>3, <3>1 DEF Looked
    <3>2. CASE s = srm
      <4>1. pc = "read" /\ visit = {} /\ srm \notin queue
        BY <1>1, <1>3, <3>2
      <4>2. w \in want \ visit
        BY <1>3, <3>2, <4>1 DEF Settled
      <4> QED  BY <3>2, <4>1, <4>2 DEF Looked
    <3> QED  BY <3>1, <3>2
  <2> QED  BY <2>1, WatchingOn
<1>4. Looked'
  BY <1>1, <1>3 DEF Looked
<1> QED  BY <1>2, <1>4

\* ctrl.Watch is called, so that a handler is starting before the watch is added.
LEMMA TryAddLooks == ASSUME LInv, TryAddResourceToWatch PROVE (Handled /\ Written /\ Looked)'
<1> USE Parts
<1>1. /\ pc = "add" /\ UNCHANGED <<listed, value, seen, paths, data, handlers, mapping>>
      /\ \/ UNCHANGED <<queue, starting, pc, srm, adding>>
         \/ starting' = starting + 1 /\ UNCHANGED <<queue, pc, srm>>
         \/ Done /\ queue' = queue \cup {srm} /\ UNCHANGED starting
  BY DEF TryAddResourceToWatch, Fails, users, maps
<1>2. CASE Done /\ queue' = queue \cup {srm} /\ UNCHANGED starting
  BY <1>1, <1>2, DoneLooks
<1>3. CASE /\ UNCHANGED <<queue, pc, srm>>
           /\ \/ UNCHANGED <<starting, adding>>
              \/ starting' = starting + 1
  <2>1. starting \in Nat /\ Len(handlers) \in Nat /\ (starting > 0 => starting' > 0)
    BY <1>3 DEF EventTypes
  <2>2. Handled' /\ Written'
    <3>1. adding' # None \/ (\E w \in Watch : data[w] # None) => starting' + Len(handlers) > 0
      BY <1>1, <1>3, <2>1 DEF Handled
    <3> QED  BY <1>1, <3>1 DEF Handled, Written
  <2>3. ASSUME NEW s \in SRM, NEW w \in Watch, Watching(s, w) PROVE Watching(s, w)'
    BY <1>1, <2>1, <2>3, WatchingOn
  <2>4. Looked'
    BY <1>1, <1>3, <2>3, LookedOn
  <2> QED  BY <2>2, <2>4
<1> QED  BY <1>1, <1>2, <1>3

\* addToWatched keeps the stored value of an entry there is.
LEMMA AddToWatchedLooks == ASSUME LInv, AddToWatched PROVE (Handled /\ Written /\ Looked)'
<1> USE Parts
<1>1. PICK x \in Watch : x = adding
  BY DEF AddToWatched, WorkerTypes
<1>2. /\ pc = "add" /\ adding # None /\ adding' = None /\ mapping = None
      /\ UNCHANGED <<listed, value, queue, seen, starting, handlers, mapping, pc, srm>>
      /\ data' = [data EXCEPT ![x] = IF data[x] = None THEN [data |-> None, names |-> <<srm>>]
                                     ELSE [data[x] EXCEPT !.names = Append(@, srm)]]
  BY <1>1 DEF AddToWatched, users, events
<1>3. x \in Watches
  BY <1>1, <1>2 DEF Adding, WorkerTypes
<1>4. \A w \in Watch : /\ w # x => data'[w] = data[w]
                       /\ data[w] # None => data'[w].data = data[w].data
                       /\ data[w] = None /\ w = x => data'[w].data = None
  BY <1>2 DEF MapTypes, Entry
<1>5. Handled' /\ Written'
  BY <1>2, <1>3, <1>4 DEF Handled, Written
<1>6. ASSUME NEW s \in SRM, NEW w \in Watch, Registered(s, w), Watching(s, w) PROVE Watching(s, w)'
  <2>1. data'[w].data = data[w].data
    BY <1>4, <1>6 DEF Registered
  <2> QED  BY <1>2, <1>6, <2>1, WatchingOn
<1>7. Looked'
  BY <1>2, <1>6, LookedOn
<1> QED  BY <1>5, <1>7

\* getOCPVersions reads what is there; when all is read the module is let go.
LEMMA GetOCPVersionsLooks == ASSUME LInv, GetOCPVersions PROVE (Handled /\ Written /\ Looked)'
<1> USE Parts
<1>1. pc = "read" /\ srm \in SRM /\ UNCHANGED <<listed, value, paths, data, starting, handlers, mapping>>
  BY DEF GetOCPVersions, WorkerTypes, users, maps, events
<1>2. CASE \E w \in visit :
            /\ seen' = [seen EXCEPT ![srm][w] = Current(w)]
            /\ visit' = visit \ {w}
            /\ UNCHANGED <<queue, pc, srm, want, copy, adding, faults>>
  <2>1. PICK x \in visit : seen' = [seen EXCEPT ![srm][x] = Current(x)] /\ visit' = visit \ {x}
    BY ZenonT(30), <1>2
  <2>2. UNCHANGED <<queue, pc, srm, want, adding>>
    BY <1>2
  <2>3. x \in Watch
    BY DEF WorkerTypes
  <2>4. Handled' /\ Written'
    BY <1>1, <2>2 DEF Handled, Written
  <2>5. \A s \in SRM : \A w \in Watch : s # srm \/ w # x => seen'[s][w] = seen[s][w]
    BY <1>1, <2>1, <2>3 DEF UserTypes
  <2>6. seen'[srm][x] = Current(x)
    BY <1>1, <2>1, <2>3 DEF UserTypes
  <2>7. \A w : Current(w)' = Current(w)
    BY <1>1 DEF Current
  <2>8. ASSUME NEW s \in SRM, NEW w \in Watch, Watching(s, w) \/ (s = srm /\ w = x) PROVE Watching(s, w)'
    <3>1. CASE s = srm /\ w = x
      <4>1. seen'[s][w] = Current(w)'
        BY <2>6, <2>7, <3>1
      <4> QED  BY <4>1 DEF Watching
    <3>2. CASE Watching(s, w) /\ (s # srm \/ w # x)
      <4>1. seen'[s][w] = seen[s][w]
        BY <2>5, <3>2
      <4> QED  BY <1>1, <2>7, <3>2, <4>1 DEF Watching, Delivery, Differs, Comparing, Storing, Hit, Starting
    <3> QED  BY <2>8, <3>1, <3>2
  <2>9. ASSUME NEW s \in SRM, s \notin queue', s # srm', listed'[s] # None, NEW w \in listed'[s] PROVE Watching(s, w)'
    <3>1. w \in Watch /\ Watching(s, w)
      BY <1>1, <2>2, <2>9, WatcherAssumption DEF Looked, UserTypes
    <3> QED  BY <2>8, <3>1
  <2>10. ASSUME srm \notin queue, NEW w \in want' \ visit' PROVE Watching(srm, w)'
    <3>1. w \in Watch /\ (Watching(srm, w) \/ w = x)
      BY <1>1, <2>1, <2>2, <2>10, WatcherAssumption DEF Looked, WorkerTypes
    <3>2. PICK s \in SRM : s = srm /\ s = srm'
      BY <1>1, <2>2
    <3>3. Watching(s, w)'
      BY <2>8, <3>1, <3>2
    <3> QED  BY <3>2, <3>3
  <2>11. Looked'
    BY <2>2, <2>9, <2>10 DEF Looked
  <2> QED  BY <2>4, <2>11
<1>3. CASE visit # {} /\ Fails /\ UNCHANGED seen
  BY <1>1, <1>3, DoneLooks DEF Fails
<1>4. CASE visit = {} /\ Done /\ UNCHANGED <<queue, seen, faults>>
  BY <1>1, <1>4, DoneLooks
<1> QED  BY <1>2, <1>3, <1>4 DEF GetOCPVersions

\* After a restart every module is queued.
LEMMA RestartLooks == ASSUME Restart PROVE (Handled /\ Written /\ Looked)'
<1>1. Handled' /\ Written'
  BY DEF Restart, Done, Handled, Written
<1>2. Looked'
  BY DEF Restart, Done, Looked
<1> QED  BY <1>1, <1>2

\* Every step that is not itself a race keeps the modules watching.
LEMMA LookedKept == ASSUME LInv, [Next]_vars, ~raced' PROVE LInv'
<1>0. Unmixed' /\ IInv'
  BY SoundKept DEF LInv, Unmixed
<1> SUFFICES (Handled /\ Written /\ Looked)'
  BY <1>0 DEF LInv
<1>1. CASE \E s \in SRM : EditSpec(s) \/ SyncSpec(s)
  <2>1. PICK s \in SRM : EditSpec(s) \/ SyncSpec(s)
    BY <1>1
  <2> QED  BY <2>1, UsersLook
<1>2. CASE \E s \in SRM : Reconcile(s)
  BY <1>2, ReconcileLooks
<1>3. CASE \E o \in Object : ChangeValue(o)
  BY <1>3, ChangesLook
<1>4. CASE RegisterHandler
  BY <1>4, RegisterHandlerLooks
<1>5. CASE \E h \in DOMAIN handlers : MapperCall(h)
  BY <1>5, MapperCallLooks
<1>6. CASE Mapper
  BY <1>6, MapperCompareLooks, MapperStoreLooks, MapperReturnLooks DEF Mapper
<1>7. CASE VisitEntry \/ DropName \/ DropEntry \/ RemovalDone \/ AdditionDone
  BY <1>7, RemovalLooks
<1>8. CASE TryAddResourceToWatch \/ AddToWatched
  BY <1>8, TryAddLooks, AddToWatchedLooks
<1>9. CASE GetOCPVersions
  BY <1>9, GetOCPVersionsLooks
<1>10. CASE Restart
  BY <1>10, RestartLooks
<1>11. CASE UNCHANGED vars
  <2>1. UNCHANGED <<listed, value, queue, seen, paths, data, starting, handlers, mapping, pc, srm, want, visit, adding>>
    BY <1>11 DEF vars, users, maps, events, worker
  <2>2. Handled' /\ Written'
    BY <2>1 DEF LInv, Handled, Written
  <2>3. ASSUME NEW s \in SRM, NEW w \in Watch, Watching(s, w) PROVE Watching(s, w)'
    BY <2>1, <2>3, WatchingOn
  <2>4. Looked'
    BY <2>1, <2>3, LookedOn DEF LInv
  <2> QED  BY <2>2, <2>4
<1> QED  BY <1>1, <1>2, <1>3, <1>4, <1>5, <1>6, <1>7, <1>8, <1>9, <1>10, <1>11
         DEF Next, ReconcileWatches

\* What holds always, races or not.
LooksUnlessRaced == TInv /\ RacedType /\ Unmixed /\ (raced \/ LInv)

\* Every step keeps the modules watching, or is or follows a race; a restart ends that.
LEMMA LookedInductive == LooksUnlessRaced /\ [Next]_vars => LooksUnlessRaced'
<1> SUFFICES ASSUME LooksUnlessRaced, [Next]_vars PROVE LooksUnlessRaced'
  OBVIOUS
<1>1. TInv' /\ RacedType' /\ Unmixed' /\ (Restart \/ (raced => raced'))
  BY TypesKept, RacesAreNoted DEF LooksUnlessRaced, Unmixed
<1>2. CASE Restart
  <2>1. IInv'
    BY <1>1, <1>2, RestartKeeps DEF LooksUnlessRaced, IInv
  <2>2. LInv'
    BY <1>1, <1>2, <2>1, RestartLooks DEF LInv
  <2> QED  BY <1>1, <2>2 DEF LooksUnlessRaced
<1>3. CASE raced'
  BY <1>1, <1>3 DEF LooksUnlessRaced
<1>4. CASE ~raced /\ ~raced'
  BY <1>1, <1>4, LookedKept DEF LooksUnlessRaced
<1> QED  BY <1>1, <1>2, <1>3, <1>4

\* ReconcileWatches, ctrl.Watch, mapper and getOCPVersions miss no change: at
\* rest each module has seen what is there, until mapper and the removal loop have
\* written a map under each other.
THEOREM NoChangeMissed == Unmixed /\ Spec => []SeenUnlessRaced
<1>1. LooksUnlessRaced => SeenUnlessRaced
  <2> SUFFICES ASSUME LInv, Quiescent, NEW s \in SRM, spec[s] # None, NEW w \in spec[s]
               PROVE  seen[s][w] = Current(w)
    BY DEF LooksUnlessRaced, SeenUnlessRaced, SeenIsCurrent
  <2>1. s \notin queue /\ s # srm /\ listed[s] = spec[s]
    BY Parts, WatcherAssumption DEF Quiescent, WorkerTypes
  <2>2. Watching(s, w)
    BY <2>1 DEF LInv, Looked
  <2>3. ~Delivery(w)
    BY DEF Quiescent, Delivery
  <2> QED  BY <2>2, <2>3 DEF Quiescent, Watching, Comparing, Storing, Hit, Starting
<1>2. Unmixed /\ Init => LooksUnlessRaced
  BY LookedInitially, InitiallyTyped DEF LooksUnlessRaced
<1> QED  BY <1>1, <1>2, LookedInductive, PTL DEF Spec

=============================================================================
