------------------------------- MODULE Watcher -------------------------------
(***************************************************************************)
(* The watches of SpecialResourceModules (pkg/watcher/watcher.go): which   *)
(* resources, at which paths, trigger which modules.                       *)
(*                                                                         *)
(* Two kinds of process share the two maps of the watcher.  The worker of  *)
(* the SpecialResourceModule controller runs ReconcileWatches: a loop that *)
(* removes registrations, without the mutex, then one that adds them.  The *)
(* event handlers, one for every successful call of ctrl.Watch, run        *)
(* mapper, under the mutex, on each object version they are notified of.   *)
(*                                                                         *)
(* All watched objects are of one kind.  The name AnyName stands for a     *)
(* watch without a name.  The rest of a module's reconciliation is reduced *)
(* to the values getOCPVersions reads.                                     *)
(***************************************************************************)
EXTENDS Naturals, Sequences, FiniteSets, Functions

CONSTANTS
    SRM,          \* names of SpecialResourceModules
    Object,       \* names of the objects that may be watched
    AnyName,      \* the empty name of a watch of all objects
    Path,         \* json paths
    Watches,      \* the watches users write, a subset of Watch
    Values,       \* values found at a path
    None,         \* nothing (a nil slice, no object)
    MaxEdits, MaxChanges, MaxHandlers, MaxFaults, MaxRestarts

Resource == Object \cup {AnyName}
Watch    == Resource \X Path
Content  == [Path -> Values]
Call     == [obj : Object, vals : Content]
Entry    == [data : Values \cup {None}, names : Seq(SRM)]
Copy     == [watch : Watch, entry : Entry]
Mapping  == [res : Resource, vals : Content, todo : SUBSET Path,
             copy : Copy \cup {None}, hits : SUBSET SRM]

ASSUME WatcherAssumption ==
    /\ IsFiniteSet(Object) /\ Cardinality(Object) \in Nat /\ AnyName \notin Object
    /\ None \notin SRM \cup Values \cup Watch
    /\ None \notin Entry /\ None \notin Copy /\ None \notin Mapping
    /\ Watches \subseteq Watch
    /\ {MaxEdits, MaxChanges, MaxHandlers, MaxFaults, MaxRestarts} \subseteq Nat

VARIABLES
    spec,      \* spec.watch of the stored modules, None if there is none
    listed,    \* the same in the informer's cache
    value,     \* the content of the watched objects
    queue,     \* the controller's work queue
    seen,      \* the values each module's last look at the objects found
    paths,     \* watchedResToPaths
    data,      \* watchedResToData
    starting,  \* calls of ctrl.Watch whose handler is not registered yet
    handlers,  \* per handler: the object versions mapper is still to be called with
    mapping,   \* the call of mapper that holds the mutex, if any
    pc, srm,   \* the worker: where it is, the module it reconciles,
    want,      \*   the watches of that module when it was listed,
    visit,     \*   what is left of the current loop,
    copy,      \*   the removal loop's copy of a map entry,
    adding,    \*   the watch ctrl.Watch was called for
    raced,     \* history: has the removal loop written a map during a call of mapper,
               \*   or mapper during that loop, since the process started?
    edits, changes, faults, restarts

maps   == <<paths, data>>
events == <<starting, handlers>>
worker == <<pc, srm, want, visit, copy, adding>>
users  == <<spec, listed, value>>
bounds == <<edits, changes, faults, restarts>>
vars   == <<users, queue, seen, maps, events, mapping, worker, raced, bounds>>

-----------------------------------------------------------------------------
\* What getOCPVersions finds for a watch.
Current(w) ==
    IF w[1] = AnyName THEN {value[o][w[2]] : o \in Object} ELSE {value[w[1]][w[2]]}

Init ==
    /\ spec = [s \in SRM |-> None] /\ listed = spec
    /\ value \in [Object -> Content]
    /\ queue = {}
    /\ seen = [s \in SRM |-> [w \in Watch |-> {}]]
    /\ paths = [r \in Resource |-> {}]
    /\ data = [w \in Watch |-> None]
    /\ starting = 0 /\ handlers = <<>>
    /\ mapping = None
    /\ pc = "idle" /\ srm = None /\ want = {} /\ visit = {} /\ copy = None /\ adding = None
    /\ raced = FALSE
    /\ edits = 0 /\ changes = 0 /\ faults = 0 /\ restarts = 0

-----------------------------------------------------------------------------
(* Users, the watched objects, informers *)

EditSpec(s) ==
    /\ edits < MaxEdits
    /\ edits' = edits + 1
    /\ \E W \in (SUBSET Watches) \cup {None} :
         W # spec[s] /\ spec' = [spec EXCEPT ![s] = W]
    /\ UNCHANGED <<listed, value, queue, seen, maps, events, mapping, worker,
                   raced, changes, faults, restarts>>

\* Creation, a new generation and deletion of a module pass the filter.
SyncSpec(s) ==
    /\ listed[s] # spec[s]
    /\ listed' = [listed EXCEPT ![s] = spec[s]]
    /\ queue' = queue \cup {s}
    /\ UNCHANGED <<spec, value, seen, maps, events, mapping, worker, raced, bounds>>

\* An update notification: every handler maps the old object, then the new one.
ChangeValue(o) ==
    /\ changes < MaxChanges
    /\ changes' = changes + 1
    /\ \E p \in Path, v \in Values :
         LET new == [value[o] EXCEPT ![p] = v] IN
         /\ new # value[o]
         /\ value' = [value EXCEPT ![o] = new]
         /\ handlers' = [h \in DOMAIN handlers |-> handlers[h] \o
                           <<[obj |-> o, vals |-> value[o]], [obj |-> o, vals |-> new]>>]
    /\ UNCHANGED <<spec, listed, queue, seen, maps, starting, mapping, worker,
                   raced, edits, faults, restarts>>

\* The informer is ready and takes the handler, which is first notified of
\* every object there is.  ctrl.Watch does not wait for this.
RegisterHandler ==
    /\ starting > 0
    /\ starting' = starting - 1
    /\ \E order \in Bijection(1..Cardinality(Object), Object) :
         handlers' = Append(handlers,
             [i \in DOMAIN order |-> [obj |-> order[i], vals |-> value[order[i]]]])
    /\ UNCHANGED <<users, queue, seen, maps, mapping, worker, raced, bounds>>

Done == pc' = "idle" /\ srm' = None /\ want' = {} /\ visit' = {} /\ copy' = None /\ adding' = None

\* The process dies, for instance of a concurrent map access that the Go
\* runtime detects, and starts again.
Restart ==
    /\ restarts < MaxRestarts
    /\ restarts' = restarts + 1
    /\ listed' = spec
    /\ queue' = {s \in SRM : spec[s] # None}
    /\ paths' = [r \in Resource |-> {}]
    /\ data' = [w \in Watch |-> None]
    /\ starting' = 0 /\ handlers' = <<>>
    /\ mapping' = None
    /\ raced' = FALSE
    /\ Done
    /\ UNCHANGED <<spec, value, seen, edits, changes, faults>>

-----------------------------------------------------------------------------
(* mapper *)

\* Mutant: only entries with a name are looked up.
KeyByName(o) == o

\* The entry without a name is looked up first; only if there is none, the one
\* with the object's name.
Key(o) == IF paths[AnyName] # {} THEN AnyName ELSE o

\* Lock the mutex and look the object up.
MapperCall(h) ==
    /\ mapping = None
    /\ handlers[h] # <<>>
    /\ handlers' = [handlers EXCEPT ![h] = Tail(@)]
    /\ LET c == Head(handlers[h])
           r == Key(c.obj)
       IN mapping' = IF paths[r] = {} THEN None
                     ELSE [res |-> r, vals |-> c.vals, todo |-> paths[r],
                           copy |-> None, hits |-> {}]
    /\ UNCHANGED <<users, queue, seen, maps, starting, worker, raced, bounds>>

\* Compare the value at p with the stored one.
MapperCompare(p) ==
    /\ mapping # None
    /\ mapping.copy = None
    /\ p \in mapping.todo
    /\ LET w == <<mapping.res, p>>
           changed == data[w] # None /\ data[w].data # mapping.vals[p]
       IN mapping' = [mapping EXCEPT !.todo = @ \ {p},
                        !.copy = IF changed THEN [watch |-> w, entry |-> data[w]] ELSE None]
    /\ UNCHANGED <<users, queue, seen, maps, events, worker, raced, bounds>>

\* Mutant: only the first of the modules is triggered.
MapperStoreFirst ==
    /\ mapping # None
    /\ mapping.copy # None
    /\ LET w == mapping.copy.watch
           e == mapping.copy.entry
       IN /\ data' = [data EXCEPT ![w] = [e EXCEPT !.data = mapping.vals[w[2]]]]
          /\ mapping' = [mapping EXCEPT !.hits = @ \cup {e.names[i] : i \in DOMAIN e.names \cap {1}},
                                          !.copy = None]
    /\ raced' = (raced \/ pc = "remove")
    /\ UNCHANGED <<users, queue, seen, paths, events, worker, bounds>>

\* Collect the modules to trigger and write the copied entry back.
MapperStore ==
    /\ mapping # None
    /\ mapping.copy # None
    /\ LET w == mapping.copy.watch
           e == mapping.copy.entry
       IN /\ data' = [data EXCEPT ![w] = [e EXCEPT !.data = mapping.vals[w[2]]]]
          /\ mapping' = [mapping EXCEPT !.hits = @ \cup Range(e.names), !.copy = None]
    /\ raced' = (raced \/ pc = "remove")
    /\ UNCHANGED <<users, queue, seen, paths, events, worker, bounds>>

\* Unlock the mutex; the handler enqueues what mapper returned.
MapperReturn ==
    /\ mapping # None
    /\ mapping.copy = None /\ mapping.todo = {}
    /\ queue' = queue \cup mapping.hits
    /\ mapping' = None
    /\ UNCHANGED <<users, seen, maps, events, worker, raced, bounds>>

-----------------------------------------------------------------------------
(* ReconcileWatches *)

Goto(step, todo) == pc' = step /\ visit' = todo /\ UNCHANGED <<srm, want, copy, adding>>

\* Mutant: the request is read after the worker has let go of it.
FailsTooLate ==
    /\ faults < MaxFaults
    /\ faults' = faults + 1
    /\ Done
    /\ queue' = queue \cup {srm'}

Fails ==
    /\ faults < MaxFaults
    /\ faults' = faults + 1
    /\ queue' = queue \cup {srm}
    /\ Done

Registered(s, w) == data[w] # None /\ s \in Range(data[w].names)

Reconcile(s) ==
    /\ pc = "idle"
    /\ s \in queue
    /\ queue' = queue \ {s}
    /\ IF listed[s] = None THEN UNCHANGED worker
       ELSE /\ pc' = "remove" /\ srm' = s /\ want' = listed[s]
            /\ visit' = {w \in Watch : data[w] # None}
            /\ UNCHANGED <<copy, adding>>
    /\ UNCHANGED <<users, seen, maps, events, mapping, raced, bounds>>

\* Mutant: only entries that are empty are looked at.
VisitEntryIfEmpty ==
    /\ pc = "remove" /\ copy = None
    /\ \E w \in visit :
         /\ visit' = visit \ {w}
         /\ copy' = IF data[w] # None /\ data[w].names = <<>>
                    THEN [watch |-> w, entry |-> data[w]] ELSE None
    /\ UNCHANGED <<users, queue, seen, maps, events, mapping, pc, srm, want, adding, raced, bounds>>

\* The range statement copies the next entry of the map; one that neither names
\* the module without need nor is empty is left alone.
VisitEntry ==
    /\ pc = "remove" /\ copy = None
    /\ \E w \in visit :
         /\ visit' = visit \ {w}
         /\ copy' = IF \/ w \notin want /\ Registered(srm, w)
                       \/ data[w] # None /\ data[w].names = <<>>
                    THEN [watch |-> w, entry |-> data[w]] ELSE None
    /\ UNCHANGED <<users, queue, seen, maps, events, mapping, pc, srm, want, adding, raced, bounds>>

\* The first place of s in names.
Index(names, s) == CHOOSE i \in DOMAIN names : names[i] = s /\ \A j \in 1..(i - 1) : names[j] # s

\* append(names[:idx], names[idx+1:]...)
Without(names, s) ==
    LET i == Index(names, s) IN SubSeq(names, 1, i - 1) \o SubSeq(names, i + 1, Len(names))

\* It moves elements within the array, which a copy of the longer slice still sees.
Shifted(names, s) ==
    LET i == Index(names, s)
    IN [j \in DOMAIN names |-> IF j >= i /\ j < Len(names) THEN names[j + 1] ELSE names[j]]

\* Mutant: the first name is removed, whoever's it is.
DropFirstName ==
    /\ pc = "remove" /\ copy # None
    /\ copy.entry.names # <<>>
    /\ LET e == [copy.entry EXCEPT !.names = Tail(@)]
       IN /\ data' = [data EXCEPT ![copy.watch] = e]
          /\ copy' = IF e.names = <<>> THEN [copy EXCEPT !.entry = e] ELSE None
    /\ raced' = (raced \/ mapping # None)
    /\ UNCHANGED <<users, queue, seen, paths, events, mapping, pc, srm, want, visit, adding, bounds>>

DropName ==
    /\ pc = "remove" /\ copy # None
    /\ copy.entry.names # <<>>
    /\ LET w == copy.watch
           e == [copy.entry EXCEPT !.names = Without(@, srm)]
       IN /\ data' = [data EXCEPT ![w] = e]
          /\ copy' = IF e.names = <<>> THEN [copy EXCEPT !.entry = e] ELSE None
          /\ mapping' = IF mapping # None /\ mapping.copy # None /\ mapping.copy.watch = w
                        THEN [mapping EXCEPT !.copy.entry.names = Shifted(@, srm)]
                        ELSE mapping
    /\ raced' = (raced \/ mapping # None)
    /\ UNCHANGED <<users, queue, seen, paths, events, pc, srm, want, visit, adding, bounds>>

\* Mutant: the path stays.
DropEntryOnly ==
    /\ pc = "remove" /\ copy # None
    /\ copy.entry.names = <<>>
    /\ data' = [data EXCEPT ![copy.watch] = None]
    /\ copy' = None
    /\ raced' = (raced \/ mapping # None)
    /\ UNCHANGED <<users, queue, seen, paths, events, mapping, pc, srm, want, visit, adding, bounds>>

\* Nobody is left to trigger: the entry and its path go.
DropEntry ==
    /\ pc = "remove" /\ copy # None
    /\ copy.entry.names = <<>>
    /\ data' = [data EXCEPT ![copy.watch] = None]
    /\ paths' = [paths EXCEPT ![copy.watch[1]] = @ \ {copy.watch[2]}]
    /\ copy' = None
    /\ raced' = (raced \/ mapping # None)
    /\ UNCHANGED <<users, queue, seen, events, mapping, pc, srm, want, visit, adding, bounds>>

RemovalDone ==
    /\ pc = "remove" /\ copy = None /\ visit = {}
    /\ Goto("add", want)
    /\ UNCHANGED <<users, queue, seen, maps, events, mapping, raced, bounds>>

\* tryAddResourceToWatch up to ctrl.Watch.
TryAddResourceToWatch ==
    /\ pc = "add" /\ adding = None
    /\ \E w \in visit :
         \/ /\ Registered(srm, w)
            /\ visit' = visit \ {w}
            /\ UNCHANGED <<queue, starting, pc, srm, want, copy, adding, faults>>
         \/ /\ ~Registered(srm, w)
            /\ starting + Len(handlers) < MaxHandlers
            /\ starting' = starting + 1
            /\ adding' = w
            /\ UNCHANGED <<queue, pc, srm, want, visit, copy, faults>>
         \/ /\ ~Registered(srm, w)
            /\ Fails
            /\ UNCHANGED starting
    /\ UNCHANGED <<users, seen, maps, handlers, mapping, raced, edits, changes, restarts>>

AddToWatched ==
    /\ pc = "add" /\ adding # None
    /\ mapping = None
    /\ paths' = [paths EXCEPT ![adding[1]] = @ \cup {adding[2]}]
    /\ data' = [data EXCEPT ![adding] =
                 IF data[adding] = None THEN [data |-> None, names |-> <<srm>>]
                 ELSE [data[adding] EXCEPT !.names = Append(@, srm)]]
    /\ visit' = visit \ {adding}
    /\ adding' = None
    /\ UNCHANGED <<users, queue, seen, events, mapping, pc, srm, want, copy, raced, bounds>>

AdditionDone ==
    /\ pc = "add" /\ adding = None /\ visit = {}
    /\ Goto("read", want)
    /\ UNCHANGED <<users, queue, seen, maps, events, mapping, raced, bounds>>

\* getOCPVersions reads each watch's objects from the API server.
GetOCPVersions ==
    /\ pc = "read"
    /\ \/ \E w \in visit :
            /\ seen' = [seen EXCEPT ![srm][w] = Current(w)]
            /\ visit' = visit \ {w}
            /\ UNCHANGED <<queue, pc, srm, want, copy, adding, faults>>
       \/ visit # {} /\ Fails /\ UNCHANGED seen
       \/ visit = {} /\ Done /\ UNCHANGED <<queue, seen, faults>>
    /\ UNCHANGED <<users, maps, events, mapping, raced, edits, changes, restarts>>

ReconcileWatches ==
    \/ VisitEntry \/ DropName \/ DropEntry \/ RemovalDone
    \/ TryAddResourceToWatch \/ AddToWatched \/ AdditionDone
    \/ GetOCPVersions

Mapper == (\E p \in Path : MapperCompare(p)) \/ MapperStore \/ MapperReturn

Next ==
    \/ \E s \in SRM : EditSpec(s) \/ SyncSpec(s) \/ Reconcile(s)
    \/ \E o \in Object : ChangeValue(o)
    \/ RegisterHandler
    \/ \E h \in DOMAIN handlers : MapperCall(h)
    \/ Mapper
    \/ ReconcileWatches
    \/ Restart

Spec == Init /\ [][Next]_vars

\* Everything but users, changes, failures and restarts proceeds.
Fairness ==
    /\ WF_vars(ReconcileWatches)
    /\ WF_vars(Mapper)
    /\ WF_vars(RegisterHandler)
    /\ WF_vars(\E h \in DOMAIN handlers : MapperCall(h))
    /\ \A s \in SRM : WF_vars(SyncSpec(s)) /\ SF_vars(Reconcile(s))

FairSpec == Spec /\ Fairness

-----------------------------------------------------------------------------
(* Properties *)

\* The type invariant of the watcher's maps, the mapper calls and the pass.
TypeOK ==
    /\ {spec, listed} \subseteq [SRM -> (SUBSET Watches) \cup {None}]
    /\ value \in [Object -> Content]
    /\ queue \subseteq SRM
    /\ seen \in [SRM -> [Watch -> SUBSET Values]]
    /\ paths \in [Resource -> SUBSET Path]
    /\ \A w \in Watch : data[w] \in Entry \cup {None}
    /\ starting \in 0..MaxHandlers /\ handlers \in Seq(Seq(Call))
    /\ starting + Len(handlers) <= MaxHandlers
    /\ mapping \in Mapping \cup {None}
    /\ pc \in {"idle", "remove", "add", "read"} /\ srm \in SRM \cup {None}
    /\ want \in SUBSET Watches /\ visit \in SUBSET Watch
    /\ copy \in Copy \cup {None} /\ adding \in Watch \cup {None}
    /\ raced \in BOOLEAN
    /\ edits \in 0..MaxEdits /\ changes \in 0..MaxChanges
    /\ faults \in 0..MaxFaults /\ restarts \in 0..MaxRestarts

\* The two maps of the watcher agree: a path is inspected for a resource exactly
\* if there is an entry with somebody to trigger, nobody twice (addToWatched and
\* the removal loop maintain both maps), until mapper and the removal loop, which
\* takes no lock, have written a map under each other.
MapsAgree ==
    ~raced /\ copy = None => \A w \in Watch :
        /\ w[2] \in paths[w[1]] <=> data[w] # None
        /\ data[w] # None => data[w].names # <<>> /\ IsInjective(data[w].names)

Quiescent ==
    /\ pc = "idle" /\ queue = {} /\ mapping = None /\ starting = 0
    /\ \A s \in SRM : listed[s] = spec[s]
    /\ \A h \in DOMAIN handlers : handlers[h] = <<>>

\* watcher.go: a watch that is absent from a module's spec is "removed from the
\* list of NamespacedNames to reconcile", one that is present is on it, unless a
\* race of mapper with the removal loop has brought a removed one back.
RegistrationsMatchSpecs ==
    ~raced /\ Quiescent => \A s \in SRM : spec[s] # None =>
        \A w \in Watch : Registered(s, w) <=> w \in spec[s]

\* A pass takes from the maps what is its own: a module loses a registration only
\* in its own pass and if its spec, as listed, is without the watch, or by a restart
\* (the removal loop writes back the copies of entries that others share).  After a
\* race of mapper with that loop nothing is claimed.
OthersStayRegistered ==
    [][~raced' => \A s \in SRM, w \in Watch :
         Registered(s, w) /\ ~Registered(s, w)' =>
             restarts' > restarts \/ (pc = "remove" /\ s = srm /\ w \notin want)]_vars

\* The comment of mapper: "If the value in incoming object is different than stored
\* value, a reconciliation will be triggered for SpecialResourceModules that depend
\* on that object's value".  So, at rest, what each module's last look at the watched
\* objects found is what is there.
SeenIsCurrent ==
    Quiescent => \A s \in SRM : spec[s] # None =>
        \A w \in spec[s] : seen[s][w] = Current(w)

\* No change is missed, however reconciliations, changes, handlers and their
\* registration interleave, as long as mapper and the removal loop have not written
\* a map under each other.
SeenUnlessRaced == ~raced => SeenIsCurrent

\* ... and it comes to that, or to such a race: every change is seen by every
\* module that watches it and exists.
EventuallySeen ==
    <>[](raced \/ \A s \in SRM : spec[s] # None => \A w \in spec[s] : seen[s][w] = Current(w))

=============================================================================
