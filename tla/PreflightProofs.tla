--------------------------- MODULE PreflightProofs ---------------------------
(***************************************************************************)
(* Verdicts of the PreflightValidation controller are earned, it does not  *)
(* stop early, and the toolkit entries it shares are those of the images,  *)
(* for any SpecialResources, charts, images, lag and number of mishaps.    *)
(***************************************************************************)
EXTENDS Preflight, TLAPS

\* The time given to a prover covers what the proof manager does meanwhile.
USE SMTT(20), ZenonT(30)

StoreTypes ==
    /\ pv \in Obj \cup {None} /\ cache \in Obj \cup {None}
    /\ pending \in Seq(Obj \cup {None}) /\ Len(pending) <= MaxLag

EnvTypes ==
    /\ srs \in [SR -> {None, "live", "deleting"}]
    /\ chart \in Charts /\ published \subseteq Drivers
    /\ mishaps \in 0..MaxMishaps

\* A pass works for an image.
PassTypes ==
    /\ pc \in {"idle", "preset", "check"}
    /\ list \in [SR -> {None, "live", "deleting"}]
    /\ mem \in Statuses /\ old \in Statuses /\ image \in Image \cup {None}
    /\ pc # "idle" => image \in Image
    /\ todo \subseteq SR

\* The verdicts "True" of a list are earned.
Earned(st, f) == \A s \in SR : st[s] = "True" => \E i \in Image : <<s, i>> \in f

Copies == {pv, cache} \cup {pending[n] : n \in DOMAIN pending}

\* Whatever list a pass may start from or patch with has been earned.
AllEarned ==
    /\ fit \subseteq SR \X Image
    /\ \A o \in Copies : o # None => Earned(o.statuses, fit)
    /\ Earned(mem, fit)

\* The informer lacks nothing but what is pending.
Latest == IF pending = <<>> THEN cache = pv ELSE pending[Len(pending)] = pv

\* The worker leaves the queue empty only if it has seen that all is verified.
Rest == pc = "idle" /\ queued = FALSE => cache = None \/ AllTrue(cache.statuses)

Toolkits == DOMAIN dtks = Toolkit /\ ToolkitsAsPublished

IInv ==
    /\ StoreTypes /\ EnvTypes /\ PassTypes /\ queued \in BOOLEAN
    /\ AllEarned /\ Latest /\ Rest /\ Toolkits

-----------------------------------------------------------------------------
(* What is read from images *)

\* handleYAMLsCheck only says what a status may hold.
LEMMA VerdictType ==
    ASSUME NEW R, NEW objects, NEW k, NEW v \in handleYAMLsCheck(R, objects, k)
    PROVE  v \in {"True", "False", "Error"}
<1> DEFINE rel == getRelevantDaemonSets(objects)
           vs == [i \in rel |-> daemonSetPreflightCheck(R, objects[i], k)]
<1>1. \A i \in rel : daemonSetPreflightCheck(R, objects[i], k) \in {"True", "False", "Error"}
  BY DEF daemonSetPreflightCheck
<1>2. v \in IF \A i \in DOMAIN vs : vs[i] = "True" THEN {"True"} ELSE {vs[i] : i \in First({i \in DOMAIN vs : vs[i] # "True"})}
  BY DEF handleYAMLsCheck
<1> HIDE DEF rel
<1>3. DOMAIN vs = rel /\ \A i \in rel : vs[i] \in {"True", "False", "Error"}
  BY <1>1
<1>4. First({i \in DOMAIN vs : vs[i] # "True"}) \subseteq DOMAIN vs
  BY DEF First
<1> HIDE DEF vs
<1> QED  BY <1>2, <1>3, <1>4

\* A DaemonSet is only verified if a layer of its image was made for the kernel.
LEMMA DaemonSetVerdict ==
    ASSUME NEW R, NEW ds, NEW k, daemonSetPreflightCheck(R, ds, k) = "True"
    PROVE  \E d \in GetLayersDigests(R, ds.image) : \E n \in DOMAIN d.layers :
              d.layers[n] # None /\ d.layers[n].toolkit # None /\ d.layers[n].toolkit.kernel = k
<1>1. PICK d \in GetLayersDigests(R, ds.image) : \E i \in DOMAIN d.layers : \E layer \in GetLayerByDigest(d, i) :
         \E dtk \in ExtractToolkitRelease(layer) : dtk.kernel = k
  BY DEF daemonSetPreflightCheck
<1>2. PICK i \in DOMAIN d.layers : \E layer \in GetLayerByDigest(d, i) :
         \E dtk \in ExtractToolkitRelease(layer) : dtk.kernel = k
  BY <1>1
<1>3. PICK layer \in GetLayerByDigest(d, i) : \E dtk \in ExtractToolkitRelease(layer) : dtk.kernel = k
  BY <1>2
<1>4. layer = d.layers[i] /\ layer # None
  BY DEF GetLayerByDigest
<1>5. layer.toolkit # None /\ layer.toolkit.kernel = k
  BY <1>3 DEF ExtractToolkitRelease
<1> QED  BY <1>4, <1>5

\* handleYAMLsCheck says "True" only of a chart that is ready for the kernel.
LEMMA TrueMeansReady ==
    ASSUME NEW R, NEW objects, NEW k, "True" \in handleYAMLsCheck(R, objects, k)
    PROVE  ReadyFor(R, objects, k)
<1> DEFINE rel == getRelevantDaemonSets(objects)
           vs == [i \in rel |-> daemonSetPreflightCheck(R, objects[i], k)]
<1>1. "True" \in IF \A i \in DOMAIN vs : vs[i] = "True" THEN {"True"}
                 ELSE {vs[i] : i \in First({i \in DOMAIN vs : vs[i] # "True"})}
  BY DEF handleYAMLsCheck
<1>2. \A i \in First({i \in DOMAIN vs : vs[i] # "True"}) : vs[i] # "True"
  BY DEF First
<1>3. \A i \in DOMAIN vs : vs[i] = "True"
  <2> HIDE DEF vs
  <2> QED  BY <1>1, <1>2
<1>4. \A i \in rel : daemonSetPreflightCheck(R, objects[i], k) = "True"
  <2> HIDE DEF rel
  <2> QED  BY <1>3
<1> SUFFICES ASSUME NEW i \in DOMAIN objects, objects[i].kind = "DaemonSet" /\ objects[i].driver,
                    ~\E j \in DOMAIN objects : objects[j].kind = "BuildConfig" /\ objects[j].vendor = Token(objects[i].vendor)
             PROVE  \E d \in GetLayersDigests(R, objects[i].image) : \E n \in DOMAIN d.layers :
                       d.layers[n] # None /\ d.layers[n].toolkit # None /\ d.layers[n].toolkit.kernel = k
  BY DEF ReadyFor
<1>5. i \in rel
  BY DEF getRelevantDaemonSets
<1> QED  BY <1>4, <1>5, DaemonSetVerdict

\* With more images to read, what LastLayer finds in one is still found.
LEMMA LastLayerGrows ==
    ASSUME NEW R, NEW Q, R \subseteq Q, NEW ref
    PROVE  LastLayer(R, ref) \subseteq LastLayer(Q, ref)
<1>1. \A r : Manifest(R, r) \subseteq Manifest(Q, r)
  BY DEF Manifest
<1>2. getManifestStreamFromImage(R, ref) \subseteq getManifestStreamFromImage(Q, ref)
  BY <1>1 DEF getManifestStreamFromImage
<1>3. GetLayersDigests(R, ref) \subseteq GetLayersDigests(Q, ref)
  <2> SUFFICES ASSUME NEW x \in GetLayersDigests(R, ref) PROVE x \in GetLayersDigests(Q, ref)
    OBVIOUS
  <2>1. PICK m \in {m \in Manifest(R, ref) : repo(m.form) # None}, stream \in getManifestStreamFromImage(R, ref) :
           x = [repo |-> repo(m.form), layers |-> stream.layers]
    BY DEF GetLayersDigests
  <2>2. m \in {n \in Manifest(Q, ref) : repo(n.form) # None} /\ stream \in getManifestStreamFromImage(Q, ref)
    BY <1>1, <1>2, <2>1
  <2> QED  BY <2>1, <2>2 DEF GetLayersDigests
<1> QED  BY <1>3 DEF LastLayer

\* What GetDTKData returns is what the image holds, or an entry kept before.
LEMMA ToolkitData ==
    ASSUME NEW R, R \subseteq DOMAIN Contents, NEW kept, NEW url, NEW dtk \in GetDTKData(R, kept, url)
    PROVE  \/ url \in DOMAIN kept /\ kept[url] # None /\ dtk = kept[url]
           \/ dtk \in GetDTKData(DOMAIN Contents, <<>>, url)
<1> DEFINE Of(layer) == IF layer = Panic THEN {Panic} ELSE ExtractToolkitRelease(layer)
<1>1. DOMAIN <<>> = {}
  OBVIOUS
<1>2. GetDTKData(DOMAIN Contents, <<>>, url) = UNION {Of(layer) : layer \in LastLayer(DOMAIN Contents, url)}
  BY <1>1 DEF GetDTKData
<1>3. CASE url \in DOMAIN kept /\ kept[url] # None
  BY <1>3 DEF GetDTKData
<1>4. CASE ~(url \in DOMAIN kept /\ kept[url] # None)
  <2>1. dtk \in UNION {Of(layer) : layer \in LastLayer(R, url)}
    BY <1>4 DEF GetDTKData
  <2>2. LastLayer(R, url) \subseteq LastLayer(DOMAIN Contents, url)
    BY LastLayerGrows
  <2> HIDE DEF Of
  <2> QED  BY <1>2, <2>1, <2>2
<1> QED  BY <1>3, <1>4


-----------------------------------------------------------------------------
(* Versions of the object *)

\* An object that is written is seen by the informer last.
LEMMA StoreKeeps ==
    ASSUME StoreTypes, NEW o \in Obj \cup {None}, Store(o), UNCHANGED cache
    PROVE  StoreTypes' /\ Latest' /\ Copies' \subseteq Copies \cup {o} /\ pv' = o
<1>1. pv' = o /\ pending' = Append(pending, o) /\ Len(pending) < MaxLag
  BY DEF Store
<1>2. /\ pending' \in Seq(Obj \cup {None}) /\ Len(pending) \in Nat /\ Len(pending') = Len(pending) + 1
      /\ DOMAIN pending = 1..Len(pending) /\ DOMAIN pending' = 1..Len(pending')
      /\ pending'[Len(pending')] = o
      /\ \A n \in 1..Len(pending) : pending'[n] = pending[n]
  BY <1>1 DEF StoreTypes
<1>3. StoreTypes'
  BY <1>1, <1>2, PreflightAssumption DEF StoreTypes
<1>4. \A n \in DOMAIN pending' : n \in DOMAIN pending \/ pending'[n] = o
  BY <1>2
<1>5. Copies' \subseteq Copies \cup {o}
  BY <1>1, <1>2, <1>4 DEF Copies
<1>6. Latest'
  <2>1. pending' # <<>>
    BY <1>1, <1>2
  <2> QED  BY <1>1, <1>2, <2>1 DEF Latest
<1> QED  BY <1>1, <1>3, <1>5, <1>6

\* The informer takes the oldest version.
LEMMA SyncKeeps ==
    ASSUME StoreTypes, Latest, pending # <<>>, cache' = Head(pending), pending' = Tail(pending), UNCHANGED pv
    PROVE  StoreTypes' /\ Latest' /\ Copies' \subseteq Copies
<1>1. /\ Len(pending) \in Nat /\ Len(pending) > 0 /\ DOMAIN pending = 1..Len(pending)
      /\ cache' = pending[1] /\ pending[1] \in Obj \cup {None}
      /\ pending' \in Seq(Obj \cup {None}) /\ Len(pending') = Len(pending) - 1
      /\ DOMAIN pending' = 1..Len(pending')
      /\ \A n \in 1..Len(pending') : pending'[n] = pending[n + 1]
  BY DEF StoreTypes
<1>2. StoreTypes'
  BY <1>1, PreflightAssumption DEF StoreTypes
<1>3. 1 \in DOMAIN pending /\ \A n \in DOMAIN pending' : n + 1 \in DOMAIN pending /\ pending'[n] = pending[n + 1]
  BY <1>1
<1>4. Copies' \subseteq Copies
  BY <1>1, <1>3 DEF Copies
<1>5. pending[Len(pending)] = pv
  BY DEF Latest
<1>6. CASE Len(pending) = 1
  <2>1. pending' = <<>>
    BY <1>1, <1>6
  <2> QED  BY <1>1, <1>2, <1>4, <1>5, <1>6, <2>1 DEF Latest
<1>7. CASE Len(pending) # 1
  <2>1. Len(pending') > 0 /\ Len(pending') \in 1..Len(pending') /\ Len(pending') + 1 = Len(pending)
    BY <1>1, <1>7
  <2>2. ~(Len(<<>>) > 0)
    OBVIOUS
  <2>3. pending' # <<>>
    BY <2>1, <2>2, Zenon
  <2>4. pending'[Len(pending')] = pv
    BY <1>1, <1>5, <2>1
  <2> QED  BY <1>2, <1>4, <2>3, <2>4 DEF Latest
<1> QED  BY <1>6, <1>7

\* What has been earned stays earned.
LEMMA EarnedKeeps ==
    ASSUME AllEarned, fit \subseteq fit', fit' \subseteq SR \X Image, NEW o,
           Copies' \subseteq Copies \cup {o}, o # None => Earned(o.statuses, fit'), Earned(mem', fit')
    PROVE  AllEarned'
<1>1. ASSUME NEW c \in Copies', c # None PROVE Earned(c.statuses, fit')
  <2>1. CASE c \in Copies
    BY <1>1, <2>1 DEF AllEarned, Earned
  <2> QED  BY <1>1, <2>1
<1> QED  BY <1>1 DEF AllEarned

-----------------------------------------------------------------------------
(* The steps *)

\* A PreflightValidation has just been created; nothing has been checked.
THEOREM Initially == Init => IInv
<1> SUFFICES ASSUME Init PROVE IInv
  OBVIOUS
<1>1. NoStatuses \in Statuses /\ \A f : Earned(NoStatuses, f)
  BY PreflightAssumption DEF NoStatuses, Statuses, Earned
<1>2. PICK i \in Image : pv = [image |-> i, statuses |-> NoStatuses]
  BY DEF Init
<1>3. pv \in Obj /\ pv.statuses = NoStatuses
  BY <1>1, <1>2 DEF Obj
<1>4. pending = <<pv>> /\ cache = None
  BY DEF Init
<1>5. /\ pending \in Seq(Obj \cup {None}) /\ Len(pending) = 1
      /\ DOMAIN pending = {1} /\ pending[1] = pv /\ pending # <<>>
  BY <1>3, <1>4
<1>6. StoreTypes
  BY <1>3, <1>4, <1>5, PreflightAssumption DEF StoreTypes
<1>7. EnvTypes
  BY PreflightAssumption DEF Init, EnvTypes
<1>8. PassTypes
  BY <1>1 DEF Init, PassTypes, NoList
<1>9. AllEarned
  BY <1>1, <1>3, <1>4, <1>5 DEF Init, AllEarned, Copies
<1>10. Latest
  BY <1>5 DEF Latest
<1>11. Rest /\ queued \in BOOLEAN
  BY <1>4 DEF Init, Rest
<1>12. Toolkits
  BY DEF Init, Toolkits, ToolkitsAsPublished
<1> QED  BY <1>6, <1>7, <1>8, <1>9, <1>10, <1>11, <1>12, Zenon DEF IInv

\* Pushing an image and the like leaves the object alone.
LEMMA UsersKeep ==
    ASSUME IInv, Users
    PROVE  IInv'
<1> USE PreflightAssumption
<1>1. Mishap /\ UNCHANGED <<cache, queued, chart, dtks, fit, pass>>
  BY DEF Users, CreatePreflightValidation, EditImage, DeletePreflightValidation, SpecialResourceChanges, Publish, Edit
<1>2. PassTypes' /\ Rest' /\ Toolkits' /\ queued' \in BOOLEAN
  <2>1. queued' \in BOOLEAN
    BY <1>1, Zenon DEF IInv
  <2>2. PassTypes'
    BY <1>1 DEF IInv, PassTypes, pass
  <2>3. Rest'
    BY <1>1 DEF IInv, Rest, pass
  <2>4. Toolkits'
    BY <1>1 DEF IInv, Toolkits, ToolkitsAsPublished
  <2> QED  BY <2>1, <2>2, <2>3, <2>4
<1>3. fit' = fit /\ mem' = mem /\ fit \subseteq SR \X Image /\ Earned(mem, fit)
  BY <1>1 DEF IInv, AllEarned, pass
<1>4. mishaps' \in 0..MaxMishaps /\ chart' \in Charts
  BY <1>1 DEF IInv, EnvTypes, Mishap
<1>5. ASSUME NEW o \in Obj \cup {None}, Store(o), o # None => Earned(o.statuses, fit), UNCHANGED <<srs, published>>
      PROVE  IInv'
  <2>1. StoreTypes' /\ Latest' /\ Copies' \subseteq Copies \cup {o}
    BY <1>1, <1>5, StoreKeeps DEF IInv
  <2>2. AllEarned'
    BY <1>3, <1>5, <2>1, EarnedKeeps DEF IInv
  <2>3. EnvTypes'
    BY <1>4, <1>5 DEF IInv, EnvTypes
  <2> QED  BY <1>2, <2>1, <2>2, <2>3, Zenon DEF IInv
<1>6. ASSUME UNCHANGED store, srs' \in [SR -> {None, "live", "deleting"}], published' \subseteq Drivers
      PROVE  IInv'
  <2>1. StoreTypes' /\ Latest' /\ Copies' = Copies
    BY <1>1, <1>6 DEF IInv, StoreTypes, Latest, Copies, store
  <2>2. AllEarned'
    BY <1>3, <2>1 DEF IInv, AllEarned
  <2>3. EnvTypes'
    BY <1>4, <1>6 DEF EnvTypes
  <2> QED  BY <1>2, <2>1, <2>2, <2>3, Zenon DEF IInv
<1>7. NoStatuses \in Statuses /\ \A f : Earned(NoStatuses, f)
  BY DEF NoStatuses, Statuses, Earned
<1>8. CASE CreatePreflightValidation
  <2>1. PICK i \in Image : Store([image |-> i, statuses |-> NoStatuses])
    BY <1>8 DEF CreatePreflightValidation
  <2>2. [image |-> i, statuses |-> NoStatuses] \in Obj
    BY <1>7 DEF Obj
  <2> QED  BY <1>5, <1>7, <1>8, <2>1, <2>2 DEF CreatePreflightValidation
<1>9. CASE EditImage
  <2>1. PICK i \in Image : Store([pv EXCEPT !.image = i])
    BY <1>9 DEF EditImage
  <2>2. pv \in Obj
    BY <1>9 DEF EditImage, IInv, StoreTypes
  <2>3. [pv EXCEPT !.image = i] \in Obj /\ [pv EXCEPT !.image = i].statuses = pv.statuses
    BY <2>2 DEF Obj
  <2>4. Earned(pv.statuses, fit)
    BY <1>9 DEF EditImage, IInv, AllEarned, Copies
  <2> DEFINE o == [pv EXCEPT !.image = i]
  <2>5. o \in Obj \cup {None} /\ Store(o) /\ Earned(o.statuses, fit) /\ UNCHANGED <<srs, published>>
    BY <1>9, <2>1, <2>3, <2>4 DEF EditImage
  <2> HIDE DEF o
  <2> QED  BY <1>5, <2>5
<1>10. CASE DeletePreflightValidation
  BY <1>5, <1>10 DEF DeletePreflightValidation
<1>11. ASSUME NEW s \in SR, SpecialResourceChanges(s) PROVE IInv'
  <2>1. srs' \in [SR -> {None, "live", "deleting"}]
    BY <1>11 DEF SpecialResourceChanges, IInv, EnvTypes
  <2> QED  BY <1>6, <1>11, <2>1 DEF SpecialResourceChanges, IInv, EnvTypes
<1>12. ASSUME NEW r \in Drivers, Publish(r) PROVE IInv'
  <2>1. published' \subseteq Drivers
    BY <1>12 DEF Publish, IInv, EnvTypes
  <2> QED  BY <1>6, <1>12, <2>1 DEF Publish, IInv, EnvTypes
<1> QED  BY <1>8, <1>9, <1>10, <1>11, <1>12 DEF Users

\* A pass that is over leaves nothing behind.
LEMMA DoneIsClean ==
    ASSUME Done
    PROVE  PassTypes' /\ pc' = "idle" /\ \A f : Earned(mem', f)
<1>1. NoStatuses \in Statuses /\ \A f : Earned(NoStatuses, f)
  BY PreflightAssumption DEF NoStatuses, Statuses, Earned
<1>2. PassTypes'
  BY <1>1 DEF Done, PassTypes, NoList
<1> QED  BY <1>1, <1>2 DEF Done

\* A step of the worker that does not write the object.
LEMMA QuietKeeps ==
    ASSUME IInv, UNCHANGED <<store, cache, env, fit>>, mishaps' \in 0..MaxMishaps,
           PassTypes', queued' \in BOOLEAN, Rest', Toolkits', Earned(mem', fit)
    PROVE  IInv'
<1>1. StoreTypes' /\ Latest' /\ Copies' = Copies
  BY DEF IInv, StoreTypes, Latest, Copies, store
<1>2. AllEarned'
  BY <1>1 DEF IInv, AllEarned
<1>3. EnvTypes'
  BY DEF IInv, EnvTypes, env
<1> QED  BY <1>1, <1>2, <1>3, Zenon DEF IInv

\* What GetDTKData found may be kept.
LEMMA KeepKeeps ==
    ASSUME IInv, NEW url, NEW dtk \in GetDTKData(Registries, dtks, url), dtks' = Keep(url, dtk)
    PROVE  Toolkits'
<1>1. Registries \subseteq DOMAIN Contents
  BY PreflightAssumption DEF IInv, EnvTypes, Registries
<1>2. DOMAIN dtks' = Toolkit
  BY DEF Keep
<1>3. ASSUME NEW u \in Toolkit, dtks'[u] # None PROVE dtks'[u] \in GetDTKData(DOMAIN Contents, <<>>, u)
  <2>1. CASE u = url /\ dtk \notin {None, Panic}
    <3>1. dtks'[u] = dtk
      BY <2>1 DEF Keep
    <3>2. \/ url \in DOMAIN dtks /\ dtks[url] # None /\ dtk = dtks[url]
          \/ dtk \in GetDTKData(DOMAIN Contents, <<>>, url)
      BY <1>1, ToolkitData
    <3> QED  BY <2>1, <3>1, <3>2 DEF IInv, Toolkits, ToolkitsAsPublished
  <2>2. CASE ~(u = url /\ dtk \notin {None, Panic})
    <3>1. dtks'[u] = dtks[u]
      BY <2>2 DEF Keep
    <3> QED  BY <1>3, <3>1 DEF IInv, Toolkits, ToolkitsAsPublished
  <2> QED  BY <2>1, <2>2
<1> QED  BY <1>2, <1>3 DEF Toolkits, ToolkitsAsPublished

\* The SpecialResource controller asks for a toolkit.
LEMMA GetClusterInfoKeeps ==
    ASSUME IInv, NEW url \in Current, GetClusterInfoOf(url)
    PROVE  IInv'
<1>1. Toolkits'
  BY KeepKeeps DEF GetClusterInfoOf
<1>2. UNCHANGED <<store, cache, queued, env, fit, pass, mishaps>>
  BY DEF GetClusterInfoOf
<1>3. PassTypes' /\ Rest' /\ Earned(mem', fit) /\ mishaps' \in 0..MaxMishaps
  BY <1>2 DEF IInv, PassTypes, Rest, AllEarned, EnvTypes, pass
<1>4. queued' \in BOOLEAN
  BY <1>2, Zenon DEF IInv
<1> QED  BY <1>1, <1>2, <1>3, <1>4, QuietKeeps

\* Every notification is queued.
LEMMA SyncCacheKeeps ==
    ASSUME IInv, SyncCache
    PROVE  IInv'
<1>1. StoreTypes' /\ Latest' /\ Copies' \subseteq Copies
  BY SyncKeeps DEF SyncCache, IInv
<1>2. queued' = TRUE /\ UNCHANGED <<env, dtks, fit, pass, mishaps>>
  BY DEF SyncCache
<1>3. AllEarned'
  BY <1>1, <1>2 DEF IInv, AllEarned, pass
<1>4. EnvTypes' /\ PassTypes' /\ Toolkits'
  BY <1>2 DEF IInv, EnvTypes, PassTypes, Toolkits, ToolkitsAsPublished, env, pass
<1>5. Rest'
  BY <1>2, Zenon DEF Rest
<1>6. queued' \in BOOLEAN
  BY <1>2, Zenon
<1> QED  BY <1>1, <1>3, <1>4, <1>5, <1>6, Zenon DEF IInv

\* A process that starts reads what is stored.
LEMMA StartedKeeps ==
    ASSUME IInv, Started, mishaps' \in 0..MaxMishaps
    PROVE  IInv'
<1>1. cache' = pv /\ pending' = <<>> /\ pv' = pv /\ UNCHANGED <<env, fit>> /\ Done
  BY DEF Started
<1>2. pending' \in Seq(Obj \cup {None}) /\ Len(pending') = 0 /\ DOMAIN pending' = {}
  BY <1>1
<1>3. StoreTypes' /\ Latest'
  BY <1>1, <1>2, PreflightAssumption DEF IInv, StoreTypes, Latest
<1>4. Copies' \subseteq Copies
  BY <1>1, <1>2 DEF Copies
<1>5. PassTypes' /\ Earned(mem', fit')
  BY <1>1, DoneIsClean
<1>6. AllEarned'
  BY <1>1, <1>4, <1>5 DEF IInv, AllEarned
<1>7. EnvTypes'
  BY <1>1 DEF IInv, EnvTypes, env
<1>8. Toolkits'
  BY DEF Started, Toolkits, ToolkitsAsPublished
<1>9. queued' = (pv # None)
  BY DEF Started
<1>10. queued' \in BOOLEAN
  BY <1>9, Zenon
<1>11. Rest'
  <2>1. queued' = FALSE => pv = None
    BY <1>9, Zenon
  <2> QED  BY <1>1, <2>1, Zenon DEF Rest
<1> QED  BY <1>3, <1>5, <1>6, <1>7, <1>8, <1>10, <1>11, Zenon DEF IInv

\* Queued again, the object is not forgotten.
LEMMA RequeueKeeps ==
    ASSUME IInv, Requeue, Toolkits', UNCHANGED <<store, cache, env, fit>>, mishaps' \in 0..MaxMishaps
    PROVE  IInv'
<1>1. PassTypes' /\ Earned(mem', fit)
  BY DoneIsClean DEF Requeue
<1>2. queued' = TRUE
  BY DEF Requeue
<1>3. queued' \in BOOLEAN /\ Rest'
  BY <1>2, Zenon DEF Rest
<1> QED  BY <1>1, <1>3, QuietKeeps, Zenon

\* Reconcile up to the List: the pass starts from the list of the cache.
LEMMA ReconcileKeeps ==
    ASSUME IInv, Reconcile
    PROVE  IInv'
<1> USE PreflightAssumption
<1>1. mishaps \in 0..MaxMishaps /\ (Mishap => mishaps' \in 0..MaxMishaps) /\ Toolkits /\ (UNCHANGED dtks => Toolkits')
  BY DEF IInv, EnvTypes, Mishap, Toolkits, ToolkitsAsPublished
<1>2. CASE cache = None /\ queued' = FALSE /\ UNCHANGED <<store, cache, env, dtks, fit, pass, mishaps>>
  <2>1. PassTypes' /\ Earned(mem', fit) /\ mishaps' \in 0..MaxMishaps
    BY <1>2 DEF IInv, PassTypes, AllEarned, EnvTypes, pass
  <2>2. queued' \in BOOLEAN /\ Rest'
    BY <1>2, Zenon DEF Rest
  <2> QED  BY <1>1, <1>2, <2>1, <2>2, QuietKeeps
<1>3. ASSUME cache # None, NEW k, NEW url, NEW dtk \in GetDTKData(Registries, dtks, url), dtks' = Keep(url, dtk),
             queued' = FALSE, pc' = "preset", mem' = cache.statuses, old' = cache.statuses, image' = cache.image,
             list' = srs, todo' = {s \in SR : srs[s] # None}, UNCHANGED mishaps,
             UNCHANGED <<store, cache, env, fit>>
      PROVE  IInv'
  <2>1. Toolkits'
    BY <1>3, KeepKeeps
  <2>2. cache \in Obj /\ Earned(cache.statuses, fit)
    BY <1>3 DEF IInv, StoreTypes, AllEarned, Copies
  <2>3. PassTypes'
    BY <1>3, <2>2 DEF IInv, EnvTypes, PassTypes, Obj
  <2>4. queued' \in BOOLEAN
    BY <1>3, Zenon
  <2>5. Rest'
    BY <1>3 DEF Rest
  <2> QED  BY <1>1, <1>3, <2>1, <2>2, <2>3, <2>4, <2>5, QuietKeeps
<1>4. ASSUME NEW url, NEW dtk \in GetDTKData(Registries, dtks, url), dtks' = Keep(url, dtk),
             Mishap, Requeue, UNCHANGED <<store, cache, env, fit>>
      PROVE  IInv'
  <2>1. Toolkits'
    BY <1>4, KeepKeeps
  <2> QED  BY <1>1, <1>4, <2>1, RequeueKeeps
<1>5. CASE (Mishap \/ UNCHANGED mishaps) /\ Requeue /\ UNCHANGED <<store, cache, env, dtks, fit>>
  BY <1>1, <1>5, RequeueKeeps
<1>6. CASE Started /\ UNCHANGED mishaps
  BY <1>1, <1>6, StartedKeeps
<1> QED  BY <1>2, <1>3, <1>4, <1>5, <1>6, Zenon DEF Reconcile

\* A merge patch replaces the list by the one in memory with one verdict changed.
LEMMA PatchKeeps ==
    ASSUME IInv, NEW s \in SR, NEW v \in Verdict, Patch(s, v), UNCHANGED cache,
           fit \subseteq fit', fit' \subseteq SR \X Image,
           v = "True" => \E i \in Image : <<s, i>> \in fit'
    PROVE  StoreTypes' /\ Latest' /\ AllEarned' /\ mem' \in Statuses
<1>1. mem' = [mem EXCEPT ![s] = v] /\ mem \in Statuses /\ Earned(mem, fit)
  BY DEF Patch, IInv, PassTypes, AllEarned
<1>2. mem' \in Statuses
  BY <1>1 DEF Statuses
<1>3. Earned(mem', fit')
  BY <1>1 DEF Earned, Statuses
<1>4. pv \in Obj /\ Store([pv EXCEPT !.statuses = mem'])
  BY <1>1 DEF Patch, IInv, StoreTypes
<1>5. [pv EXCEPT !.statuses = mem'] \in Obj /\ [pv EXCEPT !.statuses = mem'].statuses = mem'
  BY <1>2, <1>4 DEF Obj
<1>6. PICK o : o = [pv EXCEPT !.statuses = mem']
  OBVIOUS
<1>7. o \in Obj \cup {None} /\ Store(o) /\ Earned(o.statuses, fit')
  BY <1>3, <1>4, <1>5, <1>6
<1>8. StoreTypes' /\ Latest' /\ Copies' \subseteq Copies \cup {o}
  BY <1>7, StoreKeeps DEF IInv
<1>9. AllEarned'
  BY <1>3, <1>7, <1>8, EarnedKeeps DEF IInv
<1> QED  BY <1>2, <1>8, <1>9

\* presetStatusesForCRs only writes "Unknown".
LEMMA PresetStatusKeeps ==
    ASSUME IInv, PresetStatus
    PROVE  IInv'
<1>1. pc = "preset" /\ UNCHANGED <<cache, env, dtks, fit>>
  BY DEF PresetStatus
<1>2. Toolkits' /\ mishaps \in 0..MaxMishaps /\ (Mishap => mishaps' \in 0..MaxMishaps) /\ queued \in BOOLEAN
  BY <1>1, PreflightAssumption DEF IInv, EnvTypes, Mishap, Toolkits, ToolkitsAsPublished
<1>3. PICK s \in todo :
         \/ todo' = todo \ {s} /\ UNCHANGED <<store, queued, pc, mem, image, kernel, old, list, mishaps>>
         \/ Patch(s, "Unknown") /\ todo' = todo \ {s} /\ UNCHANGED <<queued, pc, image, kernel, old, list, mishaps>>
         \/ (UNCHANGED mishaps \/ Mishap) /\ Requeue /\ UNCHANGED store
  BY DEF PresetStatus
<1>4. CASE todo' = todo \ {s} /\ UNCHANGED <<store, queued, pc, mem, image, kernel, old, list, mishaps>>
  <2>1. PassTypes' /\ Rest' /\ Earned(mem', fit)
    BY <1>1, <1>4 DEF IInv, PassTypes, Rest, AllEarned
  <2>2. queued' \in BOOLEAN
    BY <1>2, <1>4, Zenon
  <2> QED  BY <1>1, <1>2, <1>4, <2>1, <2>2, QuietKeeps
<1>5. CASE Patch(s, "Unknown") /\ todo' = todo \ {s} /\ UNCHANGED <<queued, pc, image, kernel, old, list, mishaps>>
  <2>1. s \in SR /\ "Unknown" \in Verdict /\ "Unknown" # "True" /\ fit \subseteq SR \X Image
    BY DEF IInv, PassTypes, AllEarned, Verdict
  <2>2. StoreTypes' /\ Latest' /\ AllEarned' /\ mem' \in Statuses
    BY <1>1, <1>5, <2>1, PatchKeeps
  <2>3. PassTypes' /\ Rest'
    BY <1>1, <1>5, <2>2 DEF IInv, PassTypes, Rest
  <2>4. EnvTypes'
    BY <1>1, <1>5 DEF IInv, EnvTypes, env
  <2>5. queued' \in BOOLEAN
    BY <1>2, <1>5, Zenon
  <2> QED  BY <1>2, <2>2, <2>3, <2>4, <2>5, Zenon DEF IInv
<1>6. CASE (UNCHANGED mishaps \/ Mishap) /\ Requeue /\ UNCHANGED store
  BY <1>1, <1>2, <1>6, RequeueKeeps
<1> QED  BY <1>3, <1>4, <1>5, <1>6

\* A verdict is that of the check at that time, on the images that can be read.
LEMMA UpdatePreflightStatusKeeps ==
    ASSUME IInv, UpdatePreflightStatus
    PROVE  IInv'
<1>1. pc = "check" /\ UNCHANGED <<cache, queued, env, dtks, pc, image, kernel, old, list>>
  BY DEF UpdatePreflightStatus
<1>2. Toolkits' /\ mishaps \in 0..MaxMishaps /\ Rest'
  BY <1>1 DEF IInv, EnvTypes, Toolkits, ToolkitsAsPublished, Rest
<1>3. queued' \in BOOLEAN
  BY <1>1, Zenon DEF IInv
<1>4. PICK s \in todo :
         /\ todo' = todo \ {s}
         /\ \/ UNCHANGED <<store, mem, fit, mishaps>>
            \/ /\ fit' = IF ReadyFor(Registries, chart[s][kernel], kernel) THEN fit \cup {<<s, image>>} ELSE fit
               /\ \E check \in PreflightUpgradeCheck(s), lost \in {0, 1} :
                    /\ mishaps' = mishaps + check.mishaps + lost /\ mishaps' <= MaxMishaps
                    /\ \/ mem' = [mem EXCEPT ![s] = check.verdict] /\ UNCHANGED store
                       \/ Patch(s, check.verdict)
  BY DEF UpdatePreflightStatus
<1>5. s \in SR /\ image \in Image /\ mem \in Statuses /\ Earned(mem, fit) /\ fit \subseteq SR \X Image
  BY <1>1 DEF IInv, PassTypes, AllEarned
<1>6. CASE UNCHANGED <<store, mem, fit, mishaps>>
  <2>1. PassTypes' /\ Earned(mem', fit)
    BY <1>1, <1>4, <1>6 DEF IInv, PassTypes, AllEarned
  <2> QED  BY <1>1, <1>2, <1>3, <1>6, <2>1, QuietKeeps
<1>7. ASSUME fit' = IF ReadyFor(Registries, chart[s][kernel], kernel) THEN fit \cup {<<s, image>>} ELSE fit,
             NEW check \in PreflightUpgradeCheck(s), NEW lost \in {0, 1},
             mishaps' = mishaps + check.mishaps + lost /\ mishaps' <= MaxMishaps,
             \/ mem' = [mem EXCEPT ![s] = check.verdict] /\ UNCHANGED store
             \/ Patch(s, check.verdict)
      PROVE  IInv'
  <2>1. fit \subseteq fit' /\ fit' \subseteq SR \X Image
    BY <1>5, <1>7
  <2>2. /\ check.mishaps \in {0, 1}
        /\ check.verdict = "Error" \/ check.verdict \in handleYAMLsCheck(Registries, chart[s][kernel], kernel)
    BY DEF PreflightUpgradeCheck
  <2>3. check.verdict \in Verdict
    BY <2>2, VerdictType DEF Verdict
  <2>4. check.verdict = "True" => \E i \in Image : <<s, i>> \in fit'
    BY <1>5, <1>7, <2>2, TrueMeansReady
  <2>5. mishaps' \in 0..MaxMishaps
    BY <1>2, <1>7, <2>2, PreflightAssumption
  <2>6. EnvTypes'
    BY <1>1, <2>5 DEF IInv, EnvTypes, env
  <2>7. PICK v : v = check.verdict
    OBVIOUS
  <2>8. StoreTypes' /\ Latest' /\ AllEarned' /\ mem' \in Statuses
    <3>1. CASE mem' = [mem EXCEPT ![s] = v] /\ UNCHANGED store
      <4>1. mem' \in Statuses /\ Earned(mem', fit')
        BY <1>5, <2>1, <2>3, <2>4, <2>7, <3>1 DEF Statuses, Earned
      <4>2. StoreTypes' /\ Latest' /\ Copies' = Copies
        BY <1>1, <3>1 DEF IInv, StoreTypes, Latest, Copies, store
      <4>3. AllEarned'
        BY <2>1, <4>1, <4>2, EarnedKeeps DEF IInv
      <4> QED  BY <4>1, <4>2, <4>3
    <3>2. CASE Patch(s, v)
      BY <1>1, <1>5, <2>1, <2>3, <2>4, <2>7, <3>2, PatchKeeps
    <3> QED  BY <1>7, <2>7, <3>1, <3>2
  <2>9. PassTypes'
    BY <1>1, <1>4, <2>8 DEF IInv, PassTypes
  <2> QED  BY <1>2, <1>3, <2>6, <2>8, <2>9, Zenon DEF IInv
<1> QED  BY <1>4, <1>6, <1>7

\* checkPreflightCompletion ends only if the cache says that all is verified.
LEMMA CheckKeeps ==
    ASSUME IInv, CheckPreflightCompletion
    PROVE  IInv'
<1>1. Toolkits' /\ mishaps' \in 0..MaxMishaps
  BY DEF CheckPreflightCompletion, IInv, EnvTypes, Toolkits, ToolkitsAsPublished
<1>2. CASE Requeue
  BY <1>1, <1>2, RequeueKeeps DEF CheckPreflightCompletion
<1>3. CASE cache # None /\ AllTrue(cache.statuses) /\ Done /\ UNCHANGED queued
  <2>1. PassTypes' /\ Earned(mem', fit)
    BY <1>3, DoneIsClean
  <2>2. Rest'
    BY <1>3 DEF CheckPreflightCompletion, Rest, AllTrue
  <2>3. queued' \in BOOLEAN
    BY <1>3, Zenon DEF IInv
  <2> QED  BY <1>1, <2>1, <2>2, <2>3, QuietKeeps DEF CheckPreflightCompletion
<1> QED  BY <1>2, <1>3 DEF CheckPreflightCompletion

\* Every step of the users, the informer and the two controllers keeps the invariant.
THEOREM Inductive == IInv /\ [Next]_vars => IInv'
<1> SUFFICES ASSUME IInv, [Next]_vars PROVE IInv'
  OBVIOUS
<1>1. CASE UNCHANGED vars
  <2>1. StoreTypes' /\ EnvTypes' /\ PassTypes' /\ Latest' /\ Rest' /\ Toolkits'
    BY <1>1 DEF IInv, StoreTypes, EnvTypes, PassTypes, Latest, Rest, Toolkits, ToolkitsAsPublished,
                vars, store, env, pass
  <2>2. AllEarned'
    BY <1>1 DEF IInv, AllEarned, Copies, vars, store, pass
  <2>3. queued' \in BOOLEAN
    BY <1>1, Zenon DEF IInv, vars
  <2> QED  BY <2>1, <2>2, <2>3, Zenon DEF IInv
<1>2. CASE PresetDone
  <2>1. pc' = "check" /\ todo' = Listed /\ UNCHANGED <<store, cache, queued, env, dtks, fit, mem, image, kernel, old, list, mishaps>>
        /\ pc = "preset"
    BY <1>2 DEF PresetDone
  <2>2. PassTypes' /\ Rest' /\ Earned(mem', fit) /\ Toolkits' /\ mishaps' \in 0..MaxMishaps
    BY <2>1 DEF IInv, PassTypes, Rest, AllEarned, EnvTypes, Toolkits, ToolkitsAsPublished, Listed
  <2>3. queued' \in BOOLEAN
    BY <2>1, Zenon DEF IInv
  <2> QED  BY <2>1, <2>2, <2>3, QuietKeeps
<1>3. CASE Restart
  <2>1. mishaps' \in 0..MaxMishaps
    BY <1>3, PreflightAssumption DEF Restart, Mishap, IInv, EnvTypes
  <2> QED  BY <1>3, <2>1, StartedKeeps DEF Restart
<1> QED  BY <1>1, <1>2, <1>3, UsersKeep, GetClusterInfoKeeps, SyncCacheKeeps, ReconcileKeeps, PresetStatusKeeps,
            UpdatePreflightStatusKeeps, CheckKeeps DEF Next, Worker

\* Every verdict is one of the four, and a pass works on its own copies.
THEOREM TypeCorrect == Spec => []TypeOK
<1>1. IInv => TypeOK
  <2>1. IInv => queued \in BOOLEAN
    BY Zenon DEF IInv
  <2>2. IInv => /\ StoreTypes /\ EnvTypes /\ PassTypes /\ fit \subseteq SR \X Image /\ DOMAIN dtks = Toolkit
    BY DEF IInv, AllEarned, Toolkits
  <2> QED  BY <2>1, <2>2, Zenon DEF TypeOK, StoreTypes, EnvTypes, PassTypes
<1> QED  BY <1>1, Initially, Inductive, PTL DEF Spec

\* The controller does not stop before all it lists is verified: the queue is only
\* left empty after the cache has shown it, and the cache lacks only what will be
\* queued again.
THEOREM RestIsVerified == Spec => []RestMeansVerified
<1>1. IInv => RestMeansVerified
  <2> SUFFICES ASSUME IInv, Quiescent, pv # None PROVE AllTrue(pv.statuses)
    BY DEF RestMeansVerified
  <2>1. queued = FALSE
    BY Zenon DEF IInv, Quiescent
  <2> QED  BY <2>1 DEF IInv, Quiescent, Latest, Rest
<1> QED  BY <1>1, Initially, Inductive, PTL DEF Spec

\* "True" stands only for a SpecialResource whose driver containers were ready for an
\* image when they were checked, whatever the order in which lists are replaced.
THEOREM VerdictsAreEarned == Spec => []TrueIsEarned
<1>1. IInv => TrueIsEarned
  BY DEF IInv, AllEarned, Copies, Earned, TrueIsEarned
<1> QED  BY <1>1, Initially, Inductive, PTL DEF Spec

\* The entries of toolkits the controllers share stay as the images say.
THEOREM ToolkitsStay == Spec => []ToolkitsAsPublished
<1>1. IInv => ToolkitsAsPublished
  BY DEF IInv, Toolkits
<1> QED  BY <1>1, Initially, Inductive, PTL DEF Spec

=============================================================================
