--------------------- MODULE SpecialResourceModuleProofs ---------------------
(***************************************************************************)
(* For any spec, watched objects, images, lag of the cache and number of   *)
(* mishaps: the types; the namespace of a deleted SpecialResourceModule    *)
(* stays deleted; and at rest the templates have been run and the status   *)
(* is complete for all versions at the watched paths.                      *)
(***************************************************************************)
EXTENDS SpecialResourceModule, WellFoundedInduction, TLAPS

\* Most steps are first-order; the time given to a prover covers what the proof
\* manager does meanwhile.
USE ZenonT(3), SMTT(20), ZenonT(30)

-----------------------------------------------------------------------------
(* What is read from images *)

\* A call returns at most one result.
Single(S) == \A x, y \in S : x = y

\* Of some positions at most one is the first.
LEMMA FirstIsSingle == ASSUME NEW S, S \subseteq Nat PROVE Single(First(S)) /\ First(S) \subseteq S
  BY DEF First, Single

\* The manifest of an image is one of those in the registry, and there is one at most.
LEMMA OneManifest ==
    ASSUME NEW ref
    PROVE  LET M == Manifest(DOMAIN Contents, ref)
           IN  Single(M) /\ \A m \in M : \E r \in DOMAIN Contents : m = Contents[r]
  BY DEF Manifest, Single

\* getManifestStreamFromImage follows a list to one image at most.
LEMMA OneStream ==
    ASSUME NEW ref
    PROVE  LET M == getManifestStreamFromImage(DOMAIN Contents, ref)
           IN  Single(M) /\ \A m \in M : \E r \in DOMAIN Contents : m = Contents[r]
<1> DEFINE G(m) == getImageDigestFromMultiImage(m.manifests)
           H(m) == IF m.media = "manifest.list"
                   THEN UNION {Manifest(DOMAIN Contents, d) : d \in {d \in G(m) : repo(m.form) = "repository"}}
                   ELSE {m}
           M0 == {m \in Manifest(DOMAIN Contents, ref) : m.media # None}
<1>1. Single(M0) /\ \A m \in M0 : \E r \in DOMAIN Contents : m = Contents[r]
  BY OneManifest DEF Single
<1>2. ASSUME NEW m \in M0
      PROVE  Single(H(m)) /\ \A s \in H(m) : \E r \in DOMAIN Contents : s = Contents[r]
  <2>1. DOMAIN m.manifests \subseteq Nat
    BY <1>1, VersionsAssumption
  <2>2. Single(G(m))
    <3>1. Single(First({i \in DOMAIN m.manifests : m.manifests[i].arch = GOARCH}))
      BY <2>1, FirstIsSingle
    <3> QED  BY <3>1 DEF getImageDigestFromMultiImage, Single
  <2> HIDE DEF G
  <2>4. CASE m.media = "manifest.list"
    <3>1. H(m) = UNION {Manifest(DOMAIN Contents, d) : d \in {d \in G(m) : repo(m.form) = "repository"}}
      BY <2>4
    <3>2. \A s \in H(m) : \E d \in G(m) : s \in Manifest(DOMAIN Contents, d)
      BY <3>1
    <3> HIDE DEF H
    <3>3. \A s \in H(m) : \E r \in DOMAIN Contents : s = Contents[r]
      BY <3>2, OneManifest
    <3>4. \A s, t \in H(m) : s = t
      <4> SUFFICES ASSUME NEW s \in H(m), NEW t \in H(m) PROVE s = t
        OBVIOUS
      <4>1. PICK d \in G(m) : s \in Manifest(DOMAIN Contents, d)
        BY <3>2
      <4>2. t \in Manifest(DOMAIN Contents, d)
        BY <2>2, <3>2 DEF Single
      <4>3. Single(Manifest(DOMAIN Contents, d))
        BY OneManifest
      <4> QED  BY <4>1, <4>2, <4>3 DEF Single
    <3> QED  BY <3>3, <3>4 DEF Single
  <2>5. CASE m.media # "manifest.list"
    BY <1>1, <2>5 DEF Single
  <2> QED  BY <2>4, <2>5
<1>3. getManifestStreamFromImage(DOMAIN Contents, ref) = UNION {H(m) : m \in M0}
  BY DEF getManifestStreamFromImage
<1> HIDE DEF H, M0
<1>4. ASSUME NEW s \in UNION {H(m) : m \in M0}, NEW t \in UNION {H(m) : m \in M0} PROVE s = t
  <2>1. PICK m \in M0 : s \in H(m)
    OBVIOUS
  <2>2. PICK n \in M0 : t \in H(n)
    OBVIOUS
  <2>3. m = n
    BY <1>1 DEF Single
  <2> QED  BY <1>2, <2>1, <2>2, <2>3 DEF Single
<1> QED  BY <1>2, <1>3, <1>4 DEF Single

\* The last layer of an image is one layer at most, and its tags are in order.
LEMMA OneLayer ==
    ASSUME NEW ref
    PROVE  LET L == LastLayer(DOMAIN Contents, ref)
           IN  Single(L) /\ \A l \in L : l = Panic \/ l.references = None \/ DOMAIN l.references \subseteq Nat
<1> DEFINE D == GetLayersDigests(DOMAIN Contents, ref)
           H(d) == IF d.layers = <<>> THEN {Panic} ELSE GetLayerByDigest(d, Len(d.layers))
<1>1. Single(D) /\ \A d \in D : \E r \in DOMAIN Contents : d.layers = Contents[r].layers
  BY OneManifest, OneStream DEF GetLayersDigests, Single
<1>2. LastLayer(DOMAIN Contents, ref) = UNION {H(d) : d \in D}
  BY DEF LastLayer
<1>3. \A d \in D : Single(H(d))
  BY DEF GetLayerByDigest, Single
<1>4. ASSUME NEW d \in D, NEW l \in H(d)
      PROVE  l = Panic \/ l.references = None \/ DOMAIN l.references \subseteq Nat
  <2>1. CASE d.layers = <<>>
    BY <1>4, <2>1
  <2>2. CASE d.layers # <<>>
    <3>1. l # None /\ l = d.layers[Len(d.layers)]
      BY <1>4, <2>2 DEF GetLayerByDigest
    <3> QED  BY <1>1, <3>1, VersionsAssumption
  <2> QED  BY <2>1, <2>2
<1> HIDE DEF D, H
<1>5. Single(UNION {H(d) : d \in D})
  BY <1>1, <1>3 DEF Single
<1> QED  BY <1>2, <1>4, <1>5

\* getVersionInfoFromImage has one result at most: the panic or one version, which is
\* in the list of toolkits.
LEMMA OneVersion ==
    ASSUME NEW image \in DOMAIN Contents
    PROVE  LET V == getVersionInfoFromImage[image]
           IN  Single(V) /\ \A v \in V : v = Panic \/ v.DTKImage \in Version
<1> DEFINE K(url, l) == IF l = Panic THEN {Panic}
                        ELSE {[DTKImage |-> url, kernel |-> Complete(dtk).kernel] : dtk \in ExtractToolkitRelease(l)}
           J(url) == UNION {K(url, l) : l \in LastLayer(DOMAIN Contents, url)}
           U(layer) == {u \in ReleaseManifests(layer) : ReleaseMetadataOCPVersion(layer) # {}}
           H(layer) == IF layer = Panic THEN {Panic} ELSE UNION {J(url) : url \in U(layer)}
           L == LastLayer(DOMAIN Contents, image)
<1>1. \A url : Single(J(url))
  <2>1. \A url, l : Single(K(url, l))
    BY DEF ExtractToolkitRelease, Single
  <2>2. \A url : Single(LastLayer(DOMAIN Contents, url))
    BY OneLayer
  <2> HIDE DEF K
  <2> QED  BY <2>1, <2>2 DEF Single
<1>2. Single(L) /\ \A l \in L : l = Panic \/ l.references = None \/ DOMAIN l.references \subseteq Nat
  BY OneLayer
<1>3. ASSUME NEW layer \in L PROVE Single(H(layer))
  <2>1. CASE layer = Panic
    BY <2>1 DEF Single
  <2>2. CASE layer # Panic
    <3> DEFINE P(refs) == {i \in DOMAIN refs : refs[i].name = "driver-toolkit"}
    <3>1. layer.references # None => Single(First(P(layer.references)))
      BY <1>2, <2>2, FirstIsSingle
    <3>2. \A x \in ReleaseManifests(layer) :
             layer.references # None /\ \E i \in First(P(layer.references)) : x = layer.references[i].value
      BY DEF ReleaseManifests, Tag
    <3>3. Single(ReleaseManifests(layer))
      BY <3>1, <3>2 DEF Single
    <3> HIDE DEF J
    <3> QED  BY <1>1, <2>2, <3>3 DEF Single
  <2> QED  BY <2>1, <2>2
<1>4. getVersionInfoFromImage[image] = UNION {H(layer) : layer \in L}
  BY Zenon DEF getVersionInfoFromImage
<1> HIDE DEF H, L
<1>5. Single(UNION {H(layer) : layer \in L})
  BY <1>2, <1>3 DEF Single
<1> QED  BY <1>4, <1>5, SRMAssumption

\* An element leads to one image at most, whose manifest is known.
LEMMA OneImage == ASSUME NEW e PROVE Single(Image(e)) /\ Image(e) \subseteq DOMAIN Contents
<1>1. CASE e \in DOMAIN Graph
  <2> DEFINE hits == {c \in Channel : Graph[e][c] # None}
             last == {c \in hits : \A d \in hits : d <= c}
  <2>1. Single(last) /\ last \subseteq hits
    BY DEF Single, Channel
  <2>2. \A c \in hits : Graph[e][c] \in DOMAIN Contents
    BY <1>1, VersionsAssumption
  <2>3. Image(e) = {Graph[e][c] : c \in last}
    BY <1>1 DEF Image, getImageFromVersion
  <2> HIDE DEF hits, last
  <2> QED  BY <2>1, <2>2, <2>3 DEF Single
<1>2. CASE e \notin DOMAIN Graph
  BY <1>2 DEF Image, Single
<1> QED  BY <1>1, <1>2

\* getOCPVersions has one result, unless it fails or panics: versions whose toolkits
\* are in the list.
LEMMA OneResult ==
    ASSUME NEW s, NEW infos \in Found(s), infos \notin {None, Panic}
    PROVE  Found(s) = {infos} /\ Keys(infos) \subseteq Version
<1> DEFINE lists == {Elements(objs, WatchList[s][i]) : i \in DOMAIN WatchList[s]}
           V(e) == UNION {getVersionInfoFromImage[image] : image \in Image(e)}
           all == {V(e) : e \in UNION UNION lists}
           bad == (IF {} \in lists \/ {} \in all THEN {None} ELSE {}) \cup (IF {Panic} \in all THEN {Panic} ELSE {})
<1>1. Found(s) = IF bad # {} THEN bad ELSE {UNION all}
  BY DEF Found, getOCPVersions
<1>2. bad \subseteq {None, Panic}
  OBVIOUS
<1>3. Found(s) = {infos} /\ infos = UNION all /\ bad = {}
  <2> HIDE DEF bad, all
  <2> QED  BY <1>1, <1>2
<1>4. {Panic} \notin all
  <2> HIDE DEF all
  <2> QED  BY <1>3
<1>5. ASSUME NEW v \in infos PROVE v.DTKImage \in Version
  <2> HIDE DEF V, lists
  <2>1. PICK e \in UNION UNION lists : v \in V(e)
    BY <1>3
  <2>2. \A w \in V(e) : \E image \in Image(e) : w \in getVersionInfoFromImage[image]
    BY DEF V
  <2>3. PICK image \in Image(e) : v \in getVersionInfoFromImage[image]
    BY <2>1, <2>2
  <2>4. image \in DOMAIN Contents /\ \A i \in Image(e) : i = image
    BY OneImage DEF Single
  <2>5. Single(getVersionInfoFromImage[image]) /\ (v = Panic \/ v.DTKImage \in Version)
    BY <2>3, <2>4, OneVersion
  <2>6. \A w \in V(e) : w = v
    BY <2>2, <2>3, <2>4, <2>5 DEF Single
  <2>7. V(e) # {Panic}
    BY <1>4
  <2>8. v # Panic
    BY <2>1, <2>6, <2>7
  <2> QED  BY <2>5, <2>8
<1> QED  BY <1>3, <1>5 DEF Keys

\* A set of numbers has a least one.
LEMMA Least ==
    ASSUME NEW S, S \subseteq Nat, S # {}
    PROVE  \E m \in S : \A n \in S : m <= n
<1> DEFINE R == OpToRel(<, Nat)
<1>1. IsWellFoundedOn(R, Nat)
  BY NatLessThanWellFounded
<1>2. \A n, m \in Nat : n < m => <<n, m>> \in R
  BY DEF OpToRel
<1> HIDE DEF R
<1>3. PICK m \in S : \A n \in S : ~(<<n, m>> \in R)
  BY <1>1, WFMin
<1>4. \A n \in S : ~(n < m)
  BY <1>2, <1>3
<1> QED  BY <1>4

\* The version the worker is at is one of those left.
LEMMA CurrentIsLeft == ASSUME todo # {}, Keys(todo) \subseteq Version PROVE Current \in todo /\ Current.DTKImage \in Version
<1>1. \A v \in todo : Rank(v.DTKImage) \in Nat
  <2>1. \A x \in Version : Rank(x) \in DOMAIN Toolkits
    BY DEF Version, Rank
  <2>2. DOMAIN Toolkits \subseteq Nat
    BY SRMAssumption
  <2> QED  BY <2>1, <2>2 DEF Keys
<1> DEFINE S == {Rank(v.DTKImage) : v \in todo}
<1>2. PICK m \in S : \A n \in S : m <= n
  BY <1>1, Least
<1>3. \E v \in todo : \A w \in todo : Rank(v.DTKImage) <= Rank(w.DTKImage)
  BY <1>2
<1>4. Current \in todo
  BY <1>3 DEF Current
<1> QED  BY <1>4 DEF Keys

-----------------------------------------------------------------------------
(* Types *)

Flags == {silent, ns, wiped, objEvent, queued, fresh} \subseteq BOOLEAN

Copies ==
    /\ srm \in Obj \cup {None} /\ cache \in Obj \cup {None} /\ mem \in Obj \cup {None}
    /\ pending \in Seq(Note) /\ Len(pending) <= MaxLag

Places ==
    /\ \A n \in DOMAIN objs : objs[n] \in Objects \cup {None}
    /\ Keys(todo) \subseteq Version
    /\ DOMAIN deployed = Version \X States
    /\ pc \in {"idle", "versions", "chart"} /\ (mem = None <=> pc = "idle")
    /\ next \in 1..(NumStates + 1)
    /\ mishaps \in 0..MaxMishaps

\* The parts of the type invariant.
LEMMA TypeParts == TypeOK <=> Flags /\ Copies /\ Places
  BY Zenon DEF TypeOK, Flags, Copies, Places

\* The flags are flags at the beginning,
LEMMA FlagsInitially == Init => Flags
  BY Zenon DEF Init, Flags

\* and stay it.
LEMMA FlagsStay == ASSUME Flags, [Next]_vars PROVE Flags'
<1> USE DEF Flags
<1>1. ASSUME Started, UNCHANGED world PROVE Flags'
  BY <1>1, Zenon DEF Started, Done, world, cluster
<1>2. CASE EditSpec \/ DeleteModule
  BY <1>2, Zenon DEF EditSpec, DeleteModule, Edit, world
<1>3. ASSUME NEW n \in DOMAIN objs, ObjectChanges(n) PROVE Flags'
  <2>1. PICK notified : queued' = (queued \/ notified) /\ silent' = (silent \/ ~notified)
    BY <1>3, Zenon DEF ObjectChanges
  <2> QED  BY <1>3, <2>1, Zenon DEF ObjectChanges, Edit, world
<1>4. ASSUME NEW x \in Version \X States, DeleteOwnedObject(x) PROVE Flags'
  BY <1>4, Zenon DEF DeleteOwnedObject, Edit, world
<1>5. CASE GarbageCollect \/ SyncCache \/ OwnedObjectEvent
  BY <1>5, Zenon DEF GarbageCollect, SyncCache, OwnedObjectEvent, world, cluster, pass
<1>6. CASE Reconcile
  <2>1. UNCHANGED silent
    BY <1>6, Zenon DEF Reconcile, world
  <2>2. CASE queued' = FALSE /\ UNCHANGED <<cluster, objEvent, pass, mishaps>>
    BY <2>1, <2>2, Zenon DEF cluster, pass
  <2>3. CASE DeleteNamespace
    BY <2>1, <2>3, Zenon DEF DeleteNamespace, Requeue, Done, cluster
  <2>4. CASE CreateNamespace /\ Proceed /\ UNCHANGED <<deployed, wiped, objEvent>>
    BY <2>1, <2>4, Zenon DEF CreateNamespace, Proceed
  <2>5. CASE Requeue /\ UNCHANGED <<cluster, objEvent>>
    BY <2>1, <2>5, Zenon DEF Requeue, Done, cluster
  <2> QED  BY <1>6, <2>2, <2>3, <2>4, <2>5, Zenon DEF Reconcile
<1>7. CASE GetOCPVersions
  <2>1. CASE Requeue /\ UNCHANGED <<store, cache, world, cluster, objEvent>>
    BY <2>1, Zenon DEF Requeue, Done, cluster, world
  <2>2. CASE silent' = FALSE /\ UNCHANGED <<store, cache, objs, cluster, objEvent, queued, fresh, mishaps>>
    BY <2>2, Zenon DEF cluster
  <2> QED  BY <1>1, <1>7, <2>1, <2>2, Zenon DEF GetOCPVersions, NoVersions, Started
<1>8. CASE RunTemplate
  <2>1. UNCHANGED <<silent, ns, wiped>>
    BY <1>8, Zenon DEF RunTemplate, world
  <2>2. CASE objEvent' = (objEvent \/ deployed' # deployed) /\ UNCHANGED <<queued, pc, mem, fresh, todo, mishaps>>
    BY <2>1, <2>2, Zenon
  <2>3. CASE Requeue /\ UNCHANGED <<deployed, objEvent>>
    BY <2>1, <2>3, Zenon DEF Requeue, Done
  <2> QED  BY <1>8, <2>2, <2>3, Zenon DEF RunTemplate
<1>9. CASE UpdateStatus
  <2>1. UNCHANGED <<silent, ns, wiped, objEvent>>
    BY <1>9, Zenon DEF UpdateStatus, world, cluster
  <2>2. fresh' \in BOOLEAN /\ queued' \in BOOLEAN
    BY <1>9, Zenon DEF UpdateStatus, Requeue, Done
  <2> QED  BY <2>1, <2>2, Zenon
<1>10. CASE AllVersionsDone
  BY <1>10, Zenon DEF AllVersionsDone, Done, world, cluster
<1>11. CASE Restart
  BY <1>1, <1>11, Zenon DEF Restart, Started
<1>12. CASE UNCHANGED vars
  BY <1>12, Zenon DEF vars, world, cluster, pass
<1> QED  BY <1>2, <1>3, <1>4, <1>5, <1>6, <1>7, <1>8, <1>9, <1>10, <1>11, <1>12, Zenon DEF Next, Users, Worker

\* The other variables have their types at the beginning.
LEMMA TypesInitially == Init => Copies /\ Places
<1> SUFFICES ASSUME Init PROVE Copies /\ Places
  OBVIOUS
<1>1. srm \in Obj /\ cache = srm /\ mem = None /\ pending = <<>>
  BY DEF Init, Obj
<1>2. pending \in Seq(Note) /\ Len(pending) = 0
  BY <1>1
<1>3. Places
  BY SRMAssumption DEF Init, Places, Keys, Nothing
<1> QED  BY <1>1, <1>2, <1>3, SRMAssumption DEF Copies

\* What changes one field of a module.
LEMMA ObjFields ==
    ASSUME NEW o \in Obj
    PROVE  /\ \A s \in Specs : LET p == [o EXCEPT !.spec = s]
                               IN  p \in Obj /\ p.spec = s /\ p.complete = o.complete /\ p.deleting = o.deleting
           /\ LET p == [o EXCEPT !.deleting = TRUE]
              IN  p \in Obj /\ p.spec = o.spec /\ p.complete = o.complete /\ p.deleting = TRUE
  BY DEF Obj

\* updateSpecialResourceModuleStatus changes the list of versions that are done only.
LEMMA ObjComplete ==
    ASSUME NEW o \in Obj, NEW c, c \subseteq Version, NEW p, p = [o EXCEPT !.complete = c]
    PROVE  p \in Obj /\ p # None /\ p.spec = o.spec /\ p.complete = c /\ p.deleting = o.deleting
  BY NoneIsNoModule DEF Obj

\* A write of the module, by a user or by the controller, is notified.
LEMMA StoreTypes ==
    ASSUME Copies, NEW o \in Obj \cup {None}, NEW g \in BOOLEAN, Store(o, g)
    PROVE  pending' \in Seq(Note) /\ Len(pending') <= MaxLag /\ srm' = o
<1>1. [obj |-> o, newGeneration |-> g] \in Note
  BY DEF Note
<1> QED  BY <1>1, SRMAssumption DEF Store, Copies

\* What users do keeps the types.
LEMMA UsersKeepTypes == ASSUME Copies, Places, Users PROVE (Copies /\ Places)'
<1>0. mishaps' \in 0..MaxMishaps /\ UNCHANGED <<cache, pc, mem, todo, next>>
  <2>1. Edit
    BY DEF Users, EditSpec, DeleteModule, ObjectChanges, DeleteOwnedObject
  <2> QED  BY <2>1, SRMAssumption DEF Edit, Mishap, Places
<1>1. CASE EditSpec
  <2>1. PICK s \in Specs : srm # None /\ Store([srm EXCEPT !.spec = s], TRUE)
    BY <1>1 DEF EditSpec
  <2>2. [srm EXCEPT !.spec = s] \in Obj
    BY <2>1, ObjFields DEF Copies
  <2>3. Copies'
    <3>1. pending' \in Seq(Note) /\ Len(pending') <= MaxLag /\ srm' = [srm EXCEPT !.spec = s]
      BY <2>1, <2>2, StoreTypes
    <3> QED  BY <1>0, <2>2, <3>1 DEF Copies
  <2> QED  BY <1>0, <1>1, <2>3 DEF EditSpec, world, Places
<1>2. CASE DeleteModule
  <2>1. PICK o \in {None, [srm EXCEPT !.deleting = TRUE]} : srm # None /\ Store(o, TRUE)
    BY <1>2 DEF DeleteModule
  <2>2. [srm EXCEPT !.deleting = TRUE] \in Obj
    BY <2>1, ObjFields DEF Copies
  <2>3. Copies'
    <3>1. pending' \in Seq(Note) /\ Len(pending') <= MaxLag /\ srm' = o
      BY <2>1, <2>2, StoreTypes
    <3> QED  BY <1>0, <2>2, <3>1 DEF Copies
  <2> QED  BY <1>0, <1>2, <2>3 DEF DeleteModule, world, Places
<1>3. ASSUME NEW n \in DOMAIN objs, ObjectChanges(n) PROVE (Copies /\ Places)'
  <2>1. PICK o \in Objects \cup {None} : objs' = [objs EXCEPT ![n] = o]
    BY <1>3 DEF ObjectChanges
  <2>2. \A m \in DOMAIN objs' : objs'[m] \in Objects \cup {None}
    BY <2>1 DEF Places
  <2> QED  BY <1>0, <1>3, <2>2 DEF ObjectChanges, store, Copies, Places
<1>4. ASSUME NEW x \in Version \X States, DeleteOwnedObject(x) PROVE (Copies /\ Places)'
  BY <1>0, <1>4 DEF DeleteOwnedObject, store, world, Copies, Places
<1> QED  BY <1>1, <1>2, <1>3, <1>4 DEF Users

\* A pass that ends keeps the types,
LEMMA DoneTypes ==
    ASSUME Copies, Places, Done, UNCHANGED <<srm, pending, cache, objs>>, DOMAIN deployed' = DOMAIN deployed,
           mishaps' \in 0..MaxMishaps
    PROVE  (Copies /\ Places)'
  BY SRMAssumption DEF Done, Copies, Places, Keys

\* and so does a start of the process.
LEMMA StartTypes ==
    ASSUME Copies, Places, Started, mishaps' \in 0..MaxMishaps
    PROVE  (Copies /\ Places)'
<1>1. pending' \in Seq(Note) /\ Len(pending') = 0
  BY DEF Started
<1>2. Copies'
  BY <1>1, SRMAssumption DEF Started, Done, Copies
<1> QED  BY <1>2, SRMAssumption DEF Started, Done, Places, Keys, world, cluster

\* The informers and the garbage collector keep the types.
LEMMA InformersKeepTypes ==
    ASSUME Copies, Places, GarbageCollect \/ SyncCache \/ OwnedObjectEvent \/ Restart \/ UNCHANGED vars
    PROVE  (Copies /\ Places)'
<1>1. CASE GarbageCollect
  BY <1>1 DEF GarbageCollect, store, world, pass, Copies, Places, Nothing
<1>2. CASE SyncCache
  <2>1. Head(pending) \in Note /\ pending' \in Seq(Note) /\ Len(pending') <= MaxLag
    BY <1>2, SRMAssumption DEF SyncCache, Copies
  <2>2. cache' \in Obj \cup {None}
    BY <1>2, <2>1 DEF SyncCache, Note
  <2> QED  BY <1>2, <2>1, <2>2 DEF SyncCache, world, cluster, pass, Copies, Places
<1>3. CASE OwnedObjectEvent \/ UNCHANGED vars
  BY <1>3 DEF OwnedObjectEvent, vars, store, world, cluster, pass, Copies, Places
<1>4. CASE Restart
  <2>1. mishaps' \in 0..MaxMishaps
    BY <1>4, SRMAssumption DEF Restart, Mishap, Places
  <2> QED  BY <1>4, <2>1, StartTypes DEF Restart
<1> QED  BY <1>1, <1>2, <1>3, <1>4

\* The worker keeps the types.
LEMMA WorkerKeepsTypes ==
    ASSUME Copies, Places, fresh = TRUE => srm # None, Reconcile \/ Worker
    PROVE  (Copies /\ Places)'
<1>0. Mishap \/ UNCHANGED mishaps => mishaps' \in 0..MaxMishaps
  BY SRMAssumption DEF Mishap, Places
<1>1. CASE Reconcile
  <2>1. UNCHANGED <<srm, pending, cache, objs>>
    BY <1>1 DEF Reconcile, store, world
  <2>2. CASE UNCHANGED <<cluster, objEvent, pass, mishaps>>
    BY <2>1, <2>2 DEF cluster, pass, Copies, Places
  <2>3. CASE Done /\ (deployed' = Nothing \/ UNCHANGED deployed) /\ (Mishap \/ UNCHANGED mishaps)
    <3>1. DOMAIN deployed' = DOMAIN deployed
      BY <2>3 DEF Places, Nothing
    <3> QED  BY <1>0, <2>1, <2>3, <3>1, DoneTypes
  <2>4. CASE cache # None /\ CreateNamespace /\ Proceed /\ UNCHANGED <<deployed, wiped, objEvent>>
    <3>1. mishaps' \in 0..MaxMishaps
      BY <1>0, <2>4 DEF CreateNamespace
    <3> QED  BY <2>1, <2>4, <3>1 DEF Proceed, Copies, Places
  <2> QED  BY <1>1, <2>2, <2>3, <2>4 DEF Reconcile, DeleteNamespace, Requeue, cluster
<1>2. CASE GetOCPVersions
  <2>1. CASE Started /\ UNCHANGED mishaps
    BY <1>0, <2>1, StartTypes
  <2>2. CASE Done /\ UNCHANGED <<store, cache, world, cluster, objEvent>> /\ (Mishap \/ UNCHANGED mishaps)
    BY <1>0, <2>2, DoneTypes DEF store, world, cluster
  <2>3. ASSUME NEW infos \in Found(mem.spec) \ {None, Panic}, todo' = infos,
               mem' = [mem EXCEPT !.complete = mem.complete \cap Keys(infos)],
               pc' = "chart" /\ next' = 1, UNCHANGED <<store, cache, objs, cluster, mishaps>>
        PROVE  (Copies /\ Places)'
    <3>1. Keys(infos) \subseteq Version
      BY OneResult
    <3>2. mem \in Obj /\ mem.complete \in SUBSET Version
      BY <1>2 DEF GetOCPVersions, Copies, Places, Obj
    <3>3. mem' \in Obj /\ mem' # None
      <4>1. mem.complete \cap Keys(infos) \subseteq Version
        BY <3>2
      <4> QED  BY <2>3, <3>2, <4>1, ObjComplete
    <3> QED  BY <2>3, <3>1, <3>3, SRMAssumption DEF store, cluster, Copies, Places, Keys
  <2> QED  BY <1>2, <2>1, <2>2, <2>3 DEF GetOCPVersions, NoVersions, Requeue
<1>3. CASE RunTemplate
  <2>1. UNCHANGED <<srm, pending, cache, objs>> /\ pc = "chart"
    BY <1>3 DEF RunTemplate, store, world
  <2>2. CASE Done /\ UNCHANGED deployed /\ (Mishap \/ UNCHANGED mishaps)
    BY <1>0, <2>1, <2>2, DoneTypes
  <2>3. CASE DOMAIN deployed' = DOMAIN deployed /\ next <= NumStates /\ next' = next + 1 /\ UNCHANGED <<pc, mem, todo, mishaps>>
    BY <2>1, <2>3, SRMAssumption DEF Copies, Places
  <2> QED  BY <1>3, <2>2, <2>3 DEF RunTemplate, Requeue
<1>4. CASE UpdateStatus
  <2>1. UNCHANGED <<cache, objs, deployed>> /\ pc = "chart" /\ todo # {}
    BY <1>4 DEF UpdateStatus, world, cluster
  <2>2. CASE Done /\ UNCHANGED store /\ (Mishap \/ UNCHANGED mishaps)
    BY <1>0, <2>1, <2>2, DoneTypes DEF store
  <2>3. CASE /\ fresh /\ mem' = Completed /\ todo' = todo \ {Current} /\ next' = 1 /\ UNCHANGED <<pc, mishaps>>
             /\ UNCHANGED store \/ Store([srm EXCEPT !.complete = Completed.complete], FALSE)
    <3>1. mem \in Obj /\ mem.complete \in SUBSET Version
      BY <2>1 DEF Copies, Places, Obj
    <3>2. Current.DTKImage \in Version
      BY <2>1, CurrentIsLeft DEF Places
    <3>3. Completed \in Obj /\ Completed.complete \in SUBSET Version /\ Completed # None
      <4>1. mem.complete \cup {Current.DTKImage} \subseteq Version
        BY <3>1, <3>2
      <4>2. Completed = [mem EXCEPT !.complete = mem.complete \cup {Current.DTKImage}]
        BY DEF Completed
      <4> QED  BY <3>1, <4>1, <4>2, ObjComplete
    <3>4. PICK o \in Obj : o = [srm EXCEPT !.complete = Completed.complete]
      BY <2>3, <3>3, ObjComplete DEF Copies
    <3>5. pending' \in Seq(Note) /\ Len(pending') <= MaxLag /\ srm' \in Obj \cup {None}
      <4>1. CASE UNCHANGED store
        BY <4>1 DEF store, Copies
      <4>2. CASE Store(o, FALSE)
        <5>1. o \in Obj \cup {None} /\ FALSE \in BOOLEAN
          OBVIOUS
        <5>2. pending' \in Seq(Note) /\ Len(pending') <= MaxLag /\ srm' = o
          BY <4>2, <5>1, StoreTypes
        <5> QED  BY <5>1, <5>2
      <4> QED  BY <2>3, <3>4, <4>1, <4>2
    <3> QED  BY <2>1, <2>3, <3>3, <3>5, SRMAssumption DEF Copies, Places, Keys
  <2> QED  BY <1>4, <2>2, <2>3 DEF UpdateStatus, Requeue, store
<1>5. CASE AllVersionsDone
  BY <1>0, <1>5, DoneTypes DEF AllVersionsDone, store, world, cluster
<1> QED  BY <1>1, <1>2, <1>3, <1>4, <1>5 DEF Worker

\* Deletion cannot be taken back.
Ended(o) == o = None \/ o.deleting = TRUE

Stored ==
    /\ srm # None => "deleting" \in DOMAIN srm
    /\ fresh = TRUE => srm # None

\* What the informer has seen, is still to see and is stored: once deleted, deleted.
Monotone ==
    /\ \E S : pending \in Seq(S)
    /\ Ended(cache) => \A i \in 1..Len(pending) : Ended(pending[i].obj)
    /\ \A i, j \in 1..Len(pending) : i <= j /\ Ended(pending[i].obj) => Ended(pending[j].obj)
    /\ \A i \in 1..Len(pending) : Ended(pending[i].obj) => Ended(srm)
    /\ Ended(cache) => Ended(srm)
    /\ IF pending = <<>> THEN cache = srm ELSE pending[Len(pending)].obj = srm

\* The controller deletes the namespace only if the copy of the module it has is
\* deleted, and is then between two passes.
WipedIsOver == wiped => Ended(cache) /\ pc = "idle" /\ WipedStaysEmpty

IInv == Stored /\ Monotone /\ WipedIsOver

\* Before the first pass nothing has been deleted.
THEOREM Initially == Init => IInv
<1> SUFFICES ASSUME Init PROVE IInv
  OBVIOUS
<1>1. Stored /\ ~wiped
  BY DEF Init, Stored
<1>2. pending = <<>> /\ cache = srm
  BY DEF Init
<1>3. pending \in Seq({})
  BY <1>2
<1>4. Monotone
  BY <1>2, <1>3 DEF Monotone
<1> QED  BY <1>1, <1>4 DEF IInv, WipedIsOver

\* A write that does not take a deletion back keeps the order.
LEMMA StoreKeeps ==
    ASSUME Monotone, NEW o, NEW g, Store(o, g), Ended(srm) => Ended(o), UNCHANGED cache
    PROVE  Monotone'
<1> DEFINE note == [obj |-> o, newGeneration |-> g]
<1>1. PICK S : pending \in Seq(S)
  BY DEF Monotone
<1>2. pending' = Append(pending, note) /\ srm' = o /\ note.obj = o
  BY DEF Store
<1> HIDE DEF note
<1>3. pending' \in Seq(S \cup {note})
  <2>1. pending \in Seq(S \cup {note}) /\ note \in S \cup {note}
    BY <1>1
  <2> QED  BY <1>2, <2>1
<1>4. /\ Len(pending') = Len(pending) + 1 /\ Len(pending) \in Nat
      /\ \A i \in 1..Len(pending) : pending'[i] = pending[i]
      /\ pending'[Len(pending) + 1] = note
  BY <1>1, <1>2
<1>5. \A i \in 1..Len(pending') : i \in 1..Len(pending) \/ pending'[i].obj = o
  BY <1>2, <1>4
<1>6. \A i \in 1..Len(pending') : Ended(pending'[i].obj) => Ended(o)
  BY <1>4, <1>5 DEF Monotone
<1>7. Ended(cache) => Ended(o)
  BY DEF Monotone
<1>8. (Ended(cache) => \A i \in 1..Len(pending) : Ended(pending[i].obj))'
  BY <1>4, <1>5, <1>7 DEF Monotone
<1>9. (\A i, j \in 1..Len(pending) : i <= j /\ Ended(pending[i].obj) => Ended(pending[j].obj))'
  <2> SUFFICES ASSUME NEW i \in 1..Len(pending'), NEW j \in 1..Len(pending'), i <= j, Ended(pending'[i].obj)
               PROVE  Ended(pending'[j].obj)
    OBVIOUS
  <2>1. CASE j \in 1..Len(pending)
    BY <1>4, <2>1 DEF Monotone
  <2>2. CASE pending'[j].obj = o
    BY <1>6, <2>2
  <2> QED  BY <1>5, <2>1, <2>2
<1>10. pending' # <<>> /\ pending'[Len(pending')].obj = o
  BY <1>2, <1>4
<1> QED  BY <1>2, <1>3, <1>6, <1>7, <1>8, <1>9, <1>10 DEF Monotone

\* So does the informer, taking the oldest version.
LEMMA SyncKeeps ==
    ASSUME Monotone, pending # <<>>, cache' = Head(pending).obj, pending' = Tail(pending), UNCHANGED srm
    PROVE  Monotone' /\ (Ended(cache) => Ended(cache'))
<1>1. PICK S : pending \in Seq(S)
  BY DEF Monotone
<1>2. /\ Len(pending) \in Nat /\ Len(pending) > 0
      /\ Head(pending) = pending[1]
      /\ pending' \in Seq(S) /\ Len(pending') = Len(pending) - 1
      /\ \A i \in 1..Len(pending') : pending'[i] = pending[i + 1]
  BY <1>1
<1>3. cache' = pending[1].obj /\ 1 \in 1..Len(pending)
  BY <1>2
<1>4. \A i \in 1..Len(pending') : i + 1 \in 1..Len(pending) /\ 1 <= i + 1
  BY <1>2
<1>5. (Ended(cache) => \A i \in 1..Len(pending) : Ended(pending[i].obj))'
  BY <1>2, <1>3, <1>4 DEF Monotone
<1>6. (\A i, j \in 1..Len(pending) : i <= j /\ Ended(pending[i].obj) => Ended(pending[j].obj))'
  <2> SUFFICES ASSUME NEW i \in 1..Len(pending'), NEW j \in 1..Len(pending'), i <= j, Ended(pending'[i].obj)
               PROVE  Ended(pending'[j].obj)
    OBVIOUS
  <2>1. i + 1 <= j + 1
    BY <1>2
  <2> QED  BY <1>2, <1>4, <2>1 DEF Monotone
<1>7. (\A i \in 1..Len(pending) : Ended(pending[i].obj) => Ended(srm))' /\ (Ended(cache) => Ended(srm))'
  BY <1>2, <1>3, <1>4 DEF Monotone
<1>8. Ended(cache) => Ended(cache')
  BY <1>3 DEF Monotone
<1>9. (IF pending = <<>> THEN cache = srm ELSE pending[Len(pending)].obj = srm)'
  <2>1. CASE Len(pending) = 1
    <3>1. pending' = <<>>
      BY <1>2, <2>1
    <3> QED  BY <1>3, <2>1, <3>1 DEF Monotone
  <2>2. CASE Len(pending) # 1
    <3>1. Len(pending') \in 1..Len(pending') /\ pending' # <<>> /\ Len(pending') + 1 = Len(pending)
      <4>1. Len(pending') \in Nat /\ Len(pending') > 0
        BY <1>2, <2>2
      <4>2. ~(Len(<<>>) > 0)
        OBVIOUS
      <4>3. pending' # <<>>
        BY <4>1, <4>2, Zenon
      <4>4. Len(pending') \in 1..Len(pending') /\ Len(pending') + 1 = Len(pending)
        BY <1>2, <4>1
      <4> QED  BY <4>3, <4>4, Zenon
    <3>2. pending[Len(pending)].obj = srm
      BY DEF Monotone
    <3>3. pending'[Len(pending')] = pending[Len(pending)]
      BY <1>2, <3>1
    <3> QED  BY <3>1, <3>2, <3>3
  <2> QED  BY <2>1, <2>2
<1> QED  BY <1>2, <1>5, <1>6, <1>7, <1>8, <1>9 DEF Monotone

\* A start takes the stored module.
LEMMA StartKeeps ==
    ASSUME Monotone, cache' = srm, pending' = <<>>, UNCHANGED srm
    PROVE  Monotone' /\ (Ended(cache) => Ended(cache'))
<1>1. pending' \in Seq({}) /\ Len(pending') = 0
  OBVIOUS
<1>2. 1..Len(pending') = {}
  BY <1>1
<1> QED  BY <1>1, <1>2 DEF Monotone

\* Writes of users and of the controller keep the invariant.
LEMMA WriteKeeps ==
    ASSUME IInv, EditSpec \/ DeleteModule \/ UpdateStatus
    PROVE  IInv'
<1> USE DEF IInv
<1>1. UNCHANGED <<cache, ns, deployed, wiped>> /\ (wiped => UNCHANGED pc)
  BY DEF EditSpec, DeleteModule, UpdateStatus, Edit, cluster, WipedIsOver
<1>2. WipedIsOver'
  BY <1>1 DEF WipedIsOver, WipedStaysEmpty
<1>3. ASSUME NEW o, NEW g, Store(o, g), Ended(srm) => Ended(o), o # None => "deleting" \in DOMAIN o, fresh' = FALSE
      PROVE  Monotone' /\ Stored'
  <2>1. Monotone'
    BY <1>1, <1>3, StoreKeeps
  <2> QED  BY <1>3, <2>1 DEF Store, Stored
<1>4. ASSUME NEW o, NEW f, f # "deleting", srm # None, NEW v, o = [srm EXCEPT ![f] = v]
      PROVE  (Ended(srm) => Ended(o)) /\ "deleting" \in DOMAIN o
  <2>1. o["deleting"] = srm["deleting"] /\ "deleting" \in DOMAIN o
    BY <1>4 DEF Stored
  <2> QED  BY <1>4, <2>1 DEF Ended
<1>5. CASE EditSpec
  <2>1. PICK v \in Specs : srm # None /\ Store([srm EXCEPT !.spec = v], TRUE) /\ fresh' = FALSE
    BY <1>5 DEF EditSpec
  <2> QED  BY <1>2, <1>3, <1>4, <2>1
<1>6. CASE DeleteModule
  <2>3. fresh' = FALSE
    BY <1>6 DEF DeleteModule
  <2>1. CASE Store(None, TRUE)
    BY <1>2, <1>3, <2>1, <2>3 DEF Ended
  <2>2. CASE srm # None /\ Store([srm EXCEPT !.deleting = TRUE], TRUE)
    <3>1. [srm EXCEPT !.deleting = TRUE].deleting = TRUE /\ "deleting" \in DOMAIN [srm EXCEPT !.deleting = TRUE]
      BY <2>2 DEF Stored
    <3> QED  BY <1>2, <1>3, <2>2, <2>3, <3>1 DEF Ended
  <2> QED  BY <1>6, <2>1, <2>2 DEF DeleteModule
<1>7. CASE UpdateStatus
  <2>1. CASE UNCHANGED store /\ (UNCHANGED fresh \/ fresh' = FALSE)
    BY <1>1, <1>2, <2>1 DEF store, Monotone, Stored
  <2>2. CASE fresh /\ Store([srm EXCEPT !.complete = Completed.complete], FALSE) /\ fresh' = FALSE
    <3>1. srm # None
      BY <2>2 DEF Stored
    <3> QED  BY <1>2, <1>3, <1>4, <2>2, <3>1
  <2> QED  BY <1>7, <2>1, <2>2 DEF UpdateStatus, Requeue, Done
<1> QED  BY <1>5, <1>6, <1>7

\* The worker's passes keep it: one that begins has a copy that is not deleted.
LEMMA WorkerKeeps ==
    ASSUME IInv, Reconcile \/ GetOCPVersions \/ RunTemplate \/ AllVersionsDone \/ Restart
    PROVE  IInv'
<1> USE DEF IInv
<1>1. CASE Started /\ UNCHANGED <<ns, deployed, wiped>>
  <2>1. Monotone' /\ (Ended(cache) => Ended(cache'))
    BY <1>1, StartKeeps DEF Started
  <2>2. Stored'
    BY <1>1 DEF Started, Done, Stored
  <2>3. WipedIsOver'
    BY <1>1, <2>1 DEF Started, Done, WipedIsOver, WipedStaysEmpty
  <2> QED  BY <2>1, <2>2, <2>3
<1>2. ASSUME srm' = srm, pending' = pending, cache' = cache, fresh' = TRUE => srm # None, WipedIsOver'
      PROVE  IInv'
  BY <1>2 DEF Monotone, Stored
<1>3. CASE Reconcile
  <2>1. UNCHANGED <<srm, pending, cache>> /\ pc = "idle"
    BY <1>3 DEF Reconcile, store
  <2>2. CASE UNCHANGED <<ns, deployed, wiped, pc, fresh>>
    <3>1. WipedIsOver'
      BY <2>1, <2>2, Zenon DEF WipedIsOver, WipedStaysEmpty, Nothing
    <3>2. fresh' = TRUE => srm # None
      BY <2>2, Zenon DEF Stored
    <3> QED  BY <1>2, <2>1, <3>1, <3>2
  <2>3. CASE cache # None /\ cache.deleting /\ DeleteNamespace
    <3>1. CASE ns' = FALSE /\ deployed' = Nothing /\ wiped' = TRUE /\ Done
      <4>1. WipedIsOver'
        BY <2>1, <2>3, <3>1 DEF WipedIsOver, WipedStaysEmpty, Done, Ended, Nothing
      <4> QED  BY <1>2, <2>1, <3>1, <4>1 DEF Done
    <3>2. CASE Requeue /\ UNCHANGED cluster
      <4>1. WipedIsOver'
        BY <2>1, <3>2 DEF WipedIsOver, WipedStaysEmpty, Requeue, Done, cluster
      <4> QED  BY <1>2, <2>1, <3>2, <4>1 DEF Requeue, Done
    <3> QED  BY <2>3, <3>1, <3>2 DEF DeleteNamespace
  <2>4. CASE cache # None /\ ~cache.deleting /\ Proceed /\ UNCHANGED <<deployed, wiped>>
    <3>1. ~Ended(cache)
      BY <2>4 DEF Ended
    <3>2. WipedIsOver'
      BY <2>4, <3>1 DEF WipedIsOver
    <3>3. fresh' = TRUE => srm # None
      BY <2>4 DEF Proceed, Monotone
    <3> QED  BY <1>2, <2>1, <3>2, <3>3
  <2>5. CASE Requeue /\ UNCHANGED cluster
    <3>1. WipedIsOver'
      BY <2>1, <2>5 DEF WipedIsOver, WipedStaysEmpty, Requeue, Done, cluster
    <3> QED  BY <1>2, <2>1, <2>5, <3>1 DEF Requeue, Done
  <2> QED  BY <1>3, <2>2, <2>3, <2>4, <2>5 DEF Reconcile, cluster, pass
<1>4. CASE (GetOCPVersions \/ RunTemplate \/ AllVersionsDone) /\ ~Started
  <2>1. pc # "idle" /\ ~wiped
    BY <1>4 DEF GetOCPVersions, RunTemplate, AllVersionsDone, WipedIsOver
  <2>2. UNCHANGED <<srm, pending, cache, wiped>> /\ (UNCHANGED fresh \/ fresh' = FALSE)
    <3>1. CASE GetOCPVersions
      BY <1>4, <3>1 DEF GetOCPVersions, NoVersions, Requeue, Done, store, cluster
    <3>2. CASE RunTemplate
      BY <3>2 DEF RunTemplate, Requeue, Done, store
    <3>3. CASE AllVersionsDone
      BY <3>3 DEF AllVersionsDone, Done, store, cluster
    <3> QED  BY <1>4, <3>1, <3>2, <3>3
  <2>3. WipedIsOver'
    BY <2>1, <2>2, Zenon DEF WipedIsOver
  <2>4. fresh' = TRUE => srm # None
    BY <2>2, Zenon DEF Stored
  <2> QED  BY <1>2, <2>2, <2>3, <2>4
<1>5. CASE GetOCPVersions /\ Started
  BY <1>1, <1>5 DEF Started, cluster
<1>6. CASE Restart
  BY <1>1, <1>6 DEF Restart, Started, cluster
<1>7. CASE (RunTemplate \/ AllVersionsDone) /\ Started
  BY <1>1, <1>7 DEF Started, cluster
<1> QED  BY <1>3, <1>4, <1>5, <1>6, <1>7

\* Every step keeps the invariant.
THEOREM Inductive == IInv /\ [Next]_vars => IInv'
<1> SUFFICES ASSUME IInv, [Next]_vars PROVE IInv'
  OBVIOUS
<1> USE DEF IInv
<1>1. CASE EditSpec \/ DeleteModule \/ UpdateStatus
  BY <1>1, WriteKeeps
<1>2. CASE Reconcile \/ GetOCPVersions \/ RunTemplate \/ AllVersionsDone \/ Restart
  BY <1>2, WorkerKeeps
<1>3. ASSUME UNCHANGED <<srm, pending, cache, fresh, wiped, pc>>,
             wiped => UNCHANGED <<ns, deployed>>
      PROVE  IInv'
  BY <1>3 DEF Stored, Monotone, WipedIsOver, WipedStaysEmpty, Nothing
<1>4. CASE (\E n \in DOMAIN objs : ObjectChanges(n)) \/ OwnedObjectEvent \/ UNCHANGED vars
  BY <1>3, <1>4 DEF ObjectChanges, OwnedObjectEvent, Edit, vars, store, cluster, pass
<1>5. CASE GarbageCollect
  <2>1. ~wiped
    BY <1>5 DEF WipedIsOver, WipedStaysEmpty, GarbageCollect
  <2> QED  BY <1>3, <1>5, <2>1 DEF GarbageCollect, store, pass
<1>6. ASSUME NEW x \in Version \X States, DeleteOwnedObject(x) PROVE IInv'
  <2>1. ~wiped
    BY <1>6 DEF WipedIsOver, WipedStaysEmpty, DeleteOwnedObject, Nothing
  <2> QED  BY <1>3, <1>6, <2>1 DEF DeleteOwnedObject, Edit, store
<1>7. CASE SyncCache
  <2>1. Monotone' /\ (Ended(cache) => Ended(cache'))
    BY <1>7, SyncKeeps DEF SyncCache
  <2>2. Stored' /\ WipedIsOver'
    BY <1>7, <2>1 DEF SyncCache, Stored, WipedIsOver, WipedStaysEmpty, cluster, pass, Nothing
  <2> QED  BY <2>1, <2>2
<1> QED  BY <1>1, <1>2, <1>4, <1>5, <1>6, <1>7 DEF Next, Users, Worker

\* After Reconcile deleted the namespace of a module, no later pass, with whatever
\* copy of the module, creates it again.
THEOREM NamespaceStaysDeleted == Spec => []WipedStaysEmpty
<1>1. IInv => WipedStaysEmpty
  BY DEF IInv, WipedIsOver, WipedStaysEmpty
<1> QED  BY <1>1, Initially, Inductive, PTL DEF Spec

-----------------------------------------------------------------------------
(* Types of all reachable states *)

TInv == IInv /\ Flags /\ Copies /\ Places

\* The types and the order of the copies hold together: the status is written only
\* if there is a module.
LEMMA TypesInductive == TInv /\ [Next]_vars => TInv'
<1> SUFFICES ASSUME TInv, [Next]_vars PROVE TInv'
  OBVIOUS
<1>1. IInv'
  BY Inductive DEF TInv
<1>2. Flags'
  BY FlagsStay DEF TInv
<1>3. (Copies /\ Places)'
  <2>1. fresh = TRUE => srm # None
    BY DEF TInv, IInv, Stored
  <2>2. CASE Users
    BY <2>2, UsersKeepTypes DEF TInv
  <2>3. CASE GarbageCollect \/ SyncCache \/ OwnedObjectEvent \/ Restart \/ UNCHANGED vars
    BY <2>3, InformersKeepTypes DEF TInv
  <2>4. CASE Reconcile \/ Worker
    BY <2>1, <2>4, WorkerKeepsTypes DEF TInv
  <2> QED  BY <2>2, <2>3, <2>4 DEF Next
<1> QED  BY <1>1, <1>2, <1>3 DEF TInv

\* Every state has the types of the module's copies, the versions of the pass and
\* the flags; in particular no version is left whose toolkit image is not a known one,
\* whatever the watched objects and the images contain.
THEOREM TypeCorrect == Spec => []TypeOK
<1>1. Init => TInv
  BY Initially, FlagsInitially, TypesInitially DEF TInv
<1>2. TInv => TypeOK
  BY TypeParts DEF TInv
<1> QED  BY <1>1, <1>2, TypesInductive, PTL DEF Spec

-----------------------------------------------------------------------------
(* No wake-up is lost *)

Same(o, p) == o # None /\ p # None /\ o.spec = p.spec /\ o.deleting = p.deleting

\* The copies of the module: the cache, and what it will be.
Copy(i) == IF i = 0 THEN cache ELSE pending[i].obj

\* After the i-th copy the informer passes a change on to the controller.
Announced(i) == \E j \in 1..Len(pending) : i < j /\ pending[j].newGeneration

\* The copies after the last such change differ from the stored module in the status only.
Follows == \A i \in 0..Len(pending) : Announced(i) \/ Copy(i) = srm \/ Same(Copy(i), srm)

\* Another pass is due, or none is needed.
Awake == queued \/ objEvent \/ Announced(0) \/ ~Live

\* The pass under way works for the stored spec.
Reading == pc # "idle" => Awake \/ mem.spec = srm.spec

Ran(v, i) == deployed[<<v.DTKImage, i>>] = [spec |-> srm.spec, kernel |-> v.kernel]

Read(infos) == Found(srm.spec) = {infos} /\ infos \notin {None, Panic}

\* The status of the versions that are done is in memory and, after the first, stored.
Recorded(infos) ==
    /\ mem.complete \subseteq Keys(infos)
    /\ Keys(infos \ todo) \subseteq mem.complete
    /\ todo # infos => srm.complete = mem.complete

Running ==
    pc = "chart" =>
        \/ Awake \/ silent
        \/ \E infos :
             /\ Read(infos) /\ todo \subseteq infos
             /\ \A v \in infos \ todo, i \in States : Ran(v, i)
             /\ todo # {} => \A i \in States : i < next => Ran(Current, i)
             /\ Recorded(infos)

Resting ==
    pc = "idle" =>
        \/ Awake \/ silent
        \/ \E infos :
             /\ Read(infos)
             /\ \A v \in infos, i \in States : Ran(v, i)
             /\ infos # {} => srm.complete = Keys(infos)

WInv == Reading /\ Running /\ Resting

\* A write that is passed on, or that leaves the spec, keeps the copies in order.
LEMMA StoreFollows ==
    ASSUME Copies, Follows, NEW o, NEW g, Store(o, g), g \/ Same(srm, o), UNCHANGED cache
    PROVE  Follows' /\ (g => Announced(0)') /\ (Announced(0) => Announced(0)')
<1> DEFINE note == [obj |-> o, newGeneration |-> g]
<1>1. /\ pending \in Seq(Note) /\ pending' = Append(pending, note) /\ srm' = o
      /\ note.obj = o /\ note.newGeneration = g
  BY DEF Copies, Store
<1> HIDE DEF note
<1>2. /\ Len(pending') = Len(pending) + 1 /\ Len(pending) \in Nat
      /\ \A i \in 1..Len(pending) : pending'[i] = pending[i]
      /\ pending'[Len(pending) + 1] = note
  BY <1>1
<1>3. \A i \in 0..Len(pending) : Announced(i) => Announced(i)'
  BY <1>2 DEF Announced
<1>4. \A i \in 0..Len(pending) : g => Announced(i)'
  <2>1. Len(pending) + 1 \in 1..Len(pending')
    BY <1>2
  <2>2. \A i \in 0..Len(pending) : i < Len(pending) + 1
    BY <1>2
  <2> QED  BY <1>1, <1>2, <2>1, <2>2 DEF Announced
<1>5. \A i \in 0..Len(pending) : Copy(i)' = Copy(i)
  BY <1>2 DEF Copy
<1>6. \A i \in Nat : i = Len(pending) + 1 => Copy(i)' = srm'
  BY <1>1, <1>2 DEF Copy
<1>7. ASSUME NEW i \in 0..Len(pending) PROVE (Announced(i) \/ Copy(i) = srm \/ Same(Copy(i), srm))'
  <2>1. CASE g
    BY <1>4, <2>1
  <2>2. CASE Announced(i)
    BY <1>3, <2>2
  <2>3. CASE ~Announced(i) /\ Same(srm, o)
    <3>1. Copy(i) = srm \/ Same(Copy(i), srm)
      BY <2>3 DEF Follows
    <3>2. Same(Copy(i), o)
      BY <2>3, <3>1 DEF Same
    <3> QED  BY <1>1, <1>5, <3>2 DEF Same
  <2> QED  BY <2>1, <2>2, <2>3
<1>8. \A i \in 0..Len(pending') : i \in 0..Len(pending) \/ i = Len(pending) + 1
  BY <1>2
<1>9. Follows'
  BY <1>2, <1>6, <1>7, <1>8 DEF Follows
<1> QED  BY <1>2, <1>3, <1>4, <1>9

\* The informer takes the next copy; a change is passed on to the controller.
LEMMA SyncFollows ==
    ASSUME Copies, Follows, SyncCache
    PROVE  Follows' /\ (Announced(0) => queued' \/ Announced(0)')
<1>1. /\ Len(pending) \in Nat /\ Len(pending) > 0
      /\ Head(pending) = pending[1] /\ Len(pending') = Len(pending) - 1
      /\ \A i \in 1..Len(pending') : pending'[i] = pending[i + 1]
      /\ cache' = pending[1].obj /\ UNCHANGED srm
  BY DEF SyncCache, Copies
<1>2. \A i \in 0..Len(pending') : Copy(i)' = Copy(i + 1)
  BY <1>1 DEF Copy
<1>3. \A i \in 0..Len(pending') : Announced(i + 1) => Announced(i)'
  <2> SUFFICES ASSUME NEW i \in 0..Len(pending'), NEW j \in 1..Len(pending), i + 1 < j, pending[j].newGeneration
               PROVE  Announced(i)'
    BY DEF Announced
  <2>1. j - 1 \in 1..Len(pending') /\ i < j - 1 /\ pending'[j - 1] = pending[j]
    BY <1>1
  <2> QED  BY <2>1 DEF Announced
<1>4. Follows'
  <2> SUFFICES ASSUME NEW i \in 0..Len(pending') PROVE (Announced(i) \/ Copy(i) = srm \/ Same(Copy(i), srm))'
    BY DEF Follows
  <2>1. i + 1 \in 0..Len(pending)
    BY <1>1
  <2>2. Announced(i + 1) \/ Copy(i + 1) = srm \/ Same(Copy(i + 1), srm)
    BY <2>1 DEF Follows
  <2> QED  BY <1>1, <1>2, <1>3, <2>2 DEF Same
<1>5. ASSUME Announced(0) PROVE queued' \/ Announced(0)'
  <2>1. PICK j \in 1..Len(pending) : pending[j].newGeneration
    BY <1>5 DEF Announced
  <2>2. CASE j = 1
    BY <1>1, <2>1, <2>2 DEF SyncCache, Filtered, EventFilter!DeleteFunc, EventFilter!UpdateFunc,
                            EventFilter!isSpecialResource, EventFilter!isSpecialResourceUnmanaged
  <2>3. CASE j # 1
    <3>1. Announced(1)
      BY <2>1, <2>3 DEF Announced
    <3> QED  BY <1>1, <1>3, <3>1
  <2> QED  BY <2>2, <2>3
<1> QED  BY <1>4, <1>5

\* The copies stay in order.
LEMMA FollowsStays == ASSUME TInv, Follows, [Next]_vars PROVE Follows'
<1>1. CASE UNCHANGED <<srm, pending, cache>>
  BY <1>1 DEF Follows, Announced, Copy, Same
<1>2. ASSUME NEW o, NEW g, Store(o, g), g \/ Same(srm, o), UNCHANGED cache PROVE Follows'
  BY <1>2, StoreFollows DEF TInv
<1>3. ASSUME Started PROVE Follows'
  BY <1>3 DEF Started, Follows, Copy
<1>4. CASE EditSpec \/ DeleteModule
  BY <1>2, <1>4 DEF EditSpec, DeleteModule, Edit
<1>5. CASE UpdateStatus
  <2>1. ASSUME fresh, Store([srm EXCEPT !.complete = Completed.complete], FALSE) PROVE Follows'
    <3>1. srm \in Obj /\ srm # None
      BY <2>1 DEF TInv, IInv, Stored, Copies
    <3>2. PICK o : o = [srm EXCEPT !.complete = Completed.complete]
      OBVIOUS
    <3>3. Completed.complete \subseteq Version
      <4>1. mem \in Obj /\ mem.complete \subseteq Version
        BY <1>5 DEF UpdateStatus, TInv, Copies, Places, Obj
      <4>2. Current.DTKImage \in Version
        BY <1>5, CurrentIsLeft DEF UpdateStatus, TInv, Places
      <4> QED  BY <4>1, <4>2, ObjComplete DEF Completed
    <3>4. Same(srm, o)
      BY <3>1, <3>2, <3>3, ObjComplete DEF Same
    <3>5. UNCHANGED cache
      BY <1>5 DEF UpdateStatus
    <3> QED  BY <1>2, <2>1, <3>2, <3>4, <3>5
  <2> QED  BY <1>1, <1>5, <2>1 DEF UpdateStatus, store
<1>6. CASE SyncCache
  BY <1>6, SyncFollows DEF TInv
<1>7. CASE Restart
  BY <1>3, <1>7 DEF Restart
<1>8. CASE GetOCPVersions
  BY <1>1, <1>3, <1>8 DEF GetOCPVersions, NoVersions, store
<1>9. CASE (\E n \in DOMAIN objs : ObjectChanges(n)) \/ (\E x \in Version \X States : DeleteOwnedObject(x))
  BY <1>1, <1>9 DEF ObjectChanges, DeleteOwnedObject, Edit, store
<1>10. CASE GarbageCollect \/ OwnedObjectEvent \/ Reconcile \/ RunTemplate \/ AllVersionsDone \/ UNCHANGED vars
  BY <1>1, <1>10 DEF GarbageCollect, OwnedObjectEvent, Reconcile, RunTemplate, AllVersionsDone, vars, store
<1> QED  BY <1>4, <1>5, <1>6, <1>7, <1>8, <1>9, <1>10 DEF Next, Users, Worker

\* A step that leaves what the pass has done, and all that would wake the controller.
LEMMA Asleep ==
    ASSUME WInv, UNCHANGED <<srm, deployed, objs, silent, pc, mem, todo, next>>, Awake => Awake'
    PROVE  WInv'
<1>1. CASE Awake'
  BY <1>1 DEF WInv, Reading, Running, Resting
<1>2. CASE ~Awake
  <2>1. Reading'
    BY <1>2 DEF WInv, Reading
  <2>2. \A infos : Read(infos) => Read(infos)'
    BY DEF Read, Found
  <2>3. \A v, i : Ran(v, i) => Ran(v, i)'
    BY DEF Ran
  <2>4. Current' = Current /\ \A infos : Recorded(infos) => Recorded(infos)'
    BY DEF Current, Recorded
  <2>5. Running'
    BY <1>2, <2>2, <2>3, <2>4 DEF WInv, Running
  <2>6. Resting'
    BY <1>2, <2>2, <2>3 DEF WInv, Resting
  <2> QED  BY <2>1, <2>5, <2>6 DEF WInv
<1> QED  BY <1>1, <1>2

\* What users and the cluster do wakes the controller, or is not noticed.
LEMMA UsersWake ==
    ASSUME TInv, Follows, WInv, Users \/ GarbageCollect \/ OwnedObjectEvent \/ SyncCache \/ Restart \/ UNCHANGED vars
    PROVE  WInv'
<1>0. ASSUME Awake' PROVE WInv'
  BY <1>0 DEF WInv, Reading, Running, Resting
<1>1. CASE EditSpec \/ DeleteModule
  <2>1. PICK o : Store(o, TRUE) /\ UNCHANGED cache
    BY <1>1 DEF EditSpec, DeleteModule, Edit
  <2>2. Announced(0)'
    BY <2>1, StoreFollows DEF TInv
  <2> QED  BY <1>0, <2>2 DEF Awake
<1>2. ASSUME NEW n \in DOMAIN objs, ObjectChanges(n) PROVE WInv'
  <2>1. PICK notified : queued' = (queued \/ notified) /\ silent' = (silent \/ ~notified)
    BY <1>2 DEF ObjectChanges
  <2>2. CASE notified
    BY <1>0, <2>1, <2>2 DEF Awake
  <2>3. CASE ~notified
    <3>1. silent' /\ UNCHANGED <<srm, pending, objEvent, pc, mem>>
      BY <1>2, <2>1, <2>3 DEF ObjectChanges, Edit, store
    <3>2. Awake => Awake'
      BY <2>1, <3>1 DEF Awake, Announced, Live
    <3> QED  BY <3>1, <3>2 DEF WInv, Reading, Running, Resting
  <2> QED  BY <2>2, <2>3
<1>3. ASSUME NEW x \in Version \X States, DeleteOwnedObject(x) PROVE WInv'
  BY <1>0, <1>3 DEF DeleteOwnedObject, Awake
<1>4. CASE GarbageCollect
  BY <1>0, <1>4 DEF GarbageCollect, Awake, Live, store
<1>5. CASE OwnedObjectEvent
  BY <1>0, <1>5 DEF OwnedObjectEvent, Awake
<1>6. CASE SyncCache
  <2>1. UNCHANGED <<srm, deployed, objs, silent, pc, mem, todo, next, objEvent>> /\ (queued => queued')
    BY <1>6 DEF SyncCache, world, cluster, pass
  <2>2. Awake => Awake'
    BY <1>6, <2>1, SyncFollows DEF TInv, Awake, Live
  <2> QED  BY <2>1, <2>2, Asleep
<1>7. CASE Restart
  BY <1>0, <1>7 DEF Restart, Started, Awake, Live
<1>8. CASE UNCHANGED vars
  BY <1>8, Asleep DEF vars, store, world, cluster, pass, Awake, Announced, Live
<1> QED  BY <1>1, <1>2, <1>3, <1>4, <1>5, <1>6, <1>7, <1>8 DEF Users

\* A pass begins with a copy that has the stored spec, or another pass is due.
LEMMA ReconcileWakes == ASSUME TInv, Follows, WInv, Reconcile PROVE WInv'
<1>0. ASSUME Awake' PROVE WInv'
  BY <1>0 DEF WInv, Reading, Running, Resting
<1>1. UNCHANGED <<srm, pending, cache>>
  BY DEF Reconcile, store
<1>2. Ended(cache) => ~Live'
  BY <1>1 DEF TInv, IInv, Monotone, Ended, Live
<1>3. CASE cache = None \/ cache.deleting
  BY <1>0, <1>2, <1>3 DEF Ended, Awake
<1>4. CASE Requeue
  BY <1>0, <1>4 DEF Requeue, Awake
<1>5. CASE cache # None /\ Proceed
  <2>1. pc' = "versions" /\ mem' = cache
    BY <1>5 DEF Proceed
  <2>2. Announced(0) \/ cache.spec = srm.spec
    <3>1. 0 \in 0..Len(pending) /\ Copy(0) = cache
      BY DEF TInv, Copies, Copy
    <3> QED  BY <3>1 DEF Follows, Same
  <2>3. Announced(0) => Awake'
    BY <1>1 DEF Announced, Awake
  <2>4. Reading'
    BY <1>1, <2>1, <2>2, <2>3 DEF Reading
  <2> QED  BY <2>1, <2>4 DEF WInv, Running, Resting
<1> QED  BY <1>3, <1>4, <1>5 DEF Reconcile

\* The versions that are read are those at the watched paths.
LEMMA VersionsWake == ASSUME TInv, WInv, GetOCPVersions PROVE WInv'
<1>0. ASSUME Awake' PROVE WInv'
  BY <1>0 DEF WInv, Reading, Running, Resting
<1>1. CASE Requeue
  BY <1>0, <1>1 DEF Requeue, Awake
<1>2. CASE Started
  BY <1>0, <1>2 DEF Started, Awake, Live
<1>3. ASSUME NEW infos \in Found(mem.spec) \ {None, Panic}, todo' = infos,
             mem' = [mem EXCEPT !.complete = mem.complete \cap Keys(infos)],
             pc' = "chart" /\ next' = 1, UNCHANGED <<store, cache, objs, cluster, objEvent, queued>>
      PROVE  WInv'
  <2>1. mem \in Obj /\ mem.complete \subseteq Version /\ pc # "idle"
    BY DEF GetOCPVersions, TInv, Copies, Places, Obj
  <2>2. mem'.spec = mem.spec /\ mem'.complete = mem.complete \cap Keys(infos)
    BY <1>3, <2>1, ObjComplete
  <2>3. UNCHANGED <<srm, pending, objs, objEvent, queued>>
    BY <1>3 DEF store
  <2>4. CASE ~Awake
    <3>1. mem.spec = srm.spec
      BY <2>1, <2>4 DEF WInv, Reading
    <3>2. Read(infos)'
      <4>1. Found(srm.spec) = {infos}
        BY <3>1, OneResult
      <4> QED  BY <2>3, <4>1 DEF Read, Found
    <3>3. Reading'
      BY <2>2, <2>3, <3>1 DEF Reading
    <3>4. \A i \in States : ~(i < next')
      BY <1>3 DEF States
    <3>5. Recorded(infos)'
      BY <1>3, <2>2 DEF Recorded, Keys
    <3>6. Running'
      BY <1>3, <3>2, <3>4, <3>5 DEF Running
    <3> QED  BY <1>3, <3>3, <3>6 DEF WInv, Resting
  <2>5. CASE Awake
    BY <1>0, <2>3, <2>5 DEF Awake, Announced, Live
  <2> QED  BY <2>4, <2>5
<1> QED  BY <1>1, <1>2, <1>3 DEF GetOCPVersions, NoVersions

\* A template that is run anew notifies the controller, which owns what it creates.
LEMMA TemplateWakes == ASSUME TInv, WInv, RunTemplate PROVE WInv'
<1>0. ASSUME Awake' PROVE WInv'
  BY <1>0 DEF WInv, Reading, Running, Resting
<1>1. CASE Requeue
  BY <1>0, <1>1 DEF Requeue, Awake
<1>2. CASE /\ deployed' = [deployed EXCEPT ![<<Current.DTKImage, next>>] = [spec |-> mem.spec, kernel |-> Current.kernel]]
           /\ objEvent' = (objEvent \/ deployed' # deployed)
           /\ next' = next + 1
           /\ UNCHANGED <<queued, pc, mem, fresh, todo, mishaps>>
  <2>1. UNCHANGED <<srm, pending, objs, silent>> /\ pc = "chart" /\ todo # {} /\ next <= NumStates
    BY DEF RunTemplate, store, world
  <2>2. CASE Awake' \/ silent
    <3>1. Awake => Awake'
      BY <1>2, <2>1 DEF Awake, Announced, Live
    <3> QED  BY <1>0, <1>2, <2>1, <2>2, <3>1 DEF WInv, Reading, Running, Resting
  <2>3. CASE ~Awake' /\ ~silent
    <3>1. ~Awake /\ deployed' = deployed
      BY <1>2, <2>1, <2>3 DEF Awake, Announced, Live
    <3>2. PICK infos :
             /\ Read(infos) /\ todo \subseteq infos
             /\ \A v \in infos \ todo, i \in States : Ran(v, i)
             /\ \A i \in States : i < next => Ran(Current, i)
             /\ Recorded(infos)
      BY <2>1, <2>3, <3>1 DEF WInv, Running
    <3>3. mem.spec = srm.spec
      BY <2>1, <3>1 DEF WInv, Reading
    <3>4. Ran(Current, next)
      <4>1. Current.DTKImage \in Version /\ next \in States
        BY <2>1, CurrentIsLeft, SRMAssumption DEF TInv, Places, States
      <4>2. <<Current.DTKImage, next>> \in DOMAIN deployed
        BY <4>1 DEF TInv, Places
      <4>3. deployed'[<<Current.DTKImage, next>>] = [spec |-> mem.spec, kernel |-> Current.kernel]
        BY <1>2, <4>2, Zenon
      <4> QED  BY <3>1, <3>3, <4>3 DEF Ran
    <3>5. \A v, i : Ran(v, i) => Ran(v, i)'
      BY <2>1, <3>1 DEF Ran
    <3>6. Current' = Current /\ Read(infos)' /\ Recorded(infos)'
      BY <1>2, <2>1, <3>2 DEF Current, Read, Found, Recorded
    <3>7. \A i \in States : i < next' => i < next \/ i = next
      BY <1>2, SRMAssumption DEF TInv, Places, States
    <3>8. \A i \in States : i < next' => Ran(Current, i)'
      <4>1. PICK c : c = Current
        OBVIOUS
      <4>2. \A i \in States : i < next' => Ran(c, i)'
        BY <3>2, <3>4, <3>5, <3>7, <4>1
      <4> QED  BY <3>6, <4>1, <4>2
    <3>9. Running'
      BY <1>2, <3>2, <3>5, <3>6, <3>8 DEF Running
    <3>10. Reading'
      BY <1>2, <2>1, <3>3 DEF Reading
    <3> QED  BY <1>2, <2>1, <3>9, <3>10 DEF WInv, Resting
  <2> QED  BY <2>2, <2>3
<1> QED  BY <1>1, <1>2 DEF RunTemplate

\* The status that is written is complete up to the versions left.
LEMMA StatusWakes == ASSUME TInv, WInv, UpdateStatus PROVE WInv'
<1>0. ASSUME Awake' PROVE WInv'
  BY <1>0 DEF WInv, Reading, Running, Resting
<1>1. CASE Requeue
  BY <1>0, <1>1 DEF Requeue, Awake
<1>2. CASE /\ fresh
           /\ IF Completed.complete = srm.complete THEN UNCHANGED <<store, fresh>>
              ELSE Store([srm EXCEPT !.complete = Completed.complete], FALSE) /\ fresh' = FALSE
           /\ mem' = Completed
           /\ todo' = todo \ {Current} /\ next' = 1
           /\ UNCHANGED <<queued, pc>>
  <2>1. UNCHANGED <<deployed, objs, silent, objEvent>> /\ pc = "chart" /\ todo # {} /\ next > NumStates
    BY DEF UpdateStatus, world, cluster
  <2>2. mem \in Obj /\ mem.complete \subseteq Version /\ srm \in Obj /\ srm # None
    BY <1>2, <2>1 DEF TInv, IInv, Stored, Copies, Places, Obj
  <2>3. Current \in todo /\ Current.DTKImage \in Version
    BY <2>1, CurrentIsLeft DEF TInv, Places
  <2>4. /\ mem'.spec = mem.spec /\ mem'.complete = mem.complete \cup {Current.DTKImage}
        /\ Completed.complete = mem'.complete /\ mem'.complete \subseteq Version
    BY <1>2, <2>2, <2>3, ObjComplete DEF Completed
  <2>5. /\ srm' # None /\ srm'.spec = srm.spec /\ srm'.deleting = srm.deleting /\ srm'.complete = mem'.complete
        /\ Announced(0) => Announced(0)'
    <3>1. CASE UNCHANGED <<store, fresh>> /\ Completed.complete = srm.complete
      BY <2>2, <2>4, <3>1 DEF store, Announced
    <3>2. CASE Store([srm EXCEPT !.complete = Completed.complete], FALSE)
      <4>1. /\ srm' = [srm EXCEPT !.complete = Completed.complete]
            /\ pending \in Seq(Note) /\ \E x : pending' = Append(pending, x)
        BY <3>2 DEF Store, TInv, Copies
      <4>2. \A j \in 1..Len(pending) : j \in 1..Len(pending') /\ pending'[j] = pending[j]
        BY <4>1
      <4>3. Announced(0) => Announced(0)'
        BY <4>2 DEF Announced
      <4>4. PICK o : o = [srm EXCEPT !.complete = Completed.complete]
        OBVIOUS
      <4>5. o # None /\ o.spec = srm.spec /\ o.deleting = srm.deleting /\ o.complete = Completed.complete
        BY <2>2, <2>4, <4>4, ObjComplete
      <4> QED  BY <2>4, <4>1, <4>3, <4>4, <4>5
    <3> QED  BY <1>2, <3>1, <3>2
  <2>6. Awake => Awake'
    BY <1>2, <2>1, <2>2, <2>5 DEF Awake, Live
  <2>7. CASE Awake' \/ silent
    BY <1>0, <1>2, <2>1, <2>4, <2>5, <2>6, <2>7 DEF WInv, Reading, Running, Resting
  <2>8. CASE ~Awake' /\ ~silent
    <3>2. PICK infos :
             /\ Read(infos) /\ todo \subseteq infos
             /\ \A v \in infos \ todo, i \in States : Ran(v, i)
             /\ \A i \in States : i < next => Ran(Current, i)
             /\ Recorded(infos)
      BY <2>1, <2>6, <2>8 DEF WInv, Running
    <3>3. mem.spec = srm.spec
      BY <2>1, <2>6, <2>8 DEF WInv, Reading
    <3>4. \A v, i : Ran(v, i) => Ran(v, i)'
      BY <2>1, <2>5 DEF Ran
    <3>5. \A i \in States : i < next
      BY <2>1, SRMAssumption DEF TInv, Places, States
    <3>6. \A v \in infos \ todo', i \in States : Ran(v, i)'
      BY <1>2, <3>2, <3>4, <3>5
    <3>7. Read(infos)' /\ todo' \subseteq infos
      BY <1>2, <2>1, <2>5, <3>2 DEF Read, Found
    <3>8. Recorded(infos)'
      <4>1. infos \ todo' = (infos \ todo) \cup {Current}
        BY <1>2, <2>3, <3>2
      <4> QED  BY <2>3, <2>4, <2>5, <3>2, <4>1 DEF Recorded, Keys
    <3>9. \A i \in States : ~(i < next')
      BY <1>2 DEF States
    <3>10. Running'
      BY <1>2, <3>6, <3>7, <3>8, <3>9 DEF Running
    <3>11. Reading'
      BY <1>2, <2>4, <2>5, <3>3 DEF Reading
    <3> QED  BY <1>2, <2>1, <3>10, <3>11 DEF WInv, Resting
  <2> QED  BY <2>7, <2>8
<1> QED  BY <1>1, <1>2 DEF UpdateStatus

\* A pass that ends has run every version.
LEMMA EndRests == ASSUME TInv, WInv, AllVersionsDone PROVE WInv'
<1>1. UNCHANGED <<srm, pending, objs, silent, deployed, objEvent, queued>> /\ pc = "chart" /\ todo = {} /\ pc' = "idle"
  BY DEF AllVersionsDone, Done, store, world, cluster
<1>2. Awake' = Awake
  BY <1>1 DEF Awake, Announced, Live
<1>3. CASE Awake \/ silent
  BY <1>1, <1>2, <1>3 DEF WInv, Reading, Running, Resting
<1>4. CASE ~Awake /\ ~silent
  <2>1. PICK infos :
           /\ Read(infos)
           /\ \A v \in infos, i \in States : Ran(v, i)
           /\ Recorded(infos)
    BY <1>1, <1>4 DEF WInv, Running
  <2>2. Read(infos)' /\ \A v \in infos, i \in States : Ran(v, i)'
    BY <1>1, <2>1 DEF Read, Found, Ran
  <2>3. infos # {} => srm.complete = Keys(infos)
    BY <1>1, <2>1 DEF Recorded, Keys
  <2>4. Resting'
    BY <1>1, <2>2, <2>3 DEF Resting
  <2> QED  BY <1>1, <2>4 DEF WInv, Reading, Running
<1> QED  BY <1>3, <1>4

RInv == TInv /\ Follows /\ WInv

\* At the beginning the module is queued.
LEMMA RestInitially == Init => RInv
<1> SUFFICES ASSUME Init PROVE RInv
  OBVIOUS
<1>1. TInv
  BY Initially, FlagsInitially, TypesInitially DEF TInv
<1>2. Follows
  BY DEF Init, Follows, Copy
<1>3. WInv
  BY DEF Init, WInv, Reading, Running, Resting, Awake
<1> QED  BY <1>1, <1>2, <1>3 DEF RInv

\* Every step keeps it.
LEMMA RestInductive == RInv /\ [Next]_vars => RInv'
<1> SUFFICES ASSUME RInv, [Next]_vars PROVE RInv'
  OBVIOUS
<1>1. TInv' /\ Follows'
  BY TypesInductive, FollowsStays DEF RInv
<1>2. WInv'
  BY UsersWake, ReconcileWakes, VersionsWake, TemplateWakes, StatusWakes, EndRests DEF RInv, Next, Worker
<1> QED  BY <1>1, <1>2 DEF RInv

\* Reconcile loses no wake-up: when the controller is at rest, and the watched objects have
\* not changed unnoticed, every template has been run for every version at the watched
\* paths, with the stored spec and the version's kernel.
THEOREM RestIsDeployed == Spec => []ActiveIsDeployed
<1>1. RInv => ActiveIsDeployed
  <2> SUFFICES ASSUME RInv, Quiescent, ~silent, Live PROVE
                 \A infos \in Found(srm.spec) :
                    /\ infos \notin {None, Panic}
                    /\ \A v \in infos, i \in States :
                          deployed[<<v.DTKImage, i>>] = [spec |-> srm.spec, kernel |-> v.kernel]
    BY DEF ActiveIsDeployed
  <2>1. ~Awake
    BY DEF Quiescent, Awake, Announced
  <2> QED  BY <2>1 DEF RInv, WInv, Resting, Quiescent, Read, Ran
<1> QED  BY <1>1, RestInitially, RestInductive, PTL DEF Spec

\* At rest the status lists exactly the versions there are, although
\* updateSpecialResourceModuleStatus can write one new version per pass only.
THEOREM RestIsRecorded == Spec => []StatusIsComplete
<1>1. RInv => StatusIsComplete
  <2> SUFFICES ASSUME RInv, Quiescent, ~silent, Live,
                      NEW infos \in Found(srm.spec), infos # {}
               PROVE  srm.complete = Keys(infos)
    BY DEF StatusIsComplete
  <2>1. ~Awake
    BY DEF Quiescent, Awake, Announced
  <2> QED  BY <2>1 DEF RInv, WInv, Resting, Quiescent, Read
<1> QED  BY <1>1, RestInitially, RestInductive, PTL DEF Spec

-----------------------------------------------------------------------------
(* The status is earned *)

\* The template was run for the stored spec; or it is gone, and the controller hears of it.
Kept(v, i) ==
    \/ deployed[<<v.DTKImage, i>>] = [spec |-> srm.spec, kernel |-> v.kernel]
    \/ deployed[<<v.DTKImage, i>>] = None /\ (objEvent \/ queued)

\* While the resourceVersion of the pass is the stored one, the pass works for the stored
\* spec, adds to the stored status, and what it has run is kept.
Earning ==
    pc # "idle" /\ fresh =>
        /\ mem.spec = srm.spec /\ mem.complete \subseteq srm.complete
        /\ pc = "chart" /\ todo # {} => \A i \in States : i < next => Kept(Current, i)

EInv == TInv /\ Earning

\* A step beside the pass that leaves what it has run, and the requests.
LEMMA EarningStays ==
    ASSUME Earning, UNCHANGED <<srm, deployed, pass>>, objEvent \/ queued => objEvent' \/ queued'
    PROVE  Earning'
<1>1. UNCHANGED <<srm, deployed, pc, mem, fresh, todo, next>>
  BY DEF pass
<1>2. Current' = Current /\ \A v, i : Kept(v, i) => Kept(v, i)'
  BY <1>1 DEF Current, Kept
<1> QED  BY <1>1, <1>2 DEF Earning

\* Users that edit the module outdate the copy of the pass; what they delete is notified.
LEMMA UsersEarn ==
    ASSUME EInv, Users \/ GarbageCollect \/ OwnedObjectEvent \/ SyncCache \/ Restart \/ UNCHANGED vars
    PROVE  Earning'
<1>0. TInv /\ Earning
  BY DEF EInv
<1>1. CASE EditSpec \/ DeleteModule
  BY <1>1 DEF EditSpec, DeleteModule, Earning
<1>2. ASSUME NEW n \in DOMAIN objs, ObjectChanges(n) PROVE Earning'
  BY <1>0, <1>2, EarningStays DEF ObjectChanges, Edit, store, pass
<1>3. ASSUME NEW x \in Version \X States, DeleteOwnedObject(x) PROVE Earning'
  <2>1. /\ deployed' = [deployed EXCEPT ![x] = None] /\ objEvent' = TRUE
        /\ UNCHANGED <<srm, pc, mem, fresh, todo, next>>
    BY <1>3 DEF DeleteOwnedObject, Edit, store
  <2>2. Current' = Current
    BY <2>1 DEF Current
  <2>3. x \in DOMAIN deployed
    BY <1>0 DEF TInv, Places
  <2>4. \A y : deployed'[y] = deployed[y] \/ deployed'[y] = None \/ y \notin DOMAIN deployed
    BY <2>1, <2>3
  <2>5. \A v, i : <<v.DTKImage, i>> \in DOMAIN deployed /\ Kept(v, i) => Kept(v, i)'
    BY <2>1, <2>4 DEF Kept
  <2>6. todo # {} => \A i \in States : <<Current.DTKImage, i>> \in DOMAIN deployed
    BY <1>0, CurrentIsLeft DEF TInv, Places
  <2>7. PICK c : c = Current
    OBVIOUS
  <2>8. todo # {} => \A i \in States : Kept(c, i) => Kept(c, i)'
    BY <2>5, <2>6, <2>7
  <2> QED  BY <1>0, <2>1, <2>2, <2>7, <2>8 DEF Earning
<1>4. CASE GarbageCollect
  <2>1. fresh' # TRUE
    BY <1>0, <1>4 DEF GarbageCollect, pass, TInv, IInv, Stored
  <2>2. fresh' \in BOOLEAN
    BY <1>0, <1>4 DEF GarbageCollect, pass, TInv, Flags
  <2> QED  BY <2>1, <2>2 DEF Earning
<1>5. CASE OwnedObjectEvent
  BY <1>0, <1>5, EarningStays DEF OwnedObjectEvent, store, cluster
<1>6. CASE SyncCache
  BY <1>0, <1>6, EarningStays DEF SyncCache, cluster
<1>7. CASE Restart
  BY <1>7 DEF Restart, Started, Done, Earning
<1>8. CASE UNCHANGED vars
  BY <1>0, <1>8, EarningStays DEF vars, store, cluster
<1> QED  BY <1>1, <1>2, <1>3, <1>4, <1>5, <1>6, <1>7, <1>8 DEF Users

\* A pass begins with the stored module, if nothing is pending.
LEMMA ReconcileEarns == ASSUME EInv, Reconcile PROVE Earning'
<1>0. TInv /\ Earning
  BY DEF EInv
<1>1. CASE Done
  BY <1>1 DEF Done, Earning
<1>2. CASE Proceed
  <2>1. pc' = "versions" /\ mem' = cache /\ fresh' = (pending = <<>>) /\ srm' = srm
    BY <1>2 DEF Reconcile, Proceed, store
  <2>2. pending = <<>> => cache = srm
    BY <1>0 DEF TInv, IInv, Monotone
  <2> QED  BY <2>1, <2>2 DEF Earning
<1>3. CASE pc' = pc
  BY <1>3 DEF Reconcile, Earning
<1> QED  BY <1>1, <1>2, <1>3 DEF Reconcile, DeleteNamespace, Requeue, pass

\* Obsolete versions leave the status; the first template is next.
LEMMA VersionsEarn == ASSUME EInv, GetOCPVersions PROVE Earning'
<1>0. TInv /\ Earning
  BY DEF EInv
<1>1. CASE Done
  BY <1>1 DEF Done, Earning
<1>2. ASSUME NEW infos, mem' = [mem EXCEPT !.complete = mem.complete \cap Keys(infos)],
             next' = 1, UNCHANGED <<store, fresh>>
      PROVE  Earning'
  <2>1. mem \in Obj /\ mem.complete \subseteq Version /\ pc # "idle" /\ srm' = srm
    BY <1>0, <1>2 DEF GetOCPVersions, TInv, Copies, Places, Obj, store
  <2>2. mem'.spec = mem.spec /\ mem'.complete = mem.complete \cap Keys(infos)
    BY <1>2, <2>1, ObjComplete
  <2>3. \A i \in States : ~(i < next')
    BY <1>2 DEF States
  <2> QED  BY <1>0, <1>2, <2>1, <2>2, <2>3 DEF Earning
<1> QED  BY <1>1, <1>2 DEF GetOCPVersions, NoVersions, Requeue, Started

\* A template that was run is there, with the spec of the pass.
LEMMA TemplateEarns == ASSUME EInv, RunTemplate PROVE Earning'
<1>0. TInv /\ Earning
  BY DEF EInv
<1>1. CASE Requeue
  BY <1>1 DEF Requeue, Done, Earning
<1>2. CASE /\ deployed' = [deployed EXCEPT ![<<Current.DTKImage, next>>] = [spec |-> mem.spec, kernel |-> Current.kernel]]
           /\ objEvent' = (objEvent \/ deployed' # deployed)
           /\ next' = next + 1
           /\ UNCHANGED <<queued, pc, mem, fresh, todo, mishaps>>
  <2>1. srm' = srm /\ pc = "chart" /\ todo # {} /\ next <= NumStates /\ Current' = Current
    BY <1>2 DEF RunTemplate, store, Current
  <2>2. PICK c : c = Current
    OBVIOUS
  <2>3. c.DTKImage \in Version /\ next \in States /\ <<c.DTKImage, next>> \in DOMAIN deployed
    BY <1>0, <2>1, <2>2, CurrentIsLeft, SRMAssumption DEF TInv, Places, States
  <2>4. SUFFICES ASSUME fresh PROVE \A i \in States : i < next' => Kept(c, i)'
    BY <1>0, <1>2, <2>1, <2>2 DEF Earning
  <2>5. mem.spec = srm.spec /\ \A i \in States : i < next => Kept(c, i)
    BY <1>0, <2>1, <2>2, <2>4 DEF Earning
  <2>6. deployed'[<<c.DTKImage, next>>] = [spec |-> srm.spec, kernel |-> c.kernel]
    BY <1>2, <2>2, <2>3, <2>5, Zenon
  <2>7. \A i \in States : i # next => deployed'[<<c.DTKImage, i>>] = deployed[<<c.DTKImage, i>>]
    <3>1. DOMAIN deployed = Version \X States
      BY <1>0 DEF TInv, Places
    <3> QED  BY <1>2, <2>2, <2>3, <3>1
  <2>8. \A i \in States : i < next' => i < next \/ i = next
    BY <1>0, <1>2 DEF TInv, Places, States
  <2>9. \A i \in States : i # next /\ Kept(c, i) => Kept(c, i)'
    BY <1>2, <2>1, <2>7 DEF Kept
  <2>10. \A i \in States : i = next => Kept(c, i)'
    BY <2>1, <2>6 DEF Kept
  <2> QED  BY <2>5, <2>8, <2>9, <2>10
<1> QED  BY <1>1, <1>2 DEF RunTemplate

\* A version whose last template was run enters the status.
LEMMA StatusEarns == ASSUME EInv, UpdateStatus PROVE Earning'
<1>0. TInv /\ Earning
  BY DEF EInv
<1>1. CASE Requeue
  BY <1>1 DEF Requeue, Done, Earning
<1>2. CASE /\ fresh
           /\ IF Completed.complete = srm.complete THEN UNCHANGED <<store, fresh>>
              ELSE Store([srm EXCEPT !.complete = Completed.complete], FALSE) /\ fresh' = FALSE
           /\ mem' = Completed
           /\ todo' = todo \ {Current} /\ next' = 1
           /\ UNCHANGED <<queued, pc>>
  <2>1. CASE ~fresh'
    BY <2>1 DEF Earning
  <2>2. CASE UNCHANGED <<store, fresh>> /\ Completed.complete = srm.complete
    <3>1. mem \in Obj /\ mem.complete \subseteq Version /\ pc # "idle" /\ srm' = srm
      BY <1>0, <2>2 DEF UpdateStatus, TInv, Copies, Places, Obj, store
    <3>2. Current.DTKImage \in Version
      BY <1>0, CurrentIsLeft DEF UpdateStatus, TInv, Places
    <3>3. mem'.spec = mem.spec
      BY <1>2, <3>1, <3>2, ObjComplete DEF Completed
    <3>4. \A i \in States : ~(i < next')
      BY <1>2 DEF States
    <3> QED  BY <1>0, <1>2, <2>2, <3>1, <3>3, <3>4 DEF Earning
  <2> QED  BY <1>2, <2>1, <2>2
<1> QED  BY <1>1, <1>2 DEF UpdateStatus

\* Every step keeps it.
LEMMA EarningInductive == EInv /\ [Next]_vars => EInv'
<1> SUFFICES ASSUME EInv, [Next]_vars PROVE EInv'
  OBVIOUS
<1>1. TInv'
  BY TypesInductive DEF EInv
<1>2. CASE AllVersionsDone
  BY <1>1, <1>2 DEF AllVersionsDone, Done, EInv, Earning
<1>3. Earning' \/ AllVersionsDone
  BY UsersEarn, ReconcileEarns, VersionsEarn, TemplateEarns, StatusEarns DEF Next, Worker
<1> QED  BY <1>1, <1>2, <1>3 DEF EInv

\* reconcileChart runs the templates of a version, and updateSpecialResourceModuleStatus then
\* writes the version into the status: only if the templates are there, with the spec that is
\* stored and the kernel that was read, or their loss is on its way to the controller.
THEOREM VersionsAreEarned == Spec => StatusIsEarned
<1> DEFINE Earned ==
      srm # None /\ srm' # None =>
         \A version \in srm'.complete \ srm.complete : \E v \in todo :
            /\ v.DTKImage = version
            /\ \A i \in States :
                 \/ deployed[<<version, i>>] = [spec |-> srm.spec, kernel |-> v.kernel]
                 \/ deployed[<<version, i>>] = None /\ (objEvent \/ queued)
<1>1. EInv /\ [Next]_vars => [Earned]_vars
  <2> SUFFICES ASSUME EInv, Next, srm # None, srm' # None, NEW version \in srm'.complete \ srm.complete
               PROVE  \E v \in todo :
                         /\ v.DTKImage = version
                         /\ \A i \in States :
                              \/ deployed[<<version, i>>] = [spec |-> srm.spec, kernel |-> v.kernel]
                              \/ deployed[<<version, i>>] = None /\ (objEvent \/ queued)
    OBVIOUS
  <2>0. TInv /\ Earning /\ srm \in Obj
    BY DEF EInv, TInv, Copies
  <2>1. CASE EditSpec \/ DeleteModule
    <3>1. \/ \E s \in Specs : srm' = [srm EXCEPT !.spec = s]
          \/ srm' = [srm EXCEPT !.deleting = TRUE]
      BY <2>1 DEF EditSpec, DeleteModule, Store
    <3>2. srm'.complete = srm.complete
      BY <2>0, <3>1 DEF Obj
    <3> QED  BY <3>2
  <2>2. CASE UpdateStatus
    <3>1. fresh /\ srm' = [srm EXCEPT !.complete = Completed.complete]
      BY <2>2 DEF UpdateStatus, Store, store
    <3>2. pc = "chart" /\ todo # {} /\ next > NumStates
      BY <2>2 DEF UpdateStatus
    <3>3. Current \in todo /\ Current.DTKImage \in Version
      BY <2>0, <3>2, CurrentIsLeft DEF TInv, Places
    <3>4. mem \in Obj /\ mem.complete \subseteq Version
      BY <2>0, <3>2 DEF TInv, Copies, Places, Obj
    <3>5. Completed.complete = mem.complete \cup {Current.DTKImage}
      BY <3>3, <3>4, ObjComplete DEF Completed
    <3>6. srm'.complete = Completed.complete
      BY <2>0, <3>1 DEF Obj
    <3>7. version = Current.DTKImage
      BY <2>0, <3>1, <3>2, <3>5, <3>6 DEF Earning
    <3>8. \A i \in States : Kept(Current, i)
      <4>1. \A i \in States : i < next
        BY <2>0, <3>2, SRMAssumption DEF TInv, Places, States
      <4> QED  BY <2>0, <3>1, <3>2, <4>1 DEF Earning
    <3> QED  BY <3>3, <3>7, <3>8 DEF Kept
  <2>3. srm' # srm
    OBVIOUS
  <2>4. CASE Reconcile \/ GetOCPVersions
    BY <2>3, <2>4 DEF Reconcile, GetOCPVersions, NoVersions, Started, store
  <2> QED  BY <2>1, <2>2, <2>3, <2>4 DEF Next, Users, Worker, ObjectChanges, DeleteOwnedObject, GarbageCollect,
              SyncCache, OwnedObjectEvent, RunTemplate, AllVersionsDone, Restart, Started, store
<1>2. Init => EInv
  BY Initially, FlagsInitially, TypesInitially DEF EInv, TInv, Init, Earning
<1> QED  BY <1>1, <1>2, EarningInductive, PTL DEF Spec, StatusIsEarned

=============================================================================
