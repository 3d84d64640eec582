------------------------------- MODULE Versions -------------------------------
(***************************************************************************)
(* The versions of the platform a SpecialResourceModule is built for: what *)
(* getOCPVersions finds at the watched paths                               *)
(* (controllers/specialresourcemodule_controller.go).                      *)
(*                                                                         *)
(* A watched object is [value, label]: the elements found at the watched   *)
(* path and at the path of the selectors, {} if a key is missing and None  *)
(* if the path does not lead to strings.  An element is a version (in      *)
(* Graph), a reference to a release image (in Contents) or neither.  A     *)
(* watch is [name, selector]: None names all objects of the kind.          *)
(***************************************************************************)
EXTENDS Upgrade

CONSTANT Graph   \* [version -> [channel -> release image or None]]

\* The channels "fast", "stable" and "candidate", in the order of the requests.
Channel == 1..3

ASSUME VersionsAssumption ==
    /\ \A version \in DOMAIN Graph : \A c \in Channel : Graph[version][c] \in DOMAIN Contents \cup {None}
    /\ \A r \in DOMAIN Contents :
         /\ DOMAIN Contents[r].manifests \subseteq Nat /\ DOMAIN Contents[r].layers = 1..Len(Contents[r].layers)
         /\ \A i \in DOMAIN Contents[r].layers : Contents[r].layers[i] # None =>
              LET refs == Contents[r].layers[i].references IN refs = None \/ DOMAIN refs \subseteq Nat

\* All three channels are asked; the last one that knows the version decides.
getImageFromVersion(version) ==
    LET hits == {c \in Channel : Graph[version][c] # None}
    IN  {Graph[version][c] : c \in {c \in hits : \A d \in hits : d <= c}}

\* A version, or else something with an "@" or a ":".
Image(element) ==
    IF element \in DOMAIN Graph THEN getImageFromVersion(element)
    ELSE {r \in {element} \cap DOMAIN Contents : Contents[r].form # "bare"}

\* The toolkit image of a release and its kernel, as nodes report it.
getVersionInfoFromImage ==
    [image \in DOMAIN Contents |->
       UNION {IF layer = Panic THEN {Panic}
              ELSE UNION {UNION {IF l = Panic THEN {Panic}
                                 ELSE {[DTKImage |-> url, kernel |-> Complete(dtk).kernel] : dtk \in ExtractToolkitRelease(l)} :
                                    l \in LastLayer(DOMAIN Contents, url)} :
                             url \in {u \in ReleaseManifests(layer) : ReleaseMetadataOCPVersion(layer) # {}}} :
                 layer \in LastLayer(DOMAIN Contents, image)}]

\* An object that is not found is passed over.
getAllResources(objs, name) ==
    {n \in IF name = None THEN DOMAIN objs ELSE {name} : objs[n] # None}

\* An object stays if one of the selectors takes it.
filterResources(selectors, objs, names) ==
    IF selectors = {} THEN {names}
    ELSE {{n \in s : \E x \in selectors : (x.value \in objs[n].label) # x.exclude} :
             s \in {s \in {names} : \A n \in s : objs[n].label # None}}

\* The elements of one watch.  An object whose path does not lead to strings is
\* passed over.
Elements(objs, watch) ==
    {UNION {objs[n].value : n \in {n \in names : objs[n].value # None}} :
        names \in filterResources(watch.selector, objs, getAllResources(objs, watch.name))}

\* One entry per toolkit image.  None is an error: a selector that cannot be applied
\* or an element that leads to no toolkit.  If there are several of these, the order
\* of a List decides.
getOCPVersions(objs, watchList) ==
    LET lists == {Elements(objs, watchList[i]) : i \in DOMAIN watchList}
        infos == {UNION {getVersionInfoFromImage[image] : image \in Image(e)} : e \in UNION UNION lists}
        bad   == (IF {} \in lists \/ {} \in infos THEN {None} ELSE {}) \cup (IF {Panic} \in infos THEN {Panic} ELSE {})
    IN  IF bad # {} THEN bad ELSE {UNION infos}

=============================================================================
