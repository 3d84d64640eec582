------------------------------ MODULE Registry ------------------------------
(***************************************************************************)
(* What the operator reads out of container images (pkg/registry).         *)
(*                                                                         *)
(* References have manifests; those that are not in the set "registry"     *)
(* cannot be had, or their manifest is not JSON.  A manifest has           *)
(*   form       how the reference is written: "digest", "tag", "port" (a   *)
(*              tag, and a registry with a port) or "bare" (neither)       *)
(*   media      its mediaType, or None: "image", "manifest.list", or       *)
(*              "index", the list of the OCI format                        *)
(*   layers     for "image", the layers: None cannot be pulled             *)
(*   manifests  for the lists, the images per architecture                 *)
(* and a layer the three files that are looked for, each None if it is not *)
(* there: toolkit, references and version.                                 *)
(*                                                                         *)
(* What a call returns is a set: of its result, or empty if it is an error.*)
(***************************************************************************)
EXTENDS Naturals, Sequences

CONSTANTS
    Contents,   \* [reference -> manifest]
    None,
    Panic,      \* the call panics, and the process with it
    GOARCH

\* The first of some positions in a list, if there is any.
First(positions) == {i \in positions : \A j \in positions : i <= j}

\* What GetLayersDigests takes for the repository: all before "@", else all before
\* the first ":".
repo(form) == CASE form = "bare" -> None [] form = "port" -> "host" [] OTHER -> "repository"

Manifest(registry, ref) == {Contents[r] : r \in {ref} \cap registry}

getImageDigestFromMultiImage(manifests) ==
    {manifests[i].ref : i \in First({i \in DOMAIN manifests : manifests[i].arch = GOARCH})}

\* A manifest list is followed to the image of this architecture.
getManifestStreamFromImage(registry, ref) ==
    UNION {IF m.media = "manifest.list"
           THEN UNION {Manifest(registry, d) : d \in {d \in getImageDigestFromMultiImage(m.manifests) : repo(m.form) = "repository"}}
           ELSE {m} : m \in {m \in Manifest(registry, ref) : m.media # None}}

\* The repository and the layers.  A list that is not recognized has no layers.
GetLayersDigests(registry, ref) ==
    {[repo |-> repo(m.form), layers |-> stream.layers] :
        m \in {m \in Manifest(registry, ref) : repo(m.form) # None},
        stream \in getManifestStreamFromImage(registry, ref)}

GetLayerByDigest(digests, i) ==
    {digests.layers[j] : j \in {j \in {i} : digests.repo = "repository" /\ digests.layers[j] # None}}

\* The last digest is taken without looking whether there is one.
LastLayer(registry, ref) ==
    UNION {IF d.layers = <<>> THEN {Panic} ELSE GetLayerByDigest(d, Len(d.layers)) :
              d \in GetLayersDigests(registry, ref)}

\* getHeaderFromLayer finds the file, and all its fields are there.
ExtractToolkitRelease(layer) ==
    {t \in {layer.toolkit} \ {None} : None \notin {t.kernel, t.rtKernel, t.os}}

\* The value of the first tag with that name.
Tag(layer, name) ==
    UNION {{refs[i].value : i \in First({i \in DOMAIN refs : refs[i].name = name})} \ {None} :
              refs \in {layer.references} \ {None}}

ReleaseManifests(layer) == Tag(layer, "driver-toolkit")

ReleaseImageMachineOSConfig(layer) == Tag(layer, "machine-os-content")

ReleaseMetadataOCPVersion(layer) == {layer.version} \ {None}

=============================================================================
