------------------------------- MODULE Upgrade -------------------------------
(***************************************************************************)
(* The driver toolkit of the kernels that run in the cluster (pkg/upgrade, *)
(* GetDTKImages of pkg/cluster).                                           *)
(*                                                                         *)
(* A kernel version has a base and, as nodes report it, the architecture   *)
(* at its end: [base |-> k, arch |-> TRUE].  The toolkit's release file    *)
(* usually leaves it out.  The cache of toolkit entries maps the URLs of   *)
(* toolkit images to an entry or None.                                     *)
(***************************************************************************)
EXTENDS Registry, TLC

\* The URLs of the items under the tag latest of an image stream, newest first.
GetDTKImages(items) ==
    LET newestFirst == SortSeq(items, LAMBDA x, y : x.created > y.created)
    IN  [i \in DOMAIN newestFirst |-> newestFirst[i].ref]

\* One entry per kernel of the listed nodes; a node without a kernel version or
\* with an operating system that is not understood is an error.
nodeVersionInfo(nodes) ==
    {[k \in {n.kernel : n \in nodes} |-> [os |-> (CHOOSE n \in nodes : n.kernel = k).os, toolkit |-> None]] :
        x \in {x \in {nodes} : \A n \in x : None \notin {n.kernel, n.os}}}

\* The architecture is added to both kernels if the first one lacks it.
Complete(dtk) ==
    IF dtk.kernel.arch THEN dtk
    ELSE [kernel |-> [base |-> dtk.kernel.base, arch |-> TRUE],
          rtKernel |-> [base |-> dtk.rtKernel.base, arch |-> TRUE], os |-> dtk.os]

\* Mutant: the toolkit goes to every kernel.
updateInfoOfAll(info, dtk) == {[k \in DOMAIN info |-> [info[k] EXCEPT !.toolkit = Complete(dtk)]]}

\* The toolkit goes to the kernels that run; the entry in the cache stays as it is.
updateInfo(info, dtk) ==
    LET match == {Complete(dtk).kernel, Complete(dtk).rtKernel} \cap DOMAIN info
    IN  IF match = {} \/ \E k \in match : info[k].os # dtk.os THEN {}
        ELSE {[k \in DOMAIN info |-> IF k \in match THEN [info[k] EXCEPT !.toolkit = Complete(dtk)] ELSE info[k]]}

\* From the cache, or from the last layer of the image.
GetDTKData(registry, cache, url) ==
    IF url \in DOMAIN cache /\ cache[url] # None THEN {cache[url]}
    ELSE UNION {IF layer = Panic THEN {Panic} ELSE ExtractToolkitRelease(layer) : layer \in LastLayer(registry, url)}

\* Only the newest toolkit image counts.
driverToolkitVersion(registry, cache, images, info) ==
    IF images = <<>> THEN {info}
    ELSE UNION {IF dtk = Panic THEN {Panic} ELSE updateInfo(info, dtk) : dtk \in GetDTKData(registry, cache, images[1])}

GetClusterInfo(registry, cache, items, nodes) ==
    UNION {driverToolkitVersion(registry, cache, GetDTKImages(items), info) : info \in nodeVersionInfo(nodes)}

=============================================================================
