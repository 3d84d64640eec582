---------------------------- MODULE PreflightCheck ----------------------------
(***************************************************************************)
(* Whether the driver containers of a chart are ready for a release of the *)
(* platform (pkg/preflight).                                               *)
(*                                                                         *)
(* The chart, rendered for a kernel, is a sequence of objects: their kind, *)
(* the vendor of their driver container (None if they are not annotated),  *)
(* whether their state is driver-container, and the image of their first   *)
(* container (None if they have none).                                     *)
(***************************************************************************)
EXTENDS Upgrade

\* An annotation that is missing reads as the empty string from a Go map.
Token(vendor) == IF vendor = None THEN "" ELSE vendor

\* Mutant: a BuildConfig stands for every driver container.
getRelevantDaemonSetsUnlessBuilt(objects) ==
    IF \E i \in DOMAIN objects : objects[i].kind = "BuildConfig" THEN {} ELSE DOMAIN objects

\* The DaemonSets of driver containers that no BuildConfig of the vendor builds: their
\* positions among the objects.
getRelevantDaemonSets(objects) ==
    LET builds == {objects[i].vendor : i \in {i \in DOMAIN objects : objects[i].kind = "BuildConfig"}} \ {None}
    IN  {i \in DOMAIN objects : /\ objects[i].kind = "DaemonSet" /\ objects[i].driver
                               /\ Token(objects[i].vendor) \notin builds}

\* The layers are searched from the last one; the first that says which toolkit it
\* was made with decides, and one that cannot be pulled ends the search.
daemonSetPreflightCheck(registry, daemonSet, kernel) ==
    CASE daemonSet.image = None -> "Error"
      [] daemonSet.image # None ->
           IF \E d \in GetLayersDigests(registry, daemonSet.image) : \E i \in DOMAIN d.layers :
                 /\ \E layer \in GetLayerByDigest(d, i) :
                       \E dtk \in ExtractToolkitRelease(layer) : dtk.kernel = kernel
                 /\ \A j \in (i + 1)..Len(d.layers) :
                       \E layer \in GetLayerByDigest(d, j) : ExtractToolkitRelease(layer) = {}
           THEN "True" ELSE "False"

\* The first DaemonSet that is not verified decides.
handleYAMLsCheck(registry, objects, kernel) ==
    LET verdicts == [i \in getRelevantDaemonSets(objects) |-> daemonSetPreflightCheck(registry, objects[i], kernel)]
    IN  UNION {IF \A i \in DOMAIN v : v[i] = "True" THEN {"True"}
               ELSE {v[i] : i \in First({i \in DOMAIN v : v[i] # "True"})} : v \in {verdicts}}

\* ParseOSInfo of the release's machine-os-content; only whether it can be parsed
\* matters: processFullChartTemplates replaces what it says.
getOSData(layer) == ReleaseImageMachineOSConfig(layer) \ {"unparsable"}

getKernelFullVersion(registry, cache, layer) ==
    {IF dtk = Panic THEN Panic ELSE dtk.kernel :
        dtk \in UNION {GetDTKData(registry, cache, url) : url \in ReleaseManifests(layer) \ {""}}}

\* The kernel of the release.  (The calls to the API server are the caller's.)
PrepareRuntimeInfo(registry, cache, image) ==
    UNION {CASE layer = Panic -> {Panic}
             [] layer # Panic -> IF getOSData(layer) = {} THEN {} ELSE getKernelFullVersion(registry, cache, layer) :
              layer \in LastLayer(registry, image)}

-----------------------------------------------------------------------------
\* What the check is for: every driver container of the chart is built in the
\* cluster, or its image can be read and was made for the kernel.
ReadyFor(registry, objects, kernel) ==
    \A i \in DOMAIN objects :
       objects[i].kind = "DaemonSet" /\ objects[i].driver =>
          \/ \E j \in DOMAIN objects : objects[j].kind = "BuildConfig" /\ objects[j].vendor = Token(objects[i].vendor)
          \/ \E d \in GetLayersDigests(registry, objects[i].image) : \E n \in DOMAIN d.layers :
                d.layers[n] # None /\ d.layers[n].toolkit # None /\ d.layers[n].toolkit.kernel = kernel

=============================================================================
