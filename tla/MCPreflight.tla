----------------------------- MODULE MCPreflight -----------------------------
(* Instances of Preflight for TLC. *)
EXTENDS Preflight

CONSTANTS s1, s2, r1, r2, r3, t1, t2, p1, p2, p2arch, p3, k1, k2

Base(k) == [base |-> k, arch |-> FALSE]

Entry(k) == [kernel |-> Base(k), rtKernel |-> Base(None), os |-> "8.4"]

Layer == [toolkit |-> None, references |-> None, version |-> None]

Single(form, layers) == [form |-> form, media |-> "image", layers |-> layers, manifests |-> <<>>]

\* The references of a release: what comes first counts, an older entry does not.
Release(t) == [Layer EXCEPT !.references =
                  <<[name |-> "cli", value |-> None], [name |-> "driver-toolkit", value |-> t],
                    [name |-> "machine-os-content", value |-> "os"], [name |-> "driver-toolkit", value |-> t1]>>]

WithToolkit(k) == [Layer EXCEPT !.toolkit = Entry(k)]

\* The release r3 is a list in a format that is taken for an image without layers.
\* The image p2 is published for several architectures; that of p1 has a toolkit file
\* below its last layer, over that of a base image made for another kernel.
Images ==
    (r1 :> Single("digest", <<Layer, Release(t1)>>)) @@ (r2 :> Single("tag", <<Release(t2)>>))
    @@ (r3 :> [form |-> "digest", media |-> "index", layers |-> <<>>, manifests |-> <<[arch |-> "amd64", ref |-> r1]>>])
    @@ (t1 :> Single("digest", <<WithToolkit(k1)>>)) @@ (t2 :> Single("digest", <<WithToolkit(k2)>>))
    @@ (p1 :> Single("tag", <<WithToolkit(k2), WithToolkit(k1), Layer>>))
    @@ (p2 :> [form |-> "tag", media |-> "manifest.list", layers |-> <<>>,
               manifests |-> <<[arch |-> "arm64", ref |-> p1], [arch |-> "amd64", ref |-> p2arch]>>])
    @@ (p3 :> Single("port", <<WithToolkit(k2)>>))
    @@ (p2arch :> Single("digest", <<Layer, WithToolkit(k2)>>))

Kernels == {Base(k1), Base(k2)}

DaemonSet(vendor, img) == [kind |-> "DaemonSet", vendor |-> vendor, driver |-> TRUE, image |-> img]
BuildConfig(vendor)    == [kind |-> "BuildConfig", vendor |-> vendor, driver |-> FALSE, image |-> None]

\* A driver image per kernel; the same, with a BuildConfig of no vendor; one that is
\* built in the cluster beside one that is not; one without a container.
PerKernel == [k \in Kernels |-> <<DaemonSet(None, IF k = Base(k1) THEN p1 ELSE p2)>>]
Unrelated == [k \in Kernels |-> <<BuildConfig(None), DaemonSet("x", IF k = Base(k1) THEN p1 ELSE p3)>>]
Mixed     == [k \in Kernels |-> <<BuildConfig("x"), DaemonSet("x", p1), DaemonSet("y", p2)>>]
Invalid   == [k \in Kernels |-> <<DaemonSet("y", p1), DaemonSet("y", None)>>]

Pair(x, y) == [s \in SR |-> IF s = s1 THEN x ELSE y]

Pairs == {Pair(PerKernel, Mixed), Pair(Unrelated, Invalid)}

=============================================================================
