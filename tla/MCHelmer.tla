------------------------------- MODULE MCHelmer -------------------------------
(* Instances of Helmer for TLC. *)
EXTENDS Helmer

\* A CRD, two pre-install hooks, a Pod, another object, a post-install hook.
FullChart == <<"crd", "pre", "pre", "manifest", "manifest", "post">>

\* A pre-install hook, a Pod, another object.
SmallChart == <<"pre", "manifest", "manifest">>

=============================================================================
