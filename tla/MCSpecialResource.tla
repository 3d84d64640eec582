-------------------------- MODULE MCSpecialResource --------------------------
(* Instances of SpecialResource for TLC. *)
EXTENDS SpecialResource, TLC

CONSTANTS a, b

\* No SpecialResource depends on another.
Independent == [s \in SR |-> <<>>]

\* b is a dependency of a.
OneDependency == [s \in SR |-> IF s = a THEN <<b>> ELSE <<>>]

=============================================================================
