------------------------------ MODULE MCWatcher ------------------------------
(* Instances of Watcher for TLC. *)
EXTENDS Watcher, TLC

CONSTANTS o1, o2, p1

\* Watches of one object by name.
Named == {<<o1, p1>>}
\* Watches of all objects.
Kind == {<<AnyName, p1>>}

Modules == Permutations(SRM)

=============================================================================
