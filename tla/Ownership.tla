------------------------------ MODULE Ownership ------------------------------
(***************************************************************************)
(* What the finalizer of a SpecialResource promises, whatever copies the   *)
(* operator works with: what it leaves in the cluster, objects the         *)
(* SpecialResource owns and state labels on nodes, is there only between   *)
(* the finalizer's being set and its being removed, and a SpecialResource  *)
(* is released only after it is deleted and its labels are off the nodes.  *)
(***************************************************************************)
CONSTANT SR

VARIABLES
    phase,    \* absent, bare (no finalizer), claimed, or closing: deleted, kept by the finalizer
    live,     \* those that own objects
    marked    \* those with a label on a node that no finalization has passed over

vars == <<phase, live, marked>>

Phase == {"absent", "bare", "claimed", "closing"}

Init ==
    /\ phase = [s \in SR |-> "absent"]
    /\ live = {} /\ marked = {}

Move(s, from, to) == phase[s] = from /\ phase' = [phase EXCEPT ![s] = to]

Create(s) == Move(s, "absent", "bare") /\ UNCHANGED <<live, marked>>

\* Without the finalizer it goes at once.
Remove(s) == Move(s, "bare", "absent") /\ UNCHANGED <<live, marked>>

Claim(s) == Move(s, "bare", "claimed") /\ UNCHANGED <<live, marked>>

Close(s) == Move(s, "claimed", "closing") /\ UNCHANGED <<live, marked>>

\* A pass may still be deploying when the SpecialResource is deleted.
Deploy(s) ==
    /\ phase[s] \in {"claimed", "closing"}
    /\ live' \in {live, live \cup {s}, live \ {s}}
    /\ marked' \in {marked, marked \cup {s}}
    /\ UNCHANGED phase

Withdraw(s) ==
    /\ live' \in {live, live \ {s}}
    /\ marked' \in {marked, marked \ {s}}
    /\ UNCHANGED phase

\* The objects it owns are left to the garbage collector.
Release(s) ==
    /\ s \notin marked
    /\ Move(s, "closing", "absent")
    /\ live' = live \ {s}
    /\ UNCHANGED marked

Next ==
    \E s \in SR : \/ Create(s) \/ Remove(s) \/ Claim(s) \/ Close(s)
                  \/ Deploy(s) \/ Withdraw(s) \/ Release(s)

Spec == Init /\ [][Next]_vars

=============================================================================
