--------------------------- MODULE MCMemberPayment ---------------------------
(* Small instances of MemberPayment for TLC. *)
EXTENDS MemberPayment, TLC

\* Desks are interchangeable.
Symmetry == Permutations(Desks)
=============================================================================
