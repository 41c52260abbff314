--------------------------- MODULE MCMemberLedger ---------------------------
(* Small instances of MemberLedger for TLC. *)
EXTENDS MemberLedger, TLC

\* Transactions and members are interchangeable.
Symmetry == Permutations(Txs) \cup Permutations(Members)
=============================================================================
