----------------------------- MODULE MCCashDesk -----------------------------
(* Small instances of CashDesk for TLC. *)
EXTENDS CashDesk, TLC

\* Requests are interchangeable: no definition tells them apart.
Symmetry == Permutations(Requests)
=============================================================================
