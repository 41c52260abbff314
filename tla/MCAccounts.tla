----------------------------- MODULE MCAccounts -----------------------------
(* A small instance of Accounts for TLC: two users, one of whom is the owner    *)
(* and logs in.                                                                 *)
EXTENDS Accounts, TLC

Symmetry == Permutations(Calls) \cup Permutations(Admins)
=============================================================================
