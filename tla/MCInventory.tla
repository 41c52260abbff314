---------------------------- MODULE MCInventory ----------------------------
(* A small instance of Inventory for TLC. *)
EXTENDS Inventory, TLC

\* Keys and calls are interchangeable: no definition tells them apart.
Symmetry == Permutations(Keys) \cup Permutations(Calls)
=============================================================================
