------------------------------ MODULE MCAccess ------------------------------
(* A small instance of Access for TLC: m1, who comes, with two fingers enrolled *)
(* and m2 with one; two branches, a pack of two classes and a day pass for both *)
(* and a plan of one entry a week for one of them; weeks of two days.           *)
EXTENDS Access, TLC

CONSTANTS m1, m2, b1, b2, f1, f2, f3

MCPlans ==
    {[classes |-> 2, days |-> 0, limit |-> 0, branches |-> {b1, b2}],
     [classes |-> 0, days |-> 1, limit |-> 0, branches |-> {b1, b2}],
     [classes |-> 0, days |-> 2, limit |-> 1, branches |-> {b1}]}

MCOwnerOf == f1 :> m1 @@ f2 :> m1 @@ f3 :> m2

Symmetry == Permutations(Calls)
=============================================================================
