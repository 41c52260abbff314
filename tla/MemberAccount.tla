---------------------------- MODULE MemberAccount ----------------------------
(***************************************************************************)
(* What the current account of a member promises: an operation posts all   *)
(* its entries at once, in order, and the balance is the last one's.       *)
(* MemberLedger implements it with row locks.                              *)
(***************************************************************************)
EXTENDS Integers, Sequences

CONSTANTS
    Members,        \* gym members
    Batches         \* the sequences of signed sums an operation may post

VARIABLES account   \* per member: the balance and the sums posted so far

Init == account = [m \in Members |-> [balance |-> 0, sums |-> <<>>]]

\* The balance after each sum of a batch, the balance before it first.
Running(from, batch) ==
    LET after[i \in 0..Len(batch)] == IF i = 0 THEN from ELSE after[i - 1] + batch[i]
    IN  after

Post(m, batch) ==
    account' = [account EXCEPT
        ![m].balance = Running(@, batch)[Len(batch)],
        ![m].sums = @ \o batch]

Next == \E m \in Members, batch \in Batches : Post(m, batch)

Spec == Init /\ [][Next]_account
=============================================================================
