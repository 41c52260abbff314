------------------------------ MODULE CashBook ------------------------------
(***************************************************************************)
(* What the cash desk promises its auditors (ADR-010): a book in which     *)
(* nothing is ever erased.  Entries are added to sessions, an entry is     *)
(* corrected at most once and by its exact opposite in the same session,   *)
(* and the figures a session is sealed with never change.  The book says   *)
(* nothing of who adds an entry nor of when: CashDesk implements it.       *)
(***************************************************************************)
EXTENDS Integers, Sequences

CONSTANTS
    Sums,           \* signed amounts of an entry
    MaxBatch        \* entries one operation may add

VARIABLES
    book,           \* the entries, oldest first
    seals           \* per session: how many entries of the book it was
                    \* sealed with, or NotSealed

NotSealed == -1

Entry(s, sum, undoes) == [session |-> s, sum |-> sum, undoes |-> undoes]

Undone(i) == \E j \in DOMAIN book : book[j].undoes = i

Init == book = <<>> /\ seals = <<>>

OpenSession ==
    /\ seals' = Append(seals, NotSealed)
    /\ UNCHANGED book

Record(s, sums) ==
    /\ book' = book \o [i \in DOMAIN sums |-> Entry(s, sums[i], 0)]
    /\ UNCHANGED seals

Undo(i) ==
    /\ book[i].undoes = 0
    /\ ~Undone(i)
    /\ book' = Append(book, Entry(book[i].session, -book[i].sum, i))
    /\ UNCHANGED seals

Seal(s, n) ==
    /\ seals[s] = NotSealed
    /\ seals' = [seals EXCEPT ![s] = n]
    /\ UNCHANGED book

Next ==
    \/ OpenSession
    \/ \E s \in DOMAIN seals : \E n \in 1..MaxBatch : \E sums \in [1..n -> Sums] : Record(s, sums)
    \/ \E i \in DOMAIN book : Undo(i)
    \/ \E s \in DOMAIN seals, n \in 0..Len(book) : Seal(s, n)

Spec == Init /\ [][Next]_<<book, seals>>
=============================================================================
