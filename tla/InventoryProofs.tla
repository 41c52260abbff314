--------------------------- MODULE InventoryProofs ---------------------------
(***************************************************************************)
(* Theorems of CashDesk and of Inventory, which extends it.                *)
(*                                                                         *)
(* The first half is about the desk alone, for every set of users,         *)
(* registers, methods, members and requests, and for every bound.  The     *)
(* second half is about the shop, for every set of products, keys, calls   *)
(* and users: the shop is the cash desk with more in it, so what is proved *)
(* of the desk holds of the shop; units are counted; desk and stock agree  *)
(* on every sale; a key stands for one effect.                             *)
(***************************************************************************)
EXTENDS Inventory, SumTheorems, SequenceTheorems, FiniteSetTheorems, TLAPS

\* What a request in flight remembers still points at rows that exist: rows
\* are never deleted.  A movement about to be reversed is not a reversal.
RequestsOK ==
    \A q \in Requests :
        /\ requests[q].op \in {"create", "close", "closing"} =>
              requests[q].session \in DOMAIN sessions
        /\ requests[q].op = "closing" => requests[q].seen <= Len(movements)
        /\ requests[q].op = "reverse" =>
              /\ requests[q].movement \in DOMAIN movements
              /\ movements[requests[q].movement].reversalOf = 0

\* A movement belongs to a session, and reverses an earlier movement or none.
MovementsOK ==
    \A i \in DOMAIN movements :
        /\ movements[i].session \in DOMAIN sessions
        /\ movements[i].reversalOf < i

\* The inductive invariant.
IInv ==
    /\ TypeOK
    /\ RequestsOK
    /\ MovementsOK
    /\ OneOpenSession
    /\ ReversalPairs
    /\ LockedCollectionsCounted

-----------------------------------------------------------------------------
USE CashDeskAssumption

LEMMA NewMovementType ==
    ASSUME NEW s \in Nat, NEW t \in Types, NEW a \in Amounts, NEW me \in Methods,
           NEW m \in Members \cup {NoMember}, NEW o \in Origins
    PROVE  NewMovement(s, t, a, me, m, o) \in Movement
BY DEF NewMovement, Movement

LEMMA ReversalType ==
    ASSUME TypeOK, NEW i \in DOMAIN movements, NEW o \in Origins
    PROVE  /\ ReversalOf(i, o) \in Movement
           /\ ReversalOf(i, o).reversalOf = i
           /\ ReversalOf(i, o).origin = o
           /\ ReversalOf(i, o).isReversed = FALSE
           /\ ReversalOf(i, o).type = Opposite(movements[i].type)
           /\ ReversalOf(i, o).session = movements[i].session
           /\ ReversalOf(i, o).amount = movements[i].amount
           /\ ReversalOf(i, o).method = movements[i].method
           /\ ReversalOf(i, o).member = movements[i].member
<1>1. movements[i] \in Movement /\ i \in Nat
  BY DEF TypeOK
<1> QED
  BY <1>1 DEF ReversalOf, Opposite, Types, Movement, TypeOK

-----------------------------------------------------------------------------
(* Whatever a step does to the movements, it does in one of three ways.    *)

SameMovements == movements' = movements

\* All the movements a step adds belong to one session.
OneBatch ==
    \E s \in DOMAIN sessions, n \in 1..(IF MaxLines = 0 THEN 1 ELSE MaxLines) :
        /\ Len(movements') = Len(movements) + n
        /\ \A i \in DOMAIN movements' \ DOMAIN movements : movements'[i].session = s

\* Movements are added that reverse nothing; those whose transaction reads
\* the status of the session belong to an open one.
AddsMovements ==
    /\ OneBatch
    /\ sessions' = sessions
    /\ movements' \in Seq(Movement)
    /\ DOMAIN movements \subseteq DOMAIN movements'
    /\ Len(movements) <= Len(movements')
    /\ \A i \in DOMAIN movements : movements'[i] = movements[i]
    /\ \A i \in DOMAIN movements' \ DOMAIN movements :
          /\ movements'[i].reversalOf = 0
          /\ movements'[i].isReversed = FALSE
          /\ movements'[i].session \in DOMAIN sessions
          /\ movements'[i].origin \in SerializedOrigins => IsOpen(movements'[i].session)

\* Movement i is marked and its opposite is added.
UndoesMovement(i, origin) ==
    /\ sessions' = sessions
    /\ i \in DOMAIN movements
    /\ ~movements[i].isReversed
    /\ movements[i].reversalOf = 0
    /\ origin \in Origins
    /\ origin \in SerializedOrigins => IsOpen(movements[i].session)
    /\ MarkReversed(i, ReversalOf(i, origin))

LEMMA OneMovementAdded ==
    ASSUME TypeOK, sessions' = sessions, NEW m \in Movement,
           movements' = Append(movements, m),
           m.reversalOf = 0, m.isReversed = FALSE, m.session \in DOMAIN sessions,
           m.origin \in SerializedOrigins => IsOpen(m.session)
    PROVE  AddsMovements
<1>1. movements \in Seq(Movement) /\ Len(movements) \in Nat
  BY DEF TypeOK
<1>2. /\ movements' \in Seq(Movement)
      /\ DOMAIN movements' = DOMAIN movements \cup {Len(movements) + 1}
      /\ Len(movements') = Len(movements) + 1
      /\ movements'[Len(movements) + 1] = m
      /\ \A i \in DOMAIN movements : movements'[i] = movements[i]
  BY <1>1
<1>3. OneBatch
  <2>1. /\ m.session \in DOMAIN sessions
        /\ 1 \in 1..(IF MaxLines = 0 THEN 1 ELSE MaxLines)
    OBVIOUS
  <2>2. \A i \in DOMAIN movements' \ DOMAIN movements : movements'[i].session = m.session
    BY <1>2
  <2> QED
    BY <1>2, <2>1, <2>2 DEF OneBatch
<1> QED
  BY <1>1, <1>2, <1>3 DEF AddsMovements

\* What is left of a reversal once Append and EXCEPT are worked out.
LEMMA UndoneFacts ==
    ASSUME TypeOK, NEW i, NEW origin, UndoesMovement(i, origin)
    PROVE  /\ movements' \in Seq(Movement)
           /\ Len(movements) \in Nat
           /\ Len(movements') = Len(movements) + 1
           /\ DOMAIN movements = 1..Len(movements)
           /\ DOMAIN movements' = 1..(Len(movements) + 1)
           /\ movements'[Len(movements) + 1] = ReversalOf(i, origin)
           /\ movements'[i] = [movements[i] EXCEPT !.isReversed = TRUE]
           /\ \A j \in DOMAIN movements \ {i} : movements'[j] = movements[j]
<1> DEFINE marked == [movements EXCEPT ![i].isReversed = TRUE]
<1>1. movements \in Seq(Movement) /\ i \in DOMAIN movements /\ movements[i] \in Movement
  BY DEF TypeOK, UndoesMovement
<1>2. [movements[i] EXCEPT !.isReversed = TRUE] \in Movement
  BY <1>1 DEF Movement
<1>3. /\ marked \in Seq(Movement)
      /\ Len(marked) = Len(movements)
      /\ marked[i] = [movements[i] EXCEPT !.isReversed = TRUE]
      /\ \A j \in DOMAIN movements \ {i} : marked[j] = movements[j]
  BY <1>1, <1>2
<1>4. ReversalOf(i, origin) \in Movement
  BY ReversalType DEF UndoesMovement
<1>5. movements' = Append(marked, ReversalOf(i, origin))
  BY DEF UndoesMovement, MarkReversed
<1> HIDE DEF marked
<1>6. Len(movements) \in Nat /\ DOMAIN movements = 1..Len(movements)
  BY <1>1
<1>7. /\ movements' \in Seq(Movement)
      /\ Len(movements') = Len(marked) + 1
      /\ DOMAIN movements' = 1..(Len(marked) + 1)
      /\ movements'[Len(marked) + 1] = ReversalOf(i, origin)
      /\ \A j \in 1..Len(marked) : movements'[j] = marked[j]
  <2> DEFINE r == ReversalOf(i, origin)
  <2>1. marked \in Seq(Movement) /\ r \in Movement /\ movements' = Append(marked, r)
    BY <1>3, <1>4, <1>5
  <2> HIDE DEF r
  <2>2. /\ movements' \in Seq(Movement)
        /\ Len(movements') = Len(marked) + 1
        /\ DOMAIN movements' = 1..(Len(marked) + 1)
        /\ movements'[Len(marked) + 1] = r
        /\ \A j \in 1..Len(marked) : movements'[j] = marked[j]
    BY <2>1
  <2> QED
    BY <2>2 DEF r
<1>8. /\ movements' \in Seq(Movement)
      /\ Len(movements') = Len(movements) + 1
      /\ DOMAIN movements' = 1..(Len(movements) + 1)
      /\ movements'[Len(movements) + 1] = ReversalOf(i, origin)
      /\ \A j \in DOMAIN movements : movements'[j] = marked[j]
  BY <1>3, <1>6, <1>7, Zenon
<1> QED
  BY <1>1, <1>3, <1>6, <1>8, Zenon

\* Every step takes one of the three ways, and only Open and CloseSession
\* touch the sessions.
LEMMA StepKinds ==
    ASSUME IInv, [Next]_vars
    PROVE  \/ SameMovements
           \/ AddsMovements
           \/ \E i, origin : UndoesMovement(i, origin)
<1> USE DEF IInv
<1>1. ASSUME NEW u \in Users, NEW r \in Registers, NEW o \in Openings, Open(u, r, o)
      PROVE  SameMovements
  BY <1>1 DEF Open, SameMovements
<1>2. ASSUME NEW q \in Requests, NEW s \in DOMAIN sessions, NEW op, FindOpenSession(q, op, s)
      PROVE  SameMovements
  BY <1>2 DEF FindOpenSession, SameMovements
<1>3. ASSUME NEW q \in Requests, NEW t \in Types, NEW a \in Amounts, NEW me \in Methods,
             NEW m \in Members \cup {NoMember}, CreateMovement(q, t, a, me, m)
      PROVE  AddsMovements
  <2> DEFINE new == NewMovement(requests[q].session, t, a, me, m, "create")
  <2>1. requests[q].session \in DOMAIN sessions /\ requests[q].session \in Nat
    BY <1>3 DEF CreateMovement, RequestsOK, TypeOK, Request
  <2>2. new \in Movement
    BY <2>1, NewMovementType DEF Origins
  <2>3. movements' = Append(movements, new) /\ sessions' = sessions
    BY <1>3 DEF CreateMovement
  <2>4. /\ new.reversalOf = 0 /\ new.isReversed = FALSE
        /\ new.session \in DOMAIN sessions /\ new.origin = "create"
    BY <2>1 DEF NewMovement
  <2> HIDE DEF new
  <2> QED
    BY <2>2, <2>3, <2>4, OneMovementAdded DEF SerializedOrigins
<1>4. ASSUME NEW q \in Requests, NEW i \in DOMAIN movements, FindReversible(q, i)
      PROVE  SameMovements
  BY <1>4 DEF FindReversible, SameMovements
<1>5. ASSUME NEW q \in Requests, ReverseMovement(q)
      PROVE  UndoesMovement(requests[q].movement, "reverse")
  BY <1>5 DEF ReverseMovement, RequestsOK, UndoesMovement, Origins, SerializedOrigins
<1>6. ASSUME NEW q \in Requests, CloseSnapshot(q) PROVE SameMovements
  BY <1>6 DEF CloseSnapshot, SameMovements
<1>7. ASSUME NEW q \in Requests, NEW d, CloseSession(q, d) PROVE SameMovements
  BY <1>7 DEF CloseSession, SameMovements
<1>8. ASSUME NEW q \in Requests, RequestFails(q) PROVE SameMovements
  BY <1>8 DEF RequestFails, SameMovements
<1>9. ASSUME NEW s \in DOMAIN sessions, NEW me \in Methods, NEW m \in Members,
             NEW ls \in Lines, PayDebt(s, m, me, ls)
      PROVE  AddsMovements
  <2> DEFINE batch == [i \in DOMAIN ls |-> NewMovement(s, "INCOME", ls[i], me, m, "pay")]
  <2>1. PICK n \in 1..MaxLines : ls \in [1..n -> Amounts]
    BY DEF Lines
  <2>2. s \in Nat /\ movements \in Seq(Movement) /\ Len(movements) \in Nat
    BY DEF TypeOK
  <2>3. \A i \in 1..n : NewMovement(s, "INCOME", ls[i], me, m, "pay") \in Movement
    BY <2>1, <2>2, NewMovementType DEF Origins, Types
  <2>4. /\ batch \in Seq(Movement) /\ Len(batch) = n /\ DOMAIN batch = 1..n
        /\ \A i \in 1..n : batch[i] = NewMovement(s, "INCOME", ls[i], me, m, "pay")
    BY <2>1, <2>3
  <2>5. \A i \in 1..n : /\ batch[i].reversalOf = 0 /\ batch[i].isReversed = FALSE
                        /\ batch[i].session = s
    BY <2>4 DEF NewMovement
  <2>6. movements' = movements \o batch /\ sessions' = sessions /\ IsOpen(s)
    BY <1>9 DEF PayDebt
  <2> HIDE DEF batch
  <2>7. /\ movements' \in Seq(Movement)
        /\ Len(movements') = Len(movements) + n
        /\ \A i \in 1..(Len(movements) + n) :
              movements'[i] = IF i <= Len(movements) THEN movements[i]
                                                     ELSE batch[i - Len(movements)]
    <3>1. movements \in Seq(Movement) /\ batch \in Seq(Movement) /\ Len(batch) = n
      BY <2>2, <2>4
    <3>2. /\ movements \o batch \in Seq(Movement)
          /\ Len(movements \o batch) = Len(movements) + Len(batch)
          /\ \A i \in 1..(Len(movements) + Len(batch)) :
                (movements \o batch)[i] = IF i <= Len(movements) THEN movements[i]
                                                                ELSE batch[i - Len(movements)]
      BY <3>1, ConcatProperties
    <3> QED
      BY <2>6, <3>1, <3>2, Zenon
  <2>8. DOMAIN movements = 1..Len(movements) /\ DOMAIN movements' = 1..(Len(movements) + n)
    BY <2>2, <2>7
  <2>9. \A i \in DOMAIN movements' \ DOMAIN movements :
           i - Len(movements) \in 1..n /\ movements'[i] = batch[i - Len(movements)]
    BY <2>2, <2>7, <2>8
  <2>10. OneBatch
    <3>1. n \in 1..(IF MaxLines = 0 THEN 1 ELSE MaxLines)
      OBVIOUS
    <3>2. \A i \in DOMAIN movements' \ DOMAIN movements : movements'[i].session = s
      BY <2>5, <2>9
    <3> QED
      BY <2>7, <3>1, <3>2 DEF OneBatch
  <2> QED
    BY <2>2, <2>5, <2>6, <2>7, <2>8, <2>9, <2>10 DEF AddsMovements
<1>10. ASSUME NEW s \in DOMAIN sessions, NEW me \in Methods, NEW m \in Members,
              NEW a \in Amounts, CollectMembership(s, m, me, a)
       PROVE  AddsMovements
  <2> DEFINE new == NewMovement(s, "INCOME", a, me, m, "membership")
  <2>1. new \in Movement
    BY NewMovementType DEF Types, Origins, TypeOK
  <2>2. movements' = Append(movements, new) /\ sessions' = sessions /\ IsOpen(s)
    BY <1>10 DEF CollectMembership
  <2>3. new.reversalOf = 0 /\ new.isReversed = FALSE /\ new.session = s
    BY DEF NewMovement
  <2> HIDE DEF new
  <2> QED
    BY <2>1, <2>2, <2>3, OneMovementAdded
<1>11. ASSUME NEW s \in DOMAIN sessions, NEW me \in Methods, NEW a \in Amounts,
              SellProducts(s, me, a)
       PROVE  AddsMovements
  <2> DEFINE new == NewMovement(s, "INCOME", a, me, NoMember, "sale")
  <2>1. new \in Movement
    BY NewMovementType DEF Types, Origins, TypeOK
  <2>2. movements' = Append(movements, new) /\ sessions' = sessions /\ IsOpen(s)
    BY <1>11 DEF SellProducts
  <2>3. new.reversalOf = 0 /\ new.isReversed = FALSE /\ new.session = s
    BY DEF NewMovement
  <2> HIDE DEF new
  <2> QED
    BY <2>1, <2>2, <2>3, OneMovementAdded
<1>12. ASSUME NEW i \in DOMAIN movements, ReverseSale(i)
       PROVE  UndoesMovement(i, "sale")
  BY <1>12 DEF ReverseSale, UndoesMovement, Origins
<1>13. ASSUME UNCHANGED vars PROVE SameMovements
  BY <1>13 DEF vars, SameMovements
<1>14. CASE UNCHANGED vars
  BY <1>13, <1>14
<1>15. CASE Next
  BY <1>15, <1>1, <1>2, <1>3, <1>4, <1>5, <1>6, <1>7, <1>8, <1>9, <1>10, <1>11, <1>12, Zenon
  DEF Next, DeskStep, SaleStep
<1> QED
  BY <1>14, <1>15

\* The movements are typed, none disappears, and none changes but its mark.
LEMMA MovementsGrow ==
    ASSUME IInv, [Next]_vars
    PROVE  /\ movements' \in Seq(Movement)
           /\ Len(movements) \in Nat /\ Len(movements') \in Nat
           /\ Len(movements) <= Len(movements')
           /\ DOMAIN movements \subseteq DOMAIN movements'
           /\ \A i \in DOMAIN movements :
                 movements'[i] \in {movements[i], [movements[i] EXCEPT !.isReversed = TRUE]}
<1>1. TypeOK /\ movements \in Seq(Movement)
  BY DEF IInv, TypeOK
<1>2. CASE SameMovements
  BY <1>1, <1>2 DEF SameMovements
<1>3. CASE AddsMovements
  BY <1>1, <1>3 DEF AddsMovements
<1>4. ASSUME NEW i, NEW origin, UndoesMovement(i, origin)
      PROVE  /\ movements' \in Seq(Movement)
             /\ Len(movements) <= Len(movements')
             /\ DOMAIN movements \subseteq DOMAIN movements'
             /\ \A j \in DOMAIN movements :
                   movements'[j] \in {movements[j], [movements[j] EXCEPT !.isReversed = TRUE]}
  <2>1. i \in DOMAIN movements
    BY <1>4 DEF UndoesMovement
  <2>2. /\ movements' \in Seq(Movement)
        /\ Len(movements) \in Nat
        /\ Len(movements') = Len(movements) + 1
        /\ DOMAIN movements = 1..Len(movements)
        /\ DOMAIN movements' = 1..(Len(movements) + 1)
        /\ movements'[i] = [movements[i] EXCEPT !.isReversed = TRUE]
        /\ \A j \in DOMAIN movements \ {i} : movements'[j] = movements[j]
    BY <1>1, <1>4, UndoneFacts
  <2>3. \A j \in DOMAIN movements :
           movements'[j] \in {movements[j], [movements[j] EXCEPT !.isReversed = TRUE]}
    BY <2>1, <2>2
  <2> QED
    BY <2>2, <2>3
<1> QED
  BY <1>1, <1>2, <1>3, <1>4, StepKinds

\* The fields of a movement other than its mark, as the invariants use them.
LEMMA MovementsKeep ==
    ASSUME IInv, [Next]_vars, NEW i \in DOMAIN movements
    PROVE  /\ movements'[i].session = movements[i].session
           /\ movements'[i].reversalOf = movements[i].reversalOf
           /\ movements'[i].origin = movements[i].origin
           /\ movements'[i].type = movements[i].type
           /\ movements'[i].amount = movements[i].amount
           /\ movements'[i].method = movements[i].method
           /\ movements'[i].member = movements[i].member
<1>1. movements[i] \in Movement
  BY DEF IInv, TypeOK
<1>2. movements'[i] = movements[i] \/ movements'[i] = [movements[i] EXCEPT !.isReversed = TRUE]
  BY MovementsGrow
<1> QED
  BY <1>1, <1>2 DEF Movement

LEMMA SessionKinds ==
    ASSUME [Next]_vars
    PROVE  \/ sessions' = sessions
           \/ \E u \in Users, r \in Registers, o \in Openings : Open(u, r, o)
           \/ \E q \in Requests, d \in Declarations : CloseSession(q, d)
<1>1. CASE UNCHANGED vars
  BY <1>1 DEF vars
<1>2. CASE Next
  BY <1>2, Zenon DEF Next, DeskStep, SaleStep, FindOpenSession, CreateMovement, FindReversible, ReverseMovement,
     CloseSnapshot, RequestFails, PayDebt, CollectMembership, SellProducts, ReverseSale
<1> QED
  BY <1>1, <1>2

LEMMA OpenFacts ==
    ASSUME IInv, NEW u \in Users, NEW r \in Registers, NEW o \in Openings, Open(u, r, o)
    PROVE  /\ sessions' \in Seq(Session)
           /\ movements' = movements
           /\ Len(sessions) \in Nat
           /\ DOMAIN sessions = 1..Len(sessions)
           /\ DOMAIN sessions' = 1..(Len(sessions) + 1)
           /\ \A s \in DOMAIN sessions : sessions'[s] = sessions[s]
           /\ sessions'[Len(sessions) + 1].status = "OPEN"
           /\ sessions'[Len(sessions) + 1].user = u
           /\ sessions'[Len(sessions) + 1].register = r
<1> DEFINE row == [register |-> r, user |-> u, opening |-> o,
                   status |-> "OPEN", seen |-> 0, declared |-> <<>>]
<1>1. sessions \in Seq(Session)
  BY DEF IInv, TypeOK
<1>2. row \in Session /\ row.status = "OPEN" /\ row.user = u /\ row.register = r
  BY DEF Session
<1>3. sessions' = Append(sessions, row) /\ movements' = movements
  BY DEF Open
<1> HIDE DEF row
<1> QED
  BY <1>1, <1>2, <1>3

LEMMA DeclarationsAreSequences ==
    ASSUME NEW d \in Declarations PROVE d \in Seq(Methods)
BY DEF Declarations

LEMMA CloseFacts ==
    ASSUME IInv, NEW q \in Requests, NEW d \in Declarations, CloseSession(q, d),
           NEW s, s = requests[q].session
    PROVE  /\ sessions' \in Seq(Session)
           /\ movements' = movements
           /\ s \in DOMAIN sessions
           /\ sessions[s].status = "OPEN"
           /\ DOMAIN sessions' = DOMAIN sessions
           /\ \A t \in DOMAIN sessions \ {s} : sessions'[t] = sessions[t]
           /\ sessions'[s].status = "CLOSED"
           /\ sessions'[s].seen = requests[q].seen
           /\ sessions'[s].user = sessions[s].user
           /\ sessions'[s].register = sessions[s].register
<1> DEFINE row == [sessions[s] EXCEPT !.status = "CLOSED",
                                      !.seen = requests[q].seen, !.declared = d]
<1>1. /\ sessions \in Seq(Session) /\ requests[q].seen \in Nat
      /\ d \in Seq(Methods)
  BY DeclarationsAreSequences DEF IInv, TypeOK, Request
<1>2. s \in DOMAIN sessions /\ sessions[s].status = "OPEN" /\ sessions[s] \in Session
  BY <1>1 DEF CloseSession, IsOpen
<1>3. /\ row \in Session /\ row.status = "CLOSED" /\ row.seen = requests[q].seen
      /\ row.user = sessions[s].user /\ row.register = sessions[s].register
  BY <1>1, <1>2 DEF Session
<1>4. sessions' = [sessions EXCEPT ![s] = row] /\ movements' = movements
  BY <1>1, <1>2 DEF CloseSession
<1> HIDE DEF row
<1>5. /\ sessions' \in Seq(Session)
      /\ DOMAIN sessions' = DOMAIN sessions
      /\ sessions'[s] = row
      /\ \A t \in DOMAIN sessions \ {s} : sessions'[t] = sessions[t]
  BY <1>1, <1>2, <1>3, <1>4
<1> QED
  BY <1>2, <1>3, <1>4, <1>5

-----------------------------------------------------------------------------
(* Each part of the invariant is preserved.                                *)

LEMMA SessionsGrow ==
    ASSUME IInv, [Next]_vars
    PROVE  /\ sessions' \in Seq(Session)
           /\ DOMAIN sessions \subseteq DOMAIN sessions'
           /\ \A s \in DOMAIN sessions : Closed(s) => sessions'[s] = sessions[s]
<1>1. CASE sessions' = sessions
  BY <1>1 DEF IInv, TypeOK
<1>2. ASSUME NEW u \in Users, NEW r \in Registers, NEW o \in Openings, Open(u, r, o)
      PROVE  /\ sessions' \in Seq(Session)
             /\ DOMAIN sessions \subseteq DOMAIN sessions'
             /\ \A s \in DOMAIN sessions : Closed(s) => sessions'[s] = sessions[s]
  BY <1>2, OpenFacts
<1>3. ASSUME NEW q \in Requests, NEW d \in Declarations, CloseSession(q, d)
      PROVE  /\ sessions' \in Seq(Session)
             /\ DOMAIN sessions \subseteq DOMAIN sessions'
             /\ \A s \in DOMAIN sessions : Closed(s) => sessions'[s] = sessions[s]
  BY <1>3, CloseFacts DEF Closed
<1> QED
  BY <1>1, <1>2, <1>3, SessionKinds

\* What the slots of the requests may become.
LEMMA RequestsStep ==
    ASSUME IInv, [Next]_vars
    PROVE  /\ requests' \in [Requests -> Request]
           /\ \A q \in Requests :
                 \/ requests'[q] = requests[q]
                 \/ requests'[q].op = "idle"
                 \/ /\ requests'[q].op \in {"create", "close"}
                    /\ requests'[q].session \in DOMAIN sessions
                 \/ /\ requests'[q].op = "reverse"
                    /\ requests'[q].movement \in DOMAIN movements
                    /\ movements[requests'[q].movement].reversalOf = 0
                 \/ /\ requests'[q].op = "closing"
                    /\ requests'[q].session \in DOMAIN sessions
                    /\ requests'[q].seen = Len(movements)
<1> DEFINE Slots(R) ==
      /\ R \in [Requests -> Request]
      /\ \A q \in Requests :
            \/ R[q] = requests[q]
            \/ R[q].op = "idle"
            \/ /\ R[q].op \in {"create", "close"}
               /\ R[q].session \in DOMAIN sessions
            \/ /\ R[q].op = "reverse"
               /\ R[q].movement \in DOMAIN movements
               /\ movements[R[q].movement].reversalOf = 0
            \/ /\ R[q].op = "closing"
               /\ R[q].session \in DOMAIN sessions
               /\ R[q].seen = Len(movements)
<1>1. /\ requests \in [Requests -> Request]
      /\ Idle \in Request /\ Idle.op = "idle"
      /\ Len(movements) \in Nat
      /\ DOMAIN sessions \subseteq Nat /\ DOMAIN movements \subseteq Nat
  BY DEF IInv, TypeOK, Idle, Request
<1>2. CASE requests' = requests
  BY <1>1, <1>2
<1>3. ASSUME NEW q \in Requests, requests' = [requests EXCEPT ![q] = Idle]
      PROVE  Slots(requests')
  BY <1>1, <1>3
<1>4. ASSUME NEW q \in Requests, NEW s \in DOMAIN sessions, NEW op \in {"create", "close"},
             FindOpenSession(q, op, s)
      PROVE  Slots(requests')
  <2> DEFINE slot == [Idle EXCEPT !.op = op, !.session = s]
  <2>1. slot \in Request /\ slot.op = op /\ slot.session = s
    BY <1>1 DEF Request, Idle
  <2>2. requests' = [requests EXCEPT ![q] = slot]
    BY <1>4 DEF FindOpenSession
  <2> HIDE DEF slot
  <2> QED
    BY <1>1, <2>1, <2>2
<1>5. ASSUME NEW q \in Requests, NEW i \in DOMAIN movements, FindReversible(q, i)
      PROVE  Slots(requests')
  <2> DEFINE slot == [Idle EXCEPT !.op = "reverse", !.movement = i]
  <2>1. slot \in Request /\ slot.op = "reverse" /\ slot.movement = i
    BY <1>1 DEF Request, Idle
  <2>2. requests' = [requests EXCEPT ![q] = slot] /\ movements[i].reversalOf = 0
    BY <1>5 DEF FindReversible
  <2> HIDE DEF slot
  <2> QED
    BY <1>1, <2>1, <2>2
<1>6. ASSUME NEW q \in Requests, CloseSnapshot(q)
      PROVE  Slots(requests')
  <2> DEFINE slot == [requests[q] EXCEPT !.op = "closing", !.seen = Len(movements)]
  <2>1. requests[q] \in Request /\ requests[q].session \in DOMAIN sessions
    BY <1>1, <1>6 DEF CloseSnapshot, IsOpen
  <2>2. /\ slot \in Request /\ slot.op = "closing" /\ slot.seen = Len(movements)
        /\ slot.session = requests[q].session
    BY <1>1, <2>1 DEF Request
  <2>3. requests' = [requests EXCEPT ![q] = slot]
    BY <1>1, <1>6 DEF CloseSnapshot
  <2> HIDE DEF slot
  <2> QED
    BY <1>1, <2>1, <2>2, <2>3
<1>7. \/ requests' = requests
      \/ \E q \in Requests :
            \/ requests' = [requests EXCEPT ![q] = Idle]
            \/ \E s \in DOMAIN sessions, op \in {"create", "close"} : FindOpenSession(q, op, s)
            \/ \E i \in DOMAIN movements : FindReversible(q, i)
            \/ CloseSnapshot(q)
  <2>1. CASE UNCHANGED vars
    BY <2>1 DEF vars
  <2>2. CASE Next
    BY <2>2, Zenon DEF Next, DeskStep, SaleStep, Open, CreateMovement, ReverseMovement, CloseSession,
       RequestFails, PayDebt, CollectMembership, SellProducts, ReverseSale
  <2> QED
    BY <2>1, <2>2
<1> QED
  <2>1. Slots(requests')
    <3> HIDE DEF Slots
    <3> QED
      BY <1>2, <1>3, <1>4, <1>5, <1>6, <1>7 DEF Slots
  <2> QED
    BY <2>1

LEMMA ShapeStep ==
    ASSUME IInv, [Next]_vars
    PROVE  TypeOK' /\ RequestsOK' /\ MovementsOK'
<1>1. TypeOK'
  BY MovementsGrow, SessionsGrow, RequestsStep DEF TypeOK
<1>2. RequestsOK'
  <2> SUFFICES ASSUME NEW q \in Requests
               PROVE  /\ requests'[q].op \in {"create", "close", "closing"} =>
                            requests'[q].session \in DOMAIN sessions'
                      /\ requests'[q].op = "closing" => requests'[q].seen <= Len(movements')
                      /\ requests'[q].op = "reverse" =>
                            /\ requests'[q].movement \in DOMAIN movements'
                            /\ movements'[requests'[q].movement].reversalOf = 0
    BY DEF RequestsOK
  <2>1. /\ requests[q].op \in {"create", "close", "closing"} =>
              requests[q].session \in DOMAIN sessions
        /\ requests[q].op = "closing" => requests[q].seen <= Len(movements)
        /\ requests[q].op = "reverse" =>
              /\ requests[q].movement \in DOMAIN movements
              /\ movements[requests[q].movement].reversalOf = 0
        /\ requests[q].seen \in Nat
    BY DEF IInv, RequestsOK, TypeOK, Request
  <2>2. /\ DOMAIN sessions \subseteq DOMAIN sessions'
        /\ DOMAIN movements \subseteq DOMAIN movements'
        /\ Len(movements) \in Nat /\ Len(movements') \in Nat
        /\ Len(movements) <= Len(movements')
        /\ \A i \in DOMAIN movements : movements'[i].reversalOf = movements[i].reversalOf
    BY SessionsGrow, MovementsGrow, MovementsKeep
  <2> QED
    BY <2>1, <2>2, RequestsStep
<1>3. MovementsOK'
  <2>1. /\ \A i \in DOMAIN movements :
              movements[i].session \in DOMAIN sessions /\ movements[i].reversalOf < i
        /\ DOMAIN sessions \subseteq DOMAIN sessions'
        /\ DOMAIN movements \subseteq DOMAIN movements'
        /\ DOMAIN movements' \subseteq Nat \ {0}
        /\ \A i \in DOMAIN movements : /\ movements'[i].session = movements[i].session
                                       /\ movements'[i].reversalOf = movements[i].reversalOf
    BY SessionsGrow, MovementsGrow, MovementsKeep DEF IInv, MovementsOK
  <2>2. CASE SameMovements
    BY <2>1, <2>2 DEF SameMovements, MovementsOK
  <2>3. CASE AddsMovements
    BY <2>1, <2>3 DEF AddsMovements, MovementsOK
  <2>4. ASSUME NEW i, NEW origin, UndoesMovement(i, origin) PROVE MovementsOK'
    <3>1. TypeOK /\ i \in DOMAIN movements /\ origin \in Origins
      BY <2>4 DEF IInv, UndoesMovement
    <3>2. /\ ReversalOf(i, origin).session = movements[i].session
          /\ ReversalOf(i, origin).reversalOf = i
      BY <3>1, ReversalType
    <3>3. /\ DOMAIN movements = 1..Len(movements) /\ Len(movements) \in Nat
          /\ DOMAIN movements' = 1..(Len(movements) + 1)
          /\ movements'[Len(movements) + 1] = ReversalOf(i, origin)
      BY <2>4, <3>1, UndoneFacts
    <3> QED
      BY <2>1, <3>1, <3>2, <3>3 DEF MovementsOK
  <2> QED
    BY <2>2, <2>3, <2>4, StepKinds
<1> QED
  BY <1>1, <1>2, <1>3

LEMMA OneOpenStep ==
    ASSUME IInv, [Next]_vars
    PROVE  OneOpenSession'
<1>1. CASE sessions' = sessions
  BY <1>1 DEF IInv, OneOpenSession, IsOpen
<1>2. ASSUME NEW u \in Users, NEW r \in Registers, NEW o \in Openings, Open(u, r, o)
      PROVE  OneOpenSession'
  <2>1. \A s \in DOMAIN sessions : sessions[s].status = "OPEN" =>
           sessions[s].user # u /\ sessions[s].register # r
    BY <1>2 DEF Open
  <2>2. PICK n \in Nat :
           /\ DOMAIN sessions = 1..n /\ DOMAIN sessions' = 1..(n + 1)
           /\ \A s \in DOMAIN sessions : sessions'[s] = sessions[s]
           /\ sessions'[n + 1].user = u /\ sessions'[n + 1].register = r
    BY <1>2, OpenFacts
  <2>3. SUFFICES ASSUME NEW s \in DOMAIN sessions', NEW t \in DOMAIN sessions', s # t,
                        sessions'[s].status = "OPEN", sessions'[t].status = "OPEN"
                 PROVE  /\ sessions'[s].register # sessions'[t].register
                        /\ sessions'[s].user # sessions'[t].user
    BY DEF OneOpenSession, IsOpen
  <2>4. \A x \in DOMAIN sessions' : x \in DOMAIN sessions \/ x = n + 1
    BY <2>2
  <2>5. CASE s \in DOMAIN sessions /\ t \in DOMAIN sessions
    BY <2>2, <2>3, <2>5 DEF IInv, OneOpenSession, IsOpen
  <2>6. CASE s \in DOMAIN sessions /\ t = n + 1
    BY <2>1, <2>2, <2>3, <2>6
  <2>7. CASE t \in DOMAIN sessions /\ s = n + 1
    BY <2>1, <2>2, <2>3, <2>7
  <2> QED
    BY <2>3, <2>4, <2>5, <2>6, <2>7
<1>3. ASSUME NEW q \in Requests, NEW d \in Declarations, CloseSession(q, d)
      PROVE  OneOpenSession'
  <2> DEFINE c == requests[q].session
  <2>1. /\ DOMAIN sessions' = DOMAIN sessions
        /\ sessions'[c].status = "CLOSED"
        /\ \A t \in DOMAIN sessions \ {c} : sessions'[t] = sessions[t]
    BY <1>3, CloseFacts
  <2> QED
    BY <2>1 DEF IInv, OneOpenSession, IsOpen
<1> QED
  BY <1>1, <1>2, <1>3, SessionKinds

LEMMA CollectionsStep ==
    ASSUME IInv, [Next]_vars
    PROVE  LockedCollectionsCounted'
<1> DEFINE Late(i) == movements[i].origin \in SerializedOrigins
<1>1. LockedCollectionsCounted /\ MovementsOK /\ TypeOK
  BY DEF IInv
<1>2. CASE sessions' = sessions /\ SameMovements
  BY <1>1, <1>2 DEF SameMovements, LockedCollectionsCounted, Closed
<1>3. CASE AddsMovements
  <2>1. /\ sessions' = sessions
        /\ \A i \in DOMAIN movements : movements'[i] = movements[i]
        /\ \A i \in DOMAIN movements' \ DOMAIN movements :
              movements'[i].origin \in SerializedOrigins =>
                  sessions[movements'[i].session].status = "OPEN"
    BY <1>3 DEF AddsMovements, IsOpen
  <2>2. \A i \in DOMAIN movements :
           movements[i].origin \in SerializedOrigins
           /\ movements[i].session \in DOMAIN sessions
           /\ sessions[movements[i].session].status = "CLOSED" =>
               i <= sessions[movements[i].session].seen
    BY <1>1 DEF LockedCollectionsCounted, Closed
  <2> QED
    BY <2>1, <2>2 DEF LockedCollectionsCounted, Closed
<1>4. ASSUME NEW i, NEW origin, UndoesMovement(i, origin)
      PROVE  LockedCollectionsCounted'
  <2>1. /\ sessions' = sessions /\ i \in DOMAIN movements /\ origin \in Origins
        /\ origin \in SerializedOrigins => IsOpen(movements[i].session)
    BY <1>4 DEF UndoesMovement
  <2>2. /\ ReversalOf(i, origin).session = movements[i].session
        /\ ReversalOf(i, origin).origin = origin
    BY <1>1, <2>1, ReversalType
  <2>3. /\ DOMAIN movements = 1..Len(movements) /\ Len(movements) \in Nat
        /\ DOMAIN movements' = 1..(Len(movements) + 1)
        /\ movements'[Len(movements) + 1] = ReversalOf(i, origin)
    BY <1>1, <1>4, UndoneFacts
  <2>4. \A j \in DOMAIN movements : /\ movements'[j].session = movements[j].session
                                    /\ movements'[j].origin = movements[j].origin
    BY MovementsKeep
  <2> QED
    BY <1>1, <2>1, <2>2, <2>3, <2>4 DEF LockedCollectionsCounted, Closed, IsOpen
<1>5. ASSUME NEW u \in Users, NEW r \in Registers, NEW o \in Openings, Open(u, r, o)
      PROVE  LockedCollectionsCounted'
  <2>1. \A i \in DOMAIN movements : movements[i].session \in DOMAIN sessions
    BY <1>1 DEF MovementsOK
  <2> QED
    BY <1>1, <1>5, <2>1, OpenFacts DEF LockedCollectionsCounted, Closed
<1>6. ASSUME NEW q \in Requests, NEW d \in Declarations, CloseSession(q, d)
      PROVE  LockedCollectionsCounted'
  <2>1. /\ requests[q].seen \in Nat /\ DOMAIN movements \subseteq Nat
    BY <1>1 DEF TypeOK, Request
  <2>2. \A i \in DOMAIN movements :
           i > requests[q].seen /\ movements[i].session = requests[q].session =>
               movements[i].origin \notin SerializedOrigins
    BY <1>6 DEF CloseSession
  <2> DEFINE c == requests[q].session
  <2>3. /\ movements' = movements
        /\ DOMAIN sessions' = DOMAIN sessions
        /\ sessions'[c].seen = requests[q].seen
        /\ \A t \in DOMAIN sessions \ {c} : sessions'[t] = sessions[t]
    BY <1>6, CloseFacts
  <2> QED
    BY <1>1, <2>1, <2>2, <2>3 DEF LockedCollectionsCounted, Closed
<1>7. \/ sessions' = sessions
      \/ \E u \in Users, r \in Registers, o \in Openings : Open(u, r, o)
      \/ \E q \in Requests, d \in Declarations : CloseSession(q, d)
  BY SessionKinds
<1>8. SameMovements \/ AddsMovements \/ \E i, origin : UndoesMovement(i, origin)
  BY StepKinds
<1> QED
  BY <1>2, <1>3, <1>4, <1>5, <1>6, <1>7, <1>8

\* No movement reverses one that is not marked, so the reversal being added is
\* the only one of its movement.
LEMMA ReversalStep ==
    ASSUME IInv, [Next]_vars
    PROVE  ReversalPairs'
<1>1. ReversalPairs /\ MovementsOK /\ TypeOK
  BY DEF IInv
<1>2. CASE SameMovements
  BY <1>1, <1>2 DEF SameMovements, ReversalPairs
<1>3. CASE AddsMovements
  <2>1. /\ DOMAIN movements \subseteq DOMAIN movements'
        /\ DOMAIN movements' \subseteq Nat \ {0}
        /\ \A i \in DOMAIN movements : movements'[i] = movements[i]
        /\ \A i \in DOMAIN movements' \ DOMAIN movements :
              movements'[i].reversalOf = 0 /\ movements'[i].isReversed = FALSE
    BY <1>3 DEF AddsMovements
  <2>2. \A j \in DOMAIN movements' : \A i \in DOMAIN movements' :
           movements'[j].reversalOf = i => i \in DOMAIN movements /\ j \in DOMAIN movements
    <3>1. \A j \in DOMAIN movements :
             movements[j].reversalOf \in Nat /\ movements[j].reversalOf < j
      <4>1. \A j \in DOMAIN movements : movements[j] \in Movement
        BY <1>1 DEF TypeOK
      <4> QED
        BY <1>1, <4>1 DEF MovementsOK, Movement
    <3>2. DOMAIN movements = 1..Len(movements) /\ Len(movements) \in Nat
      BY <1>1 DEF TypeOK
    <3> QED
      BY <2>1, <3>1, <3>2
  <2> QED
    BY <1>1, <2>1, <2>2 DEF ReversalPairs
<1>4. ASSUME NEW i, NEW origin, UndoesMovement(i, origin)
      PROVE  ReversalPairs'
  <2> DEFINE new == Len(movements) + 1
  <2>1. /\ i \in DOMAIN movements /\ origin \in Origins
        /\ ~movements[i].isReversed /\ movements[i].reversalOf = 0
    BY <1>4 DEF UndoesMovement
  <2>2. /\ movements'[new].reversalOf = i
        /\ movements'[new].isReversed = FALSE
        /\ movements'[new].type = Opposite(movements[i].type)
        /\ movements'[new].session = movements[i].session
        /\ movements'[new].amount = movements[i].amount
        /\ movements'[new].method = movements[i].method
        /\ movements'[new].member = movements[i].member
    <3>1. movements'[new] = ReversalOf(i, origin)
      BY <1>1, <1>4, UndoneFacts
    <3>2. /\ ReversalOf(i, origin).reversalOf = i
          /\ ReversalOf(i, origin).isReversed = FALSE
          /\ ReversalOf(i, origin).type = Opposite(movements[i].type)
          /\ ReversalOf(i, origin).session = movements[i].session
          /\ ReversalOf(i, origin).amount = movements[i].amount
          /\ ReversalOf(i, origin).method = movements[i].method
          /\ ReversalOf(i, origin).member = movements[i].member
      <4>1. movements[i] \in Movement
        BY <1>1, <2>1 DEF TypeOK
      <4> QED
        BY <4>1 DEF ReversalOf, Movement
    <3> HIDE DEF new
    <3> QED
      BY <3>1, <3>2
  <2>3. /\ Len(movements) \in Nat /\ new \in Nat
        /\ DOMAIN movements = 1..Len(movements)
        /\ DOMAIN movements' = DOMAIN movements \cup {new}
        /\ new \notin DOMAIN movements
        /\ \A j \in DOMAIN movements : j < new
        /\ movements'[i].isReversed = TRUE
        /\ \A j \in DOMAIN movements \ {i} : movements'[j] = movements[j]
    <3>1. movements[i] \in Movement
      BY <1>1, <2>1 DEF TypeOK
    <3>2. [movements[i] EXCEPT !.isReversed = TRUE].isReversed = TRUE
      BY <3>1 DEF Movement
    <3>3. /\ Len(movements) \in Nat
          /\ DOMAIN movements = 1..Len(movements)
          /\ DOMAIN movements' = 1..(Len(movements) + 1)
          /\ movements'[i] = [movements[i] EXCEPT !.isReversed = TRUE]
          /\ \A j \in DOMAIN movements \ {i} : movements'[j] = movements[j]
      BY <1>1, <1>4, UndoneFacts
    <3> QED
      BY <3>2, <3>3
  <2>4. \A j \in DOMAIN movements :
           /\ movements'[j].session = movements[j].session
           /\ movements'[j].reversalOf = movements[j].reversalOf
           /\ movements'[j].type = movements[j].type
           /\ movements'[j].amount = movements[j].amount
           /\ movements'[j].method = movements[j].method
           /\ movements'[j].member = movements[j].member
    BY MovementsKeep
  <2>5. \A j \in DOMAIN movements : movements[j].reversalOf < j /\ movements[j].reversalOf # i
    BY <1>1, <2>1 DEF MovementsOK, ReversalPairs
  <2>6. \A j \in DOMAIN movements : movements[j].reversalOf # new
    BY <2>3, <2>5
  <2> HIDE DEF new
  <2> SUFFICES ASSUME NEW k \in DOMAIN movements'
               PROVE  LET undone == {j \in DOMAIN movements' : movements'[j].reversalOf = k} IN
                      /\ movements'[k].isReversed <=> undone # {}
                      /\ \A j, l \in undone : j = l
                      /\ \A j \in undone :
                            /\ k < j
                            /\ movements'[k].reversalOf = 0
                            /\ movements'[j].type = Opposite(movements'[k].type)
                            /\ movements'[j].session = movements'[k].session
                            /\ movements'[j].amount = movements'[k].amount
                            /\ movements'[j].method = movements'[k].method
                            /\ movements'[j].member = movements'[k].member
    BY DEF ReversalPairs
  <2>7. CASE k = new
    BY <2>1, <2>2, <2>3, <2>4, <2>6, <2>7
  <2>8. CASE k = i
    BY <2>1, <2>2, <2>3, <2>4, <2>5, <2>8
  <2>9. CASE k \in DOMAIN movements /\ k # i
    <3>1. {j \in DOMAIN movements' : movements'[j].reversalOf = k} =
          {j \in DOMAIN movements : movements[j].reversalOf = k}
      BY <2>2, <2>3, <2>4, <2>9
    <3> QED
      BY <1>1, <2>3, <2>4, <2>9, <3>1 DEF ReversalPairs
  <2> QED
    BY <2>3, <2>7, <2>8, <2>9
<1> QED
  BY <1>2, <1>3, <1>4, StepKinds

-----------------------------------------------------------------------------
(* The theorems.                                                           *)

LEMMA InitIInv == Init => IInv
<1> SUFFICES ASSUME Init PROVE IInv
  OBVIOUS
<1>1. sessions = <<>> /\ movements = <<>> /\ requests = [q \in Requests |-> Idle]
  BY DEF Init
<1>2. Idle \in Request /\ Idle.op = "idle"
  BY DEF Idle, Request
<1>3. TypeOK
  BY <1>1, <1>2 DEF TypeOK
<1>4. RequestsOK
  BY <1>1, <1>2 DEF RequestsOK
<1>5. MovementsOK /\ OneOpenSession /\ ReversalPairs /\ LockedCollectionsCounted
  BY <1>1 DEF MovementsOK, OneOpenSession, ReversalPairs, LockedCollectionsCounted
<1> QED
  BY <1>3, <1>4, <1>5 DEF IInv

LEMMA NextIInv == IInv /\ [Next]_vars => IInv'
BY ShapeStep, OneOpenStep, ReversalStep, CollectionsStep DEF IInv

\* The inductive invariant holds in every behaviour of the desk.
THEOREM Inductive == Spec => []IInv
BY InitIInv, NextIInv, PTL DEF Spec

\* Every row and every request keeps its shape.
THEOREM TypeCorrect == Spec => []TypeOK
BY Inductive, PTL DEF IInv

\* A register and a user have one open session at most.
THEOREM OneOpenSessionHolds == Spec => []OneOpenSession
BY Inductive, PTL DEF IInv

\* However many requests race for it, a movement is undone once, and exactly.
THEOREM ReversalPairsHolds == Spec => []ReversalPairs
BY Inductive, PTL DEF IInv

\* A debt payment or a sale is never missing from the closing of its session.
THEOREM CollectionsCountedHolds == Spec => []LockedCollectionsCounted
BY Inductive, PTL DEF IInv

\* Closings and movements are final: what is in the books stays there.
THEOREM FinalHolds == Spec => ClosingsAndMovementsAreFinal
<1>1. IInv /\ [Next]_vars =>
        [/\ \A s \in DOMAIN sessions : Closed(s) => sessions'[s] = sessions[s]
         /\ \A i \in DOMAIN movements :
               movements'[i] \in {movements[i], [movements[i] EXCEPT !.isReversed = TRUE]}
        ]_vars
  BY SessionsGrow, MovementsGrow
<1> QED
  BY <1>1, Inductive, PTL DEF Spec, ClosingsAndMovementsAreFinal

-----------------------------------------------------------------------------
(* The desk implements the book.                                           *)

\* The entry of a movement, and the seal of a session.
EntryOf(m) == [session |-> m.session,
               sum |-> IF m.type = "INCOME" THEN m.amount ELSE -m.amount,
               undoes |-> m.reversalOf]

SealOf(s) == IF s.status = "CLOSED" THEN s.seen ELSE -1

Entries == [session : Nat, sum : Int, undoes : Nat]

BookSums == Amounts \cup {-a : a \in Amounts}

\* The entries of a table of movements, and the seals of a table of sessions.
EntriesOf(mv) == [i \in DOMAIN mv |-> EntryOf(mv[i])]

SealsOf(ss) == [s \in DOMAIN ss |-> SealOf(ss[s])]

\* A sequence that starts with u and goes on with v is their concatenation.
LEMMA ConcatIs ==
    ASSUME NEW S, NEW u \in Seq(S), NEW v \in Seq(S), NEW w \in Seq(S),
           Len(w) = Len(u) + Len(v),
           \A i \in 1..Len(u) : w[i] = u[i],
           \A k \in 1..Len(v) : w[Len(u) + k] = v[k]
    PROVE  w = u \o v
<1>1. /\ u \o v \in Seq(S)
      /\ Len(u \o v) = Len(u) + Len(v)
      /\ \A i \in 1..(Len(u) + Len(v)) :
            (u \o v)[i] = IF i <= Len(u) THEN u[i] ELSE v[i - Len(u)]
  BY ConcatProperties
<1>2. PICK c \in Seq(S) : c = u \o v
  BY <1>1
<1>3. Len(u) \in Nat /\ Len(v) \in Nat
  OBVIOUS
<1>4. \A i \in 1..Len(w) : w[i] = c[i]
  <2> SUFFICES ASSUME NEW i \in 1..Len(w) PROVE w[i] = c[i]
    OBVIOUS
  <2>1. c[i] = IF i <= Len(u) THEN u[i] ELSE v[i - Len(u)]
    BY <1>1, <1>2
  <2>2. CASE i <= Len(u)
    BY <1>3, <2>1, <2>2
  <2>3. CASE ~(i <= Len(u))
    <3>1. i - Len(u) \in 1..Len(v) /\ Len(u) + (i - Len(u)) = i
      BY <1>3, <2>3
    <3>2. w[Len(u) + (i - Len(u))] = v[i - Len(u)]
      BY <3>1
    <3> QED
      BY <2>1, <2>3, <3>1, <3>2
  <2> QED
    BY <2>2, <2>3
<1>5. Len(w) = Len(c)
  BY <1>1, <1>2
<1>6. w = c
  BY <1>4, <1>5, SeqEqual
<1> QED
  BY <1>2, <1>6

LEMMA AmountsAreIntegers == Amounts \subseteq Int
OBVIOUS

LEMMA EntryType ==
    ASSUME NEW m \in Movement
    PROVE  EntryOf(m) \in Entries /\ EntryOf(m).sum \in BookSums
<1>0. m.session \in Nat /\ m.reversalOf \in Nat /\ m.amount \in Amounts
  BY DEF Movement
<1>1. m.session \in Nat /\ m.reversalOf \in Nat /\ m.amount \in Amounts /\ m.amount \in Int
  BY <1>0, AmountsAreIntegers, Zenon
<1>2. -m.amount \in {-a : a \in Amounts}
  BY <1>1, Zenon
<1>3. CASE m.type = "INCOME"
  BY <1>1, <1>3 DEF EntryOf, Entries, BookSums
<1>4. CASE m.type # "INCOME"
  BY <1>1, <1>2, <1>4 DEF EntryOf, Entries, BookSums
<1> QED
  BY <1>3, <1>4

LEMMA SealType ==
    ASSUME NEW s \in Session PROVE SealOf(s) \in Int
BY DEF Session, SealOf

LEMMA EntriesOfType ==
    ASSUME NEW mv \in Seq(Movement)
    PROVE  /\ EntriesOf(mv) \in Seq(Entries) /\ Len(EntriesOf(mv)) = Len(mv)
           /\ DOMAIN EntriesOf(mv) = DOMAIN mv
           /\ \A i \in DOMAIN mv : EntriesOf(mv)[i] = EntryOf(mv[i])
<1>0. /\ Len(mv) \in Nat /\ DOMAIN mv = 1..Len(mv)
      /\ \A i \in DOMAIN mv : mv[i] \in Movement
  OBVIOUS
<1>1. \A i \in DOMAIN mv : EntryOf(mv[i]) \in Entries
  BY <1>0, EntryType, Zenon
<1>2. PICK n \in Nat : n = Len(mv)
  BY <1>0, Zenon
<1>3. EntriesOf(mv) = [i \in 1..n |-> EntryOf(mv[i])]
  BY <1>0, <1>2 DEF EntriesOf
<1>4. EntriesOf(mv) \in Seq(Entries) /\ Len(EntriesOf(mv)) = n
  BY <1>0, <1>1, <1>2, <1>3
<1> QED
  BY <1>0, <1>2, <1>3, <1>4

LEMMA SealsOfType ==
    ASSUME NEW ss \in Seq(Session)
    PROVE  /\ SealsOf(ss) \in Seq(Int) /\ Len(SealsOf(ss)) = Len(ss)
           /\ DOMAIN SealsOf(ss) = DOMAIN ss
           /\ \A s \in DOMAIN ss : SealsOf(ss)[s] = SealOf(ss[s])
<1>0. /\ Len(ss) \in Nat /\ DOMAIN ss = 1..Len(ss)
      /\ \A s \in DOMAIN ss : ss[s] \in Session
  OBVIOUS
<1>1. \A s \in DOMAIN ss : SealOf(ss[s]) \in Int
  BY <1>0, SealType, Zenon
<1>2. PICK n \in Nat : n = Len(ss)
  BY <1>0, Zenon
<1>3. SealsOf(ss) = [s \in 1..n |-> SealOf(ss[s])]
  BY <1>0, <1>2 DEF SealsOf
<1>4. SealsOf(ss) \in Seq(Int) /\ Len(SealsOf(ss)) = n
  BY <1>0, <1>1, <1>2, <1>3
<1> QED
  BY <1>0, <1>2, <1>3, <1>4

LEMMA BookIs ==
    /\ bookOf = EntriesOf(movements)
    /\ bookOf' = EntriesOf(movements')
    /\ sealsOf = SealsOf(sessions)
    /\ sealsOf' = SealsOf(sessions')
BY DEF bookOf, sealsOf, Signed, EntryOf, SealOf, EntriesOf, SealsOf

\* The movements of one batch are one Record of the book.
LEMMA BatchRecords ==
    ASSUME IInv, AddsMovements
    PROVE  \E s \in DOMAIN sealsOf : \E n \in 1..(IF MaxLines = 0 THEN 1 ELSE MaxLines) :
              \E sums \in [1..n -> BookSums] : Book!Record(s, sums)
<1>1. PICK s \in DOMAIN sessions, n \in 1..(IF MaxLines = 0 THEN 1 ELSE MaxLines) :
         /\ Len(movements') = Len(movements) + n
         /\ \A i \in DOMAIN movements' \ DOMAIN movements : movements'[i].session = s
  BY DEF AddsMovements, OneBatch
<1>2. /\ sessions' = sessions
      /\ sessions \in Seq(Session)
      /\ movements' \in Seq(Movement) /\ movements \in Seq(Movement)
      /\ Len(movements) \in Nat /\ n \in Nat
      /\ \A i \in DOMAIN movements : movements'[i] = movements[i]
      /\ \A i \in DOMAIN movements' \ DOMAIN movements : movements'[i].reversalOf = 0
  BY DEF AddsMovements, IInv, TypeOK
<1>3. PICK len \in Nat : len = Len(movements)
  BY <1>2
<1>4. /\ DOMAIN movements = 1..len
      /\ DOMAIN movements' = 1..(len + n) /\ Len(movements') = len + n
  BY <1>1, <1>2, <1>3
<1>5. \A k \in 1..n : /\ len + k \in DOMAIN movements' \ DOMAIN movements
                      /\ movements'[len + k] \in Movement
  BY <1>2, <1>4
<1>6. PICK sums : sums = [k \in 1..n |-> EntryOf(movements'[len + k]).sum]
  OBVIOUS
<1>7. sums \in [1..n -> BookSums] /\ DOMAIN sums = 1..n
  BY <1>5, <1>6, EntryType
<1>8. \A k \in 1..n : Book!Entry(s, sums[k], 0) = EntryOf(movements'[len + k])
  BY <1>1, <1>2, <1>5, <1>6 DEF Book!Entry, EntryOf
<1>9. PICK batch : batch = [k \in DOMAIN sums |-> Book!Entry(s, sums[k], 0)]
  OBVIOUS
<1>10. /\ batch \in Seq(Entries) /\ Len(batch) = n
       /\ \A k \in 1..n : batch[k] = EntryOf(movements'[len + k])
  <2>1. \A k \in 1..n : Book!Entry(s, sums[k], 0) \in Entries
    BY <1>5, <1>8, EntryType
  <2>2. /\ batch \in Seq(Entries) /\ Len(batch) = n
        /\ \A k \in 1..n : batch[k] = Book!Entry(s, sums[k], 0)
    BY <1>2, <1>7, <1>9, <2>1
  <2> QED
    BY <1>8, <2>2
<1>11. bookOf' = bookOf \o batch
  <2>1. PICK u \in Seq(Entries), w \in Seq(Entries) :
           u = EntriesOf(movements) /\ w = EntriesOf(movements')
    BY <1>2, EntriesOfType
  <2>2. /\ Len(u) = len /\ Len(w) = len + n
        /\ \A i \in 1..len : u[i] = EntryOf(movements[i])
        /\ \A i \in 1..(len + n) : w[i] = EntryOf(movements'[i])
    BY <1>2, <1>3, <1>4, <2>1, EntriesOfType
  <2>3. \A i \in 1..Len(u) : w[i] = u[i]
    <3>1. \A i \in 1..len : i \in 1..(len + n)
      BY <1>2
    <3>2. \A i \in 1..len : movements'[i] = movements[i]
      BY <1>2, <1>4, Zenon
    <3> QED
      BY <2>2, <3>1, <3>2, Zenon
  <2>4. \A k \in 1..Len(batch) : w[Len(u) + k] = batch[k]
    BY <1>2, <1>3, <1>10, <2>2
  <2>5. w = u \o batch
    BY <1>10, <2>2, <2>3, <2>4, ConcatIs
  <2> QED
    BY <2>1, <2>5, BookIs
<1>12. sealsOf' = sealsOf /\ s \in DOMAIN sealsOf
  BY <1>1, <1>2, BookIs, SealsOfType
<1>13. Book!Record(s, sums)
  BY <1>9, <1>11, <1>12 DEF Book!Record
<1> QED
  BY <1>1, <1>7, <1>12, <1>13

\* The reversal of a movement is one Undo of the book: nothing undid the
\* movement before, because only a marked one is undone.
LEMMA ReversalUndoes ==
    ASSUME IInv, NEW i, NEW origin, UndoesMovement(i, origin)
    PROVE  i \in DOMAIN bookOf /\ Book!Undo(i)
<1>1. /\ TypeOK /\ i \in DOMAIN movements /\ origin \in Origins
      /\ movements \in Seq(Movement) /\ movements[i] \in Movement
      /\ sessions' = sessions
      /\ movements[i].reversalOf = 0 /\ ~movements[i].isReversed
  BY DEF IInv, TypeOK, UndoesMovement
<1>2. PICK len \in Nat : len = Len(movements)
  BY <1>1
<1>3. /\ movements' \in Seq(Movement)
      /\ Len(movements') = len + 1
      /\ DOMAIN movements = 1..len
      /\ DOMAIN movements' = 1..(len + 1)
      /\ movements'[len + 1] = ReversalOf(i, origin)
      /\ movements'[i] = [movements[i] EXCEPT !.isReversed = TRUE]
      /\ \A j \in DOMAIN movements \ {i} : movements'[j] = movements[j]
  BY <1>1, <1>2, UndoneFacts
<1>4. PICK u \in Seq(Entries), w \in Seq(Entries) :
         u = EntriesOf(movements) /\ w = EntriesOf(movements')
  BY <1>1, <1>3, EntriesOfType
<1>5. /\ Len(u) = len /\ Len(w) = len + 1 /\ DOMAIN u = 1..len
      /\ \A j \in 1..len : u[j] = EntryOf(movements[j])
      /\ \A j \in 1..(len + 1) : w[j] = EntryOf(movements'[j])
  BY <1>1, <1>2, <1>3, <1>4, EntriesOfType
<1>6. \A j \in DOMAIN u : u[j].undoes # i
  <2>1. \A j \in DOMAIN movements : movements[j].reversalOf # i
    BY <1>1 DEF IInv, ReversalPairs
  <2>2. \A j \in 1..len : u[j].undoes = movements[j].reversalOf
    BY <1>5 DEF EntryOf
  <2> QED
    BY <1>3, <1>5, <2>1, <2>2, Zenon
<1>7. PICK e \in Entries : e = Book!Entry(u[i].session, -u[i].sum, i)
  <2>1. i \in Nat /\ u[i] \in Entries
    BY <1>3, <1>5, <1>1, EntryType
  <2>2. u[i].session \in Nat /\ u[i].sum \in Int
    BY <2>1 DEF Entries
  <2>3. Book!Entry(u[i].session, -u[i].sum, i) \in Entries
    BY <2>1, <2>2 DEF Book!Entry, Entries
  <2> QED
    BY <2>3
<1>8. w[len + 1] = e
  <2>1. w[len + 1] = EntryOf(ReversalOf(i, origin)) /\ u[i] = EntryOf(movements[i])
    BY <1>1, <1>3, <1>5
  <2>2. /\ ReversalOf(i, origin).session = movements[i].session
        /\ ReversalOf(i, origin).reversalOf = i
        /\ ReversalOf(i, origin).amount = movements[i].amount
        /\ ReversalOf(i, origin).type = Opposite(movements[i].type)
    BY <1>1 DEF ReversalOf, Movement
  <2>3. movements[i].type \in {"INCOME", "EXPENSE"} /\ movements[i].amount \in Int
    <3>1. movements[i].type \in {"INCOME", "EXPENSE"} /\ movements[i].amount \in Amounts
      BY <1>1 DEF Movement, Types
    <3> QED
      BY <3>1, AmountsAreIntegers, Zenon
  <2>4. CASE movements[i].type = "INCOME"
    BY <1>7, <2>1, <2>2, <2>3, <2>4 DEF EntryOf, Opposite, Book!Entry
  <2>5. CASE movements[i].type = "EXPENSE"
    BY <1>7, <2>1, <2>2, <2>3, <2>5 DEF EntryOf, Opposite, Book!Entry
  <2> QED
    BY <2>3, <2>4, <2>5
<1>9. \A j \in 1..len : w[j] = u[j]
  <2>1. EntryOf([movements[i] EXCEPT !.isReversed = TRUE]) = EntryOf(movements[i])
    BY <1>1 DEF EntryOf, Movement
  <2> QED
    BY <1>3, <1>5, <2>1
<1>10. w = Append(u, e)
  <2>1. PICK c \in Seq(Entries) : c = Append(u, e)
    BY AppendProperties
  <2>2. /\ Len(c) = Len(u) + 1 /\ c[Len(u) + 1] = e
        /\ \A j \in 1..Len(u) : c[j] = u[j]
    BY <2>1, AppendProperties
  <2>3. Len(w) = Len(c) /\ \A j \in 1..Len(w) : w[j] = c[j]
    BY <1>5, <1>8, <1>9, <2>2
  <2>4. w = c
    BY <2>3, SeqEqual
  <2> QED
    BY <2>1, <2>4
<1>11. bookOf = u /\ bookOf' = w /\ sealsOf' = sealsOf
  BY <1>1, <1>4, BookIs
<1>12. u[i].undoes = 0
  BY <1>1, <1>3, <1>5 DEF EntryOf
<1>13. ~Book!Undone(i)
  BY <1>6, <1>11 DEF Book!Undone
<1> QED
  BY <1>1, <1>3, <1>5, <1>7, <1>10, <1>11, <1>12, <1>13 DEF Book!Undo

\* A new session is one OpenSession of the book.
LEMMA OpenOpens ==
    ASSUME IInv, NEW u \in Users, NEW r \in Registers, NEW o \in Openings, Open(u, r, o)
    PROVE  Book!OpenSession
<1>1. sessions \in Seq(Session)
  BY DEF IInv, TypeOK
<1>2. PICK n \in Nat : n = Len(sessions)
  BY <1>1
<1>3. /\ sessions' \in Seq(Session) /\ movements' = movements
      /\ DOMAIN sessions = 1..n /\ DOMAIN sessions' = 1..(n + 1)
      /\ Len(sessions') = n + 1
      /\ \A s \in DOMAIN sessions : sessions'[s] = sessions[s]
      /\ sessions'[n + 1].status = "OPEN"
  BY <1>2, OpenFacts
<1>4. PICK v \in Seq(Int), w \in Seq(Int) :
         v = SealsOf(sessions) /\ w = SealsOf(sessions')
  BY <1>1, <1>3, SealsOfType
<1>5. /\ Len(v) = n /\ Len(w) = n + 1
      /\ \A s \in 1..n : v[s] = SealOf(sessions[s])
      /\ \A s \in 1..(n + 1) : w[s] = SealOf(sessions'[s])
  BY <1>1, <1>2, <1>3, <1>4, SealsOfType
<1>6. PICK none \in Int : none = -1
  OBVIOUS
<1>7. w = Append(v, none)
  <2>0. w[n + 1] = none
    BY <1>3, <1>5, <1>6 DEF SealOf
  <2>1. PICK c \in Seq(Int) : c = Append(v, none)
    BY AppendProperties
  <2>2. /\ Len(c) = Len(v) + 1 /\ c[Len(v) + 1] = none
        /\ \A j \in 1..Len(v) : c[j] = v[j]
    BY <2>1, AppendProperties
  <2>3. Len(w) = Len(c) /\ \A j \in 1..Len(w) : w[j] = c[j]
    <3> DEFINE Same(j) == w[j] = c[j]
    <3>1. Same(n + 1)
      BY <1>5, <2>0, <2>2, Zenon
    <3>2. \A j \in 1..n : Same(j)
      <4>1. \A j \in 1..n : sessions'[j] = sessions[j]
        BY <1>3
      <4>2. \A j \in 1..n : w[j] = v[j]
        BY <1>5, <4>1
      <4> QED
        BY <1>5, <2>2, <4>2
    <3>3. Len(w) = Len(c) /\ Len(w) = n + 1
      BY <1>5, <2>2
    <3> HIDE DEF Same
    <3>4. \A j \in 1..Len(w) : Same(j)
      BY <3>1, <3>2, <3>3
    <3> QED
      BY <3>3, <3>4 DEF Same
  <2>4. w = c
    BY <2>3, SeqEqual
  <2> QED
    BY <2>1, <2>4
<1> QED
  BY <1>3, <1>4, <1>6, <1>7, BookIs DEF Book!OpenSession, Book!NotSealed

\* A close is one Seal of the book, with no more entries than the book has.
LEMMA CloseSeals ==
    ASSUME IInv, NEW q \in Requests, NEW d \in Declarations, CloseSession(q, d)
    PROVE  \E s \in DOMAIN sealsOf, n \in 0..Len(bookOf) : Book!Seal(s, n)
<1>1. PICK s : s = requests[q].session
  OBVIOUS
<1>2. PICK n : n = requests[q].seen
  OBVIOUS
<1>3. /\ sessions' \in Seq(Session) /\ movements' = movements
      /\ s \in DOMAIN sessions /\ sessions[s].status = "OPEN"
      /\ DOMAIN sessions' = DOMAIN sessions
      /\ \A t \in DOMAIN sessions \ {s} : sessions'[t] = sessions[t]
      /\ sessions'[s].status = "CLOSED" /\ sessions'[s].seen = n
  BY <1>1, <1>2, CloseFacts
<1>4. /\ sessions \in Seq(Session) /\ movements \in Seq(Movement)
      /\ n \in Nat /\ n <= Len(movements) /\ Len(movements) \in Nat
  BY <1>2 DEF IInv, TypeOK, Request, RequestsOK, CloseSession
<1>5. PICK v \in Seq(Int), w \in Seq(Int) :
         v = SealsOf(sessions) /\ w = SealsOf(sessions')
  BY <1>3, <1>4, SealsOfType
<1>6. /\ DOMAIN v = DOMAIN sessions /\ DOMAIN w = DOMAIN sessions
      /\ \A t \in DOMAIN sessions : v[t] = SealOf(sessions[t])
      /\ \A t \in DOMAIN sessions : w[t] = SealOf(sessions'[t])
  BY <1>3, <1>4, <1>5, SealsOfType
<1>7. v[s] = -1 /\ w[s] = n /\ \A t \in DOMAIN sessions \ {s} : w[t] = v[t]
  BY <1>3, <1>6 DEF SealOf
<1>8. w = [v EXCEPT ![s] = n]
  <2>1. v = [t \in DOMAIN sessions |-> v[t]] /\ w = [t \in DOMAIN sessions |-> w[t]]
    BY <1>6
  <2> QED
    BY <1>3, <1>6, <1>7, <2>1
<1>9. Len(bookOf) = Len(movements) /\ bookOf' = bookOf
  BY <1>3, <1>4, EntriesOfType, BookIs
<1>10. Book!Seal(s, n)
  BY <1>5, <1>7, <1>8, <1>9, BookIs DEF Book!Seal, Book!NotSealed
<1>11. n \in 0..Len(bookOf) /\ s \in DOMAIN sealsOf
  BY <1>3, <1>4, <1>5, <1>6, <1>9, BookIs
<1> QED
  BY <1>10, <1>11

LEMMA BookInit == Init => Book!Init
<1> SUFFICES ASSUME Init PROVE Book!Init
  OBVIOUS
<1>1. movements = <<>> /\ sessions = <<>>
  BY DEF Init
<1>2. movements \in Seq(Movement) /\ sessions \in Seq(Session)
      /\ Len(movements) = 0 /\ Len(sessions) = 0
  BY <1>1
<1>3. /\ bookOf \in Seq(Entries) /\ Len(bookOf) = 0
      /\ sealsOf \in Seq(Int) /\ Len(sealsOf) = 0
  BY <1>2, BookIs, EntriesOfType, SealsOfType
<1>4. bookOf = <<>> /\ sealsOf = <<>>
  BY <1>3, EmptySeq
<1> QED
  BY <1>4 DEF Book!Init

\* Every step of the desk is a step of the book or leaves it alone.
LEMMA BookStep ==
    ASSUME IInv, [Next]_vars
    PROVE  [Book!Next]_<<bookOf, sealsOf>>
<1>1. CASE AddsMovements
  BY <1>1, BatchRecords DEF Book!Next, BookSums
<1>2. ASSUME NEW i, NEW origin, UndoesMovement(i, origin) PROVE Book!Next
  BY <1>2, ReversalUndoes DEF Book!Next
<1>3. ASSUME NEW u \in Users, NEW r \in Registers, NEW o \in Openings, Open(u, r, o)
      PROVE  Book!Next
  BY <1>3, OpenOpens DEF Book!Next
<1>4. ASSUME NEW q \in Requests, NEW d \in Declarations, CloseSession(q, d)
      PROVE  Book!Next
  BY <1>4, CloseSeals DEF Book!Next
<1>5. CASE SameMovements /\ sessions' = sessions
  <2>1. bookOf' = bookOf /\ sealsOf' = sealsOf
    BY <1>5, BookIs DEF SameMovements
  <2> QED
    BY <2>1
<1> QED
  BY <1>1, <1>2, <1>3, <1>4, <1>5, StepKinds, SessionKinds

\* Whatever the cashiers, the members and the sellers do at once, the desk
\* keeps a book in which nothing is erased: entries are added to one session,
\* undone once and exactly, and a session is sealed once.
THEOREM ImplementsBookHolds == Spec => ImplementsBook
<1>1. IInv /\ [Next]_vars => [Book!Next]_<<bookOf, sealsOf>>
  BY BookStep
<1> QED
  BY <1>1, BookInit, Inductive, PTL DEF Spec, ImplementsBook, Book!Spec

-----------------------------------------------------------------------------
(* The figures of a closing add up.                                        *)

\* The signed amounts of the movements, as a function.
amountOf == [i \in DOMAIN movements |-> Signed(i)]

LEMMA OpeningsAreIntegers == Openings \subseteq Int
BY DEF CashDeskAssumption

LEMMA AmountType ==
    ASSUME TypeOK
    PROVE  \A i \in DOMAIN movements : amountOf[i] = Signed(i) /\ amountOf[i] \in Int
<1> SUFFICES ASSUME NEW i \in DOMAIN movements PROVE Signed(i) \in Int
  BY DEF amountOf
<1>1. movements[i] \in Movement
  BY DEF TypeOK
<1>2. movements[i].amount \in Int
  BY <1>1, AmountsAreIntegers DEF Movement
<1> QED
  BY <1>2 DEF Signed

LEMMA NetIs ==
    ASSUME TypeOK, NEW A \in SUBSET DOMAIN movements, IsFiniteSet(A)
    PROVE  NetOf(A) = Sum(amountOf, A)
<1> DEFINE D(g) == g = [s \in SUBSET A |->
              IF s = {} THEN 0
              ELSE Signed(CHOOSE x \in s : TRUE) + g[s \ {CHOOSE x \in s : TRUE}]]
<1>1. \A s \in SUBSET A : s # {} => amountOf[SomeOf(s)] = Signed(CHOOSE x \in s : TRUE)
  BY DEF SomeOf, amountOf
<1>2. \A g : Adder(g, amountOf, A) <=> D(g)
  <2> TAKE g
  <2>1. ASSUME Adder(g, amountOf, A) PROVE D(g)
    <3>1. \A s \in SUBSET A : g[s] = IF s = {} THEN 0
              ELSE Signed(CHOOSE x \in s : TRUE) + g[s \ {CHOOSE x \in s : TRUE}]
      BY <1>1, <2>1 DEF Adder, SomeOf
    <3> QED
      BY <2>1, <3>1 DEF Adder
  <2>2. ASSUME D(g) PROVE Adder(g, amountOf, A)
    <3>1. \A s \in SUBSET A : g[s] = IF s = {} THEN 0
              ELSE Signed(CHOOSE x \in s : TRUE) + g[s \ {CHOOSE x \in s : TRUE}]
      BY <2>2
    <3>2. g = [s \in SUBSET A |-> g[s]]
      BY <2>2
    <3>3. g[{}] = 0
      BY <3>1
    <3>4. \A s \in SUBSET A : s # {} => g[s] = amountOf[SomeOf(s)] + g[s \ {SomeOf(s)}]
      BY <1>1, <3>1 DEF SomeOf
    <3> QED
      BY <3>2, <3>3, <3>4 DEF Adder
  <2> QED
    BY <2>1, <2>2
<1>3. NetOf(A) = (CHOOSE g : D(g))[A]
  BY DEF NetOf, MapThenSumSet, MapThenFoldSet
<1> HIDE DEF D
<1>4. \E g : Adder(g, amountOf, A)
  BY AdderExists
<1>5. PICK h : h = CHOOSE g : D(g)
  OBVIOUS
<1>6. D(h)
  BY <1>2, <1>4, <1>5, Zenon
<1>7. Adder(h, amountOf, A)
  BY <1>2, <1>6, Zenon
<1>8. \A x \in A : amountOf[x] \in Int
  BY AmountType
<1>9. Sum(amountOf, A) = h[A]
  BY <1>7, <1>8, SumIs
<1> QED
  BY <1>3, <1>5, <1>9

LEMMA DetailsAre ==
    ASSUME NEW s, NEW K, IsFiniteSet(K), NEW e,
           \A m \in K : e[m] = ExpectedAmount(s, m) /\ e[m] \in Int
    PROVE  MapThenSumSet(LAMBDA me : ExpectedAmount(s, me), K) = Sum(e, K)
<1> DEFINE D(g) == g = [t \in SUBSET K |->
              IF t = {} THEN 0
              ELSE ExpectedAmount(s, CHOOSE x \in t : TRUE) + g[t \ {CHOOSE x \in t : TRUE}]]
<1>1. \A t \in SUBSET K : t # {} => e[SomeOf(t)] = ExpectedAmount(s, CHOOSE x \in t : TRUE)
  BY DEF SomeOf
<1>2. \A g : Adder(g, e, K) <=> D(g)
  <2> TAKE g
  <2>1. ASSUME Adder(g, e, K) PROVE D(g)
    <3>1. \A t \in SUBSET K : g[t] = IF t = {} THEN 0
              ELSE ExpectedAmount(s, CHOOSE x \in t : TRUE) + g[t \ {CHOOSE x \in t : TRUE}]
      BY <1>1, <2>1 DEF Adder, SomeOf
    <3> QED
      BY <2>1, <3>1 DEF Adder
  <2>2. ASSUME D(g) PROVE Adder(g, e, K)
    <3>1. \A t \in SUBSET K : g[t] = IF t = {} THEN 0
              ELSE ExpectedAmount(s, CHOOSE x \in t : TRUE) + g[t \ {CHOOSE x \in t : TRUE}]
      BY <2>2
    <3>2. g = [t \in SUBSET K |-> g[t]]
      BY <2>2
    <3>3. g[{}] = 0
      BY <3>1
    <3>4. \A t \in SUBSET K : t # {} => g[t] = e[SomeOf(t)] + g[t \ {SomeOf(t)}]
      BY <1>1, <3>1 DEF SomeOf
    <3> QED
      BY <3>2, <3>3, <3>4 DEF Adder
  <2> QED
    BY <2>1, <2>2
<1>3. MapThenSumSet(LAMBDA me : ExpectedAmount(s, me), K) = (CHOOSE g : D(g))[K]
  BY DEF MapThenSumSet, MapThenFoldSet
<1> HIDE DEF D
<1>4. \E g : Adder(g, e, K)
  BY AdderExists
<1>5. PICK h : h = CHOOSE g : D(g)
  OBVIOUS
<1>6. D(h)
  BY <1>2, <1>4, <1>5, Zenon
<1>7. Adder(h, e, K)
  BY <1>2, <1>6, Zenon
<1>8. Sum(e, K) = h[K]
  BY <1>7, SumIs
<1> QED
  BY <1>3, <1>5, <1>8

LEMMA Images ==
    ASSUME NEW D, IsFiniteSet(D), NEW h
    PROVE  IsFiniteSet({h[x] : x \in D})
<1>1. PICK P : P = {S \in SUBSET D : IsFiniteSet({h[x] : x \in S})}
  OBVIOUS
<1>2. {} \in P
  <2>1. {h[x] : x \in {}} = {}
    OBVIOUS
  <2> QED
    BY <1>1, <2>1, FS_EmptySet
<1>3. ASSUME NEW S \in P, NEW y \in D \ S PROVE S \cup {y} \in P
  <2>1. PICK H : H = {h[x] : x \in S}
    OBVIOUS
  <2>2. {h[x] : x \in S \cup {y}} = H \cup {h[y]}
    BY <2>1
  <2>3. IsFiniteSet(H)
    BY <1>1, <2>1
  <2>4. IsFiniteSet(H \cup {h[y]})
    BY <2>3, FS_AddElement
  <2>5. S \cup {y} \in SUBSET D
    BY <1>1
  <2> QED
    BY <1>1, <2>2, <2>4, <2>5
<1>4. P \in SUBSET SUBSET D
  BY <1>1
<1>5. D \in P
  BY <1>2, <1>3, <1>4, MemberByMember
<1> QED
  BY <1>1, <1>5

LEMMA CountedFacts ==
    ASSUME TypeOK, NEW s \in DOMAIN sessions
    PROVE  /\ Counted(s) \in SUBSET DOMAIN movements
           /\ IsFiniteSet(Counted(s))
           /\ IsFiniteSet(DetailMethods(s))
<1>1. Counted(s) \in SUBSET DOMAIN movements
  BY DEF Counted, MovementsOf
<1>2. movements \in Seq(Movement) /\ sessions[s].declared \in Seq(Methods)
  <2>1. sessions[s] \in Session
    BY DEF TypeOK
  <2> QED
    BY <2>1 DEF TypeOK, Session
<1>3. IsFiniteSet(DOMAIN movements) /\ IsFiniteSet(DOMAIN sessions[s].declared)
  <2>1. Len(movements) \in Nat /\ DOMAIN movements = 1..Len(movements)
    BY <1>2
  <2>2. Len(sessions[s].declared) \in Nat
        /\ DOMAIN sessions[s].declared = 1..Len(sessions[s].declared)
    BY <1>2
  <2> QED
    BY <2>1, <2>2, FS_Interval
<1>4. IsFiniteSet(Counted(s))
  BY <1>1, <1>3, FS_Subset
<1>5. PICK h : h = [i \in DOMAIN movements |-> movements[i].method]
  OBVIOUS
<1>6. {movements[i].method : i \in Counted(s)} = {h[i] : i \in Counted(s)}
  BY <1>1, <1>5
<1>7. IsFiniteSet({h[i] : i \in Counted(s)})
  BY <1>4, Images
<1>8. IsFiniteSet(ToSet(sessions[s].declared))
  <2>1. PICK d : d = sessions[s].declared
    OBVIOUS
  <2>2. IsFiniteSet({d[i] : i \in DOMAIN d})
    BY <1>3, <2>1, Images
  <2> QED
    BY <2>1, <2>2 DEF ToSet
<1>9. PICK U, V : U = ToSet(sessions[s].declared) /\ V = {movements[i].method : i \in Counted(s)}
  OBVIOUS
<1>10. IsFiniteSet(U \cup V)
  BY <1>6, <1>7, <1>8, <1>9, FS_Union
<1> QED
  BY <1>1, <1>4, <1>9, <1>10 DEF DetailMethods

LEMMA FirstCashIs ==
    ASSUME NEW d \in Seq(Methods), FirstCash(d) # {}
    PROVE  \E m \in ToSet(d) : FirstCash(d) = {m}
<1>1. PICK I : I = {i \in 1..Len(d) : d[i] \in CashMethods}
  OBVIOUS
<1>2. PICK n : n = SelectInSeq(d, LAMBDA me : me \in CashMethods)
  OBVIOUS
<1>3. n # 0 /\ FirstCash(d) = {d[n]}
  BY <1>2 DEF FirstCash
<1>4. n = IF I # {} THEN Min(I) ELSE 0
  BY <1>1, <1>2 DEF SelectInSeq
<1>5. I # {} /\ I \in SUBSET Nat
  BY <1>1, <1>3, <1>4
<1>6. \E m \in I : \A k \in I : m <= k
  BY <1>5, Least
<1>7. n \in I
  BY <1>3, <1>4, <1>6 DEF Min
<1>8. d[n] \in ToSet(d)
  BY <1>1, <1>7 DEF ToSet
<1> QED
  BY <1>3, <1>8

\* What the details of a session add up to.
LEMMA DetailsSum ==
    ASSUME TypeOK, NEW s \in DOMAIN sessions
    PROVE  MapThenSumSet(LAMBDA me : ExpectedAmount(s, me), DetailMethods(s))
               = NetOf(Counted(s))
                 + (IF FirstCash(sessions[s].declared) = {} THEN 0 ELSE sessions[s].opening)
<1>1. PICK A, K, k : /\ A = Counted(s)
                     /\ K = DetailMethods(s)
                     /\ k = [i \in DOMAIN movements |-> movements[i].method]
  OBVIOUS
<1>2. A \in SUBSET DOMAIN movements /\ IsFiniteSet(A) /\ IsFiniteSet(K)
  BY <1>1, CountedFacts
<1>3. \A i \in A : k[i] = movements[i].method /\ k[i] \in K
  BY <1>1, <1>2 DEF DetailMethods
<1>4. \A i \in A : amountOf[i] \in Int
  BY <1>2, AmountType
<1>5. PICK f : f = [m \in K |-> Sum(amountOf, {i \in A : k[i] = m})]
  OBVIOUS
<1>6. Sum(f, K) = NetOf(A)
  <2>1. Sum(f, K) = Sum(amountOf, A)
    BY <1>2, <1>3, <1>4, <1>5, SumByKind
  <2> QED
    BY <1>2, <2>1, NetIs
<1>7. \A m \in K : f[m] \in Int /\ ExpectedAmount(s, m) = f[m] + OpeningOf(s, m)
  <2> TAKE m \in K
  <2>1. PICK T : T = {i \in A : k[i] = m}
    OBVIOUS
  <2>2. T = {i \in Counted(s) : movements[i].method = m}
    BY <1>1, <1>3, <2>1
  <2>3. T \in SUBSET DOMAIN movements /\ IsFiniteSet(T) /\ \A i \in T : amountOf[i] \in Int
    BY <1>2, <1>4, <2>1, FS_Subset
  <2>4. Sum(amountOf, T) \in Int /\ NetOf(T) = Sum(amountOf, T)
    BY <2>3, SumType, NetIs
  <2>5. f[m] = Sum(amountOf, T)
    BY <1>5, <2>1
  <2> QED
    BY <2>2, <2>4, <2>5 DEF ExpectedAmount
<1>8. sessions[s].opening \in Int /\ sessions[s].declared \in Seq(Methods)
  <2>1. sessions[s] \in Session
    BY DEF TypeOK
  <2> QED
    BY <2>1, OpeningsAreIntegers DEF Session
<1>9. PICK e : e = [m \in K |-> ExpectedAmount(s, m)]
  OBVIOUS
<1>10. \A m \in K : OpeningOf(s, m) \in Int
  BY <1>8 DEF OpeningOf
<1>11. \A m \in K : e[m] = ExpectedAmount(s, m) /\ e[m] \in Int /\ e[m] = f[m] + OpeningOf(s, m)
  BY <1>7, <1>9, <1>10
<1>12. MapThenSumSet(LAMBDA me : ExpectedAmount(s, me), K) = Sum(e, K)
  BY <1>2, <1>11, DetailsAre
<1>13. CASE FirstCash(sessions[s].declared) = {}
  <2>1. \A m \in K : OpeningOf(s, m) = 0
    BY <1>13 DEF OpeningOf
  <2>2. \A m \in K : f[m] \in Int /\ f[m] = e[m]
    BY <1>7, <1>11, <2>1
  <2>3. Sum(f, K) = Sum(e, K) /\ Sum(f, K) \in Int
    BY <1>2, <2>2, SumSame, SumType
  <2> QED
    BY <1>1, <1>6, <1>12, <1>13, <2>3
<1>14. CASE FirstCash(sessions[s].declared) # {}
  <2>1. PICK x \in ToSet(sessions[s].declared) : FirstCash(sessions[s].declared) = {x}
    BY <1>8, <1>14, FirstCashIs
  <2>2. x \in K
    BY <1>1 DEF DetailMethods
  <2>3. OpeningOf(s, x) = sessions[s].opening /\ \A m \in K \ {x} : OpeningOf(s, m) = 0
    BY <2>1 DEF OpeningOf
  <2>4. PICK o : o = sessions[s].opening
    OBVIOUS
  <2>5. /\ o \in Int /\ \A m \in K : f[m] \in Int
        /\ e[x] = f[x] + o /\ \A m \in K \ {x} : e[m] = f[m]
    BY <1>7, <1>8, <1>11, <2>2, <2>3, <2>4
  <2>6. Sum(e, K) = Sum(f, K) + o
    BY <1>2, <2>2, <2>5, SumChanges
  <2> QED
    BY <1>1, <1>6, <1>12, <1>14, <2>4, <2>6
<1> QED
  BY <1>13, <1>14

\* The details of a closing leave nothing out and count nothing twice, whatever
\* methods the cashier declares and in whatever order: their expected amounts add
\* up to the net of what the close saw plus the opening amount.
THEOREM DetailsAddUpHolds == Spec => []DetailsAddUp
<1>1. TypeOK => DetailsAddUp
  BY DetailsSum DEF DetailsAddUp, Closed
<1> QED
  BY <1>1, TypeCorrect, PTL

-----------------------------------------------------------------------------
(* The shop.                                                                *)

USE InventoryAssumption, NoneAssumption

\* Rows have the shape of their tables.
RowsOK ==
    /\ stock \in [Products -> 0..MaxStock]
    /\ moves \in [Products -> Seq(Move)]
    /\ sales \in Seq(Sale)
    /\ operations \in [Keys -> [body : Bodies, result : Nat] \cup {None}]
    /\ calls = [c \in Calls |-> calls[c]]

\* A call in flight has read the stock of the products it is about.
CallOK(c) ==
    LET b == calls[c].body
        seen == calls[c].seen
    IN
    /\ calls[c] = [key |-> calls[c].key, body |-> b, seen |-> seen]
    /\ calls[c].key \in Keys
    /\ b \in Bodies
    /\ b.op = "sell" => DOMAIN seen.stock = DOMAIN b.items
    /\ b.op = "adjust" => DOMAIN seen.stock = {b.product}
    /\ b.op = "reverse" =>
          /\ b.sale \in DOMAIN sales
          /\ seen.sale \in Sale
          /\ DOMAIN seen.stock = DOMAIN seen.sale.items

CallsOK == \A c \in Calls : calls[c] # None => CallOK(c)

-----------------------------------------------------------------------------
(* What the operations have in common.                                     *)

(* A body is of one of four operations, and has the fields of that operation. *)
LEMMA BodyFacts ==
    ASSUME NEW b \in Bodies
    PROVE  /\ b.op = "sell" => b.method \in Methods /\ b.items \in Items
           /\ b.op = "adjust" => b.product \in Products /\ b.quantity \in Int
           /\ b.op \in {"update", "adjust", "sell", "reverse"}
<1>1. \/ b \in [op : {"update"}, user : Users, product : Products, to : Product]
      \/ b \in [op : {"adjust"}, user : Users, product : Products,
                quantity : Quantities \cup {-n : n \in Quantities}]
      \/ b \in [op : {"sell"}, user : Users, method : Methods, items : Items]
      \/ b \in [op : {"reverse"}, user : Users, sale : 1..MaxMovements]
  BY DEF Bodies
<1>2. Quantities \cup {-n : n \in Quantities} \subseteq Int
  <2>1. \A n \in Quantities : n \in Int /\ -n \in Int
    BY DEF InventoryAssumption
  <2> QED
    BY <2>1
<1>3. CASE b \in [op : {"adjust"}, user : Users, product : Products,
                 quantity : Quantities \cup {-n : n \in Quantities}]
  BY <1>2, <1>3
<1> QED
  BY <1>1, <1>3

(* The items of a call name products and have positive quantities. *)
LEMMA ItemsFacts ==
    ASSUME NEW items \in Items
    PROVE  DOMAIN items \subseteq Products /\ \A p \in DOMAIN items : items[p] \in Nat \ {0}
<1>1. PICK P \in SUBSET Products \ {{}} : items \in [P -> Quantities]
  BY DEF Items
<1> QED
  BY <1>1

\* A snapshot holds the stock of what its transaction is about.
LEMMA SnapshotFacts ==
    ASSUME RowsOK, NEW k \in Keys, NEW b \in Bodies,
           b.op = "reverse" => b.sale \in DOMAIN sales
    PROVE  LET seen == Snapshot(k, b) IN
           /\ b.op = "sell" => DOMAIN seen.stock = DOMAIN b.items
           /\ b.op = "adjust" => DOMAIN seen.stock = {b.product}
           /\ b.op = "reverse" =>
                 /\ seen.sale \in Sale
                 /\ DOMAIN seen.stock = DOMAIN seen.sale.items
<1>1. b.op = "reverse" => sales[b.sale] \in Sale
  BY DEF RowsOK
<1>2. DOMAIN Snapshot(k, b).stock = IF b.op = "update" THEN {} ELSE Touched(b)
  BY DEF Snapshot, Restrict
<1>3. b.op = "reverse" => Snapshot(k, b).sale = sales[b.sale]
  BY DEF Snapshot
<1> QED
  BY <1>1, <1>2, <1>3 DEF Touched

\* The key was free, now it has the call's body; all other keys are as they were.
LEMMA CommitFacts ==
    ASSUME RowsOK, CallsOK, NEW c \in Calls, NEW op, NEW result \in Nat, Commits(c, op, result)
    PROVE  /\ CallOK(c) /\ calls[c].body.op = op
           /\ operations[calls[c].key] = None
           /\ operations'[calls[c].key] = [body |-> calls[c].body, result |-> result]
           /\ operations'[calls[c].key] # None
           /\ \A k \in Keys \ {calls[c].key} : operations'[k] = operations[k]
           /\ operations' \in [Keys -> [body : Bodies, result : Nat] \cup {None}]
           /\ calls' = [x \in Calls |-> calls'[x]]
           /\ \A x \in Calls : calls'[x] # None => calls[x] # None /\ calls'[x] = calls[x]
<1>1. calls[c] # None /\ calls[c].body.op = op /\ Undisturbed(c)
      /\ operations' = [operations EXCEPT ![calls[c].key] =
                           [body |-> calls[c].body, result |-> result]]
      /\ calls' = [calls EXCEPT ![c] = None]
  BY DEF Commits
<1>2. CallOK(c) /\ calls[c].key \in Keys /\ calls[c].body \in Bodies
  BY <1>1 DEF CallsOK, CallOK
<1>3. operations[calls[c].key] = None
  BY <1>1 DEF Undisturbed
<1>4. [body |-> calls[c].body, result |-> result] \in [body : Bodies, result : Nat]
  BY <1>2
<1>5. operations' \in [Keys -> [body : Bodies, result : Nat] \cup {None}]
      /\ operations'[calls[c].key] = [body |-> calls[c].body, result |-> result]
      /\ \A k \in Keys \ {calls[c].key} : operations'[k] = operations[k]
  BY <1>1, <1>2, <1>4 DEF RowsOK
<1>6. /\ calls' = [x \in Calls |-> calls'[x]]
      /\ \A x \in Calls : calls'[x] # None => calls[x] # None /\ calls'[x] = calls[x]
  BY <1>1 DEF RowsOK
<1> QED
  BY <1>1, <1>2, <1>3, <1>4, <1>5, <1>6

\* The other calls in flight keep what they read; sales only become more.
LEMMA CallsKeep ==
    ASSUME CallsOK, DOMAIN sales \subseteq DOMAIN sales',
           \A x \in Calls : calls'[x] # None => calls[x] # None /\ calls'[x] = calls[x]
    PROVE  CallsOK'
<1> SUFFICES ASSUME NEW x \in Calls, calls'[x] # None PROVE CallOK(x)'
  BY DEF CallsOK
<1>1. CallOK(x) /\ calls'[x] = calls[x]
  BY DEF CallsOK
<1> QED
  BY <1>1 DEF CallOK

-----------------------------------------------------------------------------
(* Stock.                                                                  *)

\* The products of delta move by it, each by one row, and the rest stays.
Moved(delta, type, sale) ==
    \A p \in Products :
        /\ p \notin DOMAIN delta => moves'[p] = moves[p]
        /\ p \in DOMAIN delta =>
              LET n == Len(moves[p]) + 1 IN
              /\ n \notin DOMAIN moves[p]
              /\ DOMAIN moves'[p] = DOMAIN moves[p] \cup {n}
              /\ \A i \in DOMAIN moves[p] : moves'[p][i] = moves[p][i]
              /\ moves'[p][n].type = type
              /\ moves'[p][n].sale = sale
              /\ moves'[p][n].quantity = delta[p]

(* ChangeStock adds exactly the change to each product and keeps stock and rows well formed. *)
LEMMA ChangeStockFacts ==
    ASSUME RowsOK, StockIsCounted,
           NEW old, NEW delta, NEW type \in {"STOCK", "SALE", "REVERSAL"}, NEW sale \in Nat,
           ChangeStock(old, delta, type, sale),
           \A p \in DOMAIN delta : p \in Products /\ delta[p] \in Int /\ old[p] = stock[p]
    PROVE  /\ stock' \in [Products -> 0..MaxStock]
           /\ moves' \in [Products -> Seq(Move)]
           /\ StockIsCounted'
           /\ Moved(delta, type, sale)
<1>1. stock' \in [Products -> 0..MaxStock]
  BY DEF ChangeStock, RowsOK
<1>2. \A p \in Products : moves[p] \in Seq(Move) /\ Len(moves[p]) \in Nat
                          /\ DOMAIN moves[p] = 1..Len(moves[p])
  BY DEF RowsOK
<1> DEFINE row(p) == [type |-> type, quantity |-> delta[p], balanceAfter |-> old[p] + delta[p],
                      sale |-> sale]
<1>3. ASSUME NEW p \in Products, p \notin DOMAIN delta
      PROVE  moves'[p] = moves[p] /\ stock'[p] = stock[p]
  BY <1>3 DEF ChangeStock
<1>4. ASSUME NEW p \in Products, p \in DOMAIN delta
      PROVE  /\ moves'[p] = Append(moves[p], row(p)) /\ row(p) \in Move
             /\ stock'[p] = stock[p] + delta[p]
  BY <1>4 DEF ChangeStock, Move
<1>5. ASSUME NEW p \in Products, p \in DOMAIN delta
      PROVE  /\ moves'[p] \in Seq(Move)
             /\ Len(moves'[p]) = Len(moves[p]) + 1
             /\ DOMAIN moves'[p] = 1..(Len(moves[p]) + 1)
             /\ \A i \in 1..Len(moves[p]) : moves'[p][i] = moves[p][i]
             /\ moves'[p][Len(moves[p]) + 1].type = type
             /\ moves'[p][Len(moves[p]) + 1].sale = sale
             /\ moves'[p][Len(moves[p]) + 1].quantity = delta[p]
             /\ moves'[p][Len(moves[p]) + 1].balanceAfter = stock[p] + delta[p]
  <2>1. moves[p] \in Seq(Move) /\ row(p) \in Move /\ moves'[p] = Append(moves[p], row(p))
    BY <1>2, <1>4, <1>5
  <2>2. row(p).type = type /\ row(p).sale = sale /\ row(p).quantity = delta[p]
        /\ row(p).balanceAfter = stock[p] + delta[p]
    BY <1>5
  <2> HIDE DEF row
  <2>3. /\ moves'[p] \in Seq(Move)
        /\ Len(moves'[p]) = Len(moves[p]) + 1
        /\ \A i \in 1..Len(moves[p]) : moves'[p][i] = moves[p][i]
        /\ moves'[p][Len(moves[p]) + 1] = row(p)
    BY <2>1, AppendProperties
  <2> QED
    BY <2>2, <2>3, LenProperties
<1> HIDE DEF row
<1>6. moves' \in [Products -> Seq(Move)]
  <2>1. \A p \in Products : moves'[p] \in Seq(Move)
    BY <1>2, <1>3, <1>5
  <2> QED
    BY <2>1 DEF ChangeStock
<1>7. Moved(delta, type, sale)
  <2> SUFFICES ASSUME NEW p \in Products, p \in DOMAIN delta
               PROVE  LET n == Len(moves[p]) + 1 IN
                      /\ n \notin DOMAIN moves[p]
                      /\ DOMAIN moves'[p] = DOMAIN moves[p] \cup {n}
                      /\ \A i \in DOMAIN moves[p] : moves'[p][i] = moves[p][i]
                      /\ moves'[p][n].type = type
                      /\ moves'[p][n].sale = sale
                      /\ moves'[p][n].quantity = delta[p]
    BY <1>3 DEF Moved
  <2>1. Len(moves[p]) \in Nat /\ DOMAIN moves[p] = 1..Len(moves[p])
    BY <1>2
  <2>2. DOMAIN moves'[p] = DOMAIN moves[p] \cup {Len(moves[p]) + 1}
        /\ Len(moves[p]) + 1 \notin DOMAIN moves[p]
    BY <1>5, <2>1
  <2> QED
    BY <1>5, <2>1, <2>2
<1>8. StockIsCounted'
  <2> SUFFICES ASSUME NEW p \in Products
               PROVE  /\ \A i \in DOMAIN moves'[p] :
                           moves'[p][i].balanceAfter =
                             (IF i = 1 THEN FirstStock ELSE moves'[p][i - 1].balanceAfter)
                             + moves'[p][i].quantity
                      /\ stock'[p] = IF moves'[p] = <<>> THEN FirstStock
                                     ELSE moves'[p][Len(moves'[p])].balanceAfter
    BY DEF StockIsCounted
  <2>1. CASE p \notin DOMAIN delta
    BY <1>3, <2>1 DEF StockIsCounted
  <2>2. CASE p \in DOMAIN delta
    <3> DEFINE n == Len(moves[p]) + 1
    <3>1. /\ stock[p] = IF moves[p] = <<>> THEN FirstStock ELSE moves[p][Len(moves[p])].balanceAfter
          /\ stock[p] \in Int /\ delta[p] \in Int /\ old[p] = stock[p]
      BY <2>2 DEF StockIsCounted, RowsOK
    <3>2. moves[p] = <<>> <=> Len(moves[p]) = 0
      BY <1>2, EmptySeq
    <3>3. /\ moves'[p][n].balanceAfter = stock[p] + delta[p] /\ moves'[p][n].quantity = delta[p]
          /\ Len(moves'[p]) = n /\ DOMAIN moves'[p] = 1..n
          /\ \A i \in 1..Len(moves[p]) : moves'[p][i] = moves[p][i]
      BY <1>5, <2>2
    <3>4. Len(moves[p]) \in Nat /\ DOMAIN moves[p] = 1..Len(moves[p]) /\ n \in Nat \ {0}
      BY <1>2
    <3> HIDE DEF n
    <3>8. n = Len(moves[p]) + 1 /\ moves'[p] # <<>>
      BY <3>3, <3>4, EmptySeq DEF n
    <3>5. stock'[p] = moves'[p][n].balanceAfter
      BY <1>4, <2>2, <3>3
    <3>6. stock[p] = IF n = 1 THEN FirstStock ELSE moves'[p][n - 1].balanceAfter
      BY <3>1, <3>2, <3>3, <3>4, <3>8
    <3>7. ASSUME NEW i \in DOMAIN moves[p]
          PROVE  moves'[p][i].balanceAfter =
                   (IF i = 1 THEN FirstStock ELSE moves'[p][i - 1].balanceAfter)
                   + moves'[p][i].quantity
      <4>1. moves[p][i].balanceAfter =
              (IF i = 1 THEN FirstStock ELSE moves[p][i - 1].balanceAfter) + moves[p][i].quantity
        BY DEF StockIsCounted
      <4>2. moves'[p][i] = moves[p][i] /\ (i # 1 => moves'[p][i - 1] = moves[p][i - 1])
        <5>1. i \in 1..Len(moves[p]) /\ (i # 1 => i - 1 \in 1..Len(moves[p]))
          BY <3>4
        <5> QED
          BY <3>3, <5>1
      <4> QED
        BY <4>1, <4>2
    <3>9. moves'[p][n].balanceAfter =
            (IF n = 1 THEN FirstStock ELSE moves'[p][n - 1].balanceAfter) + moves'[p][n].quantity
      BY <3>1, <3>3, <3>6
    <3>10. \A i \in DOMAIN moves'[p] : i \in DOMAIN moves[p] \/ i = n
      BY <3>3, <3>4, <3>8
    <3> QED
      BY <3>3, <3>5, <3>7, <3>8, <3>9, <3>10
  <2> QED
    BY <2>1, <2>2
<1> QED
  BY <1>1, <1>6, <1>7, <1>8

-----------------------------------------------------------------------------
(* What each operation does, in the terms of the parts of the invariant.   *)

\* Adjust: the stock of one product moves, with a row of no sale.
LEMMA AdjustFacts ==
    ASSUME RowsOK, CallsOK, StockIsCounted, NEW c \in Calls, Adjust(c)
    PROVE  /\ RowsOK' /\ CallsOK' /\ StockIsCounted'
           /\ UNCHANGED <<vars, sales>>
           /\ Commits(c, "adjust", 0)
           /\ calls[c].body.product \in Products
           /\ Moved([p \in {calls[c].body.product} |-> calls[c].body.quantity], "STOCK", 0)
<1> DEFINE b == calls[c].body
           delta == [p \in {b.product} |-> b.quantity]
<1>1. /\ Commits(c, "adjust", 0) /\ UNCHANGED <<vars, products, sales>>
      /\ ChangeStock(calls[c].seen.stock, delta, "STOCK", 0)
  BY DEF Adjust
<1>2. CallOK(c) /\ b.op = "adjust" /\ Undisturbed(c)
      /\ operations' \in [Keys -> [body : Bodies, result : Nat] \cup {None}]
      /\ calls' = [x \in Calls |-> calls'[x]]
      /\ \A x \in Calls : calls'[x] # None => calls[x] # None /\ calls'[x] = calls[x]
  BY <1>1, CommitFacts DEF Commits
<1>3. b.product \in Products /\ b.quantity \in Int
      /\ calls[c].seen.stock[b.product] = stock[b.product]
  BY <1>2, BodyFacts DEF CallOK, Undisturbed
<1>4. \A p \in DOMAIN delta : p \in Products /\ delta[p] \in Int
                             /\ calls[c].seen.stock[p] = stock[p]
  BY <1>3
<1> HIDE DEF delta
<1>5. stock' \in [Products -> 0..MaxStock] /\ moves' \in [Products -> Seq(Move)]
      /\ StockIsCounted' /\ Moved(delta, "STOCK", 0)
  BY <1>1, <1>4, ChangeStockFacts
<1>6. CallsOK'
  BY <1>1, <1>2, CallsKeep
<1>7. RowsOK'
  BY <1>1, <1>2, <1>5 DEF RowsOK
<1> QED
  BY <1>1, <1>3, <1>5, <1>6, <1>7 DEF delta

\* Sell: a sale is added, with its movement at the desk and a row per product.
LEMMA SellFacts ==
    ASSUME RowsOK, CallsOK, StockIsCounted, TypeOK, NEW c \in Calls, Sell(c)
    PROVE  LET items == calls[c].body.items IN
           /\ RowsOK' /\ CallsOK' /\ StockIsCounted'
           /\ Commits(c, "sell", Len(sales) + 1)
           /\ items \in Items
           /\ Moved([p \in DOMAIN items |-> -items[p]], "SALE", Len(sales) + 1)
           /\ \E s \in DOMAIN sessions, me \in Methods, total \in Amounts :
                 /\ SellProducts(s, me, total)
                 /\ sales' = Append(sales, [movement |-> Len(movements) + 1, items |-> items,
                                            total |-> total, reversal |-> 0])
<1> DEFINE b == calls[c].body
           items == b.items
           delta == [p \in DOMAIN items |-> -items[p]]
           total == Total(c)
           row == [movement |-> Len(movements) + 1, items |-> items, total |-> total,
                   reversal |-> 0]
           k == Len(sales) + 1
<1>1. /\ Commits(c, "sell", k)
      /\ total \in Amounts
      /\ \E s \in DOMAIN sessions : SellProducts(s, b.method, total)
      /\ sales' = Append(sales, row)
      /\ ChangeStock(calls[c].seen.stock, delta, "SALE", k)
  BY DEF Sell
<1>2. Len(sales) \in Nat /\ DOMAIN sales = 1..Len(sales) /\ Len(movements) \in Nat /\ k \in Nat
  BY DEF RowsOK, TypeOK
<1> HIDE DEF k
<1>3. CallOK(c) /\ b.op = "sell" /\ Undisturbed(c)
      /\ operations' \in [Keys -> [body : Bodies, result : Nat] \cup {None}]
      /\ calls' = [x \in Calls |-> calls'[x]]
      /\ \A x \in Calls : calls'[x] # None => calls[x] # None /\ calls'[x] = calls[x]
  <2>1. CallOK(c) /\ b.op = "sell"
        /\ operations' \in [Keys -> [body : Bodies, result : Nat] \cup {None}]
        /\ calls' = [x \in Calls |-> calls'[x]]
        /\ \A x \in Calls : calls'[x] # None => calls[x] # None /\ calls'[x] = calls[x]
    BY <1>1, <1>2, CommitFacts
  <2>2. Undisturbed(c)
    BY <1>1 DEF Commits
  <2> QED
    BY <2>1, <2>2
<1>4. items \in Items /\ b.method \in Methods /\ DOMAIN items \subseteq Products
      /\ \A p \in DOMAIN items : items[p] \in Nat \ {0}
  BY <1>3, BodyFacts, ItemsFacts DEF CallOK
<1>5. \A p \in DOMAIN items : calls[c].seen.stock[p] = stock[p]
  BY <1>3 DEF CallOK, Undisturbed
<1>6. \A p \in DOMAIN delta : p \in Products /\ delta[p] \in Int
                             /\ calls[c].seen.stock[p] = stock[p]
  BY <1>4, <1>5
<1>7. row \in Sale
  BY <1>1, <1>2, <1>4 DEF Sale
<1> HIDE DEF delta, row, total
<1>8. stock' \in [Products -> 0..MaxStock] /\ moves' \in [Products -> Seq(Move)]
      /\ StockIsCounted' /\ Moved(delta, "SALE", k)
  BY <1>1, <1>2, <1>6, ChangeStockFacts
<1>9. sales' \in Seq(Sale) /\ DOMAIN sales \subseteq DOMAIN sales'
  <2>1. sales \in Seq(Sale)
    BY DEF RowsOK
  <2>2. sales' \in Seq(Sale) /\ Len(sales') = Len(sales) + 1
    BY <1>1, <1>7, <2>1, AppendProperties
  <2> QED
    BY <1>2, <2>2, LenProperties
<1>10. CallsOK'
  BY <1>3, <1>9, CallsKeep
<1>11. RowsOK'
  BY <1>3, <1>8, <1>9 DEF RowsOK
<1> QED
  BY <1>1, <1>4, <1>8, <1>10, <1>11 DEF delta, row, k

(* A sale that gets its reversal is still a sale. *)
LEMMA SaleReversed ==
    ASSUME NEW sale \in Sale, NEW r \in Nat
    PROVE  [sale EXCEPT !.reversal = r] \in Sale
<1>1. sale = [movement |-> sale.movement, items |-> sale.items, total |-> sale.total,
              reversal |-> sale.reversal]
  BY DEF Sale
<1>2. [sale EXCEPT !.reversal = r] = [movement |-> sale.movement, items |-> sale.items,
                                      total |-> sale.total, reversal |-> r]
  BY <1>1
<1>3. sale.movement \in Nat /\ sale.items \in Items /\ sale.total \in Amounts
  BY DEF Sale
<1> QED
  BY <1>2, <1>3, Zenon DEF Sale

\* ReverseSold: the sale is as its call read it; it gets its reversal, and a row per
\* product.
LEMMA ReverseFacts ==
    ASSUME RowsOK, CallsOK, StockIsCounted, TypeOK, NEW c \in Calls, ReverseSold(c)
    PROVE  LET n == calls[c].body.sale IN
           /\ RowsOK' /\ CallsOK' /\ StockIsCounted'
           /\ Commits(c, "reverse", n)
           /\ n \in DOMAIN sales /\ sales[n].reversal = 0
           /\ ReverseSale(sales[n].movement)
           /\ Moved(sales[n].items, "REVERSAL", n)
           /\ DOMAIN sales' = DOMAIN sales /\ Len(sales') = Len(sales)
           /\ sales'[n] = [sales[n] EXCEPT !.reversal = Len(movements) + 1]
           /\ \A k \in DOMAIN sales \ {n} : sales'[k] = sales[k]
<1> DEFINE n == calls[c].body.sale
           sale == calls[c].seen.sale
<1>1. /\ Commits(c, "reverse", n)
      /\ sale.reversal = 0
      /\ ReverseSale(sale.movement)
      /\ sales' = [sales EXCEPT ![n].reversal = Len(movements) + 1]
      /\ ChangeStock(calls[c].seen.stock, sale.items, "REVERSAL", n)
  BY DEF ReverseSold
<1>2. sales \in Seq(Sale) /\ Len(sales) \in Nat /\ DOMAIN sales = 1..Len(sales)
      /\ Len(movements) \in Nat
  BY DEF RowsOK, TypeOK
<1>3. CallOK(c) /\ calls[c].body.op = "reverse" /\ Undisturbed(c)
  <2>1. calls[c] # None /\ calls[c].body.op = "reverse" /\ Undisturbed(c)
    BY <1>1 DEF Commits
  <2> QED
    BY <2>1 DEF CallsOK
<1>4. n \in DOMAIN sales /\ sale \in Sale /\ DOMAIN calls[c].seen.stock = DOMAIN sale.items
  BY <1>3 DEF CallOK
<1>5. sales[n] = sale
  BY <1>3, <1>4 DEF Undisturbed
<1>6. operations' \in [Keys -> [body : Bodies, result : Nat] \cup {None}]
      /\ calls' = [x \in Calls |-> calls'[x]]
      /\ \A x \in Calls : calls'[x] # None => calls[x] # None /\ calls'[x] = calls[x]
  <2>1. n \in Nat
    BY <1>2, <1>4
  <2> HIDE DEF n
  <2> QED
    BY <1>1, <2>1, CommitFacts
<1>7. \A p \in DOMAIN sale.items : p \in Products /\ sale.items[p] \in Int
                                  /\ calls[c].seen.stock[p] = stock[p]
  <2>1. sale.items \in Items
    BY <1>4 DEF Sale
  <2> QED
    BY <1>3, <1>4, <2>1, ItemsFacts DEF Undisturbed
<1>8. n \in Nat
  BY <1>2, <1>4
<1>9. stock' \in [Products -> 0..MaxStock] /\ moves' \in [Products -> Seq(Move)]
      /\ StockIsCounted' /\ Moved(sale.items, "REVERSAL", n)
  BY <1>1, <1>7, <1>8, ChangeStockFacts
<1>10. /\ sales' \in Seq(Sale) /\ DOMAIN sales' = DOMAIN sales /\ Len(sales') = Len(sales)
       /\ sales'[n] = [sales[n] EXCEPT !.reversal = Len(movements) + 1]
       /\ \A k \in DOMAIN sales \ {n} : sales'[k] = sales[k]
  <2>1. [sales[n] EXCEPT !.reversal = Len(movements) + 1] \in Sale
    <3>1. sales[n] \in Sale /\ Len(movements) + 1 \in Nat
      BY <1>2, <1>4, <1>5
    <3> HIDE DEF n
    <3> QED
      BY <3>1, SaleReversed
  <2>2. sales' = [sales EXCEPT ![n] = [sales[n] EXCEPT !.reversal = Len(movements) + 1]]
    BY <1>1
  <2>3. sales \in Seq(Sale) /\ DOMAIN sales = 1..Len(sales) /\ n \in 1..Len(sales)
    BY <1>2, <1>4
  <2> HIDE DEF n
  <2> QED
    BY <2>1, <2>2, <2>3, ExceptSeq
<1>11. CallsOK'
  BY <1>6, <1>10, CallsKeep
<1>12. RowsOK'
  BY <1>6, <1>9, <1>10 DEF RowsOK
<1>13. /\ RowsOK' /\ CallsOK' /\ StockIsCounted'
       /\ Commits(c, "reverse", n)
       /\ n \in DOMAIN sales /\ sales[n].reversal = 0
       /\ ReverseSale(sales[n].movement)
       /\ Moved(sales[n].items, "REVERSAL", n)
       /\ DOMAIN sales' = DOMAIN sales /\ Len(sales') = Len(sales)
       /\ sales'[n] = [sales[n] EXCEPT !.reversal = Len(movements) + 1]
       /\ \A k \in DOMAIN sales \ {n} : sales'[k] = sales[k]
  <2> HIDE DEF n, sale
  <2> QED
    BY <1>1, <1>4, <1>5, <1>9, <1>10, <1>11, <1>12, Zenon
<1> QED
  BY <1>13, Zenon

\* Begin, Answer, Retry and CallFails change what is in flight only.
Quiet(c) ==
    \/ \E k \in Keys, b \in Bodies : Begin(c, k, b)
    \/ Answer(c) \/ Retry(c) \/ CallFails(c)

(* The actions of a call that touch neither stock nor the desk keep ShopInv. *)
LEMMA QuietFacts ==
    ASSUME RowsOK, CallsOK, NEW c \in Calls, Quiet(c)
    PROVE  RowsOK' /\ CallsOK' /\ UNCHANGED <<vars, products, stock, moves, sales, operations>>
<1>1. UNCHANGED <<vars, products, stock, moves, sales, operations>>
  BY DEF Quiet, Begin, Answer, Retry, CallFails
<1>2. \A x \in Calls \ {c} : calls'[x] = calls[x]
  BY DEF Quiet, Begin, Answer, Retry, CallFails, RowsOK
<1>3. calls' = [x \in Calls |-> calls'[x]]
  BY DEF Quiet, Begin, Answer, Retry, CallFails, RowsOK
<1>4. ASSUME calls'[c] # None PROVE CallOK(c)'
  <2>1. CASE \E k \in Keys, b \in Bodies : Begin(c, k, b)
    <3>1. PICK k \in Keys, b \in Bodies : Begin(c, k, b)
      BY <2>1
    <3>2. calls'[c] = [key |-> k, body |-> b, seen |-> Snapshot(k, b)]
          /\ (b.op = "reverse" => b.sale \in DOMAIN sales)
      BY <3>1 DEF Begin, RowsOK
    <3>3. /\ calls'[c].key = k /\ calls'[c].body = b /\ calls'[c].seen = Snapshot(k, b)
          /\ calls'[c] = [key |-> k, body |-> b, seen |-> Snapshot(k, b)]
      BY <3>2
    <3> QED
      BY <1>1, <3>2, <3>3, SnapshotFacts DEF CallOK
  <2>2. CASE Retry(c)
    <3>1. calls[c] # None
          /\ calls' = [calls EXCEPT ![c].seen = Snapshot(calls[c].key, calls[c].body)]
      BY <2>2 DEF Retry
    <3>2. CallOK(c)
      BY <3>1 DEF CallsOK
    <3>3. /\ calls'[c].key = calls[c].key /\ calls'[c].body = calls[c].body
          /\ calls'[c].seen = Snapshot(calls[c].key, calls[c].body)
          /\ calls'[c] = [key |-> calls[c].key, body |-> calls[c].body,
                          seen |-> Snapshot(calls[c].key, calls[c].body)]
      BY <3>1, <3>2 DEF RowsOK, CallOK
    <3> QED
      BY <1>1, <3>2, <3>3, SnapshotFacts DEF CallOK
  <2>3. CASE Answer(c) \/ CallFails(c)
    BY <1>4, <2>3 DEF Answer, CallFails, RowsOK
  <2> QED
    BY <2>1, <2>2, <2>3 DEF Quiet
<1>5. CallsOK'
  <2> SUFFICES ASSUME NEW x \in Calls, calls'[x] # None PROVE CallOK(x)'
    BY DEF CallsOK
  <2>1. CASE x = c
    BY <1>4, <2>1
  <2>2. CASE x # c
    BY <1>1, <1>2, <2>2 DEF CallsOK, CallOK
  <2> QED
    BY <2>1, <2>2
<1>6. RowsOK'
  BY <1>1, <1>3 DEF RowsOK
<1> QED
  BY <1>1, <1>5, <1>6

(* Editing a product keeps ShopInv. *)
LEMMA UpdateFacts ==
    ASSUME RowsOK, CallsOK, StockIsCounted, NEW c \in Calls, UpdateProduct(c)
    PROVE  /\ RowsOK' /\ CallsOK' /\ StockIsCounted'
           /\ UNCHANGED <<vars, stock, moves, sales>>
           /\ Commits(c, "update", 0)
<1>1. Commits(c, "update", 0) /\ UNCHANGED <<vars, stock, moves, sales>>
  BY DEF UpdateProduct
<1>2. operations' \in [Keys -> [body : Bodies, result : Nat] \cup {None}]
      /\ calls' = [x \in Calls |-> calls'[x]]
      /\ \A x \in Calls : calls'[x] # None => calls[x] # None /\ calls'[x] = calls[x]
  BY <1>1, CommitFacts
<1>3. CallsOK'
  BY <1>1, <1>2, CallsKeep
<1>4. RowsOK' /\ StockIsCounted'
  BY <1>1, <1>2 DEF RowsOK, StockIsCounted
<1> QED
  BY <1>1, <1>3, <1>4

-----------------------------------------------------------------------------
(* The shop implements the desk, and counts its stock.                     *)

\* The ways a step of the shop can go, one assumption per operation.
LEMMA ShopCases ==
    ASSUME [ShopNext]_shopVars, NEW G,
           UNCHANGED shopVars => G,
           DeskStep /\ UNCHANGED inventory => G,
           \A c \in Calls : Quiet(c) => G,
           \A c \in Calls : UpdateProduct(c) => G,
           \A c \in Calls : Adjust(c) => G,
           \A c \in Calls : Sell(c) => G,
           \A c \in Calls : ReverseSold(c) => G
    PROVE  G
BY Zenon DEF ShopNext, Quiet

ShopInv ==
    /\ IInv
    /\ RowsOK
    /\ CallsOK
    /\ StockIsCounted

(* Every step of the shop is a step of the cash desk or leaves it alone. *)
LEMMA ShopStepIsDeskStep ==
    ASSUME ShopInv, [ShopNext]_shopVars
    PROVE  [Next]_vars
<1>1. RowsOK /\ CallsOK /\ StockIsCounted /\ TypeOK
  BY DEF ShopInv, IInv
<1>2. UNCHANGED shopVars => [Next]_vars
  BY DEF shopVars
<1>3. DeskStep /\ UNCHANGED inventory => [Next]_vars
  BY DEF Next
<1>4. \A c \in Calls : Quiet(c) => [Next]_vars
  BY <1>1, QuietFacts
<1>5. \A c \in Calls : UpdateProduct(c) => [Next]_vars
  BY <1>1, UpdateFacts
<1>6. \A c \in Calls : Adjust(c) => [Next]_vars
  BY <1>1, AdjustFacts
<1>7. \A c \in Calls : Sell(c) => [Next]_vars
  <2> SUFFICES ASSUME NEW c \in Calls, Sell(c) PROVE SaleStep
    BY DEF Next
  <2>1. \E s \in DOMAIN sessions, me \in Methods, total \in Amounts : SellProducts(s, me, total)
    BY <1>1, SellFacts
  <2> QED
    BY <2>1 DEF SaleStep
<1>8. \A c \in Calls : ReverseSold(c) => [Next]_vars
  <2> SUFFICES ASSUME NEW c \in Calls, ReverseSold(c) PROVE SaleStep
    BY DEF Next
  <2>1. ReverseSale(sales[calls[c].body.sale].movement)
    BY <1>1, ReverseFacts
  <2>2. \A i : ReverseSale(i) => i \in DOMAIN movements
    BY DEF ReverseSale
  <2> QED
    BY <2>1, <2>2 DEF SaleStep
<1> QED
  BY <1>2, <1>3, <1>4, <1>5, <1>6, <1>7, <1>8, ShopCases

(* The initial states satisfy ShopInv. *)
LEMMA ShopInitInv == ShopInit => ShopInv
<1> SUFFICES ASSUME ShopInit PROVE ShopInv
  OBVIOUS
<1>1. Init /\ InventoryInit
  BY DEF ShopInit
<1>2. IInv
  BY <1>1, InitIInv
<1>3. RowsOK
  BY <1>1 DEF InventoryInit, RowsOK
<1>4. CallsOK /\ StockIsCounted
  BY <1>1 DEF InventoryInit, CallsOK, StockIsCounted
<1> QED
  BY <1>2, <1>3, <1>4 DEF ShopInv

(* Every step keeps ShopInv. *)
LEMMA ShopNextInv == ShopInv /\ [ShopNext]_shopVars => ShopInv'
<1> SUFFICES ASSUME ShopInv, [ShopNext]_shopVars PROVE ShopInv'
  OBVIOUS
<1> DEFINE Good == RowsOK' /\ CallsOK' /\ StockIsCounted'
<1>1. RowsOK /\ CallsOK /\ StockIsCounted /\ TypeOK
  BY DEF ShopInv, IInv
<1>2. IInv'
  BY ShopStepIsDeskStep, NextIInv DEF ShopInv
<1>3. DOMAIN sales = DOMAIN sales' /\ UNCHANGED inventory => Good
  BY <1>1 DEF RowsOK, CallsOK, CallOK, StockIsCounted, inventory
<1>4. UNCHANGED shopVars => Good
  BY <1>3 DEF shopVars, inventory
<1>5. DeskStep /\ UNCHANGED inventory => Good
  BY <1>3 DEF inventory
<1>6. \A c \in Calls : Quiet(c) => Good
  BY <1>1, QuietFacts DEF StockIsCounted
<1>7. \A c \in Calls : UpdateProduct(c) => Good
  BY <1>1, UpdateFacts
<1>8. \A c \in Calls : Adjust(c) => Good
  BY <1>1, AdjustFacts
<1>9. \A c \in Calls : Sell(c) => Good
  BY <1>1, SellFacts
<1>10. \A c \in Calls : ReverseSold(c) => Good
  BY <1>1, ReverseFacts
<1> HIDE DEF Good
<1>11. Good
  BY <1>4, <1>5, <1>6, <1>7, <1>8, <1>9, <1>10, ShopCases
<1> QED
  BY <1>2, <1>11 DEF ShopInv, Good

(* Type correctness of the shop and the desk beneath it, well-formed rows and calls,
   and the stock as the sum of its movements, in every reachable state. *)
THEOREM ShopInvariant == ShopSpec => []ShopInv
BY ShopInitInv, ShopNextInv, PTL DEF ShopSpec

\* Whatever the inventory does to the desk, the desk has an operation for it: a
\* behaviour of the shop is one of the desk, of which every theorem about the desk
\* holds.
THEOREM ShopRefinesDesk == ShopSpec => Spec
<1>1. ShopInit => Init
  BY DEF ShopInit
<1>2. ShopInv /\ [ShopNext]_shopVars => [Next]_vars
  BY ShopStepIsDeskStep
<1> QED
  BY <1>1, <1>2, ShopInvariant, PTL DEF ShopSpec, Spec

\* Sales, reversals and adjustments that were computed from snapshots at the same
\* time lose no unit of a product.
THEOREM StockIsCountedHolds == ShopSpec => []StockIsCounted
BY ShopInvariant, PTL DEF ShopInv

\* At a desk the inventory is at work with, too, a movement is undone once, and
\* exactly, no sale is missing from the closing of its session, the amounts of every
\* closing agree, and the desk is an append-only book.
COROLLARY ShopKeepsTheDesk ==
    ShopSpec => /\ [](ReversalPairs /\ LockedCollectionsCounted /\ DetailsAddUp)
                /\ ImplementsBook
BY ShopRefinesDesk, ReversalPairsHolds, CollectionsCountedHolds, DetailsAddUpHolds,
   ImplementsBookHolds, PTL

-----------------------------------------------------------------------------
(* Desk and stock agree on every sale.                                     *)

\* No request at the desk is about to reverse the movement of a sale.
SalesAreSpared ==
    \A q \in Requests :
        requests[q].op = "reverse" => movements[requests[q].movement].origin # "sale"

\* The movement of a sale is its income, undone by the movement the sale names.
SaleAtDesk(n) ==
    /\ sales[n].movement \in DOMAIN movements
    /\ sales[n].reversal \in DOMAIN movements \cup {0}
    /\ movements[sales[n].movement].origin = "sale"
    /\ movements[sales[n].movement].type = "INCOME"
    /\ movements[sales[n].movement].amount = sales[n].total
    /\ movements[sales[n].movement].reversalOf = 0
    /\ \A i \in DOMAIN movements :
          movements[i].reversalOf = sales[n].movement <=> i = sales[n].reversal

\* Each sale has a movement of its own, each income from sales has a sale.
DeskOK ==
    /\ SalesAreSpared
    /\ \A n \in DOMAIN sales : SaleAtDesk(n)
    /\ \A n, m \in DOMAIN sales : sales[n].movement = sales[m].movement => n = m
    /\ \A i \in DOMAIN movements :
          movements[i].origin = "sale" /\ movements[i].reversalOf = 0 =>
              \E n \in DOMAIN sales : sales[n].movement = i

\* What the desk does on its own has nothing to do with sales.
LEMMA DeskLeavesSalesAlone ==
    ASSUME IInv, SalesAreSpared, DeskStep
    PROVE  /\ SalesAreSpared'
           /\ \A i \in DOMAIN movements' \ DOMAIN movements :
                 /\ movements'[i].origin # "sale"
                 /\ movements'[i].reversalOf \in DOMAIN movements =>
                       movements[movements'[i].reversalOf].origin # "sale"
<1> DEFINE New(i) == /\ movements'[i].origin # "sale"
                     /\ movements'[i].reversalOf \in DOMAIN movements =>
                           movements[movements'[i].reversalOf].origin # "sale"
           Good == \A i \in DOMAIN movements' \ DOMAIN movements : New(i)
<1>1. TypeOK /\ RequestsOK /\ movements \in Seq(Movement) /\ Len(movements) \in Nat
      /\ DOMAIN movements = 1..Len(movements) /\ [Next]_vars
  BY DEF IInv, TypeOK, Next
<1>2. movements' = movements => Good
  OBVIOUS
<1>3. ASSUME NEW q \in Requests, NEW t \in Types, NEW a \in Amounts, NEW me \in Methods,
             NEW m \in Members \cup {NoMember}, CreateMovement(q, t, a, me, m)
      PROVE  Good
  <2> DEFINE new == NewMovement(requests[q].session, t, a, me, m, "create")
  <2>1. movements' = Append(movements, new) /\ new.origin = "create" /\ new.reversalOf = 0
    BY <1>3 DEF CreateMovement, NewMovement
  <2>2. \A i \in DOMAIN movements' \ DOMAIN movements : movements'[i] = new
    BY <1>1, <2>1
  <2> HIDE DEF new
  <2> QED
    BY <1>1, <2>1, <2>2
<1>4. ASSUME NEW q \in Requests, ReverseMovement(q)
      PROVE  Good
  <2> DEFINE j == requests[q].movement
  <2>1. UndoesMovement(j, "reverse") /\ movements[j].origin # "sale"
    BY <1>1, <1>4 DEF ReverseMovement, RequestsOK, UndoesMovement, Origins, SerializedOrigins,
                      SalesAreSpared
  <2> HIDE DEF j
  <2>2. /\ DOMAIN movements' = 1..(Len(movements) + 1)
        /\ movements'[Len(movements) + 1] = ReversalOf(j, "reverse")
    BY <1>1, <2>1, UndoneFacts
  <2>3. j \in DOMAIN movements
    BY <2>1 DEF UndoesMovement
  <2>4. ReversalOf(j, "reverse").origin = "reverse" /\ ReversalOf(j, "reverse").reversalOf = j
    <3>1. movements[j] \in Movement
      BY <1>1, <2>3 DEF IInv, TypeOK
    <3> QED
      BY <3>1 DEF ReversalOf, Movement
  <2>5. \A i \in DOMAIN movements' \ DOMAIN movements : i = Len(movements) + 1
    BY <1>1, <2>2
  <2> QED
    BY <2>1, <2>2, <2>4, <2>5
<1>5. ASSUME NEW s \in DOMAIN sessions, NEW me \in Methods, NEW m \in Members,
             NEW ls \in Lines, PayDebt(s, m, me, ls)
      PROVE  Good
  <2> PICK batch : batch = [i \in DOMAIN ls |-> NewMovement(s, "INCOME", ls[i], me, m, "pay")]
    OBVIOUS
  <2>1. PICK n \in 1..MaxLines : ls \in [1..n -> Amounts]
    BY DEF Lines
  <2>2. /\ DOMAIN batch = 1..n
        /\ \A i \in 1..n : batch[i].origin = "pay" /\ batch[i].reversalOf = 0
        /\ movements' = movements \o batch
    BY <1>5, <2>1 DEF PayDebt, NewMovement
  <2>3. batch \in Seq(Movement) /\ Len(batch) = n
    <3>1. s \in Nat
      BY <1>1 DEF TypeOK
    <3>2. \A i \in 1..n : NewMovement(s, "INCOME", ls[i], me, m, "pay") \in Movement
      BY <2>1, <3>1, NewMovementType DEF Origins, Types
    <3> QED
      BY <2>1, <3>2
  <2>6. /\ movements' \in Seq(Movement)
        /\ Len(movements') = Len(movements) + n
        /\ \A i \in 1..(Len(movements) + n) :
              movements'[i] = IF i <= Len(movements) THEN movements[i]
                                                     ELSE batch[i - Len(movements)]
    <3>1. movements \in Seq(Movement) /\ Len(movements) \in Nat /\ n \in Nat
          /\ batch \in Seq(Movement) /\ Len(batch) = n /\ movements' = movements \o batch
      BY <1>1, <2>2, <2>3
    <3> QED
      BY <3>1, ConcatProperties
  <2>4. DOMAIN movements' = 1..(Len(movements) + n)
    BY <2>6
  <2>5. \A i \in DOMAIN movements' \ DOMAIN movements :
           i - Len(movements) \in 1..n /\ movements'[i] = batch[i - Len(movements)]
    BY <1>1, <2>4, <2>6
  <2> QED
    BY <1>1, <2>2, <2>5
<1>6. ASSUME NEW s \in DOMAIN sessions, NEW me \in Methods, NEW m \in Members,
             NEW a \in Amounts, CollectMembership(s, m, me, a)
      PROVE  Good
  <2> DEFINE new == NewMovement(s, "INCOME", a, me, m, "membership")
  <2>1. movements' = Append(movements, new) /\ new.origin = "membership" /\ new.reversalOf = 0
    BY <1>6 DEF CollectMembership, NewMovement
  <2>2. \A i \in DOMAIN movements' \ DOMAIN movements : movements'[i] = new
    BY <1>1, <2>1
  <2> HIDE DEF new
  <2> QED
    BY <1>1, <2>1, <2>2
<1> HIDE DEF Good
<1>7. Good
  BY <1>2, <1>3, <1>4, <1>5, <1>6, Zenon
  DEF DeskStep, Open, FindOpenSession, FindReversible, CloseSnapshot, CloseSession, RequestFails
<1>8. \/ requests' = requests
      \/ \E q \in Requests :
            \/ requests' = [requests EXCEPT ![q] = Idle]
            \/ \E s \in DOMAIN sessions, op \in {"create", "close"} : FindOpenSession(q, op, s)
            \/ \E i \in DOMAIN movements : FindReversible(q, i)
            \/ CloseSnapshot(q)
  BY Zenon DEF DeskStep, Open, CreateMovement, ReverseMovement, CloseSession,
     RequestFails, PayDebt, CollectMembership
<1>9. ASSUME NEW x \in Requests, requests'[x].op = "reverse"
      PROVE  \/ requests'[x] = requests[x]
             \/ /\ requests'[x].movement \in DOMAIN movements
                /\ movements[requests'[x].movement].origin # "sale"
  <2>1. requests \in [Requests -> Request] /\ Idle.op = "idle"
    BY <1>1 DEF TypeOK, Idle
  <2>2. ASSUME NEW q \in Requests, requests' = [requests EXCEPT ![q] = Idle]
        PROVE  requests'[x] = requests[x]
    BY <1>9, <2>1, <2>2
  <2>3. ASSUME NEW q \in Requests, NEW s \in DOMAIN sessions, NEW op \in {"create", "close"},
               FindOpenSession(q, op, s)
        PROVE  requests'[x] = requests[x]
    <3>1. [Idle EXCEPT !.op = op, !.session = s].op = op
      BY DEF Idle
    <3> QED
      BY <1>9, <2>1, <2>3, <3>1 DEF FindOpenSession
  <2>4. ASSUME NEW q \in Requests, NEW i \in DOMAIN movements, FindReversible(q, i)
        PROVE  \/ requests'[x] = requests[x]
               \/ requests'[x].movement = i /\ movements[i].origin # "sale"
    <3>1. [Idle EXCEPT !.op = "reverse", !.movement = i].movement = i
      BY DEF Idle
    <3> QED
      BY <2>1, <2>4, <3>1 DEF FindReversible
  <2>5. ASSUME NEW q \in Requests, CloseSnapshot(q)
        PROVE  requests'[x] = requests[x]
    <3>1. [requests[q] EXCEPT !.op = "closing", !.seen = Len(movements)].op = "closing"
      BY <2>1 DEF Request
    <3>2. requests' = [requests EXCEPT ![q] =
                          [requests[q] EXCEPT !.op = "closing", !.seen = Len(movements)]]
      BY <2>1, <2>5 DEF CloseSnapshot
    <3> QED
      BY <1>9, <2>1, <3>1, <3>2
  <2> QED
    BY <1>8, <2>2, <2>3, <2>4, <2>5
<1>10. SalesAreSpared'
  <2> SUFFICES ASSUME NEW x \in Requests, requests'[x].op = "reverse"
               PROVE  movements'[requests'[x].movement].origin # "sale"
    BY DEF SalesAreSpared
  <2>1. requests'[x].movement \in DOMAIN movements
        /\ movements[requests'[x].movement].origin # "sale"
    BY <1>1, <1>9 DEF SalesAreSpared, RequestsOK
  <2> QED
    BY <1>1, <2>1, MovementsKeep
<1> QED
  BY <1>7, <1>10 DEF Good

\* What happens to the movements on the side of the desk, in the terms of DeskOK.
LEMMA DeskOKInOwnStep ==
    ASSUME IInv, RowsOK, DeskOK, DeskStep, sales' = sales
    PROVE  DeskOK'
<1>1. /\ SalesAreSpared'
      /\ \A i \in DOMAIN movements' \ DOMAIN movements :
            /\ movements'[i].origin # "sale"
            /\ movements'[i].reversalOf \in DOMAIN movements =>
                  movements[movements'[i].reversalOf].origin # "sale"
  BY DeskLeavesSalesAlone DEF DeskOK
<1>2. [Next]_vars
  BY DEF Next
<1>3. \A i \in DOMAIN movements :
         /\ i \in DOMAIN movements'
         /\ movements'[i].origin = movements[i].origin
         /\ movements'[i].type = movements[i].type
         /\ movements'[i].amount = movements[i].amount
         /\ movements'[i].reversalOf = movements[i].reversalOf
  BY <1>2, MovementsKeep, MovementsGrow
<1>4. ASSUME NEW n \in DOMAIN sales PROVE SaleAtDesk(n)'
  <2>1. SaleAtDesk(n)
    BY DEF DeskOK
  <2>2. 0 \notin DOMAIN movements'
    BY <1>2, MovementsGrow
  <2>3. ASSUME NEW i \in DOMAIN movements'
        PROVE  movements'[i].reversalOf = sales[n].movement <=> i = sales[n].reversal
    <3>1. CASE i \in DOMAIN movements
      BY <1>3, <2>1, <3>1 DEF SaleAtDesk
    <3>2. CASE i \notin DOMAIN movements
      BY <1>1, <2>1, <2>2, <3>2 DEF SaleAtDesk
    <3> QED
      BY <3>1, <3>2
  <2> QED
    BY <1>3, <2>1, <2>3 DEF SaleAtDesk
<1>5. \A i \in DOMAIN movements' :
         movements'[i].origin = "sale" /\ movements'[i].reversalOf = 0 =>
             \E n \in DOMAIN sales : sales[n].movement = i
  BY <1>1, <1>3 DEF DeskOK
<1> QED
  BY <1>1, <1>4, <1>5 DEF DeskOK

(* A step that leaves movements, requests and sales alone keeps DeskOK. *)
LEMMA DeskOKStays ==
    ASSUME DeskOK, movements' = movements, requests' = requests, sales' = sales
    PROVE  DeskOK'
<1>2. SalesAreSpared'
  BY DEF DeskOK, SalesAreSpared
<1>3. ASSUME NEW n \in DOMAIN sales PROVE SaleAtDesk(n)'
  BY DEF DeskOK, SaleAtDesk
<1> QED
  BY <1>2, <1>3 DEF DeskOK

\* A sale and its income are added together.
LEMMA DeskOKInSell ==
    ASSUME IInv, RowsOK, DeskOK, NEW s \in DOMAIN sessions, NEW me \in Methods,
           NEW total \in Amounts, NEW items, SellProducts(s, me, total),
           sales' = Append(sales, [movement |-> Len(movements) + 1, items |-> items,
                                   total |-> total, reversal |-> 0])
    PROVE  DeskOK'
<1> DEFINE new == NewMovement(s, "INCOME", total, me, NoMember, "sale")
           k == Len(movements) + 1
           n == Len(sales) + 1
           row == [movement |-> k, items |-> items, total |-> total, reversal |-> 0]
<1>1. /\ TypeOK /\ RequestsOK /\ MovementsOK
      /\ movements \in Seq(Movement) /\ Len(movements) \in Nat
      /\ DOMAIN movements = 1..Len(movements)
      /\ Len(sales) \in Nat /\ DOMAIN sales = 1..Len(sales)
  BY DEF IInv, TypeOK, RowsOK
<1>2. /\ movements' = Append(movements, new) /\ requests' = requests
      /\ new.origin = "sale" /\ new.type = "INCOME" /\ new.amount = total /\ new.reversalOf = 0
  BY DEF SellProducts, NewMovement
<1>3. /\ DOMAIN movements' = DOMAIN movements \cup {k} /\ k \notin DOMAIN movements /\ k \in Nat \ {0}
      /\ movements'[k] = new /\ \A i \in DOMAIN movements : movements'[i] = movements[i]
  <2> HIDE DEF new
  <2> QED
    BY <1>1, <1>2
<1>4. /\ DOMAIN sales' = DOMAIN sales \cup {n} /\ n \notin DOMAIN sales
      /\ sales'[n] = row /\ \A m \in DOMAIN sales : sales'[m] = sales[m]
  <2> HIDE DEF k, row
  <2>1. sales' = Append(sales, row)
    BY DEF row, k
  <2> QED
    BY <1>1, <2>1
<1>5. row.movement = k /\ row.total = total /\ row.reversal = 0
  OBVIOUS
<1>6. \A i \in DOMAIN movements : movements[i].reversalOf # k /\ i # 0
  BY <1>1 DEF MovementsOK, Movement
<1> HIDE DEF new, row, k, n
<1>7. SalesAreSpared'
  BY <1>1, <1>2, <1>3 DEF SalesAreSpared, DeskOK, RequestsOK
<1>8. \A m \in DOMAIN sales' : SaleAtDesk(m)'
  <2>1. ASSUME NEW m \in DOMAIN sales', m = n PROVE SaleAtDesk(m)'
    <3>1. sales'[m].movement = k /\ sales'[m].total = total /\ sales'[m].reversal = 0
      BY <1>4, <1>5, <2>1
    <3>2. \A i \in DOMAIN movements' : movements'[i].reversalOf # k /\ i # 0
      BY <1>2, <1>3, <1>6
    <3>3. k \in DOMAIN movements' /\ movements'[k].origin = "sale" /\ movements'[k].type = "INCOME"
          /\ movements'[k].amount = total /\ movements'[k].reversalOf = 0
      BY <1>2, <1>3
    <3> QED
      BY <3>1, <3>2, <3>3 DEF SaleAtDesk
  <2>2. ASSUME NEW m \in DOMAIN sales PROVE SaleAtDesk(m)'
    <3>1. SaleAtDesk(m) /\ sales'[m] = sales[m]
      BY <1>4 DEF DeskOK
    <3>2. sales[m].movement # 0 /\ sales[m].reversal # k
      BY <1>3, <1>6, <3>1 DEF SaleAtDesk
    <3>3. \A i \in DOMAIN movements' :
             movements'[i].reversalOf = sales[m].movement <=> i = sales[m].reversal
      BY <1>2, <1>3, <3>1, <3>2 DEF SaleAtDesk
    <3>4. sales[m].movement \in DOMAIN movements /\ movements'[sales[m].movement] = movements[sales[m].movement]
      BY <1>3, <3>1 DEF SaleAtDesk
    <3> QED
      <4>1. sales[m].reversal \in DOMAIN movements' \cup {0} /\ sales[m].movement \in DOMAIN movements'
        BY <1>3, <3>1 DEF SaleAtDesk
      <4> QED
        <5>1. PICK i, j : i = sales[m].movement /\ j = sales[m].reversal
          OBVIOUS
        <5>2. /\ sales'[m].movement = i /\ sales'[m].reversal = j /\ sales'[m].total = sales[m].total
              /\ movements'[i] = movements[i] /\ i \in DOMAIN movements'
              /\ j \in DOMAIN movements' \cup {0}
          BY <3>1, <3>4, <4>1, <5>1, Zenon
        <5>3. /\ movements[i].origin = "sale" /\ movements[i].type = "INCOME"
              /\ movements[i].amount = sales[m].total /\ movements[i].reversalOf = 0
          BY <3>1, <5>1, Zenon DEF SaleAtDesk
        <5>4. \A x \in DOMAIN movements' : movements'[x].reversalOf = i <=> x = j
          BY <3>3, <5>1, Zenon
        <5> QED
          BY <5>2, <5>3, <5>4, Zenon DEF SaleAtDesk
  <2> QED
    BY <1>4, <2>1, <2>2
<1>9. \A m, x \in DOMAIN sales' : sales'[m].movement = sales'[x].movement => m = x
  <2>1. \A m \in DOMAIN sales : sales'[m].movement # k
    BY <1>3, <1>4 DEF DeskOK, SaleAtDesk
  <2>2. \A m, x \in DOMAIN sales : sales'[m].movement = sales'[x].movement => m = x
    BY <1>4 DEF DeskOK
  <2> QED
    BY <1>4, <1>5, <2>1, <2>2
<1>10. \A i \in DOMAIN movements' :
          movements'[i].origin = "sale" /\ movements'[i].reversalOf = 0 =>
              \E m \in DOMAIN sales' : sales'[m].movement = i
  BY <1>3, <1>4, <1>5 DEF DeskOK
<1> QED
  BY <1>7, <1>8, <1>9, <1>10 DEF DeskOK

\* A sale gets its reversal with the movement that undoes its income.
LEMMA DeskOKInReverse ==
    ASSUME IInv, RowsOK, DeskOK, NEW n \in DOMAIN sales, sales[n].reversal = 0,
           ReverseSale(sales[n].movement),
           DOMAIN sales' = DOMAIN sales,
           sales'[n] = [sales[n] EXCEPT !.reversal = Len(movements) + 1],
           \A m \in DOMAIN sales \ {n} : sales'[m] = sales[m]
    PROVE  DeskOK'
<1> DEFINE k == Len(movements) + 1
<1> PICK j : j = sales[n].movement
  OBVIOUS
<1>1. /\ TypeOK /\ RequestsOK /\ MovementsOK
      /\ Len(movements) \in Nat /\ DOMAIN movements = 1..Len(movements)
      /\ sales[n] \in Sale
  BY DEF IInv, TypeOK, RowsOK
<1>2. UndoesMovement(j, "sale") /\ requests' = requests
  BY DEF ReverseSale, UndoesMovement, Origins
<1>3. /\ DOMAIN movements' = DOMAIN movements \cup {k} /\ k \notin DOMAIN movements /\ k \in Nat \ {0}
      /\ movements'[k] = ReversalOf(j, "sale")
      /\ movements'[j] = [movements[j] EXCEPT !.isReversed = TRUE]
      /\ \A i \in DOMAIN movements \ {j} : movements'[i] = movements[i]
  <2>1. /\ DOMAIN movements' = 1..(Len(movements) + 1)
        /\ movements'[Len(movements) + 1] = ReversalOf(j, "sale")
        /\ movements'[j] = [movements[j] EXCEPT !.isReversed = TRUE]
        /\ \A i \in DOMAIN movements \ {j} : movements'[i] = movements[i]
    BY <1>1, <1>2, UndoneFacts
  <2> QED
    BY <1>1, <2>1
<1>4. j \in DOMAIN movements /\ ReversalOf(j, "sale").reversalOf = j /\ j # 0
  <2>1. j \in DOMAIN movements
    BY <1>2 DEF UndoesMovement
  <2>2. ReversalOf(j, "sale").reversalOf = j
    BY <1>1, <2>1, ReversalType DEF Origins
  <2> QED
    BY <1>1, <2>1, <2>2
<1>5. \A i \in DOMAIN movements :
         /\ movements'[i].origin = movements[i].origin
         /\ movements'[i].type = movements[i].type
         /\ movements'[i].amount = movements[i].amount
         /\ movements'[i].reversalOf = movements[i].reversalOf
  <2>1. movements[j] \in Movement
    BY <1>1, <1>4 DEF TypeOK
  <2>2. /\ movements'[j].origin = movements[j].origin
        /\ movements'[j].type = movements[j].type
        /\ movements'[j].amount = movements[j].amount
        /\ movements'[j].reversalOf = movements[j].reversalOf
    BY <1>3, <2>1 DEF Movement
  <2> QED
    BY <1>3, <2>2
<1>6. /\ sales'[n].movement = j /\ sales[n].movement = j /\ sales'[n].total = sales[n].total /\ sales'[n].reversal = k
  BY <1>1 DEF Sale
<1> HIDE DEF k
<1>7. \A m \in DOMAIN sales : sales'[m].movement = sales[m].movement
  BY <1>6
<1>8. SalesAreSpared'
  BY <1>1, <1>2, <1>5 DEF SalesAreSpared, DeskOK, RequestsOK
<1>9. \A m \in DOMAIN sales : SaleAtDesk(m)'
  <2>1. SaleAtDesk(n)'
    <3>1. SaleAtDesk(n)
      BY DEF DeskOK
    <3>2. \A i \in DOMAIN movements : movements[i].reversalOf # j
      BY <1>1, <1>6, <3>1 DEF SaleAtDesk
    <3> QED
      BY <1>3, <1>4, <1>5, <1>6, <3>1, <3>2 DEF SaleAtDesk
  <2>2. ASSUME NEW m \in DOMAIN sales \ {n} PROVE SaleAtDesk(m)'
    <3>1. SaleAtDesk(m) /\ sales'[m] = sales[m] /\ sales[m].movement # j
      BY <1>6 DEF DeskOK
    <3> QED
      BY <1>3, <1>4, <1>5, <3>1 DEF SaleAtDesk
  <2> QED
    BY <2>1, <2>2
<1>10. \A i \in DOMAIN movements' :
          movements'[i].origin = "sale" /\ movements'[i].reversalOf = 0 =>
              \E m \in DOMAIN sales : sales'[m].movement = i
  BY <1>3, <1>4, <1>5, <1>7 DEF DeskOK
<1>11. \A m, x \in DOMAIN sales : sales'[m].movement = sales'[x].movement => m = x
  BY <1>7 DEF DeskOK
<1> QED
  BY <1>8, <1>9, <1>10, <1>11 DEF DeskOK

-----------------------------------------------------------------------------
(* The units of a sale.                                                    *)

\* MovesOfSale, of any version of the table.
Made(m, n, p, type) == {i \in DOMAIN m[p] : m[p][i].sale = n /\ m[p][i].type = type}

\* The units of sale n of product p left once, and came back once if ever.
SaleUnits(n, p) ==
    /\ p \in DOMAIN sales[n].items => \E i : Made(moves, n, p, "SALE") = {i}
    /\ p \notin DOMAIN sales[n].items => Made(moves, n, p, "SALE") = {}
    /\ p \in DOMAIN sales[n].items /\ sales[n].reversal # 0 =>
          \E i : /\ Made(moves, n, p, "REVERSAL") = {i}
                 /\ moves[p][i].quantity = sales[n].items[p]
    /\ p \notin DOMAIN sales[n].items \/ sales[n].reversal = 0 =>
          Made(moves, n, p, "REVERSAL") = {}

MovesOK ==
    \A p \in Products :
        /\ \A i \in DOMAIN moves[p] : moves[p][i].sale <= Len(sales)
        /\ \A n \in DOMAIN sales : SaleUnits(n, p)

\* One operation adds at most one movement to a product, and changes none.
LEMMA MadeStep ==
    ASSUME NEW delta, NEW type, NEW sale, Moved(delta, type, sale),
           NEW n, NEW p \in Products, NEW t
    PROVE  /\ p \in DOMAIN delta /\ n = sale /\ t = type =>
                 \E i : /\ i \notin Made(moves, n, p, t)
                        /\ Made(moves', n, p, t) = Made(moves, n, p, t) \cup {i}
                        /\ moves'[p][i].quantity = delta[p]
           /\ p \notin DOMAIN delta \/ n # sale \/ t # type =>
                 Made(moves', n, p, t) = Made(moves, n, p, t)
           /\ \A i \in Made(moves, n, p, t) : moves'[p][i] = moves[p][i]
<1>1. CASE p \notin DOMAIN delta
  BY <1>1 DEF Moved, Made
<1>2. CASE p \in DOMAIN delta
  <2> PICK k : k = Len(moves[p]) + 1
    OBVIOUS
  <2>1. /\ k \notin DOMAIN moves[p]
        /\ DOMAIN moves'[p] = DOMAIN moves[p] \cup {k}
        /\ \A i \in DOMAIN moves[p] : moves'[p][i] = moves[p][i]
        /\ moves'[p][k].type = type /\ moves'[p][k].sale = sale /\ moves'[p][k].quantity = delta[p]
    BY <1>2 DEF Moved
  <2>2. k \notin Made(moves, n, p, t)
    BY <2>1 DEF Made
  <2>3. n = sale /\ t = type => Made(moves', n, p, t) = Made(moves, n, p, t) \cup {k}
    BY <2>1 DEF Made
  <2>4. n # sale \/ t # type => Made(moves', n, p, t) = Made(moves, n, p, t)
    BY <2>1 DEF Made
  <2>5. \A i \in Made(moves, n, p, t) : moves'[p][i] = moves[p][i]
    BY <2>1 DEF Made
  <2> QED
    BY <1>2, <2>1, <2>2, <2>3, <2>4, <2>5
<1> QED
  BY <1>1, <1>2

\* The two cases of it, apart.
LEMMA MadeStay ==
    ASSUME NEW delta, NEW type, NEW sale, Moved(delta, type, sale),
           NEW n, NEW p \in Products, NEW t,
           p \notin DOMAIN delta \/ n # sale \/ t # type
    PROVE  /\ Made(moves', n, p, t) = Made(moves, n, p, t)
           /\ \A i \in Made(moves, n, p, t) : moves'[p][i] = moves[p][i]
<1>1. Made(moves', n, p, t) = Made(moves, n, p, t)
  BY MadeStep
<1>2. \A i \in Made(moves, n, p, t) : moves'[p][i] = moves[p][i]
  BY MadeStep
<1> QED
  BY <1>1, <1>2

(* A step that makes stock movements for a sale adds one per product, of the quantity asked. *)
LEMMA MadeGrow ==
    ASSUME NEW delta, NEW type, NEW sale, Moved(delta, type, sale),
           NEW p \in Products, p \in DOMAIN delta
    PROVE  \E i : /\ i \notin Made(moves, sale, p, type)
                  /\ Made(moves', sale, p, type) = Made(moves, sale, p, type) \cup {i}
                  /\ moves'[p][i].quantity = delta[p]
BY MadeStep

\* A step leaves the units of a sale alone if it makes no movement for it.
LEMMA SaleUnitsKeep ==
    ASSUME NEW n, NEW p \in Products, SaleUnits(n, p),
           NEW delta, NEW type, NEW sale, Moved(delta, type, sale), sale # n,
           sales'[n] = sales[n]
    PROVE  SaleUnits(n, p)'
<1>1. /\ Made(moves', n, p, "SALE") = Made(moves, n, p, "SALE")
      /\ Made(moves', n, p, "REVERSAL") = Made(moves, n, p, "REVERSAL")
      /\ \A i \in Made(moves, n, p, "REVERSAL") : moves'[p][i] = moves[p][i]
  BY MadeStay
<1> QED
  BY <1>1, Zenon DEF SaleUnits

\* The movements of a product are of sales that exist.
LEMMA SaleNumbers ==
    ASSUME RowsOK, MovesOK, NEW delta, NEW type, NEW sale, Moved(delta, type, sale),
           sale <= Len(sales'), Len(sales) <= Len(sales'), Len(sales') \in Nat,
           NEW p \in Products, NEW i \in DOMAIN moves'[p]
    PROVE  moves'[p][i].sale <= Len(sales')
<1>1. CASE i \in DOMAIN moves[p]
  <2>1. moves[p][i] \in Move
    BY <1>1 DEF RowsOK
  <2>2. moves[p][i].sale \in Nat /\ moves[p][i].sale <= Len(sales) /\ Len(sales) \in Nat
    BY <1>1, <2>1 DEF MovesOK, RowsOK, Move
  <2>3. moves'[p][i] = moves[p][i]
    BY <1>1 DEF Moved
  <2> QED
    BY <2>2, <2>3
<1>2. CASE i \notin DOMAIN moves[p]
  BY <1>2 DEF Moved
<1> QED
  BY <1>1, <1>2

(* A step that adds no stock movement keeps MovesOK. *)
LEMMA MovesOKStays ==
    ASSUME MovesOK, moves' = moves, sales' = sales
    PROVE  MovesOK'
<1>1. ASSUME NEW p \in Products, NEW n \in DOMAIN sales PROVE SaleUnits(n, p)'
  <2>1. SaleUnits(n, p)
    BY DEF MovesOK
  <2> QED
    BY <2>1, Zenon DEF SaleUnits
<1> QED
  BY <1>1 DEF MovesOK

(* An adjustment keeps MovesOK. *)
LEMMA MovesOKInAdjust ==
    ASSUME RowsOK, MovesOK, NEW delta, Moved(delta, "STOCK", 0), sales' = sales
    PROVE  MovesOK'
<1>1. Len(sales) \in Nat /\ DOMAIN sales = 1..Len(sales)
  BY DEF RowsOK
<1>2. \A p \in Products : \A i \in DOMAIN moves'[p] : moves'[p][i].sale <= Len(sales')
  BY <1>1, SaleNumbers
<1>3. ASSUME NEW p \in Products, NEW n \in DOMAIN sales PROVE SaleUnits(n, p)'
  BY <1>1, SaleUnitsKeep DEF MovesOK
<1> QED
  BY <1>2, <1>3 DEF MovesOK

(* A sale keeps MovesOK. *)
LEMMA MovesOKInSell ==
    ASSUME RowsOK, MovesOK, NEW items, NEW k, k = Len(sales) + 1,
           Moved([p \in DOMAIN items |-> -items[p]], "SALE", k),
           DOMAIN sales' = 1..k, Len(sales') = k,
           sales'[k].items = items, sales'[k].reversal = 0,
           \A n \in DOMAIN sales : sales'[n] = sales[n]
    PROVE  MovesOK'
<1> PICK delta : delta = [p \in DOMAIN items |-> -items[p]]
  OBVIOUS
<1>1. Len(sales) \in Nat /\ DOMAIN sales = 1..Len(sales) /\ k \in Nat
  BY DEF RowsOK
<1>2. Moved(delta, "SALE", k) /\ DOMAIN delta = DOMAIN items
  OBVIOUS
<1>3. \A p \in Products : \A i \in DOMAIN moves'[p] : moves'[p][i].sale <= Len(sales')
  BY <1>1, <1>2, SaleNumbers
<1>4. ASSUME NEW p \in Products, NEW n \in DOMAIN sales PROVE SaleUnits(n, p)'
  BY <1>1, <1>2, <1>4, SaleUnitsKeep DEF MovesOK
<1>5. ASSUME NEW p \in Products PROVE SaleUnits(k, p)'
  <2>1. \A t : Made(moves, k, p, t) = {}
    <3> SUFFICES ASSUME NEW i \in DOMAIN moves[p] PROVE moves[p][i].sale # k
      BY DEF Made
    <3>1. moves[p][i] \in Move
      BY DEF RowsOK
    <3> QED
      BY <1>1, <3>1 DEF MovesOK, Move
  <2>2. p \in DOMAIN items => \E i : Made(moves', k, p, "SALE") = Made(moves, k, p, "SALE") \cup {i}
    <3> SUFFICES ASSUME p \in DOMAIN items
                 PROVE  \E i : Made(moves', k, p, "SALE") = Made(moves, k, p, "SALE") \cup {i}
      OBVIOUS
    <3>1. p \in DOMAIN delta /\ Moved(delta, "SALE", k)
      BY <1>2
    <3>2. \E i : /\ i \notin Made(moves, k, p, "SALE")
                  /\ Made(moves', k, p, "SALE") = Made(moves, k, p, "SALE") \cup {i}
                  /\ moves'[p][i].quantity = delta[p]
      BY <3>1, MadeGrow
    <3> QED
      BY <3>2
  <2>3. /\ p \notin DOMAIN items => Made(moves', k, p, "SALE") = Made(moves, k, p, "SALE")
        /\ Made(moves', k, p, "REVERSAL") = Made(moves, k, p, "REVERSAL")
    <3>1. Moved(delta, "SALE", k) /\ "REVERSAL" # "SALE" /\ (p \notin DOMAIN items => p \notin DOMAIN delta)
      BY <1>2
    <3>2. Made(moves', k, p, "REVERSAL") = Made(moves, k, p, "REVERSAL")
      BY <3>1, MadeStay
    <3>3. p \notin DOMAIN items => Made(moves', k, p, "SALE") = Made(moves, k, p, "SALE")
      BY <3>1, MadeStay
    <3> QED
      BY <3>2, <3>3
  <2>4. \A i : {} \cup {i} = {i}
    OBVIOUS
  <2>5. /\ p \in DOMAIN items => \E i : Made(moves', k, p, "SALE") = {i}
        /\ p \notin DOMAIN items => Made(moves', k, p, "SALE") = {}
        /\ Made(moves', k, p, "REVERSAL") = {}
    BY <2>1, <2>2, <2>3, <2>4
  <2> QED
    BY <2>5, Zenon DEF SaleUnits
<1>6. \A n \in DOMAIN sales' : n \in DOMAIN sales \/ n = k
  BY <1>1
<1> QED
  BY <1>3, <1>4, <1>5, <1>6 DEF MovesOK

(* A reversal of a sale keeps MovesOK. *)
LEMMA MovesOKInReverse ==
    ASSUME RowsOK, MovesOK, NEW n \in DOMAIN sales, sales[n].reversal = 0,
           NEW items, items = sales[n].items, Moved(items, "REVERSAL", n),
           DOMAIN sales' = DOMAIN sales, Len(sales') = Len(sales),
           sales'[n].items = items, sales'[n].reversal # 0,
           \A m \in DOMAIN sales \ {n} : sales'[m] = sales[m]
    PROVE  MovesOK'
<1>1. Len(sales) \in Nat /\ DOMAIN sales = 1..Len(sales)
  BY DEF RowsOK
<1>2. \A p \in Products : \A i \in DOMAIN moves'[p] : moves'[p][i].sale <= Len(sales')
  BY <1>1, SaleNumbers
<1>3. ASSUME NEW p \in Products, NEW m \in DOMAIN sales \ {n} PROVE SaleUnits(m, p)'
  BY <1>1, <1>3, SaleUnitsKeep DEF MovesOK
<1>4. ASSUME NEW p \in Products PROVE SaleUnits(n, p)'
  <2>1. /\ p \in DOMAIN items => \E i : Made(moves, n, p, "SALE") = {i}
        /\ p \notin DOMAIN items => Made(moves, n, p, "SALE") = {}
        /\ Made(moves, n, p, "REVERSAL") = {}
    BY Zenon DEF MovesOK, SaleUnits
  <2>2. /\ p \in DOMAIN items =>
              \E i : /\ Made(moves', n, p, "REVERSAL") = Made(moves, n, p, "REVERSAL") \cup {i}
                     /\ moves'[p][i].quantity = items[p]
        /\ p \notin DOMAIN items =>
              Made(moves', n, p, "REVERSAL") = Made(moves, n, p, "REVERSAL")
    BY MadeStep
  <2>3. Made(moves', n, p, "SALE") = Made(moves, n, p, "SALE")
    BY MadeStep
  <2>4. \A i : {} \cup {i} = {i}
    OBVIOUS
  <2>5. p \in DOMAIN items => \E i : /\ Made(moves', n, p, "REVERSAL") = {i}
                                     /\ moves'[p][i].quantity = items[p]
    BY <2>1, <2>2, <2>4
  <2> QED
    BY <2>1, <2>2, <2>3, <2>5, Zenon DEF SaleUnits
<1> QED
  BY <1>2, <1>3, <1>4 DEF MovesOK

-----------------------------------------------------------------------------
(* Keys.                                                                   *)

\* The keys of the operations of a kind, of the adjustments of a product.
KeysOf(ops, op) == {k \in Keys : ops[k] # None /\ ops[k].body.op = op}
AdjustsOf(ops, p) == {k \in KeysOf(ops, "adjust") : ops[k].body.product = p}
ReversedOf(rows) == {n \in DOMAIN rows : rows[n].reversal # 0}

KeysOK ==
    /\ \A n \in DOMAIN sales :
          /\ \E k \in KeysOf(operations, "sell") :
                operations[k].result = n /\ operations[k].body.items = sales[n].items
          /\ sales[n].reversal # 0 =>
                \E k \in KeysOf(operations, "reverse") : operations[k].result = n
    /\ IsFiniteSet(KeysOf(operations, "sell"))
    /\ Cardinality(KeysOf(operations, "sell")) = Len(sales)
    /\ IsFiniteSet(KeysOf(operations, "reverse")) /\ IsFiniteSet(ReversedOf(sales))
    /\ Cardinality(KeysOf(operations, "reverse")) = Cardinality(ReversedOf(sales))
    /\ \A p \in Products :
          /\ IsFiniteSet(AdjustsOf(operations, p)) /\ IsFiniteSet(Made(moves, 0, p, "STOCK"))
          /\ Cardinality(AdjustsOf(operations, p)) = Cardinality(Made(moves, 0, p, "STOCK"))

(* The cardinality of a finite set with one new member. *)
LEMMA OneMore ==
    ASSUME NEW S, NEW T, NEW x, IsFiniteSet(S), x \notin S, T = S \cup {x}
    PROVE  IsFiniteSet(T) /\ Cardinality(T) = Cardinality(S) + 1
BY FS_AddElement

\* The key of an operation that commits is new among those of its kind.
LEMMA KeyStep ==
    ASSUME RowsOK, CallsOK, NEW c \in Calls, NEW op, NEW result \in Nat, Commits(c, op, result)
    PROVE  \E k \in Keys :
              /\ k \notin KeysOf(operations, op)
              /\ KeysOf(operations', op) = KeysOf(operations, op) \cup {k}
              /\ \A o : o # op => KeysOf(operations', o) = KeysOf(operations, o)
              /\ operations'[k] = [body |-> calls[c].body, result |-> result]
              /\ \A o : \A x \in KeysOf(operations, o) : operations'[x] = operations[x]
<1> PICK k : k = calls[c].key
  OBVIOUS
<1>1. /\ k \in Keys /\ calls[c].body.op = op /\ operations[k] = None
      /\ operations'[k] = [body |-> calls[c].body, result |-> result]
      /\ operations'[k] # None
      /\ \A x \in Keys \ {k} : operations'[x] = operations[x]
  <2>1. /\ CallOK(c) /\ calls[c].body.op = op
        /\ operations[calls[c].key] = None
        /\ operations'[calls[c].key] = [body |-> calls[c].body, result |-> result]
        /\ operations'[calls[c].key] # None
        /\ \A x \in Keys \ {calls[c].key} : operations'[x] = operations[x]
    BY CommitFacts
  <2>2. calls[c].key \in Keys
    BY <2>1 DEF CallOK
  <2> QED
    BY <2>1, <2>2
<1>2. operations'[k].body.op = op
  BY <1>1
<1>3. k \notin KeysOf(operations, op)
  BY <1>1 DEF KeysOf
<1>4. KeysOf(operations', op) = KeysOf(operations, op) \cup {k}
  BY <1>1, <1>2 DEF KeysOf
<1>5. \A o : o # op => KeysOf(operations', o) = KeysOf(operations, o)
  BY <1>1, <1>2 DEF KeysOf
<1>6. \A o : \A x \in KeysOf(operations, o) : operations'[x] = operations[x]
  BY <1>1 DEF KeysOf
<1> QED
  BY <1>1, <1>3, <1>4, <1>5, <1>6

\* An adjustment has a key and a movement of its own.
LEMMA KeysOKInAdjust ==
    ASSUME RowsOK, CallsOK, KeysOK, NEW c \in Calls, Commits(c, "adjust", 0), sales' = sales,
           NEW product \in Products, product = calls[c].body.product,
           NEW delta, DOMAIN delta = {product}, Moved(delta, "STOCK", 0)
    PROVE  KeysOK'
<1>1. PICK k \in Keys :
              /\ k \notin KeysOf(operations, "adjust")
              /\ KeysOf(operations', "adjust") = KeysOf(operations, "adjust") \cup {k}
              /\ \A o : o # "adjust" => KeysOf(operations', o) = KeysOf(operations, o)
              /\ operations'[k] = [body |-> calls[c].body, result |-> 0]
              /\ \A o : \A x \in KeysOf(operations, o) : operations'[x] = operations[x]
  BY KeyStep
<1>2. operations'[k].body.product = product
  BY <1>1
<1>3. ASSUME NEW p \in Products
      PROVE  /\ IsFiniteSet(AdjustsOf(operations', p)) /\ IsFiniteSet(Made(moves', 0, p, "STOCK"))
             /\ Cardinality(AdjustsOf(operations', p)) = Cardinality(Made(moves', 0, p, "STOCK"))
  <2>1. /\ IsFiniteSet(AdjustsOf(operations, p)) /\ IsFiniteSet(Made(moves, 0, p, "STOCK"))
        /\ Cardinality(AdjustsOf(operations, p)) = Cardinality(Made(moves, 0, p, "STOCK"))
    BY DEF KeysOK
  <2>2. CASE p = product
    <3>1. AdjustsOf(operations', p) = AdjustsOf(operations, p) \cup {k}
          /\ k \notin AdjustsOf(operations, p)
      BY <1>1, <1>2, <2>2 DEF AdjustsOf
    <3>2. \E i : /\ i \notin Made(moves, 0, p, "STOCK")
                 /\ Made(moves', 0, p, "STOCK") = Made(moves, 0, p, "STOCK") \cup {i}
                 /\ moves'[p][i].quantity = delta[p]
      BY <2>2, MadeGrow
    <3>3. /\ IsFiniteSet(AdjustsOf(operations', p))
          /\ Cardinality(AdjustsOf(operations', p)) = Cardinality(AdjustsOf(operations, p)) + 1
      BY <2>1, <3>1, OneMore
    <3>4. /\ IsFiniteSet(Made(moves', 0, p, "STOCK"))
          /\ Cardinality(Made(moves', 0, p, "STOCK")) = Cardinality(Made(moves, 0, p, "STOCK")) + 1
      BY <2>1, <3>2, OneMore
    <3> QED
      BY <2>1, <3>3, <3>4
  <2>3. CASE p # product
    <3>1. AdjustsOf(operations', p) = AdjustsOf(operations, p)
      BY <1>1, <1>2, <2>3 DEF AdjustsOf
    <3>2. Made(moves', 0, p, "STOCK") = Made(moves, 0, p, "STOCK")
      BY <2>3, MadeStay
    <3> QED
      BY <2>1, <3>1, <3>2
  <2> QED
    BY <2>2, <2>3
<1>4. /\ KeysOf(operations', "sell") = KeysOf(operations, "sell")
      /\ KeysOf(operations', "reverse") = KeysOf(operations, "reverse")
  BY <1>1
<1>5. \A n \in DOMAIN sales :
          /\ \E x \in KeysOf(operations', "sell") :
                operations'[x].result = n /\ operations'[x].body.items = sales[n].items
          /\ sales[n].reversal # 0 =>
                \E x \in KeysOf(operations', "reverse") : operations'[x].result = n
  BY <1>1, <1>4 DEF KeysOK
<1> QED
  BY <1>3, <1>4, <1>5 DEF KeysOK

\* The movements of the stock that belong to no sale are those of adjustments.
LEMMA AdjustmentsStay ==
    ASSUME KeysOK, NEW delta, NEW type, NEW sale, Moved(delta, type, sale), type # "STOCK",
           KeysOf(operations', "adjust") = KeysOf(operations, "adjust"),
           \A x \in KeysOf(operations, "adjust") : operations'[x] = operations[x],
           NEW p \in Products
    PROVE  /\ IsFiniteSet(AdjustsOf(operations', p)) /\ IsFiniteSet(Made(moves', 0, p, "STOCK"))
           /\ Cardinality(AdjustsOf(operations', p)) = Cardinality(Made(moves', 0, p, "STOCK"))
<1>1. AdjustsOf(operations', p) = AdjustsOf(operations, p)
  BY DEF AdjustsOf
<1>2. Made(moves', 0, p, "STOCK") = Made(moves, 0, p, "STOCK")
  BY MadeStay
<1> QED
  BY <1>1, <1>2 DEF KeysOK

\* A sale has a key of its own.
LEMMA KeysOKInSell ==
    ASSUME RowsOK, CallsOK, KeysOK, NEW c \in Calls,
           NEW n, n = Len(sales) + 1, Commits(c, "sell", n),
           NEW delta, Moved(delta, "SALE", n),
           DOMAIN sales' = 1..n, Len(sales') = n,
           sales'[n].items = calls[c].body.items, sales'[n].reversal = 0,
           \A m \in DOMAIN sales : sales'[m] = sales[m]
    PROVE  KeysOK'
<1>1. Len(sales) \in Nat /\ DOMAIN sales = 1..Len(sales) /\ n \in Nat
  BY DEF RowsOK
<1>2. PICK k \in Keys :
              /\ k \notin KeysOf(operations, "sell")
              /\ KeysOf(operations', "sell") = KeysOf(operations, "sell") \cup {k}
              /\ \A o : o # "sell" => KeysOf(operations', o) = KeysOf(operations, o)
              /\ operations'[k] = [body |-> calls[c].body, result |-> n]
              /\ \A o : \A x \in KeysOf(operations, o) : operations'[x] = operations[x]
  BY <1>1, KeyStep
<1>3. /\ KeysOf(operations', "adjust") = KeysOf(operations, "adjust")
      /\ KeysOf(operations', "reverse") = KeysOf(operations, "reverse")
      /\ \A x \in KeysOf(operations, "adjust") : operations'[x] = operations[x]
  BY <1>2
<1>4. \A p \in Products :
         /\ IsFiniteSet(AdjustsOf(operations', p)) /\ IsFiniteSet(Made(moves', 0, p, "STOCK"))
         /\ Cardinality(AdjustsOf(operations', p)) = Cardinality(Made(moves', 0, p, "STOCK"))
  BY <1>3, AdjustmentsStay
<1>5. /\ IsFiniteSet(KeysOf(operations', "sell"))
      /\ Cardinality(KeysOf(operations', "sell")) = Len(sales')
  <2>1. /\ IsFiniteSet(KeysOf(operations', "sell"))
        /\ Cardinality(KeysOf(operations', "sell")) = Cardinality(KeysOf(operations, "sell")) + 1
    BY <1>2, OneMore DEF KeysOK
  <2> QED
    BY <2>1 DEF KeysOK
<1>6. ReversedOf(sales') = ReversedOf(sales)
  BY <1>1 DEF ReversedOf
<1>7. ASSUME NEW m \in DOMAIN sales'
      PROVE  /\ \E x \in KeysOf(operations', "sell") :
                   operations'[x].result = m /\ operations'[x].body.items = sales'[m].items
             /\ sales'[m].reversal # 0 =>
                   \E x \in KeysOf(operations', "reverse") : operations'[x].result = m
  <2>1. CASE m = n
    <3>1. operations'[k].result = n /\ operations'[k].body.items = sales'[n].items
      BY <1>2
    <3> QED
      BY <1>2, <2>1, <3>1
  <2>2. CASE m \in DOMAIN sales
    <3>1. PICK x \in KeysOf(operations, "sell") :
             operations[x].result = m /\ operations[x].body.items = sales[m].items
      BY <2>2 DEF KeysOK
    <3>2. operations'[x] = operations[x] /\ x \in KeysOf(operations', "sell")
      BY <1>2
    <3>3. sales[m].reversal # 0 => \E y \in KeysOf(operations, "reverse") : operations[y].result = m
      BY <2>2 DEF KeysOK
    <3>4. sales[m].reversal # 0 => \E y \in KeysOf(operations', "reverse") : operations'[y].result = m
      BY <1>2, <1>3, <3>3
    <3> QED
      BY <2>2, <3>1, <3>2, <3>4
  <2> QED
    BY <1>1, <2>1, <2>2
<1> QED
  BY <1>3, <1>4, <1>5, <1>6, <1>7 DEF KeysOK

\* So has its reversal.
LEMMA KeysOKInReverse ==
    ASSUME RowsOK, CallsOK, KeysOK, NEW c \in Calls,
           NEW n \in DOMAIN sales, Commits(c, "reverse", n), sales[n].reversal = 0,
           NEW delta, Moved(delta, "REVERSAL", n),
           DOMAIN sales' = DOMAIN sales, Len(sales') = Len(sales),
           sales'[n].items = sales[n].items, sales'[n].reversal # 0,
           \A m \in DOMAIN sales \ {n} : sales'[m] = sales[m]
    PROVE  KeysOK'
<1>1. n \in Nat
  BY DEF RowsOK
<1>2. PICK k \in Keys :
              /\ k \notin KeysOf(operations, "reverse")
              /\ KeysOf(operations', "reverse") = KeysOf(operations, "reverse") \cup {k}
              /\ \A o : o # "reverse" => KeysOf(operations', o) = KeysOf(operations, o)
              /\ operations'[k] = [body |-> calls[c].body, result |-> n]
              /\ \A o : \A x \in KeysOf(operations, o) : operations'[x] = operations[x]
  BY <1>1, KeyStep
<1>3. /\ KeysOf(operations', "adjust") = KeysOf(operations, "adjust")
      /\ KeysOf(operations', "sell") = KeysOf(operations, "sell")
      /\ \A x \in KeysOf(operations, "adjust") : operations'[x] = operations[x]
      /\ \A x \in KeysOf(operations, "sell") : operations'[x] = operations[x]
  BY <1>2
<1>4. \A p \in Products :
         /\ IsFiniteSet(AdjustsOf(operations', p)) /\ IsFiniteSet(Made(moves', 0, p, "STOCK"))
         /\ Cardinality(AdjustsOf(operations', p)) = Cardinality(Made(moves', 0, p, "STOCK"))
  BY <1>3, AdjustmentsStay
<1>5. ReversedOf(sales') = ReversedOf(sales) \cup {n} /\ n \notin ReversedOf(sales)
  BY DEF ReversedOf
<1>6. /\ IsFiniteSet(KeysOf(operations', "reverse")) /\ IsFiniteSet(ReversedOf(sales'))
      /\ Cardinality(KeysOf(operations', "reverse")) = Cardinality(ReversedOf(sales'))
  <2>1. /\ IsFiniteSet(KeysOf(operations', "reverse"))
        /\ Cardinality(KeysOf(operations', "reverse")) = Cardinality(KeysOf(operations, "reverse")) + 1
    BY <1>2, OneMore DEF KeysOK
  <2>2. /\ IsFiniteSet(ReversedOf(sales'))
        /\ Cardinality(ReversedOf(sales')) = Cardinality(ReversedOf(sales)) + 1
    BY <1>5, OneMore DEF KeysOK
  <2> QED
    BY <2>1, <2>2 DEF KeysOK
<1>7. ASSUME NEW m \in DOMAIN sales
      PROVE  /\ \E x \in KeysOf(operations', "sell") :
                   operations'[x].result = m /\ operations'[x].body.items = sales'[m].items
             /\ sales'[m].reversal # 0 =>
                   \E x \in KeysOf(operations', "reverse") : operations'[x].result = m
  <2>1. sales'[m].items = sales[m].items
    OBVIOUS
  <2>2. \E x \in KeysOf(operations', "sell") :
           operations'[x].result = m /\ operations'[x].body.items = sales'[m].items
    BY <1>3, <2>1 DEF KeysOK
  <2>3. CASE m = n
    <3>1. operations'[k].result = n
      BY <1>2
    <3> QED
      BY <1>2, <2>2, <2>3, <3>1
  <2>4. CASE m # n
    <3>1. sales[m].reversal # 0 => \E y \in KeysOf(operations, "reverse") : operations[y].result = m
      BY DEF KeysOK
    <3>2. sales[m].reversal # 0 => \E y \in KeysOf(operations', "reverse") : operations'[y].result = m
      BY <1>2, <3>1
    <3> QED
      BY <2>2, <2>4, <3>2
  <2> QED
    BY <2>3, <2>4
<1> QED
  BY <1>3, <1>4, <1>6, <1>7 DEF KeysOK

-----------------------------------------------------------------------------
(* The theorems about sales and keys.                                      *)

\* Everything the operations rely on, and keep.
FullInv ==
    /\ ShopInv
    /\ DeskOK
    /\ MovesOK
    /\ KeysOK

(* The initial states satisfy FullInv. *)
LEMMA FullInit == ShopInit => FullInv
<1> SUFFICES ASSUME ShopInit PROVE FullInv
  OBVIOUS
<1>1. /\ sales = <<>> /\ movements = <<>> /\ requests = [q \in Requests |-> Idle]
      /\ moves = [p \in Products |-> <<>>] /\ operations = [k \in Keys |-> None]
  BY DEF ShopInit, Init, InventoryInit
<1>2. DeskOK
  BY <1>1 DEF DeskOK, SalesAreSpared, Idle
<1>3. MovesOK
  BY <1>1 DEF MovesOK
<1>4. KeysOK
  <2>1. \A op : KeysOf(operations, op) = {}
    BY <1>1 DEF KeysOf
  <2>2. ReversedOf(sales) = {} /\ Len(sales) = 0 /\ DOMAIN sales = {}
    BY <1>1 DEF ReversedOf
  <2>3. \A p \in Products : AdjustsOf(operations, p) = {} /\ Made(moves, 0, p, "STOCK") = {}
    BY <1>1, <2>1 DEF AdjustsOf, Made
  <2> QED
    BY <2>1, <2>2, <2>3, FS_EmptySet DEF KeysOK
<1> QED
  BY <1>2, <1>3, <1>4, ShopInitInv DEF FullInv

(* Every step keeps FullInv. *)
LEMMA FullNext == FullInv /\ [ShopNext]_shopVars => FullInv'
<1> SUFFICES ASSUME FullInv, [ShopNext]_shopVars PROVE FullInv'
  OBVIOUS
<1> DEFINE Good == DeskOK' /\ MovesOK' /\ KeysOK'
<1>1. /\ RowsOK /\ CallsOK /\ StockIsCounted /\ TypeOK /\ IInv
      /\ ShopInv /\ DeskOK /\ MovesOK /\ KeysOK
  BY DEF FullInv, ShopInv, IInv
<1>2. ShopInv'
  BY <1>1, ShopNextInv
<1>3. movements' = movements /\ requests' = requests /\ sales' = sales => DeskOK'
  BY <1>1, DeskOKStays
<1>4. moves' = moves /\ sales' = sales => MovesOK'
  BY <1>1, MovesOKStays
<1>5. UNCHANGED <<moves, sales, operations>> => KeysOK'
  BY <1>1 DEF KeysOK
<1>6. UNCHANGED shopVars => Good
  BY <1>3, <1>4, <1>5 DEF shopVars, vars, inventory
<1>7. DeskStep /\ UNCHANGED inventory => Good
  BY <1>1, <1>4, <1>5, DeskOKInOwnStep DEF inventory
<1>8. \A c \in Calls : Quiet(c) => Good
  BY <1>1, <1>3, <1>4, <1>5, QuietFacts DEF vars
<1>9. ASSUME NEW c \in Calls, UpdateProduct(c) PROVE Good
  <2>1. UNCHANGED <<vars, stock, moves, sales>> /\ Commits(c, "update", 0)
    BY <1>1, <1>9, UpdateFacts
  <2>2. PICK k \in Keys :
              /\ k \notin KeysOf(operations, "update")
              /\ KeysOf(operations', "update") = KeysOf(operations, "update") \cup {k}
              /\ \A o : o # "update" => KeysOf(operations', o) = KeysOf(operations, o)
              /\ operations'[k] = [body |-> calls[c].body, result |-> 0]
              /\ \A o : \A x \in KeysOf(operations, o) : operations'[x] = operations[x]
    BY <1>1, <2>1, KeyStep
  <2>3. \A o \in {"sell", "reverse", "adjust"} :
           /\ KeysOf(operations', o) = KeysOf(operations, o)
           /\ \A x \in KeysOf(operations, o) : operations'[x] = operations[x]
    BY <2>2
  <2>4. \A p : AdjustsOf(operations', p) = AdjustsOf(operations, p)
    BY <2>3 DEF AdjustsOf
  <2>5. KeysOK'
    BY <1>1, <2>1, <2>3, <2>4 DEF KeysOK
  <2> QED
    BY <1>3, <1>4, <2>1, <2>5 DEF vars
<1>10. ASSUME NEW c \in Calls, Adjust(c) PROVE Good
  <2> PICK product, delta :
        product = calls[c].body.product
        /\ delta = [p \in {calls[c].body.product} |-> calls[c].body.quantity]
    OBVIOUS
  <2>1. /\ UNCHANGED <<vars, sales>> /\ Commits(c, "adjust", 0)
        /\ product \in Products /\ Moved(delta, "STOCK", 0)
    BY <1>1, <1>10, AdjustFacts
  <2>2. DOMAIN delta = {product}
    OBVIOUS
  <2>3. DeskOK'
    BY <1>3, <2>1 DEF vars
  <2>4. MovesOK'
    BY <1>1, <2>1, MovesOKInAdjust
  <2>5. KeysOK'
    BY <1>1, <2>1, <2>2, KeysOKInAdjust
  <2> QED
    BY <2>3, <2>4, <2>5
<1>11. ASSUME NEW c \in Calls, Sell(c) PROVE Good
  <2> PICK items, n, delta : /\ items = calls[c].body.items /\ n = Len(sales) + 1
                             /\ delta = [p \in DOMAIN items |-> -items[p]]
    OBVIOUS
  <2>1. /\ Commits(c, "sell", n)
        /\ Moved([p \in DOMAIN items |-> -items[p]], "SALE", n)
        /\ \E s \in DOMAIN sessions, me \in Methods, total \in Amounts :
              /\ SellProducts(s, me, total)
              /\ sales' = Append(sales, [movement |-> Len(movements) + 1, items |-> items,
                                         total |-> total, reversal |-> 0])
    BY <1>1, <1>11, SellFacts
  <2>2. PICK s \in DOMAIN sessions, me \in Methods, total \in Amounts :
              /\ SellProducts(s, me, total)
              /\ sales' = Append(sales, [movement |-> Len(movements) + 1, items |-> items,
                                         total |-> total, reversal |-> 0])
    BY <2>1
  <2>3. DeskOK'
    BY <1>1, <2>2, DeskOKInSell
  <2>4. /\ DOMAIN sales' = 1..n /\ Len(sales') = n
        /\ sales'[n].items = items /\ sales'[n].reversal = 0
        /\ \A m \in DOMAIN sales : sales'[m] = sales[m]
    <3>1. sales \in Seq(Sale) /\ Len(sales) \in Nat /\ DOMAIN sales = 1..Len(sales)
      BY <1>1 DEF RowsOK
    <3> DEFINE row == [movement |-> Len(movements) + 1, items |-> items, total |-> total,
                       reversal |-> 0]
    <3>2. row.items = items /\ row.reversal = 0 /\ sales' = Append(sales, row)
      BY <2>2
    <3> HIDE DEF row
    <3> QED
      BY <3>1, <3>2
  <2>5. MovesOK'
    BY <1>1, <2>1, <2>4, MovesOKInSell
  <2>6. KeysOK'
    BY <1>1, <2>1, <2>4, KeysOKInSell
  <2> QED
    BY <2>3, <2>5, <2>6
<1>12. ASSUME NEW c \in Calls, ReverseSold(c) PROVE Good
  <2> PICK n : n = calls[c].body.sale
    OBVIOUS
  <2> PICK items : items = sales[n].items
    OBVIOUS
  <2>1. /\ Commits(c, "reverse", n)
        /\ n \in DOMAIN sales /\ sales[n].reversal = 0
        /\ ReverseSale(sales[n].movement)
        /\ Moved(items, "REVERSAL", n)
        /\ DOMAIN sales' = DOMAIN sales /\ Len(sales') = Len(sales)
        /\ sales'[n] = [sales[n] EXCEPT !.reversal = Len(movements) + 1]
        /\ \A m \in DOMAIN sales \ {n} : sales'[m] = sales[m]
    BY <1>1, <1>12, ReverseFacts
  <2>2. sales'[n].items = items /\ sales'[n].reversal # 0
    <3>1. sales[n] \in Sale /\ Len(movements) + 1 # 0
      BY <1>1, <2>1 DEF RowsOK, TypeOK
    <3> QED
      BY <2>1, <3>1 DEF Sale
  <2>3. DeskOK'
    BY <1>1, <2>1, DeskOKInReverse
  <2>4. MovesOK'
    BY <1>1, <2>1, <2>2, MovesOKInReverse
  <2>5. KeysOK'
    BY <1>1, <2>1, <2>2, KeysOKInReverse
  <2> QED
    BY <2>3, <2>4, <2>5
<1> HIDE DEF Good
<1>13. Good
  BY <1>6, <1>7, <1>8, <1>9, <1>10, <1>11, <1>12, ShopCases
<1> QED
  BY <1>2, <1>13 DEF FullInv, Good

(* The whole inductive invariant of the shop holds in every reachable state. *)
THEOREM FullInvariant == ShopSpec => []FullInv
BY FullInit, FullNext, PTL DEF ShopSpec

(* FullInv makes sales and desk agree. *)
LEMMA AgreementFollows == FullInv => SalesMatchTheDesk
<1> SUFFICES ASSUME FullInv PROVE SalesMatchTheDesk
  OBVIOUS
<1>1. DeskOK /\ MovesOK /\ IInv /\ TypeOK
  BY DEF FullInv, ShopInv, IInv
<1>2. Cardinality({}) = 0 /\ \A x : Cardinality({x}) = 1
  BY FS_EmptySet, FS_Singleton
<1>3. \A n, p, t : MovesOfSale(n, p, t) = Made(moves, n, p, t)
  BY DEF MovesOfSale, Made
<1>4. ASSUME NEW n \in DOMAIN sales
      PROVE  /\ movements[sales[n].movement].origin = "sale"
             /\ movements[sales[n].movement].type = "INCOME"
             /\ movements[sales[n].movement].amount = sales[n].total
             /\ {i \in DOMAIN movements : movements[i].reversalOf = sales[n].movement}
                   = IF sales[n].reversal = 0 THEN {} ELSE {sales[n].reversal}
  <2>1. SaleAtDesk(n) /\ 0 \notin DOMAIN movements
    BY <1>1 DEF DeskOK, TypeOK
  <2> QED
    BY <2>1 DEF SaleAtDesk
<1>5. ASSUME NEW n \in DOMAIN sales, NEW p \in Products
      PROVE  /\ Cardinality(Made(moves, n, p, "SALE")) = IF p \in DOMAIN sales[n].items THEN 1 ELSE 0
             /\ Cardinality(Made(moves, n, p, "REVERSAL")) =
                   IF p \in DOMAIN sales[n].items /\ sales[n].reversal # 0 THEN 1 ELSE 0
             /\ \A i \in Made(moves, n, p, "REVERSAL") :
                   moves[p][i].quantity = sales[n].items[p]
  <2>1. SaleUnits(n, p)
    BY <1>1 DEF MovesOK
  <2>2. Cardinality(Made(moves, n, p, "SALE")) = IF p \in DOMAIN sales[n].items THEN 1 ELSE 0
    BY <1>2, <2>1 DEF SaleUnits
  <2>3. CASE p \in DOMAIN sales[n].items /\ sales[n].reversal # 0
    <3>1. PICK i : /\ Made(moves, n, p, "REVERSAL") = {i}
                   /\ moves[p][i].quantity = sales[n].items[p]
      BY <2>1, <2>3 DEF SaleUnits
    <3> QED
      BY <1>2, <2>2, <2>3, <3>1
  <2>4. CASE ~(p \in DOMAIN sales[n].items /\ sales[n].reversal # 0)
    <3>1. Made(moves, n, p, "REVERSAL") = {}
      BY <2>1, <2>4 DEF SaleUnits
    <3> QED
      BY <1>2, <2>2, <2>4, <3>1
  <2> QED
    BY <2>3, <2>4
<1>6. ASSUME NEW i \in DOMAIN movements, movements[i].origin = "sale", movements[i].reversalOf = 0
      PROVE  Cardinality({n \in DOMAIN sales : sales[n].movement = i}) = 1
  <2>1. PICK n \in DOMAIN sales : sales[n].movement = i
    BY <1>1, <1>6 DEF DeskOK
  <2>2. {m \in DOMAIN sales : sales[m].movement = i} = {n}
    BY <1>1, <2>1 DEF DeskOK
  <2> QED
    BY <1>2, <2>2
<1> QED
  BY <1>3, <1>4, <1>5, <1>6 DEF SalesMatchTheDesk

(* FullInv leaves each key at most one effect. *)
LEMMA EffectsFollow == FullInv => OneEffectPerKey
<1> SUFFICES ASSUME FullInv PROVE OneEffectPerKey
  OBVIOUS
<1>1. KeysOK
  BY DEF FullInv
<1>2. \A p : MovesOfSale(0, p, "STOCK") = Made(moves, 0, p, "STOCK")
  BY DEF MovesOfSale, Made
<1> QED
  BY <1>1, <1>2 DEF OneEffectPerKey, KeysOK, KeysOf, AdjustsOf, ReversedOf

\* Desk and stock agree on every sale, whatever happens at the desk meanwhile.
THEOREM SalesMatchTheDeskHolds == ShopSpec => []SalesMatchTheDesk
BY FullInvariant, AgreementFollows, PTL

\* A key stands for one effect and an effect for one key.
THEOREM OneEffectPerKeyHolds == ShopSpec => []OneEffectPerKey
BY FullInvariant, EffectsFollow, PTL
=============================================================================
