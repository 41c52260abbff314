------------------------------ MODULE CashDesk ------------------------------
(***************************************************************************)
(* The cash desk of the API (apps/api/src/modules/cash) together with      *)
(* every other service that writes cash movements: debt payments,          *)
(* immediate membership collections and product sales.                     *)
(*                                                                         *)
(* The tables `cash_sessions` and `cash_movements` are append-only         *)
(* sequences; the id of a row is its position.  An HTTP handler that reads *)
(* something before it opens its transaction is split in two: the read     *)
(* leaves a record in `requests`, the transaction consumes it.  A          *)
(* SERIALIZABLE transaction is one atomic step, with one exception: the    *)
(* snapshot of `close` is taken when its first statement starts to wait    *)
(* for the lock of the session, so taking the snapshot is a step of its    *)
(* own (see CloseSnapshot and CloseSession).                               *)
(***************************************************************************)
EXTENDS Integers, Sequences, SequencesExt

CONSTANTS
    Users,          \* cashiers
    Registers,      \* active cash registers
    Methods,        \* active payment methods
    CashMethods,    \* those with countsAsCash
    Members,        \* gym members a movement may be linked to
    NoMember,       \* the movement has no member
    Amounts,        \* amounts of a movement
    Openings,       \* opening amounts of a session
    Requests,       \* HTTP requests that can be in flight at once
    MaxSessions,    \* bound: rows of cash_sessions
    MaxMovements,   \* bound: rows of cash_movements
    MaxLines        \* bound: lines of a debt payment

ASSUME CashDeskAssumption ==
    /\ CashMethods \subseteq Methods
    /\ NoMember \notin Members
    /\ Amounts \subseteq Nat \ {0}
    /\ Openings \subseteq Nat
    /\ MaxSessions \in Nat
    /\ MaxMovements \in Nat
    /\ MaxLines \in Nat

VARIABLES
    sessions,       \* table cash_sessions
    movements,      \* table cash_movements
    requests        \* what each request in flight has read so far

vars == <<sessions, movements, requests>>

-----------------------------------------------------------------------------
(* Rows. *)

Types == {"INCOME", "EXPENSE"}
Opposite(type) == IF type = "INCOME" THEN "EXPENSE" ELSE "INCOME"

\* Who inserted a movement.  "pay" and "sale" run SERIALIZABLE and read the
\* status of the session inside the transaction, "membership" runs READ
\* COMMITTED under the lock of the session, "create" and "reverse" run
\* SERIALIZABLE and look at the session only through their foreign key.
Origins == {"create", "reverse", "pay", "sale", "membership"}
SerializedOrigins == {"pay", "sale"}

\* `seen` and `declared` are the closing of the session: how many movements
\* the transaction that closed it could see, and the payment methods the
\* cashier declared, in the order of the body.
Session ==
    [register : Registers, user : Users, opening : Openings,
     status : {"OPEN", "CLOSED"}, seen : Nat, declared : Seq(Methods)]

Movement ==
    [session : Nat, type : Types, amount : Amounts, method : Methods,
     member : Members \cup {NoMember}, reversalOf : Nat,
     isReversed : BOOLEAN, origin : Origins]

Request ==
    [op : {"idle", "create", "reverse", "close", "closing"},
     session : Nat, movement : Nat, seen : Nat]

Idle == [op |-> "idle", session |-> 0, movement |-> 0, seen |-> 0]

IsOpen(s) == s \in DOMAIN sessions /\ sessions[s].status = "OPEN"

NewMovement(s, type, amount, method, member, origin) ==
    [session |-> s, type |-> type, amount |-> amount, method |-> method,
     member |-> member, reversalOf |-> 0, isReversed |-> FALSE,
     origin |-> origin]

ReversalOf(i, origin) ==
    [movements[i] EXCEPT !.type = Opposite(@), !.reversalOf = i,
                         !.isReversed = FALSE, !.origin = origin]

Fits(n) == Len(movements) + n <= MaxMovements

Lines == UNION {[1..n -> Amounts] : n \in 1..MaxLines}

-----------------------------------------------------------------------------
(* Mutants: operations with a plausible mistake.  No specification uses     *)
(* them; each stands in for the operation it is named after to see that a   *)
(* property notices.                                                        *)

\* A close below SERIALIZABLE: concurrent commits do not stop it.
CloseSessionReadCommitted(q, declared) ==
    LET s == requests[q].session IN
    /\ requests[q].op = "closing"
    /\ IsOpen(s)
    /\ sessions' = [sessions EXCEPT ![s].status = "CLOSED",
                                    ![s].seen = requests[q].seen,
                                    ![s].declared = declared]
    /\ requests' = [requests EXCEPT ![q] = Idle]
    /\ UNCHANGED movements

\* A close that does not check the session again once it has the lock.
CloseSessionUnchecked(q, declared) ==
    LET s == requests[q].session IN
    /\ requests[q].op = "closing"
    /\ sessions' = [sessions EXCEPT ![s].status = "CLOSED",
                                    ![s].seen = requests[q].seen,
                                    ![s].declared = declared]
    /\ requests' = [requests EXCEPT ![q] = Idle]
    /\ UNCHANGED movements

-----------------------------------------------------------------------------
Init ==
    /\ sessions = <<>>
    /\ movements = <<>>
    /\ requests = [q \in Requests |-> Idle]

\* POST /cash/sessions/open: one transaction, which locks the register and
\* finds no open session of the user nor of the register; the partial unique
\* indexes refuse the insert a race would let through.
Open(u, r, opening) ==
    /\ Len(sessions) < MaxSessions
    /\ \A s \in DOMAIN sessions :
          sessions[s].status = "OPEN" =>
              sessions[s].user # u /\ sessions[s].register # r
    /\ sessions' = Append(sessions,
          [register |-> r, user |-> u, opening |-> opening,
           status |-> "OPEN", seen |-> 0, declared |-> <<>>])
    /\ UNCHANGED <<movements, requests>>

\* POST /cash/movements and POST /cash/sessions/close start alike: the open
\* session of the user is read outside the transaction.
FindOpenSession(q, op, s) ==
    /\ requests[q] = Idle
    /\ IsOpen(s)
    /\ requests' = [requests EXCEPT ![q] = [Idle EXCEPT !.op = op, !.session = s]]
    /\ UNCHANGED <<sessions, movements>>

\* The transaction of POST /cash/movements.  It inserts in the session it read
\* before, whatever became of that session.
CreateMovement(q, type, amount, method, member) ==
    /\ requests[q].op = "create"
    /\ Fits(1)
    /\ movements' = Append(movements,
          NewMovement(requests[q].session, type, amount, method, member, "create"))
    /\ requests' = [requests EXCEPT ![q] = Idle]
    /\ UNCHANGED sessions

\* Mutant: the desk reverses the movement of a sale too.
FindReversibleSale(q, i) ==
    /\ requests[q] = Idle
    /\ i \in DOMAIN movements
    /\ movements[i].reversalOf = 0
    /\ ~movements[i].isReversed
    /\ IsOpen(movements[i].session)
    /\ requests' = [requests EXCEPT ![q] = [Idle EXCEPT !.op = "reverse", !.movement = i]]
    /\ UNCHANGED <<sessions, movements>>

\* POST /cash/movements/:id/reverse reads the movement and its session outside
\* the transaction.  A movement linked to a sale is refused before that.
FindReversible(q, i) ==
    /\ requests[q] = Idle
    /\ i \in DOMAIN movements
    /\ movements[i].reversalOf = 0
    /\ ~movements[i].isReversed
    /\ movements[i].origin # "sale"
    /\ IsOpen(movements[i].session)
    /\ requests' = [requests EXCEPT ![q] = [Idle EXCEPT !.op = "reverse", !.movement = i]]
    /\ UNCHANGED <<sessions, movements>>

MarkReversed(i, reversal) ==
    movements' = Append([movements EXCEPT ![i].isReversed = TRUE], reversal)

\* Mutant: the mark of the movement is not read again under its lock.
ReverseMovementUnchecked(q) ==
    /\ requests[q].op = "reverse"
    /\ Fits(1)
    /\ MarkReversed(requests[q].movement, ReversalOf(requests[q].movement, "reverse"))
    /\ requests' = [requests EXCEPT ![q] = Idle]
    /\ UNCHANGED sessions

\* Its transaction locks the movement and reads it again, but not the session.
ReverseMovement(q) ==
    LET i == requests[q].movement IN
    /\ requests[q].op = "reverse"
    /\ Fits(1)
    /\ ~movements[i].isReversed
    /\ MarkReversed(i, ReversalOf(i, "reverse"))
    /\ requests' = [requests EXCEPT ![q] = Idle]
    /\ UNCHANGED sessions

\* The transaction of a close has its snapshot from its first statement on,
\* SELECT ... FOR UPDATE of the session, even if that statement then waits.
CloseSnapshot(q) ==
    /\ requests[q].op = "close"
    /\ IsOpen(requests[q].session)
    /\ requests' = [requests EXCEPT ![q].op = "closing", ![q].seen = Len(movements)]
    /\ UNCHANGED <<sessions, movements>>

\* The rest of the close, with the lock: the session must be open still, the
\* expected amounts are those of the snapshot.  A debt payment or a sale that
\* committed since the snapshot makes the commit fail: it read the session
\* this transaction updates and wrote the movements this transaction read.
CloseSession(q, declared) ==
    LET s == requests[q].session
        seen == requests[q].seen
    IN
    /\ requests[q].op = "closing"
    /\ IsOpen(s)
    /\ \A i \in DOMAIN movements :
          i > seen /\ movements[i].session = s =>
              movements[i].origin \notin SerializedOrigins
    /\ sessions' = [sessions EXCEPT ![s].status = "CLOSED", ![s].seen = seen,
                                    ![s].declared = declared]
    /\ requests' = [requests EXCEPT ![q] = Idle]
    /\ UNCHANGED movements

\* Any request in flight may end with an error and no effect: a validation, a
\* conflict with what it reads again, a serialization failure, a crash.
RequestFails(q) ==
    /\ requests[q] # Idle
    /\ requests' = [requests EXCEPT ![q] = Idle]
    /\ UNCHANGED <<sessions, movements>>

\* POST /members/:id/pay-debt: the session is locked and must be open, one
\* movement per line of the quote.
PayDebt(s, member, method, lines) ==
    /\ IsOpen(s)
    /\ Fits(Len(lines))
    /\ movements' = movements \o
          [i \in DOMAIN lines |-> NewMovement(s, "INCOME", lines[i], method, member, "pay")]
    /\ UNCHANGED <<sessions, requests>>

\* The charge of a new or renewed membership collected at once (mode NOW),
\* under the lock of the session.
CollectMembership(s, member, method, amount) ==
    /\ IsOpen(s)
    /\ Fits(1)
    /\ movements' = Append(movements,
          NewMovement(s, "INCOME", amount, method, member, "membership"))
    /\ UNCHANGED <<sessions, requests>>

\* A product sale and its reversal, under the lock of the seller's own session.
SellProducts(s, method, amount) ==
    /\ IsOpen(s)
    /\ Fits(1)
    /\ movements' = Append(movements,
          NewMovement(s, "INCOME", amount, method, NoMember, "sale"))
    /\ UNCHANGED <<sessions, requests>>

\* Mutant: a sale reversed once can be reversed again.
ReverseSaleTwice(i) ==
    /\ i \in DOMAIN movements
    /\ movements[i].origin = "sale"
    /\ movements[i].reversalOf = 0
    /\ IsOpen(movements[i].session)
    /\ Fits(1)
    /\ MarkReversed(i, ReversalOf(i, "sale"))
    /\ UNCHANGED <<sessions, requests>>

ReverseSale(i) ==
    /\ i \in DOMAIN movements
    /\ movements[i].origin = "sale"
    /\ movements[i].reversalOf = 0
    /\ ~movements[i].isReversed
    /\ IsOpen(movements[i].session)
    /\ Fits(1)
    /\ MarkReversed(i, ReversalOf(i, "sale"))
    /\ UNCHANGED <<sessions, requests>>

\* The bodies a close accepts: at least one method, none twice.
Declarations == UNION {[1..n -> Methods] : n \in 1..Cardinality(Methods)}
Distinct(declared) ==
    \A i, j \in DOMAIN declared : declared[i] = declared[j] => i = j

-----------------------------------------------------------------------------
\* What inventory.service.ts does with the desk; Inventory says when.
SaleStep ==
    \/ \E s \in DOMAIN sessions, me \in Methods, a \in Amounts : SellProducts(s, me, a)
    \/ \E i \in DOMAIN movements : ReverseSale(i)

\* Everything else.
DeskStep ==
    \/ \E u \in Users, r \in Registers, o \in Openings : Open(u, r, o)
    \/ \E q \in Requests :
          \/ \E s \in DOMAIN sessions, op \in {"create", "close"} : FindOpenSession(q, op, s)
          \/ \E t \in Types, a \in Amounts, me \in Methods, m \in Members \cup {NoMember} :
                CreateMovement(q, t, a, me, m)
          \/ \E i \in DOMAIN movements : FindReversible(q, i)
          \/ ReverseMovement(q)
          \/ CloseSnapshot(q)
          \/ \E d \in Declarations : Distinct(d) /\ CloseSession(q, d)
          \/ RequestFails(q)
    \/ \E s \in DOMAIN sessions, me \in Methods, m \in Members :
          \/ \E ls \in Lines : PayDebt(s, m, me, ls)
          \/ \E a \in Amounts : CollectMembership(s, m, me, a)

Next == DeskStep \/ SaleStep

Spec == Init /\ [][Next]_vars

-----------------------------------------------------------------------------
(* The figures of a closing, computed from the snapshot it was made with.  *)

Signed(i) == IF movements[i].type = "INCOME" THEN movements[i].amount
                                             ELSE -movements[i].amount

NetOf(ids) == MapThenSumSet(Signed, ids)

MovementsOf(s) == {i \in DOMAIN movements : movements[i].session = s}

Counted(s) == {i \in MovementsOf(s) : i <= sessions[s].seen}

\* The first declared method that counts as cash receives the opening amount.
FirstCash(declared) ==
    LET i == SelectInSeq(declared, LAMBDA me : me \in CashMethods)
    IN  IF i = 0 THEN {} ELSE {declared[i]}

OpeningOf(s, me) ==
    IF me \in FirstCash(sessions[s].declared) THEN sessions[s].opening ELSE 0

\* expectedByMethod of the code, with the opening amount already added.
ExpectedAmount(s, me) ==
    NetOf({i \in Counted(s) : movements[i].method = me}) + OpeningOf(s, me)

\* Mutant: undeclared methods get no row.
DeclaredMethods(s) == ToSet(sessions[s].declared)

\* Methods with a row in the details: the declared ones, and those that had
\* movements, which are added as declared in zero.
DetailMethods(s) ==
    ToSet(sessions[s].declared) \cup {movements[i].method : i \in Counted(s)}

Closed(s) == s \in DOMAIN sessions /\ sessions[s].status = "CLOSED"

-----------------------------------------------------------------------------
(* Properties. *)

\* Rows and requests have the shape the tables and the handlers give them.
TypeOK ==
    /\ sessions \in Seq(Session)
    /\ movements \in Seq(Movement)
    /\ requests \in [Requests -> Request]

\* A register has one open session and so does a user, whatever the order in
\* which sessions are opened and closed (cash_sessions_one_open_per_*).
OneOpenSession ==
    \A s, t \in DOMAIN sessions :
        s # t /\ IsOpen(s) /\ IsOpen(t) =>
            /\ sessions[s].register # sessions[t].register
            /\ sessions[s].user # sessions[t].user

\* A movement is marked as reversed exactly when another one reverses it, and
\* then only one does: two requests that both read it unmarked, or a close in
\* between, never undo an amount twice.  The reversal undoes the movement it
\* names: same session, method, member and amount, opposite sign; and a
\* reversal is never reversed itself.
ReversalPairs ==
    \A i \in DOMAIN movements :
        LET undone == {j \in DOMAIN movements : movements[j].reversalOf = i} IN
        /\ movements[i].isReversed <=> undone # {}
        /\ \A j, k \in undone : j = k
        /\ \A j \in undone :
              /\ i < j
              /\ movements[i].reversalOf = 0
              /\ movements[j].type = Opposite(movements[i].type)
              /\ movements[j].session = movements[i].session
              /\ movements[j].amount = movements[i].amount
              /\ movements[j].method = movements[i].method
              /\ movements[j].member = movements[i].member

\* A debt payment, a sale or the reversal of a sale that lands in a session is
\* in the figures that session was closed with: neither is it inserted after
\* the close nor does the close miss it.
LockedCollectionsCounted ==
    \A i \in DOMAIN movements :
        movements[i].origin \in SerializedOrigins /\ Closed(movements[i].session) =>
            i <= sessions[movements[i].session].seen

\* The details of a closing leave nothing out: their expected amounts add up
\* to the net of the movements the close saw, plus the opening amount when a
\* cash method was declared.
DetailsAddUp ==
    \A s \in DOMAIN sessions : Closed(s) =>
        MapThenSumSet(LAMBDA me : ExpectedAmount(s, me), DetailMethods(s))
            = NetOf(Counted(s))
              + (IF FirstCash(sessions[s].declared) = {} THEN 0 ELSE sessions[s].opening)

\* A session closes once and its closing is never rewritten; a movement never
\* changes except for its mark, which is never taken back.
ClosingsAndMovementsAreFinal ==
    [][/\ \A s \in DOMAIN sessions : Closed(s) => sessions'[s] = sessions[s]
       /\ \A i \in DOMAIN movements :
             movements'[i] \in {movements[i], [movements[i] EXCEPT !.isReversed = TRUE]}
      ]_vars

-----------------------------------------------------------------------------
(* The desk implements the book.                                           *)

bookOf == [i \in DOMAIN movements |->
    [session |-> movements[i].session, sum |-> Signed(i),
     undoes |-> movements[i].reversalOf]]

sealsOf == [s \in DOMAIN sessions |->
    IF sessions[s].status = "CLOSED" THEN sessions[s].seen ELSE -1]

Book == INSTANCE CashBook WITH
    Sums <- Amounts \cup {-a : a \in Amounts},
    MaxBatch <- IF MaxLines = 0 THEN 1 ELSE MaxLines,
    book <- bookOf, seals <- sealsOf

\* Every step of the desk adds entries to one session, undoes one entry that
\* was not undone yet, seals one session, or leaves the book alone.
ImplementsBook == Book!Spec
=============================================================================
