---------------------------- MODULE MemberLedger ----------------------------
(***************************************************************************)
(* The current account of the members (apps/api/src/modules/members/       *)
(* ledger.ts), at the grain of row locks: the database transactions that   *)
(* post entries run side by side, take their locks one by one, and wait.   *)
(*                                                                         *)
(* Two rows matter to them: the row of the member, whose column `balance`  *)
(* caches the ledger, and the row of the cash session.  PostgreSQL's rules *)
(* are those this code relies on: FOR UPDATE excludes everyone else, the   *)
(* check of a foreign key takes FOR KEY SHARE, a SERIALIZABLE transaction  *)
(* that locks a row updated since its snapshot fails, a READ COMMITTED one *)
(* goes on with the new version, and of a cycle of waits one fails.        *)
(***************************************************************************)
EXTENDS Integers, Sequences, SequencesExt

CONSTANTS
    Members,        \* gym members
    CashSession,    \* the row of the open cash session
    Txs,            \* transactions that can be open at once
    Amounts,        \* amounts charged, paid or refunded
    Fee,            \* surcharge of a transfer
    MaxBegun        \* bound: transactions begun in a behaviour

ASSUME MemberLedgerAssumption ==
    /\ CashSession \notin Members
    /\ Amounts \subseteq Nat \ {0}
    /\ Fee \in Nat \ {0}
    /\ MaxBegun \in Nat

VARIABLES
    balance,        \* column members.balance
    ledger,         \* table ledger_entries, per member in order of insertion
    tx,             \* the open transactions
    begun           \* how many have begun

vars == <<balance, ledger, tx, begun>>

Rows == Members \cup {CashSession}

-----------------------------------------------------------------------------
(* The operations.                                                         *)

\* create and reverse: a cash movement of the member, and its reversal;
\* pay: the member's debt, line by line;
\* collect: a membership charged and paid at once (mode NOW);
\* charge: a membership charged as debt; renew: the same by the worker;
\* stop: a membership cancelled or its renewal configured, no entry;
\* recalculate: the balance added up again, a repair that posts no entry;
\* close: the cash session.
Ops == {"create", "reverse", "pay", "collect", "charge", "renew", "stop",
        "recalculate", "close"}

Serializable == {"create", "reverse", "pay", "close"}

\* Mutant: the worker renews without locking the member.
PlanUnlockedRenewal(op, m) ==
    LET update(row) == [row |-> row, mode |-> "UPDATE"]
        share(row) == [row |-> row, mode |-> "KEY SHARE"]
    IN  CASE op \in {"create", "reverse"} -> <<share(CashSession), share(m), update(m)>>
          [] op = "pay"                   -> <<update(m), update(CashSession)>>
          [] op = "collect"               -> <<update(CashSession), update(m)>>
          [] op \in {"charge", "stop", "recalculate"} -> <<update(m)>>
          [] op = "renew"                 -> <<>>
          [] op = "close"                 -> <<update(CashSession)>>

\* The row locks of an operation, in the order it takes them.  The insert of a
\* cash movement checks its foreign keys before postLedgerEntry locks.
Plan(op, m) ==
    LET update(row) == [row |-> row, mode |-> "UPDATE"]
        share(row) == [row |-> row, mode |-> "KEY SHARE"]
    IN  CASE op \in {"create", "reverse"} -> <<share(CashSession), share(m), update(m)>>
          [] op = "pay"                   -> <<update(m), update(CashSession)>>
          [] op = "collect"               -> <<update(CashSession), update(m)>>
          [] op \in {"charge", "renew", "stop", "recalculate"} -> <<update(m)>>
          [] op = "close"                 -> <<update(CashSession)>>

\* The signed sums it posts, in order.
Postings(op) ==
    CASE op \in {"create", "reverse"} -> {<<a>> : a \in Amounts} \cup {<<-a>> : a \in Amounts}
      [] op = "pay"     -> {<<a>> : a \in Amounts} \cup {<<-Fee, a + Fee>> : a \in Amounts}
      [] op = "collect" -> {<<-a, a>> : a \in Amounts}
      [] op \in {"charge", "renew"} -> {<<-a>> : a \in Amounts}
      [] op \in {"stop", "recalculate", "close"} -> {<<>>}

Entry == [sum : Int, balanceAfter : Int]

\* `held` counts the locks of the plan taken so far, `stale` has the rows that
\* others updated since the transaction began, `todo` the sums left to post,
\* `posted` the entries inserted and not committed.
Transaction ==
    [op : Ops, member : Members, held : Nat, stale : SUBSET Rows,
     todo : Seq(Int), posted : Seq(Entry)]

Idle == [op |-> "idle"]

Open(t) == tx[t].op # "idle"

PlanOf(t) == Plan(tx[t].op, tx[t].member)

Holds(t) == {PlanOf(t)[i] : i \in 1..tx[t].held}

Wants(t) == Open(t) /\ tx[t].held < Len(PlanOf(t))

Wanted(t) == PlanOf(t)[tx[t].held + 1]

Conflict(l, k) == l.row = k.row /\ "UPDATE" \in {l.mode, k.mode}

Blockers(t) ==
    {u \in Txs \ {t} : Open(u) /\ \E l \in Holds(u) : Conflict(l, Wanted(t))}

Waits(t, u) == Wants(t) /\ u \in Blockers(t)

\* t is in a cycle of waits: a set of transactions each waiting for the next.
Deadlocked(t) ==
    /\ Wants(t) /\ Blockers(t) # {}
    /\ \E S \in SUBSET Txs : t \in S /\ \E next \in Bijection(S, S) : \A u \in S : Waits(u, next[u])

\* t has to lock a row that was updated after its snapshot.
StaleRow(t) ==
    /\ Wants(t)
    /\ tx[t].op \in Serializable
    /\ Wanted(t).row \in tx[t].stale

-----------------------------------------------------------------------------
Init ==
    /\ balance = [m \in Members |-> 0]
    /\ ledger = [m \in Members |-> <<>>]
    /\ tx = [t \in Txs |-> Idle]
    /\ begun = 0

Begin(t, op, m, sums) ==
    /\ ~Open(t)
    /\ begun < MaxBegun
    /\ begun' = begun + 1
    /\ tx' = [tx EXCEPT ![t] = [op |-> op, member |-> m, held |-> 0, stale |-> {},
                                todo |-> sums, posted |-> <<>>]]
    /\ UNCHANGED <<balance, ledger>>

TakeLock(t) ==
    /\ Wants(t)
    /\ Blockers(t) = {}
    /\ ~StaleRow(t)
    /\ tx' = [tx EXCEPT ![t].held = @ + 1]
    /\ UNCHANGED <<balance, ledger, begun>>

\* The balance a transaction reads: its own last update, or the committed one.
CurrentBalance(t) ==
    IF tx[t].posted = <<>> THEN balance[tx[t].member] ELSE Last(tx[t].posted).balanceAfter

\* postLedgerEntry, with the lock: read the balance, insert the entry with the
\* balance after it, update the member.
PostEntry(t) ==
    /\ Open(t)
    /\ ~Wants(t)
    /\ tx[t].todo # <<>>
    /\ LET sum == Head(tx[t].todo) IN
       tx' = [tx EXCEPT
           ![t].todo = Tail(@),
           ![t].posted = Append(@, [sum |-> sum, balanceAfter |-> CurrentBalance(t) + sum])]
    /\ UNCHANGED <<balance, ledger, begun>>

UpdatedRows(t) ==
    (IF tx[t].op = "close" THEN {CashSession} ELSE {})
    \cup (IF tx[t].posted # <<>> \/ tx[t].op = "recalculate" THEN {tx[t].member} ELSE {})

LedgerSum(m) == SumFunction([i \in DOMAIN ledger[m] |-> ledger[m][i].sum])

\* recalculateMemberBalance forgets the cached balance and adds the ledger up;
\* it holds the member from before it reads until it commits.
NewBalance(t) ==
    IF tx[t].op = "recalculate" THEN LedgerSum(tx[t].member) ELSE CurrentBalance(t)

\* Mutant: each entry is committed on its own.
CommitEach(t) ==
    LET m == tx[t].member IN
    /\ Open(t)
    /\ ~Wants(t)
    /\ ledger' = [ledger EXCEPT ![m] = @ \o tx[t].posted]
    /\ balance' = [balance EXCEPT ![m] = NewBalance(t)]
    /\ tx' = [u \in Txs |-> IF u = t \/ ~Open(u) THEN Idle
                            ELSE [tx[u] EXCEPT !.stale = @ \cup UpdatedRows(t)]]
    /\ UNCHANGED begun

Commit(t) ==
    LET m == tx[t].member IN
    /\ Open(t)
    /\ ~Wants(t)
    /\ tx[t].todo = <<>>
    /\ ledger' = [ledger EXCEPT ![m] = @ \o tx[t].posted]
    /\ balance' = [balance EXCEPT ![m] = NewBalance(t)]
    /\ tx' = [u \in Txs |-> IF u = t \/ ~Open(u) THEN Idle
                            ELSE [tx[u] EXCEPT !.stale = @ \cup UpdatedRows(t)]]
    /\ UNCHANGED begun

Rollback(t) ==
    /\ tx' = [tx EXCEPT ![t] = Idle]
    /\ UNCHANGED <<balance, ledger, begun>>

\* Mutant: the transaction is run again until it goes through.
Retried(t) ==
    /\ StaleRow(t) \/ Deadlocked(t)
    /\ tx' = [tx EXCEPT ![t].held = 0, ![t].stale = {}]
    /\ UNCHANGED <<balance, ledger, begun>>

\* PostgreSQL ends the transaction: serialization failure or deadlock.
Refused(t) == (StaleRow(t) \/ Deadlocked(t)) /\ Rollback(t)

\* Anything else that makes the handler throw, or the process die.
Fails(t) == Open(t) /\ Rollback(t)

Next ==
    \E t \in Txs :
        \/ \E op \in Ops, m \in Members : \E sums \in Postings(op) : Begin(t, op, m, sums)
        \/ TakeLock(t)
        \/ PostEntry(t)
        \/ Commit(t)
        \/ Refused(t)
        \/ Fails(t)

Spec == Init /\ [][Next]_vars

\* A handler keeps going, and PostgreSQL looks for deadlocks.
Advances(t) == TakeLock(t) \/ PostEntry(t) \/ Commit(t) \/ Refused(t)

FairSpec == Spec /\ \A t \in Txs : WF_vars(Advances(t))

-----------------------------------------------------------------------------
(* Properties.                                                             *)

TypeOK ==
    /\ balance \in [Members -> Int]
    /\ ledger \in [Members -> Seq(Entry)]
    /\ tx \in [Txs -> Transaction \cup {Idle}]
    /\ begun \in Nat

BalanceAfter(m, i) == IF i = 0 THEN 0 ELSE ledger[m][i].balanceAfter

\* The column balanceAfter follows the entries one by one and the cached
\* balance is the last one's: no update of the balance is lost, whatever
\* transactions of the API and of the worker run side by side.
LedgerChain ==
    \A m \in Members :
        /\ \A i \in DOMAIN ledger[m] :
              ledger[m][i].balanceAfter = BalanceAfter(m, i - 1) + ledger[m][i].sum
        /\ balance[m] = BalanceAfter(m, Len(ledger[m]))

\* Locks are taken in different orders, but no request waits for ever: what
\* does not deadlock goes on, what does is ended.
EveryTransactionEnds == \A t \in Txs : Open(t) ~> ~Open(t)

\* A transaction is all or nothing: its entries reach the ledger together and
\* with nobody else's among them.
accountOf == [m \in Members |->
    [balance |-> balance[m], sums |-> [i \in DOMAIN ledger[m] |-> ledger[m][i].sum]]]

Account == INSTANCE MemberAccount WITH
    Batches <- UNION {Postings(op) : op \in Ops}, account <- accountOf

ImplementsAccount == Account!Spec
=============================================================================
