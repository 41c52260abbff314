---------------------------- MODULE MemberProofs ----------------------------
(***************************************************************************)
(* Theorems of the member's account, its periods and its payments, for any *)
(* number of members, transactions and periods, any calendar, price and    *)
(* fee: the ledger is a chain (MemberLedger), each period is charged once  *)
(* (Memberships), and what is paid is what is owed (MemberPayment).        *)
(***************************************************************************)
EXTENDS MemberLedger, Memberships, MemberPayment, SumTheorems, SequenceTheorems

-----------------------------------------------------------------------------
(***************************************************************************)
(* MemberLedger                                                            *)
(***************************************************************************)

\* Two open transactions never hold locks that conflict.
Exclusion ==
    \A t, u \in Txs : t # u /\ Open(t) /\ Open(u) =>
        \A l \in Holds(t), k \in Holds(u) : ~Conflict(l, k)

\* No transaction holds more than its plan, none posts before it holds all of
\* it, and those that close a session or recalculate a balance post nothing.
PlanKept ==
    \A t \in Txs : Open(t) =>
        /\ tx[t].held <= Len(PlanOf(t))
        /\ tx[t].posted # <<>> => tx[t].held = Len(PlanOf(t))
        /\ tx[t].op \in {"close", "recalculate"} => tx[t].todo = <<>> /\ tx[t].posted = <<>>

\* What a transaction has posted continues the committed ledger.
PostedFrom(t, i) == IF i = 0 THEN balance[tx[t].member] ELSE tx[t].posted[i].balanceAfter

PostedChain ==
    \A t \in Txs : Open(t) =>
        \A i \in DOMAIN tx[t].posted :
            tx[t].posted[i].balanceAfter = PostedFrom(t, i - 1) + tx[t].posted[i].sum

\* What a transaction has posted and what it has left to post are together one
\* of the batches of its operation.
IsBatch(batch, posted, todo) ==
    /\ Len(batch) = Len(posted) + Len(todo)
    /\ \A i \in DOMAIN posted : posted[i].sum = batch[i]
    /\ \A i \in DOMAIN todo : todo[i] = batch[Len(posted) + i]

BatchesKept ==
    \A t \in Txs : Open(t) =>
        \E batch \in Postings(tx[t].op) : IsBatch(batch, tx[t].posted, tx[t].todo)

\* The inductive invariant.
IInv == TypeOK /\ Exclusion /\ PlanKept /\ PostedChain /\ BatchesKept /\ LedgerChain

-----------------------------------------------------------------------------
USE MemberLedgerAssumption

LEMMA OpenType ==
    ASSUME TypeOK, NEW t \in Txs, Open(t)
    PROVE  /\ tx[t] \in Transaction
           /\ tx[t].op \in Ops /\ tx[t].member \in Members /\ tx[t].held \in Nat
           /\ tx[t].todo \in Seq(Int) /\ tx[t].posted \in Seq(Entry)
BY DEF TypeOK, Open, Idle, Transaction

LEMMA Triple ==
    ASSUME NEW a, NEW b, NEW c
    PROVE  Len(<<a, b, c>>) = 3 /\ <<a, b, c>>[3] = c
OBVIOUS

\* Every plan but that of a close locks the member.
LEMMA PlanFacts ==
    ASSUME NEW op \in Ops, NEW m \in Members
    PROVE  /\ Len(Plan(op, m)) \in Nat
           /\ op # "close" => \E i \in 1..Len(Plan(op, m)) :
                 Plan(op, m)[i] = [row |-> m, mode |-> "UPDATE"]
<1>1. CASE op \in {"create", "reverse"}
  <2> DEFINE s == [row |-> CashSession, mode |-> "KEY SHARE"]
             k == [row |-> m, mode |-> "KEY SHARE"]
             l == [row |-> m, mode |-> "UPDATE"]
  <2>1. Plan(op, m) = <<s, k, l>>
    BY <1>1 DEF Plan
  <2> HIDE DEF s, k, l
  <2>2. Len(Plan(op, m)) = 3 /\ Plan(op, m)[3] = l
    BY <2>1, Triple
  <2> QED
    BY <2>2 DEF l
<1>2. CASE op = "pay"
  <2>1. Plan(op, m) = <<[row |-> m, mode |-> "UPDATE"], [row |-> CashSession, mode |-> "UPDATE"]>>
    BY <1>2 DEF Plan
  <2> QED
    BY <2>1
<1>3. CASE op = "collect"
  <2>1. Plan(op, m) = <<[row |-> CashSession, mode |-> "UPDATE"], [row |-> m, mode |-> "UPDATE"]>>
    BY <1>3 DEF Plan
  <2> QED
    BY <2>1
<1>4. CASE op \in {"charge", "renew", "stop", "recalculate"}
  <2>1. Plan(op, m) = <<[row |-> m, mode |-> "UPDATE"]>>
    BY <1>4 DEF Plan
  <2> QED
    BY <2>1
<1>5. CASE op = "close"
  <2>1. Plan(op, m) = <<[row |-> CashSession, mode |-> "UPDATE"]>>
    BY <1>5 DEF Plan
  <2> QED
    BY <1>5, <2>1
<1> QED
  BY <1>1, <1>2, <1>3, <1>4, <1>5 DEF Ops

LEMMA PostingsType ==
    ASSUME NEW op \in Ops, NEW sums \in Postings(op)
    PROVE  sums \in Seq(Int) /\ (op \in {"close", "recalculate"} => sums = <<>>)
<1>1. Fee \in Int /\ \A a \in Amounts : a \in Int /\ -a \in Int /\ a + Fee \in Int
  OBVIOUS
<1>2. \A a, b \in Int : <<a>> \in Seq(Int) /\ <<a, b>> \in Seq(Int)
  OBVIOUS
<1>3. CASE op \in {"create", "reverse"}
  <2>1. Postings(op) = {<<a>> : a \in Amounts} \cup {<<-a>> : a \in Amounts}
    BY <1>3 DEF Postings
  <2> QED
    BY <1>1, <1>2, <1>3, <2>1
<1>4. CASE op = "pay"
  <2>1. Postings(op) = {<<a>> : a \in Amounts} \cup {<<-Fee, a + Fee>> : a \in Amounts}
    BY <1>4 DEF Postings
  <2>2. -Fee \in Int
    BY <1>1
  <2> QED
    BY <1>1, <1>2, <1>4, <2>1, <2>2
<1>5. CASE op = "collect"
  <2>1. Postings(op) = {<<-a, a>> : a \in Amounts}
    BY <1>5 DEF Postings
  <2>2. PICK a \in Amounts : sums = <<-a, a>>
    BY <2>1
  <2>3. -a \in Int /\ a \in Int
    BY <1>1
  <2> QED
    BY <1>2, <1>5, <2>2, <2>3
<1>6. CASE op \in {"charge", "renew"}
  <2>1. Postings(op) = {<<-a>> : a \in Amounts}
    BY <1>6 DEF Postings
  <2> QED
    BY <1>1, <1>2, <1>6, <2>1
<1>7. CASE op \in {"stop", "recalculate", "close"}
  <2>1. Postings(op) = {<<>>}
    BY <1>7 DEF Postings
  <2> QED
    BY <2>1
<1> QED
  BY <1>3, <1>4, <1>5, <1>6, <1>7 DEF Ops

\* A transaction that has posted holds the lock of its member, so nobody else
\* has posted to that member, nor may commit an entry of that member.
LEMMA OnePoster ==
    ASSUME IInv, NEW t \in Txs, NEW u \in Txs, t # u,
           Open(t), Open(u), ~Wants(t), tx[t].op # "close", tx[u].posted # <<>>
    PROVE  tx[t].member # tx[u].member
<1> DEFINE lock(m) == [row |-> m, mode |-> "UPDATE"]
<1>1. /\ TypeOK /\ Exclusion /\ PlanKept
  BY DEF IInv
<1>2. /\ tx[t].op \in Ops /\ tx[t].member \in Members /\ tx[t].held \in Nat
      /\ tx[u].op \in Ops /\ tx[u].member \in Members /\ tx[u].held \in Nat
  BY <1>1, OpenType
<1>3. /\ tx[t].held = Len(PlanOf(t))
      /\ tx[u].held = Len(PlanOf(u)) /\ tx[u].op # "close"
  <2>1. Len(PlanOf(t)) \in Nat
    BY <1>2, PlanFacts DEF PlanOf
  <2> QED
    BY <1>1, <1>2, <2>1 DEF PlanKept, Wants
<1>4. lock(tx[t].member) \in Holds(t)
  <2>1. PICK i \in 1..Len(PlanOf(t)) : PlanOf(t)[i] = lock(tx[t].member)
    BY <1>2, PlanFacts DEF PlanOf
  <2> QED
    BY <1>3, <2>1 DEF Holds
<1>5. lock(tx[u].member) \in Holds(u)
  <2>1. PICK i \in 1..Len(PlanOf(u)) : PlanOf(u)[i] = lock(tx[u].member)
    BY <1>2, <1>3, PlanFacts DEF PlanOf
  <2> QED
    BY <1>3, <2>1 DEF Holds
<1>6. ~Conflict(lock(tx[t].member), lock(tx[u].member))
  BY <1>1, <1>4, <1>5 DEF Exclusion
<1> QED
  BY <1>6 DEF Conflict

-----------------------------------------------------------------------------
(* The locks.                                                              *)

\* Slots that keep what the locks and the plans depend on.
LEMMA SameLocks ==
    ASSUME NEW t \in Txs, tx'[t].op = tx[t].op, tx'[t].member = tx[t].member,
           tx'[t].held = tx[t].held
    PROVE  /\ Open(t)' <=> Open(t)
           /\ PlanOf(t)' = PlanOf(t)
           /\ Holds(t)' = Holds(t)
BY DEF Open, PlanOf, Holds

LEMMA ExclusionStep ==
    ASSUME IInv, [Next]_vars
    PROVE  Exclusion'
<1>1. TypeOK /\ Exclusion
  BY DEF IInv
<1>2. ASSUME NEW t \in Txs, NEW op \in Ops, NEW m \in Members, NEW sums \in Postings(op),
             Begin(t, op, m, sums)
      PROVE  Exclusion'
  <2>1. tx' = [tx EXCEPT ![t] = [op |-> op, member |-> m, held |-> 0, stale |-> {},
                                 todo |-> sums, posted |-> <<>>]]
    BY <1>2 DEF Begin
  <2>2. tx'[t].held = 0 /\ \A u \in Txs \ {t} : tx'[u] = tx[u]
    BY <1>1, <2>1 DEF TypeOK
  <2>3. Holds(t)' = {}
    BY <2>2 DEF Holds
  <2>4. \A u \in Txs \ {t} : Holds(u)' = Holds(u) /\ (Open(u)' <=> Open(u))
    BY <2>2 DEF Holds, PlanOf, Open
  <2> QED
    BY <1>1, <2>3, <2>4 DEF Exclusion
<1>3. ASSUME NEW t \in Txs, TakeLock(t) PROVE Exclusion'
  <2>1. /\ Wants(t) /\ Blockers(t) = {} /\ tx' = [tx EXCEPT ![t].held = @ + 1]
    BY <1>3 DEF TakeLock
  <2>2. Open(t) /\ tx[t] \in Transaction /\ tx[t].held \in Nat
    BY <1>1, <2>1, OpenType DEF Wants
  <2>3. /\ tx'[t].held = tx[t].held + 1 /\ tx'[t].op = tx[t].op
        /\ tx'[t].member = tx[t].member
        /\ \A u \in Txs \ {t} : tx'[u] = tx[u]
    BY <1>1, <2>1, <2>2 DEF TypeOK, Transaction
  <2>4. Holds(t)' = Holds(t) \cup {Wanted(t)}
    BY <2>2, <2>3 DEF Holds, PlanOf, Wanted
  <2>5. \A u \in Txs \ {t} : Holds(u)' = Holds(u) /\ (Open(u)' <=> Open(u))
    BY <2>3 DEF Holds, PlanOf, Open
  <2>6. \A u \in Txs \ {t} : Open(u) => \A l \in Holds(u) : ~Conflict(l, Wanted(t))
    BY <2>1 DEF Blockers
  <2>7. \A l, k : Conflict(l, k) <=> Conflict(k, l)
    BY DEF Conflict
  <2> QED
    BY <1>1, <2>2, <2>4, <2>5, <2>6, <2>7 DEF Exclusion
<1>4. ASSUME NEW t \in Txs, PostEntry(t) PROVE Exclusion'
  <2>1. Open(t) /\ tx[t] \in Transaction
    BY <1>1, <1>4, OpenType DEF PostEntry
  <2>2. \A u \in Txs : /\ tx'[u].op = tx[u].op /\ tx'[u].member = tx[u].member
                       /\ tx'[u].held = tx[u].held
    BY <1>1, <1>4, <2>1 DEF PostEntry, TypeOK, Transaction
  <2> QED
    BY <1>1, <2>2, SameLocks DEF Exclusion
<1>5. ASSUME NEW t \in Txs, Commit(t) PROVE Exclusion'
  <2>1. tx' = [u \in Txs |-> IF u = t \/ ~Open(u) THEN Idle
                             ELSE [tx[u] EXCEPT !.stale = @ \cup UpdatedRows(t)]]
    BY <1>5 DEF Commit
  <2>2. \A u \in Txs : Open(u)' => /\ Open(u) /\ tx'[u].op = tx[u].op
                                   /\ tx'[u].member = tx[u].member
                                   /\ tx'[u].held = tx[u].held
    <3> SUFFICES ASSUME NEW u \in Txs, Open(u)'
                 PROVE  /\ Open(u) /\ tx'[u].op = tx[u].op
                        /\ tx'[u].member = tx[u].member /\ tx'[u].held = tx[u].held
      OBVIOUS
    <3>1. Open(u) /\ tx'[u] = [tx[u] EXCEPT !.stale = @ \cup UpdatedRows(t)]
      BY <2>1 DEF Open, Idle
    <3>2. tx[u] \in Transaction
      BY <1>1, <3>1, OpenType
    <3> QED
      BY <3>1, <3>2 DEF Transaction
  <2> QED
    BY <1>1, <2>2, SameLocks DEF Exclusion
<1>6. ASSUME NEW t \in Txs, Rollback(t) PROVE Exclusion'
  <2>1. \A u \in Txs : Open(u)' => Open(u) /\ tx'[u] = tx[u]
    BY <1>1, <1>6 DEF Rollback, Open, Idle, TypeOK
  <2> QED
    BY <1>1, <2>1, SameLocks DEF Exclusion
<1>7. CASE UNCHANGED vars
  BY <1>1, <1>7 DEF vars, Exclusion, Open, Holds, PlanOf
<1> QED
  BY <1>2, <1>3, <1>4, <1>5, <1>6, <1>7 DEF Next, Refused, Fails

-----------------------------------------------------------------------------
(* What each step does to the slots, once EXCEPT is worked out.            *)

LEMMA BeginFacts ==
    ASSUME TypeOK, NEW t \in Txs, NEW op \in Ops, NEW m \in Members,
           NEW sums \in Postings(op), Begin(t, op, m, sums)
    PROVE  /\ tx'[t] \in Transaction
           /\ tx'[t].op = op /\ tx'[t].member = m /\ tx'[t].held = 0
           /\ tx'[t].todo = sums /\ tx'[t].posted = <<>>
           /\ tx' = [tx EXCEPT ![t] = tx'[t]]
           /\ \A u \in Txs \ {t} : tx'[u] = tx[u]
<1> DEFINE new == [op |-> op, member |-> m, held |-> 0, stale |-> {},
                   todo |-> sums, posted |-> <<>>]
<1>1. new \in Transaction
  BY PostingsType DEF Transaction, Entry
<1>2. /\ new.op = op /\ new.member = m /\ new.held = 0
      /\ new.todo = sums /\ new.posted = <<>>
  OBVIOUS
<1>3. tx' = [tx EXCEPT ![t] = new]
  BY DEF Begin
<1> HIDE DEF new
<1> QED
  BY <1>1, <1>2, <1>3 DEF TypeOK

LEMMA TakeLockFacts ==
    ASSUME TypeOK, NEW t \in Txs, TakeLock(t)
    PROVE  /\ tx'[t] \in Transaction
           /\ tx'[t].op = tx[t].op /\ tx'[t].member = tx[t].member
           /\ tx'[t].held = tx[t].held + 1
           /\ tx'[t].todo = tx[t].todo /\ tx'[t].posted = tx[t].posted
           /\ tx' = [tx EXCEPT ![t] = tx'[t]]
           /\ \A u \in Txs \ {t} : tx'[u] = tx[u]
<1> DEFINE new == [tx[t] EXCEPT !.held = @ + 1]
<1>1. tx[t] \in Transaction
  BY OpenType DEF TakeLock, Wants
<1>2. tx[t].held + 1 \in Nat
  BY <1>1 DEF Transaction
<1>3. new \in Transaction
  BY <1>1, <1>2 DEF Transaction
<1>4. /\ new.op = tx[t].op /\ new.member = tx[t].member /\ new.held = tx[t].held + 1
      /\ new.todo = tx[t].todo /\ new.posted = tx[t].posted
  BY <1>1 DEF Transaction
<1>5. tx' = [tx EXCEPT ![t] = new]
  BY <1>1 DEF TakeLock, TypeOK
<1> HIDE DEF new
<1> QED
  BY <1>3, <1>4, <1>5 DEF TypeOK

LEMMA CurrentBalanceType ==
    ASSUME TypeOK, NEW t \in Txs, Open(t)
    PROVE  /\ CurrentBalance(t) \in Int
           /\ Len(tx[t].posted) \in Nat
           /\ CurrentBalance(t) = PostedFrom(t, Len(tx[t].posted))
<1>1. tx[t].posted \in Seq(Entry) /\ tx[t].member \in Members /\ balance \in [Members -> Int]
  BY OpenType DEF TypeOK
<1>2. CASE tx[t].posted = <<>>
  BY <1>1, <1>2 DEF CurrentBalance, PostedFrom
<1>3. CASE tx[t].posted # <<>>
  <2>1. /\ Len(tx[t].posted) \in Nat \ {0}
        /\ Last(tx[t].posted) = tx[t].posted[Len(tx[t].posted)]
        /\ tx[t].posted[Len(tx[t].posted)] \in Entry
    BY <1>1, <1>3 DEF Last
  <2> QED
    BY <1>3, <2>1 DEF CurrentBalance, PostedFrom, Entry
<1> QED
  BY <1>2, <1>3

LEMMA PostEntryFacts ==
    ASSUME TypeOK, NEW t \in Txs, PostEntry(t)
    PROVE  /\ tx'[t] \in Transaction
           /\ tx'[t].op = tx[t].op /\ tx'[t].member = tx[t].member
           /\ tx'[t].held = tx[t].held
           /\ Len(tx'[t].posted) = Len(tx[t].posted) + 1
           /\ \A i \in 1..Len(tx[t].posted) : tx'[t].posted[i] = tx[t].posted[i]
           /\ LET e == tx'[t].posted[Len(tx[t].posted) + 1]
              IN  e.balanceAfter = CurrentBalance(t) + e.sum
           /\ tx'[t].posted[Len(tx[t].posted) + 1].sum = Head(tx[t].todo)
           /\ tx'[t].todo = Tail(tx[t].todo)
           /\ tx' = [tx EXCEPT ![t] = tx'[t]]
           /\ \A u \in Txs \ {t} : tx'[u] = tx[u]
<1> DEFINE entry == [sum |-> Head(tx[t].todo),
                     balanceAfter |-> CurrentBalance(t) + Head(tx[t].todo)]
           new == [tx[t] EXCEPT !.todo = Tail(@), !.posted = Append(@, entry)]
<1>1. /\ tx[t] \in Transaction /\ Open(t)
      /\ tx[t].todo \in Seq(Int) /\ tx[t].todo # <<>> /\ tx[t].posted \in Seq(Entry)
  BY OpenType DEF PostEntry
<1>2. Head(tx[t].todo) \in Int /\ Tail(tx[t].todo) \in Seq(Int)
  BY <1>1
<1>3. /\ entry \in Entry /\ entry.balanceAfter = CurrentBalance(t) + entry.sum
      /\ entry.sum = Head(tx[t].todo)
  BY <1>1, <1>2, CurrentBalanceType DEF Entry
<1>4. tx' = [tx EXCEPT ![t] = new]
  BY <1>1 DEF PostEntry, TypeOK
<1> HIDE DEF entry
<1>5. /\ new \in Transaction
      /\ new.op = tx[t].op /\ new.member = tx[t].member /\ new.held = tx[t].held
      /\ new.posted = Append(tx[t].posted, entry) /\ new.todo = Tail(tx[t].todo)
  <2>1. Append(tx[t].posted, entry) \in Seq(Entry)
    BY <1>1, <1>3
  <2>2. new \in Transaction
    BY <1>1, <1>2, <2>1 DEF Transaction
  <2>3. /\ new.op = tx[t].op /\ new.member = tx[t].member /\ new.held = tx[t].held
        /\ new.posted = Append(tx[t].posted, entry) /\ new.todo = Tail(tx[t].todo)
    BY <1>1 DEF Transaction
  <2> QED
    BY <2>2, <2>3
<1> HIDE DEF new
<1>6. tx'[t] = new
  BY <1>4 DEF TypeOK
<1>7. /\ Len(new.posted) = Len(tx[t].posted) + 1
      /\ \A i \in 1..Len(tx[t].posted) : new.posted[i] = tx[t].posted[i]
      /\ new.posted[Len(tx[t].posted) + 1] = entry
  BY <1>1, <1>3, <1>5
<1> QED
  BY <1>3, <1>4, <1>5, <1>6, <1>7 DEF TypeOK

LEMMA CommitFacts ==
    ASSUME TypeOK, NEW t \in Txs, Commit(t)
    PROVE  /\ tx' \in [Txs -> Transaction \cup {Idle}]
           /\ \A u \in Txs : Open(u)' =>
                 /\ u # t /\ Open(u)
                 /\ tx'[u].op = tx[u].op /\ tx'[u].member = tx[u].member
                 /\ tx'[u].held = tx[u].held
                 /\ tx'[u].todo = tx[u].todo /\ tx'[u].posted = tx[u].posted
<1> DEFINE new(u) == [tx[u] EXCEPT !.stale = @ \cup UpdatedRows(t)]
<1>1. tx' = [u \in Txs |-> IF u = t \/ ~Open(u) THEN Idle ELSE new(u)]
  BY DEF Commit
<1>2. UpdatedRows(t) \subseteq Rows
  <2>1. tx[t].member \in Members
    BY OpenType DEF Commit
  <2> QED
    BY <2>1 DEF UpdatedRows, Rows
<1>3. ASSUME NEW u \in Txs, Open(u)
      PROVE  /\ new(u) \in Transaction
             /\ new(u).op = tx[u].op /\ new(u).member = tx[u].member
             /\ new(u).held = tx[u].held
             /\ new(u).todo = tx[u].todo /\ new(u).posted = tx[u].posted
  <2>1. tx[u] \in Transaction
    BY <1>3, OpenType
  <2> QED
    BY <1>2, <2>1 DEF Transaction
<1> HIDE DEF new
<1>4. \A u \in Txs : Open(u)' => u # t /\ Open(u) /\ tx'[u] = new(u)
  BY <1>1 DEF Open, Idle
<1>5. tx' \in [Txs -> Transaction \cup {Idle}]
  BY <1>1, <1>3
<1> QED
  BY <1>3, <1>4, <1>5

LEMMA RollbackFacts ==
    ASSUME TypeOK, NEW t \in Txs, Rollback(t)
    PROVE  /\ tx' \in [Txs -> Transaction \cup {Idle}]
           /\ \A u \in Txs : Open(u)' => Open(u) /\ tx'[u] = tx[u]
           /\ balance' = balance /\ ledger' = ledger /\ begun' = begun
BY DEF Rollback, Open, Idle, TypeOK

-----------------------------------------------------------------------------
(* The rest of the invariant.                                              *)

LEMMA ConcatParts ==
    ASSUME NEW S, NEW a \in Seq(S), NEW b \in Seq(S)
    PROVE  /\ a \o b \in Seq(S)
           /\ Len(a \o b) = Len(a) + Len(b)
           /\ \A i \in 1..Len(a) : (a \o b)[i] = a[i]
           /\ \A i \in 1..Len(b) : (a \o b)[Len(a) + i] = b[i]
<1>1. PICK n \in Nat, k \in Nat : n = Len(a) /\ k = Len(b)
  OBVIOUS
<1>2. /\ a \o b \in Seq(S) /\ Len(a \o b) = n + k
      /\ \A i \in 1..(n + k) : (a \o b)[i] = IF i <= n THEN a[i] ELSE b[i - n]
  BY <1>1, ConcatProperties
<1>3. \A i \in 1..n : i \in 1..(n + k) /\ i <= n
  OBVIOUS
<1>4. \A i \in 1..k : n + i \in 1..(n + k) /\ ~(n + i <= n) /\ (n + i) - n = i
  OBVIOUS
<1>5. /\ \A i \in 1..n : (a \o b)[i] = a[i]
      /\ \A i \in 1..k : (a \o b)[n + i] = b[i]
  BY <1>2, <1>3, <1>4
<1> QED
  BY <1>1, <1>2, <1>5

\* In a ledger that is a chain, the entries add up to the cached balance.
LEMMA LedgerAddsUp ==
    ASSUME TypeOK, LedgerChain, NEW m \in Members
    PROVE  LedgerSum(m) = balance[m]
<1>1. PICK n \in Nat, posts \in Seq(Entry) : posts = ledger[m] /\ n = Len(posts)
  BY DEF TypeOK
<1>2. PICK f : f = [i \in DOMAIN posts |-> posts[i].sum]
  OBVIOUS
<1>3. /\ DOMAIN posts = 1..n /\ DOMAIN f = 1..n
      /\ \A i \in 1..n : f[i] = posts[i].sum /\ f[i] \in Int /\ posts[i].balanceAfter \in Int
  <2>1. DOMAIN posts = 1..n /\ \A i \in 1..n : posts[i] \in Entry
    BY <1>1
  <2>2. DOMAIN f = 1..n /\ \A i \in 1..n : f[i] = posts[i].sum
    BY <1>2, <2>1
  <2> QED
    BY <2>1, <2>2 DEF Entry
<1>4. \A i \in 1..n : BalanceAfter(m, i) = BalanceAfter(m, i - 1) + f[i]
  BY <1>1, <1>3 DEF LedgerChain, BalanceAfter
<1>5. PICK N : N = {k \in Nat : k <= n => Sum(f, 1..k) = BalanceAfter(m, k)}
  OBVIOUS
<1>6. 0 \in N
  <2>1. 1..0 = {} /\ BalanceAfter(m, 0) = 0
    BY DEF BalanceAfter
  <2>2. Sum(f, 1..0) = 0
    BY <2>1, SumEmpty
  <2> QED
    BY <1>5, <2>1, <2>2
<1>7. ASSUME NEW k \in Nat, k \in N PROVE k + 1 \in N
  <2> SUFFICES ASSUME k + 1 <= n PROVE Sum(f, 1..(k + 1)) = BalanceAfter(m, k + 1)
    BY <1>5
  <2>1. Sum(f, 1..k) = BalanceAfter(m, k)
    BY <1>5, <1>7
  <2>2. (\A i \in 1..(k + 1) : f[i] \in Int) /\ k + 1 \in 1..n /\ (k + 1) - 1 = k
    BY <1>3
  <2>3. Sum(f, 1..(k + 1)) = Sum(f, 1..k) + f[k + 1]
    BY <2>2, SumExtends
  <2>4. BalanceAfter(m, k + 1) = BalanceAfter(m, k) + f[k + 1]
    BY <1>4, <2>2
  <2> QED
    BY <2>1, <2>3, <2>4
<1>8. n \in N
  BY <1>6, <1>7, UpToN
<1>9. Sum(f, 1..n) = balance[m]
  BY <1>1, <1>5, <1>8 DEF LedgerChain
<1>10. LedgerSum(m) = SumFunction(f)
  BY <1>1, <1>2 DEF LedgerSum
<1>11. SumFunction(f) = Sum(f, 1..n)
  BY <1>3, FS_Interval, SumFunctionOver
<1> QED
  BY <1>9, <1>10, <1>11

\* So a recalculation changes nothing, and a commit leaves the balance its
\* transaction last read or wrote.
LEMMA NewBalanceIs ==
    ASSUME IInv, NEW t \in Txs, Open(t)
    PROVE  NewBalance(t) = CurrentBalance(t)
<1>1. TypeOK /\ LedgerChain /\ PlanKept
  BY DEF IInv
<1>2. CASE tx[t].op = "recalculate"
  <2>1. tx[t].posted = <<>> /\ tx[t].member \in Members
    BY <1>1, <1>2, OpenType DEF PlanKept
  <2>2. CurrentBalance(t) = balance[tx[t].member]
    BY <2>1 DEF CurrentBalance
  <2> QED
    BY <1>1, <1>2, <2>1, <2>2, LedgerAddsUp DEF NewBalance
<1>3. CASE tx[t].op # "recalculate"
  BY <1>3 DEF NewBalance
<1> QED
  BY <1>2, <1>3

\* What a commit does to the ledger of its member.
LEMMA CommitLedger ==
    ASSUME IInv, NEW t \in Txs, Commit(t), NEW m, m = tx[t].member
    PROVE  /\ m \in Members /\ ledger[m] \in Seq(Entry) /\ tx[t].posted \in Seq(Entry)
           /\ ledger' \in [Members -> Seq(Entry)]
           /\ balance' \in [Members -> Int]
           /\ \A o \in Members \ {m} : ledger'[o] = ledger[o] /\ balance'[o] = balance[o]
           /\ balance'[m] = CurrentBalance(t)
           /\ ledger'[m] = ledger[m] \o tx[t].posted
<1>0. TypeOK
  BY DEF IInv
<1>1. m \in Members /\ tx[t].posted \in Seq(Entry) /\ Open(t) /\ ledger[m] \in Seq(Entry)
  <2>1. Open(t) /\ m \in Members /\ tx[t].posted \in Seq(Entry)
    BY <1>0, OpenType DEF Commit
  <2> QED
    BY <1>0, <2>1 DEF TypeOK
<1>2. /\ ledger' = [ledger EXCEPT ![m] = ledger[m] \o tx[t].posted]
      /\ balance' = [balance EXCEPT ![m] = CurrentBalance(t)]
  BY <1>0, <1>1, NewBalanceIs DEF Commit, TypeOK
<1>3. ledger[m] \o tx[t].posted \in Seq(Entry)
  BY <1>1, ConcatParts
<1>4. CurrentBalance(t) \in Int
  BY <1>0, <1>1, CurrentBalanceType
<1> QED
  BY <1>0, <1>1, <1>2, <1>3, <1>4 DEF TypeOK

LEMMA TypeOfOne ==
    ASSUME TypeOK, NEW t \in Txs, tx'[t] \in Transaction, tx' = [tx EXCEPT ![t] = tx'[t]],
           balance' = balance, ledger' = ledger, begun' \in Nat
    PROVE  TypeOK'
<1>1. tx' \in [Txs -> Transaction \cup {Idle}]
  BY DEF TypeOK
<1> QED
  BY <1>1 DEF TypeOK

LEMMA TypeStep ==
    ASSUME IInv, [Next]_vars
    PROVE  TypeOK'
<1>1. TypeOK
  BY DEF IInv
<1>2. ASSUME NEW t \in Txs, NEW op \in Ops, NEW m \in Members, NEW sums \in Postings(op),
             Begin(t, op, m, sums)
      PROVE  TypeOK'
  <2>1. tx'[t] \in Transaction /\ tx' = [tx EXCEPT ![t] = tx'[t]]
    BY <1>1, <1>2, BeginFacts
  <2>2. balance' = balance /\ ledger' = ledger /\ begun' \in Nat
    BY <1>1, <1>2 DEF Begin, TypeOK
  <2> QED
    BY <1>1, <2>1, <2>2, TypeOfOne
<1>3. ASSUME NEW t \in Txs, TakeLock(t) PROVE TypeOK'
  <2>1. tx'[t] \in Transaction /\ tx' = [tx EXCEPT ![t] = tx'[t]]
    BY <1>1, <1>3, TakeLockFacts
  <2>2. balance' = balance /\ ledger' = ledger /\ begun' \in Nat
    BY <1>1, <1>3 DEF TakeLock, TypeOK
  <2> QED
    BY <1>1, <2>1, <2>2, TypeOfOne
<1>4. ASSUME NEW t \in Txs, PostEntry(t) PROVE TypeOK'
  <2>1. tx'[t] \in Transaction /\ tx' = [tx EXCEPT ![t] = tx'[t]]
    BY <1>1, <1>4, PostEntryFacts
  <2>2. balance' = balance /\ ledger' = ledger /\ begun' \in Nat
    BY <1>1, <1>4 DEF PostEntry, TypeOK
  <2> QED
    BY <1>1, <2>1, <2>2, TypeOfOne
<1>5. ASSUME NEW t \in Txs, Commit(t) PROVE TypeOK'
  <2>1. tx' \in [Txs -> Transaction \cup {Idle}]
    BY <1>1, <1>5, CommitFacts
  <2>2. ledger' \in [Members -> Seq(Entry)] /\ balance' \in [Members -> Int]
    BY <1>1, <1>5, CommitLedger
  <2>3. begun' = begun
    BY <1>5 DEF Commit
  <2> QED
    BY <1>1, <2>1, <2>2, <2>3 DEF TypeOK
<1>6. ASSUME NEW t \in Txs, Rollback(t) PROVE TypeOK'
  BY <1>1, <1>6, RollbackFacts DEF TypeOK
<1>7. CASE UNCHANGED vars
  BY <1>1, <1>7 DEF vars, TypeOK
<1> QED
  BY <1>2, <1>3, <1>4, <1>5, <1>6, <1>7 DEF Next, Refused, Fails

LEMMA PlanKeptStep ==
    ASSUME IInv, [Next]_vars
    PROVE  PlanKept'
<1>1. TypeOK /\ PlanKept
  BY DEF IInv
<1>2. ASSUME NEW t \in Txs, NEW op \in Ops, NEW m \in Members, NEW sums \in Postings(op),
             Begin(t, op, m, sums)
      PROVE  PlanKept'
  <2>1. /\ tx'[t].op = op /\ tx'[t].member = m /\ tx'[t].held = 0
        /\ tx'[t].todo = sums /\ tx'[t].posted = <<>>
        /\ \A u \in Txs \ {t} : tx'[u] = tx[u]
    BY <1>1, <1>2, BeginFacts
  <2>2. op \in {"close", "recalculate"} => sums = <<>>
    BY PostingsType
  <2>3. PlanOf(t)' = Plan(op, m) /\ Len(Plan(op, m)) \in Nat
    BY <2>1, PlanFacts DEF PlanOf
  <2> QED
    BY <1>1, <2>1, <2>2, <2>3 DEF PlanKept, Open, PlanOf
<1>3. ASSUME NEW t \in Txs, TakeLock(t) PROVE PlanKept'
  <2>1. /\ tx'[t].op = tx[t].op /\ tx'[t].member = tx[t].member
        /\ tx'[t].held = tx[t].held + 1
        /\ tx'[t].todo = tx[t].todo /\ tx'[t].posted = tx[t].posted
        /\ \A u \in Txs \ {t} : tx'[u] = tx[u]
    BY <1>1, <1>3, TakeLockFacts
  <2>2. Open(t) /\ tx[t].held < Len(PlanOf(t))
    BY <1>3 DEF TakeLock, Wants
  <2>3. tx[t].held \in Nat /\ Len(PlanOf(t)) \in Nat
    BY <1>1, <2>2, OpenType, PlanFacts DEF PlanOf
  <2>4. tx[t].posted = <<>>
    BY <1>1, <2>2, <2>3 DEF PlanKept
  <2> QED
    BY <1>1, <2>1, <2>2, <2>3, <2>4 DEF PlanKept, Open, PlanOf
<1>4. ASSUME NEW t \in Txs, PostEntry(t) PROVE PlanKept'
  <2>1. /\ tx'[t].op = tx[t].op /\ tx'[t].member = tx[t].member
        /\ tx'[t].held = tx[t].held
        /\ \A u \in Txs \ {t} : tx'[u] = tx[u]
    BY <1>1, <1>4, PostEntryFacts
  <2>2. Open(t) /\ ~(tx[t].held < Len(PlanOf(t))) /\ tx[t].todo # <<>>
    BY <1>4 DEF PostEntry, Wants
  <2>3. tx[t].held \in Nat /\ Len(PlanOf(t)) \in Nat
    BY <1>1, <2>2, OpenType, PlanFacts DEF PlanOf
  <2>4. tx[t].op \notin {"close", "recalculate"} /\ tx[t].held = Len(PlanOf(t))
    BY <1>1, <2>2, <2>3 DEF PlanKept
  <2> QED
    BY <1>1, <2>1, <2>2, <2>3, <2>4 DEF PlanKept, Open, PlanOf
<1>5. ASSUME NEW t \in Txs, Commit(t) PROVE PlanKept'
  <2>1. \A u \in Txs : Open(u)' =>
           /\ Open(u)
           /\ tx'[u].op = tx[u].op /\ tx'[u].member = tx[u].member
           /\ tx'[u].held = tx[u].held
           /\ tx'[u].todo = tx[u].todo /\ tx'[u].posted = tx[u].posted
    BY <1>1, <1>5, CommitFacts
  <2> QED
    BY <1>1, <2>1 DEF PlanKept, PlanOf
<1>6. ASSUME NEW t \in Txs, Rollback(t) PROVE PlanKept'
  <2>1. \A u \in Txs : Open(u)' => Open(u) /\ tx'[u] = tx[u]
    BY <1>1, <1>6, RollbackFacts
  <2> QED
    BY <1>1, <2>1 DEF PlanKept, PlanOf
<1>7. CASE UNCHANGED vars
  BY <1>1, <1>7 DEF vars, PlanKept, Open, PlanOf
<1> QED
  BY <1>2, <1>3, <1>4, <1>5, <1>6, <1>7 DEF Next, Refused, Fails

\* The committed balance of a member does not move while a transaction has
\* entries posted to it: the one that would move it holds the same lock.
LEMMA PostedChainStep ==
    ASSUME IInv, [Next]_vars
    PROVE  PostedChain'
<1>1. TypeOK /\ PostedChain /\ PlanKept
  BY DEF IInv
<1>2. ASSUME NEW t \in Txs, NEW op \in Ops, NEW m \in Members, NEW sums \in Postings(op),
             Begin(t, op, m, sums)
      PROVE  PostedChain'
  <2>1. /\ tx'[t].posted = <<>> /\ \A u \in Txs \ {t} : tx'[u] = tx[u]
        /\ balance' = balance
    BY <1>1, <1>2, BeginFacts DEF Begin
  <2> QED
    BY <1>1, <2>1 DEF PostedChain, PostedFrom, Open
<1>3. ASSUME NEW t \in Txs, TakeLock(t) PROVE PostedChain'
  <2>1. /\ tx'[t].op = tx[t].op /\ tx'[t].member = tx[t].member
        /\ tx'[t].posted = tx[t].posted
        /\ \A u \in Txs \ {t} : tx'[u] = tx[u]
    BY <1>1, <1>3, TakeLockFacts
  <2>2. balance' = balance
    BY <1>3 DEF TakeLock
  <2> QED
    BY <1>1, <2>1, <2>2 DEF PostedChain, PostedFrom, Open
<1>4. ASSUME NEW t \in Txs, PostEntry(t) PROVE PostedChain'
  <2> DEFINE k == Len(tx[t].posted)
             p == tx'[t].posted
  <2>1. /\ tx'[t].member = tx[t].member
        /\ Len(p) = k + 1
        /\ \A i \in 1..k : p[i] = tx[t].posted[i]
        /\ p[k + 1].balanceAfter = CurrentBalance(t) + p[k + 1].sum
        /\ tx'[t] \in Transaction
        /\ \A u \in Txs \ {t} : tx'[u] = tx[u]
    BY <1>1, <1>4, PostEntryFacts
  <2>2. balance' = balance /\ Open(t)
    BY <1>4 DEF PostEntry
  <2>3. k \in Nat /\ CurrentBalance(t) = PostedFrom(t, k) /\ tx[t].posted \in Seq(Entry)
    BY <1>1, <2>2, CurrentBalanceType, OpenType
  <2>4. p \in Seq(Entry)
    BY <2>1 DEF Transaction
  <2>5. \A i \in 1..k : tx[t].posted[i].balanceAfter = PostedFrom(t, i - 1) + tx[t].posted[i].sum
    BY <1>1, <2>2, <2>3 DEF PostedChain
  <2>6. \A i \in 0..k : PostedFrom(t, i)' = PostedFrom(t, i)
    BY <2>1, <2>2, <2>3 DEF PostedFrom
  <2>7. \A i \in 1..(k + 1) : p[i].balanceAfter = PostedFrom(t, i - 1)' + p[i].sum
    <3> HIDE DEF k, p
    <3> SUFFICES ASSUME NEW i \in 1..(k + 1)
                 PROVE  p[i].balanceAfter = PostedFrom(t, i - 1)' + p[i].sum
      OBVIOUS
    <3>1. CASE i = k + 1
      <4>1. i - 1 = k /\ k \in 0..k
        BY <2>3, <3>1
      <4> QED
        BY <2>1, <2>3, <2>6, <3>1, <4>1
    <3>2. CASE i \in 1..k
      <4>1. i - 1 \in 0..k
        BY <2>3, <3>2
      <4> QED
        BY <2>1, <2>5, <2>6, <3>2, <4>1
    <3> QED
      BY <2>3, <3>1, <3>2
  <2>8. DOMAIN p = 1..(k + 1)
    BY <2>1, <2>3, <2>4
  <2>9. \A u \in Txs \ {t} : Open(u)' => \A i \in DOMAIN tx'[u].posted :
           tx'[u].posted[i].balanceAfter = PostedFrom(u, i - 1)' + tx'[u].posted[i].sum
    BY <1>1, <2>1, <2>2 DEF PostedChain, PostedFrom, Open
  <2> QED
    BY <2>7, <2>8, <2>9 DEF PostedChain
<1>5. ASSUME NEW t \in Txs, Commit(t) PROVE PostedChain'
  <2> SUFFICES ASSUME NEW u \in Txs, Open(u)', NEW i \in DOMAIN tx'[u].posted
               PROVE  tx'[u].posted[i].balanceAfter = PostedFrom(u, i - 1)' + tx'[u].posted[i].sum
    BY DEF PostedChain
  <2>1. /\ u # t /\ Open(u)
        /\ tx'[u].member = tx[u].member /\ tx'[u].posted = tx[u].posted
    BY <1>1, <1>5, CommitFacts
  <2>2. tx[u].posted # <<>> /\ tx[u].member \in Members
    BY <1>1, <2>1, OpenType
  <2>3. balance'[tx[u].member] = balance[tx[u].member]
    <3>1. /\ Open(t) /\ ~Wants(t)
          /\ \A o \in Members \ {tx[t].member} : balance'[o] = balance[o]
          /\ balance'[tx[t].member] = CurrentBalance(t)
      BY <1>1, <1>5, CommitLedger DEF Commit
    <3>2. CASE tx[t].op = "close"
      <4>1. CurrentBalance(t) = balance[tx[t].member]
        BY <1>1, <3>1, <3>2 DEF PlanKept, CurrentBalance
      <4> QED
        BY <2>2, <3>1, <4>1
    <3>3. CASE tx[t].op # "close"
      <4>1. tx[t].member # tx[u].member
        BY <2>1, <2>2, <3>1, <3>3, OnePoster
      <4> QED
        BY <2>2, <3>1, <4>1
    <3> QED
      BY <3>2, <3>3
  <2> QED
    BY <1>1, <2>1, <2>3 DEF PostedChain, PostedFrom
<1>6. ASSUME NEW t \in Txs, Rollback(t) PROVE PostedChain'
  <2>1. /\ \A u \in Txs : Open(u)' => Open(u) /\ tx'[u] = tx[u]
        /\ balance' = balance
    BY <1>1, <1>6, RollbackFacts
  <2> QED
    BY <1>1, <2>1 DEF PostedChain, PostedFrom
<1>7. CASE UNCHANGED vars
  BY <1>1, <1>7 DEF vars, PostedChain, PostedFrom, Open
<1> QED
  BY <1>2, <1>3, <1>4, <1>5, <1>6, <1>7 DEF Next, Refused, Fails

LEMMA LedgerChainStep ==
    ASSUME IInv, [Next]_vars
    PROVE  LedgerChain'
<1>1. TypeOK /\ LedgerChain /\ PostedChain
  BY DEF IInv
<1>2. CASE balance' = balance /\ ledger' = ledger
  BY <1>1, <1>2 DEF LedgerChain, BalanceAfter
<1>3. ASSUME NEW t \in Txs, Commit(t) PROVE LedgerChain'
  <2>1. PICK m : /\ m = tx[t].member
                 /\ m \in Members /\ ledger[m] \in Seq(Entry) /\ tx[t].posted \in Seq(Entry)
                 /\ ledger' \in [Members -> Seq(Entry)]
                 /\ \A o \in Members \ {m} : ledger'[o] = ledger[o] /\ balance'[o] = balance[o]
                 /\ balance'[m] = CurrentBalance(t)
                 /\ ledger'[m] = ledger[m] \o tx[t].posted
    BY <1>1, <1>3, CommitLedger
  <2>2. PICK n \in Nat, k \in Nat : n = Len(ledger[m]) /\ k = Len(tx[t].posted)
    BY <2>1
  <2>3. /\ Len(ledger'[m]) = n + k
        /\ \A i \in 1..n : ledger'[m][i] = ledger[m][i]
        /\ \A i \in 1..k : ledger'[m][n + i] = tx[t].posted[i]
        /\ DOMAIN ledger'[m] = 1..(n + k)
    <3> DEFINE a == ledger[m]
               b == tx[t].posted
    <3>1. a \in Seq(Entry) /\ b \in Seq(Entry) /\ n = Len(a) /\ k = Len(b) /\ ledger'[m] = a \o b
      BY <2>1, <2>2
    <3> HIDE DEF a, b
    <3>2. /\ a \o b \in Seq(Entry)
          /\ Len(a \o b) = n + k
          /\ \A i \in 1..n : (a \o b)[i] = a[i]
          /\ \A i \in 1..k : (a \o b)[n + i] = b[i]
      BY <3>1, ConcatParts
    <3>3. DOMAIN (a \o b) = 1..(n + k)
      BY <3>2
    <3> QED
      BY <3>1, <3>2, <3>3 DEF a, b
  <2>4. CurrentBalance(t) = PostedFrom(t, k)
    BY <1>1, <1>3, <2>2, CurrentBalanceType DEF Commit
  <2>5. /\ \A i \in 1..n : ledger[m][i].balanceAfter = BalanceAfter(m, i - 1) + ledger[m][i].sum
        /\ balance[m] = BalanceAfter(m, n)
    BY <1>1, <2>1, <2>2 DEF LedgerChain
  <2>6. \A i \in 1..k : tx[t].posted[i].balanceAfter = PostedFrom(t, i - 1) + tx[t].posted[i].sum
    <3>1. Open(t)
      BY <1>3 DEF Commit
    <3>2. DOMAIN tx[t].posted = 1..k
      BY <2>1, <2>2
    <3> QED
      BY <1>1, <3>1, <3>2 DEF PostedChain
  <2>7. \A i \in 0..n : BalanceAfter(m, i)' = BalanceAfter(m, i)
    BY <2>3 DEF BalanceAfter
  <2>8. \A i \in 0..k : BalanceAfter(m, n + i)' = PostedFrom(t, i)
    <3> SUFFICES ASSUME NEW i \in 0..k PROVE BalanceAfter(m, n + i)' = PostedFrom(t, i)
      OBVIOUS
    <3>1. CASE i = 0
      <4>1. n + i = n /\ n \in 0..n
        BY <3>1
      <4>2. BalanceAfter(m, n + i)' = balance[m]
        BY <2>5, <2>7, <4>1
      <4> QED
        BY <2>1, <3>1, <4>2 DEF PostedFrom
    <3>2. CASE i # 0
      <4>1. i \in 1..k /\ n + i # 0
        BY <3>2
      <4> QED
        BY <2>3, <3>2, <4>1 DEF BalanceAfter, PostedFrom
    <3> QED
      BY <3>1, <3>2
  <2>9. \A i \in 1..(n + k) :
           ledger'[m][i].balanceAfter = BalanceAfter(m, i - 1)' + ledger'[m][i].sum
    <3> SUFFICES ASSUME NEW i \in 1..(n + k)
                 PROVE  ledger'[m][i].balanceAfter = BalanceAfter(m, i - 1)' + ledger'[m][i].sum
      OBVIOUS
    <3>1. CASE i <= n
      <4>1. i \in 1..n /\ i - 1 \in 0..n
        BY <3>1
      <4> QED
        BY <2>3, <2>5, <2>7, <4>1
    <3>2. CASE i > n
      <4>1. PICK j \in 1..k : i = n + j /\ j - 1 \in 0..k /\ n + (j - 1) = i - 1
        <5>1. i - n \in 1..k /\ i = n + (i - n) /\ (i - n) - 1 \in 0..k
              /\ n + ((i - n) - 1) = i - 1
          BY <3>2
        <5> QED
          BY <5>1
      <4>2. ledger'[m][i] = tx[t].posted[j]
        BY <2>3, <4>1
      <4>3. BalanceAfter(m, i - 1)' = PostedFrom(t, j - 1)
        <5>1. BalanceAfter(m, n + (j - 1))' = PostedFrom(t, j - 1)
          BY <2>8, <4>1
        <5> QED
          BY <4>1, <5>1
      <4>4. tx[t].posted[j].balanceAfter = PostedFrom(t, j - 1) + tx[t].posted[j].sum
        BY <2>6
      <4> QED
        BY <4>2, <4>3, <4>4
    <3> QED
      BY <3>1, <3>2
  <2>10. balance'[m] = BalanceAfter(m, Len(ledger[m]))'
    <3>1. BalanceAfter(m, n + k)' = PostedFrom(t, k)
      BY <2>8
    <3>2. BalanceAfter(m, Len(ledger[m]))' = BalanceAfter(m, n + k)'
      BY <2>3 DEF BalanceAfter
    <3> QED
      BY <2>1, <2>4, <3>1, <3>2
  <2>11. \A o \in Members \ {m} :
            /\ \A i \in DOMAIN ledger'[o] :
                  ledger'[o][i].balanceAfter = BalanceAfter(o, i - 1)' + ledger'[o][i].sum
            /\ balance'[o] = BalanceAfter(o, Len(ledger[o]))'
    BY <1>1, <2>1 DEF LedgerChain, BalanceAfter
  <2> QED
    BY <2>3, <2>9, <2>10, <2>11 DEF LedgerChain
<1>4. (balance' = balance /\ ledger' = ledger) \/ \E t \in Txs : Commit(t)
  <2>1. CASE UNCHANGED vars
    BY <2>1 DEF vars
  <2>2. CASE Next
    BY <2>2, Zenon DEF Next, Begin, TakeLock, PostEntry, Refused, Fails, Rollback
  <2> QED
    BY <2>1, <2>2
<1> QED
  BY <1>2, <1>3, <1>4

-----------------------------------------------------------------------------
(* The batches.                                                            *)

LEMMA BatchOfTwo ==
    ASSUME NEW op \in Ops, NEW sums \in Postings(op)
    PROVE  sums \in Seq(Int) /\ Len(sums) \in 0..2
<1>1. sums \in Seq(Int)
  BY PostingsType
<1>2. \A a, b : Len(<<a>>) = 1 /\ Len(<<a, b>>) = 2
  OBVIOUS
<1>3. CASE op \in {"create", "reverse"}
  <2>1. Postings(op) = {<<a>> : a \in Amounts} \cup {<<-a>> : a \in Amounts}
    BY <1>3 DEF Postings
  <2>2. Len(sums) = 1
    BY <1>2, <2>1, Zenon
  <2> QED
    BY <1>1, <2>2
<1>4. CASE op = "pay"
  <2>1. Postings(op) = {<<a>> : a \in Amounts} \cup {<<-Fee, a + Fee>> : a \in Amounts}
    BY <1>4 DEF Postings
  <2>2. Len(sums) = 1 \/ Len(sums) = 2
    BY <1>2, <2>1, Zenon
  <2> QED
    BY <1>1, <2>2
<1>5. CASE op = "collect"
  <2>1. Postings(op) = {<<-a, a>> : a \in Amounts}
    BY <1>5 DEF Postings
  <2>2. Len(sums) = 2
    BY <1>2, <2>1, Zenon
  <2> QED
    BY <1>1, <2>2
<1>6. CASE op \in {"charge", "renew"}
  <2>1. Postings(op) = {<<-a>> : a \in Amounts}
    BY <1>6 DEF Postings
  <2>2. Len(sums) = 1
    BY <1>2, <2>1, Zenon
  <2> QED
    BY <1>1, <2>2
<1>7. CASE op \in {"stop", "recalculate", "close"}
  <2>1. Postings(op) = {<<>>}
    BY <1>7 DEF Postings
  <2> QED
    BY <1>1, <2>1
<1> QED
  BY <1>3, <1>4, <1>5, <1>6, <1>7 DEF Ops

\* An entry posted is the next sum of the batch.
LEMMA BatchGoesOn ==
    ASSUME NEW batch, NEW posted \in Seq(Entry), NEW todo \in Seq(Int),
           IsBatch(batch, posted, todo),
           NEW p \in Seq(Entry), Len(p) = Len(posted) + 1,
           \A i \in 1..Len(posted) : p[i] = posted[i],
           p[Len(posted) + 1].sum = todo[1],
           NEW rest \in Seq(Int), Len(todo) = Len(rest) + 1,
           \A i \in 1..Len(rest) : rest[i] = todo[i + 1]
    PROVE  IsBatch(batch, p, rest)
<1>1. PICK n \in Nat, k \in Nat : n = Len(posted) /\ k = Len(rest)
  OBVIOUS
<1>2. /\ DOMAIN posted = 1..n /\ DOMAIN todo = 1..(k + 1)
      /\ DOMAIN p = 1..(n + 1) /\ DOMAIN rest = 1..k
  BY <1>1
<1>3. /\ Len(batch) = n + (k + 1)
      /\ \A i \in 1..n : posted[i].sum = batch[i]
      /\ \A i \in 1..(k + 1) : todo[i] = batch[n + i]
  BY <1>1, <1>2 DEF IsBatch
<1>4. Len(batch) = Len(p) + Len(rest)
  BY <1>1, <1>3
<1>5. \A i \in 1..(n + 1) : p[i].sum = batch[i]
  <2>1. p[n + 1].sum = batch[n + 1]
    BY <1>1, <1>3
  <2>2. \A i \in 1..n : p[i].sum = batch[i]
    BY <1>1, <1>3
  <2> SUFFICES ASSUME NEW i \in 1..(n + 1) PROVE p[i].sum = batch[i]
    OBVIOUS
  <2>3. i = n + 1 \/ i \in 1..n
    OBVIOUS
  <2> QED
    BY <2>1, <2>2, <2>3, Zenon
<1>6. \A i \in 1..k : rest[i] = batch[(n + 1) + i]
  <2> SUFFICES ASSUME NEW i \in 1..k PROVE rest[i] = batch[(n + 1) + i]
    OBVIOUS
  <2>1. i + 1 \in 1..(k + 1) /\ n + (i + 1) = (n + 1) + i
    OBVIOUS
  <2>2. todo[i + 1] = batch[n + (i + 1)]
    BY <1>3, <2>1
  <2> QED
    BY <1>1, <2>1, <2>2
<1>7. Len(p) = n + 1
  BY <1>1
<1> QED
  BY <1>2, <1>4, <1>5, <1>6, <1>7 DEF IsBatch

LEMMA BatchesStep ==
    ASSUME IInv, [Next]_vars
    PROVE  BatchesKept'
<1>1. TypeOK /\ BatchesKept
  BY DEF IInv
<1>2. ASSUME NEW t \in Txs, NEW op \in Ops, NEW m \in Members, NEW sums \in Postings(op),
             Begin(t, op, m, sums)
      PROVE  BatchesKept'
  <2>1. /\ tx'[t].op = op /\ tx'[t].todo = sums /\ tx'[t].posted = <<>>
        /\ \A u \in Txs \ {t} : tx'[u] = tx[u]
    BY <1>1, <1>2, BeginFacts
  <2>2. IsBatch(sums, <<>>, sums)
    <3>1. sums \in Seq(Int)
      BY PostingsType
    <3>2. Len(<<>>) = 0 /\ DOMAIN <<>> = {} /\ Len(sums) \in Nat
          /\ \A i \in DOMAIN sums : 0 + i = i
      BY <3>1
    <3> QED
      BY <3>1, <3>2 DEF IsBatch
  <2> QED
    BY <1>1, <2>1, <2>2 DEF BatchesKept, Open
<1>3. ASSUME NEW t \in Txs, TakeLock(t) PROVE BatchesKept'
  <2>1. /\ tx'[t].op = tx[t].op
        /\ tx'[t].todo = tx[t].todo /\ tx'[t].posted = tx[t].posted
        /\ \A u \in Txs \ {t} : tx'[u] = tx[u]
    BY <1>1, <1>3, TakeLockFacts
  <2> QED
    BY <1>1, <2>1 DEF BatchesKept, Open
<1>4. ASSUME NEW t \in Txs, PostEntry(t) PROVE BatchesKept'
  <2>1. /\ tx'[t].op = tx[t].op
        /\ tx'[t] \in Transaction
        /\ Len(tx'[t].posted) = Len(tx[t].posted) + 1
        /\ \A i \in 1..Len(tx[t].posted) : tx'[t].posted[i] = tx[t].posted[i]
        /\ tx'[t].posted[Len(tx[t].posted) + 1].sum = Head(tx[t].todo)
        /\ tx'[t].todo = Tail(tx[t].todo)
        /\ \A u \in Txs \ {t} : tx'[u] = tx[u]
    BY <1>1, <1>4, PostEntryFacts
  <2>2. /\ Open(t) /\ tx[t].todo # <<>>
        /\ tx[t].todo \in Seq(Int) /\ tx[t].posted \in Seq(Entry)
    BY <1>1, <1>4, OpenType DEF PostEntry
  <2>3. tx'[t].posted \in Seq(Entry)
    BY <2>1 DEF Transaction
  <2>4. PICK batch \in Postings(tx[t].op) : IsBatch(batch, tx[t].posted, tx[t].todo)
    BY <1>1, <2>2 DEF BatchesKept
  <2>5. IsBatch(batch, tx'[t].posted, tx'[t].todo)
    <3>1. PICK todo \in Seq(Int), rest \in Seq(Int) : todo = tx[t].todo /\ rest = tx'[t].todo
      BY <2>1, <2>2 DEF Transaction
    <3>2. /\ Head(todo) = todo[1] /\ Len(todo) = Len(rest) + 1
          /\ \A i \in 1..Len(rest) : rest[i] = todo[i + 1]
      BY <2>1, <2>2, <3>1, HeadTailProperties
    <3>3. PICK posted \in Seq(Entry), p \in Seq(Entry) :
             posted = tx[t].posted /\ p = tx'[t].posted
      BY <2>2, <2>3
    <3>4. IsBatch(batch, p, rest)
      <4>1. /\ IsBatch(batch, posted, todo)
            /\ Len(p) = Len(posted) + 1
            /\ \A i \in 1..Len(posted) : p[i] = posted[i]
            /\ p[Len(posted) + 1].sum = todo[1]
        BY <2>1, <2>4, <3>1, <3>2, <3>3, Zenon
      <4> QED
        BY <3>2, <4>1, BatchGoesOn
    <3> QED
      BY <3>1, <3>3, <3>4
  <2> QED
    BY <1>1, <2>1, <2>4, <2>5 DEF BatchesKept, Open
<1>5. ASSUME NEW t \in Txs, Commit(t) PROVE BatchesKept'
  <2>1. \A u \in Txs : Open(u)' =>
           /\ Open(u) /\ tx'[u].op = tx[u].op
           /\ tx'[u].todo = tx[u].todo /\ tx'[u].posted = tx[u].posted
    BY <1>1, <1>5, CommitFacts
  <2> QED
    BY <1>1, <2>1 DEF BatchesKept
<1>6. ASSUME NEW t \in Txs, Rollback(t) PROVE BatchesKept'
  <2>1. \A u \in Txs : Open(u)' => Open(u) /\ tx'[u] = tx[u]
    BY <1>1, <1>6, RollbackFacts
  <2> QED
    BY <1>1, <2>1 DEF BatchesKept
<1>7. CASE UNCHANGED vars
  BY <1>1, <1>7 DEF vars, BatchesKept, Open
<1> QED
  BY <1>2, <1>3, <1>4, <1>5, <1>6, <1>7 DEF Next, Refused, Fails

-----------------------------------------------------------------------------
(* The theorems.                                                           *)

LEMMA InitIInv == Init => IInv
<1> SUFFICES ASSUME Init PROVE IInv
  OBVIOUS
<1>1. /\ balance = [m \in Members |-> 0] /\ ledger = [m \in Members |-> <<>>]
      /\ tx = [t \in Txs |-> Idle] /\ begun = 0
  BY DEF Init
<1>2. \A t \in Txs : ~Open(t)
  BY <1>1 DEF Open, Idle
<1>3. TypeOK
  BY <1>1 DEF TypeOK
<1>4. Exclusion /\ PlanKept /\ PostedChain /\ BatchesKept
  BY <1>2 DEF Exclusion, PlanKept, PostedChain, BatchesKept
<1>5. LedgerChain
  BY <1>1 DEF LedgerChain, BalanceAfter
<1> QED
  BY <1>3, <1>4, <1>5 DEF IInv

LEMMA NextIInv == IInv /\ [Next]_vars => IInv'
BY TypeStep, ExclusionStep, PlanKeptStep, PostedChainStep, BatchesStep, LedgerChainStep DEF IInv

\* The inductive invariant holds in every behaviour.
THEOREM Inductive == Spec => []IInv
BY InitIInv, NextIInv, PTL DEF Spec

\* Rows and transactions keep their shape.
THEOREM TypeCorrect == Spec => []TypeOK
BY Inductive, PTL DEF IInv

\* Two transactions never hold locks that conflict.
THEOREM ExclusionHolds == Spec => []Exclusion
BY Inductive, PTL DEF IInv

\* No balance update is lost: the entries of every member form a chain that
\* ends in the cached balance, however many transactions post to it.
THEOREM LedgerChainHolds == Spec => []LedgerChain
BY Inductive, PTL DEF IInv

-----------------------------------------------------------------------------
(* The ledger implements the account.                                      *)

SumsOf(posts) == [i \in DOMAIN posts |-> posts[i].sum]

AccountOf(b, l) == [m \in Members |-> [balance |-> b[m], sums |-> SumsOf(l[m])]]

LEMMA AccountIs ==
    /\ accountOf = AccountOf(balance, ledger)
    /\ accountOf' = AccountOf(balance', ledger')
BY DEF accountOf, AccountOf, SumsOf

LEMMA SumsType ==
    ASSUME NEW posts \in Seq(Entry)
    PROVE  /\ SumsOf(posts) \in Seq(Int) /\ Len(SumsOf(posts)) = Len(posts)
           /\ \A i \in 1..Len(posts) : SumsOf(posts)[i] = posts[i].sum
<1>1. PICK n \in Nat : n = Len(posts)
  OBVIOUS
<1>2. DOMAIN posts = 1..n /\ \A i \in 1..n : posts[i] \in Entry
  BY <1>1
<1>3. \A i \in 1..n : posts[i].sum \in Int
  BY <1>2 DEF Entry
<1>4. SumsOf(posts) = [i \in 1..n |-> posts[i].sum]
  BY <1>2 DEF SumsOf
<1> QED
  BY <1>1, <1>3, <1>4

\* A sequence that starts with u and goes on with v is their concatenation.
LEMMA ConcatIs ==
    ASSUME NEW S, NEW u \in Seq(S), NEW v \in Seq(S), NEW w \in Seq(S),
           Len(w) = Len(u) + Len(v),
           \A i \in 1..Len(u) : w[i] = u[i],
           \A k \in 1..Len(v) : w[Len(u) + k] = v[k]
    PROVE  w = u \o v
<1>1. /\ u \o v \in Seq(S)
      /\ Len(u \o v) = Len(u) + Len(v)
      /\ \A i \in 1..(Len(u) + Len(v)) :
            (u \o v)[i] = IF i <= Len(u) THEN u[i] ELSE v[i - Len(u)]
  BY ConcatProperties
<1>2. PICK c \in Seq(S) : c = u \o v
  BY <1>1
<1>3. Len(u) \in Nat /\ Len(v) \in Nat
  OBVIOUS
<1>4. \A i \in 1..Len(w) : w[i] = c[i]
  <2> SUFFICES ASSUME NEW i \in 1..Len(w) PROVE w[i] = c[i]
    OBVIOUS
  <2>1. c[i] = IF i <= Len(u) THEN u[i] ELSE v[i - Len(u)]
    BY <1>1, <1>2
  <2>2. CASE i <= Len(u)
    BY <1>3, <2>1, <2>2
  <2>3. CASE ~(i <= Len(u))
    <3>1. i - Len(u) \in 1..Len(v) /\ Len(u) + (i - Len(u)) = i
      BY <1>3, <2>3
    <3>2. w[Len(u) + (i - Len(u))] = v[i - Len(u)]
      BY <3>1
    <3> QED
      BY <2>1, <2>3, <3>1, <3>2
  <2> QED
    BY <2>2, <2>3
<1>5. Len(w) = Len(c)
  BY <1>1, <1>2
<1>6. w = c
  BY <1>4, <1>5, SeqEqual
<1> QED
  BY <1>2, <1>6

\* The sums of the entries posted follow those of the ledger.
LEMMA SumsConcat ==
    ASSUME NEW posts \in Seq(Entry), NEW posted \in Seq(Entry), NEW batch \in Seq(Int),
           Len(batch) = Len(posted), \A i \in 1..Len(posted) : posted[i].sum = batch[i]
    PROVE  SumsOf(posts \o posted) = SumsOf(posts) \o batch
<1>1. PICK n \in Nat, k \in Nat : n = Len(posts) /\ k = Len(posted)
  OBVIOUS
<1>2. PICK all \in Seq(Entry) : all = posts \o posted
  BY ConcatParts
<1>3. /\ Len(all) = n + k
      /\ \A i \in 1..n : all[i] = posts[i]
      /\ \A i \in 1..k : all[n + i] = posted[i]
  BY <1>1, <1>2, ConcatParts
<1>4. PICK a \in Seq(Int), c \in Seq(Int) : a = SumsOf(posts) /\ c = SumsOf(all)
  BY SumsType
<1>5. /\ Len(a) = n /\ Len(c) = n + k
      /\ \A i \in 1..n : a[i] = posts[i].sum
      /\ \A i \in 1..(n + k) : c[i] = all[i].sum
  BY <1>1, <1>3, <1>4, SumsType
<1>6. \A i \in 1..n : c[i] = a[i]
  <2> SUFFICES ASSUME NEW i \in 1..n PROVE c[i] = a[i]
    OBVIOUS
  <2>1. i \in 1..(n + k)
    OBVIOUS
  <2>2. c[i] = all[i].sum /\ all[i] = posts[i] /\ a[i] = posts[i].sum
    BY <1>3, <1>5, <2>1
  <2> QED
    BY <2>2
<1>7. \A i \in 1..k : c[n + i] = batch[i]
  <2> SUFFICES ASSUME NEW i \in 1..k PROVE c[n + i] = batch[i]
    OBVIOUS
  <2>1. n + i \in 1..(n + k)
    OBVIOUS
  <2>2. c[n + i] = all[n + i].sum /\ all[n + i] = posted[i] /\ posted[i].sum = batch[i]
    BY <1>1, <1>3, <1>5, <2>1
  <2> QED
    BY <2>2
<1>8. /\ Len(c) = Len(a) + Len(batch)
      /\ \A i \in 1..Len(a) : c[i] = a[i]
      /\ \A i \in 1..Len(batch) : c[Len(a) + i] = batch[i]
  BY <1>1, <1>5, <1>6, <1>7
<1>9. c = a \o batch
  BY <1>8, ConcatIs
<1> QED
  BY <1>2, <1>4, <1>9

\* The balance after a batch of at most two sums, read off any function that
\* adds them up one by one.
LEMMA RunningIs ==
    ASSUME NEW from, NEW batch, Len(batch) \in 0..2, NEW g,
           g = [i \in 0..Len(batch) |-> IF i = 0 THEN from ELSE g[i - 1] + batch[i]]
    PROVE  Account!Running(from, batch)[Len(batch)] = g[Len(batch)]
<1> DEFINE Adds(f) ==
        f = [i \in 0..Len(batch) |-> IF i = 0 THEN from ELSE f[i - 1] + batch[i]]
<1>1. Account!Running(from, batch) = CHOOSE f : Adds(f)
  BY DEF Account!Running
<1>2. Adds(Account!Running(from, batch))
  <2>1. Adds(g)
    OBVIOUS
  <2> HIDE DEF Adds
  <2> QED
    BY <1>1, <2>1
<1>3. PICK f : f = Account!Running(from, batch) /\ Adds(f)
  BY <1>2
<1>4. PICK n \in 0..2 : n = Len(batch)
  OBVIOUS
<1>5. \A i \in 0..n : f[i] = IF i = 0 THEN from ELSE f[i - 1] + batch[i]
  BY <1>3, <1>4, Zenon
<1>6. \A i \in 0..n : g[i] = IF i = 0 THEN from ELSE g[i - 1] + batch[i]
  BY <1>4, Zenon
<1>7. f[0] = g[0]
  BY <1>5, <1>6
<1>8. n >= 1 => f[1] = g[1]
  <2>1. n >= 1 => f[1] = f[0] + batch[1] /\ g[1] = g[0] + batch[1]
    BY <1>5, <1>6
  <2> QED
    BY <1>7, <2>1
<1>9. n >= 2 => f[2] = g[2]
  <2>1. n >= 2 => f[2] = f[1] + batch[2] /\ g[2] = g[1] + batch[2]
    BY <1>5, <1>6
  <2> QED
    BY <1>8, <2>1
<1>10. n = 0 \/ n = 1 \/ n = 2
  OBVIOUS
<1>11. f[n] = g[n]
  BY <1>7, <1>8, <1>9, <1>10
<1> QED
  BY <1>3, <1>4, <1>11

\* A commit posts one whole batch of its operation to the account, and the
\* balance it leaves is the running balance after the batch.
LEMMA CommitPosts ==
    ASSUME IInv, NEW t \in Txs, Commit(t)
    PROVE  \E m \in Members, batch \in UNION {Postings(op) : op \in Ops} :
              Account!Post(m, batch)
<1>1. TypeOK /\ PostedChain /\ BatchesKept /\ Open(t) /\ tx[t].todo = <<>>
  BY DEF IInv, Commit
<1>2. PICK m : /\ m = tx[t].member
               /\ m \in Members /\ ledger[m] \in Seq(Entry) /\ tx[t].posted \in Seq(Entry)
               /\ ledger' \in [Members -> Seq(Entry)]
               /\ balance' \in [Members -> Int]
               /\ \A o \in Members \ {m} : ledger'[o] = ledger[o] /\ balance'[o] = balance[o]
               /\ balance'[m] = CurrentBalance(t)
               /\ ledger'[m] = ledger[m] \o tx[t].posted
  BY <1>1, CommitLedger
<1>3. PICK posted \in Seq(Entry), k \in Nat : posted = tx[t].posted /\ k = Len(posted)
  BY <1>2
<1>4. PICK batch \in Postings(tx[t].op) : IsBatch(batch, posted, <<>>)
  BY <1>1, <1>3 DEF BatchesKept
<1>5. tx[t].op \in Ops
  BY <1>1, OpenType
<1>6. batch \in Seq(Int) /\ Len(batch) \in 0..2
  BY <1>5, BatchOfTwo
<1>7. DOMAIN posted = 1..k /\ Len(<<>>) = 0
  BY <1>3
<1>8. Len(batch) = k /\ \A i \in 1..k : posted[i].sum = batch[i]
  BY <1>4, <1>3, <1>7 DEF IsBatch
<1>9. SumsOf(ledger'[m]) = SumsOf(ledger[m]) \o batch
  <2>1. Len(batch) = Len(posted) /\ \A i \in 1..Len(posted) : posted[i].sum = batch[i]
    BY <1>3, <1>8
  <2>2. PICK posts \in Seq(Entry) : posts = ledger[m]
    BY <1>2
  <2>3. SumsOf(posts \o posted) = SumsOf(posts) \o batch
    BY <1>6, <2>1, SumsConcat
  <2> QED
    BY <1>2, <1>3, <2>2, <2>3, Zenon
<1>10. PICK g : g = [i \in 0..k |-> PostedFrom(t, i)]
  OBVIOUS
<1>11. g = [i \in 0..k |-> IF i = 0 THEN balance[m] ELSE g[i - 1] + batch[i]]
  <2>1. \A i \in 1..k : PostedFrom(t, i) = PostedFrom(t, i - 1) + batch[i]
    <3> SUFFICES ASSUME NEW i \in 1..k
                 PROVE  PostedFrom(t, i) = PostedFrom(t, i - 1) + batch[i]
      OBVIOUS
    <3>1. posted[i].balanceAfter = PostedFrom(t, i - 1) + posted[i].sum
      BY <1>1, <1>3, <1>7 DEF PostedChain
    <3>2. PostedFrom(t, i) = posted[i].balanceAfter
      BY <1>3 DEF PostedFrom
    <3> QED
      BY <1>8, <3>1, <3>2
  <2>2. PostedFrom(t, 0) = balance[m]
    BY <1>2 DEF PostedFrom
  <2>3. \A i \in 1..k : i - 1 \in 0..k
    OBVIOUS
  <2>4. \A i \in 0..k : PostedFrom(t, i) = IF i = 0 THEN balance[m] ELSE g[i - 1] + batch[i]
    <3> SUFFICES ASSUME NEW i \in 0..k
                 PROVE  PostedFrom(t, i) = IF i = 0 THEN balance[m] ELSE g[i - 1] + batch[i]
      OBVIOUS
    <3>1. CASE i = 0
      BY <2>2, <3>1
    <3>2. CASE i # 0
      <4>1. i \in 1..k
        BY <3>2
      <4>2. g[i - 1] = PostedFrom(t, i - 1)
        BY <1>10, <2>3, <4>1
      <4> QED
        BY <2>1, <3>2, <4>1, <4>2
    <3> QED
      BY <3>1, <3>2
  <2> QED
    BY <1>10, <2>4, Zenon
<1>12. g[k] = CurrentBalance(t)
  <2>1. CurrentBalance(t) = PostedFrom(t, k)
    BY <1>1, <1>3, CurrentBalanceType
  <2> QED
    BY <1>10, <2>1
<1>13. Account!Running(balance[m], batch)[Len(batch)] = balance'[m]
  <2>1. g = [i \in 0..Len(batch) |-> IF i = 0 THEN balance[m] ELSE g[i - 1] + batch[i]]
    BY <1>8, <1>11, Zenon
  <2>2. Account!Running(balance[m], batch)[Len(batch)] = g[Len(batch)]
    BY <1>6, <2>1, RunningIs, Zenon
  <2> QED
    BY <1>2, <1>8, <1>12, <2>2
<1>14. Account!Post(m, batch)
  <2>1. PICK a : a = AccountOf(balance, ledger)
    OBVIOUS
  <2>2. PICK b : b = AccountOf(balance', ledger')
    OBVIOUS
  <2>3. /\ a = [o \in Members |-> [balance |-> balance[o], sums |-> SumsOf(ledger[o])]]
        /\ b = [o \in Members |-> [balance |-> balance'[o], sums |-> SumsOf(ledger'[o])]]
    BY <2>1, <2>2 DEF AccountOf
  <2>4. \A o \in Members \ {m} : b[o] = a[o]
    <3> SUFFICES ASSUME NEW o \in Members \ {m} PROVE b[o] = a[o]
      OBVIOUS
    <3>1. ledger'[o] = ledger[o] /\ balance'[o] = balance[o]
      BY <1>2
    <3>2. a[o] = [balance |-> balance[o], sums |-> SumsOf(ledger[o])]
      BY <2>3, Zenon
    <3>3. b[o] = [balance |-> balance'[o], sums |-> SumsOf(ledger'[o])]
      BY <2>3, Zenon
    <3> QED
      BY <3>1, <3>2, <3>3, Zenon
  <2>5. /\ b[m] = [balance |-> balance'[m], sums |-> SumsOf(ledger[m]) \o batch]
        /\ a[m] = [balance |-> balance[m], sums |-> SumsOf(ledger[m])]
    BY <1>2, <1>9, <2>3
  <2>6. Account!Running(a[m].balance, batch)[Len(batch)] = balance'[m]
    BY <1>13, <2>5
  <2>7. a[m].sums = SumsOf(ledger[m])
    BY <2>5
  <2>8. b = [a EXCEPT ![m].balance = balance'[m], ![m].sums = SumsOf(ledger[m]) \o batch]
    <3>1. PICK sums1, sums2 : sums1 = SumsOf(ledger[m]) /\ sums2 = SumsOf(ledger[m]) \o batch
      OBVIOUS
    <3>2. PICK balance1, balance2 : balance1 = balance[m] /\ balance2 = balance'[m]
      OBVIOUS
    <3>3. /\ a = [o \in Members |-> a[o]] /\ b = [o \in Members |-> b[o]]
          /\ a[m] = [balance |-> balance1, sums |-> sums1]
          /\ b[m] = [balance |-> balance2, sums |-> sums2]
      BY <2>3, <2>5, <3>1, <3>2
    <3>4. b = [a EXCEPT ![m].balance = balance2, ![m].sums = sums2]
      BY <1>2, <2>4, <3>3
    <3> QED
      BY <3>1, <3>2, <3>4
  <2>9. b = [a EXCEPT ![m].balance = Account!Running(a[m].balance, batch)[Len(batch)],
                      ![m].sums = a[m].sums \o batch]
    BY <2>6, <2>7, <2>8
  <2> QED
    BY <2>1, <2>2, <2>9, AccountIs DEF Account!Post
<1> QED
  BY <1>2, <1>5, <1>14

LEMMA AccountStep ==
    ASSUME IInv, [Next]_vars
    PROVE  [Account!Next]_accountOf
<1>1. ASSUME NEW t \in Txs, Commit(t) PROVE Account!Next
  BY <1>1, CommitPosts DEF Account!Next
<1>2. CASE balance' = balance /\ ledger' = ledger
  BY <1>2, AccountIs
<1>3. (balance' = balance /\ ledger' = ledger) \/ \E t \in Txs : Commit(t)
  <2>1. CASE UNCHANGED vars
    BY <2>1 DEF vars
  <2>2. CASE Next
    BY <2>2, Zenon DEF Next, Begin, TakeLock, PostEntry, Refused, Fails, Rollback
  <2> QED
    BY <2>1, <2>2
<1> QED
  BY <1>1, <1>2, <1>3

LEMMA AccountInit == Init => Account!Init
<1> SUFFICES ASSUME Init PROVE Account!Init
  OBVIOUS
<1>1. balance = [m \in Members |-> 0] /\ ledger = [m \in Members |-> <<>>]
  BY DEF Init
<1>2. SumsOf(<<>>) = <<>>
  <2>0. <<>> \in Seq(Entry) /\ Len(<<>>) = 0
    OBVIOUS
  <2>1. PICK none \in Seq(Entry) : none = <<>> /\ Len(none) = 0
    BY <2>0
  <2>2. SumsOf(none) \in Seq(Int) /\ Len(SumsOf(none)) = 0
    BY <2>1, SumsType
  <2> QED
    BY <2>1, <2>2, EmptySeq
<1>3. \A m \in Members : balance[m] = 0 /\ SumsOf(ledger[m]) = <<>>
  BY <1>1, <1>2
<1>4. AccountOf(balance, ledger) = [m \in Members |-> [balance |-> 0, sums |-> <<>>]]
  BY <1>3 DEF AccountOf
<1> QED
  BY <1>4, AccountIs DEF Account!Init

\* A transaction is all or nothing for the account of its member: a commit
\* posts one whole batch of its operation after everything posted before, in
\* order, and no other step is seen in the account.
THEOREM ImplementsAccountHolds == Spec => ImplementsAccount
<1>1. IInv /\ [Next]_vars => [Account!Next]_accountOf
  BY AccountStep
<1> QED
  BY <1>1, AccountInit, Inductive, PTL DEF Spec, ImplementsAccount, Account!Spec

-----------------------------------------------------------------------------
(***************************************************************************)
(* Memberships                                                             *)
(***************************************************************************)

(* Dates *)

Pair == Nat \X Nat

\* The order of dates is a total order.
LEMMA DateOrder ==
    ASSUME NEW d \in Pair, NEW e \in Pair, NEW f \in Pair
    PROVE  /\ ~(d \prec d)
           /\ d \prec e \/ e \preceq d
           /\ ~(d \prec e /\ e \preceq d)
           /\ d \prec e => d \preceq e
           /\ d \preceq e /\ e \preceq f => d \preceq f
           /\ d \prec e /\ e \preceq f => d \prec f
           /\ d \preceq e /\ e \prec f => d \prec f
BY DEF Pair, \prec, \preceq

\* A month has at least one day.
LEMMA MonthHasDays ==
    ASSUME NEW m \in Nat
    PROVE  MonthLength(m) \in Nat /\ MonthLength(m) >= 1
<1>1. Len(Year) \in Nat /\ Len(Year) > 0
  BY CalendarAssumption
<1>2. (m % Len(Year)) \in 0..(Len(Year) - 1)
  BY <1>1
<1>3. (m % Len(Year)) + 1 \in 1..Len(Year)
  BY <1>1, <1>2
<1> QED
  BY <1>3, CalendarAssumption DEF MonthLength

\* Dates are pairs, and no date is the missing date.
LEMMA DatesArePairs ==
    ASSUME NEW d \in Date
    PROVE  d \in Pair /\ d[1] \in Nat /\ d[2] \in Nat /\ d[2] >= 1 /\ d # NoDate
BY MonthHasDays DEF Date, Pair, NoDate

LEMMA AnchoredIsDate ==
    ASSUME NEW m \in Nat, NEW day \in Nat, day >= 1
    PROVE  AnchoredDate(m, day) \in Date /\ AnchoredDate(m, day)[1] = m
BY MonthHasDays DEF AnchoredDate, Date

LEMMA NextMonthIsLater ==
    ASSUME NEW d \in Date, NEW day \in Nat, day >= 1
    PROVE  NextMonthlyDate(d, day) \in Date /\ d \prec NextMonthlyDate(d, day)
<1>1. d[1] + 1 \in Nat
  BY DatesArePairs
<1> QED
  BY <1>1, AnchoredIsDate, DatesArePairs DEF NextMonthlyDate, \prec

LEMMA NextAfterIsLater ==
    ASSUME NEW d \in Date, NEW day \in Nat, day >= 1
    PROVE  /\ NextMonthlyDateAfter(d, day) \in Date
           /\ d \prec NextMonthlyDateAfter(d, day)
BY NextMonthIsLater, AnchoredIsDate, DatesArePairs DEF NextMonthlyDateAfter

LEMMA TomorrowIsLater ==
    ASSUME NEW d \in Date
    PROVE  Tomorrow(d) \in Date /\ d \prec Tomorrow(d)
BY MonthHasDays, DatesArePairs DEF Tomorrow, Date, \prec

\* Catching up never goes back, and ends on the period that covers the day.
LEMMA CurrentStartCovers ==
    ASSUME NEW first \in Date, NEW d \in Date, NEW day \in Nat, day >= 1
    PROVE  /\ CurrentStart(first, day, d) \in Date
           /\ first \preceq CurrentStart(first, day, d)
           /\ d \prec NextMonthlyDate(CurrentStart(first, day, d), day)
           /\ first \preceq d => CurrentStart(first, day, d) \preceq d
<1> DEFINE here == AnchoredDate(d[1], day)
           before == AnchoredDate(d[1] - 1, day)
<1>0. first \in Pair /\ d \in Pair /\ d[1] \in Nat /\ first[1] \in Nat
  BY DatesArePairs
<1>1. CASE d \prec NextMonthlyDate(first, day)
  <2>1. CurrentStart(first, day, d) = first
    BY <1>1 DEF CurrentStart
  <2> QED
    BY <2>1, <1>1 DEF \preceq
<1>2. CASE ~(d \prec NextMonthlyDate(first, day))
  <2>1. NextMonthlyDate(first, day) \in Date /\ NextMonthlyDate(first, day)[1] = first[1] + 1
    BY <1>0, AnchoredIsDate DEF NextMonthlyDate
  <2>2. first[1] + 1 <= d[1]
    BY <2>1, <1>0, <1>2 DEF \prec
  <2>3. here \in Date /\ here[1] = d[1] /\ before \in Date /\ before[1] = d[1] - 1
    BY <1>0, <2>2, AnchoredIsDate
  <2>4. first \preceq here
    BY <2>2, <2>3, <1>0 DEF \preceq, \prec
  <2>5. CASE here \preceq d
    <3>1. CurrentStart(first, day, d) = here
      BY <1>2, <2>5 DEF CurrentStart
    <3>2. d \prec NextMonthlyDate(here, day)
      BY <2>3, <1>0, AnchoredIsDate DEF NextMonthlyDate, \prec
    <3> QED
      BY <3>1, <3>2, <2>3, <2>4, <2>5
  <2>6. CASE ~(here \preceq d)
    <3>1. CurrentStart(first, day, d) = before
      BY <1>2, <2>6 DEF CurrentStart
    <3>2. NextMonthlyDate(before, day) = here
      BY <2>3, <1>0 DEF NextMonthlyDate
    <3>3. d \prec here
      BY <2>3, <2>6, <1>0, DateOrder, DatesArePairs
    <3>4. before \preceq d
      BY <2>3, <1>0 DEF \preceq, \prec
    <3>5. first \preceq before
      <4>1. CASE first[1] < d[1] - 1
        BY <4>1, <2>3, <1>0 DEF \preceq, \prec
      <4>2. CASE first[1] + 1 = d[1]
        BY <4>2, <1>2, <3>3 DEF NextMonthlyDate
      <4> QED
        BY <4>1, <4>2, <2>2, <1>0
    <3> QED
      BY <3>1, <3>2, <3>3, <3>4, <3>5, <2>3
  <2> QED
    BY <2>5, <2>6
<1> QED
  BY <1>1, <1>2

----
(* The inductive invariant *)

\* A row that exists has dates, and its end lies after its start.
RowsHaveDates ==
    \A p \in Made :
        /\ start[p] \in Date
        /\ until[p] \in Date
        /\ start[p] \prec until[p]
        /\ anchor[p] >= 1

\* Parents exist.
ParentsAreMade == \A p \in Period : parent[p] = 0 \/ parent[p] \in Made

\* The next renewal never begins inside the period.
RenewsAfterEnd == \A p \in Period : recurs[p] => until[p] \preceq next[p]

\* Only existing rows recur or are candidates.
OnlyMadeRecur == \A p \in Period : recurs[p] \/ p \in left => p \in Made

SweepDayIsPast == sweepDay \preceq today

MembershipsInv ==
    /\ MembershipsTypeOK
    /\ RowsHaveDates
    /\ ParentsAreMade
    /\ RenewsAfterEnd
    /\ OnlyMadeRecur
    /\ SweepDayIsPast
    /\ RecurrenceIsLast
    /\ ExpiredIsPast

LEMMA MembershipsInvInit == MembershipsInit => MembershipsInv
<1> SUFFICES ASSUME MembershipsInit PROVE MembershipsInv
  OBVIOUS
<1>1. Made = {}
  BY DEF MembershipsInit, Made
<1>2. FirstDay \in Date /\ FirstDay \preceq FirstDay
  BY DatesAssumption DEF \preceq
<1>3. MembershipsTypeOK
  BY <1>1, <1>2, PeriodsAssumption, FaultsAssumption DEF MembershipsInit, MembershipsTypeOK, Period, Plans
<1> QED
  BY <1>1, <1>2, <1>3
  DEF MembershipsInit, MembershipsInv, RowsHaveDates, ParentsAreMade, RenewsAfterEnd, OnlyMadeRecur,
      SweepDayIsPast, RecurrenceIsLast, ExpiredIsPast

----
(* What the helpers do *)

\* Stopping recurrences keeps the types and starts no recurrence.
LEMMA StopRecurrenceFacts ==
    ASSUME MembershipsTypeOK, NEW S, StopRecurrence(S)
    PROVE  /\ recurs' \in [Period -> BOOLEAN]
           /\ next' \in [Period -> Date \cup {NoDate}]
           /\ \A p \in Period : recurs'[p] <=> next'[p] # NoDate
           /\ \A p \in Period : recurs'[p] => recurs[p] /\ next'[p] = next[p]
BY DEF MembershipsTypeOK, StopRecurrence

\* The last period of a chain is one of it.
LEMMA LastOfIs ==
    ASSUME NEW p \in Made
    PROVE  LastOf(p) \in Made /\ LastOf(p) \in {p} \cup Descendants(p)
<1> DEFINE chain == {p} \cup Descendants(p)
           before == {MaxPeriods - q : q \in chain}
<1>1. Descendants(p) \subseteq Made
  BY DEF Descendants
<1>2. chain \subseteq Made /\ chain \subseteq Period /\ chain # {}
  BY <1>1 DEF Made
<1>3. before \subseteq Nat /\ before # {}
  BY <1>2, PeriodsAssumption DEF Period
<1>4. PICK b \in before : \A c \in before : b <= c
  BY <1>3, Least
<1>5. PICK q \in chain : b = MaxPeriods - q
  BY <1>4
<1>6. \A r \in chain : MaxPeriods - q <= MaxPeriods - r
  BY <1>4, <1>5
<1>7. \A r \in chain : r <= q
  BY <1>2, <1>5, <1>6, PeriodsAssumption DEF Period
<1>8. LastOf(p) \in chain
  <2> HIDE DEF chain
  <2>1. LastOf(p) = CHOOSE x \in chain : \A r \in chain : r <= x
    BY DEF LastOf, chain
  <2> QED
    BY <1>5, <1>7, <2>1
<1> QED
  BY <1>2, <1>8

\* A row is written in its place and the others stay.
LEMMA InsertFacts ==
    ASSUME MembershipsTypeOK, NEW p \in Period, NEW from \in Date, NEW to \in Date,
           NEW day \in Nat, NEW renewed \in 0..MaxPeriods,
           Insert(p, from, to, day, renewed)
    PROVE  /\ start' \in [Period -> Date \cup {NoDate}]
           /\ until' \in [Period -> Date \cup {NoDate}]
           /\ anchor' \in [Period -> Nat]
           /\ parent' \in [Period -> 0..MaxPeriods]
           /\ start'[p] = from /\ until'[p] = to
           /\ anchor'[p] = day /\ parent'[p] = renewed
           /\ \A q \in Period \ {p} :
                /\ start'[q] = start[q] /\ until'[q] = until[q]
                /\ anchor'[q] = anchor[q] /\ parent'[q] = parent[q]
BY DEF MembershipsTypeOK, Insert

\* The period that succeeds p is the last one, and takes its recurrence over.
LEMMA SucceedFacts ==
    ASSUME MembershipsTypeOK, RowsHaveDates, NEW p \in Made, NEW q \in Period, IsNext(q),
           NEW from \in Date, NEW old \in {"ACTIVE", "EXPIRED"},
           Succeed(p, q, from, old)
    PROVE  /\ Insert(q, from, NextMonthlyDate(from, anchor[p]), anchor[p], p)
           /\ NextMonthlyDate(from, anchor[p]) \in Date
           /\ from \prec NextMonthlyDate(from, anchor[p])
           /\ p # q /\ q \notin Made
           /\ status' \in [Period -> {"NONE", "ACTIVE", "EXPIRED", "CANCELLED"}]
           /\ recurs' \in [Period -> BOOLEAN]
           /\ next' \in [Period -> Date \cup {NoDate}]
           /\ Made' = Made \cup {q}
           /\ status'[p] = old /\ status'[q] = "ACTIVE"
           /\ ~recurs'[p] /\ next'[p] = NoDate
           /\ recurs'[q] <=> next'[q] # NoDate
           /\ recurs'[q] => next'[q] = NextMonthlyDate(from, anchor[p])
           /\ \A r \in Period \ {p, q} :
                /\ status'[r] = status[r]
                /\ recurs'[r] = recurs[r] /\ next'[r] = next[r]
<1> DEFINE to == NextMonthlyDate(from, anchor[p])
<1>1. p \in Period /\ p # q /\ q \notin Made
  BY DEF Made, IsNext
<1>2. anchor[p] \in Nat /\ anchor[p] >= 1
  BY <1>1 DEF MembershipsTypeOK, RowsHaveDates
<1>3. to \in Date /\ from \prec to /\ to # NoDate
  BY <1>2, NextMonthIsLater, DatesArePairs
<1>4. /\ status' = [status EXCEPT ![p] = old, ![q] = "ACTIVE"]
      /\ recurs' = [recurs EXCEPT ![p] = FALSE, ![q] = recurs[p]]
      /\ next' = [next EXCEPT ![p] = NoDate, ![q] = IF recurs[p] THEN to ELSE NoDate]
      /\ Insert(q, from, to, anchor[p], p)
  BY DEF Succeed
<1> HIDE DEF to
<1>5. /\ status' \in [Period -> {"NONE", "ACTIVE", "EXPIRED", "CANCELLED"}]
      /\ status'[p] = old /\ status'[q] = "ACTIVE"
      /\ \A r \in Period \ {p, q} : status'[r] = status[r]
  BY <1>1, <1>4 DEF MembershipsTypeOK
<1>6. /\ recurs' \in [Period -> BOOLEAN]
      /\ ~recurs'[p] /\ recurs'[q] = recurs[p]
      /\ \A r \in Period \ {p, q} : recurs'[r] = recurs[r]
  BY <1>1, <1>4 DEF MembershipsTypeOK
<1>7. /\ next' \in [Period -> Date \cup {NoDate}]
      /\ next'[p] = NoDate /\ next'[q] = IF recurs[p] THEN to ELSE NoDate
      /\ \A r \in Period \ {p, q} : next'[r] = next[r]
  BY <1>1, <1>3, <1>4 DEF MembershipsTypeOK
<1>8. Made' = Made \cup {q}
  BY <1>1, <1>5 DEF Made
<1> QED
  BY <1>1, <1>3, <1>4, <1>5, <1>6, <1>7, <1>8 DEF to

\* A new row q, written after the recurrences it supersedes were stopped, keeps
\* every part of the invariant.
LEMMA InsertionKeeps ==
    ASSUME MembershipsInv, UNCHANGED <<business, sweepDay>>, left' \subseteq left,
           NEW q \in Period \ Made, NEW from \in Date, NEW to \in Date,
           NEW day \in Nat, NEW renewed \in 0..MaxPeriods,
           from \prec to, day >= 1, renewed = 0 \/ renewed \in Made,
           Insert(q, from, to, day, renewed),
           Made' = Made \cup {q}, status'[q] = "ACTIVE",
           \A p \in Made : status'[p] = "EXPIRED" => until[p] \preceq today,
           \A p \in Period \ {q} : recurs'[p] => recurs[p] /\ next'[p] = next[p],
           recurs'[q] => to \preceq next'[q] /\ \A p \in Made : start[p] \preceq from,
           \A p \in Made : recurs'[p] => from \preceq start[p] \/ \E r \in Period : Twin(p, r)
    PROVE  /\ RowsHaveDates' /\ ParentsAreMade' /\ RenewsAfterEnd' /\ OnlyMadeRecur'
           /\ SweepDayIsPast' /\ RecurrenceIsLast' /\ ExpiredIsPast'
<1>1. MembershipsTypeOK /\ RowsHaveDates
  BY DEF MembershipsInv
<1>2. /\ start'[q] = from /\ until'[q] = to /\ anchor'[q] = day /\ parent'[q] = renewed
      /\ \A p \in Period \ {q} :
           /\ start'[p] = start[p] /\ until'[p] = until[p]
           /\ anchor'[p] = anchor[p] /\ parent'[p] = parent[p]
  BY <1>1, InsertFacts
<1>3. Made \subseteq Period /\ Made' \subseteq Period /\ today' = today /\ sweepDay' = sweepDay
  BY DEF Made, business
<1>4. \A p \in Made : start'[p] = start[p] /\ until'[p] = until[p] /\ p # q
  BY <1>2, <1>3
<1>5. RowsHaveDates'
  BY <1>1, <1>2, <1>3 DEF RowsHaveDates
<1>6. ParentsAreMade'
  BY <1>2, <1>3 DEF MembershipsInv, ParentsAreMade
<1>7. RenewsAfterEnd'
  BY <1>2, <1>3 DEF MembershipsInv, RenewsAfterEnd
<1>8. OnlyMadeRecur'
  BY <1>3 DEF MembershipsInv, OnlyMadeRecur
<1>9. SweepDayIsPast'
  BY <1>3 DEF MembershipsInv, SweepDayIsPast
<1>10. ExpiredIsPast'
  BY <1>2, <1>3, <1>4 DEF ExpiredIsPast
<1>11. RecurrenceIsLast'
  <2> SUFFICES ASSUME NEW p \in Made', NEW r \in Made', recurs'[p],
                      \A t \in Period : ~Twin(p, t)'
               PROVE  start'[r] \preceq start'[p]
    BY DEF RecurrenceIsLast
  <2>1. CASE p = q
    <3>1. r = q \/ (start'[r] = start[r] /\ start[r] \preceq from)
      BY <2>1, <1>4
    <3> QED
      BY <2>1, <3>1, <1>2 DEF \preceq
  <2>2. CASE p \in Made
    <3>1. \A t \in Period : ~Twin(p, t)
      BY <2>2, <1>3, <1>4 DEF Twin
    <3>2. from \preceq start[p] /\ recurs[p]
      BY <2>2, <3>1, <1>3, <1>4
    <3>3. r \in Made => start[r] \preceq start[p]
      BY <2>2, <3>1, <3>2 DEF MembershipsInv, RecurrenceIsLast
    <3> QED
      BY <2>2, <3>2, <3>3, <1>2, <1>4
  <2> QED
    BY <2>1, <2>2
<1> QED
  BY <1>5, <1>6, <1>7, <1>8, <1>9, <1>10, <1>11

\* The period that starts last, renewed into q.
LEMMA SuccessionKeeps ==
    ASSUME MembershipsInv, UNCHANGED <<business, sweepDay>>, left' \subseteq left,
           NEW p \in Made, NEW q \in Period, IsNext(q), ~HasNewer(p),
           NEW from \in Date, until[p] \preceq from,
           NEW old \in {"ACTIVE", "EXPIRED"},
           old = "EXPIRED" => until[p] \preceq today,
           Succeed(p, q, from, old)
    PROVE  /\ RowsHaveDates' /\ ParentsAreMade' /\ RenewsAfterEnd' /\ OnlyMadeRecur'
           /\ SweepDayIsPast' /\ RecurrenceIsLast' /\ ExpiredIsPast'
<1> DEFINE to == NextMonthlyDate(from, anchor[p])
<1>1. MembershipsTypeOK /\ RowsHaveDates /\ p \in Period /\ p \in 0..MaxPeriods
  BY DEF MembershipsInv, Made, Period
<1>2. anchor[p] \in Nat /\ anchor[p] >= 1
  BY <1>1 DEF MembershipsTypeOK, RowsHaveDates
<1>3. start[p] \prec from
  <2>1. start[p] \in Pair /\ until[p] \in Pair /\ from \in Pair /\ start[p] \prec until[p]
    BY <1>1, DatesArePairs DEF RowsHaveDates
  <2> QED
    BY <2>1, DateOrder
<1>4. \A r \in Made : start[r] \in Pair /\ start[r] \preceq start[p] /\ start[r] \preceq from
  <2> SUFFICES ASSUME NEW r \in Made
               PROVE  start[r] \in Pair /\ start[r] \preceq start[p] /\ start[r] \preceq from
    OBVIOUS
  <2>1. start[r] \in Pair /\ start[p] \in Pair /\ from \in Pair
    BY <1>1, DatesArePairs DEF RowsHaveDates
  <2>2. r = p \/ ~(start[p] \prec start[r])
    BY DEF HasNewer, Newer, Made
  <2>3. start[r] \preceq start[p]
    BY <2>1, <2>2, DateOrder DEF \preceq
  <2> QED
    BY <2>1, <2>3, <1>3, DateOrder
<1>5. /\ Insert(q, from, to, anchor[p], p)
      /\ to \in Date /\ from \prec to /\ p # q /\ q \notin Made
      /\ Made' = Made \cup {q}
      /\ status'[p] = old /\ status'[q] = "ACTIVE"
      /\ ~recurs'[p]
      /\ recurs'[q] => next'[q] = to
      /\ \A r \in Period \ {p, q} :
           status'[r] = status[r] /\ recurs'[r] = recurs[r] /\ next'[r] = next[r]
  BY <1>1, SucceedFacts
<1> HIDE DEF to
<1>6. \A r \in Made : status'[r] = "EXPIRED" => until[r] \preceq today
  BY <1>5 DEF MembershipsInv, ExpiredIsPast, Made
<1>7. \A r \in Period \ {q} : recurs'[r] => recurs[r] /\ next'[r] = next[r]
  BY <1>5
<1>8. recurs'[q] => to \preceq next'[q] /\ \A r \in Made : start[r] \preceq from
  BY <1>4, <1>5 DEF \preceq
<1>9. \A r \in Made : recurs'[r] => from \preceq start[r] \/ \E t \in Period : Twin(r, t)
  <2> SUFFICES ASSUME NEW r \in Made, recurs'[r], \A t \in Period : ~Twin(r, t)
               PROVE  FALSE
    OBVIOUS
  <2>1. r # p /\ recurs[r] /\ r \in Period
    BY <1>5 DEF Made
  <2>2. start[p] \preceq start[r]
    BY <2>1 DEF MembershipsInv, RecurrenceIsLast
  <2>3. start[p] = start[r]
    BY <2>2, <1>1, <1>4, DateOrder DEF \preceq
  <2> QED
    BY <2>1, <2>3, <1>1 DEF Twin
<1> QED
  BY <1>1, <1>2, <1>5, <1>6, <1>7, <1>8, <1>9, InsertionKeeps

\* A step that inserts no row and starts no recurrence.
LEMMA QuietStepKeeps ==
    ASSUME MembershipsInv, UNCHANGED dates, Made' = Made, left' \subseteq Made,
           today' \in Date, sweepDay' \in Date,
           today \preceq today', sweepDay' \preceq today',
           \A p \in Period : recurs'[p] => recurs[p] /\ next'[p] = next[p],
           \A p \in Made : status'[p] = "EXPIRED" =>
                status[p] = "EXPIRED" \/ until[p] \preceq today'
    PROVE  /\ RowsHaveDates' /\ ParentsAreMade' /\ RenewsAfterEnd' /\ OnlyMadeRecur'
           /\ SweepDayIsPast' /\ RecurrenceIsLast' /\ ExpiredIsPast'
<1>1. MembershipsTypeOK /\ RowsHaveDates /\ Made \subseteq Period
  BY DEF MembershipsInv, Made
<1>2. start' = start /\ until' = until /\ anchor' = anchor /\ parent' = parent
  BY DEF dates
<1>3. RowsHaveDates' /\ ParentsAreMade'
  BY <1>2 DEF MembershipsInv, RowsHaveDates, ParentsAreMade
<1>4. RenewsAfterEnd'
  BY <1>2 DEF MembershipsInv, RenewsAfterEnd
<1>5. OnlyMadeRecur' /\ SweepDayIsPast'
  BY DEF MembershipsInv, OnlyMadeRecur, SweepDayIsPast
<1>6. RecurrenceIsLast'
  BY <1>1, <1>2 DEF MembershipsInv, RecurrenceIsLast, Twin
<1>7. ExpiredIsPast'
  <2> SUFFICES ASSUME NEW p \in Made, status'[p] = "EXPIRED"
               PROVE  until[p] \preceq today'
    BY <1>2 DEF ExpiredIsPast
  <2>1. until[p] \in Pair /\ today \in Pair /\ today' \in Pair
    BY <1>1, DatesArePairs DEF MembershipsTypeOK, RowsHaveDates
  <2>2. status[p] = "EXPIRED" => until[p] \preceq today
    BY DEF MembershipsInv, ExpiredIsPast
  <2> QED
    BY <2>1, <2>2, DateOrder
<1> QED
  BY <1>3, <1>4, <1>5, <1>6, <1>7

----
(* The steps *)

LEMMA CreateKeeps ==
    ASSUME MembershipsInv, NEW p \in Period, NEW from \in StartDates, NEW auto \in BOOLEAN,
           Create(p, from, auto)
    PROVE  MembershipsInv'
<1> DEFINE to == NextMonthlyDate(from, from[2])
           superseded == {q \in Made : recurs[q] /\ start[q] \preceq from}
<1>1. MembershipsTypeOK /\ RowsHaveDates /\ p \in Period \ Made /\ 0 \in 0..MaxPeriods
  BY PeriodsAssumption DEF MembershipsInv, Create, IsNext
<1>2. from \in Date /\ from[2] \in Nat /\ from[2] >= 1
  BY DatesAssumption, DatesArePairs
<1>3. to \in Date /\ from \prec to
  BY <1>2, NextMonthIsLater
<1>4. /\ auto => \A q \in Made : start[q] \preceq from
      /\ Insert(p, from, to, from[2], 0)
      /\ status' = [status EXCEPT ![p] = "ACTIVE"]
      /\ recurs' = [q \in Period |->
                      IF q = p THEN auto ELSE recurs[q] /\ q \notin superseded]
      /\ next' = [q \in Period |->
                    CASE q \in superseded -> NoDate
                      [] q = p /\ auto -> IF today \prec to THEN to
                                          ELSE NextMonthlyDateAfter(today, from[2])
                      [] OTHER -> next[q]]
      /\ UNCHANGED <<business, sweep, halted>>
  BY DEF Create
<1>5. p \notin superseded /\ ~recurs[p] /\ next[p] = NoDate /\ superseded \subseteq Period
  BY <1>1 DEF MembershipsInv, MembershipsTypeOK, OnlyMadeRecur, Made
<1>6. \A q \in Period : q \in superseded <=> q \in Made /\ recurs[q] /\ start[q] \preceq from
  OBVIOUS
<1> HIDE DEF superseded
<1>7. auto => next'[p] \in Date /\ to \preceq next'[p] /\ next'[p] # NoDate
  <2> SUFFICES ASSUME auto
               PROVE  next'[p] \in Date /\ to \preceq next'[p] /\ next'[p] # NoDate
    OBVIOUS
  <2>1. next'[p] = IF today \prec to THEN to ELSE NextMonthlyDateAfter(today, from[2])
    BY <1>4, <1>5
  <2>2. CASE today \prec to
    BY <2>1, <2>2, <1>3, DatesArePairs DEF \preceq
  <2>3. CASE ~(today \prec to)
    <3>1. today \in Date
      BY <1>1 DEF MembershipsTypeOK
    <3>2. next'[p] \in Date /\ today \prec next'[p]
      BY <2>1, <2>3, <3>1, <1>2, NextAfterIsLater
    <3> QED
      BY <3>1, <3>2, <2>3, <1>3, DatesArePairs, DateOrder
  <2> QED
    BY <2>2, <2>3
<1>8. ~auto => next'[p] = NoDate
  BY <1>4, <1>5
<1> HIDE DEF to
<1>9. \A q \in Period \ {p} :
         /\ recurs'[q] <=> recurs[q] /\ q \notin superseded
         /\ next'[q] = IF q \in superseded THEN NoDate ELSE next[q]
  BY <1>4
<1>10. MembershipsTypeOK'
  <2>1. start' \in [Period -> Date \cup {NoDate}] /\ until' \in [Period -> Date \cup {NoDate}]
        /\ anchor' \in [Period -> Nat] /\ parent' \in [Period -> 0..MaxPeriods]
    BY <1>1, <1>2, <1>3, <1>4, InsertFacts
  <2>2. status' \in [Period -> {"NONE", "ACTIVE", "EXPIRED", "CANCELLED"}]
    BY <1>1, <1>4 DEF MembershipsTypeOK
  <2>3. recurs' \in [Period -> BOOLEAN]
    BY <1>1, <1>4 DEF MembershipsTypeOK
  <2>4. recurs'[p] <=> auto
    BY <1>4
  <2>5. next' \in [Period -> Date \cup {NoDate}]
    BY <1>1, <1>4, <1>7, <1>8, <1>9 DEF MembershipsTypeOK
  <2>6. \A q \in Period : recurs'[q] <=> next'[q] # NoDate
    <3>1. \A q \in Period : recurs[q] <=> next[q] # NoDate
      BY <1>1 DEF MembershipsTypeOK
    <3> QED
      BY <3>1, <2>4, <1>7, <1>8, <1>9
  <2>7. left' \subseteq Made' /\ halted' \subseteq Made'
    BY <1>1, <1>4 DEF MembershipsTypeOK, Made, sweep
  <2> QED
    BY <1>1, <1>4, <2>1, <2>2, <2>3, <2>5, <2>6, <2>7 DEF MembershipsTypeOK, business, sweep
<1>11. Made' = Made \cup {p} /\ status'[p] = "ACTIVE"
       /\ \A q \in Made : status'[q] = status[q]
  BY <1>1, <1>4 DEF MembershipsTypeOK, Made
<1>12. \A q \in Made : status'[q] = "EXPIRED" => until[q] \preceq today
  BY <1>11 DEF MembershipsInv, ExpiredIsPast
<1>13. recurs'[p] => to \preceq next'[p] /\ \A q \in Made : start[q] \preceq from
  BY <1>4, <1>7
<1>14. \A q \in Made : recurs'[q] => from \preceq start[q] \/ \E r \in Period : Twin(q, r)
  <2> SUFFICES ASSUME NEW q \in Made, recurs'[q] PROVE from \preceq start[q]
    OBVIOUS
  <2>1. ~(start[q] \preceq from)
    BY <1>1, <1>6, <1>9 DEF Made
  <2> QED
    BY <2>1, <1>1, <1>2, DatesArePairs, DateOrder DEF RowsHaveDates, \preceq
<1>15. \A q \in Period \ {p} : recurs'[q] => recurs[q] /\ next'[q] = next[q]
  BY <1>9
<1>16. UNCHANGED <<business, sweepDay>> /\ left' \subseteq left
  BY <1>4 DEF sweep
<1> QED
  BY <1>1, <1>2, <1>3, <1>4, <1>10, <1>11, <1>12, <1>13, <1>14, <1>15, <1>16,
     InsertionKeeps DEF MembershipsInv

\* The types of a succession, whoever makes it.
LEMMA SuccessionTypes ==
    ASSUME MembershipsInv, UNCHANGED business, sweepDay' = sweepDay, faults' = faults,
           left' \subseteq left,
           stage' \in {"idle", "expire", "discover", "renew"},
           (stage' = "renew") <=> (left' # {}),
           NEW p \in Made, NEW q \in Period, IsNext(q), NEW from \in Date,
           NEW old \in {"ACTIVE", "EXPIRED"}, Succeed(p, q, from, old)
    PROVE  MembershipsTypeOK'
<1> DEFINE to == NextMonthlyDate(from, anchor[p])
<1>1. MembershipsTypeOK /\ RowsHaveDates /\ p \in Period /\ p \in 0..MaxPeriods
  BY DEF MembershipsInv, Made, Period
<1>2. /\ Insert(q, from, to, anchor[p], p)
      /\ to \in Date
      /\ status' \in [Period -> {"NONE", "ACTIVE", "EXPIRED", "CANCELLED"}]
      /\ recurs' \in [Period -> BOOLEAN]
      /\ next' \in [Period -> Date \cup {NoDate}]
      /\ Made' = Made \cup {q}
      /\ ~recurs'[p] /\ next'[p] = NoDate
      /\ recurs'[q] <=> next'[q] # NoDate
      /\ \A r \in Period \ {p, q} : recurs'[r] = recurs[r] /\ next'[r] = next[r]
  BY <1>1, SucceedFacts
<1> HIDE DEF to
<1>3. anchor[p] \in Nat
  BY <1>1 DEF MembershipsTypeOK
<1>4. /\ start' \in [Period -> Date \cup {NoDate}] /\ until' \in [Period -> Date \cup {NoDate}]
      /\ anchor' \in [Period -> Nat] /\ parent' \in [Period -> 0..MaxPeriods]
  BY <1>1, <1>2, <1>3, InsertFacts
<1>5. \A r \in Period : recurs[r] <=> next[r] # NoDate
  BY <1>1 DEF MembershipsTypeOK
<1>6. \A r \in Period : recurs'[r] <=> next'[r] # NoDate
  BY <1>2, <1>5
<1>7. left' \subseteq Made' /\ halted' \subseteq Made'
  BY <1>1, <1>2 DEF MembershipsTypeOK, Succeed
<1> QED
  BY <1>1, <1>2, <1>4, <1>6, <1>7 DEF MembershipsTypeOK, business

LEMMA RenewKeeps ==
    ASSUME MembershipsInv, NEW p \in Period, NEW q \in Period, Renew(p, q)
    PROVE  MembershipsInv'
<1> DEFINE from == CurrentStart(until[p], anchor[p], today)
           old == IF until[p] \preceq today THEN "EXPIRED" ELSE status[p]
<1>1. /\ status[p] \in {"ACTIVE", "EXPIRED"} /\ ~HasNewer(p) /\ IsNext(q)
      /\ Succeed(p, q, from, old)
      /\ UNCHANGED <<business, sweep>>
  BY DEF Renew
<1>2. MembershipsTypeOK /\ RowsHaveDates /\ p \in Made
  BY <1>1 DEF MembershipsInv, Made
<1>3. until[p] \in Date /\ today \in Date /\ anchor[p] \in Nat /\ anchor[p] >= 1
  BY <1>2 DEF MembershipsTypeOK, RowsHaveDates
<1>4. from \in Date /\ until[p] \preceq from
  BY <1>3, CurrentStartCovers
<1>5. old \in {"ACTIVE", "EXPIRED"} /\ (old = "EXPIRED" => until[p] \preceq today)
  BY <1>1, <1>2 DEF MembershipsInv, ExpiredIsPast
<1> HIDE DEF from, old
<1>6. UNCHANGED <<business, sweepDay>> /\ left' \subseteq left
      /\ sweepDay' = sweepDay /\ faults' = faults /\ stage' = stage /\ left' = left
  BY <1>1 DEF sweep
<1>7. MembershipsTypeOK'
  <2>1. stage' \in {"idle", "expire", "discover", "renew"}
        /\ ((stage' = "renew") <=> (left' # {}))
    BY <1>2, <1>6 DEF MembershipsTypeOK
  <2> QED
    BY <1>1, <1>2, <1>4, <1>5, <1>6, <2>1, SuccessionTypes
<1> QED
  BY <1>1, <1>2, <1>4, <1>5, <1>6, <1>7, SuccessionKeeps DEF MembershipsInv

\* What a renewal by the worker does: the period it makes covers the sweep's day.
LEMMA RenewMembershipKeeps ==
    ASSUME MembershipsInv, NEW p \in Period, NEW q \in Period, RenewMembership(p, q)
    PROVE  /\ MembershipsInv'
           /\ start'[q] \preceq sweepDay /\ sweepDay \prec until'[q]
           /\ Made' = Made \cup {q}
<1> DEFINE from == CurrentStart(next[p], anchor[p], sweepDay)
<1>1. /\ Settle(p) /\ recurs[p] /\ ~HasNewer(p) /\ IsNext(q)
      /\ status[p] # "CANCELLED" /\ next[p] \preceq sweepDay
      /\ Succeed(p, q, from, "EXPIRED")
      /\ UNCHANGED faults
  BY DEF RenewMembership
<1>2. MembershipsTypeOK /\ RowsHaveDates /\ p \in Made
  BY <1>1 DEF MembershipsInv, OnlyMadeRecur
<1>3. /\ until[p] \in Date /\ next[p] \in Date /\ today \in Date /\ sweepDay \in Date
      /\ anchor[p] \in Nat /\ anchor[p] >= 1
  BY <1>1, <1>2 DEF MembershipsTypeOK, RowsHaveDates
<1>4. /\ from \in Date /\ next[p] \preceq from /\ from \preceq sweepDay
      /\ sweepDay \prec NextMonthlyDate(from, anchor[p])
  BY <1>1, <1>3, CurrentStartCovers
<1> HIDE DEF from
<1>5. until[p] \preceq next[p] /\ sweepDay \preceq today
  BY <1>1, <1>2 DEF MembershipsInv, RenewsAfterEnd, Made, SweepDayIsPast
<1>6. until[p] \preceq from /\ until[p] \preceq today
  <2>1. until[p] \in Pair /\ next[p] \in Pair /\ today \in Pair /\ sweepDay \in Pair /\ from \in Pair
    BY <1>3, <1>4, DatesArePairs
  <2>2. until[p] \preceq from
    BY <2>1, <1>4, <1>5, DateOrder
  <2>3. until[p] \preceq sweepDay
    BY <2>1, <2>2, <1>4, DateOrder
  <2> QED
    BY <2>1, <2>2, <2>3, <1>5, DateOrder
<1>7. /\ UNCHANGED <<business, sweepDay>> /\ left' \subseteq left
      /\ UNCHANGED business /\ sweepDay' = sweepDay /\ faults' = faults
      /\ stage' \in {"idle", "expire", "discover", "renew"}
      /\ (stage' = "renew") <=> (left' # {})
  BY <1>1 DEF Settle
<1>8. MembershipsTypeOK'
  BY <1>1, <1>2, <1>4, <1>7, SuccessionTypes
<1>9. /\ Insert(q, from, NextMonthlyDate(from, anchor[p]), anchor[p], p)
      /\ NextMonthlyDate(from, anchor[p]) \in Date /\ Made' = Made \cup {q}
      /\ p \in 0..MaxPeriods
  BY <1>1, <1>2, <1>4, SucceedFacts DEF Period
<1>10. start'[q] = from /\ until'[q] = NextMonthlyDate(from, anchor[p])
  BY <1>2, <1>3, <1>4, <1>9, InsertFacts
<1> QED
  BY <1>1, <1>2, <1>4, <1>6, <1>7, <1>8, <1>9, <1>10, SuccessionKeeps DEF MembershipsInv

LEMMA EnableKeeps ==
    ASSUME MembershipsInv, NEW p \in Period, EnableRenewal(p)
    PROVE  MembershipsInv'
<1>1. /\ status[p] \in {"ACTIVE", "EXPIRED"} /\ ~HasNewer(p)
      /\ recurs' = [recurs EXCEPT ![p] = TRUE]
      /\ next' = [next EXCEPT ![p] = IF today \prec until[p] THEN until[p]
                                     ELSE NextMonthlyDateAfter(today, anchor[p])]
      /\ halted' = halted \ {p}
      /\ UNCHANGED <<dates, status, business, sweep>>
  BY DEF EnableRenewal
<1>2. MembershipsTypeOK /\ RowsHaveDates /\ p \in Made /\ Made' = Made /\ Made \subseteq Period
  BY <1>1 DEF MembershipsInv, Made
<1>3. until[p] \in Date /\ today \in Date /\ anchor[p] \in Nat /\ anchor[p] >= 1
  BY <1>2 DEF MembershipsTypeOK, RowsHaveDates
<1>4. next'[p] = IF today \prec until[p] THEN until[p]
                 ELSE NextMonthlyDateAfter(today, anchor[p])
  BY <1>1, <1>2 DEF MembershipsTypeOK
<1>5. next'[p] \in Date /\ until[p] \preceq next'[p] /\ next'[p] # NoDate
  <2>1. CASE today \prec until[p]
    BY <2>1, <1>3, <1>4, DatesArePairs DEF \preceq
  <2>2. CASE ~(today \prec until[p])
    <3>1. next'[p] \in Date /\ today \prec next'[p]
      BY <2>2, <1>3, <1>4, NextAfterIsLater
    <3> QED
      BY <3>1, <2>2, <1>3, DatesArePairs, DateOrder
  <2> QED
    BY <2>1, <2>2
<1>6. /\ \A r \in Period \ {p} : recurs'[r] = recurs[r] /\ next'[r] = next[r]
      /\ recurs'[p]
      /\ recurs' \in [Period -> BOOLEAN]
      /\ next' \in [Period -> Date \cup {NoDate}]
  BY <1>1, <1>2, <1>4, <1>5 DEF MembershipsTypeOK
<1>7. /\ start' = start /\ until' = until /\ anchor' = anchor /\ parent' = parent
      /\ status' = status /\ today' = today /\ plan' = plan
      /\ stage' = stage /\ sweepDay' = sweepDay /\ left' = left /\ faults' = faults
  BY <1>1 DEF dates, business, sweep
<1>8. MembershipsTypeOK'
  <2>1. \A r \in Period : recurs'[r] <=> next'[r] # NoDate
    BY <1>2, <1>5, <1>6 DEF MembershipsTypeOK
  <2> QED
    BY <2>1, <1>1, <1>2, <1>6, <1>7 DEF MembershipsTypeOK
<1>9. RowsHaveDates' /\ ParentsAreMade' /\ SweepDayIsPast' /\ ExpiredIsPast'
  BY <1>2, <1>7 DEF MembershipsInv, RowsHaveDates, ParentsAreMade, SweepDayIsPast, ExpiredIsPast
<1>10. RenewsAfterEnd' /\ OnlyMadeRecur'
  BY <1>2, <1>5, <1>6, <1>7 DEF MembershipsInv, RenewsAfterEnd, OnlyMadeRecur
<1>11. RecurrenceIsLast'
  <2>1. \A r \in Made : start[r] \preceq start[p]
    <3> SUFFICES ASSUME NEW r \in Made PROVE start[r] \preceq start[p]
      OBVIOUS
    <3>1. start[r] \in Pair /\ start[p] \in Pair
      BY <1>2, DatesArePairs DEF RowsHaveDates
    <3>2. r = p \/ ~(start[p] \prec start[r])
      BY <1>1, <1>2 DEF HasNewer, Newer
    <3> QED
      BY <3>1, <3>2, DateOrder DEF \preceq
  <2>2. \A r \in Made, t \in Made :
           recurs[r] => start[t] \preceq start[r] \/ \E x \in Period : Twin(r, x)
    BY DEF MembershipsInv, RecurrenceIsLast
  <2> QED
    BY <2>1, <2>2, <1>2, <1>6, <1>7 DEF RecurrenceIsLast, Twin
<1> QED
  BY <1>8, <1>9, <1>10, <1>11 DEF MembershipsInv

LEMMA QuietFacts ==
    ASSUME MembershipsInv
    PROVE  /\ MembershipsTypeOK /\ today \in Date /\ sweepDay \in Date /\ sweepDay \preceq today
           /\ today \preceq today /\ left \subseteq Made
           /\ \A p \in Made : status[p] = "EXPIRED" => until[p] \preceq today
BY DEF MembershipsInv, MembershipsTypeOK, SweepDayIsPast, ExpiredIsPast, \preceq

LEMMA CancelKeeps ==
    ASSUME MembershipsInv, NEW p \in Period, Cancel(p)
    PROVE  MembershipsInv'
<1> DEFINE stopped == {p} \cup Descendants(p)
<1>1. /\ status[p] \in {"ACTIVE", "EXPIRED"}
      /\ status' = [status EXCEPT ![p] = "CANCELLED"]
      /\ StopRecurrence(stopped)
      /\ halted' = halted \cup {LastOf(p)}
      /\ UNCHANGED <<dates, business, sweep>>
  BY DEF Cancel
<1> HIDE DEF stopped
<1>2. /\ recurs' \in [Period -> BOOLEAN]
      /\ next' \in [Period -> Date \cup {NoDate}]
      /\ \A r \in Period : recurs'[r] <=> next'[r] # NoDate
      /\ \A r \in Period : recurs'[r] => recurs[r] /\ next'[r] = next[r]
  BY <1>1, QuietFacts, StopRecurrenceFacts
<1>3. /\ status' \in [Period -> {"NONE", "ACTIVE", "EXPIRED", "CANCELLED"}]
      /\ Made' = Made
      /\ \A r \in Made : status'[r] = "EXPIRED" => status[r] = "EXPIRED"
  BY <1>1, QuietFacts DEF MembershipsTypeOK, Made
<1>4. /\ UNCHANGED dates
      /\ today' = today /\ sweepDay' = sweepDay /\ left' = left
  BY <1>1 DEF business, sweep
<1>5. MembershipsTypeOK'
  <2>1. LastOf(p) \in Made
    BY <1>1, LastOfIs DEF Made
  <2> QED
    BY <1>1, <1>2, <1>3, <2>1, QuietFacts DEF MembershipsTypeOK, dates, business, sweep
<1> QED
  BY <1>2, <1>3, <1>4, <1>5, QuietFacts, QuietStepKeeps DEF MembershipsInv

LEMMA DisableKeeps ==
    ASSUME MembershipsInv, NEW p \in Period, DisableRenewal(p)
    PROVE  MembershipsInv'
<1> DEFINE stopped == {p} \cup Descendants(p)
<1>1. /\ StopRecurrence(stopped) /\ halted' = halted \cup {LastOf(p)}
      /\ UNCHANGED <<dates, status, business, sweep>>
  BY DEF DisableRenewal
<1> HIDE DEF stopped
<1>2. /\ recurs' \in [Period -> BOOLEAN]
      /\ next' \in [Period -> Date \cup {NoDate}]
      /\ \A r \in Period : recurs'[r] <=> next'[r] # NoDate
      /\ \A r \in Period : recurs'[r] => recurs[r] /\ next'[r] = next[r]
  BY <1>1, QuietFacts, StopRecurrenceFacts
<1>3. Made' = Made /\ UNCHANGED dates /\ status' = status
      /\ today' = today /\ sweepDay' = sweepDay /\ left' = left
  BY <1>1 DEF Made, business, sweep
<1>4. MembershipsTypeOK'
  <2>1. LastOf(p) \in Made
    BY LastOfIs DEF DisableRenewal
  <2> QED
    BY <1>1, <1>2, <1>3, <2>1, QuietFacts DEF MembershipsTypeOK, dates, business, sweep
<1> QED
  BY <1>2, <1>3, <1>4, QuietFacts, QuietStepKeeps DEF MembershipsInv

LEMMA StopRenewalKeeps ==
    ASSUME MembershipsInv, NEW p \in Period, StopRenewal(p)
    PROVE  MembershipsInv'
<1>1. Settle(p) /\ StopRecurrence({p}) /\ UNCHANGED <<dates, status, faults, halted>>
  BY DEF StopRenewal
<1>2. /\ recurs' \in [Period -> BOOLEAN]
      /\ next' \in [Period -> Date \cup {NoDate}]
      /\ \A r \in Period : recurs'[r] <=> next'[r] # NoDate
      /\ \A r \in Period : recurs'[r] => recurs[r] /\ next'[r] = next[r]
  BY <1>1, QuietFacts, StopRecurrenceFacts
<1>3. Made' = Made /\ UNCHANGED dates /\ status' = status
      /\ today' = today /\ sweepDay' = sweepDay /\ left' \subseteq Made
  BY <1>1, QuietFacts DEF Made, business, Settle
<1>4. MembershipsTypeOK'
  BY <1>1, <1>2, <1>3, QuietFacts DEF MembershipsTypeOK, dates, business, Settle
<1> QED
  BY <1>2, <1>3, <1>4, QuietFacts, QuietStepKeeps DEF MembershipsInv

\* The steps of the sweep that touch no row, and those of its surroundings.
LEMMA RestKeeps ==
    ASSUME MembershipsInv, UNCHANGED periods,
           \/ StartSweep \/ FindCandidates \/ RestartWorker \/ NewDay \/ ChangePlan
           \/ \E p \in Period : SkipRenewal(p) \/ RefuseUnpriced(p) \/ FailRenewal(p)
    PROVE  MembershipsInv'
<1>1. /\ Made' = Made /\ UNCHANGED dates
      /\ recurs' = recurs /\ next' = next /\ status' = status
  BY DEF periods, Made
<1>2. today' \in Date /\ today \preceq today'
  <2>1. CASE NewDay
    BY <2>1, QuietFacts, TomorrowIsLater DEF NewDay, \preceq
  <2>2. CASE ~NewDay
    BY <2>2, QuietFacts
    DEF StartSweep, FindCandidates, RestartWorker, ChangePlan, SkipRenewal, RefuseUnpriced,
        FailRenewal, Settle, business
  <2> QED
    BY <2>1, <2>2
<1>3. left' \subseteq Made
  BY QuietFacts DEF StartSweep, FindCandidates, RestartWorker, NewDay, ChangePlan,
                    SkipRenewal, RefuseUnpriced, FailRenewal, Settle, sweep
<1>4. sweepDay' \in Date /\ sweepDay' \preceq today'
  <2>1. sweepDay' = sweepDay \/ (sweepDay' = today /\ today' = today)
    BY DEF StartSweep, FindCandidates, RestartWorker, NewDay, ChangePlan,
           SkipRenewal, RefuseUnpriced, FailRenewal, Settle, sweep, business
  <2>2. today \in Pair /\ today' \in Pair /\ sweepDay \in Pair
    BY <1>2, QuietFacts, DatesArePairs
  <2> QED
    BY <2>1, <2>2, <1>2, QuietFacts, DateOrder
<1> DEFINE SweepTypes == /\ plan' \in Plans
                         /\ stage' \in {"idle", "expire", "discover", "renew"}
                         /\ (stage' = "renew") <=> (left' # {})
                         /\ faults' \in 0..MaxFaults
                         /\ halted' = halted
<1>5. SweepTypes
  <2> USE QuietFacts DEF MembershipsTypeOK
  <2>1. CASE StartSweep
    BY <2>1 DEF StartSweep, business
  <2>2. CASE FindCandidates
    BY <2>2 DEF FindCandidates, business
  <2>3. CASE RestartWorker
    BY <2>3, FaultsAssumption DEF RestartWorker, business
  <2>4. CASE NewDay
    BY <2>4 DEF NewDay, sweep
  <2>5. CASE ChangePlan
    BY <2>5 DEF ChangePlan, sweep
  <2>6. ASSUME NEW p \in Period, SkipRenewal(p) \/ RefuseUnpriced(p) PROVE SweepTypes
    BY <2>6 DEF SkipRenewal, RefuseUnpriced, Settle, business
  <2>7. ASSUME NEW p \in Period, FailRenewal(p) PROVE SweepTypes
    BY <2>7, FaultsAssumption DEF FailRenewal, Settle, business
  <2> QED
    BY <2>1, <2>2, <2>3, <2>4, <2>5, <2>6, <2>7
<1>6. MembershipsTypeOK'
  BY <1>1, <1>2, <1>3, <1>4, <1>5, QuietFacts DEF MembershipsTypeOK, dates
<1> QED
  BY <1>1, <1>2, <1>3, <1>4, <1>6, QuietFacts, QuietStepKeeps DEF MembershipsInv

LEMMA ExpireKeeps ==
    ASSUME MembershipsInv, ExpireMemberships
    PROVE  MembershipsInv'
<1>1. PICK active \in BOOLEAN :
         status' = [p \in Period |->
                      IF active /\ status[p] = "ACTIVE" /\ until[p] \preceq sweepDay
                      THEN "EXPIRED" ELSE status[p]]
  BY DEF ExpireMemberships
<1>2. /\ stage = "expire" /\ stage' = "discover"
      /\ UNCHANGED <<dates, recurs, next, business, sweepDay, left, faults, halted>>
  BY DEF ExpireMemberships
<1>3. /\ status' \in [Period -> {"NONE", "ACTIVE", "EXPIRED", "CANCELLED"}]
      /\ Made' = Made
      /\ \A p \in Made : status'[p] = "EXPIRED" =>
             status[p] = "EXPIRED" \/ until[p] \preceq sweepDay
  BY <1>1, QuietFacts DEF MembershipsTypeOK, Made
<1>4. /\ UNCHANGED dates /\ today' = today /\ sweepDay' = sweepDay /\ left' = left
      /\ recurs' = recurs /\ next' = next
  BY <1>2 DEF business
<1>5. left' = {} /\ left = {}
  BY <1>2, <1>4, QuietFacts DEF MembershipsTypeOK
<1>6. MembershipsTypeOK'
  BY <1>2, <1>3, <1>4, <1>5, QuietFacts DEF MembershipsTypeOK, dates, business
<1>7. \A p \in Made : status'[p] = "EXPIRED" =>
         status[p] = "EXPIRED" \/ until[p] \preceq today'
  <2> SUFFICES ASSUME NEW p \in Made, until[p] \preceq sweepDay
               PROVE  until[p] \preceq today
    BY <1>3, <1>4
  <2>1. until[p] \in Pair /\ sweepDay \in Pair /\ today \in Pair
    BY QuietFacts, DatesArePairs DEF MembershipsInv, RowsHaveDates
  <2> QED
    BY <2>1, QuietFacts, DateOrder
<1> QED
  BY <1>3, <1>4, <1>6, <1>7, QuietFacts, QuietStepKeeps DEF MembershipsInv

LEMMA StutterKeeps ==
    ASSUME MembershipsInv, UNCHANGED membershipsVars
    PROVE  MembershipsInv'
<1>1. UNCHANGED <<periods, business, sweep, halted>> /\ UNCHANGED <<dates, status, recurs, next>>
  BY DEF membershipsVars, periods
<1>2. Made' = Made /\ left' = left /\ sweepDay' = sweepDay /\ today' = today
  BY <1>1 DEF Made, business, sweep
<1>3. MembershipsTypeOK'
  BY <1>1, <1>2, QuietFacts DEF MembershipsTypeOK, dates, business, sweep
<1> QED
  BY <1>1, <1>2, <1>3, QuietFacts, QuietStepKeeps DEF MembershipsInv

\* The invariant is kept by every step.
THEOREM MembershipsInductive == MembershipsInv /\ [MembershipsNext]_membershipsVars => MembershipsInv'
<1> SUFFICES ASSUME MembershipsInv, [MembershipsNext]_membershipsVars PROVE MembershipsInv'
  OBVIOUS
<1>1. ASSUME NEW p \in Period, NEW from \in StartDates, NEW auto \in BOOLEAN,
             Create(p, from, auto)
      PROVE  MembershipsInv'
  BY <1>1, CreateKeeps
<1>2. ASSUME NEW p \in Period, NEW q \in Period, Renew(p, q) PROVE MembershipsInv'
  BY <1>2, RenewKeeps
<1>3. ASSUME NEW p \in Period, Cancel(p) PROVE MembershipsInv'
  BY <1>3, CancelKeeps
<1>4. ASSUME NEW p \in Period, EnableRenewal(p) PROVE MembershipsInv'
  BY <1>4, EnableKeeps
<1>5. ASSUME NEW p \in Period, DisableRenewal(p) PROVE MembershipsInv'
  BY <1>5, DisableKeeps
<1>6. CASE ExpireMemberships
  BY <1>6, ExpireKeeps
<1>7. ASSUME NEW p \in Period, StopRenewal(p) PROVE MembershipsInv'
  BY <1>7, StopRenewalKeeps
<1>8. ASSUME NEW p \in Period, NEW q \in Period, RenewMembership(p, q) PROVE MembershipsInv'
  BY <1>8, RenewMembershipKeeps
<1>9. CASE StartSweep
  BY <1>9, RestKeeps DEF StartSweep
<1>10. CASE FindCandidates
  BY <1>10, RestKeeps DEF FindCandidates
<1>11. ASSUME NEW p \in Period, SkipRenewal(p) \/ RefuseUnpriced(p) PROVE MembershipsInv'
  BY <1>11, RestKeeps DEF SkipRenewal, RefuseUnpriced
<1>12. ASSUME NEW p \in Period, FailRenewal(p) PROVE MembershipsInv'
  BY <1>12, RestKeeps DEF FailRenewal
<1>13. CASE RestartWorker
  BY <1>13, RestKeeps DEF RestartWorker
<1>14. CASE NewDay
  BY <1>14, RestKeeps DEF NewDay
<1>15. CASE ChangePlan
  BY <1>15, RestKeeps DEF ChangePlan
<1>16. CASE UNCHANGED membershipsVars
  BY <1>16, StutterKeeps
<1> QED
  BY <1>1, <1>2, <1>3, <1>4, <1>5, <1>6, <1>7, <1>8, <1>9, <1>10, <1>11, <1>12, <1>13,
     <1>14, <1>15, <1>16 DEF MembershipsNext

LEMMA Invariance == MembershipsSpec => []MembershipsInv
<1> QED
  BY MembershipsInvInit, MembershipsInductive, PTL DEF MembershipsSpec

----
(* The theorems *)

\* Rows, calendar dates and the sweep keep their types in every run, for any
\* calendar and any number of periods.
THEOREM MembershipsTypeCorrect == MembershipsSpec => []MembershipsTypeOK
<1>1. MembershipsInv => MembershipsTypeOK
  BY DEF MembershipsInv
<1> QED
  BY <1>1, Invariance, PTL

\* Whatever desk and worker do, only the last period (or one that starts with
\* it) recurs (memberships.service.ts:208 and the checks for newer periods), and
\* neither expiration nor renewal closes a period that still runs, however old
\* the day the sweep works with (membership-expiration.ts:56).
THEOREM PeriodsInOrderHolds == MembershipsSpec => []PeriodsInOrder
<1>1. MembershipsInv => PeriodsInOrder
  BY DEF MembershipsInv, PeriodsInOrder
<1> QED
  BY <1>1, Invariance, PTL

\* A step of the sweep that settles a candidate and makes a row renews that candidate.
LEMMA SettlingRenews ==
    ASSUME MembershipsInv, [MembershipsNext]_membershipsVars, NEW p \in left, left' = left \ {p},
           NEW q \in Period \ Made, status'[q] # "NONE"
    PROVE  \E y \in Period : RenewMembership(p, y)
<1>1. left' # left /\ q \in Made' /\ Made' # Made /\ status' # status
  BY DEF Made
<1>2. CASE \E x, y \in Period : RenewMembership(x, y)
  <2>1. PICK x \in Period, y \in Period : RenewMembership(x, y)
    BY <1>2
  <2>2. x \in left /\ left' = left \ {x}
    BY <2>1 DEF RenewMembership, Settle
  <2> QED
    BY <2>1, <2>2
<1>3. CASE ~\E x, y \in Period : RenewMembership(x, y)
  <2>1. ASSUME NEW x \in Period, NEW from \in StartDates, NEW auto \in BOOLEAN,
               Create(x, from, auto)
        PROVE  FALSE
    BY <2>1, <1>1 DEF Create, sweep
  <2>2. ASSUME NEW x \in Period, NEW y \in Period, Renew(x, y) PROVE FALSE
    BY <2>2, <1>1 DEF Renew, sweep
  <2>3. ASSUME NEW x \in Period, Cancel(x) \/ EnableRenewal(x) \/ DisableRenewal(x)
        PROVE  FALSE
    BY <2>3, <1>1 DEF Cancel, EnableRenewal, DisableRenewal, sweep
  <2>4. ASSUME NEW x \in Period,
               StopRenewal(x) \/ SkipRenewal(x) \/ RefuseUnpriced(x) \/ FailRenewal(x)
        PROVE  FALSE
    BY <2>4, <1>1 DEF StopRenewal, SkipRenewal, RefuseUnpriced, FailRenewal, periods
  <2>5. ~StartSweep /\ ~FindCandidates /\ ~RestartWorker /\ ~NewDay /\ ~ChangePlan
    BY <1>1 DEF StartSweep, FindCandidates, RestartWorker, NewDay, ChangePlan, periods
  <2>6. ~ExpireMemberships
    BY <1>1 DEF ExpireMemberships
  <2>7. ~UNCHANGED membershipsVars
    BY <1>1 DEF membershipsVars, sweep
  <2> QED
    BY <1>3, <2>1, <2>2, <2>3, <2>4, <2>5, <2>6, <2>7 DEF MembershipsNext
<1> QED
  BY <1>2, <1>3

\* It covers the sweep's day.
LEMMA SettlingCovers ==
    ASSUME MembershipsInv, [MembershipsNext]_membershipsVars, NEW p \in left, left' = left \ {p},
           NEW q \in Period \ Made, status'[q] # "NONE"
    PROVE  start'[q] \preceq sweepDay /\ sweepDay \prec until'[q]
<1>1. PICK y \in Period : RenewMembership(p, y)
  BY SettlingRenews
<1>2. p \in Period /\ q \in Made'
  BY DEF MembershipsInv, MembershipsTypeOK, Made
<1>3. q = y
  BY <1>1, <1>2, RenewMembershipKeeps
<1> QED
  BY <1>1, <1>2, <1>3, RenewMembershipKeeps

\* "Never produce a backlog": membership-renewal.ts:108.
THEOREM WorkerChargesOnlyTodayHolds == MembershipsSpec => WorkerChargesOnlyToday
<1> DEFINE A == \A p \in left, q \in Period :
                  (left' = left \ {p} /\ q \notin Made /\ status'[q] # "NONE") =>
                     /\ start'[q] \preceq sweepDay
                     /\ sweepDay \prec until'[q]
<1>1. MembershipsInv /\ [MembershipsNext]_membershipsVars => [A]_membershipsVars
  <2> SUFFICES ASSUME MembershipsInv, [MembershipsNext]_membershipsVars PROVE A
    OBVIOUS
  <2> QED
    BY SettlingCovers
<1> QED
  BY <1>1, Invariance, PTL DEF MembershipsSpec, WorkerChargesOnlyToday

\* What the desk stopped stays stopped: the last period of its chain, the only one
\* that could recur.
HaltedIsOff == \A p \in halted : ~recurs[p]

LEMMA SuccessionOff ==
    ASSUME MembershipsInv, HaltedIsOff, NEW p \in Made, NEW q \in Period, IsNext(q),
           NEW from \in Date, NEW old \in {"ACTIVE", "EXPIRED"}, Succeed(p, q, from, old)
    PROVE  HaltedIsOff'
<1>1. MembershipsTypeOK /\ p \in Period /\ q \notin Made /\ halted \subseteq Made /\ Made \subseteq Period
  BY DEF MembershipsInv, MembershipsTypeOK, Made, IsNext
<1>2. recurs' = [recurs EXCEPT ![p] = FALSE, ![q] = recurs[p]]
      /\ halted' = IF p \in halted THEN (halted \ {p}) \cup {q} ELSE halted
  BY DEF Succeed
<1> QED
  BY <1>1, <1>2 DEF HaltedIsOff, MembershipsTypeOK

LEMMA HaltedStep ==
    ASSUME MembershipsInv, HaltedIsOff, [MembershipsNext]_membershipsVars
    PROVE  HaltedIsOff'
<1>1. MembershipsTypeOK /\ halted \subseteq Made /\ Made \subseteq Period /\ recurs \in [Period -> BOOLEAN]
  BY DEF MembershipsInv, MembershipsTypeOK, Made
<1>2. ASSUME NEW p \in Period, NEW from \in StartDates, NEW auto \in BOOLEAN, Create(p, from, auto)
      PROVE  HaltedIsOff'
  <2>1. p \notin Made /\ halted' = halted
        /\ \A q \in Period \ {p} : recurs'[q] => recurs[q]
    BY <1>2 DEF Create, IsNext
  <2> QED
    BY <1>1, <2>1 DEF HaltedIsOff
<1>3. ASSUME NEW p \in Period, NEW q \in Period, Renew(p, q) PROVE HaltedIsOff'
  <2>1. p \in Made /\ IsNext(q)
    BY <1>3 DEF Renew, Made
  <2>2. PICK from, old : Succeed(p, q, from, old) /\ from = CurrentStart(until[p], anchor[p], today)
                         /\ old = IF until[p] \preceq today THEN "EXPIRED" ELSE status[p]
    BY <1>3 DEF Renew
  <2>3. from \in Date /\ old \in {"ACTIVE", "EXPIRED"}
    BY <1>1, <1>3, <2>1, <2>2, CurrentStartCovers DEF MembershipsInv, MembershipsTypeOK, RowsHaveDates, Renew
  <2> QED
    BY <2>1, <2>2, <2>3, SuccessionOff
<1>4. ASSUME NEW p \in Period, NEW q \in Period, RenewMembership(p, q) PROVE HaltedIsOff'
  <2>1. p \in Made /\ IsNext(q) /\ recurs[p] /\ next[p] \preceq sweepDay
    BY <1>4 DEF RenewMembership, MembershipsInv, OnlyMadeRecur
  <2>2. PICK from : Succeed(p, q, from, "EXPIRED") /\ from = CurrentStart(next[p], anchor[p], sweepDay)
    BY <1>4 DEF RenewMembership
  <2>3. from \in Date
    BY <1>1, <2>1, <2>2, CurrentStartCovers DEF MembershipsInv, MembershipsTypeOK, RowsHaveDates
  <2> QED
    BY <2>1, <2>2, <2>3, SuccessionOff
<1>5. ASSUME NEW p \in Period, Cancel(p) \/ DisableRenewal(p) PROVE HaltedIsOff'
  <2>1. p \in Made
    BY <1>5 DEF Cancel, DisableRenewal, Made
  <2>2. PICK stopped, last : /\ stopped = {p} \cup Descendants(p) /\ last = LastOf(p)
    OBVIOUS
  <2>3. StopRecurrence(stopped) /\ halted' = halted \cup {last}
    BY <1>5, <2>2 DEF Cancel, DisableRenewal
  <2>4. last \in stopped /\ last \in Made
    BY <2>1, <2>2, LastOfIs
  <2> QED
    BY <1>1, <2>3, <2>4 DEF HaltedIsOff, StopRecurrence
<1>6. ASSUME NEW p \in Period, EnableRenewal(p) PROVE HaltedIsOff'
  BY <1>1, <1>6 DEF EnableRenewal, HaltedIsOff
<1>7. ASSUME NEW p \in Period, StopRenewal(p) PROVE HaltedIsOff'
  BY <1>1, <1>7 DEF StopRenewal, StopRecurrence, HaltedIsOff
<1>8. ASSUME UNCHANGED <<recurs, halted>> PROVE HaltedIsOff'
  BY <1>8 DEF HaltedIsOff
<1>9. \/ StartSweep \/ ExpireMemberships \/ FindCandidates \/ RestartWorker \/ NewDay \/ ChangePlan
      \/ (\E p \in Period : SkipRenewal(p) \/ RefuseUnpriced(p) \/ FailRenewal(p))
      \/ UNCHANGED membershipsVars
      => UNCHANGED <<recurs, halted>>
  BY DEF StartSweep, ExpireMemberships, FindCandidates, RestartWorker, NewDay, ChangePlan,
         SkipRenewal, RefuseUnpriced, FailRenewal, membershipsVars, periods
<1> QED
  BY <1>2, <1>3, <1>4, <1>5, <1>6, <1>7, <1>8, <1>9, Zenon DEF MembershipsNext

\* What the desk has stopped, by an id that may be older than what the worker made
\* of it, no sweep charges again (stopRenewalRecords, memberships.service.ts:637).
THEOREM StopsAreHonouredHolds == MembershipsSpec => StopsAreHonoured
<1> DEFINE A == \A p \in left, q \in Period :
                  (left' = left \ {p} /\ q \notin Made /\ status'[q] # "NONE") =>
                     p \notin halted
<1>1. MembershipsInit => HaltedIsOff
  BY DEF MembershipsInit, HaltedIsOff
<1>2. MembershipsInv /\ HaltedIsOff /\ [MembershipsNext]_membershipsVars => [A]_membershipsVars
  <2> SUFFICES ASSUME MembershipsInv, HaltedIsOff, [MembershipsNext]_membershipsVars,
                      NEW p \in left, NEW q \in Period,
                      left' = left \ {p}, q \notin Made, status'[q] # "NONE"
               PROVE  p \notin halted
    OBVIOUS
  <2>1. recurs[p]
    BY SettlingRenews DEF RenewMembership
  <2> QED
    BY <2>1 DEF HaltedIsOff
<1>3. MembershipsInv /\ HaltedIsOff /\ [MembershipsNext]_membershipsVars => HaltedIsOff'
  BY HaltedStep
<1> QED
  BY <1>1, <1>2, <1>3, Invariance, PTL DEF MembershipsSpec, StopsAreHonoured

----
(* The anchor *)

\* The date falls on the anchor day of its month.
OnAnchor(d, day) == d = AnchoredDate(d[1], day)

\* A row begins and ends on its anchor day, and is renewed on it.
Anchored(p) ==
    /\ OnAnchor(start[p], anchor[p])
    /\ until[p] = NextMonthlyDate(start[p], anchor[p])
    /\ recurs[p] => OnAnchor(next[p], anchor[p])

AnchorsKept == \A p \in Made : Anchored(p)

\* What the operators on dates return falls on the anchor day.
LEMMA AnchoredDates ==
    ASSUME NEW d, NEW e, NEW day
    PROVE  /\ OnAnchor(NextMonthlyDate(d, day), day)
           /\ OnAnchor(NextMonthlyDateAfter(d, day), day)
           /\ OnAnchor(d, day) => OnAnchor(CurrentStart(d, day, e), day)
<1>1. \A m : OnAnchor(AnchoredDate(m, day), day)
  BY DEF AnchoredDate, OnAnchor
<1> QED
  BY <1>1 DEF NextMonthlyDate, NextMonthlyDateAfter, CurrentStart

\* A date is on the anchor of its own day.
LEMMA OwnAnchor ==
    ASSUME NEW d \in Date
    PROVE  OnAnchor(d, d[2])
BY DEF Date, AnchoredDate, OnAnchor

LEMMA EndsOnAnchor ==
    ASSUME AnchorsKept, NEW p \in Made
    PROVE  OnAnchor(until[p], anchor[p])
<1>1. until[p] = NextMonthlyDate(start[p], anchor[p])
  BY DEF AnchorsKept, Anchored
<1>2. OnAnchor(NextMonthlyDate(start[p], anchor[p]), anchor[p])
  BY AnchoredDates
<1> QED
  BY <1>1, <1>2

\* Of two anchored periods the one that starts first ends first.
LEMMA AnchoredOrder ==
    ASSUME MembershipsTypeOK, RowsHaveDates, AnchorsKept,
           NEW p \in Made, NEW r \in Made, start[r] \prec start[p]
    PROVE  until[r] \preceq until[p]
<1> DEFINE m == start[r][1]
           n == start[p][1]
<1>1. p \in Period /\ r \in Period
  BY DEF Made
<1>2. /\ m \in Nat /\ n \in Nat /\ m + 1 \in Nat /\ n + 1 \in Nat
      /\ anchor[p] \in Nat /\ anchor[r] \in Nat
  BY <1>1, DatesArePairs DEF RowsHaveDates, MembershipsTypeOK
<1>3. /\ start[r] = AnchoredDate(m, anchor[r]) /\ start[p] = AnchoredDate(n, anchor[p])
      /\ until[r] = AnchoredDate(m + 1, anchor[r]) /\ until[p] = AnchoredDate(n + 1, anchor[p])
  BY DEF AnchorsKept, Anchored, NextMonthlyDate, OnAnchor
<1>4. MonthLength(m) \in Nat /\ MonthLength(n) \in Nat
      /\ MonthLength(m + 1) \in Nat /\ MonthLength(n + 1) \in Nat
  BY <1>2, MonthHasDays
<1>5. m < n \/ (m = n /\ start[r][2] < start[p][2])
  BY DEF \prec
<1> HIDE DEF m, n
<1>6. CASE m < n
  BY <1>2, <1>3, <1>6 DEF AnchoredDate, \preceq, \prec
<1>7. CASE m = n /\ start[r][2] < start[p][2]
  <2>1. anchor[r] <= anchor[p]
    BY <1>2, <1>3, <1>4, <1>7 DEF AnchoredDate
  <2> QED
    BY <1>2, <1>3, <1>4, <1>7, <2>1 DEF AnchoredDate, \preceq, \prec
<1> QED
  BY <1>5, <1>6, <1>7

\* A renewal, by the desk or by the worker: on the anchor, from the end of p on.
LEMMA RenewalSucceeds ==
    ASSUME MembershipsInv, AnchorsKept, NEW p \in Period, NEW q \in Period,
           Renew(p, q) \/ RenewMembership(p, q)
    PROVE  /\ p \in Made /\ IsNext(q) /\ ~HasNewer(p)
           /\ \E from \in Date, old \in {"ACTIVE", "EXPIRED"} :
                /\ Succeed(p, q, from, old)
                /\ until[p] \preceq from
                /\ OnAnchor(from, anchor[p])
<1>1. MembershipsTypeOK /\ RowsHaveDates /\ p \in Made
  BY DEF MembershipsInv, Renew, RenewMembership, OnlyMadeRecur, Made
<1>2. IsNext(q) /\ ~HasNewer(p)
  BY DEF Renew, RenewMembership
<1>3. /\ until[p] \in Date /\ today \in Date /\ sweepDay \in Date
      /\ anchor[p] \in Nat /\ anchor[p] >= 1
      /\ OnAnchor(until[p], anchor[p])
  BY <1>1, EndsOnAnchor DEF MembershipsTypeOK, RowsHaveDates
<1>4. CASE Renew(p, q)
  <2>1. PICK from : from = CurrentStart(until[p], anchor[p], today)
    OBVIOUS
  <2>2. /\ from \in Date /\ until[p] \preceq from
        /\ OnAnchor(from, anchor[p])
    BY <1>3, <2>1, CurrentStartCovers, AnchoredDates
  <2>3. Succeed(p, q, from, IF until[p] \preceq today THEN "EXPIRED" ELSE status[p])
        /\ status[p] \in {"ACTIVE", "EXPIRED"}
    BY <1>4, <2>1 DEF Renew
  <2> QED
    BY <1>1, <1>2, <2>2, <2>3
<1>5. CASE RenewMembership(p, q)
  <2>1. PICK from : from = CurrentStart(next[p], anchor[p], sweepDay)
    OBVIOUS
  <2>2. recurs[p] /\ next[p] \in Date /\ Succeed(p, q, from, "EXPIRED")
    BY <1>1, <1>5, <2>1 DEF RenewMembership, MembershipsTypeOK
  <2>3. OnAnchor(next[p], anchor[p]) /\ until[p] \preceq next[p]
    BY <1>1, <2>2 DEF AnchorsKept, Anchored, MembershipsInv, RenewsAfterEnd
  <2>4. from \in Date /\ next[p] \preceq from /\ OnAnchor(from, anchor[p])
    BY <1>3, <2>1, <2>2, <2>3, CurrentStartCovers, AnchoredDates
  <2>5. until[p] \preceq from
    BY <1>3, <2>2, <2>3, <2>4, DatesArePairs, DateOrder
  <2> QED
    BY <1>1, <1>2, <2>2, <2>4, <2>5
<1> QED
  BY <1>4, <1>5

\* A row that succeeds p fits: it keeps the anchor, and begins after the rows there
\* are have ended, since the last of them is p.
LEMMA SuccessionFits ==
    ASSUME MembershipsInv, AnchorsKept, NEW p \in Made, NEW q \in Period, IsNext(q), ~HasNewer(p),
           NEW from \in Date, NEW old \in {"ACTIVE", "EXPIRED"}, Succeed(p, q, from, old),
           until[p] \preceq from, OnAnchor(from, anchor[p])
    PROVE  /\ AnchorsKept'
           /\ parent'[q] = p /\ Made' = Made \cup {q}
           /\ anchor'[q] = anchor[p]
           /\ OnAnchor(start'[q], anchor[p])
           /\ \A r \in Made : ~Twin(p, r) => until[r] \preceq start'[q]
<1> DEFINE to == NextMonthlyDate(from, anchor[p])
<1>1. MembershipsTypeOK /\ RowsHaveDates /\ p \in Period /\ p \in 0..MaxPeriods
  BY DEF MembershipsInv, Made, Period
<1>2. /\ Insert(q, from, to, anchor[p], p) /\ to \in Date /\ q \notin Made
      /\ Made' = Made \cup {q}
      /\ ~recurs'[p]
      /\ recurs'[q] => next'[q] = to
      /\ \A r \in Period \ {p, q} : recurs'[r] = recurs[r] /\ next'[r] = next[r]
  BY <1>1, SucceedFacts
<1>3. anchor[p] \in Nat
  BY <1>1 DEF MembershipsTypeOK
<1>4. /\ start'[q] = from /\ until'[q] = to /\ anchor'[q] = anchor[p] /\ parent'[q] = p
      /\ \A r \in Period \ {q} :
           start'[r] = start[r] /\ until'[r] = until[r] /\ anchor'[r] = anchor[r]
  <2>1. Insert(q, from, to, anchor[p], p) /\ to \in Date
    BY <1>2
  <2> HIDE DEF to
  <2> QED
    BY <1>1, <1>3, <2>1, InsertFacts
<1>5. OnAnchor(to, anchor[p])
  BY AnchoredDates
<1>6. Anchored(q)'
  BY <1>2, <1>4, <1>5 DEF Anchored, OnAnchor
<1> HIDE DEF to
<1>7. ASSUME NEW r \in Made PROVE Anchored(r)'
  <2>1. r \in Period \ {q} /\ (recurs'[r] => recurs[r] /\ next'[r] = next[r])
    BY <1>2 DEF Made
  <2> QED
    BY <1>4, <2>1 DEF AnchorsKept, Anchored, OnAnchor
<1>8. AnchorsKept'
  BY <1>2, <1>6, <1>7 DEF AnchorsKept
<1>9. ASSUME NEW r \in Made, ~Twin(p, r) PROVE until[r] \preceq from
  <2>1. /\ start[r] \in Pair /\ start[p] \in Pair /\ from \in Pair
        /\ until[r] \in Pair /\ until[p] \in Pair
    BY <1>1, DatesArePairs DEF RowsHaveDates
  <2>2. CASE r = p
    BY <2>2
  <2>3. CASE r # p
    <3>1. ~(start[p] \prec start[r]) /\ start[p] # start[r]
      BY <1>9, <2>3 DEF HasNewer, Newer, Twin, Made
    <3>2. start[r] \prec start[p]
      BY <2>1, <3>1, DateOrder DEF \preceq
    <3>3. until[r] \preceq until[p]
      BY <1>1, <3>2, AnchoredOrder
    <3> QED
      BY <2>1, <3>3, DateOrder
  <2> QED
    BY <2>2, <2>3
<1> QED
  BY <1>2, <1>4, <1>8, <1>9

\* Steps that insert no row and set no date of renewal.
LEMMA QuietAnchors ==
    ASSUME AnchorsKept, UNCHANGED dates, Made' = Made,
           \A p \in Made : recurs'[p] => recurs[p] /\ next'[p] = next[p]
    PROVE  AnchorsKept'
BY DEF AnchorsKept, Anchored, OnAnchor, dates

LEMMA CreateAnchors ==
    ASSUME MembershipsInv, AnchorsKept, NEW p \in Period, NEW from \in StartDates, NEW auto \in BOOLEAN,
           Create(p, from, auto)
    PROVE  /\ AnchorsKept'
           /\ Made' = Made \cup {p} /\ parent'[p] = 0
<1> DEFINE to == NextMonthlyDate(from, from[2])
           superseded == {q \in Made : recurs[q] /\ start[q] \preceq from}
<1>1. MembershipsTypeOK /\ p \in Period \ Made /\ 0 \in 0..MaxPeriods
  BY PeriodsAssumption DEF MembershipsInv, Create, IsNext
<1>2. from \in Date /\ from[2] \in Nat /\ from[2] >= 1
  BY DatesAssumption, DatesArePairs
<1>3. to \in Date
  BY <1>2, NextMonthIsLater
<1>4. /\ Insert(p, from, to, from[2], 0)
      /\ status' = [status EXCEPT ![p] = "ACTIVE"]
      /\ recurs' = [q \in Period |->
                      IF q = p THEN auto ELSE recurs[q] /\ q \notin superseded]
      /\ next' = [q \in Period |->
                    CASE q \in superseded -> NoDate
                      [] q = p /\ auto -> IF today \prec to THEN to
                                          ELSE NextMonthlyDateAfter(today, from[2])
                      [] OTHER -> next[q]]
  BY DEF Create
<1>5. p \notin superseded
  BY <1>1
<1>6. Made' = Made \cup {p}
  BY <1>1, <1>4 DEF MembershipsTypeOK, Made
<1> HIDE DEF superseded
<1>7. recurs'[p] => next'[p] \in {to, NextMonthlyDateAfter(today, from[2])}
  BY <1>4, <1>5
<1>8. \A q \in Period \ {p} : recurs'[q] => recurs[q] /\ next'[q] = next[q]
  BY <1>4
<1>9. /\ OnAnchor(to, from[2]) /\ OnAnchor(from, from[2])
      /\ OnAnchor(NextMonthlyDateAfter(today, from[2]), from[2])
  BY <1>2, OwnAnchor, AnchoredDates
<1>10. /\ start'[p] = from /\ until'[p] = to /\ anchor'[p] = from[2] /\ parent'[p] = 0
       /\ \A q \in Period \ {p} :
            start'[q] = start[q] /\ until'[q] = until[q] /\ anchor'[q] = anchor[q]
  BY <1>1, <1>2, <1>3, <1>4, InsertFacts
<1>11. Anchored(p)'
  BY <1>7, <1>9, <1>10 DEF Anchored, OnAnchor
<1>12. ASSUME NEW q \in Made PROVE Anchored(q)'
  <2>1. q \in Period \ {p}
    BY <1>1 DEF Made
  <2> QED
    BY <1>8, <1>10, <2>1 DEF AnchorsKept, Anchored, OnAnchor
<1> QED
  BY <1>6, <1>10, <1>11, <1>12 DEF AnchorsKept

\* What the other steps do with rows: they insert none.
LEMMA OthersInsertNone ==
    ASSUME MembershipsInv, AnchorsKept, [MembershipsNext]_membershipsVars,
           ~\E p \in Period, from \in StartDates, auto \in BOOLEAN : Create(p, from, auto),
           ~\E p, q \in Period : Renew(p, q) \/ RenewMembership(p, q)
    PROVE  AnchorsKept' /\ Made' = Made
<1>1. MembershipsTypeOK
  BY DEF MembershipsInv
<1>2. ASSUME UNCHANGED periods PROVE AnchorsKept' /\ Made' = Made
  <2>1. UNCHANGED <<dates, status, recurs, next>> /\ Made' = Made
    BY <1>2 DEF periods, Made
  <2> QED
    BY <2>1, QuietAnchors
<1>3. ASSUME NEW S, StopRecurrence(S), UNCHANGED dates, Made' = Made PROVE AnchorsKept'
  BY <1>1, <1>3, StopRecurrenceFacts, QuietAnchors DEF Made
<1>4. ASSUME NEW p \in Period, Cancel(p) PROVE AnchorsKept' /\ Made' = Made
  <2>1. Made' = Made
    BY <1>1, <1>4 DEF Cancel, Made, MembershipsTypeOK
  <2> QED
    BY <1>3, <1>4, <2>1 DEF Cancel
<1>5. ASSUME NEW p \in Period, EnableRenewal(p) PROVE AnchorsKept' /\ Made' = Made
  <2>1. /\ UNCHANGED <<dates, status>>
        /\ recurs' = [recurs EXCEPT ![p] = TRUE]
        /\ next' = [next EXCEPT ![p] = IF today \prec until[p] THEN until[p]
                                       ELSE NextMonthlyDateAfter(today, anchor[p])]
    BY <1>5 DEF EnableRenewal
  <2>2. Made' = Made /\ Made \subseteq Period
    BY <2>1 DEF Made
  <2>3. p \in Made =>
          OnAnchor(until[p], anchor[p])
    BY EndsOnAnchor
  <2>4. OnAnchor(NextMonthlyDateAfter(today, anchor[p]), anchor[p])
    BY AnchoredDates
  <2>5. ASSUME NEW q \in Made PROVE Anchored(q)'
    <3>1. CASE q = p
      <4>1. next'[p] \in {until[p], NextMonthlyDateAfter(today, anchor[p])}
        BY <1>1, <2>1 DEF MembershipsTypeOK
      <4> QED
        BY <2>1, <2>3, <2>4, <3>1, <4>1 DEF AnchorsKept, Anchored, OnAnchor, dates
    <3>2. CASE q # p
      BY <1>1, <2>1, <2>2, <3>2 DEF AnchorsKept, Anchored, OnAnchor, dates, MembershipsTypeOK
    <3> QED
      BY <3>1, <3>2
  <2> QED
    BY <2>2, <2>5 DEF AnchorsKept
<1>6. ASSUME NEW p \in Period, DisableRenewal(p) PROVE AnchorsKept' /\ Made' = Made
  <2>1. Made' = Made
    BY <1>6 DEF DisableRenewal, Made
  <2> QED
    BY <1>3, <1>6, <2>1 DEF DisableRenewal
<1>7. ASSUME NEW p \in Period, StopRenewal(p) PROVE AnchorsKept' /\ Made' = Made
  <2>1. Made' = Made
    BY <1>7 DEF StopRenewal, Made
  <2> QED
    BY <1>3, <1>7, <2>1 DEF StopRenewal
<1>8. ASSUME ExpireMemberships PROVE AnchorsKept' /\ Made' = Made
  <2>1. Made' = Made /\ UNCHANGED <<dates, recurs, next>>
    BY <1>1, <1>8 DEF ExpireMemberships, Made, MembershipsTypeOK
  <2> QED
    BY <2>1, QuietAnchors
<1>9. StartSweep \/ FindCandidates \/ RestartWorker \/ NewDay \/ ChangePlan
        \/ (\E p \in Period : SkipRenewal(p) \/ RefuseUnpriced(p) \/ FailRenewal(p))
        \/ UNCHANGED membershipsVars
        => UNCHANGED periods
  BY DEF StartSweep, FindCandidates, RestartWorker, NewDay, ChangePlan, SkipRenewal,
         RefuseUnpriced, FailRenewal, membershipsVars
<1> QED
  BY <1>2, <1>4, <1>5, <1>6, <1>7, <1>8, <1>9, Zenon DEF MembershipsNext

\* The row that a step makes with a parent fits, and anchors are kept.
LEMMA AnchorStep ==
    ASSUME MembershipsInv, AnchorsKept, [MembershipsNext]_membershipsVars
    PROVE  /\ AnchorsKept'
           /\ \A p, q \in Period :
                (q \notin Made /\ status'[q] # "NONE" /\ parent'[q] = p) =>
                   /\ anchor'[q] = anchor[p]
                   /\ start'[q] = AnchoredDate(start'[q][1], anchor[p])
                   /\ \A r \in Made : ~Twin(p, r) =>
                         until[r] \preceq start'[q] \/ until'[q] \preceq start[r]
<1>1. \A q \in Period : status'[q] # "NONE" => q \in Made'
  BY DEF Made
<1>2. ASSUME NEW x \in Period, NEW from \in StartDates, NEW auto \in BOOLEAN,
             Create(x, from, auto)
      PROVE  AnchorsKept' /\ Made' = Made \cup {x} /\ parent'[x] \notin Period
  BY <1>2, CreateAnchors DEF Period
<1>3. ASSUME NEW x \in Period, NEW y \in Period, Renew(x, y) \/ RenewMembership(x, y)
      PROVE  /\ AnchorsKept' /\ parent'[y] = x /\ Made' = Made \cup {y}
             /\ anchor'[y] = anchor[x]
             /\ OnAnchor(start'[y], anchor[x])
             /\ \A r \in Made : ~Twin(x, r) => until[r] \preceq start'[y]
  <2>1. x \in Made /\ IsNext(y) /\ ~HasNewer(x)
    BY <1>3, RenewalSucceeds
  <2>2. PICK from \in Date, old \in {"ACTIVE", "EXPIRED"} :
          /\ Succeed(x, y, from, old)
          /\ until[x] \preceq from
          /\ OnAnchor(from, anchor[x])
    BY <1>3, RenewalSucceeds
  <2> QED
    BY <2>1, <2>2, SuccessionFits
<1>4. CASE \E x \in Period, from \in StartDates, auto \in BOOLEAN : Create(x, from, auto)
  <2>1. PICK x \in Period : AnchorsKept' /\ Made' = Made \cup {x} /\ parent'[x] \notin Period
    BY <1>2, <1>4
  <2> QED
    BY <1>1, <2>1
<1>5. CASE \E x, y \in Period : Renew(x, y) \/ RenewMembership(x, y)
  <2>1. PICK x \in Period, y \in Period : Renew(x, y) \/ RenewMembership(x, y)
    BY <1>5
  <2>2. \A q \in Period : q \notin Made /\ status'[q] # "NONE" => q = y
    BY <1>1, <1>3, <2>1
  <2> QED
    BY <1>3, <2>1, <2>2 DEF OnAnchor
<1>6. CASE /\ ~\E x \in Period, from \in StartDates, auto \in BOOLEAN : Create(x, from, auto)
           /\ ~\E x, y \in Period : Renew(x, y) \/ RenewMembership(x, y)
  BY <1>1, <1>6, OthersInsertNone
<1> QED
  BY <1>4, <1>5, <1>6

LEMMA InitAnchors == MembershipsInit => AnchorsKept
BY DEF MembershipsInit, AnchorsKept, Made

LEMMA AnchorsInvariance == MembershipsSpec => [](MembershipsInv /\ AnchorsKept)
<1>1. MembershipsInv /\ AnchorsKept /\ [MembershipsNext]_membershipsVars => MembershipsInv' /\ AnchorsKept'
  BY MembershipsInductive, AnchorStep
<1> QED
  BY <1>1, MembershipsInvInit, InitAnchors, PTL DEF MembershipsSpec

\* Renewals never drift from the anchor day, however many short months and gaps lie
\* between, and never charge a day twice, though the constraint of the schema sees
\* only the active periods (nextMonthlyDate, memberships_no_overlap).
THEOREM RenewalFitsHolds == MembershipsSpec => RenewalFits
<1> DEFINE A == \A p, q \in Period :
                  (q \notin Made /\ status'[q] # "NONE" /\ parent'[q] = p) =>
                     /\ anchor'[q] = anchor[p]
                     /\ start'[q] = AnchoredDate(start'[q][1], anchor[p])
                     /\ \A r \in Made : ~Twin(p, r) =>
                           until[r] \preceq start'[q] \/ until'[q] \preceq start[r]
<1>1. MembershipsInv /\ AnchorsKept /\ [MembershipsNext]_membershipsVars => [A]_membershipsVars
  BY AnchorStep
<1> QED
  BY <1>1, AnchorsInvariance, PTL DEF MembershipsSpec, RenewalFits

-----------------------------------------------------------------------------
(***************************************************************************)
(* MemberPayment                                                           *)
(***************************************************************************)

\* Every group with rows has one place in the order of the groups, and no
\* other group has rows.
GroupsOK ==
    /\ \A i, j \in DOMAIN groups : groups[i] = groups[j] => i = j
    /\ \A i \in DOMAIN groups : entries[groups[i]] # <<>>
    /\ \A k \in Keys : entries[k] # <<>> => \E i \in DOMAIN groups : groups[i] = k

\* One period: surcharged once at most, and never if it was charged by
\* transfer, of which a movement is the memory; it owes its charge less the
\* cash.
ChargedOnce(rows) ==
    \A i, j \in DOMAIN rows : rows[i].surcharge /\ rows[j].surcharge => i = j

NeverCharged(rows) == \A i \in DOMAIN rows : ~rows[i].surcharge

ByTransfer(moves) ==
    \E i \in DOMAIN moves : moves[i].sum > 0 /\ moves[i].method = "TRANSFER"

PeriodOK(mode, rows, moves) ==
    /\ ChargedOnce(rows)
    /\ mode = "TRANSFER" => NeverCharged(rows) /\ ByTransfer(moves)
    /\ -Total(rows) = Price + Surcharge(mode) + Fees(rows) - Total(moves)

PeriodsOK ==
    \A k \in Keys \ {Loose} :
        IF k \in Assigned THEN PeriodOK(memberships[k], entries[k], movements[k])
        ELSE entries[k] = <<>> /\ movements[k] = <<>>

\* The quote a desk shows is older than the ledger, or still its quote.
QuotesKnown ==
    \A d \in Desks :
        /\ quotes[d].version <= version
        /\ quotes[d].version = version =>
              \E method \in Methods : quotes[d] = BuildQuote(method)

\* The inductive invariant of the payment.
PaymentInv == PaymentTypeOK /\ GroupsOK /\ PeriodsOK /\ QuotesKnown

-----------------------------------------------------------------------------
(* The sums of a ledger.                                                   *)

LEMMA KeysAreFinite == IsFiniteSet(Keys)
BY FS_Interval, MemberPaymentAssumption DEF Keys

LEMMA DomainIsFinite ==
    ASSUME NEW R, NEW rows \in Seq(R)
    PROVE  IsFiniteSet(DOMAIN rows) /\ DOMAIN rows = 1..Len(rows) /\ Len(rows) \in Nat
BY FS_Interval

\* The total of rows, and of rows with one more.
LEMMA TotalIs ==
    ASSUME NEW R, \A r \in R : r.sum \in Int, NEW rows \in Seq(R)
    PROVE  /\ Total(rows) = Sum([i \in DOMAIN rows |-> rows[i].sum], 1..Len(rows))
           /\ Total(rows) \in Int
<1>1. PICK f : f = [i \in DOMAIN rows |-> rows[i].sum]
  OBVIOUS
<1>2. IsFiniteSet(DOMAIN f) /\ DOMAIN f = 1..Len(rows) /\ \A i \in DOMAIN f : f[i] \in Int
  <2>1. \A i \in DOMAIN rows : rows[i] \in R
    OBVIOUS
  <2> QED
    BY <1>1, <2>1, DomainIsFinite
<1>3. SumFunction(f) = Sum(f, DOMAIN f) /\ Sum(f, DOMAIN f) \in Int
  BY <1>2, SumFunctionOver, SumType
<1> QED
  BY <1>1, <1>2, <1>3 DEF Total

LEMMA TotalOfNone == Total(<<>>) = 0
<1>1. <<>> \in Seq([sum : Int]) /\ Len(<<>>) = 0 /\ 1..0 = {}
  OBVIOUS
<1>2. Total(<<>>) = Sum([i \in DOMAIN <<>> |-> <<>>[i].sum], 1..Len(<<>>))
  BY <1>1, TotalIs
<1> QED
  BY <1>1, <1>2, SumEmpty

LEMMA AppendFacts ==
    ASSUME NEW R, NEW rows \in Seq(R), NEW row \in R
    PROVE  /\ Append(rows, row) \in Seq(R) /\ Len(rows) \in Nat
           /\ Len(Append(rows, row)) = Len(rows) + 1
           /\ DOMAIN rows = 1..Len(rows) /\ DOMAIN Append(rows, row) = 1..(Len(rows) + 1)
           /\ \A i \in 1..Len(rows) : Append(rows, row)[i] = rows[i] /\ rows[i] \in R
           /\ Append(rows, row)[Len(rows) + 1] = row
OBVIOUS

LEMMA TotalAppends ==
    ASSUME NEW R, \A r \in R : r.sum \in Int, NEW rows \in Seq(R), NEW row \in R
    PROVE  Total(Append(rows, row)) = Total(rows) + row.sum
<1>1. PICK n, more : n = Len(rows) /\ more = Append(rows, row)
  OBVIOUS
<1>2. /\ more \in Seq(R) /\ n \in Nat /\ Len(more) = n + 1
      /\ DOMAIN rows = 1..n /\ DOMAIN more = 1..(n + 1)
      /\ \A i \in 1..n : more[i] = rows[i] /\ rows[i] \in R
      /\ more[n + 1] = row
  BY <1>1, AppendFacts
<1>3. PICK f, e : f = [i \in DOMAIN rows |-> rows[i].sum] /\ e = [i \in DOMAIN more |-> more[i].sum]
  OBVIOUS
<1>4. (\A i \in 1..(n + 1) : e[i] \in Int) /\ (\A i \in 1..n : f[i] = e[i]) /\ e[n + 1] = row.sum
  <2>1. \A i \in 1..(n + 1) : i = n + 1 \/ i \in 1..n
    BY <1>2
  <2>2. \A i \in 1..n : e[i] = rows[i].sum /\ f[i] = rows[i].sum /\ rows[i].sum \in Int
    BY <1>2, <1>3
  <2>3. n + 1 \in 1..(n + 1)
    BY <1>2
  <2>4. e[n + 1] = row.sum /\ row.sum \in Int
    BY <1>2, <1>3, <2>3
  <2> QED
    BY <2>1, <2>2, <2>4
<1>5. Sum(e, 1..(n + 1)) = Sum(f, 1..n) + e[n + 1]
  BY <1>2, <1>4, SumExtends
<1>6. Total(rows) = Sum(f, 1..n)
  BY <1>1, <1>3, TotalIs
<1>7. Total(more) = Sum(e, 1..(n + 1))
  BY <1>2, <1>3, TotalIs
<1> QED
  BY <1>1, <1>4, <1>5, <1>6, <1>7

\* The surcharges among rows, and among rows with one more.
LEMMA FeesAppend ==
    ASSUME NEW rows \in Seq(LedgerRow), NEW row \in LedgerRow
    PROVE  /\ Fees(rows) \in Int
           /\ Fees(Append(rows, row)) = Fees(rows) + (IF row.surcharge THEN TransferFee ELSE 0)
<1>1. PICK n, more : n = Len(rows) /\ more = Append(rows, row)
  OBVIOUS
<1>2. /\ more \in Seq(LedgerRow) /\ n \in Nat /\ Len(more) = n + 1
      /\ DOMAIN rows = 1..n /\ DOMAIN more = 1..(n + 1)
      /\ \A i \in 1..n : more[i] = rows[i]
      /\ more[n + 1] = row
  BY <1>1, AppendFacts
<1>3. PICK f, e : /\ f = [i \in DOMAIN rows |-> IF rows[i].surcharge THEN TransferFee ELSE 0]
                  /\ e = [i \in DOMAIN more |-> IF more[i].surcharge THEN TransferFee ELSE 0]
  OBVIOUS
<1>4. /\ \A i \in 1..(n + 1) : e[i] \in Int
      /\ \A i \in 1..n : f[i] = e[i]
      /\ e[n + 1] = IF row.surcharge THEN TransferFee ELSE 0
  BY <1>2, <1>3, MemberPaymentAssumption
<1>5. Sum(e, 1..(n + 1)) = Sum(f, 1..n) + e[n + 1] /\ Sum(f, 1..n) \in Int
  BY <1>2, <1>4, SumExtends
<1>6. IsFiniteSet(DOMAIN f) /\ IsFiniteSet(DOMAIN e)
      /\ DOMAIN f = 1..n /\ DOMAIN e = 1..(n + 1) /\ \A i \in 1..n : f[i] \in Int
  <2>1. DOMAIN f = 1..n /\ DOMAIN e = 1..(n + 1)
    BY <1>2, <1>3
  <2>2. \A i \in 1..n : f[i] \in Int
    BY <1>2, <1>3, MemberPaymentAssumption
  <2>3. IsFiniteSet(1..n) /\ IsFiniteSet(1..(n + 1))
    <3>1. n \in Int /\ n + 1 \in Int
      BY <1>2
    <3> QED
      BY <3>1, FS_Interval
  <2> QED
    BY <2>1, <2>2, <2>3
<1>7. SumFunction(f) = Sum(f, 1..n)
  BY <1>6, SumFunctionOver
<1>8. SumFunction(e) = Sum(e, 1..(n + 1))
  BY <1>4, <1>6, SumFunctionOver
<1>9. Fees(rows) = SumFunction(f) /\ Fees(more) = SumFunction(e)
  BY <1>3 DEF Fees
<1> QED
  BY <1>1, <1>4, <1>5, <1>7, <1>8, <1>9

-----------------------------------------------------------------------------
(* How credit is spread, over debts in any order.                          *)

\* The loop over the groups is what its recursion says.
LEMMA CreditLeftIs ==
    ASSUME NEW order, NEW n \in Nat, Len(order) = n
    PROVE  /\ CreditLeft(order)[0] = LooseCredit
           /\ \A i \in 1..n : CreditLeft(order)[i] =
                CreditLeft(order)[i - 1]
                - Applied(CreditLeft(order)[i - 1], Outstanding(order[i]))
<1> DEFINE After(before, i) == before - Applied(before, Outstanding(order[i]))
           Left(g, m) == g = [i \in 0..m |-> IF i = 0 THEN LooseCredit ELSE After(g[i - 1], i)]
           N == {m \in Nat : \E g : Left(g, m)}
<1>1. 0 \in N
  <2>1. PICK g : g = [i \in 0..0 |-> LooseCredit]
    OBVIOUS
  <2>2. Left(g, 0)
    BY <2>1
  <2> QED
    BY <2>2
<1>2. ASSUME NEW m \in Nat, m \in N PROVE m + 1 \in N
  <2> HIDE DEF After
  <2>1. PICK g : Left(g, m)
    BY <1>2
  <2>2. PICK h : h = [i \in 0..(m + 1) |-> IF i = m + 1 THEN After(g[m], m + 1) ELSE g[i]]
    OBVIOUS
  <2>3. \A i \in 0..m : h[i] = g[i] /\ g[i] = IF i = 0 THEN LooseCredit ELSE After(g[i - 1], i)
    BY <2>1, <2>2
  <2>4. h[m + 1] = After(h[m], m + 1)
    BY <2>2, <2>3
  <2>5. \A i \in 0..(m + 1) : h[i] = IF i = 0 THEN LooseCredit ELSE After(h[i - 1], i)
    <3> TAKE i \in 0..(m + 1)
    <3>1. CASE i = m + 1
      BY <2>4, <3>1
    <3>2. CASE i = 0
      BY <2>3, <3>2
    <3>3. CASE i # 0 /\ i # m + 1
      <4>1. i \in 0..m /\ i - 1 \in 0..m
        BY <3>3
      <4> QED
        BY <2>3, <3>3, <4>1
    <3> QED
      BY <3>1, <3>2, <3>3
  <2>6. Left(h, m + 1)
    BY <2>2, <2>5
  <2> QED
    BY <2>6
<1>3. n \in N
  <2> HIDE DEF N
  <2> QED
    BY <1>1, <1>2, UpToN
<1>4. CreditLeft(order) = CHOOSE g : Left(g, n)
  BY DEF CreditLeft
<1>5. Left(CreditLeft(order), n)
  <2> HIDE DEF Left
  <2> QED
    BY <1>3, <1>4
<1> QED
  BY <1>5

\* What one group takes from the credit.
LEMMA AppliedFacts ==
    ASSUME NEW credit \in Nat, NEW owed \in Int, NEW debt, debt = IF owed > 0 THEN owed ELSE 0
    PROVE  /\ Applied(credit, owed) \in Nat /\ Applied(credit, owed) <= credit
           /\ debt \in Nat /\ Applied(credit, owed) <= debt
           /\ Applied(credit, owed) < debt => Applied(credit, owed) = credit
BY DEF Applied

\* The credit c that is left after each of n groups that owe so much.
RunsDown(n, c, credit, owed) ==
    /\ credit[0] = c
    /\ \A i \in 1..n :
          owed[i] \in Int /\ credit[i] = credit[i - 1] - Applied(credit[i - 1], owed[i])

LEMMA CreditRunsDown ==
    ASSUME NEW n \in Nat, NEW c \in Nat, NEW credit, NEW owed, RunsDown(n, c, credit, owed)
    PROVE  /\ \A i \in 0..n : credit[i] \in Nat
           /\ \A i, j \in 0..n : i <= j => credit[j] <= credit[i]
<1> DEFINE Down(m) == \A i \in 0..m : credit[i] \in Nat /\ credit[m] <= credit[i]
           N == {m \in Nat : m <= n => Down(m)}
<1>0. /\ credit[0] = c
      /\ \A i \in 1..n :
            owed[i] \in Int /\ credit[i] = credit[i - 1] - Applied(credit[i - 1], owed[i])
  BY DEF RunsDown
<1>1. 0 \in N
  BY <1>0
<1>2. ASSUME NEW m \in Nat, m \in N PROVE m + 1 \in N
  <2> SUFFICES ASSUME m + 1 <= n PROVE Down(m + 1)
    OBVIOUS
  <2>1. Down(m)
    BY <1>2
  <2>2. m + 1 \in 1..n /\ (m + 1) - 1 = m
    OBVIOUS
  <2>3. owed[m + 1] \in Int /\ credit[m + 1] = credit[m] - Applied(credit[m], owed[m + 1])
    BY <1>0, <2>2
  <2>4. credit[m] \in Nat
    BY <2>1
  <2>5. credit[m + 1] \in Nat /\ credit[m + 1] <= credit[m]
    <3>1. PICK debt : debt = IF owed[m + 1] > 0 THEN owed[m + 1] ELSE 0
      OBVIOUS
    <3>2. Applied(credit[m], owed[m + 1]) \in Nat /\ Applied(credit[m], owed[m + 1]) <= credit[m]
      BY <2>3, <2>4, <3>1, AppliedFacts
    <3> QED
      BY <2>3, <2>4, <3>2
  <2> QED
    <3> TAKE i \in 0..(m + 1)
    <3>1. CASE i = m + 1
      BY <2>5, <3>1
    <3>2. CASE i \in 0..m
      BY <2>1, <2>4, <2>5, <3>2
    <3> QED
      BY <3>1, <3>2
<1>3. \A m \in Nat : m \in N
  <2> HIDE DEF N
  <2> QED
    BY <1>1, <1>2, UpToN
<1>4. \A m \in 0..n : Down(m)
  BY <1>3
<1> QED
  BY <1>4

\* The credit c is spread over n groups: what is left of it after each, the
\* debts, and the rest of each debt.
Spread(n, c, credit, owed, debt, rest) ==
    /\ RunsDown(n, c, credit, owed)
    /\ \A i \in 1..n :
          /\ debt[i] = IF owed[i] > 0 THEN owed[i] ELSE 0
          /\ rest[i] = debt[i] - Applied(credit[i - 1], owed[i])

\* What each debt has left adds up to the debts less the credit, unless the
\* credit covers them all; what a debt has left means that no credit is.
LEMMA RestsAddUp ==
    ASSUME NEW n \in Nat, NEW c \in Nat, NEW credit, NEW owed, NEW debt, NEW rest,
           Spread(n, c, credit, owed, debt, rest)
    PROVE  /\ \A i \in 1..n : rest[i] \in Nat /\ rest[i] <= debt[i]
           /\ \A i, j \in 1..n : i < j /\ rest[j] < debt[j] => rest[i] = 0
           /\ Sum(debt, 1..n) > c => Sum(rest, 1..n) = Sum(debt, 1..n) - c
<1>0. /\ credit[0] = c
      /\ \A i \in 1..n : owed[i] \in Int
      /\ \A i \in 1..n : credit[i] = credit[i - 1] - Applied(credit[i - 1], owed[i])
      /\ \A i \in 1..n : debt[i] = IF owed[i] > 0 THEN owed[i] ELSE 0
      /\ \A i \in 1..n : rest[i] = debt[i] - Applied(credit[i - 1], owed[i])
  BY DEF Spread, RunsDown
<1>1. /\ \A i \in 0..n : credit[i] \in Nat
      /\ \A i, j \in 0..n : i <= j => credit[j] <= credit[i]
  <2>1. RunsDown(n, c, credit, owed)
    BY DEF Spread
  <2> QED
    BY <2>1, CreditRunsDown
<1>2. ASSUME NEW i \in 1..n
      PROVE  /\ rest[i] \in Nat /\ rest[i] <= debt[i] /\ debt[i] \in Nat
             /\ credit[i - 1] \in Nat /\ credit[i] \in Nat
             /\ credit[i] = credit[i - 1] - (debt[i] - rest[i])
             /\ rest[i] > 0 => credit[i] = 0
  <2>1. i - 1 \in 0..n /\ i \in 0..n
    OBVIOUS
  <2>2. credit[i - 1] \in Nat /\ credit[i] \in Nat /\ owed[i] \in Int
    BY <1>0, <1>1, <2>1
  <2>3. /\ Applied(credit[i - 1], owed[i]) \in Nat
        /\ debt[i] \in Nat /\ Applied(credit[i - 1], owed[i]) <= debt[i]
        /\ Applied(credit[i - 1], owed[i]) < debt[i] => Applied(credit[i - 1], owed[i]) = credit[i - 1]
    BY <1>0, <2>2, AppliedFacts
  <2>4. PICK a : a = Applied(credit[i - 1], owed[i])
    OBVIOUS
  <2>5. rest[i] = debt[i] - a /\ credit[i] = credit[i - 1] - a
    BY <1>0, <2>4
  <2> QED
    BY <2>2, <2>3, <2>4, <2>5
<1>3. ASSUME NEW i \in 1..n, NEW j \in 1..n, i < j, rest[j] < debt[j] PROVE rest[i] = 0
  <2>1. credit[j - 1] > 0
    BY <1>2, <1>3
  <2>2. i \in 0..n /\ j - 1 \in 0..n /\ i <= j - 1
    BY <1>3
  <2>3. credit[j - 1] <= credit[i] /\ credit[i] \in Nat /\ credit[j - 1] \in Nat
    BY <1>1, <2>2
  <2>4. credit[i] > 0
    BY <2>1, <2>3
  <2> QED
    BY <1>2, <2>4
<1>4. Sum(rest, 1..n) = Sum(debt, 1..n) - (c - credit[n]) /\ Sum(debt, 1..n) \in Int
  <2> DEFINE Eq(m) == Sum(rest, 1..m) = Sum(debt, 1..m) - (c - credit[m])
                      /\ Sum(debt, 1..m) \in Int
             N == {m \in Nat : m <= n => Eq(m)}
  <2>1. 0 \in N
    <3>1. 1..0 = {} /\ c - credit[0] = 0
      BY <1>0
    <3>2. Sum(rest, 1..0) = 0 /\ Sum(debt, 1..0) = 0
      BY <3>1, SumEmpty
    <3>3. Eq(0)
      BY <3>1, <3>2
    <3> HIDE DEF Eq
    <3> QED
      BY <3>3
  <2>2. ASSUME NEW m \in Nat, m \in N PROVE m + 1 \in N
    <3> SUFFICES ASSUME m + 1 <= n PROVE Eq(m + 1)
      OBVIOUS
    <3>1. Eq(m)
      BY <2>2
    <3>2. m + 1 \in 1..n /\ (m + 1) - 1 = m
      OBVIOUS
    <3>3. \A i \in 1..(m + 1) : rest[i] \in Int /\ debt[i] \in Int
      BY <1>2
    <3>4. Sum(rest, 1..(m + 1)) = Sum(rest, 1..m) + rest[m + 1] /\ Sum(rest, 1..m) \in Int
      BY <3>3, SumExtends
    <3>5. Sum(debt, 1..(m + 1)) = Sum(debt, 1..m) + debt[m + 1] /\ Sum(debt, 1..m) \in Int
      BY <3>3, SumExtends
    <3>6. /\ credit[m + 1] = credit[m] - (debt[m + 1] - rest[m + 1])
          /\ credit[m] \in Nat /\ credit[m + 1] \in Nat
          /\ debt[m + 1] \in Nat /\ rest[m + 1] \in Nat
      BY <1>2, <3>2
    <3>7. PICK x, y, l, d, r : /\ x = Sum(rest, 1..m) /\ y = Sum(debt, 1..m) /\ l = credit[m]
                               /\ d = debt[m + 1] /\ r = rest[m + 1]
      OBVIOUS
    <3>8. /\ x = y - (c - l) /\ y \in Int /\ l \in Nat /\ d \in Nat /\ r \in Nat
      BY <3>1, <3>6, <3>7
    <3>9. x + r = (y + d) - (c - (l - (d - r))) /\ y + d \in Int
      BY ONLY <3>8, c \in Nat
    <3>10. Sum(debt, 1..(m + 1)) = y + d /\ Sum(rest, 1..(m + 1)) = x + r
           /\ credit[m + 1] = l - (d - r)
      BY <3>4, <3>5, <3>6, <3>7
    <3> QED
      BY ONLY <3>9, <3>10
  <2>3. n \in N
    <3> HIDE DEF N
    <3> QED
      BY <2>1, <2>2, UpToN
  <2> QED
    BY <2>3
<1>5. ASSUME Sum(debt, 1..n) > c PROVE Sum(rest, 1..n) = Sum(debt, 1..n) - c
  <2>1. credit[n] \in Nat
    BY <1>1
  <2>2. CASE credit[n] = 0
    BY <1>4, <2>2
  <2>3. CASE credit[n] > 0
    <3>1. \A i \in 1..n : rest[i] = 0
      <4> TAKE i \in 1..n
      <4>1. credit[i] > 0
        <5>1. credit[n] <= credit[i] /\ credit[i] \in Nat
          BY <1>1
        <5> QED
          BY <2>1, <2>3, <5>1
      <4> QED
        BY <1>2, <4>1
    <3>2. Sum(rest, 1..n) = 0
      <4>1. IsFiniteSet(1..n)
        BY FS_Interval
      <4> QED
        BY <3>1, <4>1, SumZero
    <3> QED
      BY <1>4, <1>5, <2>1, <2>3, <3>2
  <2> QED
    BY <2>1, <2>2, <2>3
<1> QED
  BY <1>2, <1>3, <1>5

-----------------------------------------------------------------------------
(* Quotes.                                                                 *)

\* What the types say of one group.
LEMMA GroupTypes ==
    ASSUME PaymentTypeOK, NEW k \in Keys
    PROVE  /\ entries[k] \in Seq(LedgerRow) /\ movements[k] \in Seq(CashRow)
           /\ Total(entries[k]) \in Int /\ Total(movements[k]) \in Int
           /\ Outstanding(k) = -Total(entries[k]) /\ Outstanding(k) \in Int
<1>1. entries[k] \in Seq(LedgerRow) /\ movements[k] \in Seq(CashRow)
  BY DEF PaymentTypeOK
<1>2. (\A r \in LedgerRow : r.sum \in Int) /\ \A r \in CashRow : r.sum \in Int
  BY DEF LedgerRow, CashRow
<1>3. Total(entries[k]) \in Int /\ Total(movements[k]) \in Int
  BY <1>1, <1>2, TotalIs
<1> QED
  BY <1>1, <1>3 DEF Outstanding

\* A ledger is what its groups owe less what they have to their credit.
debts == [k \in Keys |-> IF Outstanding(k) > 0 THEN Outstanding(k) ELSE 0]

LEMMA BalanceIs ==
    ASSUME PaymentTypeOK
    PROVE  /\ \A k \in Keys : debts[k] \in Nat
           /\ LooseCredit \in Nat /\ Sum(debts, Keys) \in Nat
           /\ Balance = LooseCredit - Sum(debts, Keys)
           /\ Balance = Sum([k \in Keys |-> Total(entries[k])], Keys)
<1>1. PICK f, e, h : /\ f = [k \in Keys |-> Total(entries[k])]
                     /\ e = [k \in Keys |-> IF Outstanding(k) < 0 THEN -Outstanding(k) ELSE 0]
                     /\ h = debts
  OBVIOUS
<1>2. IsFiniteSet(Keys) /\ DOMAIN f = Keys /\ DOMAIN e = Keys
  BY <1>1, KeysAreFinite
<1>3. \A k \in Keys : /\ f[k] \in Int /\ e[k] \in Nat /\ h[k] \in Nat
                      /\ e[k] = f[k] + h[k]
  <2> TAKE k \in Keys
  <2>1. f[k] \in Int /\ Outstanding(k) = -f[k]
    BY <1>1, GroupTypes
  <2>2. e[k] = (IF Outstanding(k) < 0 THEN -Outstanding(k) ELSE 0)
        /\ h[k] = IF Outstanding(k) > 0 THEN Outstanding(k) ELSE 0
    BY <1>1 DEF debts
  <2> QED
    BY <2>1, <2>2
<1>4. \A k \in Keys : f[k] \in Int /\ e[k] \in Int /\ h[k] \in Int
  BY <1>3
<1>5. Sum(e, Keys) = Sum(f, Keys) + Sum(h, Keys) /\ Sum(f, Keys) \in Int
  BY <1>2, <1>3, <1>4, SumOfSums, SumType
<1>6. Sum(e, Keys) \in Nat /\ Sum(h, Keys) \in Nat
  BY <1>2, <1>3, SumOfNaturals
<1>7. Balance = Sum(f, Keys)
  <2>1. SumFunction(f) = Sum(f, Keys)
    BY <1>2, <1>4, SumFunctionOver
  <2> QED
    BY <1>1, <2>1 DEF Balance
<1>8. LooseCredit = Sum(e, Keys)
  <2>1. SumFunction(e) = Sum(e, Keys)
    BY <1>2, <1>4, SumFunctionOver
  <2> QED
    BY <1>1, <2>1 DEF LooseCredit
<1> QED
  BY <1>1, <1>3, <1>5, <1>6, <1>7, <1>8

\* What a line of a quote is for.
PartOf(lines, k) == IF k \in DOMAIN lines THEN lines[k].amount ELSE 0

\* The lines of a quote: a group is in it with what it owes beyond the credit.
LEMMA LinesAre ==
    ASSUME PaymentTypeOK, GroupsOK, NEW method \in Methods
    PROVE  \E rest :
              /\ \A i \in DOMAIN groups :
                    /\ rest[i] = debts[groups[i]]
                         - Applied(CreditLeft(groups)[i - 1], Outstanding(groups[i]))
                    /\ rest[i] = PartOf(QuoteLines(method), groups[i])
                    /\ groups[i] \in DOMAIN QuoteLines(method) <=> rest[i] > 0
              /\ DOMAIN QuoteLines(method) \subseteq {groups[i] : i \in DOMAIN groups}
              /\ \A k \in DOMAIN QuoteLines(method) :
                    QuoteLines(method)[k] = [amount |-> PartOf(QuoteLines(method), k),
                                             surcharge |-> SurchargeOf(k, method)]
<1> DEFINE Taken(i) == Applied(CreditLeft(groups)[i - 1], Outstanding(groups[i]))
           Amount(i) == Outstanding(groups[i]) - Taken(i)
           Due == {i \in DOMAIN groups : Amount(i) > 0}
           Lines == [k \in {groups[i] : i \in Due} |->
                        [amount |-> Amount(CHOOSE i \in Due : groups[i] = k),
                         surcharge |-> SurchargeOf(k, method)]]
<1>1. QuoteLines(method) = Lines
  BY DEF QuoteLines, LinesInOrder
<1>2. /\ DOMAIN groups = 1..Len(groups) /\ Len(groups) \in Nat
      /\ \A i \in DOMAIN groups : groups[i] \in Keys
      /\ \A i, j \in DOMAIN groups : groups[i] = groups[j] => i = j
  BY DEF PaymentTypeOK, GroupsOK
<1>3. \A i \in DOMAIN groups :
         /\ Taken(i) \in Nat
         /\ Outstanding(groups[i]) <= 0 => Taken(i) = 0
         /\ Outstanding(groups[i]) > 0 => Taken(i) <= Outstanding(groups[i])
  <2>1. /\ CreditLeft(groups)[0] = LooseCredit
        /\ \A i \in 1..Len(groups) : CreditLeft(groups)[i] = CreditLeft(groups)[i - 1]
              - Applied(CreditLeft(groups)[i - 1], Outstanding(groups[i]))
    BY <1>2, CreditLeftIs
  <2>2. PICK owed : owed = [i \in 1..Len(groups) |-> Outstanding(groups[i])]
    OBVIOUS
  <2>3. \A i \in 1..Len(groups) : owed[i] \in Int /\ owed[i] = Outstanding(groups[i])
    BY <1>2, <2>2, GroupTypes
  <2>4. LooseCredit \in Nat
    BY BalanceIs
  <2>5. \A i \in 1..Len(groups) : CreditLeft(groups)[i] = CreditLeft(groups)[i - 1]
              - Applied(CreditLeft(groups)[i - 1], owed[i])
    BY <2>1, <2>3
  <2>6. \A i \in 0..Len(groups) : CreditLeft(groups)[i] \in Nat
    <3>1. RunsDown(Len(groups), LooseCredit, CreditLeft(groups), owed)
      BY <2>1, <2>3, <2>5 DEF RunsDown
    <3> QED
      BY <1>2, <2>4, <3>1, CreditRunsDown
  <2> TAKE i \in DOMAIN groups
  <2>7. i - 1 \in 0..Len(groups) /\ owed[i] \in Int /\ owed[i] = Outstanding(groups[i])
    BY <1>2, <2>3
  <2>8. CreditLeft(groups)[i - 1] \in Nat
    BY <2>6, <2>7
  <2> QED
    BY <2>7, <2>8 DEF Applied
<1>4. PICK rest : rest = [i \in DOMAIN groups |-> debts[groups[i]] - Taken(i)]
  OBVIOUS
<1> HIDE DEF Taken
<1>5. ASSUME NEW i \in DOMAIN groups
      PROVE  (i \in Due <=> rest[i] > 0) /\ (i \in Due => rest[i] = Amount(i)) /\ rest[i] \in Nat
  <2>1. PICK o, t : o = Outstanding(groups[i]) /\ t = Taken(i)
    OBVIOUS
  <2>2. o \in Int /\ t \in Nat /\ (o <= 0 => t = 0) /\ (o > 0 => t <= o)
    BY <1>2, <1>3, <2>1, GroupTypes
  <2>3. rest[i] = (IF o > 0 THEN o ELSE 0) - t
    BY <1>2, <1>4, <2>1 DEF debts
  <2>4. i \in Due <=> o - t > 0
    BY <2>1
  <2>5. Amount(i) = o - t
    BY <2>1
  <2> QED
    BY ONLY <2>2, <2>3, <2>4, <2>5
<1>6. ASSUME NEW i \in Due
      PROVE  (CHOOSE j \in Due : groups[j] = groups[i]) = i
  BY <1>2
<1>7. DOMAIN Lines = {groups[i] : i \in Due}
  OBVIOUS
<1>8. ASSUME NEW i \in Due
      PROVE  Lines[groups[i]] = [amount |-> Amount(i), surcharge |-> SurchargeOf(groups[i], method)]
  BY <1>6
<1>9. \A i \in DOMAIN groups : groups[i] \in DOMAIN Lines <=> i \in Due
  BY <1>2, <1>7
<1> HIDE DEF Lines, Amount
<1>10. ASSUME NEW i \in DOMAIN groups
       PROVE  rest[i] = PartOf(Lines, groups[i]) /\ (groups[i] \in DOMAIN Lines <=> rest[i] > 0)
  <2>1. CASE i \in Due
    <3>1. Lines[groups[i]].amount = Amount(i)
      <4>1. Lines[groups[i]] =
                [amount |-> Amount(i), surcharge |-> SurchargeOf(groups[i], method)]
        BY <1>8, <2>1
      <4> QED
        BY <4>1
    <3>3. groups[i] \in DOMAIN Lines
      BY <1>9, <2>1
    <3>2. rest[i] = Amount(i) /\ rest[i] > 0
      BY <1>5, <2>1
    <3> QED
      BY <3>1, <3>2, <3>3 DEF PartOf
  <2>2. CASE i \notin Due
    <3>1. groups[i] \notin DOMAIN Lines /\ rest[i] = 0
      BY <1>5, <1>9, <2>2
    <3> QED
      BY <3>1 DEF PartOf
  <2> QED
    BY <2>1, <2>2
<1>11. \A k \in DOMAIN Lines :
          Lines[k] = [amount |-> PartOf(Lines, k), surcharge |-> SurchargeOf(k, method)]
  <2> TAKE k \in DOMAIN Lines
  <2>1. PICK i \in Due : k = groups[i]
    BY <1>7
  <2>2. Lines[k] = [amount |-> Amount(i), surcharge |-> SurchargeOf(k, method)]
    BY <1>8, <2>1
  <2> QED
    BY <2>2 DEF PartOf
<1>12. \A i \in DOMAIN groups :
          rest[i] = debts[groups[i]]
                    - Applied(CreditLeft(groups)[i - 1], Outstanding(groups[i]))
  BY <1>4 DEF Taken
<1>13. DOMAIN Lines \subseteq {groups[i] : i \in DOMAIN groups}
  BY <1>7
<1> HIDE DEF Due
<1> QED
  BY <1>1, <1>10, <1>11, <1>12, <1>13

\* No group without a place owes anything.
LEMMA NothingElseOwed ==
    ASSUME PaymentTypeOK, GroupsOK, NEW k \in Keys, \A i \in DOMAIN groups : groups[i] # k
    PROVE  debts[k] = 0
<1>1. entries[k] = <<>>
  BY DEF GroupsOK
<1>2. Outstanding(k) = 0
  BY <1>1, TotalOfNone DEF Outstanding
<1> QED
  BY <1>2 DEF debts

\* What a quote says of the groups, by their places.
LEMMA QuoteFacts ==
    ASSUME PaymentTypeOK, GroupsOK, NEW method \in Methods, NEW lines, lines = QuoteLines(method)
    PROVE  /\ DOMAIN lines \subseteq Keys /\ IsFiniteSet(DOMAIN lines)
           /\ \A k \in DOMAIN lines :
                 /\ lines[k] = [amount |-> PartOf(lines, k), surcharge |-> SurchargeOf(k, method)]
                 /\ PartOf(lines, k) \in Nat /\ PartOf(lines, k) > 0
                 /\ SurchargeOf(k, method) \in Nat
           /\ \A i, j \in DOMAIN groups :
                 i < j /\ PartOf(lines, groups[j]) < debts[groups[j]]
                 => PartOf(lines, groups[i]) = 0
           /\ \A k \in Keys : PartOf(lines, k) \in Nat
           /\ Balance < 0 => Sum([k \in Keys |-> PartOf(lines, k)], Keys) = -Balance
<1>1. PICK n : n = Len(groups)
  OBVIOUS
<1>2. /\ n \in Nat /\ DOMAIN groups = 1..n
      /\ \A i \in 1..n : groups[i] \in Keys
      /\ \A i, j \in 1..n : groups[i] = groups[j] => i = j
  BY <1>1 DEF PaymentTypeOK, GroupsOK
<1>3. PICK rest :
         /\ \A i \in DOMAIN groups :
               /\ rest[i] = debts[groups[i]]
                    - Applied(CreditLeft(groups)[i - 1], Outstanding(groups[i]))
               /\ rest[i] = PartOf(lines, groups[i])
               /\ groups[i] \in DOMAIN lines <=> rest[i] > 0
         /\ DOMAIN lines \subseteq {groups[i] : i \in DOMAIN groups}
         /\ \A k \in DOMAIN lines :
               lines[k] = [amount |-> PartOf(lines, k), surcharge |-> SurchargeOf(k, method)]
  BY LinesAre
<1>4. PICK owed, debt, credit : /\ owed = [i \in 1..n |-> Outstanding(groups[i])]
                                /\ debt = [i \in 1..n |-> debts[groups[i]]]
                                /\ credit = CreditLeft(groups)
  OBVIOUS
<1>5. /\ credit[0] = LooseCredit /\ LooseCredit \in Nat
      /\ \A i \in 1..n : credit[i] = credit[i - 1] - Applied(credit[i - 1], owed[i])
      /\ \A i \in 1..n : owed[i] \in Int
      /\ \A i \in 1..n : debt[i] = IF owed[i] > 0 THEN owed[i] ELSE 0
      /\ \A i \in 1..n : rest[i] = debt[i] - Applied(credit[i - 1], owed[i])
  <2>1. /\ credit[0] = LooseCredit
        /\ \A i \in 1..n : credit[i] =
              credit[i - 1] - Applied(credit[i - 1], Outstanding(groups[i]))
    BY <1>1, <1>2, <1>4, CreditLeftIs
  <2>2. \A i \in 1..n : owed[i] = Outstanding(groups[i]) /\ owed[i] \in Int
    BY <1>2, <1>4, GroupTypes
  <2>3. \A i \in 1..n : debt[i] = debts[groups[i]]
                        /\ debts[groups[i]] = IF owed[i] > 0 THEN owed[i] ELSE 0
    BY <1>2, <1>4, <2>2 DEF debts
  <2>4. LooseCredit \in Nat
    BY BalanceIs
  <2> QED
    BY <1>2, <1>3, <1>4, <2>1, <2>2, <2>3, <2>4
<1>6. /\ \A i \in 1..n : rest[i] \in Nat /\ rest[i] <= debt[i]
      /\ \A i, j \in 1..n : i < j /\ rest[j] < debt[j] => rest[i] = 0
      /\ Sum(debt, 1..n) > LooseCredit => Sum(rest, 1..n) = Sum(debt, 1..n) - LooseCredit
  <2>1. Spread(n, LooseCredit, credit, owed, debt, rest)
    BY <1>5 DEF Spread, RunsDown
  <2> QED
    BY <1>2, <1>5, <2>1, RestsAddUp
<1>7. PICK B : B = {groups[i] : i \in 1..n}
  OBVIOUS
<1>8. B \in SUBSET Keys /\ DOMAIN lines \subseteq B /\ IsFiniteSet(Keys)
  BY <1>2, <1>3, <1>7, KeysAreFinite
<1>9. ASSUME NEW k \in Keys PROVE PartOf(lines, k) \in Nat
  <2>1. CASE k \in DOMAIN lines
    <3>1. PICK i \in 1..n : k = groups[i]
      BY <1>7, <1>8, <2>1
    <3> QED
      BY <1>2, <1>3, <1>6, <3>1
  <2>2. CASE k \notin DOMAIN lines
    BY <2>2 DEF PartOf
  <2> QED
    BY <2>1, <2>2
<1>10. Sum(debt, 1..n) = Sum(debts, Keys)
  <2>1. \A k \in Keys : debts[k] \in Int
    BY BalanceIs
  <2>2. \A k \in Keys \ B : debts[k] = 0
    BY <1>2, <1>7, NothingElseOwed
  <2>3. Sum(debts, Keys) = Sum(debts, B)
    BY <1>8, <2>1, <2>2, SumWithin
  <2>4. Sum([i \in 1..n |-> debts[groups[i]]], 1..n) = Sum(debts, {groups[i] : i \in 1..n})
    BY <1>2, <1>8, <2>1, SumAlong
  <2> QED
    BY <1>4, <1>7, <2>3, <2>4
<1>11. Sum([k \in Keys |-> PartOf(lines, k)], Keys) = Sum(rest, 1..n)
  <2>1. PICK f : f = [k \in Keys |-> PartOf(lines, k)]
    OBVIOUS
  <2>2. \A k \in Keys : f[k] \in Int /\ f[k] = PartOf(lines, k)
    BY <1>9, <2>1
  <2>3. \A k \in Keys \ B : f[k] = 0
    BY <1>8, <2>2 DEF PartOf
  <2>4. Sum(f, Keys) = Sum(f, B)
    BY <1>8, <2>2, <2>3, SumWithin
  <2>5. Sum([i \in 1..n |-> f[groups[i]]], 1..n) = Sum(f, {groups[i] : i \in 1..n})
    BY <1>2, <1>8, <2>2, SumAlong
  <2>6. PICK e : e = [i \in 1..n |-> f[groups[i]]]
    OBVIOUS
  <2>7. \A i \in 1..n : e[i] \in Int /\ e[i] = rest[i]
    BY <1>2, <1>3, <2>2, <2>6
  <2>8. Sum(e, 1..n) = Sum(rest, 1..n)
    <3>1. IsFiniteSet(1..n)
      BY <1>2, FS_Interval
    <3> QED
      BY <2>7, <3>1, SumSame
  <2> QED
    BY <1>7, <2>1, <2>4, <2>5, <2>6, <2>8
<1>12. ASSUME Balance < 0 PROVE Sum(rest, 1..n) = -Balance
  <2>1. Balance = LooseCredit - Sum(debts, Keys) /\ Sum(debts, Keys) \in Nat
    BY BalanceIs
  <2> QED
    BY <1>5, <1>6, <1>10, <1>12, <2>1
<1>13. ASSUME NEW k \in DOMAIN lines
       PROVE  PartOf(lines, k) > 0 /\ SurchargeOf(k, method) \in Nat
  <2>1. PICK i \in 1..n : k = groups[i]
    BY <1>7, <1>8
  <2>2. PartOf(lines, k) > 0
    BY <1>2, <1>3, <2>1
  <2>3. SurchargeOf(k, method) \in Nat
    BY MemberPaymentAssumption DEF SurchargeOf, Surcharge
  <2> QED
    BY <2>2, <2>3
<1>14. \A i, j \in DOMAIN groups :
          i < j /\ PartOf(lines, groups[j]) < debts[groups[j]] => PartOf(lines, groups[i]) = 0
  <2>1. \A i \in 1..n : rest[i] = PartOf(lines, groups[i]) /\ debt[i] = debts[groups[i]]
    BY <1>2, <1>3, <1>4
  <2> QED
    BY <1>2, <1>6, <2>1
<1>15. DOMAIN lines \subseteq Keys /\ IsFiniteSet(DOMAIN lines)
  BY <1>8, FS_Subset
<1> QED
  BY <1>3, <1>9, <1>11, <1>12, <1>13, <1>14, <1>15

\* In a ledger whose groups are in order, quotes add up and credit pays the
\* oldest debts first.
LEMMA QuotesSound ==
    ASSUME PaymentTypeOK, GroupsOK
    PROVE  QuotesAreSound
<1>1. PICK lines : lines = QuoteLines("CASH")
  OBVIOUS
<1>2. /\ DOMAIN lines \subseteq Keys /\ IsFiniteSet(DOMAIN lines)
      /\ \A k \in DOMAIN lines :
            /\ lines[k] = [amount |-> PartOf(lines, k), surcharge |-> SurchargeOf(k, "CASH")]
            /\ PartOf(lines, k) \in Nat /\ PartOf(lines, k) > 0
      /\ \A i, j \in DOMAIN groups :
            i < j /\ PartOf(lines, groups[j]) < debts[groups[j]] => PartOf(lines, groups[i]) = 0
      /\ \A k \in Keys : PartOf(lines, k) \in Nat
      /\ Balance < 0 => Sum([k \in Keys |-> PartOf(lines, k)], Keys) = -Balance
  <2>1. "CASH" \in Methods
    BY DEF Methods
  <2> QED
    BY <1>1, <2>1, QuoteFacts
<1>3. QuoteAddsUp
  <2>1. PICK f, g : f = [k \in Keys |-> PartOf(lines, k)] /\ g = [k \in DOMAIN lines |-> lines[k].amount]
    OBVIOUS
  <2>2. \A k \in DOMAIN lines : g[k] = f[k] /\ g[k] \in Int /\ f[k] \in Int
    BY <1>2, <2>1
  <2>3. SumFunction(g) = Sum(g, DOMAIN lines)
    <3>1. DOMAIN g = DOMAIN lines
      BY <2>1
    <3> QED
      BY <1>2, <2>2, <3>1, SumFunctionOver
  <2>4. Sum(g, DOMAIN lines) = Sum(f, DOMAIN lines)
    BY <1>2, <2>2, SumSame
  <2>5. Sum(f, Keys) = Sum(f, DOMAIN lines)
    <3>1. \A k \in Keys : f[k] \in Int
      BY <1>2, <2>1
    <3>2. \A k \in Keys \ DOMAIN lines : f[k] = 0
      BY <2>1 DEF PartOf
    <3> QED
      BY <1>2, <3>1, <3>2, KeysAreFinite, SumWithin
  <2>6. Balance < 0 => Sum(f, Keys) = -Balance
    BY <1>2, <2>1
  <2> QED
    BY <1>1, <2>1, <2>3, <2>4, <2>5, <2>6 DEF QuoteAddsUp
<1>4. CreditPaysOldestFirst
  <2> SUFFICES ASSUME NEW i \in DOMAIN groups, NEW j \in DOMAIN groups, i < j,
                      Outstanding(groups[i]) > 0, Outstanding(groups[j]) > 0,
                      groups[j] \in DOMAIN lines => lines[groups[j]].amount < Outstanding(groups[j])
               PROVE  groups[i] \notin DOMAIN lines
    BY <1>1 DEF CreditPaysOldestFirst
  <2>1. groups[i] \in Keys /\ groups[j] \in Keys
    BY DEF PaymentTypeOK
  <2>2. debts[groups[j]] = Outstanding(groups[j]) /\ Outstanding(groups[j]) \in Int
    BY <2>1, GroupTypes DEF debts
  <2>3. PartOf(lines, groups[j]) < debts[groups[j]]
    BY <2>2 DEF PartOf
  <2>4. PartOf(lines, groups[i]) = 0
    BY <1>2, <2>3
  <2> QED
    BY <1>2, <2>4
<1> QED
  BY <1>3, <1>4 DEF QuotesAreSound

-----------------------------------------------------------------------------
(* What the steps do to one period.                                        *)

LEMMA RowTypes ==
    /\ \A r \in LedgerRow : r.sum \in Int /\ r.surcharge \in BOOLEAN
    /\ \A r \in CashRow : r.sum \in Int
BY DEF LedgerRow, CashRow

LEMMA MadeRows ==
    ASSUME NEW amount \in Int, NEW method \in Methods
    PROVE  /\ Debit(amount) \in LedgerRow /\ Debit(amount).sum = -amount
           /\ Debit(amount).surcharge = FALSE
           /\ Credit(amount) \in LedgerRow /\ Credit(amount).sum = amount
           /\ Credit(amount).surcharge = FALSE
           /\ SurchargeDebit \in LedgerRow /\ SurchargeDebit.sum = -TransferFee
           /\ SurchargeDebit.surcharge = TRUE
           /\ Income(amount, method) \in CashRow /\ Income(amount, method).sum = amount
           /\ Income(amount, method).method = method
           /\ TransferFee \in Nat /\ TransferFee > 0 /\ Price \in Nat
BY MemberPaymentAssumption DEF Debit, Credit, SurchargeDebit, Income, LedgerRow, CashRow

\* One row more of the ledger, a plain one or a surcharge.
LEMMA RowAdded ==
    ASSUME NEW rows \in Seq(LedgerRow), NEW row \in LedgerRow
    PROVE  /\ Append(rows, row) \in Seq(LedgerRow) /\ Append(rows, row) # <<>>
           /\ Total(Append(rows, row)) = Total(rows) + row.sum
           /\ Total(rows) \in Int /\ Fees(rows) \in Int
           /\ Fees(Append(rows, row)) = Fees(rows) + (IF row.surcharge THEN TransferFee ELSE 0)
           /\ ~row.surcharge /\ NeverCharged(rows) => NeverCharged(Append(rows, row))
           /\ ~row.surcharge /\ ChargedOnce(rows) => ChargedOnce(Append(rows, row))
           /\ NeverCharged(rows) => ChargedOnce(Append(rows, row))
<1>1. /\ Append(rows, row) \in Seq(LedgerRow) /\ Len(rows) \in Nat
      /\ Len(Append(rows, row)) = Len(rows) + 1
      /\ DOMAIN rows = 1..Len(rows) /\ DOMAIN Append(rows, row) = 1..(Len(rows) + 1)
      /\ \A i \in 1..Len(rows) : Append(rows, row)[i] = rows[i]
      /\ Append(rows, row)[Len(rows) + 1] = row
  BY AppendFacts
<1>2. Append(rows, row) # <<>>
  BY <1>1
<1>3. Total(Append(rows, row)) = Total(rows) + row.sum /\ Total(rows) \in Int
  BY RowTypes, TotalAppends, TotalIs
<1>4. /\ Fees(rows) \in Int
      /\ Fees(Append(rows, row)) = Fees(rows) + (IF row.surcharge THEN TransferFee ELSE 0)
  BY FeesAppend
<1>5. PICK more, n : more = Append(rows, row) /\ n = Len(rows)
  OBVIOUS
<1>6. \A i \in DOMAIN more : (i \in DOMAIN rows /\ more[i] = rows[i]) \/ (i = n + 1 /\ more[i] = row)
  BY <1>1, <1>5
<1>7. ~row.surcharge /\ NeverCharged(rows) => NeverCharged(more)
  BY <1>6 DEF NeverCharged
<1>8. ~row.surcharge /\ ChargedOnce(rows) => ChargedOnce(more)
  BY <1>6 DEF ChargedOnce
<1>9. NeverCharged(rows) => ChargedOnce(more)
  BY <1>6 DEF NeverCharged, ChargedOnce
<1> QED
  BY <1>1, <1>2, <1>3, <1>4, <1>5, <1>7, <1>8, <1>9

\* One row more of the cash desk.
LEMMA MoveAdded ==
    ASSUME NEW moves \in Seq(CashRow), NEW move \in CashRow
    PROVE  /\ Append(moves, move) \in Seq(CashRow)
           /\ Total(Append(moves, move)) = Total(moves) + move.sum /\ Total(moves) \in Int
           /\ ByTransfer(moves) => ByTransfer(Append(moves, move))
           /\ move.sum > 0 /\ move.method = "TRANSFER" => ByTransfer(Append(moves, move))
<1>1. /\ Append(moves, move) \in Seq(CashRow) /\ Len(moves) \in Nat
      /\ DOMAIN moves = 1..Len(moves) /\ DOMAIN Append(moves, move) = 1..(Len(moves) + 1)
      /\ \A i \in 1..Len(moves) : Append(moves, move)[i] = moves[i]
      /\ Append(moves, move)[Len(moves) + 1] = move
  BY AppendFacts
<1>2. Total(Append(moves, move)) = Total(moves) + move.sum /\ Total(moves) \in Int
  BY RowTypes, TotalAppends, TotalIs
<1>3. PICK more, n : more = Append(moves, move) /\ n = Len(moves)
  OBVIOUS
<1>4. /\ \A i \in DOMAIN moves : i \in DOMAIN more /\ more[i] = moves[i]
      /\ n + 1 \in DOMAIN more /\ more[n + 1] = move
  BY <1>1, <1>3
<1>5. ByTransfer(moves) => ByTransfer(more)
  BY <1>4 DEF ByTransfer
<1>6. move.sum > 0 /\ move.method = "TRANSFER" => ByTransfer(more)
  BY <1>4 DEF ByTransfer
<1> QED
  BY <1>1, <1>2, <1>3, <1>5, <1>6

\* The two rows of a reversal.
LEMMA RowUndone ==
    ASSUME NEW row \in CashRow, NEW back, back = [row EXCEPT !.sum = -@, !.reversal = TRUE],
           NEW marked, marked = [row EXCEPT !.isReversed = TRUE]
    PROVE  /\ back \in CashRow /\ row.sum \in Int /\ back.sum = -row.sum
           /\ marked \in CashRow /\ marked.sum = row.sum /\ marked.method = row.method
<1>1. PICK a \in Int, m \in Methods, r \in BOOLEAN, v \in BOOLEAN :
         row = [sum |-> a, method |-> m, reversal |-> r, isReversed |-> v]
  BY DEF CashRow
<1>2. back = [sum |-> -a, method |-> m, reversal |-> TRUE, isReversed |-> v]
  BY <1>1
<1>3. marked = [sum |-> a, method |-> m, reversal |-> r, isReversed |-> TRUE]
  BY <1>1
<1>4. -a \in Int
  OBVIOUS
<1>5. back \in CashRow /\ row.sum = a /\ back.sum = -a
  BY <1>1, <1>2, <1>4 DEF CashRow
<1>6. marked \in CashRow /\ marked.sum = a /\ marked.method = m /\ row.method = m
  BY <1>1, <1>3 DEF CashRow
<1> QED
  BY <1>5, <1>6

\* A movement undone: the total loses what it gave, and is no less a memory.
LEMMA MoveUndone ==
    ASSUME NEW moves \in Seq(CashRow), NEW i \in DOMAIN moves
    PROVE  /\ Undo(moves, i) \in Seq(CashRow)
           /\ moves[i].sum \in Int /\ Total(moves) \in Int
           /\ Total(Undo(moves, i)) = Total(moves) - moves[i].sum
           /\ ByTransfer(moves) => ByTransfer(Undo(moves, i))
<1>1. PICK marked, back : /\ marked = [moves EXCEPT ![i].isReversed = TRUE]
                          /\ back = [moves[i] EXCEPT !.sum = -@, !.reversal = TRUE]
  OBVIOUS
<1>2. moves[i] \in CashRow /\ moves[i].sum \in Int
  BY RowTypes
<1>3. back \in CashRow /\ back.sum = -moves[i].sum
  <2>1. PICK row : row = [moves[i] EXCEPT !.isReversed = TRUE]
    OBVIOUS
  <2> QED
    BY <1>1, <1>2, <2>1, RowUndone
<1>4. /\ marked \in Seq(CashRow) /\ DOMAIN marked = DOMAIN moves /\ Len(marked) = Len(moves)
      /\ \A j \in DOMAIN moves : marked[j].sum = moves[j].sum /\ marked[j].method = moves[j].method
  <2>1. PICK row : row = [moves[i] EXCEPT !.isReversed = TRUE]
    OBVIOUS
  <2>2. row \in CashRow /\ row.sum = moves[i].sum /\ row.method = moves[i].method
    BY <1>1, <1>2, <2>1, RowUndone
  <2>3. marked = [moves EXCEPT ![i] = row]
    BY <1>1, <2>1
  <2> QED
    BY <2>2, <2>3
<1>5. Total(marked) = Total(moves) /\ Total(moves) \in Int
  <2>1. [j \in DOMAIN marked |-> marked[j].sum] = [j \in DOMAIN moves |-> moves[j].sum]
    BY <1>4
  <2>2. Total(marked) = Total(moves)
    BY <2>1 DEF Total
  <2>3. Total(moves) \in Int
    BY RowTypes, TotalIs
  <2> QED
    BY <2>2, <2>3
<1>6. ByTransfer(moves) => ByTransfer(marked)
  BY <1>4 DEF ByTransfer
<1>7. Undo(moves, i) = Append(marked, back)
  BY <1>1 DEF Undo
<1>8. /\ Append(marked, back) \in Seq(CashRow)
      /\ Total(Append(marked, back)) = Total(marked) + back.sum
      /\ ByTransfer(marked) => ByTransfer(Append(marked, back))
  BY <1>3, <1>4, MoveAdded
<1> QED
  BY <1>2, <1>3, <1>5, <1>6, <1>7, <1>8

\* One row and two, as they are written.
LEMMA RowsWritten ==
    ASSUME NEW R, NEW rows \in Seq(R), NEW r \in R, NEW s \in R
    PROVE  /\ rows \o <<r>> = Append(rows, r)
           /\ rows \o <<r, s>> = Append(Append(rows, r), s)
           /\ rows \o (<<r>> \o <<s>>) = Append(Append(rows, r), s)
           /\ <<>> \o <<s>> = <<s>>
<1>1. rows \o <<r>> = Append(rows, r)
  BY AppendIsConcat
<1>2. rows \o (<<r>> \o <<s>>) = Append(Append(rows, r), s)
  <2>1. <<r>> \in Seq(R) /\ <<s>> \in Seq(R) /\ Append(rows, r) \in Seq(R)
    OBVIOUS
  <2>2. rows \o (<<r>> \o <<s>>) = (rows \o <<r>>) \o <<s>>
    BY <2>1, ConcatAssociative
  <2>3. Append(Append(rows, r), s) = Append(rows, r) \o <<s>>
    BY <2>1, AppendIsConcat
  <2> QED
    BY <1>1, <2>2, <2>3
<1>0. <<>> \o <<s>> = <<s>>
  <2>1. <<>> \in Seq(R) /\ <<s>> \in Seq(R)
    OBVIOUS
  <2> QED
    BY <2>1, ConcatEmptySeq
<1>3. rows \o <<r, s>> = Append(Append(rows, r), s)
  OBVIOUS
<1> QED
  BY <1>0, <1>1, <1>2, <1>3

\* The rows of one line of a payment.
LEMMA LineCharged ==
    ASSUME NEW rows \in Seq(LedgerRow), NEW amount \in Nat, NEW fee \in {0, TransferFee},
           NEW line, line = [amount |-> amount, surcharge |-> fee]
    PROVE  /\ rows \o ChargeLine(line) \in Seq(LedgerRow) /\ rows \o ChargeLine(line) # <<>>
           /\ Total(rows \o ChargeLine(line)) = Total(rows) + amount
           /\ Total(rows) \in Int /\ Fees(rows) \in Int
           /\ Fees(rows \o ChargeLine(line)) = Fees(rows) + fee
           /\ fee = 0 /\ NeverCharged(rows) => NeverCharged(rows \o ChargeLine(line))
           /\ fee = 0 /\ ChargedOnce(rows) => ChargedOnce(rows \o ChargeLine(line))
           /\ NeverCharged(rows) => ChargedOnce(rows \o ChargeLine(line))
<1>1. PICK credit : credit = Credit(amount + fee)
  OBVIOUS
<1>2. /\ credit \in LedgerRow /\ credit.sum = amount + fee /\ credit.surcharge = FALSE
      /\ SurchargeDebit \in LedgerRow /\ SurchargeDebit.sum = -TransferFee
      /\ SurchargeDebit.surcharge = TRUE /\ TransferFee \in Nat /\ TransferFee > 0
  <2>1. amount + fee \in Int /\ "CASH" \in Methods
    BY MemberPaymentAssumption DEF Methods
  <2> QED
    BY <1>1, <2>1, MadeRows
<1>3. PICK more : more = rows \o ChargeLine(line)
  OBVIOUS
<1>4. CASE fee = 0
  <2>1. ChargeLine(line) = <<>> \o <<credit>>
    BY <1>1, <1>4 DEF ChargeLine
  <2>2. more = Append(rows, credit)
    <3>1. rows \o <<credit>> = Append(rows, credit) /\ <<>> \o <<credit>> = <<credit>>
      BY <1>2, RowsWritten
    <3> QED
      BY <1>3, <2>1, <3>1
  <2>3. /\ more \in Seq(LedgerRow) /\ more # <<>>
        /\ Total(more) = Total(rows) + (amount + fee) /\ Total(rows) \in Int /\ Fees(rows) \in Int
        /\ Fees(more) = Fees(rows) + 0
        /\ NeverCharged(rows) => NeverCharged(more)
        /\ ChargedOnce(rows) => ChargedOnce(more)
        /\ NeverCharged(rows) => ChargedOnce(more)
    BY <1>2, <2>2, RowAdded
  <2>4. Total(more) = Total(rows) + amount
    BY <1>4, <2>3
  <2> QED
    BY <1>3, <1>4, <2>3, <2>4
<1>5. CASE fee = TransferFee
  <2>1. PICK mid : mid = Append(rows, SurchargeDebit)
    OBVIOUS
  <2>2. ChargeLine(line) = <<SurchargeDebit>> \o <<credit>>
    BY <1>1, <1>2, <1>5 DEF ChargeLine
  <2>3. more = Append(mid, credit)
    <3>1. rows \o (<<SurchargeDebit>> \o <<credit>>) = Append(Append(rows, SurchargeDebit), credit)
      BY <1>2, RowsWritten
    <3> QED
      BY <1>3, <2>1, <2>2, <3>1
  <2>4. /\ mid \in Seq(LedgerRow) /\ Total(mid) = Total(rows) + SurchargeDebit.sum
        /\ Total(rows) \in Int /\ Fees(rows) \in Int /\ Fees(mid) = Fees(rows) + TransferFee
        /\ NeverCharged(rows) => ChargedOnce(mid)
    BY <1>2, <2>1, RowAdded
  <2>5. /\ more \in Seq(LedgerRow) /\ more # <<>>
        /\ Total(more) = Total(mid) + credit.sum
        /\ Fees(more) = Fees(mid) + 0
        /\ ChargedOnce(mid) => ChargedOnce(more)
    BY <1>2, <2>3, <2>4, RowAdded
  <2>6. Total(more) = Total(rows) + amount
    <3>1. PICK t, f, u : t = Total(rows) /\ f = TransferFee /\ u = Total(mid)
      OBVIOUS
    <3>2. /\ t \in Int /\ f \in Nat /\ u = t + (-f) /\ Total(more) = u + (amount + f)
      BY <1>2, <1>5, <2>4, <2>5, <3>1
    <3>3. Total(more) = t + amount
      BY ONLY <3>2, amount \in Nat
    <3> QED
      BY <3>1, <3>3
  <2>7. Fees(more) = Fees(rows) + fee /\ fee # 0
    BY <1>2, <1>5, <2>4, <2>5
  <2> QED
    BY <1>3, <2>4, <2>5, <2>6, <2>7
<1> QED
  BY <1>4, <1>5

\* A line of a payment leaves its period in order.
LEMMA PeriodPaid ==
    ASSUME NEW mode \in Modes, NEW rows \in Seq(LedgerRow), NEW moves \in Seq(CashRow),
           PeriodOK(mode, rows, moves), NEW method \in Methods,
           NEW amount \in Nat, NEW fee \in {0, TransferFee},
           fee = 0 \/ (NeverCharged(rows) /\ ~ByTransfer(moves)),
           NEW line, line = [amount |-> amount, surcharge |-> fee]
    PROVE  PeriodOK(mode, rows \o ChargeLine(line), Append(moves, MovementOf(line, method)))
<1>1. PICK more, move : more = rows \o ChargeLine(line) /\ move = MovementOf(line, method)
  OBVIOUS
<1>2. /\ Total(more) = Total(rows) + amount
      /\ Total(rows) \in Int /\ Fees(rows) \in Int /\ Fees(more) = Fees(rows) + fee
      /\ fee = 0 /\ NeverCharged(rows) => NeverCharged(more)
      /\ fee = 0 /\ ChargedOnce(rows) => ChargedOnce(more)
      /\ NeverCharged(rows) => ChargedOnce(more)
  BY <1>1, LineCharged
<1>3. fee \in Nat
  BY MemberPaymentAssumption
<1>4. move \in CashRow /\ move.sum = amount + fee
  <2>1. move = Income(amount + fee, method) /\ amount + fee \in Int
    BY <1>1, <1>3 DEF MovementOf
  <2> QED
    BY <2>1, MadeRows
<1>5. /\ Total(Append(moves, move)) = Total(moves) + (amount + fee) /\ Total(moves) \in Int
      /\ ByTransfer(moves) => ByTransfer(Append(moves, move))
  BY <1>4, MoveAdded
<1>6. PICK more2 : more2 = Append(moves, move)
  OBVIOUS
<1>7. /\ ChargedOnce(rows) /\ (mode = "TRANSFER" => NeverCharged(rows) /\ ByTransfer(moves))
      /\ -Total(rows) = Price + Surcharge(mode) + Fees(rows) - Total(moves)
  BY DEF PeriodOK
<1>8. Price \in Nat /\ Surcharge(mode) \in Nat
  BY MemberPaymentAssumption DEF Surcharge
<1>9. -Total(more) = Price + Surcharge(mode) + Fees(more) - Total(more2)
  <2>1. PICK r, r2, f, f2, v, v2, p, u :
           /\ r = Total(rows) /\ r2 = Total(more) /\ f = Fees(rows) /\ f2 = Fees(more)
           /\ v = Total(moves) /\ v2 = Total(more2) /\ p = Price /\ u = Surcharge(mode)
    OBVIOUS
  <2>2. /\ r \in Int /\ f \in Int /\ v \in Int /\ p \in Nat /\ u \in Nat
        /\ r2 = r + amount /\ f2 = f + fee /\ v2 = v + (amount + fee)
        /\ -r = p + u + f - v
    BY <1>2, <1>5, <1>6, <1>7, <1>8, <2>1
  <2>3. -r2 = p + u + f2 - v2
    BY ONLY <1>3, <2>2, amount \in Nat
  <2> QED
    BY <2>1, <2>3
<1>10. ChargedOnce(more) /\ (mode = "TRANSFER" => NeverCharged(more) /\ ByTransfer(more2))
  BY <1>2, <1>5, <1>6, <1>7
<1> QED
  BY <1>1, <1>6, <1>9, <1>10 DEF PeriodOK

\* A reversal leaves the period of its movement in order.
LEMMA PeriodUndone ==
    ASSUME NEW mode \in Modes, NEW rows \in Seq(LedgerRow), NEW moves \in Seq(CashRow),
           PeriodOK(mode, rows, moves), NEW i \in DOMAIN moves
    PROVE  PeriodOK(mode, rows \o <<Debit(moves[i].sum)>>, Undo(moves, i))
<1>1. PICK row, undone : row = Debit(moves[i].sum) /\ undone = Undo(moves, i)
  OBVIOUS
<1>2. /\ moves[i].sum \in Int /\ Total(moves) \in Int
      /\ Total(undone) = Total(moves) - moves[i].sum
      /\ ByTransfer(moves) => ByTransfer(undone)
  BY <1>1, MoveUndone
<1>3. row \in LedgerRow /\ row.sum = -moves[i].sum /\ row.surcharge = FALSE
  <2>1. "CASH" \in Methods
    BY DEF Methods
  <2> QED
    BY <1>1, <1>2, <2>1, MadeRows
<1>4. PICK more : more = Append(rows, row)
  OBVIOUS
<1>5. rows \o <<row>> = more
  BY <1>3, <1>4, RowsWritten
<1>6. /\ Total(more) = Total(rows) - moves[i].sum
      /\ Total(rows) \in Int /\ Fees(rows) \in Int /\ Fees(more) = Fees(rows)
      /\ NeverCharged(rows) => NeverCharged(more)
      /\ ChargedOnce(rows) => ChargedOnce(more)
  <2>1. /\ Total(more) = Total(rows) + row.sum
        /\ Total(rows) \in Int /\ Fees(rows) \in Int /\ Fees(more) = Fees(rows) + 0
        /\ NeverCharged(rows) => NeverCharged(more)
        /\ ChargedOnce(rows) => ChargedOnce(more)
    BY <1>3, <1>4, RowAdded
  <2> QED
    BY <1>2, <1>3, <2>1
<1>7. /\ ChargedOnce(rows) /\ (mode = "TRANSFER" => NeverCharged(rows) /\ ByTransfer(moves))
      /\ -Total(rows) = Price + Surcharge(mode) + Fees(rows) - Total(moves)
  BY DEF PeriodOK
<1>8. Price \in Nat /\ Surcharge(mode) \in Nat
  BY MemberPaymentAssumption DEF Surcharge
<1>9. -Total(more) = Price + Surcharge(mode) + Fees(more) - Total(undone)
  <2>1. PICK r, r2, f, f2, v, v2, p, u, a :
           /\ r = Total(rows) /\ r2 = Total(more) /\ f = Fees(rows) /\ f2 = Fees(more)
           /\ v = Total(moves) /\ v2 = Total(undone) /\ p = Price /\ u = Surcharge(mode)
           /\ a = moves[i].sum
    OBVIOUS
  <2>2. /\ r \in Int /\ f \in Int /\ v \in Int /\ p \in Nat /\ u \in Nat /\ a \in Int
        /\ r2 = r - a /\ f2 = f /\ v2 = v - a
        /\ -r = p + u + f - v
    BY <1>2, <1>6, <1>7, <1>8, <2>1
  <2>3. -r2 = p + u + f2 - v2
    BY ONLY <2>2
  <2> QED
    BY <2>1, <2>3
<1>10. ChargedOnce(more) /\ (mode = "TRANSFER" => NeverCharged(more) /\ ByTransfer(undone))
  BY <1>2, <1>6, <1>7
<1> QED
  BY <1>1, <1>5, <1>9, <1>10 DEF PeriodOK

\* The rows a period begins with.
LEMMA NoRows ==
    /\ <<>> \in Seq(LedgerRow) /\ <<>> \in Seq(CashRow)
    /\ Total(<<>>) = 0 /\ Fees(<<>>) = 0
    /\ NeverCharged(<<>>) /\ ChargedOnce(<<>>)
<1>1. <<>> \in Seq(LedgerRow) /\ <<>> \in Seq(CashRow) /\ DOMAIN <<>> = {}
  OBVIOUS
<1>2. PICK f : f = [i \in DOMAIN <<>> |-> IF <<>>[i].surcharge THEN TransferFee ELSE 0]
  OBVIOUS
<1>3. DOMAIN f = {} /\ IsFiniteSet({})
  BY <1>1, <1>2, FS_EmptySet
<1>4. SumFunction(f) = Sum(f, {}) /\ Sum(f, {}) = 0
  BY <1>3, SumFunctionOver, SumEmpty
<1>5. Fees(<<>>) = 0
  BY <1>2, <1>4 DEF Fees
<1>6. NeverCharged(<<>>) /\ ChargedOnce(<<>>)
  BY <1>1 DEF NeverCharged, ChargedOnce
<1> QED
  BY <1>1, <1>5, <1>6, TotalOfNone

LEMMA PeriodAssigned ==
    ASSUME NEW mode \in Modes, NEW total, total = Price + Surcharge(mode), NEW rows,
           rows = IF mode = "DEBT" THEN <<Debit(total)>> ELSE <<Debit(total), Credit(total)>>,
           NEW moves,
           moves = IF mode = "DEBT" THEN <<>> ELSE Append(<<>>, Income(total, mode))
    PROVE  /\ <<>> \o rows \in Seq(LedgerRow) /\ <<>> \o rows # <<>> /\ moves \in Seq(CashRow)
           /\ PeriodOK(mode, <<>> \o rows, moves)
<1>1. Price \in Nat /\ Surcharge(mode) \in Nat /\ total \in Int /\ total > 0
      /\ (mode = "DEBT" => Surcharge(mode) = 0)
  BY MemberPaymentAssumption DEF Surcharge
<1>2. PICK d, c : d = Debit(total) /\ c = Credit(total)
  OBVIOUS
<1>3. /\ d \in LedgerRow /\ d.sum = -total /\ d.surcharge = FALSE
      /\ c \in LedgerRow /\ c.sum = total /\ c.surcharge = FALSE
  <2>1. "CASH" \in Methods
    BY DEF Methods
  <2> QED
    BY <1>1, <1>2, <2>1, MadeRows
<1>4. PICK one : one = Append(<<>>, d)
  OBVIOUS
<1>5. /\ one \in Seq(LedgerRow) /\ one # <<>> /\ Total(one) = 0 + (-total) /\ Fees(one) = 0 + 0
      /\ NeverCharged(one) /\ ChargedOnce(one)
  BY <1>3, <1>4, NoRows, RowAdded
<1>6. Total(<<>>) = 0 /\ <<>> \in Seq(CashRow) /\ <<>> \in Seq(LedgerRow)
  BY NoRows
<1>7. CASE mode = "DEBT"
  <2>1. rows = <<d>> /\ moves = <<>>
    BY <1>2, <1>7
  <2>2. <<>> \o rows = one
    <3>1. <<>> \o <<d>> = Append(<<>>, d)
      BY <1>3, <1>6, RowsWritten
    <3> QED
      BY <1>4, <2>1, <3>1
  <2>3. -Total(one) = Price + Surcharge(mode) + Fees(one) - Total(moves)
    <3>1. PICK p, u, t : p = Price /\ u = Surcharge(mode) /\ t = Total(one)
      OBVIOUS
    <3>2. p \in Nat /\ u = 0 /\ t = 0 + (-(p + u)) /\ Fees(one) = 0 /\ Total(moves) = 0
      BY <1>1, <1>5, <1>6, <1>7, <2>1, <3>1
    <3>3. -t = p + u + 0 - 0
      BY ONLY <3>2
    <3> QED
      BY <3>1, <3>2, <3>3
  <2> QED
    BY <1>5, <1>6, <1>7, <2>1, <2>2, <2>3 DEF PeriodOK
<1>8. CASE mode # "DEBT"
  <2>1. mode \in Methods /\ rows = <<d, c>> /\ moves = Append(<<>>, Income(total, mode))
    BY <1>2, <1>8 DEF Modes
  <2>2. PICK two : two = Append(one, c)
    OBVIOUS
  <2>3. <<>> \o rows = two
    <3>1. <<>> \o <<d, c>> = Append(Append(<<>>, d), c)
      BY <1>3, <1>6, RowsWritten
    <3> QED
      BY <1>4, <2>1, <2>2, <3>1
  <2>4. /\ two \in Seq(LedgerRow) /\ two # <<>> /\ Total(two) = Total(one) + total
        /\ Fees(two) = Fees(one) + 0
        /\ NeverCharged(two) /\ ChargedOnce(two)
    BY <1>3, <1>5, <2>2, RowAdded
  <2>5. PICK move : move = Income(total, mode)
    OBVIOUS
  <2>6. move \in CashRow /\ move.sum = total /\ move.method = mode
    BY <1>1, <2>1, <2>5, MadeRows
  <2>7. /\ moves \in Seq(CashRow) /\ Total(moves) = 0 + total
        /\ mode = "TRANSFER" => ByTransfer(moves)
    BY <1>1, <1>6, <2>1, <2>5, <2>6, MoveAdded
  <2>8. -Total(two) = Price + Surcharge(mode) + Fees(two) - Total(moves)
    <3>1. PICK p, u, t, v : p = Price /\ u = Surcharge(mode) /\ t = Total(two) /\ v = Total(moves)
      OBVIOUS
    <3>2. p \in Nat /\ u \in Nat /\ t = 0 + (-(p + u)) + (p + u) /\ Fees(two) = 0 /\ v = 0 + (p + u)
      BY <1>1, <1>5, <2>4, <2>7, <3>1
    <3>3. -t = p + u + 0 - v
      BY ONLY <3>2
    <3> QED
      BY <3>1, <3>2, <3>3
  <2> QED
    BY <2>3, <2>4, <2>7, <2>8 DEF PeriodOK
<1> QED
  BY <1>7, <1>8

-----------------------------------------------------------------------------
(* What the steps do to all of them.                                       *)

\* A posting to one group.
LEMMA PostFacts ==
    ASSUME PaymentTypeOK, GroupsOK, NEW k \in Keys, NEW new \in Seq(LedgerRow), new # <<>>,
           NextVersion, entries' = [entries EXCEPT ![k] = new],
           groups' = IF entries[k] = <<>> THEN Append(groups, k) ELSE groups
    PROVE  /\ version' = version + 1 /\ version' \in Nat
           /\ groups' \in Seq(Keys) /\ entries' \in [Keys -> Seq(LedgerRow)]
           /\ entries'[k] = new /\ \A j \in Keys : j # k => entries'[j] = entries[j]
           /\ GroupsOK'
<1>1. version' = version + 1 /\ version' \in Nat
  BY DEF NextVersion, PaymentTypeOK
<1>2. entries \in [Keys -> Seq(LedgerRow)] /\ groups \in Seq(Keys)
  BY DEF PaymentTypeOK
<1>4. /\ entries' \in [Keys -> Seq(LedgerRow)] /\ entries'[k] = new
      /\ \A j \in Keys : j # k => entries'[j] = entries[j]
  BY <1>2
<1>5. CASE entries[k] = <<>>
  <2>1. groups' = Append(groups, k)
    BY <1>5
  <2>2. \A i \in DOMAIN groups : groups[i] # k
    BY <1>5 DEF GroupsOK
  <2>3. PICK n, more : n = Len(groups) /\ more = groups'
    OBVIOUS
  <2>4. /\ more \in Seq(Keys) /\ n \in Nat /\ DOMAIN groups = 1..n /\ DOMAIN more = 1..(n + 1)
        /\ \A i \in 1..n : more[i] = groups[i] /\ groups[i] \in Keys
        /\ more[n + 1] = k
    <3>1. more = Append(groups, k) /\ n = Len(groups)
      BY <2>1, <2>3
    <3> QED
      BY <1>2, <3>1
  <2>5. \A i \in DOMAIN more : (i \in DOMAIN groups /\ more[i] = groups[i]) \/ (i = n + 1 /\ more[i] = k)
    BY <2>4
  <2>6. \A i, j \in DOMAIN more : more[i] = more[j] => i = j
    BY <2>2, <2>5 DEF GroupsOK
  <2>7. \A i \in DOMAIN more : entries'[more[i]] # <<>>
    <3> TAKE i \in DOMAIN more
    <3>1. CASE i \in DOMAIN groups /\ more[i] = groups[i]
      <4>1. groups[i] \in Keys /\ groups[i] # k /\ entries[groups[i]] # <<>>
        BY <2>2, <2>4, <3>1 DEF GroupsOK
      <4> QED
        BY <1>4, <3>1, <4>1
    <3>2. CASE more[i] = k
      BY <1>4, <3>2
    <3> QED
      BY <2>5, <3>1, <3>2
  <2>8. ASSUME NEW j \in Keys, entries'[j] # <<>> PROVE \E i \in DOMAIN more : more[i] = j
    <3>1. CASE j = k
      BY <2>4, <3>1
    <3>2. CASE j # k
      <4>1. PICK i \in DOMAIN groups : groups[i] = j
        BY <1>4, <2>8, <3>2 DEF GroupsOK
      <4> QED
        BY <2>4, <4>1
    <3> QED
      BY <3>1, <3>2
  <2>9. GroupsOK'
    BY <2>3, <2>6, <2>7, <2>8 DEF GroupsOK
  <2> QED
    BY <1>1, <1>4, <2>3, <2>4, <2>9
<1>6. CASE entries[k] # <<>>
  <2>1. groups' = groups
    BY <1>6
  <2>2. \A i \in DOMAIN groups : groups[i] \in Keys
    BY <1>2
  <2>3. GroupsOK'
    BY <1>4, <1>6, <2>1, <2>2 DEF GroupsOK
  <2> QED
    BY <1>1, <1>2, <1>4, <2>1, <2>3
<1> QED
  BY <1>5, <1>6

\* The quotes on show are older once something has posted.
LEMMA QuotesOlder ==
    ASSUME PaymentTypeOK, QuotesKnown, version' = version + 1, quotes' = quotes
    PROVE  QuotesKnown'
<1>1. version \in Nat /\ \A d \in Desks : quotes[d].version \in Nat /\ quotes[d].version <= version
  BY DEF PaymentTypeOK, IsQuote, QuotesKnown
<1>2. \A d \in Desks : quotes'[d].version <= version' /\ quotes'[d].version # version'
  BY <1>1
<1> QED
  BY <1>2 DEF QuotesKnown

LEMMA AssignStep ==
    ASSUME PaymentInv, NEW mode \in Modes, Assign(mode)
    PROVE  PaymentInv'
<1>0. PaymentTypeOK /\ GroupsOK /\ PeriodsOK /\ QuotesKnown
  BY DEF PaymentInv
<1>1. PICK n, m : n = Len(memberships) /\ m = n + 1
  OBVIOUS
<1>2. /\ n \in Nat /\ m <= MaxMemberships /\ MaxMemberships \in Nat
      /\ memberships \in Seq(Modes) /\ Assigned = 1..n
      /\ memberships' = Append(memberships, mode) /\ quotes' = quotes
  BY <1>0, <1>1, MemberPaymentAssumption DEF Assign, PaymentTypeOK, Assigned
<1>3. /\ memberships' \in Seq(Modes) /\ Len(memberships') = m /\ Assigned' = 1..m
      /\ \A k \in 1..n : memberships'[k] = memberships[k]
      /\ memberships'[m] = mode
  <2>1. PICK more : more = memberships'
    OBVIOUS
  <2>2. /\ more \in Seq(Modes) /\ Len(more) = m /\ DOMAIN more = 1..m
        /\ \A k \in 1..n : more[k] = memberships[k]
        /\ more[m] = mode
    BY <1>1, <1>2, <2>1, AppendFacts
  <2> QED
    BY <2>1, <2>2 DEF Assigned
<1>4. m \in Keys \ {Loose} /\ m \notin Assigned
  BY <1>1, <1>2 DEF Keys, Loose
<1>5. entries[m] = <<>> /\ movements[m] = <<>>
  BY <1>0, <1>4 DEF PeriodsOK
<1>6. PICK total, rows, moves :
         /\ total = Price + Surcharge(mode)
         /\ rows = IF mode = "DEBT" THEN <<Debit(total)>> ELSE <<Debit(total), Credit(total)>>
         /\ moves = IF mode = "DEBT" THEN <<>> ELSE Append(<<>>, Income(total, mode))
  OBVIOUS
<1>7. /\ <<>> \o rows \in Seq(LedgerRow) /\ <<>> \o rows # <<>> /\ moves \in Seq(CashRow)
      /\ PeriodOK(mode, <<>> \o rows, moves)
  BY <1>6, PeriodAssigned
<1>8. Post(m, rows)
  BY <1>1, <1>6 DEF Assign
<1>9. /\ version' = version + 1 /\ version' \in Nat
      /\ groups' \in Seq(Keys) /\ entries' \in [Keys -> Seq(LedgerRow)]
      /\ entries'[m] = <<>> \o rows /\ \A j \in Keys : j # m => entries'[j] = entries[j]
      /\ GroupsOK'
  <2>1. PICK new : new = entries[m] \o rows
    OBVIOUS
  <2>2. new = <<>> \o rows
    BY <1>5, <2>1
  <2> QED
    <3>1. m \in Keys /\ new \in Seq(LedgerRow) /\ new # <<>>
      BY <1>4, <1>7, <2>2
    <3>2. /\ NextVersion /\ entries' = [entries EXCEPT ![m] = new]
          /\ groups' = IF entries[m] = <<>> THEN Append(groups, m) ELSE groups
      BY <1>8, <2>1 DEF Post
    <3>3. /\ version' = version + 1 /\ version' \in Nat
          /\ groups' \in Seq(Keys) /\ entries' \in [Keys -> Seq(LedgerRow)]
          /\ entries'[m] = new /\ \A j \in Keys : j # m => entries'[j] = entries[j]
          /\ GroupsOK'
      BY <1>0, <3>1, <3>2, PostFacts
    <3> QED
      BY <2>2, <3>3
<1>10. /\ movements' \in [Keys -> Seq(CashRow)] /\ movements'[m] = moves
       /\ \A j \in Keys : j # m => movements'[j] = movements[j]
  <2>1. movements \in [Keys -> Seq(CashRow)] /\ m \in Keys
    BY <1>0, <1>4 DEF PaymentTypeOK
  <2>2. CASE mode = "DEBT"
    BY <1>5, <1>6, <2>1, <2>2 DEF Assign
  <2>3. CASE mode # "DEBT"
    <3>1. movements' = [movements EXCEPT ![m] = moves]
      BY <1>1, <1>5, <1>6, <2>3 DEF Assign
    <3> QED
      BY <1>7, <2>1, <3>1
  <2> QED
    BY <2>2, <2>3
<1>11. PaymentTypeOK'
  BY <1>0, <1>2, <1>3, <1>9, <1>10 DEF PaymentTypeOK
<1>12. PeriodsOK'
  <2> SUFFICES ASSUME NEW k \in Keys \ {Loose}
               PROVE  IF k \in Assigned' THEN PeriodOK(memberships'[k], entries'[k], movements'[k])
                      ELSE entries'[k] = <<>> /\ movements'[k] = <<>>
    BY DEF PeriodsOK
  <2>1. CASE k = m
    BY <1>3, <1>4, <1>7, <1>9, <1>10, <1>1, <1>2, <2>1
  <2>2. CASE k # m
    <3>1. k \in Assigned' <=> k \in Assigned
      BY <1>1, <1>2, <1>3, <2>2
    <3>2. k \in Assigned => memberships'[k] = memberships[k]
      BY <1>2, <1>3
    <3>3. entries'[k] = entries[k] /\ movements'[k] = movements[k]
      BY <1>9, <1>10, <2>2
    <3> QED
      BY <1>0, <3>1, <3>2, <3>3 DEF PeriodsOK
  <2> QED
    BY <2>1, <2>2
<1>13. QuotesKnown'
  BY <1>0, <1>2, <1>9, QuotesOlder
<1> QED
  BY <1>9, <1>11, <1>12, <1>13 DEF PaymentInv

LEMMA CreateMovementStep ==
    ASSUME PaymentInv, NEW sum \in Int, CreateMovement(sum)
    PROVE  PaymentInv'
<1>0. PaymentTypeOK /\ GroupsOK /\ PeriodsOK /\ QuotesKnown
  BY DEF PaymentInv
<1>1. /\ Post(Loose, <<Credit(sum)>>) /\ memberships' = memberships /\ quotes' = quotes
      /\ movements' = [movements EXCEPT ![Loose] = Append(@, Income(sum, "CASH"))]
  BY DEF CreateMovement
<1>2. PICK row, move : row = Credit(sum) /\ move = Income(sum, "CASH")
  OBVIOUS
<1>3. row \in LedgerRow /\ move \in CashRow
  <2>1. "CASH" \in Methods
    BY DEF Methods
  <2> QED
    BY <1>2, <2>1, MadeRows
<1>4. Loose \in Keys
  BY MemberPaymentAssumption DEF Loose, Keys
<1>5. entries[Loose] \o <<row>> \in Seq(LedgerRow) /\ entries[Loose] \o <<row>> # <<>>
  <2>1. entries[Loose] \in Seq(LedgerRow)
    BY <1>0, <1>4 DEF PaymentTypeOK
  <2>2. entries[Loose] \o <<row>> = Append(entries[Loose], row)
    BY <1>3, <2>1, RowsWritten
  <2> QED
    BY <1>3, <2>1, <2>2, RowAdded
<1>6. /\ version' = version + 1 /\ version' \in Nat
      /\ groups' \in Seq(Keys) /\ entries' \in [Keys -> Seq(LedgerRow)]
      /\ \A j \in Keys : j # Loose => entries'[j] = entries[j]
      /\ GroupsOK'
  <2>1. PICK new : new = entries[Loose] \o <<row>>
    OBVIOUS
  <2>2. Post(Loose, <<row>>)
    BY <1>1, <1>2
  <2> QED
    <3>1. new \in Seq(LedgerRow) /\ new # <<>>
      BY <1>5, <2>1
    <3>2. /\ NextVersion /\ entries' = [entries EXCEPT ![Loose] = new]
          /\ groups' = IF entries[Loose] = <<>> THEN Append(groups, Loose) ELSE groups
      BY <2>1, <2>2 DEF Post
    <3>3. /\ version' = version + 1 /\ version' \in Nat
          /\ groups' \in Seq(Keys) /\ entries' \in [Keys -> Seq(LedgerRow)]
          /\ entries'[Loose] = new /\ \A j \in Keys : j # Loose => entries'[j] = entries[j]
          /\ GroupsOK'
      BY <1>0, <1>4, <3>1, <3>2, PostFacts
    <3> QED
      BY <2>1, <3>3
<1>7. /\ movements' \in [Keys -> Seq(CashRow)]
      /\ \A j \in Keys : j # Loose => movements'[j] = movements[j]
  <2>1. movements \in [Keys -> Seq(CashRow)]
    BY <1>0 DEF PaymentTypeOK
  <2>2. PICK new : new = Append(movements[Loose], move)
    OBVIOUS
  <2>3. new \in Seq(CashRow)
    BY <1>3, <1>4, <2>1, <2>2, MoveAdded
  <2>4. movements' = [movements EXCEPT ![Loose] = new]
    BY <1>1, <1>2, <2>2
  <2> QED
    BY <1>4, <2>1, <2>3, <2>4
<1>8. PaymentTypeOK'
  BY <1>0, <1>1, <1>6, <1>7 DEF PaymentTypeOK
<1>9. PeriodsOK'
  BY <1>0, <1>1, <1>6, <1>7 DEF PeriodsOK, Assigned
<1>10. QuotesKnown'
  BY <1>0, <1>1, <1>6, QuotesOlder
<1> QED
  BY <1>6, <1>8, <1>9, <1>10 DEF PaymentInv

LEMMA ReverseMovementStep ==
    ASSUME PaymentInv, NEW k \in Keys, NEW i \in DOMAIN movements[k], ReverseMovement(k, i)
    PROVE  PaymentInv'
<1>0. PaymentTypeOK /\ GroupsOK /\ PeriodsOK /\ QuotesKnown
  BY DEF PaymentInv
<1>1. /\ Post(k, <<Debit(movements[k][i].sum)>>) /\ memberships' = memberships /\ quotes' = quotes
      /\ movements' = [movements EXCEPT ![k] = Undo(@, i)]
  BY DEF ReverseMovement
<1>2. entries[k] \in Seq(LedgerRow) /\ movements[k] \in Seq(CashRow)
  BY <1>0, GroupTypes
<1>3. PICK row, undone : row = Debit(movements[k][i].sum) /\ undone = Undo(movements[k], i)
  OBVIOUS
<1>4. undone \in Seq(CashRow) /\ movements[k][i].sum \in Int
  BY <1>2, <1>3, MoveUndone
<1>5. row \in LedgerRow
  <2>1. "CASH" \in Methods
    BY DEF Methods
  <2> QED
    BY <1>3, <1>4, <2>1, MadeRows
<1>6. entries[k] \o <<row>> \in Seq(LedgerRow) /\ entries[k] \o <<row>> # <<>>
  <2>1. entries[k] \o <<row>> = Append(entries[k], row)
    BY <1>2, <1>5, RowsWritten
  <2> QED
    BY <1>2, <1>5, <2>1, RowAdded
<1>7. /\ version' = version + 1 /\ version' \in Nat
      /\ groups' \in Seq(Keys) /\ entries' \in [Keys -> Seq(LedgerRow)]
      /\ entries'[k] = entries[k] \o <<row>>
      /\ \A j \in Keys : j # k => entries'[j] = entries[j]
      /\ GroupsOK'
  <2>1. PICK new : new = entries[k] \o <<row>>
    OBVIOUS
  <2>2. Post(k, <<row>>)
    BY <1>1, <1>3
  <2> QED
    <3>1. new \in Seq(LedgerRow) /\ new # <<>>
      BY <1>6, <2>1
    <3>2. /\ NextVersion /\ entries' = [entries EXCEPT ![k] = new]
          /\ groups' = IF entries[k] = <<>> THEN Append(groups, k) ELSE groups
      BY <2>1, <2>2 DEF Post
    <3>3. /\ version' = version + 1 /\ version' \in Nat
          /\ groups' \in Seq(Keys) /\ entries' \in [Keys -> Seq(LedgerRow)]
          /\ entries'[k] = new /\ \A j \in Keys : j # k => entries'[j] = entries[j]
          /\ GroupsOK'
      BY <1>0, <3>1, <3>2, PostFacts
    <3> QED
      BY <2>1, <3>3
<1>8. /\ movements' \in [Keys -> Seq(CashRow)] /\ movements'[k] = undone
      /\ \A j \in Keys : j # k => movements'[j] = movements[j]
  <2>1. movements \in [Keys -> Seq(CashRow)]
    BY <1>0 DEF PaymentTypeOK
  <2>2. movements' = [movements EXCEPT ![k] = undone]
    BY <1>1, <1>3
  <2> QED
    BY <1>4, <2>1, <2>2
<1>9. PaymentTypeOK'
  BY <1>0, <1>1, <1>7, <1>8 DEF PaymentTypeOK
<1>10. PeriodsOK'
  <2> SUFFICES ASSUME NEW j \in Keys \ {Loose}
               PROVE  IF j \in Assigned THEN PeriodOK(memberships[j], entries'[j], movements'[j])
                      ELSE entries'[j] = <<>> /\ movements'[j] = <<>>
    BY <1>1 DEF PeriodsOK, Assigned
  <2>1. CASE j # k
    BY <1>0, <1>7, <1>8, <2>1 DEF PeriodsOK
  <2>2. CASE j = k
    <3>1. j \in Assigned
      BY <1>0, <2>2 DEF PeriodsOK
    <3>2. PeriodOK(memberships[k], entries[k], movements[k]) /\ memberships[k] \in Modes
      BY <1>0, <2>2, <3>1 DEF PeriodsOK, PaymentTypeOK, Assigned
    <3>3. PeriodOK(memberships[k], entries[k] \o <<row>>, undone)
      BY <1>2, <1>3, <3>2, PeriodUndone
    <3> QED
      BY <1>7, <1>8, <2>2, <3>1, <3>3
  <2> QED
    BY <2>1, <2>2
<1>11. QuotesKnown'
  BY <1>0, <1>1, <1>7, QuotesOlder
<1> QED
  BY <1>7, <1>9, <1>10, <1>11 DEF PaymentInv

\* What the quote of a ledger in order is.
LEMMA QuoteIs ==
    ASSUME PaymentTypeOK, GroupsOK, NEW method \in Methods, NEW quote, quote = BuildQuote(method)
    PROVE  /\ IsQuote(quote) /\ quote.version = version
           /\ quote.debt > 0 =>
                 /\ Balance \in Int /\ Balance < 0 /\ quote.lines = QuoteLines(method)
                 /\ quote.total = -Balance + Sum([k \in DOMAIN quote.lines |-> quote.lines[k].surcharge],
                                                 DOMAIN quote.lines)
<1>1. Balance \in Int
  BY BalanceIs
<1>2. version \in Nat
  BY DEF PaymentTypeOK
<1>3. CASE Balance >= 0
  <2>1. quote = [version |-> version, debt |-> 0, total |-> 0, lines |-> <<>>]
    BY <1>3 DEF BuildQuote, NoQuote
  <2>2. DOMAIN <<>> \subseteq Keys /\ <<>> \in [DOMAIN <<>> -> Line]
    OBVIOUS
  <2> QED
    BY <1>2, <2>1, <2>2 DEF IsQuote
<1>4. CASE Balance < 0
  <2>1. PICK lines : lines = QuoteLines(method)
    OBVIOUS
  <2>2. /\ DOMAIN lines \subseteq Keys /\ IsFiniteSet(DOMAIN lines)
        /\ \A k \in DOMAIN lines :
              /\ lines[k] = [amount |-> PartOf(lines, k), surcharge |-> SurchargeOf(k, method)]
              /\ PartOf(lines, k) \in Nat /\ SurchargeOf(k, method) \in Nat
    BY <2>1, QuoteFacts
  <2>3. lines = [k \in DOMAIN lines |-> lines[k]]
    BY <2>1 DEF QuoteLines, LinesInOrder
  <2>4. PICK fees : fees = [k \in DOMAIN lines |-> lines[k].surcharge]
    OBVIOUS
  <2>5. DOMAIN fees = DOMAIN lines /\ \A k \in DOMAIN lines : fees[k] \in Nat /\ fees[k] \in Int
    BY <2>2, <2>4
  <2>6. SumFunction(fees) = Sum(fees, DOMAIN lines)
    BY <2>2, <2>5, SumFunctionOver
  <2>7. Sum(fees, DOMAIN lines) \in Nat
    BY <2>2, <2>5, SumOfNaturals
  <2>8. quote = [version |-> version, debt |-> -Balance, lines |-> lines,
                 total |-> -Balance + SumFunction(fees)]
    BY <1>1, <1>4, <2>1, <2>4 DEF BuildQuote
  <2>9. lines \in [DOMAIN lines -> Line]
    <3>1. \A k \in DOMAIN lines : lines[k] \in Line
      BY <2>2 DEF Line
    <3> QED
      BY <2>3, <3>1
  <2>10. -Balance \in Nat /\ -Balance + SumFunction(fees) \in Nat
    BY <1>1, <1>4, <2>6, <2>7
  <2>11. IsQuote(quote) /\ quote.version = version /\ quote.lines = lines
    BY <1>2, <2>2, <2>8, <2>9, <2>10 DEF IsQuote
  <2>12. quote.total = -Balance + Sum(fees, DOMAIN lines)
    BY <2>6, <2>8
  <2> QED
    BY <1>1, <1>4, <2>1, <2>4, <2>11, <2>12
<1> QED
  BY <1>1, <1>3, <1>4

LEMMA ShowQuoteStep ==
    ASSUME PaymentInv, NEW d \in Desks, NEW method \in Methods, ShowQuote(d, method)
    PROVE  PaymentInv'
<1>0. PaymentTypeOK /\ GroupsOK /\ PeriodsOK /\ QuotesKnown
  BY DEF PaymentInv
<1>1. UNCHANGED <<memberships, version, groups, entries, movements>>
  BY DEF ShowQuote
<1>2. PICK quote : quote = BuildQuote(method)
  OBVIOUS
<1>3. IsQuote(quote) /\ quote.version = version
  BY <1>0, <1>2, QuoteIs
<1>4. quotes = [e \in Desks |-> quotes[e]] /\ quotes' = [quotes EXCEPT ![d] = quote]
  BY <1>0, <1>2 DEF PaymentTypeOK, ShowQuote
<1>5. /\ quotes' = [e \in Desks |-> quotes'[e]] /\ quotes'[d] = quote
      /\ \A e \in Desks : e # d => quotes'[e] = quotes[e]
  <2>1. DOMAIN quotes = Desks
    BY <1>4
  <2> QED
    BY <1>4, <2>1
<1>6. \A m \in Methods : BuildQuote(m)' = BuildQuote(m)
  BY <1>1 DEF BuildQuote, QuoteLines, LinesInOrder, CreditLeft, Balance, LooseCredit,
              Outstanding, SurchargeOf, FeeApplied
<1>7. PaymentTypeOK'
  <2>1. \A e \in Desks : IsQuote(quotes'[e])
    BY <1>0, <1>3, <1>5 DEF PaymentTypeOK
  <2>2. version' \in Nat /\ version' = version
    BY <1>0, <1>1 DEF PaymentTypeOK
  <2> QED
    BY <1>0, <1>1, <1>5, <2>1, <2>2 DEF PaymentTypeOK
<1>8. GroupsOK' /\ PeriodsOK'
  BY <1>0, <1>1 DEF GroupsOK, PeriodsOK, Assigned
<1>9. QuotesKnown'
  <2> SUFFICES ASSUME NEW e \in Desks
               PROVE  /\ quotes'[e].version <= version
                      /\ quotes'[e].version = version =>
                            \E m \in Methods : quotes'[e] = BuildQuote(m)
    BY <1>1, <1>6 DEF QuotesKnown
  <2>1. CASE e = d
    <3>1. version \in Nat
      BY <1>0 DEF PaymentTypeOK
    <3> QED
      BY <1>2, <1>3, <1>5, <2>1, <3>1
  <2>2. CASE e # d
    BY <1>0, <1>5, <2>2 DEF QuotesKnown
  <2> QED
    BY <2>1, <2>2
<1> QED
  BY <1>7, <1>8, <1>9 DEF PaymentInv

\* One line is charged and collected.
LinePaid(lines, method, k) ==
    /\ entries'[k] = entries[k] \o ChargeLine(lines[k])
    /\ movements'[k] = Append(movements[k], MovementOf(lines[k], method))
    /\ lines[k] = [amount |-> PartOf(lines, k), surcharge |-> SurchargeOf(k, method)]
    /\ PartOf(lines, k) \in Nat /\ SurchargeOf(k, method) \in {0, TransferFee}
    /\ entries'[k] # <<>> /\ entries[k] # <<>>

\* What a payment does to a group: a line is charged and collected, or nothing.
LEMMA PayGroup ==
    ASSUME PaymentTypeOK, GroupsOK, NEW d \in Desks, NEW method \in Methods, Pay(d, method),
           NEW lines, lines = QuoteLines(method), NEW k \in Keys
    PROVE  /\ k \notin DOMAIN lines =>
                 entries'[k] = entries[k] /\ movements'[k] = movements[k]
           /\ k \in DOMAIN lines => LinePaid(lines, method, k)
           /\ PartOf(lines, k) \in Nat
           /\ entries'[k] \in Seq(LedgerRow) /\ movements'[k] \in Seq(CashRow)
           /\ Total(entries'[k]) = Total(entries[k]) + PartOf(lines, k)
<1>1. PICK quote : quote = BuildQuote(method)
  OBVIOUS
<1>2. quote.debt > 0 /\ entries' = Charged(quote.lines) /\ movements' = Collected(quote.lines, method)
  BY <1>1 DEF Pay
<1>3. quote.lines = lines
  BY <1>1, <1>2, QuoteIs
<1>4. /\ entries'[k] = IF k \in DOMAIN lines THEN entries[k] \o ChargeLine(lines[k]) ELSE entries[k]
      /\ movements'[k] = IF k \in DOMAIN lines
                         THEN Append(movements[k], MovementOf(lines[k], method))
                         ELSE movements[k]
  BY <1>2, <1>3 DEF Charged, Collected
<1>5. entries[k] \in Seq(LedgerRow) /\ movements[k] \in Seq(CashRow) /\ Total(entries[k]) \in Int
  BY GroupTypes
<1>6. CASE k \notin DOMAIN lines
  BY <1>4, <1>5, <1>6 DEF PartOf
<1>7. CASE k \in DOMAIN lines
  <2>1. /\ lines[k] = [amount |-> PartOf(lines, k), surcharge |-> SurchargeOf(k, method)]
        /\ PartOf(lines, k) \in Nat
    BY <1>7, QuoteFacts
  <2>2. SurchargeOf(k, method) \in {0, TransferFee}
    BY DEF SurchargeOf, Surcharge
  <2>3. PICK amount, fee, line : amount = PartOf(lines, k) /\ fee = SurchargeOf(k, method) /\ line = lines[k]
    OBVIOUS
  <2>4. /\ entries[k] \o ChargeLine(line) \in Seq(LedgerRow) /\ entries[k] \o ChargeLine(line) # <<>>
        /\ Total(entries[k] \o ChargeLine(line)) = Total(entries[k]) + amount
    BY <1>5, <2>1, <2>2, <2>3, LineCharged
  <2>5. MovementOf(line, method) \in CashRow
    <3>1. PICK sum : sum = amount + fee
      OBVIOUS
    <3>2. sum \in Int
      BY <2>1, <2>2, <2>3, <3>1, MemberPaymentAssumption
    <3>3. MovementOf(line, method) = Income(sum, method)
      BY <2>1, <2>3, <3>1 DEF MovementOf
    <3> QED
      BY <3>2, <3>3 DEF Income, CashRow
  <2>6. Append(movements[k], MovementOf(line, method)) \in Seq(CashRow)
    BY <1>5, <2>5, MoveAdded
  <2>7. entries[k] # <<>>
    <3>1. DOMAIN lines \subseteq {groups[i] : i \in DOMAIN groups}
      BY LinesAre
    <3> QED
      BY <1>7, <3>1 DEF GroupsOK
  <2> QED
    BY <1>4, <1>7, <2>1, <2>2, <2>3, <2>4, <2>6, <2>7 DEF LinePaid
<1> QED
  BY <1>6, <1>7

LEMMA PayStep ==
    ASSUME PaymentInv, NEW d \in Desks, NEW method \in Methods, Pay(d, method)
    PROVE  PaymentInv'
<1>0. PaymentTypeOK /\ GroupsOK /\ PeriodsOK /\ QuotesKnown
  BY DEF PaymentInv
<1>1. /\ version \in Nat /\ version' = version + 1 /\ memberships' = memberships
      /\ groups' = groups /\ quotes' = quotes
  BY <1>0 DEF Pay, NextVersion, PaymentTypeOK
<1>2. PICK lines : lines = QuoteLines(method)
  OBVIOUS
<1>3. \A k \in Keys :
         /\ k \notin DOMAIN lines => entries'[k] = entries[k] /\ movements'[k] = movements[k]
         /\ k \in DOMAIN lines => LinePaid(lines, method, k)
         /\ entries'[k] \in Seq(LedgerRow) /\ movements'[k] \in Seq(CashRow)
  <2> TAKE k \in Keys
  <2>1. k \notin DOMAIN lines => entries'[k] = entries[k] /\ movements'[k] = movements[k]
    BY <1>0, <1>2, PayGroup
  <2>2. k \in DOMAIN lines => LinePaid(lines, method, k)
    BY <1>0, <1>2, PayGroup
  <2>3. entries'[k] \in Seq(LedgerRow) /\ movements'[k] \in Seq(CashRow)
    BY <1>0, <1>2, PayGroup
  <2> QED
    BY <2>1, <2>2, <2>3
<1>4. entries' \in [Keys -> Seq(LedgerRow)] /\ movements' \in [Keys -> Seq(CashRow)]
  <2>1. PICK paid, taken : paid = entries' /\ taken = movements'
    OBVIOUS
  <2>2. paid = [k \in Keys |-> paid[k]] /\ taken = [k \in Keys |-> taken[k]]
    BY <2>1 DEF Pay, Charged, Collected
  <2>3. \A k \in Keys : paid[k] \in Seq(LedgerRow) /\ taken[k] \in Seq(CashRow)
    BY <1>3, <2>1
  <2> QED
    BY <2>1, <2>2, <2>3
<1>5. PaymentTypeOK'
  BY <1>0, <1>1, <1>4 DEF PaymentTypeOK
<1>6. GroupsOK'
  <2>1. \A k \in Keys : entries'[k] # <<>> <=> entries[k] # <<>>
    BY <1>3 DEF LinePaid
  <2>2. \A i \in DOMAIN groups : groups[i] \in Keys
    BY <1>0 DEF PaymentTypeOK
  <2> QED
    BY <1>0, <1>1, <2>1, <2>2 DEF GroupsOK
<1>7. PeriodsOK'
  <2> SUFFICES ASSUME NEW k \in Keys \ {Loose}
               PROVE  IF k \in Assigned THEN PeriodOK(memberships[k], entries'[k], movements'[k])
                      ELSE entries'[k] = <<>> /\ movements'[k] = <<>>
    BY <1>1 DEF PeriodsOK, Assigned
  <2>1. CASE k \notin DOMAIN lines
    BY <1>0, <1>3, <2>1 DEF PeriodsOK
  <2>2. CASE k \in DOMAIN lines
    <3>0. LinePaid(lines, method, k)
      BY <1>3, <2>2
    <3>1. k \in Assigned
      BY <1>0, <3>0 DEF PeriodsOK, LinePaid
    <3>2. PeriodOK(memberships[k], entries[k], movements[k]) /\ memberships[k] \in Modes
      BY <1>0, <3>1 DEF PeriodsOK, PaymentTypeOK, Assigned
    <3>3. PICK amount, fee, line : /\ amount = PartOf(lines, k) /\ fee = SurchargeOf(k, method)
                                   /\ line = lines[k]
      OBVIOUS
    <3>4. /\ amount \in Nat /\ fee \in {0, TransferFee}
          /\ line = [amount |-> amount, surcharge |-> fee]
      BY <3>0, <3>3 DEF LinePaid
    <3>5. fee = 0 \/ (NeverCharged(entries[k]) /\ ~ByTransfer(movements[k]))
      BY <3>3 DEF SurchargeOf, FeeApplied, NeverCharged, ByTransfer
    <3>6. entries[k] \in Seq(LedgerRow) /\ movements[k] \in Seq(CashRow)
      BY <1>0, GroupTypes
    <3>7. PeriodOK(memberships[k], entries[k] \o ChargeLine(line),
                   Append(movements[k], MovementOf(line, method)))
      BY <3>2, <3>4, <3>5, <3>6, PeriodPaid
    <3> QED
      BY <3>0, <3>1, <3>3, <3>7 DEF LinePaid
  <2> QED
    BY <2>1, <2>2
<1>8. QuotesKnown'
  BY <1>0, <1>1, QuotesOlder
<1> QED
  BY <1>5, <1>6, <1>7, <1>8 DEF PaymentInv

\* A payment settles what is owed: the parts of its lines are the debt.
LEMMA PaidOff ==
    ASSUME PaymentTypeOK, GroupsOK, NEW d \in Desks, NEW method \in Methods, Pay(d, method)
    PROVE  Balance' = 0
<1>1. PICK quote, lines : quote = BuildQuote(method) /\ lines = QuoteLines(method)
  OBVIOUS
<1>2. quote.debt > 0
  BY <1>1 DEF Pay
<1>3. Balance < 0 /\ Balance \in Int
  BY <1>1, <1>2, QuoteIs
<1>4. PICK f, e, h : /\ f = [k \in Keys |-> Total(entries[k])]
                     /\ e = [k \in Keys |-> PartOf(lines, k)]
                     /\ h = [k \in Keys |-> Total(entries'[k])]
  OBVIOUS
<1>5. \A k \in Keys : f[k] \in Int /\ e[k] \in Int /\ h[k] = f[k] + e[k]
  <2> TAKE k \in Keys
  <2>1. Total(entries[k]) \in Int
    BY GroupTypes
  <2>2. PartOf(lines, k) \in Nat /\ Total(entries'[k]) = Total(entries[k]) + PartOf(lines, k)
    BY <1>1, PayGroup
  <2> QED
    BY <1>4, <2>1, <2>2
<1>6. Sum(h, Keys) = Sum(f, Keys) + Sum(e, Keys)
  BY <1>5, KeysAreFinite, SumOfSums
<1>7. Balance = Sum(f, Keys)
  BY <1>4, BalanceIs
<1>8. Sum(e, Keys) = -Balance
  BY <1>1, <1>3, <1>4, QuoteFacts
<1>9. Balance' = Sum(h, Keys)
  <2>1. DOMAIN h = Keys /\ \A k \in Keys : h[k] \in Int
    BY <1>4, <1>5
  <2>2. SumFunction(h) = Sum(h, Keys)
    BY <2>1, KeysAreFinite, SumFunctionOver
  <2> QED
    BY <1>4, <2>2 DEF Balance
<1> QED
  BY <1>3, <1>6, <1>7, <1>8, <1>9

\* The lines of a quote differ with the method in their surcharges only.
LEMMA LinesBut ==
    ASSUME PaymentTypeOK, GroupsOK, NEW m \in Methods, NEW n \in Methods
    PROVE  /\ DOMAIN QuoteLines(m) = DOMAIN QuoteLines(n)
           /\ (\A k \in DOMAIN QuoteLines(m) : QuoteLines(m)[k].surcharge = QuoteLines(n)[k].surcharge)
              => QuoteLines(m) = QuoteLines(n)
<1>1. PICK one, two : one = QuoteLines(m) /\ two = QuoteLines(n)
  OBVIOUS
<1>2. /\ DOMAIN one = DOMAIN two
      /\ one = [k \in DOMAIN one |-> one[k]] /\ two = [k \in DOMAIN two |-> two[k]]
      /\ \A k \in DOMAIN one : one[k].amount = two[k].amount
  BY <1>1 DEF QuoteLines, LinesInOrder
<1>3. \A k \in DOMAIN one :
            /\ one[k] = [amount |-> PartOf(one, k), surcharge |-> SurchargeOf(k, m)]
            /\ two[k] = [amount |-> PartOf(two, k), surcharge |-> SurchargeOf(k, n)]
  <2> TAKE k \in DOMAIN one
  <2>1. one[k] = [amount |-> PartOf(one, k), surcharge |-> SurchargeOf(k, m)]
    BY <1>1, QuoteFacts
  <2>2. k \in DOMAIN two
    BY <1>2
  <2>3. two[k] = [amount |-> PartOf(two, k), surcharge |-> SurchargeOf(k, n)]
    BY <1>1, <2>2, QuoteFacts
  <2> QED
    BY <2>1, <2>3
<1>4. ASSUME \A k \in DOMAIN one : one[k].surcharge = two[k].surcharge
      PROVE  one = two
  <2>1. \A k \in DOMAIN one : one[k] = two[k]
    BY <1>2, <1>3, <1>4
  <2> QED
    BY <1>2, <2>1
<1> QED
  BY <1>1, <1>2, <1>4

\* If the quotes for two methods have the same total they have the same lines:
\* only a transfer has surcharges, and then it has none.
LEMMA SameTotalSameLines ==
    ASSUME PaymentTypeOK, GroupsOK, NEW m \in Methods, NEW n \in Methods,
           BuildQuote(m).debt > 0, BuildQuote(n).total = BuildQuote(m).total
    PROVE  BuildQuote(n).lines = BuildQuote(m).lines
<1>1. PICK one, two, a, b : /\ one = BuildQuote(m) /\ two = BuildQuote(n)
                            /\ a = QuoteLines(m) /\ b = QuoteLines(n)
  OBVIOUS
<1>2. PICK f, g : f = [k \in DOMAIN a |-> a[k].surcharge] /\ g = [k \in DOMAIN b |-> b[k].surcharge]
  OBVIOUS
<1>3. /\ Balance \in Int /\ Balance < 0 /\ one.lines = a
      /\ one.total = -Balance + Sum(f, DOMAIN a)
  BY <1>1, <1>2, QuoteIs
<1>4. two.debt > 0
  BY <1>1, <1>3 DEF BuildQuote
<1>5. two.lines = b /\ two.total = -Balance + Sum(g, DOMAIN b)
  BY <1>1, <1>2, <1>4, QuoteIs
<1>6. DOMAIN a = DOMAIN b /\ IsFiniteSet(DOMAIN a)
  BY <1>1, LinesBut, QuoteFacts
<1>7. \A k \in DOMAIN a : /\ f[k] = SurchargeOf(k, m) /\ g[k] = SurchargeOf(k, n)
                          /\ f[k] \in Nat /\ g[k] \in Nat
                          /\ f[k] = a[k].surcharge /\ g[k] = b[k].surcharge
  <2> TAKE k \in DOMAIN a
  <2>1. /\ a[k] = [amount |-> PartOf(a, k), surcharge |-> SurchargeOf(k, m)]
        /\ SurchargeOf(k, m) \in Nat
    BY <1>1, QuoteFacts
  <2>2. /\ b[k] = [amount |-> PartOf(b, k), surcharge |-> SurchargeOf(k, n)]
        /\ SurchargeOf(k, n) \in Nat
    BY <1>1, <1>6, QuoteFacts
  <2> QED
    BY <1>2, <1>6, <2>1, <2>2
<1>8. Sum(f, DOMAIN a) = Sum(g, DOMAIN a)
  <2>1. Sum(f, DOMAIN a) \in Nat /\ Sum(g, DOMAIN a) \in Nat
    BY <1>6, <1>7, SumOfNaturals
  <2>2. PICK p, q, c : p = Sum(f, DOMAIN a) /\ q = Sum(g, DOMAIN a) /\ c = Balance
    OBVIOUS
  <2>3. p \in Nat /\ q \in Nat /\ c \in Int /\ -c + q = -c + p
    BY <1>1, <1>3, <1>5, <1>6, <2>1, <2>2
  <2>4. p = q
    BY ONLY <2>3
  <2> QED
    BY <2>2, <2>4
<1>9. \A k \in DOMAIN a : f[k] = g[k]
  <2>1. CASE m = n
    BY <1>7, <2>1
  <2>2. ASSUME m = "CASH" \/ n = "CASH" PROVE \A k \in DOMAIN a : f[k] = g[k]
    <3>1. \A k \in Keys : SurchargeOf(k, "CASH") = 0
      BY DEF SurchargeOf, Surcharge
    <3>2. DOMAIN a \subseteq Keys
      BY <1>1, QuoteFacts
    <3>3. (\A k \in DOMAIN a : f[k] = 0) \/ (\A k \in DOMAIN a : g[k] = 0)
      BY <1>7, <2>2, <3>1, <3>2
    <3>4. Sum(f, DOMAIN a) = 0 /\ Sum(g, DOMAIN a) = 0
      BY <1>6, <1>8, <3>3, SumZero
    <3> QED
      BY <1>6, <1>7, <3>4, SumOfNaturals
  <2>3. m = n \/ m = "CASH" \/ n = "CASH"
    BY DEF Methods
  <2> QED
    BY <2>1, <2>2, <2>3
<1>10. a = b
  <2>1. \A k \in DOMAIN a : a[k].surcharge = b[k].surcharge
    BY <1>7, <1>9
  <2> QED
    BY <1>1, <2>1, LinesBut
<1> QED
  BY <1>1, <1>3, <1>5, <1>10

\* A payment takes what the desk was shown.
LEMMA PaidAsShown ==
    ASSUME PaymentInv, NEW d \in Desks, NEW method \in Methods, Pay(d, method)
    PROVE  Balance' = 0 /\ movements' = Collected(quotes[d].lines, method)
<1>0. PaymentTypeOK /\ GroupsOK /\ QuotesKnown
  BY DEF PaymentInv
<1>1. PICK quote : quote = BuildQuote(method)
  OBVIOUS
<1>2. /\ quote.debt > 0 /\ quote.version = quotes[d].version /\ quote.total = quotes[d].total
      /\ movements' = Collected(quote.lines, method)
  BY <1>1 DEF Pay
<1>3. quote.version = version
  BY <1>0, <1>1, QuoteIs
<1>4. PICK m \in Methods : quotes[d] = BuildQuote(m)
  BY <1>0, <1>2, <1>3 DEF QuotesKnown
<1>5. quotes[d].lines = quote.lines
  BY <1>0, <1>1, <1>2, <1>4, SameTotalSameLines
<1>6. Balance' = 0
  BY <1>0, PaidOff
<1> QED
  BY <1>2, <1>5, <1>6

-----------------------------------------------------------------------------
(* The invariant, and what follows from it.                                *)

LEMMA PaymentInvInit == PaymentInit => PaymentInv
<1> SUFFICES ASSUME PaymentInit PROVE PaymentInv
  OBVIOUS
<1>1. /\ memberships = <<>> /\ version = 0 /\ groups = <<>>
      /\ entries = [k \in Keys |-> <<>>] /\ movements = [k \in Keys |-> <<>>]
      /\ quotes = [d \in Desks |-> NoQuote]
  BY DEF PaymentInit
<1>2. Assigned = {} /\ DOMAIN groups = {}
  BY <1>1 DEF Assigned
<1>3. IsQuote(NoQuote) /\ NoQuote.version = 0
  <2>1. DOMAIN <<>> \subseteq Keys /\ <<>> \in [DOMAIN <<>> -> Line]
    OBVIOUS
  <2> QED
    BY <2>1 DEF NoQuote, IsQuote
<1>4. PaymentTypeOK
  <2>1. memberships \in Seq(Modes) /\ Len(memberships) <= MaxMemberships
    BY <1>1, MemberPaymentAssumption
  <2>2. groups \in Seq(Keys)
    BY <1>1
  <2>3. entries \in [Keys -> Seq(LedgerRow)] /\ movements \in [Keys -> Seq(CashRow)]
    BY <1>1, NoRows
  <2>4. version \in Nat
    BY <1>1
  <2>5. quotes = [d \in Desks |-> quotes[d]] /\ \A d \in Desks : IsQuote(quotes[d])
    BY <1>1, <1>3
  <2> QED
    BY <2>1, <2>2, <2>3, <2>4, <2>5 DEF PaymentTypeOK
<1>5. GroupsOK
  BY <1>1, <1>2 DEF GroupsOK
<1>6. PeriodsOK
  BY <1>1, <1>2 DEF PeriodsOK
<1>7. QuotesKnown
  <2>1. Balance = 0
    <3>1. PICK f : f = [k \in Keys |-> Total(entries[k])]
      OBVIOUS
    <3>2. \A k \in Keys : f[k] = 0
      BY <1>1, <3>1, TotalOfNone
    <3>3. Sum(f, Keys) = 0
      BY <3>2, KeysAreFinite, SumZero
    <3> QED
      BY <1>4, <3>1, <3>3, BalanceIs
  <2>2. BuildQuote("CASH") = NoQuote /\ "CASH" \in Methods
    BY <1>1, <2>1 DEF BuildQuote, NoQuote, Methods
  <2> QED
    BY <1>1, <1>3, <2>2 DEF QuotesKnown
<1> QED
  BY <1>4, <1>5, <1>6, <1>7 DEF PaymentInv

LEMMA PaymentInvNext == PaymentInv /\ [PaymentNext]_paymentVars => PaymentInv'
<1> SUFFICES ASSUME PaymentInv, [PaymentNext]_paymentVars PROVE PaymentInv'
  OBVIOUS
<1>1. ASSUME NEW mode \in Modes, Assign(mode) PROVE PaymentInv'
  BY <1>1, AssignStep
<1>2. ASSUME NEW a \in FreeAmounts, CreateMovement(a) \/ CreateMovement(-a) PROVE PaymentInv'
  <2>1. a \in Int /\ -a \in Int
    BY MemberPaymentAssumption
  <2> QED
    BY <1>2, <2>1, CreateMovementStep
<1>3. ASSUME NEW d \in Desks, NEW method \in Methods, ShowQuote(d, method) PROVE PaymentInv'
  BY <1>3, ShowQuoteStep
<1>4. ASSUME NEW d \in Desks, NEW method \in Methods, Pay(d, method) PROVE PaymentInv'
  BY <1>4, PayStep
<1>5. ASSUME NEW k \in Keys, NEW i \in DOMAIN movements[k], ReverseMovement(k, i) PROVE PaymentInv'
  BY <1>5, ReverseMovementStep
<1>6. ASSUME UNCHANGED paymentVars PROVE PaymentInv'
  <2>1. UNCHANGED <<memberships, version, groups, entries, movements, quotes>>
    BY <1>6 DEF paymentVars
  <2>2. \A m \in Methods : BuildQuote(m)' = BuildQuote(m)
    BY <2>1 DEF BuildQuote, QuoteLines, LinesInOrder, CreditLeft, Balance, LooseCredit,
                Outstanding, SurchargeOf, FeeApplied
  <2>3. QuotesKnown'
    BY <2>1, <2>2 DEF PaymentInv, QuotesKnown
  <2>4. PaymentTypeOK' /\ GroupsOK' /\ PeriodsOK'
    BY <2>1 DEF PaymentInv, PaymentTypeOK, GroupsOK, PeriodsOK, Assigned
  <2> QED
    BY <2>3, <2>4 DEF PaymentInv
<1> QED
  BY <1>1, <1>2, <1>3, <1>4, <1>5, <1>6 DEF PaymentNext

\* Every state of the payment has its groups in order, its periods charged for
\* what they cost, and on every desk a quote of the past or of now.
THEOREM PaymentInductive == PaymentSpec => []PaymentInv
BY PaymentInvInit, PaymentInvNext, PTL DEF PaymentSpec

\* The rows of member-payment.service.ts keep their types.
THEOREM PaymentTypeCorrect == PaymentSpec => []PaymentTypeOK
<1>1. PaymentInv => PaymentTypeOK
  BY DEF PaymentInv
<1> QED
  BY <1>1, PaymentInductive, PTL

\* buildQuote: the lines of a quote share out the debt, and loose credit pays
\* the oldest debts first, whatever the ledger.
THEOREM QuotesAreSoundHolds == PaymentSpec => []QuotesAreSound
<1>1. PaymentInv => QuotesAreSound
  BY QuotesSound DEF PaymentInv
<1> QED
  BY <1>1, PaymentInductive, PTL

\* payDebt and the reversals: a period is charged a transfer surcharge at most
\* once in its life, and owes what it was charged less the cash kept for it.
THEOREM ChargesAreSoundHolds == PaymentSpec => []ChargesAreSound
<1>1. ASSUME PaymentInv PROVE ChargesAreSound
  <2>1. PaymentTypeOK /\ PeriodsOK
    BY <1>1 DEF PaymentInv
  <2>2. ASSUME NEW k \in Assigned PROVE k \in Keys \ {Loose} /\ memberships[k] \in Modes
    BY <2>1, MemberPaymentAssumption DEF PaymentTypeOK, Assigned, Keys, Loose
  <2>3. \A k \in Assigned : PeriodOK(memberships[k], entries[k], movements[k])
    BY <2>1, <2>2 DEF PeriodsOK
  <2>4. SurchargedAtMostOnce
    <3> SUFFICES ASSUME NEW k \in Assigned
                 PROVE  LET charged == {i \in DOMAIN entries[k] : entries[k][i].surcharge}
                        IN  /\ \A i, j \in charged : i = j
                            /\ memberships[k] = "TRANSFER" => charged = {}
      BY DEF SurchargedAtMostOnce
    <3>1. /\ ChargedOnce(entries[k])
          /\ memberships[k] = "TRANSFER" => NeverCharged(entries[k])
      BY <2>3 DEF PeriodOK
    <3> QED
      BY <3>1 DEF ChargedOnce, NeverCharged
  <2>5. PeriodsOweTheirCharge
    BY <2>3 DEF PeriodsOweTheirCharge, PeriodOK, Outstanding
  <2> QED
    BY <2>4, <2>5 DEF ChargesAreSound
<1>2. PaymentInv => ChargesAreSound
  BY <1>1
<1> QED
  BY <1>2, PaymentInductive, PTL

\* payDebt: a payment that is accepted settles the whole debt and takes, line by
\* line, what the desk that sent it was shown.
THEOREM PaysAsQuotedHolds == PaymentSpec => PaysAsQuoted
<1>1. ASSUME PaymentInv, [PaymentNext]_paymentVars
      PROVE  [\A d \in Desks, method \in Methods : Pay(d, method) =>
                 Balance' = 0 /\ movements' = Collected(quotes[d].lines, method)]_paymentVars
  BY <1>1, PaidAsShown
<1> QED
  BY <1>1, PaymentInductive, PTL DEF PaymentSpec, PaysAsQuoted
=============================================================================
