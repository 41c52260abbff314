---------------------------- MODULE MemberPayment ----------------------------
(***************************************************************************)
(* What a member owes and how a payment is split (apps/api/src/modules/    *)
(* members/member-payment.service.ts).  The debt of a member is a set of   *)
(* outstanding periods plus a current account without period; a quote      *)
(* spreads loose credit over the periods, oldest first, and adds a         *)
(* surcharge to each period paid by transfer; a payment charges the quote  *)
(* the cashier was shown, or nothing.                                      *)
(*                                                                         *)
(* One member.  Its transactions are atomic and ordered here: MemberLedger *)
(* has the locks that make them so, and the running balance.  The rows of  *)
(* ledger_entries and cash_movements are kept by the period they belong    *)
(* to, which is how buildQuote groups them.                                *)
(***************************************************************************)
EXTENDS Integers, Sequences, SequencesExt

CONSTANTS
    Desks,              \* cashiers with the payment screen open
    Price,              \* price of the plan
    FreeAmounts,        \* amounts of movements without a period
    TransferFee,        \* TRANSFER_SURCHARGE
    MaxMemberships,     \* bound: periods of the member
    MaxVersion          \* bound: transactions that post to the ledger

ASSUME MemberPaymentAssumption ==
    /\ Price \in Nat \ {0}
    /\ TransferFee \in Nat \ {0}
    /\ FreeAmounts \subseteq Nat \ {0}
    /\ MaxMemberships \in Nat
    /\ MaxVersion \in Nat

VARIABLES
    memberships,        \* how each period was charged when it was assigned
    version,            \* ledgerVersion: transactions that have posted
    groups,             \* the groups of the ledger, by their first rows
    entries,            \* table ledger_entries, rows of the member by group
    movements,          \* table cash_movements, rows of the member by group
    quotes              \* the quote each desk is looking at

paymentVars == <<memberships, version, groups, entries, movements, quotes>>

-----------------------------------------------------------------------------
\* The group of entries and movements without a membership.
Loose == 0
Keys == 0..MaxMemberships
Assigned == DOMAIN memberships

Methods == {"CASH", "TRANSFER"}
Modes == Methods \cup {"DEBT"}
Surcharge(method) == IF method = "TRANSFER" THEN TransferFee ELSE 0

\* `sum` is negative for a DEBIT; `surcharge` tells the description apart.
LedgerRow == [sum : Int, surcharge : BOOLEAN]
Debit(amount) == [sum |-> -amount, surcharge |-> FALSE]
Credit(amount) == [sum |-> amount, surcharge |-> FALSE]
SurchargeDebit == [sum |-> -TransferFee, surcharge |-> TRUE]

\* `sum` is positive for INCOME.
CashRow == [sum : Int, method : Methods, reversal : BOOLEAN, isReversed : BOOLEAN]
Income(sum, method) ==
    [sum |-> sum, method |-> method, reversal |-> FALSE, isReversed |-> FALSE]

\* The lines of a quote, by the group they are about.
Line == [amount : Nat, surcharge : Nat]
IsQuote(q) ==
    /\ q.version \in Nat /\ q.debt \in Nat /\ q.total \in Nat
    /\ DOMAIN q.lines \subseteq Keys /\ q.lines \in [DOMAIN q.lines -> Line]
NoQuote == [version |-> 0, debt |-> 0, total |-> 0, lines |-> <<>>]

-----------------------------------------------------------------------------
(* buildQuote.                                                             *)

Total(rows) == SumFunction([i \in DOMAIN rows |-> rows[i].sum])

\* What a group owes; negative if it has credit.
Outstanding(k) == -Total(entries[k])

Balance == SumFunction([k \in Keys |-> Total(entries[k])])

LooseCredit ==
    SumFunction([k \in Keys |-> IF Outstanding(k) < 0 THEN -Outstanding(k) ELSE 0])

\* The part of the credit that goes to a group that owes so much.
Applied(credit, owed) ==
    IF owed <= 0 THEN 0 ELSE IF credit < owed THEN credit ELSE owed

\* Mutant: every group is offered the whole credit.
CreditLeftUnused(order) == [i \in 0..Len(order) |-> LooseCredit]

\* The credit that is left after the first i groups took their part.
CreditLeft(order) ==
    LET left[i \in 0..Len(order)] ==
            IF i = 0 THEN LooseCredit
            ELSE left[i - 1] - Applied(left[i - 1], Outstanding(order[i]))
    IN  left

\* Mutant: the fee is not remembered once its payment is reversed.
OpenFeeApplied(k) ==
    \E i \in DOMAIN movements[k] :
        /\ movements[k][i].method = "TRANSFER"
        /\ ~movements[k][i].isReversed /\ ~movements[k][i].reversal

FeeApplied(k) ==
    \/ \E i \in DOMAIN entries[k] : entries[k][i].surcharge
    \/ \E i \in DOMAIN movements[k] :
          movements[k][i].sum > 0 /\ movements[k][i].method = "TRANSFER"

SurchargeOf(k, method) ==
    IF k = Loose \/ FeeApplied(k) THEN 0 ELSE Surcharge(method)

\* A line for each group that owes more than the credit covers.
LinesInOrder(order, method) ==
    LET left == CreditLeft(order)
        amount(i) == Outstanding(order[i]) - Applied(left[i - 1], Outstanding(order[i]))
        due == {i \in DOMAIN order : amount(i) > 0}
    IN  [k \in {order[i] : i \in due} |->
            [amount |-> amount(CHOOSE i \in due : order[i] = k),
             surcharge |-> SurchargeOf(k, method)]]

\* Mutant: newest group first.
QuoteLinesNewestFirst(method) == LinesInOrder(Reverse(groups), method)

QuoteLines(method) == LinesInOrder(groups, method)

BuildQuote(method) ==
    IF Balance >= 0
    THEN [NoQuote EXCEPT !.version = version]
    ELSE LET lines == QuoteLines(method) IN
         [version |-> version, debt |-> -Balance, lines |-> lines,
          total |-> -Balance + SumFunction([k \in DOMAIN lines |-> lines[k].surcharge])]

-----------------------------------------------------------------------------
PaymentInit ==
    /\ memberships = <<>>
    /\ version = 0
    /\ groups = <<>>
    /\ entries = [k \in Keys |-> <<>>]
    /\ movements = [k \in Keys |-> <<>>]
    /\ quotes = [d \in Desks |-> NoQuote]

NextVersion == version < MaxVersion /\ version' = version + 1

\* Rows of one group; the first ones make the group.
Post(k, rows) ==
    /\ NextVersion
    /\ entries' = [entries EXCEPT ![k] = @ \o rows]
    /\ groups' = IF entries[k] = <<>> THEN Append(groups, k) ELSE groups

\* A membership is created or renewed, by the desk or by the worker: charged
\* as debt, or charged with its surcharge and collected at once.
Assign(mode) ==
    LET m == Len(memberships) + 1
        total == Price + Surcharge(mode)
    IN
    /\ m <= MaxMemberships
    /\ memberships' = Append(memberships, mode)
    /\ Post(m, IF mode = "DEBT" THEN <<Debit(total)>> ELSE <<Debit(total), Credit(total)>>)
    /\ movements' = IF mode = "DEBT" THEN movements
                    ELSE [movements EXCEPT ![m] = Append(@, Income(total, mode))]
    /\ UNCHANGED quotes

\* A cash movement with the member but without a period: income is credit,
\* expense is debt.  The method of such a movement is never looked at.
CreateMovement(sum) ==
    /\ Post(Loose, <<Credit(sum)>>)
    /\ movements' = [movements EXCEPT ![Loose] = Append(@, Income(sum, "CASH"))]
    /\ UNCHANGED <<memberships, quotes>>

\* The rows once the i-th is undone: it is marked, and its opposite added.
Undo(rows, i) ==
    Append([rows EXCEPT ![i].isReversed = TRUE],
           [rows[i] EXCEPT !.sum = -@, !.reversal = TRUE])

\* Mutant: the entry of the reversal loses the period of the movement.
ReverseMovementLoose(k, i) ==
    /\ ~movements[k][i].reversal
    /\ ~movements[k][i].isReversed
    /\ Post(Loose, <<Debit(movements[k][i].sum)>>)
    /\ movements' = [movements EXCEPT ![k] = Undo(@, i)]
    /\ UNCHANGED <<memberships, quotes>>

\* The reversal of a movement of the member, while its session is open.
ReverseMovement(k, i) ==
    /\ ~movements[k][i].reversal
    /\ ~movements[k][i].isReversed
    /\ Post(k, <<Debit(movements[k][i].sum)>>)
    /\ movements' = [movements EXCEPT ![k] = Undo(@, i)]
    /\ UNCHANGED <<memberships, quotes>>

\* GET of the quote: the desk shows it until it asks again.
ShowQuote(d, method) ==
    /\ quotes' = [quotes EXCEPT ![d] = BuildQuote(method)]
    /\ UNCHANGED <<memberships, version, groups, entries, movements>>

\* The entries and the movement of one line.
ChargeLine(line) ==
    (IF line.surcharge > 0 THEN <<SurchargeDebit>> ELSE <<>>)
    \o <<Credit(line.amount + line.surcharge)>>

MovementOf(line, method) == Income(line.amount + line.surcharge, method)

Charged(lines) ==
    [k \in Keys |-> IF k \in DOMAIN lines THEN entries[k] \o ChargeLine(lines[k])
                    ELSE entries[k]]

Collected(lines, method) ==
    [k \in Keys |-> IF k \in DOMAIN lines
                    THEN Append(movements[k], MovementOf(lines[k], method))
                    ELSE movements[k]]

\* Mutant: only the total of the quote is compared.
PaySameTotal(d, method) ==
    LET quote == BuildQuote(method) IN
    /\ quote.debt > 0
    /\ quote.total = quotes[d].total
    /\ NextVersion
    /\ entries' = Charged(quote.lines)
    /\ movements' = Collected(quote.lines, method)
    /\ UNCHANGED <<memberships, groups, quotes>>

\* POST pay-debt, with the version and the total of the quote the desk shows.
\* The quote is built again under the lock of the member and has to agree.
Pay(d, method) ==
    LET quote == BuildQuote(method) IN
    /\ quote.debt > 0
    /\ quote.version = quotes[d].version
    /\ quote.total = quotes[d].total
    /\ NextVersion
    /\ entries' = Charged(quote.lines)
    /\ movements' = Collected(quote.lines, method)
    /\ UNCHANGED <<memberships, groups, quotes>>

PaymentNext ==
    \/ \E mode \in Modes : Assign(mode)
    \/ \E a \in FreeAmounts : CreateMovement(a) \/ CreateMovement(-a)
    \/ \E d \in Desks, method \in Methods : ShowQuote(d, method) \/ Pay(d, method)
    \/ \E k \in Keys : \E i \in DOMAIN movements[k] : ReverseMovement(k, i)

PaymentSpec == PaymentInit /\ [][PaymentNext]_paymentVars

-----------------------------------------------------------------------------
(* Properties.                                                             *)

PaymentTypeOK ==
    /\ memberships \in Seq(Modes) /\ Len(memberships) <= MaxMemberships
    /\ version \in Nat
    /\ groups \in Seq(Keys)
    /\ entries \in [Keys -> Seq(LedgerRow)]
    /\ movements \in [Keys -> Seq(CashRow)]
    /\ quotes = [d \in Desks |-> quotes[d]] /\ \A d \in Desks : IsQuote(quotes[d])

\* The lines of a quote leave no debt out and add none: their amounts sum to
\* the debt, whatever credit is loose and whichever groups it was posted to.
QuoteAddsUp ==
    LET lines == QuoteLines("CASH") IN
    Balance < 0 => SumFunction([k \in DOMAIN lines |-> lines[k].amount]) = -Balance

\* Loose credit pays the oldest debts first ("applied FIFO to outstanding
\* periods"): no group that owes is older than one that credit has reached
\* and not it.
CreditPaysOldestFirst ==
    LET lines == QuoteLines("CASH")
        reached(k) == k \in DOMAIN lines => lines[k].amount < Outstanding(k)
    IN  Balance < 0 =>
            \A i, j \in DOMAIN groups :
                /\ i < j
                /\ Outstanding(groups[i]) > 0 /\ Outstanding(groups[j]) > 0
                /\ reached(groups[j])
                => groups[i] \notin DOMAIN lines

\* A quote is the debt, shared out as the postings left it.
QuotesAreSound == QuoteAddsUp /\ CreditPaysOldestFirst

\* member-debt-payment.spec.ts, "nunca otra vez tras una reversa": a period is
\* charged the surcharge of a transfer at most once in its life, when it is
\* assigned or in one payment.
SurchargedAtMostOnce ==
    \A k \in Assigned :
        LET charged == {i \in DOMAIN entries[k] : entries[k][i].surcharge} IN
        /\ \A i, j \in charged : i = j
        /\ memberships[k] = "TRANSFER" => charged = {}

\* The surcharges among the rows of a group.
Fees(rows) ==
    SumFunction([i \in DOMAIN rows |-> IF rows[i].surcharge THEN TransferFee ELSE 0])

\* The ledger and the cash agree period by period: a period owes what it was
\* charged, surcharge included, less the cash taken for it and not given back.
\* Reversing a payment therefore brings back the debt of the period it paid.
PeriodsOweTheirCharge ==
    \A k \in Assigned :
        Outstanding(k) = Price + Surcharge(memberships[k]) + Fees(entries[k])
                         - Total(movements[k])

\* Whatever is paid, reversed and paid again, a period costs what it costs.
ChargesAreSound == SurchargedAtMostOnce /\ PeriodsOweTheirCharge

\* A payment leaves the member with no debt and no credit, and takes in line by
\* line what the desk was shown: no entry posted since the quote changes it.
PaysAsQuoted ==
    [][\A d \in Desks, method \in Methods : Pay(d, method) =>
          Balance' = 0 /\ movements' = Collected(quotes[d].lines, method)]_paymentVars
=============================================================================
