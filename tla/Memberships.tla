---- MODULE Memberships ----
(***************************************************************************)
(* The monthly periods of one member and their recurrence: the operations  *)
(* of memberships.service.ts and the hourly sweep of the worker (main.ts,  *)
(* membership-expiration.ts, membership-renewal.ts).                       *)
(*                                                                         *)
(* Every operation runs in one transaction that locks the member's row     *)
(* first and reads the period again under the lock, so it is one step; the *)
(* sweep is not: it reads the day once, expires, collects its candidates,  *)
(* and renews each of them in a transaction of its own, while the day may  *)
(* change and the desk may act on the same periods.                        *)
(*                                                                         *)
(* A date is a pair <<month, day>>.  A period covers the days from its     *)
(* start up to, and not including, until: the day after the endDate of the *)
(* code.                                                                   *)
(***************************************************************************)
EXTENDS Integers, Sequences

CONSTANTS
    MaxPeriods,         \* bound: the rows of the member
    Year,               \* the lengths of the months, again and again
    StartDates,         \* the start dates the desk may type
    FirstDay, LastDay,  \* bound: the days the business lives through
    MaxFaults           \* bound: transactions the database refuses, restarts

Period == 1..MaxPeriods

ASSUME PeriodsAssumption == MaxPeriods \in Nat
ASSUME CalendarAssumption ==
    Year \in Seq(Nat \ {0}) /\ Year # <<>>

MonthLength(month) == Year[(month % Len(Year)) + 1]

Date == {d \in Nat \X Nat : d[2] \in 1..MonthLength(d[1])}

ASSUME DatesAssumption ==
    StartDates \subseteq Date /\ FirstDay \in Date /\ LastDay \in Date
ASSUME FaultsAssumption == MaxFaults \in Nat

VARIABLES
    status,     \* NONE for a row that does not exist yet
    start,
    until,
    recurs,     \* autoRenew
    next,       \* nextRenewalDate
    anchor,     \* renewalAnchorDay
    parent,     \* renewedFromId, 0 when there is none
    today,      \* the business day of the branch
    plan,       \* what its plan is to the member
    stage,      \* where the sweep of the worker stands
    sweepDay,   \* the day the sweep works with
    left,       \* the candidates the sweep has still to renew
    faults,
    halted      \* history: the last period of each chain the desk stopped

dates == <<start, until, anchor, parent>>
periods == <<dates, status, recurs, next>>
business == <<today, plan>>
sweep == <<stage, sweepDay, left, faults>>
membershipsVars == <<periods, business, sweep, halted>>

----
(* Dates: billing.ts *)

NoDate == <<0, 0>>

d \prec e == d[1] < e[1] \/ (d[1] = e[1] /\ d[2] < e[2])

d \preceq e == d = e \/ d \prec e

\* The anchor day of a month, or its last day in a shorter month.
AnchoredDate(month, day) ==
    <<month, IF day <= MonthLength(month) THEN day ELSE MonthLength(month)>>

NextMonthlyDate(d, day) == AnchoredDate(d[1] + 1, day)

NextMonthlyDateAfter(d, day) ==
    IF d \prec AnchoredDate(d[1], day) THEN AnchoredDate(d[1], day)
                                       ELSE NextMonthlyDate(d, day)

\* The loop that advances month by month until the period covers day d, in
\* closed form: the last anchored date that is not after d.
CurrentStart(first, day, d) ==
    IF d \prec NextMonthlyDate(first, day) THEN first
    ELSE IF AnchoredDate(d[1], day) \preceq d THEN AnchoredDate(d[1], day)
    ELSE AnchoredDate(d[1] - 1, day)

Tomorrow(d) ==
    IF d[2] < MonthLength(d[1]) THEN <<d[1], d[2] + 1>> ELSE <<d[1] + 1, 1>>

----
(* Periods *)

\* "offered" at a price, "free" when the price is zero, "withdrawn" when member,
\* plan or branch is not active (the price is not looked at then).
Plans == {"offered", "free", "withdrawn"}
Eligible == plan # "withdrawn"

Made == {p \in Period : status[p] # "NONE"}

\* The next row to insert.
IsNext(p) == p \in Period \ Made /\ \A q \in Period : q < p => q \in Made

\* Mutant: later periods that were not renewed from this one do not count.
NewerSuccessor(p, q) == q \in Made \ {p} /\ parent[q] = p

\* A row that a renewal would duplicate: a successor, or any later period.
Newer(p, q) == q \in Made \ {p} /\ (parent[q] = p \/ start[p] \prec start[q])

HasNewer(p) == \E q \in Period : Newer(p, q)

\* The constraint memberships_no_overlap of the schema.
OverlapsActive(from, to) ==
    \E q \in Made : status[q] = "ACTIVE" /\ start[q] \prec to /\ from \prec until[q]

\* The periods renewed from p, directly or not.
Descendants(p) ==
    LET reached[q \in Period] ==
            parent[q] = p \/ (parent[q] \in 1..(q - 1) /\ reached[parent[q]])
    IN {q \in Made : reached[q]}

\* The last one: rows are made after those they renew.
LastOf(p) ==
    CHOOSE q \in {p} \cup Descendants(p) : \A r \in {p} \cup Descendants(p) : r <= q

Insert(p, from, to, day, renewedFrom) ==
    /\ start' = [start EXCEPT ![p] = from]
    /\ until' = [until EXCEPT ![p] = to]
    /\ anchor' = [anchor EXCEPT ![p] = day]
    /\ parent' = [parent EXCEPT ![p] = renewedFrom]

StopRecurrence(stopped) ==
    /\ recurs' = [p \in Period |-> recurs[p] /\ p \notin stopped]
    /\ next' = [p \in Period |-> IF p \in stopped THEN NoDate ELSE next[p]]

\* Mutant: the anchor is the day the previous period happened to start.
SucceedDrifting(p, q, from, statusOfOld) ==
    LET to == NextMonthlyDate(from, start[p][2]) IN
    /\ ~OverlapsActive(from, to)
    /\ Insert(q, from, to, start[p][2], p)
    /\ status' = [status EXCEPT ![p] = statusOfOld, ![q] = "ACTIVE"]
    /\ recurs' = [recurs EXCEPT ![p] = FALSE, ![q] = recurs[p]]
    /\ next' = [next EXCEPT ![p] = NoDate, ![q] = IF recurs[p] THEN to ELSE NoDate]
    /\ halted' = IF p \in halted THEN (halted \ {p}) \cup {q} ELSE halted

\* A new period q that takes over the recurrence of p, if it has one.
Succeed(p, q, from, statusOfOld) ==
    LET to == NextMonthlyDate(from, anchor[p]) IN
    /\ ~OverlapsActive(from, to)
    /\ Insert(q, from, to, anchor[p], p)
    /\ status' = [status EXCEPT ![p] = statusOfOld, ![q] = "ACTIVE"]
    /\ recurs' = [recurs EXCEPT ![p] = FALSE, ![q] = recurs[p]]
    /\ next' = [next EXCEPT ![p] = NoDate, ![q] = IF recurs[p] THEN to ELSE NoDate]
    /\ halted' = IF p \in halted THEN (halted \ {p}) \cup {q} ELSE halted

----
(* The desk: memberships.service.ts *)

\* Mutant: a new assignment leaves the recurrence of the others alone.
CreateKeepingRecurrence(p, from, auto) ==
    LET to == NextMonthlyDate(from, from[2]) IN
    /\ plan = "offered"
    /\ IsNext(p)
    /\ auto => \A q \in Made : start[q] \preceq from
    /\ ~OverlapsActive(from, to)
    /\ Insert(p, from, to, from[2], 0)
    /\ status' = [status EXCEPT ![p] = "ACTIVE"]
    /\ recurs' = [recurs EXCEPT ![p] = auto]
    /\ next' = [next EXCEPT ![p] =
                  IF ~auto THEN NoDate
                  ELSE IF today \prec to THEN to
                  ELSE NextMonthlyDateAfter(today, from[2])]
    /\ UNCHANGED <<business, sweep, halted>>

\* A new assignment stops the recurrence of the periods it supersedes.
Create(p, from, auto) ==
    LET to == NextMonthlyDate(from, from[2])
        superseded == {q \in Made : recurs[q] /\ start[q] \preceq from}
    IN
    /\ plan = "offered"
    /\ IsNext(p)
    /\ auto => \A q \in Made : start[q] \preceq from
    /\ ~OverlapsActive(from, to)
    /\ Insert(p, from, to, from[2], 0)
    /\ status' = [status EXCEPT ![p] = "ACTIVE"]
    /\ recurs' = [q \in Period |->
                    IF q = p THEN auto ELSE recurs[q] /\ q \notin superseded]
    /\ next' = [q \in Period |->
                  CASE q \in superseded -> NoDate
                    [] q = p /\ auto -> IF today \prec to THEN to
                                        ELSE NextMonthlyDateAfter(today, from[2])
                    [] OTHER -> next[q]]
    /\ UNCHANGED <<business, sweep, halted>>

\* The period is extended by the one that covers today, or the next one.
Renew(p, q) ==
    /\ status[p] \in {"ACTIVE", "EXPIRED"}
    /\ plan = "offered"
    /\ ~HasNewer(p)
    /\ IsNext(q)
    /\ Succeed(p, q, CurrentStart(until[p], anchor[p], today),
               IF until[p] \preceq today THEN "EXPIRED" ELSE status[p])
    /\ UNCHANGED <<business, sweep>>

\* Mutant: only the cancelled period itself stops recurring.
CancelAlone(p) ==
    /\ status[p] \in {"ACTIVE", "EXPIRED"}
    /\ status' = [status EXCEPT ![p] = "CANCELLED"]
    /\ StopRecurrence({p})
    /\ halted' = halted \cup {LastOf(p)}
    /\ UNCHANGED <<dates, business, sweep>>

Cancel(p) ==
    /\ status[p] \in {"ACTIVE", "EXPIRED"}
    /\ status' = [status EXCEPT ![p] = "CANCELLED"]
    /\ StopRecurrence({p} \cup Descendants(p))
    /\ halted' = halted \cup {LastOf(p)}
    /\ UNCHANGED <<dates, business, sweep>>

\* configureRenewal with autoRenew; on a period that recurs it changes nothing.
EnableRenewal(p) ==
    /\ status[p] \in {"ACTIVE", "EXPIRED"}
    /\ ~recurs[p]
    /\ plan = "offered"
    /\ ~HasNewer(p)
    /\ recurs' = [recurs EXCEPT ![p] = TRUE]
    /\ next' = [next EXCEPT ![p] =
                  IF today \prec until[p] THEN until[p]
                  ELSE NextMonthlyDateAfter(today, anchor[p])]
    /\ halted' = halted \ {p}
    /\ UNCHANGED <<dates, status, business, sweep>>

DisableRenewal(p) ==
    /\ p \in Made
    /\ StopRecurrence({p} \cup Descendants(p))
    /\ halted' = halted \cup {LastOf(p)}
    /\ UNCHANGED <<dates, status, business, sweep>>

----
(* The hourly sweep of the worker *)

StartSweep ==
    /\ stage = "idle"
    /\ stage' = "expire"
    /\ sweepDay' = today
    /\ UNCHANGED <<periods, business, left, faults, halted>>

\* Mutant: a period expires on its last day.
ExpireMembershipsInclusive ==
    /\ stage = "expire"
    /\ stage' = "discover"
    /\ \E active \in BOOLEAN :
         /\ Eligible => active
         /\ status' = [p \in Period |->
                         IF active /\ status[p] = "ACTIVE"
                                   /\ until[p] \preceq Tomorrow(sweepDay)
                         THEN "EXPIRED" ELSE status[p]]
    /\ UNCHANGED <<dates, recurs, next, business, sweepDay, left, faults, halted>>

\* One UPDATE, over the branches that are active: when something is not active
\* it may be the branch.
ExpireMemberships ==
    /\ stage = "expire"
    /\ stage' = "discover"
    /\ \E active \in BOOLEAN :
         /\ Eligible => active
         /\ status' = [p \in Period |->
                         IF active /\ status[p] = "ACTIVE" /\ until[p] \preceq sweepDay
                         THEN "EXPIRED" ELSE status[p]]
    /\ UNCHANGED <<dates, recurs, next, business, sweepDay, left, faults, halted>>

\* Mutant: the expiration that ran first hides the periods to renew.
FindActiveCandidates ==
    /\ stage = "discover"
    /\ left' = {p \in Made : recurs[p] /\ status[p] = "ACTIVE"}
    /\ stage' = IF left' = {} THEN "idle" ELSE "renew"
    /\ UNCHANGED <<periods, business, sweepDay, faults, halted>>

FindCandidates ==
    /\ stage = "discover"
    /\ left' = {p \in Made : recurs[p]}
    /\ stage' = IF left' = {} THEN "idle" ELSE "renew"
    /\ UNCHANGED <<periods, business, sweepDay, faults, halted>>

\* The sweep goes on with the other candidates, or ends.
Settle(p) ==
    /\ stage = "renew"
    /\ p \in left
    /\ left' = left \ {p}
    /\ stage' = IF left' = {} THEN "idle" ELSE "renew"
    /\ UNCHANGED <<business, sweepDay>>

\* The worker drops a recurrence it cannot or must not continue.
StopRenewal(p) ==
    /\ Settle(p)
    /\ recurs[p]
    /\ ~Eligible \/ HasNewer(p) \/ status[p] = "CANCELLED"
    /\ StopRecurrence({p})
    /\ UNCHANGED <<dates, status, faults, halted>>

\* Stopped since the worker collected it, or not due on the day of the sweep
\* (or, a bound of the model, without a row left to insert).
SkipRenewal(p) ==
    /\ Settle(p)
    /\ recurs[p] =>
         /\ Eligible /\ ~HasNewer(p) /\ status[p] # "CANCELLED"
         /\ sweepDay \prec next[p] \/ Made = Period
    /\ UNCHANGED <<periods, faults, halted>>

\* Mutant: one period for each month that went by.
RenewMembershipBacklog(p, q) ==
    /\ Settle(p)
    /\ recurs[p]
    /\ plan = "offered"
    /\ ~HasNewer(p)
    /\ status[p] # "CANCELLED"
    /\ next[p] \preceq sweepDay
    /\ IsNext(q)
    /\ Succeed(p, q, next[p], "EXPIRED")
    /\ UNCHANGED faults

RenewMembership(p, q) ==
    /\ Settle(p)
    /\ recurs[p]
    /\ plan = "offered"
    /\ ~HasNewer(p)
    /\ status[p] # "CANCELLED"
    /\ next[p] \preceq sweepDay
    /\ IsNext(q)
    /\ Succeed(p, q, CurrentStart(next[p], anchor[p], sweepDay), "EXPIRED")
    /\ UNCHANGED faults

\* A renewal that is due throws while the plan has no price, in every sweep: it
\* is neither made nor dropped.
RefuseUnpriced(p) ==
    /\ Settle(p)
    /\ recurs[p]
    /\ plan = "free"
    /\ ~HasNewer(p)
    /\ status[p] # "CANCELLED"
    /\ next[p] \preceq sweepDay
    /\ UNCHANGED <<periods, faults, halted>>

\* The transaction of a candidate is rolled back: the next sweep tries again.
FailRenewal(p) ==
    /\ faults < MaxFaults
    /\ faults' = faults + 1
    /\ Settle(p)
    /\ UNCHANGED <<periods, halted>>

\* The worker dies in the middle of a sweep and starts again.
RestartWorker ==
    /\ stage # "idle"
    /\ faults < MaxFaults
    /\ faults' = faults + 1
    /\ stage' = "idle"
    /\ left' = {}
    /\ UNCHANGED <<periods, business, sweepDay, halted>>

----
(* What the operations depend on *)

NewDay ==
    /\ today \prec LastDay
    /\ today' = Tomorrow(today)
    /\ UNCHANGED <<periods, plan, sweep, halted>>

\* Member, plan or branch are deactivated, or active again; the price is edited.
ChangePlan ==
    /\ plan' \in Plans \ {plan}
    /\ UNCHANGED <<periods, today, sweep, halted>>

----

MembershipsInit ==
    /\ status = [p \in Period |-> "NONE"]
    /\ start = [p \in Period |-> NoDate]
    /\ until = [p \in Period |-> NoDate]
    /\ recurs = [p \in Period |-> FALSE]
    /\ next = [p \in Period |-> NoDate]
    /\ anchor = [p \in Period |-> 0]
    /\ parent = [p \in Period |-> 0]
    /\ today = FirstDay
    /\ plan = "offered"
    /\ stage = "idle"
    /\ sweepDay = FirstDay
    /\ left = {}
    /\ faults = 0
    /\ halted = {}

MembershipsNext ==
    \/ \E p \in Period, from \in StartDates, auto \in BOOLEAN : Create(p, from, auto)
    \/ \E p, q \in Period : Renew(p, q)
    \/ \E p \in Period : Cancel(p) \/ EnableRenewal(p) \/ DisableRenewal(p)
    \/ StartSweep
    \/ ExpireMemberships
    \/ FindCandidates
    \/ \E p \in Period :
          StopRenewal(p) \/ SkipRenewal(p) \/ RefuseUnpriced(p) \/ FailRenewal(p)
    \/ \E p, q \in Period : RenewMembership(p, q)
    \/ RestartWorker
    \/ NewDay
    \/ ChangePlan

MembershipsSpec == MembershipsInit /\ [][MembershipsNext]_membershipsVars

\* The timer of the worker fires every hour and a sweep that has begun goes on.
FairMembershipsSpec ==
    /\ MembershipsSpec
    /\ WF_membershipsVars(StartSweep)
    /\ WF_membershipsVars(ExpireMemberships)
    /\ WF_membershipsVars(FindCandidates)
    /\ WF_membershipsVars(
         \E p \in Period :
             \/ StopRenewal(p) \/ SkipRenewal(p) \/ RefuseUnpriced(p)
             \/ \E q \in Period : RenewMembership(p, q))

----
(* Properties *)

\* Types, and rows numbered in the order they are made.
MembershipsTypeOK ==
    /\ status \in [Period -> {"NONE", "ACTIVE", "EXPIRED", "CANCELLED"}]
    /\ start \in [Period -> Date \cup {NoDate}]
    /\ until \in [Period -> Date \cup {NoDate}]
    /\ recurs \in [Period -> BOOLEAN]
    /\ next \in [Period -> Date \cup {NoDate}]
    /\ anchor \in [Period -> Nat]
    /\ parent \in [Period -> 0..MaxPeriods]
    /\ \A p \in Period : recurs[p] <=> next[p] # NoDate
    /\ today \in Date
    /\ plan \in Plans
    /\ stage \in {"idle", "expire", "discover", "renew"}
    /\ sweepDay \in Date
    /\ left \subseteq Made
    /\ (stage = "renew") <=> (left # {})
    /\ faults \in 0..MaxFaults
    /\ halted \subseteq Made

\* Two periods that start on the same day.
Twin(p, q) == p # q /\ q \in Made /\ start[p] = start[q]

\* Only the member's last period recurs: no order of assignments, renewals by
\* the desk and by the worker, and changes of the recurrence leaves behind an
\* earlier period that would be renewed a second time.  Two periods that start
\* on the same day (the first one expired or cancelled when the second was
\* assigned) are the exception: either may be renewed while the other recurs.
RecurrenceIsLast ==
    \A p, q \in Made :
        recurs[p] => start[q] \preceq start[p] \/ \E r \in Period : Twin(p, r)

\* Nobody loses days that were charged: neither the expiration, which works
\* with the day its sweep began, nor a renewal closes a period that still runs.
ExpiredIsPast ==
    \A p \in Made : status[p] = "EXPIRED" => until[p] \preceq today

\* What recurs is the end of the chain, what expired is over.
PeriodsInOrder == RecurrenceIsLast /\ ExpiredIsPast

\* A renewed period starts on the day of the month of the first one, or on the
\* last day of a shorter month, whatever renewals and gaps lie between; and no
\* day is charged twice: it overlaps no other period (but a twin of the one it
\* renews), be they expired or cancelled: the constraint of the schema only
\* looks at active ones.
RenewalFits ==
    [][\A p, q \in Period :
         (q \notin Made /\ status'[q] # "NONE" /\ parent'[q] = p) =>
            /\ anchor'[q] = anchor[p]
            /\ start'[q] = AnchoredDate(start'[q][1], anchor[p])
            /\ \A r \in Made : ~Twin(p, r) =>
                  until[r] \preceq start'[q] \/ until'[q] \preceq start[r]]_membershipsVars

\* However long it was stopped, the worker makes no backlog: each period it
\* makes covers the day of its sweep.
WorkerChargesOnlyToday ==
    [][\A p \in left, q \in Period :
         (left' = left \ {p} /\ q \notin Made /\ status'[q] # "NONE") =>
            /\ start'[q] \preceq sweepDay
            /\ sweepDay \prec until'[q]]_membershipsVars

\* Once the desk has cancelled a period or switched its recurrence off, with an
\* id that may be older than what the worker made of it, no later sweep charges
\* another period of that chain, until the desk switches the recurrence of one
\* of them on again.
StopsAreHonoured ==
    [][\A p \in left, q \in Period :
         (left' = left \ {p} /\ q \notin Made /\ status'[q] # "NONE") =>
            p \notin halted]_membershipsVars

\* A recurrence that is due is renewed or dropped once its plan is not free
\* any more (its renewal fails in every sweep): no sweep is left stuck by a
\* constraint of the schema, a failure or a restart (while rows last).
DueRecurrenceSettles ==
    <>[](plan # "free") =>
        \A p \in Period :
            (recurs[p] /\ next[p] \preceq today) ~>
                (~recurs[p] \/ Made = Period)
====
