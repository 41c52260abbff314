----------------------------- MODULE AccessProofs -----------------------------
(***************************************************************************)
(* Theorems of Access, for every set of members, branches, checks, plans   *)
(* and hurdles, for every length of the week and for every bound.          *)
(*                                                                         *)
(* A check reads in three queries and records in a transaction of its own. *)
(* What it has read stays true, or what changed it is among `changed`; what*)
(* it counted is at least what counts when it records the entry.           *)
(***************************************************************************)
EXTENDS Access, SequenceTheorems, FiniteSetTheorems, TLAPS

\* Where a check has read the member, and where it has read the membership.
Knowing == {"membership", "attendance", "recording"}
Deciding == {"attendance", "recording"}

CallsKnowWho ==
    \A r \in Calls : at[r] \notin Over =>
        about[r].member \in Members /\ about[r].branch \in Branches

CallsKnowWhen ==
    \A r \in Calls : at[r] \in Knowing =>
        /\ about[r].today \in Day /\ about[r].today <= day
        /\ "day" \in changed[r] \/ about[r].today = day

CallsKnowHurdles ==
    \A r \in Calls : at[r] \in Knowing =>
        "member" \in changed[r] \/ about[r].barred = hurdles[about[r].member]

CallsKnowPeriod ==
    \A r \in Calls :
        /\ at[r] \in {"member", "membership"} => about[r].period = None
        /\ at[r] \in Deciding /\ about[r].period # None =>
              /\ about[r].period \in DOMAIN periods
              /\ periods[about[r].period].owner = about[r].member
              /\ "period" \in changed[r] \/ about[r].status = periods[about[r].period].status

CallsKnowEntry ==
    \A r \in Calls : at[r] = "recording" /\ about[r].entered =>
        \E a \in attended : /\ a.member = about[r].member
                            /\ a.branch = about[r].branch
                            /\ a.day = about[r].today

\* The other days of the week on which a member entered a branch in time.
OnTime(S, m, b, t) ==
    {a.day : a \in {x \in S : /\ x.member = m /\ x.branch = b /\ ~x.late
                              /\ WeekOf(x.day) = WeekOf(t) /\ x.day # t}}

\* While the day lasts, a check has counted all of them: an entry that another
\* check records meanwhile is of the same day, or late.
CallsKnowDays ==
    \A r \in Calls : at[r] = "recording" =>
        \/ "day" \in changed[r]
        \/ Cardinality(OnTime(attended, about[r].member, about[r].branch, about[r].today))
               <= about[r].days

\* No entry is of a day to come, and each is on a membership of its member.
EntriesOK ==
    /\ IsFiniteSet(attended)
    /\ \A a \in attended :
          /\ a.day <= day
          /\ a.period \in DOMAIN periods
          /\ a.member = periods[a.period].owner

\* The inductive invariant.
IInv ==
    /\ TypeOK
    /\ CallsKnowWho
    /\ CallsKnowWhen
    /\ CallsKnowHurdles
    /\ CallsKnowPeriod
    /\ CallsKnowEntry
    /\ CallsKnowDays
    /\ EntriesOK
    /\ ClassesAddUp
    /\ WeeklyLimitHolds

-----------------------------------------------------------------------------
(* The constants.                                                          *)

LEMMA Constants ==
    /\ MaxPeriods \in Nat /\ LastDay \in Nat \ {0} /\ DaysPerWeek \in Nat \ {0}
    /\ Plans \subseteq [classes : Nat, days : Nat, limit : Nat, branches : SUBSET Branches]
    /\ Visitors \subseteq Members
    /\ Hurdles \subseteq {"MEMBER_INACTIVE", "DEBT_BLOCKED", "MEDICAL_CLEARANCE_EXPIRED"}
    /\ Starts \subseteq Int
    /\ None \notin Members /\ None \notin Period
BY AccessAssumption

\* A day of a week is not before the Monday of that week.
LEMMA FromMonday ==
    ASSUME NEW d \in Day, NEW t \in Day, WeekOf(d) = WeekOf(t)
    PROVE  d >= Monday(t)
<1>1. DaysPerWeek \in Nat \ {0} /\ d \in Nat \ {0} /\ t \in Nat \ {0}
  BY Constants DEF Day
<1>2. (d - 1) \div DaysPerWeek = (t - 1) \div DaysPerWeek
  BY DEF WeekOf
<1> QED
  BY <1>1, <1>2 DEF Monday

-----------------------------------------------------------------------------
(* What a step may do.                                                     *)

\* The check r goes on to a step with what it knows, or ends.
Moves(r, step, what) ==
    /\ at' = [at EXCEPT ![r] = step]
    /\ about' = [about EXCEPT ![r] = what]

Answers(r) ==
    /\ \E outcome \in Over : Moves(r, outcome, Nothing)
    /\ changed' = [changed EXCEPT ![r] = {}]
    /\ UNCHANGED <<day, deskVars, recordVars>>

Begins(r) ==
    /\ at[r] \in Over
    /\ \E b \in Branches, m \in Members :
          Moves(r, "member", [Nothing EXCEPT !.branch = b, !.member = m])
    /\ UNCHANGED <<day, deskVars, recordVars, changed>>

LEMMA StepKinds ==
    ASSUME Next
    PROVE  \/ \E m \in Members, S \in SUBSET Hurdles : SetHurdles(m, S)
           \/ \E m \in Members, plan \in Plans, start \in Int : Assign(m, plan, start)
           \/ \E p \in DOMAIN periods, s \in Statuses : SetStatus(p, s)
           \/ Midnight
           \/ \E r \in Calls : Begins(r)
           \/ \E r \in Calls : Answers(r)
           \/ \E r \in Calls : ReadMember(r)
           \/ \E r \in Calls : ReadMembership(r)
           \/ \E r \in Calls : ReadAttendance(r)
           \/ \E r \in Calls : Enter(r)
<1>1. ASSUME NEW m \in Visitors, NEW S \in SUBSET Hurdles, SetHurdles(m, S)
      PROVE  \E x \in Members, T \in SUBSET Hurdles : SetHurdles(x, T)
  BY <1>1, Constants
<1>2. ASSUME NEW m \in Visitors, NEW plan \in Plans, NEW start \in Starts, Assign(m, plan, start)
      PROVE  \E x \in Members, y \in Plans, z \in Int : Assign(x, y, z)
  BY <1>2, Constants
<1>3. ASSUME NEW p \in DOMAIN periods, Cancel(p) \/ Expire(p)
      PROVE  \E q \in DOMAIN periods, s \in Statuses : SetStatus(q, s)
  BY <1>3 DEF Cancel, Expire, Statuses
<1>4. ASSUME NEW r \in Calls, NEW b \in Branches, Probe(r, b)
      PROVE  Begins(r)
  BY <1>4, Constants DEF Probe, Note, Begins, Moves
<1>5. ASSUME NEW r \in Calls, NEW b \in Branches, NEW m \in Visitors, Check(r, b, m)
      PROVE  Begins(r)
  BY <1>5, Constants DEF Check, Note, Begins, Moves
<1>6. ASSUME NEW r \in Calls, NEW o \in Over, Answer(r, o), UNCHANGED <<day, deskVars, recordVars>>
      PROVE  Answers(r)
  BY <1>6 DEF Answer, Answers, Moves
<1>7. ASSUME NEW r \in Calls, NEW b \in Branches, ProbeOfNobody(r, b)
      PROVE  Answers(r)
  BY <1>6, <1>7 DEF ProbeOfNobody, Over
<1>8. ASSUME NEW r \in Calls, Refuse(r)
      PROVE  Answers(r)
  BY <1>6, <1>8 DEF Refuse, Over
<1>9. ASSUME NEW r \in Calls, EnterAgain(r) \/ EnterWithoutClass(r)
      PROVE  Answers(r)
  BY <1>6, <1>9 DEF EnterAgain, EnterWithoutClass, Over
<1> QED
  BY <1>1, <1>2, <1>3, <1>4, <1>5, <1>7, <1>8, <1>9 DEF Next

-----------------------------------------------------------------------------
(* Types.                                                                  *)

LEMMA NothingType == Nothing \in Read
BY Constants DEF Nothing, Read, Day

\* What a step does to the rows, the calls and what they know.
LEMMA Shapes ==
    ASSUME TypeOK
    PROVE  /\ DOMAIN periods = 1..Len(periods) /\ DOMAIN left = DOMAIN periods
           /\ Len(periods) \in Nat
           /\ \A p \in DOMAIN periods :
                 /\ periods[p] \in Row /\ left[p] \in Nat /\ p \in Period
                 /\ periods[p].plan.classes \in Nat /\ periods[p].plan.limit \in Nat
                 /\ periods[p].owner \in Members
           /\ \A r \in Calls : about[r] \in Read
<1>1. periods \in Seq(Row) /\ left \in Seq(Nat) /\ Len(left) = Len(periods)
      /\ Len(periods) <= MaxPeriods /\ MaxPeriods \in Nat
  BY Constants DEF TypeOK
<1>2. DOMAIN periods = 1..Len(periods) /\ DOMAIN left = DOMAIN periods /\ Len(periods) \in Nat
  BY <1>1
<1>3. \A p \in DOMAIN periods : periods[p] \in Row /\ left[p] \in Nat /\ p \in Period
  BY <1>1, <1>2 DEF Period
<1>4. \A x \in Row : x.plan.classes \in Nat /\ x.plan.limit \in Nat /\ x.owner \in Members
  BY Constants DEF Row
<1> QED
  BY <1>2, <1>3, <1>4 DEF TypeOK

LEMMA AssignFacts ==
    ASSUME TypeOK, NEW m \in Members, NEW plan \in Plans, NEW start \in Int,
           Assign(m, plan, start)
    PROVE  /\ periods' \in Seq(Row) /\ left' \in Seq(Nat)
           /\ Len(periods') = Len(periods) + 1 /\ Len(left') = Len(periods')
           /\ DOMAIN periods' = 1..(Len(periods) + 1)
           /\ \A p \in DOMAIN periods : periods'[p] = periods[p] /\ left'[p] = left[p]
           /\ periods'[Len(periods) + 1].plan = plan
           /\ periods'[Len(periods) + 1].owner = m
           /\ left'[Len(periods) + 1] = plan.classes
<1>1. PICK row : row = [owner |-> m, plan |-> plan, start |-> start, status |-> "ACTIVE",
                        end |-> IF plan.days = 0 THEN 0 ELSE start + plan.days - 1]
  OBVIOUS
<1>2. plan.classes \in Nat /\ plan.days \in Nat
  BY Constants
<1>3. row \in Row /\ row.plan = plan /\ row.owner = m
  <2>1. (IF plan.days = 0 THEN 0 ELSE start + plan.days - 1) \in Int
    BY <1>2
  <2> QED
    BY <1>1, <2>1 DEF Row, Statuses
<1>4. periods' = Append(periods, row) /\ left' = Append(left, plan.classes)
  BY <1>1 DEF Assign
<1>5. periods \in Seq(Row) /\ left \in Seq(Nat) /\ Len(left) = Len(periods)
  BY DEF TypeOK
<1> QED
  BY <1>2, <1>3, <1>4, <1>5

LEMMA SetStatusFacts ==
    ASSUME TypeOK, NEW p \in DOMAIN periods, NEW s \in Statuses, SetStatus(p, s)
    PROVE  /\ periods' \in Seq(Row) /\ Len(periods') = Len(periods)
           /\ DOMAIN periods' = DOMAIN periods
           /\ \A q \in DOMAIN periods : /\ periods'[q].plan = periods[q].plan
                                        /\ periods'[q].owner = periods[q].owner
           /\ \A q \in DOMAIN periods \ {p} : periods'[q] = periods[q]
           /\ left' = left
<1>1. periods \in Seq(Row) /\ periods[p] \in Row
  BY Shapes DEF TypeOK
<1>2. PICK row : row = [periods[p] EXCEPT !.status = s]
  OBVIOUS
<1>3. row \in Row /\ row.plan = periods[p].plan /\ row.owner = periods[p].owner
  BY <1>1, <1>2 DEF Row
<1>4. periods' = [periods EXCEPT ![p] = row] /\ left' = left
  BY <1>2 DEF SetStatus, recordVars
<1> QED
  BY <1>1, <1>3, <1>4

LEMMA EnterFacts ==
    ASSUME TypeOK, NEW r \in Calls, Enter(r)
    PROVE  /\ at[r] = "recording" /\ Verdict(about[r]) = "OK"
           /\ ~Twice(r)
           /\ attended' = attended \cup {Entry(r)}
           /\ periods' = periods /\ hurdles' = hurdles /\ day' = day
           /\ left' \in Seq(Nat) \/ about[r].period \notin DOMAIN periods
           /\ Moves(r, "entered", Nothing)
           /\ changed' = [changed EXCEPT ![r] = {}]
           /\ about[r].period \in DOMAIN periods =>
                 /\ Len(left') = Len(left)
                 /\ \A p \in DOMAIN periods \ {about[r].period} : left'[p] = left[p]
                 /\ Pack(about[r].period) =>
                       /\ left[about[r].period] > 0
                       /\ left'[about[r].period] = left[about[r].period] - 1
                 /\ ~Pack(about[r].period) => left' = left
<1>1. /\ at[r] = "recording" /\ Verdict(about[r]) = "OK" /\ ~Twice(r)
      /\ attended' = attended \cup {Entry(r)}
      /\ periods' = periods /\ hurdles' = hurdles /\ day' = day
      /\ Moves(r, "entered", Nothing) /\ changed' = [changed EXCEPT ![r] = {}]
  BY DEF Enter, Answer, Moves, deskVars
<1>2. ASSUME about[r].period \in DOMAIN periods
      PROVE  /\ left' \in Seq(Nat) /\ Len(left') = Len(left)
             /\ \A p \in DOMAIN periods \ {about[r].period} : left'[p] = left[p]
             /\ Pack(about[r].period) =>
                   /\ left[about[r].period] > 0
                   /\ left'[about[r].period] = left[about[r].period] - 1
             /\ ~Pack(about[r].period) => left' = left
  <2>1. PICK p : p = about[r].period
    OBVIOUS
  <2>2. left \in Seq(Nat) /\ p \in DOMAIN left /\ DOMAIN left = DOMAIN periods
    BY <1>2, <2>1, Shapes DEF TypeOK
  <2>3. Pack(p) => left[p] > 0 /\ left' = [left EXCEPT ![p] = left[p] - 1]
    BY <2>1 DEF Enter, TakeClass
  <2>4. ~Pack(p) => left' = left
    BY <2>1 DEF Enter, TakeClass
  <2> QED
    BY <2>1, <2>2, <2>3, <2>4
<1> QED
  BY <1>1, <1>2

\* A step about a member disturbs the checks about it and no other.
LEMMA Disturbed ==
    ASSUME TypeOK, NEW what \in {"member", "period", "day"}, NEW m, Disturb(what, m)
    PROVE  /\ changed' \in [Calls -> SUBSET {"member", "period", "day"}]
           /\ \A r \in Calls : changed[r] \subseteq changed'[r]
           /\ \A r \in Calls : at[r] \notin Over /\ about[r].member = m => what \in changed'[r]
           /\ \A r \in Calls : changed'[r] \subseteq changed[r] \cup {what}
BY DEF TypeOK, Disturb

LEMMA MovesType ==
    ASSUME TypeOK, NEW r \in Calls, NEW step \in Stages, NEW what \in Read, Moves(r, step, what)
    PROVE  /\ at' \in [Calls -> Stages] /\ about' \in [Calls -> Read]
           /\ at'[r] = step /\ about'[r] = what
           /\ \A q \in Calls \ {r} : at'[q] = at[q] /\ about'[q] = about[q]
BY DEF TypeOK, Moves

-----------------------------------------------------------------------------
(* The decision.                                                           *)

\* The first condition that applies decides.
LEMMA VerdictIs ==
    ASSUME NEW c
    PROVE  \E i \in 1..10 : /\ Verdict(c) = Order[i]
                            /\ Applies(Order[i], c)
                            /\ \A j \in 1..(i - 1) : ~Applies(Order[j], c)
<1>1. DOMAIN Order = 1..10
  BY DEF Order
<1>2. Applies(Order[10], c)
  BY DEF Applies, Order
<1>3. PICK P : P = {i \in 1..10 : Applies(Order[i], c)}
  OBVIOUS
<1>4. \E i \in P : \A j \in 1..(i - 1) : j \notin P
  <2>1. 10 \in P /\ \A i \in P : i \in 1..10
    BY <1>2, <1>3
  <2>2. CASE 1 \in P \/ 2 \in P \/ 3 \in P \/ 4 \in P \/ 5 \in P
    BY <2>2
  <2>3. CASE ~(1 \in P \/ 2 \in P \/ 3 \in P \/ 4 \in P \/ 5 \in P)
    BY <2>1, <2>3
  <2> QED
    BY <2>2, <2>3
<1>5. \E i \in DOMAIN Order : Applies(Order[i], c) /\ \A j \in 1..(i - 1) : ~Applies(Order[j], c)
  BY <1>1, <1>3, <1>4
<1>6. PICK i : i = CHOOSE x \in DOMAIN Order :
                       Applies(Order[x], c) /\ \A j \in 1..(x - 1) : ~Applies(Order[j], c)
  OBVIOUS
<1>7. i \in DOMAIN Order /\ Applies(Order[i], c) /\ \A j \in 1..(i - 1) : ~Applies(Order[j], c)
  BY <1>5, <1>6
<1>8. Verdict(c) = Order[i]
  BY <1>6 DEF Verdict
<1> QED
  BY <1>1, <1>7, <1>8

\* Who may enter has a membership that is in force, nothing that bars, and days
\* left of the week.
LEMMA OkMeans ==
    ASSUME NEW c, Verdict(c) = "OK"
    PROVE  /\ c.period # None
           /\ c.status = "ACTIVE"
           /\ periods[c.period].end = 0 \/ ~(periods[c.period].end < c.today)
           /\ \A h \in {"MEMBER_INACTIVE", "DEBT_BLOCKED", "MEDICAL_CLEARANCE_EXPIRED"} :
                 h \notin c.barred
           /\ ~(periods[c.period].plan.limit > 0 /\ c.days >= periods[c.period].plan.limit)
<1>1. PICK i \in 1..10 : /\ Verdict(c) = Order[i]
                         /\ \A j \in 1..(i - 1) : ~Applies(Order[j], c)
  BY VerdictIs
<1>2. i = 10
  BY <1>1 DEF Order
<1>3. \A j \in 1..9 : ~Applies(Order[j], c)
  BY <1>1, <1>2
<1>4. /\ ~Applies("MEMBER_INACTIVE", c) /\ ~Applies("NO_MEMBERSHIP", c)
      /\ ~Applies("MEMBERSHIP_EXPIRED", c) /\ ~Applies("DEBT_BLOCKED", c)
      /\ ~Applies("WEEKLY_LIMIT_REACHED", c) /\ ~Applies("MEDICAL_CLEARANCE_EXPIRED", c)
  BY <1>3 DEF Order
<1> QED
  BY <1>4 DEF Applies

\* Who is told to have entered has been found among the attendances.
LEMMA AgainMeans ==
    ASSUME NEW c, Verdict(c) = "DUPLICATE_WINDOW"
    PROVE  c.entered
<1>1. PICK i \in 1..10 : Verdict(c) = Order[i] /\ Applies(Order[i], c)
  BY VerdictIs
<1>2. Applies("DUPLICATE_WINDOW", c)
  BY <1>1
<1> QED
  BY <1>2 DEF Applies

\* What is recorded is an entry of the member, on a membership of theirs.
LEMMA EntryFacts ==
    ASSUME IInv, NEW r \in Calls, Enter(r)
    PROVE  /\ Entry(r) \in Attendance /\ Entry(r) \notin attended
           /\ about[r].period \in DOMAIN periods
           /\ periods[about[r].period].owner = about[r].member
           /\ about[r].today \in Day /\ about[r].today <= day
           /\ Entry(r).member = about[r].member /\ Entry(r).branch = about[r].branch
           /\ Entry(r).day = about[r].today /\ Entry(r).period = about[r].period
           /\ Entry(r).late <=> "day" \in changed[r]
<1>1. TypeOK /\ CallsKnowWho /\ CallsKnowWhen /\ CallsKnowPeriod
  BY DEF IInv
<1>2. at[r] = "recording" /\ Verdict(about[r]) = "OK" /\ ~Twice(r)
  BY <1>1, EnterFacts
<1>3. /\ about[r].period \in DOMAIN periods
      /\ periods[about[r].period].owner = about[r].member
  BY <1>1, <1>2, OkMeans DEF CallsKnowPeriod, Deciding
<1>4. about[r].today \in Day /\ about[r].today <= day
  BY <1>1, <1>2 DEF CallsKnowWhen, Knowing
<1>5. about[r].member \in Members /\ about[r].branch \in Branches
  BY <1>1, <1>2 DEF CallsKnowWho, Over
<1>6. about[r].period \in Period
  BY <1>1, <1>3, Shapes
<1>7. /\ Entry(r) \in Attendance
      /\ Entry(r).member = about[r].member /\ Entry(r).branch = about[r].branch
      /\ Entry(r).day = about[r].today /\ Entry(r).period = about[r].period
      /\ Entry(r).late <=> "day" \in changed[r]
  <2>1. CASE "day" \in changed[r]
    <3>1. Entry(r) = [member |-> about[r].member, branch |-> about[r].branch,
                      day |-> about[r].today, period |-> about[r].period, late |-> TRUE]
      BY <2>1 DEF Entry
    <3> QED
      BY <1>4, <1>5, <1>6, <2>1, <3>1 DEF Attendance
  <2>2. CASE "day" \notin changed[r]
    <3>1. Entry(r) = [member |-> about[r].member, branch |-> about[r].branch,
                      day |-> about[r].today, period |-> about[r].period, late |-> FALSE]
      <4>1. ("day" \in changed[r]) = FALSE
        BY <2>2
      <4> QED
        BY <4>1 DEF Entry
    <3> QED
      BY <1>4, <1>5, <1>6, <2>2, <3>1 DEF Attendance
  <2> QED
    BY <2>1, <2>2
<1>8. Entry(r) \notin attended
  BY <1>2, <1>7 DEF Twice
<1> QED
  BY <1>3, <1>4, <1>7, <1>8

-----------------------------------------------------------------------------
(* The invariant, part by part.                                            *)

LEMMA TypeStep ==
    ASSUME IInv, [Next]_vars
    PROVE  TypeOK'
<1> USE DEF TypeOK
<1>1. TypeOK
  BY DEF IInv
<1>2. CASE UNCHANGED vars
  BY <1>1, <1>2 DEF vars, deskVars, recordVars, callVars
<1>3. ASSUME NEW m \in Members, NEW S \in SUBSET Hurdles, SetHurdles(m, S)
      PROVE  TypeOK'
  <2>1. changed' \in [Calls -> SUBSET {"member", "period", "day"}]
    BY <1>1, <1>3, Disturbed DEF SetHurdles
  <2> QED
    BY <1>1, <1>3, <2>1 DEF SetHurdles, recordVars, callVars
<1>4. ASSUME NEW m \in Members, NEW plan \in Plans, NEW start \in Int, Assign(m, plan, start)
      PROVE  TypeOK'
  <2>1. changed' \in [Calls -> SUBSET {"member", "period", "day"}]
    BY <1>1, <1>4, Disturbed DEF Assign
  <2>2. periods' \in Seq(Row) /\ left' \in Seq(Nat) /\ Len(left') = Len(periods')
        /\ Len(periods') = Len(periods) + 1 /\ Len(periods) < MaxPeriods
    BY <1>1, <1>4, AssignFacts DEF Assign
  <2>3. \A p \in DOMAIN periods' : left'[p] <= periods'[p].plan.classes
    <3>1. plan.classes \in Nat
      BY Constants
    <3>2. PICK n : n = Len(periods) + 1
      OBVIOUS
    <3>3. \A p \in DOMAIN periods' : p \in DOMAIN periods \/ p = n
      BY <1>1, <1>4, <3>2, AssignFacts, Shapes
    <3>4. left'[n] <= periods'[n].plan.classes
      BY <1>1, <1>4, <3>1, <3>2, AssignFacts
    <3>5. \A p \in DOMAIN periods : left'[p] <= periods'[p].plan.classes
      BY <1>1, <1>4, AssignFacts
    <3> QED
      BY <3>3, <3>4, <3>5
  <2>4. Len(periods') <= MaxPeriods
    BY <1>1, <2>2, Constants
  <2> QED
    BY <1>1, <1>4, <2>1, <2>2, <2>3, <2>4 DEF Assign, callVars
<1>5. ASSUME NEW p \in DOMAIN periods, NEW s \in Statuses, SetStatus(p, s)
      PROVE  TypeOK'
  <2>1. changed' \in [Calls -> SUBSET {"member", "period", "day"}]
    BY <1>1, <1>5, Disturbed DEF SetStatus
  <2>2. /\ periods' \in Seq(Row) /\ Len(periods') = Len(periods)
        /\ \A q \in DOMAIN periods' : left'[q] <= periods'[q].plan.classes
    BY <1>1, <1>5, SetStatusFacts
  <2> QED
    BY <1>1, <1>5, <2>1, <2>2 DEF SetStatus, recordVars, callVars
<1>6. CASE Midnight
  <2>1. changed' \in [Calls -> SUBSET {"member", "period", "day"}]
    BY <1>1, <1>6 DEF Midnight
  <2>2. day' \in Day
    BY <1>1, <1>6, Constants DEF Midnight, Day
  <2> QED
    BY <1>1, <1>6, <2>1, <2>2 DEF Midnight, deskVars, recordVars, callVars
<1>7. ASSUME NEW r \in Calls, NEW step \in Stages, NEW what \in Read, Moves(r, step, what),
             changed' = changed \/ changed' = [changed EXCEPT ![r] = {}],
             UNCHANGED <<day, deskVars, recordVars>>
      PROVE  TypeOK'
  <2>1. at' \in [Calls -> Stages] /\ about' \in [Calls -> Read]
    BY <1>1, <1>7, MovesType
  <2> QED
    BY <1>1, <1>7, <2>1 DEF deskVars, recordVars
<1>8. ASSUME NEW r \in Calls, Begins(r)
      PROVE  TypeOK'
  <2>1. PICK b \in Branches, m \in Members :
           Moves(r, "member", [Nothing EXCEPT !.branch = b, !.member = m])
    BY <1>8 DEF Begins
  <2>2. [Nothing EXCEPT !.branch = b, !.member = m] \in Read
    BY NothingType DEF Read
  <2> QED
    BY <1>7, <1>8, <2>1, <2>2 DEF Begins, Stages
<1>9. ASSUME NEW r \in Calls, Answers(r)
      PROVE  TypeOK'
  BY <1>7, <1>9, NothingType DEF Answers, Stages
<1>10. ASSUME NEW r \in Calls, ReadMember(r)
       PROVE  TypeOK'
  <2>1. PICK what : what = [about[r] EXCEPT !.today = day, !.barred = hurdles[about[r].member]]
    OBVIOUS
  <2>2. at[r] = "member" /\ Moves(r, "membership", what)
        /\ changed' = [changed EXCEPT ![r] = {}] /\ UNCHANGED <<day, deskVars, recordVars>>
    BY <1>10, <2>1 DEF ReadMember, Note, Moves
  <2>3. what \in Read
    <3>1. about[r] \in Read /\ about[r].member \in Members
      BY <1>1, <2>2, Shapes DEF IInv, CallsKnowWho, Over
    <3>2. day \in 0..LastDay /\ hurdles[about[r].member] \in SUBSET Hurdles
      BY <1>1, <3>1, Constants DEF Day
    <3> QED
      BY <2>1, <3>1, <3>2 DEF Read
  <2> QED
    BY <1>7, <2>2, <2>3 DEF Stages
<1>11. ASSUME NEW r \in Calls, ReadMembership(r)
       PROVE  TypeOK'
  <2>1. about[r] \in Read
    BY <1>1, Shapes
  <2>2. CASE Note(r, "attendance", about[r])
    BY <1>7, <1>11, <2>1, <2>2 DEF ReadMembership, Note, Moves, Stages
  <2>3. ASSUME NEW p \in Latest(about[r].member),
               Note(r, "attendance", [about[r] EXCEPT !.period = p, !.status = periods[p].status,
                                                      !.classes = left[p]])
        PROVE  TypeOK'
    <3>1. p \in DOMAIN periods
      BY DEF Latest, Candidates
    <3>2. p \in Period /\ periods[p].status \in Statuses /\ left[p] \in Nat
      BY <1>1, <3>1, Shapes DEF Row
    <3>3. [about[r] EXCEPT !.period = p, !.status = periods[p].status, !.classes = left[p]] \in Read
      BY <2>1, <3>2 DEF Read
    <3> QED
      BY <1>7, <1>11, <2>3, <3>3 DEF ReadMembership, Note, Moves, Stages
  <2> QED
    BY <1>11, <2>2, <2>3 DEF ReadMembership
<1>12. ASSUME NEW r \in Calls, ReadAttendance(r)
       PROVE  TypeOK'
  <2>1. PICK here, n, e, what :
           /\ here = {a.day : a \in {x \in attended : x.member = about[r].member
                                                      /\ x.branch = about[r].branch}}
           /\ n = Cardinality({d \in here : d # about[r].today /\ d >= Monday(about[r].today)})
           /\ e = (about[r].today \in here)
           /\ what = [about[r] EXCEPT !.entered = e, !.days = n]
    OBVIOUS
  <2>2. Moves(r, "recording", what) /\ UNCHANGED <<day, deskVars, recordVars, changed>>
    BY <1>12, <2>1 DEF ReadAttendance, Note, Moves
  <2>3. n \in Nat /\ e \in BOOLEAN
    <3>1. PICK D : D = {d \in here : d # about[r].today /\ d >= Monday(about[r].today)}
      OBVIOUS
    <3>2. D \subseteq 1..LastDay
      BY <1>1, <2>1, <3>1 DEF Attendance, Day
    <3>3. IsFiniteSet(D)
      <4>1. IsFiniteSet(1..LastDay)
        BY Constants, FS_Interval
      <4> QED
        BY <3>2, <4>1, FS_Subset
    <3>4. Cardinality(D) \in Nat
      BY <3>3, FS_CardinalityType
    <3> QED
      BY <2>1, <3>1, <3>4
  <2>4. what \in Read
    <3>1. about[r] \in Read
      BY <1>1, Shapes
    <3>2. PICK c : c = about[r]
      OBVIOUS
    <3>3. c \in Read /\ what = [c EXCEPT !.entered = e, !.days = n]
      BY <2>1, <3>1, <3>2
    <3> QED
      BY <2>3, <3>3 DEF Read
  <2> QED
    BY <1>7, <2>2, <2>4 DEF Stages
<1>13. ASSUME NEW r \in Calls, Enter(r)
       PROVE  TypeOK'
  <2>1. at' \in [Calls -> Stages] /\ about' \in [Calls -> Read]
    BY <1>1, <1>13, EnterFacts, NothingType, MovesType DEF Stages, Over
  <2>2. about[r].period \in DOMAIN periods /\ Entry(r) \in Attendance
    BY <1>13, EntryFacts
  <2>3. left' \in Seq(Nat) /\ Len(left') = Len(left)
    BY <1>1, <1>13, <2>2, EnterFacts
  <2>4. \A p \in DOMAIN periods : left'[p] <= periods[p].plan.classes
    <3>1. PICK p : p = about[r].period
      OBVIOUS
    <3>2. \A q \in DOMAIN periods \ {p} : left'[q] = left[q]
      BY <1>1, <1>13, <2>2, <3>1, EnterFacts
    <3>3. left'[p] = left[p] - 1 \/ left'[p] = left[p]
      BY <1>1, <1>13, <2>2, <3>1, EnterFacts
    <3>4. p \in DOMAIN periods
      BY <2>2, <3>1
    <3>5. left[p] \in Nat /\ periods[p].plan.classes \in Nat
      BY <1>1, <3>4, Shapes
    <3>6. \A q \in DOMAIN periods : left[q] <= periods[q].plan.classes
      BY <1>1
    <3>7. left'[p] <= periods[p].plan.classes
      BY <3>3, <3>4, <3>5, <3>6
    <3> QED
      BY <3>2, <3>6, <3>7
  <2>5. attended' \subseteq Attendance
    BY <1>1, <1>13, <2>2, EnterFacts
  <2>6. changed' \in [Calls -> SUBSET {"member", "period", "day"}]
        /\ periods' = periods /\ hurdles' = hurdles /\ day' = day
    BY <1>1, <1>13, EnterFacts
  <2> QED
    BY <1>1, <2>1, <2>3, <2>4, <2>5, <2>6
<1> QED
  BY <1>2, <1>3, <1>4, <1>5, <1>6, <1>8, <1>9, <1>10, <1>11, <1>12, <1>13, StepKinds

\* A check waits, ends, begins or reads.
Waits(q) ==
    /\ at'[q] = at[q] /\ about'[q] = about[q]
    /\ at[q] \notin Over => changed[q] \subseteq changed'[q]

Restarts(q) ==
    /\ at'[q] = "member"
    /\ about'[q].member \in Members /\ about'[q].branch \in Branches
    /\ about'[q].period = None

LEMMA CallSteps ==
    ASSUME IInv, [Next]_vars, NEW q \in Calls
    PROVE  \/ Waits(q) \/ at'[q] \in Over \/ Restarts(q)
           \/ ReadMember(q) \/ ReadMembership(q) \/ ReadAttendance(q)
<1>1. TypeOK
  BY DEF IInv
<1>2. CASE UNCHANGED vars
  BY <1>2 DEF vars, callVars, Waits
<1>3. ASSUME at' = at, about' = about, \A r \in Calls : changed[r] \subseteq changed'[r]
      PROVE  Waits(q)
  BY <1>3 DEF Waits
<1>4. ASSUME NEW m \in Members, NEW S \in SUBSET Hurdles, SetHurdles(m, S)
      PROVE  Waits(q)
  BY <1>1, <1>3, <1>4, Disturbed DEF SetHurdles, callVars
<1>5. ASSUME NEW m \in Members, NEW plan \in Plans, NEW start \in Int, Assign(m, plan, start)
      PROVE  Waits(q)
  BY <1>1, <1>3, <1>5, Disturbed DEF Assign, callVars
<1>6. ASSUME NEW p \in DOMAIN periods, NEW s \in Statuses, SetStatus(p, s)
      PROVE  Waits(q)
  BY <1>1, <1>3, <1>6, Disturbed DEF SetStatus, callVars
<1>7. CASE Midnight
  BY <1>7 DEF Midnight, callVars, Waits
<1>8. ASSUME NEW r \in Calls, \E step, what : Moves(r, step, what),
             changed' = changed \/ changed' = [changed EXCEPT ![r] = {}], r # q
      PROVE  Waits(q)
  <2>1. at'[q] = at[q] /\ about'[q] = about[q] /\ changed'[q] = changed[q]
    BY <1>1, <1>8 DEF TypeOK, Moves
  <2> QED
    BY <2>1 DEF Waits
<1>9. ASSUME NEW r \in Calls, Begins(r)
       PROVE  Waits(q) \/ Restarts(q)
  <2>1. PICK b \in Branches, m \in Members :
           Moves(r, "member", [Nothing EXCEPT !.branch = b, !.member = m])
    BY <1>9 DEF Begins
  <2>2. CASE r # q
    BY <1>8, <1>9, <2>1, <2>2 DEF Begins
  <2>3. CASE r = q
    <3>1. at'[q] = "member" /\ about'[q] = [Nothing EXCEPT !.branch = b, !.member = m]
      BY <1>1, <2>1, <2>3 DEF Moves, TypeOK
    <3> QED
      BY <3>1 DEF Restarts, Nothing
  <2> QED
    BY <2>2, <2>3
<1>10. ASSUME NEW r \in Calls, Answers(r)
       PROVE  Waits(q) \/ at'[q] \in Over
  <2>1. PICK o \in Over : Moves(r, o, Nothing)
    BY <1>10 DEF Answers
  <2>2. CASE r # q
    BY <1>8, <1>10, <2>1, <2>2 DEF Answers
  <2>3. CASE r = q
    BY <1>1, <2>1, <2>3 DEF Moves, TypeOK
  <2> QED
    BY <2>2, <2>3
<1>11. ASSUME NEW r \in Calls, ReadMember(r), r # q
       PROVE  Waits(q)
  BY <1>8, <1>11 DEF ReadMember, Note, Moves
<1>12. ASSUME NEW r \in Calls, ReadMembership(r), r # q
       PROVE  Waits(q)
  BY <1>8, <1>12 DEF ReadMembership, Note, Moves
<1>13. ASSUME NEW r \in Calls, ReadAttendance(r), r # q
       PROVE  Waits(q)
  BY <1>8, <1>13 DEF ReadAttendance, Note, Moves
<1>14. ASSUME NEW r \in Calls, Enter(r)
       PROVE  Waits(q) \/ at'[q] \in Over
  <2>1. Moves(r, "entered", Nothing) /\ changed' = [changed EXCEPT ![r] = {}]
    BY <1>1, <1>14, EnterFacts
  <2>2. CASE r # q
    BY <1>8, <2>1, <2>2
  <2>3. CASE r = q
    BY <1>1, <2>1, <2>3 DEF Moves, TypeOK, Over
  <2> QED
    BY <2>2, <2>3
<1> QED
  BY <1>2, <1>4, <1>5, <1>6, <1>7, <1>9, <1>10, <1>11, <1>12, <1>13, <1>14, StepKinds

\* What the checks read changes only under their eyes.
LEMMA Seen ==
    ASSUME IInv, [Next]_vars
    PROVE  /\ day <= day' /\ day \in Int /\ day' \in Int
           /\ \A q \in Calls : at[q] \notin Over => day' = day \/ "day" \in changed'[q]
           /\ \A q \in Calls : at[q] \notin Over =>
                 \/ hurdles'[about[q].member] = hurdles[about[q].member]
                 \/ "member" \in changed'[q]
           /\ DOMAIN periods \subseteq DOMAIN periods'
           /\ \A p \in DOMAIN periods : /\ periods'[p].owner = periods[p].owner
                                        /\ periods'[p].plan = periods[p].plan
           /\ \A q \in Calls, p \in DOMAIN periods :
                 at[q] \notin Over /\ about[q].member = periods[p].owner =>
                     periods'[p].status = periods[p].status \/ "period" \in changed'[q]
<1>1. TypeOK /\ day \in Int
  BY DEF IInv, TypeOK, Day
<1>2. CASE UNCHANGED <<day, deskVars>>
  BY <1>1, <1>2 DEF deskVars
<1>3. ASSUME NEW m \in Members, NEW S \in SUBSET Hurdles, SetHurdles(m, S)
      PROVE  /\ UNCHANGED <<day, periods>>
             /\ \A q \in Calls : at[q] \notin Over =>
                   \/ hurdles'[about[q].member] = hurdles[about[q].member]
                   \/ "member" \in changed'[q]
  <2>1. \A q \in Calls : at[q] \notin Over /\ about[q].member = m => "member" \in changed'[q]
    BY <1>1, <1>3, Disturbed DEF SetHurdles
  <2>2. hurdles' = [hurdles EXCEPT ![m] = S] /\ hurdles \in [Members -> SUBSET Hurdles]
        /\ UNCHANGED <<day, periods>>
    BY <1>1, <1>3 DEF SetHurdles, TypeOK
  <2>3. \A x : x # m => hurdles'[x] = hurdles[x]
    BY <2>2
  <2> QED
    BY <2>1, <2>2, <2>3
<1>4. ASSUME NEW m \in Members, NEW plan \in Plans, NEW start \in Int, Assign(m, plan, start)
      PROVE  /\ UNCHANGED <<day, hurdles>> /\ DOMAIN periods \subseteq DOMAIN periods'
             /\ \A p \in DOMAIN periods : periods'[p] = periods[p]
  BY <1>1, <1>4, AssignFacts, Shapes DEF Assign
<1>5. ASSUME NEW p \in DOMAIN periods, NEW s \in Statuses, SetStatus(p, s)
      PROVE  /\ UNCHANGED <<day, hurdles>> /\ DOMAIN periods' = DOMAIN periods
             /\ \A x \in DOMAIN periods : /\ periods'[x].owner = periods[x].owner
                                          /\ periods'[x].plan = periods[x].plan
             /\ \A q \in Calls, x \in DOMAIN periods :
                   at[q] \notin Over /\ about[q].member = periods[x].owner =>
                       periods'[x].status = periods[x].status \/ "period" \in changed'[q]
  <2>1. \A q \in Calls : at[q] \notin Over /\ about[q].member = periods[p].owner =>
            "period" \in changed'[q]
    BY <1>1, <1>5, Disturbed DEF SetStatus
  <2>2. \A x \in DOMAIN periods \ {p} : periods'[x] = periods[x]
    BY <1>1, <1>5, SetStatusFacts
  <2>3. UNCHANGED <<day, hurdles>> /\ DOMAIN periods' = DOMAIN periods
        /\ \A x \in DOMAIN periods : /\ periods'[x].owner = periods[x].owner
                                     /\ periods'[x].plan = periods[x].plan
    BY <1>1, <1>5, SetStatusFacts DEF SetStatus
  <2> QED
    BY <2>1, <2>2, <2>3
<1>6. CASE Midnight
  <2>1. day' = day + 1 /\ UNCHANGED deskVars
    BY <1>6 DEF Midnight
  <2>2. \A q \in Calls : at[q] \notin Over => "day" \in changed'[q]
    BY <1>6 DEF Midnight
  <2> QED
    BY <1>1, <2>1, <2>2 DEF deskVars
<1>7. ASSUME NEW r \in Calls,
             \/ Begins(r) \/ Answers(r) \/ Enter(r)
             \/ ReadMember(r) \/ ReadMembership(r) \/ ReadAttendance(r)
      PROVE  UNCHANGED <<day, deskVars>>
  BY <1>7 DEF Begins, Answers, Enter, ReadMember, ReadMembership, ReadAttendance, Note
<1>8. CASE UNCHANGED vars
  BY <1>2, <1>8 DEF vars
<1>9. CASE \E r \in Calls : \/ Begins(r) \/ Answers(r) \/ Enter(r)
                            \/ ReadMember(r) \/ ReadMembership(r) \/ ReadAttendance(r)
  BY <1>2, <1>7, <1>9
<1>10. CASE \E m \in Members, S \in SUBSET Hurdles : SetHurdles(m, S)
  BY <1>1, <1>3, <1>10
<1>11. CASE \E m \in Members, plan \in Plans, start \in Int : Assign(m, plan, start)
  BY <1>1, <1>4, <1>11
<1>12. CASE \E p \in DOMAIN periods, s \in Statuses : SetStatus(p, s)
  BY <1>1, <1>5, <1>12
<1> QED
  BY <1>6, <1>8, <1>9, <1>10, <1>11, <1>12, StepKinds

LEMMA ReadMemberFacts ==
    ASSUME TypeOK, NEW q \in Calls, ReadMember(q)
    PROVE  /\ at[q] = "member" /\ at'[q] = "membership"
           /\ about'[q].member = about[q].member /\ about'[q].branch = about[q].branch
           /\ about'[q].today = day /\ about'[q].barred = hurdles[about[q].member]
           /\ about'[q].period = about[q].period
           /\ UNCHANGED <<day, deskVars, recordVars>>
<1>1. PICK what : what = [about[q] EXCEPT !.today = day, !.barred = hurdles[about[q].member]]
  OBVIOUS
<1>2. about[q] \in Read /\ at \in [Calls -> Stages] /\ about \in [Calls -> Read]
  BY DEF TypeOK
<1>3. /\ at[q] = "member" /\ at' = [at EXCEPT ![q] = "membership"]
      /\ about' = [about EXCEPT ![q] = what] /\ UNCHANGED <<day, deskVars, recordVars>>
  BY <1>1 DEF ReadMember, Note
<1>4. at'[q] = "membership" /\ about'[q] = what
  BY <1>2, <1>3
<1>5. /\ what.member = about[q].member /\ what.branch = about[q].branch
      /\ what.today = day /\ what.barred = hurdles[about[q].member]
      /\ what.period = about[q].period
  <2>1. PICK c, h : c = about[q] /\ h = hurdles[c.member]
    OBVIOUS
  <2>2. c \in Read /\ what = [c EXCEPT !.today = day, !.barred = h]
    BY <1>1, <1>2, <2>1
  <2>3. /\ what.member = c.member /\ what.branch = c.branch
        /\ what.today = day /\ what.barred = h /\ what.period = c.period
    BY <2>2 DEF Read
  <2> QED
    BY <2>1, <2>3
<1> QED
  BY <1>3, <1>4, <1>5

LEMMA ReadMembershipFacts ==
    ASSUME TypeOK, NEW q \in Calls, ReadMembership(q)
    PROVE  /\ at[q] = "membership" /\ at'[q] = "attendance"
           /\ about'[q].member = about[q].member /\ about'[q].branch = about[q].branch
           /\ about'[q].today = about[q].today /\ about'[q].barred = about[q].barred
           /\ \/ about'[q].period = about[q].period
              \/ /\ about'[q].period \in DOMAIN periods
                 /\ periods[about'[q].period].owner = about[q].member
                 /\ about'[q].status = periods[about'[q].period].status
           /\ UNCHANGED <<day, deskVars, recordVars, changed>>
<1>1. about[q] \in Read /\ at \in [Calls -> Stages] /\ about \in [Calls -> Read]
  BY DEF TypeOK
<1>2. at[q] = "membership" /\ UNCHANGED <<day, deskVars, recordVars, changed>>
      /\ at' = [at EXCEPT ![q] = "attendance"]
  BY DEF ReadMembership, Note
<1>3. at'[q] = "attendance"
  BY <1>1, <1>2
<1>4. CASE about' = [about EXCEPT ![q] = about[q]]
  BY <1>1, <1>2, <1>3, <1>4
<1>5. ASSUME NEW p \in Latest(about[q].member),
             about' = [about EXCEPT ![q] = [about[q] EXCEPT !.period = p,
                                     !.status = periods[p].status, !.classes = left[p]]]
      PROVE  /\ about'[q].member = about[q].member /\ about'[q].branch = about[q].branch
             /\ about'[q].today = about[q].today /\ about'[q].barred = about[q].barred
             /\ about'[q].period \in DOMAIN periods
             /\ periods[about'[q].period].owner = about[q].member
             /\ about'[q].status = periods[about'[q].period].status
  <2>1. p \in DOMAIN periods /\ periods[p].owner = about[q].member
    BY DEF Latest, Candidates
  <2>2. PICK what : what = [about[q] EXCEPT !.period = p, !.status = periods[p].status,
                                            !.classes = left[p]]
    OBVIOUS
  <2>3. about'[q] = what
    BY <1>1, <1>5, <2>2
  <2>4. /\ what.member = about[q].member /\ what.branch = about[q].branch
        /\ what.today = about[q].today /\ what.barred = about[q].barred
        /\ what.period = p /\ what.status = periods[p].status
    BY <1>1, <2>2 DEF Read
  <2> QED
    BY <2>1, <2>3, <2>4
<1>6. \/ about' = [about EXCEPT ![q] = about[q]]
      \/ \E p \in Latest(about[q].member) :
            about' = [about EXCEPT ![q] = [about[q] EXCEPT !.period = p,
                                     !.status = periods[p].status, !.classes = left[p]]]
  BY DEF ReadMembership, Note
<1> QED
  BY <1>2, <1>3, <1>4, <1>5, <1>6

\* The days counted by a check.
DaysHere(q) == {a.day : a \in {x \in attended :
                    x.member = about[q].member /\ x.branch = about[q].branch}}

LEMMA ReadAttendanceFacts ==
    ASSUME TypeOK, NEW q \in Calls, ReadAttendance(q)
    PROVE  /\ at[q] = "attendance" /\ at'[q] = "recording"
           /\ about'[q].member = about[q].member /\ about'[q].branch = about[q].branch
           /\ about'[q].today = about[q].today /\ about'[q].barred = about[q].barred
           /\ about'[q].period = about[q].period /\ about'[q].status = about[q].status
           /\ about'[q].entered <=> about[q].today \in DaysHere(q)
           /\ about'[q].days = Cardinality({d \in DaysHere(q) :
                     d # about[q].today /\ d >= Monday(about[q].today)})
           /\ UNCHANGED <<day, deskVars, recordVars, changed>>
<1>1. about[q] \in Read /\ at \in [Calls -> Stages] /\ about \in [Calls -> Read]
  BY DEF TypeOK
<1>2. PICK n, e, what :
         /\ n = Cardinality({d \in DaysHere(q) :
                     d # about[q].today /\ d >= Monday(about[q].today)})
         /\ e = (about[q].today \in DaysHere(q))
         /\ what = [about[q] EXCEPT !.entered = e, !.days = n]
  OBVIOUS
<1>3. /\ at[q] = "attendance" /\ at' = [at EXCEPT ![q] = "recording"]
      /\ about' = [about EXCEPT ![q] = what]
      /\ UNCHANGED <<day, deskVars, recordVars, changed>>
  BY <1>2 DEF ReadAttendance, Note, DaysHere
<1>4. at'[q] = "recording" /\ about'[q] = what
  BY <1>1, <1>3
<1>5. /\ what.member = about[q].member /\ what.branch = about[q].branch
      /\ what.today = about[q].today /\ what.barred = about[q].barred
      /\ what.period = about[q].period /\ what.status = about[q].status
      /\ what.entered = e /\ what.days = n
  BY <1>1, <1>2 DEF Read
<1> QED
  BY <1>2, <1>3, <1>4, <1>5

LEMMA WhoStep ==
    ASSUME IInv, [Next]_vars
    PROVE  CallsKnowWho'
<1> SUFFICES ASSUME NEW q \in Calls, at'[q] \notin Over
             PROVE  about'[q].member \in Members /\ about'[q].branch \in Branches
  BY DEF CallsKnowWho
<1>1. TypeOK /\ CallsKnowWho
  BY DEF IInv
<1>2. CASE Waits(q)
  BY <1>1, <1>2 DEF Waits, CallsKnowWho
<1>3. CASE Restarts(q)
  BY <1>3 DEF Restarts
<1>4. CASE ReadMember(q) \/ ReadMembership(q) \/ ReadAttendance(q)
  <2>1. /\ at[q] \in {"member", "membership", "attendance"}
        /\ about'[q].member = about[q].member /\ about'[q].branch = about[q].branch
    BY <1>1, <1>4, ReadMemberFacts, ReadMembershipFacts, ReadAttendanceFacts
  <2> QED
    BY <1>1, <2>1 DEF CallsKnowWho, Over
<1> QED
  BY <1>2, <1>3, <1>4, CallSteps

LEMMA WhenStep ==
    ASSUME IInv, [Next]_vars
    PROVE  CallsKnowWhen'
<1> SUFFICES ASSUME NEW q \in Calls, at'[q] \in Knowing
             PROVE  /\ about'[q].today \in Day /\ about'[q].today <= day'
                    /\ "day" \in changed'[q] \/ about'[q].today = day'
  BY DEF CallsKnowWhen
<1>1. TypeOK /\ CallsKnowWhen /\ day \in Day
  BY DEF IInv, TypeOK
<1>2. day <= day' /\ day \in Int /\ day' \in Int
      /\ (at[q] \notin Over => day' = day \/ "day" \in changed'[q])
  BY Seen
<1>3. CASE Waits(q)
  <2>1. at[q] \in Knowing /\ at[q] \notin Over
    BY <1>3 DEF Waits, Knowing, Over
  <2>2. about[q].today \in Day /\ about[q].today <= day
        /\ ("day" \in changed[q] \/ about[q].today = day)
    BY <1>1, <2>1 DEF CallsKnowWhen
  <2>3. about'[q] = about[q] /\ changed[q] \subseteq changed'[q]
    BY <1>3, <2>1 DEF Waits
  <2>4. about[q].today \in Int
    BY <2>2 DEF Day
  <2> QED
    BY <1>2, <2>1, <2>2, <2>3, <2>4
<1>4. CASE ReadMember(q)
  <2>1. about'[q].today = day /\ day' = day
    BY <1>1, <1>4, ReadMemberFacts
  <2> QED
    BY <1>1, <1>2, <2>1
<1>5. CASE ReadMembership(q) \/ ReadAttendance(q)
  <2>1. /\ at[q] \in Knowing /\ about'[q].today = about[q].today
        /\ day' = day /\ changed' = changed
    BY <1>1, <1>5, ReadMembershipFacts, ReadAttendanceFacts DEF Knowing
  <2> QED
    BY <1>1, <2>1 DEF CallsKnowWhen
<1>6. ~(at'[q] \in Over \/ Restarts(q))
  BY DEF Over, Restarts, Knowing
<1> QED
  BY <1>3, <1>4, <1>5, <1>6, CallSteps

LEMMA HurdlesStep ==
    ASSUME IInv, [Next]_vars
    PROVE  CallsKnowHurdles'
<1> SUFFICES ASSUME NEW q \in Calls, at'[q] \in Knowing
             PROVE  "member" \in changed'[q] \/ about'[q].barred = hurdles'[about'[q].member]
  BY DEF CallsKnowHurdles
<1>1. TypeOK /\ CallsKnowHurdles
  BY DEF IInv
<1>2. at[q] \notin Over =>
          hurdles'[about[q].member] = hurdles[about[q].member] \/ "member" \in changed'[q]
  BY Seen
<1>3. CASE Waits(q)
  <2>1. at[q] \in Knowing /\ at[q] \notin Over
    BY <1>3 DEF Waits, Knowing, Over
  <2>2. about'[q] = about[q] /\ changed[q] \subseteq changed'[q]
    BY <1>3, <2>1 DEF Waits
  <2> QED
    BY <1>1, <1>2, <2>1, <2>2 DEF CallsKnowHurdles
<1>4. CASE ReadMember(q)
  BY <1>1, <1>4, ReadMemberFacts DEF deskVars
<1>5. CASE ReadMembership(q) \/ ReadAttendance(q)
  <2>1. /\ at[q] \in Knowing
        /\ about'[q].member = about[q].member /\ about'[q].barred = about[q].barred
    BY <1>1, <1>5, ReadMembershipFacts, ReadAttendanceFacts DEF Knowing
  <2>2. hurdles' = hurdles /\ changed' = changed
    BY <1>1, <1>5, ReadMembershipFacts, ReadAttendanceFacts DEF deskVars
  <2> QED
    BY <1>1, <2>1, <2>2 DEF CallsKnowHurdles
<1>6. ~(at'[q] \in Over \/ Restarts(q))
  BY DEF Over, Restarts, Knowing
<1> QED
  BY <1>3, <1>4, <1>5, <1>6, CallSteps

LEMMA PeriodStep ==
    ASSUME IInv, [Next]_vars
    PROVE  CallsKnowPeriod'
<1> SUFFICES ASSUME NEW q \in Calls
             PROVE  /\ at'[q] \in {"member", "membership"} => about'[q].period = None
                    /\ at'[q] \in Deciding /\ about'[q].period # None =>
                          /\ about'[q].period \in DOMAIN periods'
                          /\ periods'[about'[q].period].owner = about'[q].member
                          /\ \/ "period" \in changed'[q]
                             \/ about'[q].status = periods'[about'[q].period].status
  BY DEF CallsKnowPeriod
<1>1. TypeOK /\ CallsKnowPeriod
  BY DEF IInv
<1>2. CASE Waits(q)
  <2>1. about'[q] = about[q] /\ at'[q] = at[q]
    BY <1>2 DEF Waits
  <2>2. CASE at[q] \in {"member", "membership"}
    BY <1>1, <2>1, <2>2 DEF CallsKnowPeriod, Deciding
  <2>3. CASE at[q] \in Deciding /\ about[q].period # None
    <3>1. PICK p : p = about[q].period
      OBVIOUS
    <3>2. at[q] \notin Over /\ at[q] \notin {"member", "membership"}
      BY <2>3 DEF Deciding, Over
    <3>3. changed[q] \subseteq changed'[q]
      BY <1>2, <3>2 DEF Waits
    <3>4. /\ p \in DOMAIN periods /\ periods[p].owner = about[q].member
          /\ "period" \in changed[q] \/ about[q].status = periods[p].status
      BY <1>1, <2>3, <3>1 DEF CallsKnowPeriod
    <3>5. /\ p \in DOMAIN periods' /\ periods'[p].owner = periods[p].owner
          /\ periods'[p].status = periods[p].status \/ "period" \in changed'[q]
      BY <3>2, <3>4, Seen
    <3> QED
      BY <2>1, <3>1, <3>2, <3>3, <3>4, <3>5
  <2> QED
    BY <2>1, <2>2, <2>3
<1>3. CASE Restarts(q) \/ at'[q] \in Over
  BY <1>3 DEF Restarts, Deciding, Over
<1>4. CASE ReadMember(q)
  BY <1>1, <1>4, ReadMemberFacts DEF CallsKnowPeriod, Deciding
<1>5. CASE ReadMembership(q)
  <2>1. at[q] = "membership" /\ at'[q] = "attendance" /\ periods' = periods
        /\ about'[q].member = about[q].member
    BY <1>1, <1>5, ReadMembershipFacts DEF deskVars
  <2>2. about[q].period = None
    BY <1>1, <2>1 DEF CallsKnowPeriod
  <2>3. PICK p, c : p = about'[q].period /\ c = about[q]
    OBVIOUS
  <2>4. \/ p = c.period
        \/ /\ p \in DOMAIN periods /\ periods[p].owner = c.member
           /\ about'[q].status = periods[p].status
    BY <1>1, <1>5, <2>3, ReadMembershipFacts
  <2>5. at'[q] \notin {"member", "membership"}
    BY <2>1
  <2> QED
    BY <2>1, <2>2, <2>3, <2>4, <2>5
<1>6. CASE ReadAttendance(q)
  <2>1. /\ at[q] \in Deciding /\ at'[q] \notin {"member", "membership"}
        /\ about'[q].period = about[q].period /\ about'[q].status = about[q].status
        /\ about'[q].member = about[q].member
        /\ periods' = periods /\ changed' = changed
    BY <1>1, <1>6, ReadAttendanceFacts DEF Deciding, deskVars
  <2> QED
    BY <1>1, <2>1 DEF CallsKnowPeriod
<1> QED
  BY <1>2, <1>3, <1>4, <1>5, <1>6, CallSteps

\* The attendances grow by the entry of a check, or stay.
LEMMA Recorded ==
    ASSUME IInv, [Next]_vars
    PROVE  \/ attended' = attended
           \/ \E r \in Calls : Enter(r) /\ attended' = attended \cup {Entry(r)}
<1>1. TypeOK
  BY DEF IInv
<1>2. CASE UNCHANGED vars
  BY <1>2 DEF vars, recordVars
<1>3. ASSUME NEW r \in Calls, Enter(r)
      PROVE  attended' = attended \cup {Entry(r)}
  BY <1>1, <1>3, EnterFacts
<1>4. ASSUME NEW r \in Calls,
             Begins(r) \/ Answers(r) \/ ReadMember(r) \/ ReadMembership(r) \/ ReadAttendance(r)
      PROVE  attended' = attended
  BY <1>4 DEF Begins, Answers, ReadMember, ReadMembership, ReadAttendance, Note, recordVars
<1>5. ASSUME NEW m, NEW S, SetHurdles(m, S)
      PROVE  attended' = attended
  BY <1>5 DEF SetHurdles, recordVars
<1>6. ASSUME NEW m, NEW plan, NEW start, Assign(m, plan, start)
      PROVE  attended' = attended
  BY <1>6 DEF Assign
<1>7. ASSUME NEW p, NEW s, SetStatus(p, s)
      PROVE  attended' = attended
  BY <1>7 DEF SetStatus, recordVars
<1>8. CASE Midnight
  BY <1>8 DEF Midnight, recordVars
<1> QED
  BY <1>2, <1>3, <1>4, <1>5, <1>6, <1>7, <1>8, StepKinds

LEMMA EntryStep ==
    ASSUME IInv, [Next]_vars
    PROVE  CallsKnowEntry'
<1> SUFFICES ASSUME NEW q \in Calls, at'[q] = "recording", about'[q].entered
             PROVE  \E a \in attended' : /\ a.member = about'[q].member
                                         /\ a.branch = about'[q].branch
                                         /\ a.day = about'[q].today
  BY DEF CallsKnowEntry
<1>1. TypeOK /\ CallsKnowEntry
  BY DEF IInv
<1>2. attended \subseteq attended'
  BY Recorded
<1>3. CASE Waits(q)
  BY <1>1, <1>2, <1>3 DEF Waits, CallsKnowEntry
<1>4. CASE ReadAttendance(q)
  <2>1. about[q].today \in DaysHere(q)
    BY <1>1, <1>4, ReadAttendanceFacts
  <2>2. PICK a \in attended : /\ a.member = about[q].member
                              /\ a.branch = about[q].branch
                              /\ a.day = about[q].today
    BY <2>1 DEF DaysHere
  <2>3. /\ about'[q].member = about[q].member /\ about'[q].branch = about[q].branch
        /\ about'[q].today = about[q].today
    BY <1>1, <1>4, ReadAttendanceFacts
  <2> QED
    BY <1>2, <2>2, <2>3
<1>5. ~(at'[q] \in Over \/ Restarts(q) \/ ReadMember(q) \/ ReadMembership(q))
  BY <1>1, ReadMemberFacts, ReadMembershipFacts DEF Over, Restarts
<1> QED
  BY <1>3, <1>4, <1>5, CallSteps

\* A set of days has a size, and its subsets no greater one.
LEMMA DaysCount ==
    ASSUME NEW D \in SUBSET Day, NEW C \in SUBSET D
    PROVE  /\ IsFiniteSet(D) /\ IsFiniteSet(C)
           /\ Cardinality(C) \in Nat /\ Cardinality(D) \in Nat
           /\ Cardinality(C) <= Cardinality(D)
<1>1. IsFiniteSet(1..LastDay)
  BY Constants, FS_Interval
<1>2. D \subseteq 1..LastDay
  BY DEF Day
<1>3. IsFiniteSet(D)
  BY <1>1, <1>2, FS_Subset
<1>4. IsFiniteSet(C) /\ Cardinality(C) <= Cardinality(D)
  BY <1>3, FS_Subset
<1> QED
  BY <1>3, <1>4, FS_CardinalityType

LEMMA OnTimeType ==
    ASSUME NEW S \in SUBSET Attendance, NEW m, NEW b, NEW t
    PROVE  OnTime(S, m, b, t) \in SUBSET Day
BY DEF OnTime, Attendance

LEMMA DaysStep ==
    ASSUME IInv, [Next]_vars
    PROVE  CallsKnowDays'
<1> SUFFICES ASSUME NEW q \in Calls, at'[q] = "recording", "day" \notin changed'[q]
             PROVE  Cardinality(OnTime(attended', about'[q].member, about'[q].branch,
                                       about'[q].today)) <= about'[q].days
  BY DEF CallsKnowDays
<1>1. TypeOK /\ CallsKnowDays /\ CallsKnowWhen
  BY DEF IInv
<1>2. CASE Waits(q)
  <2>1. PICK m, b, t : m = about[q].member /\ b = about[q].branch /\ t = about[q].today
    OBVIOUS
  <2>2. at[q] = "recording" /\ about'[q] = about[q] /\ "day" \notin changed[q]
    BY <1>2 DEF Waits, Over
  <2>3. t = day
    BY <1>1, <2>1, <2>2 DEF CallsKnowWhen, Knowing
  <2>4. Cardinality(OnTime(attended, m, b, t)) <= about[q].days
    BY <1>1, <2>1, <2>2 DEF CallsKnowDays
  <2>5. OnTime(attended', m, b, t) = OnTime(attended, m, b, t)
    <3>1. ASSUME NEW r \in Calls, Enter(r), attended' = attended \cup {Entry(r)}
          PROVE  OnTime(attended', m, b, t) = OnTime(attended, m, b, t)
      <4>1. Entry(r).late \/ Entry(r).day = t
        <5>1. at[r] = "recording"
          BY <3>1 DEF Enter
        <5>2. "day" \in changed[r] \/ about[r].today = day
          BY <1>1, <5>1 DEF CallsKnowWhen, Knowing
        <5> QED
          BY <2>3, <3>1, <5>2, EntryFacts
      <4>2. PICK e : e = Entry(r)
        OBVIOUS
      <4> QED
        BY <3>1, <4>1, <4>2 DEF OnTime
    <3> QED
      BY <3>1, Recorded
  <2> QED
    BY <2>1, <2>2, <2>4, <2>5
<1>3. CASE ReadAttendance(q)
  <2>1. PICK m, b, t : m = about[q].member /\ b = about[q].branch /\ t = about[q].today
    OBVIOUS
  <2>2. /\ at[q] = "attendance" /\ attended' = attended
        /\ about'[q].member = m /\ about'[q].branch = b /\ about'[q].today = t
        /\ about'[q].days = Cardinality({d \in DaysHere(q) : d # t /\ d >= Monday(t)})
    BY <1>1, <1>3, <2>1, ReadAttendanceFacts DEF recordVars
  <2>3. t \in Day
    BY <1>1, <2>1, <2>2 DEF CallsKnowWhen, Knowing
  <2>4. PICK D : D = {d \in DaysHere(q) : d # t /\ d >= Monday(t)}
    OBVIOUS
  <2>5. attended \subseteq Attendance
    BY <1>1 DEF TypeOK
  <2>6. D \in SUBSET Day
    BY <2>4, <2>5 DEF DaysHere, Attendance
  <2>7. OnTime(attended, m, b, t) \in SUBSET D
    <3>1. ASSUME NEW a \in attended, a.member = m, a.branch = b, WeekOf(a.day) = WeekOf(t), a.day # t
          PROVE  a.day \in D
      <4>1. a.day \in Day
        BY <2>5 DEF Attendance
      <4>2. a.day >= Monday(t)
        BY <2>3, <3>1, <4>1, FromMonday
      <4>3. a.day \in DaysHere(q)
        BY <2>1, <3>1 DEF DaysHere
      <4> QED
        BY <2>4, <3>1, <4>2, <4>3
    <3> QED
      BY <3>1 DEF OnTime
  <2>8. Cardinality(OnTime(attended, m, b, t)) <= Cardinality(D)
    BY <2>6, <2>7, DaysCount
  <2> QED
    BY <2>2, <2>4, <2>8
<1>4. ~(at'[q] \in Over \/ Restarts(q) \/ ReadMember(q) \/ ReadMembership(q))
  BY <1>1, ReadMemberFacts, ReadMembershipFacts DEF Over, Restarts
<1> QED
  BY <1>2, <1>3, <1>4, CallSteps

LEMMA EntriesStep ==
    ASSUME IInv, [Next]_vars
    PROVE  EntriesOK'
<1>1. EntriesOK /\ TypeOK
  BY DEF IInv
<1>2. day <= day' /\ day \in Int /\ day' \in Int
      /\ DOMAIN periods \subseteq DOMAIN periods'
      /\ \A p \in DOMAIN periods : periods'[p].owner = periods[p].owner
  BY Seen
<1>3. \A a \in attended : a.day \in Int
  BY <1>1 DEF TypeOK, Attendance, Day
<1>4. \A a \in attended : /\ a.day <= day'
                          /\ a.period \in DOMAIN periods'
                          /\ a.member = periods'[a.period].owner
  BY <1>1, <1>2, <1>3 DEF EntriesOK
<1>5. CASE attended' = attended
  BY <1>1, <1>4, <1>5 DEF EntriesOK
<1>6. ASSUME NEW r \in Calls, Enter(r), attended' = attended \cup {Entry(r)}
      PROVE  EntriesOK'
  <2>1. PICK e : e = Entry(r)
    OBVIOUS
  <2>2. e.period \in DOMAIN periods /\ periods[e.period].owner = e.member /\ e.day <= day
        /\ e.day \in Int
    BY <1>6, <2>1, EntryFacts DEF Day
  <2>3. e.day <= day' /\ e.period \in DOMAIN periods' /\ e.member = periods'[e.period].owner
    BY <1>2, <2>2
  <2>4. IsFiniteSet(attended \cup {e})
    BY <1>1, FS_AddElement DEF EntriesOK
  <2> QED
    BY <1>4, <1>6, <2>1, <2>3, <2>4 DEF EntriesOK
<1> QED
  BY <1>5, <1>6, Recorded

\* The rows and the classes left of them change together with the attendances.
LEMMA RowSteps ==
    ASSUME IInv, [Next]_vars
    PROVE  \/ /\ DOMAIN periods' = DOMAIN periods /\ left' = left /\ attended' = attended
              /\ \A p \in DOMAIN periods : periods'[p].plan = periods[p].plan
           \/ \E m \in Members, plan \in Plans, start \in Int :
                 Assign(m, plan, start) /\ attended' = attended
           \/ \E r \in Calls : Enter(r)
<1>1. TypeOK
  BY DEF IInv
<1>2. CASE UNCHANGED vars
  BY <1>2 DEF vars, deskVars, recordVars
<1>3. ASSUME NEW r \in Calls,
             Begins(r) \/ Answers(r) \/ ReadMember(r) \/ ReadMembership(r) \/ ReadAttendance(r)
      PROVE  UNCHANGED <<periods, left, attended>>
  BY <1>3 DEF Begins, Answers, ReadMember, ReadMembership, ReadAttendance, Note, recordVars, deskVars
<1>4. ASSUME NEW m, NEW S, SetHurdles(m, S)
      PROVE  UNCHANGED <<periods, left, attended>>
  BY <1>4 DEF SetHurdles, recordVars
<1>5. ASSUME NEW m \in Members, NEW plan \in Plans, NEW start \in Int, Assign(m, plan, start)
      PROVE  attended' = attended
  BY <1>5 DEF Assign
<1>6. ASSUME NEW p \in DOMAIN periods, NEW s \in Statuses, SetStatus(p, s)
      PROVE  /\ DOMAIN periods' = DOMAIN periods /\ left' = left /\ attended' = attended
             /\ \A q \in DOMAIN periods : periods'[q].plan = periods[q].plan
  BY <1>1, <1>6, SetStatusFacts DEF SetStatus, recordVars
<1>7. CASE Midnight
  BY <1>7 DEF Midnight, recordVars, deskVars
<1> QED
  BY <1>2, <1>3, <1>4, <1>5, <1>6, <1>7, StepKinds

\* The entries on a membership, and the days of a week on which they were made
\* in time.
Taken(S, p) == {a \in S : a.period = p}

DaysOf(S, p, b, w) ==
    {a.day : a \in {x \in S : x.period = p /\ x.branch = b /\ WeekOf(x.day) = w /\ ~x.late}}

LEMMA ClassesAre ==
    ClassesAddUp <=> \A p \in DOMAIN periods : periods[p].plan.classes > 0 =>
                         left[p] + Cardinality(Taken(attended, p)) = periods[p].plan.classes
BY DEF ClassesAddUp, Pack, Taken

LEMMA LimitIs ==
    WeeklyLimitHolds <=>
        \A p \in DOMAIN periods, b \in Branches, d \in Day : periods[p].plan.limit > 0 =>
            Cardinality(DaysOf(attended, p, b, WeekOf(d))) <= periods[p].plan.limit
BY DEF WeeklyLimitHolds, DaysOf

LEMMA OneEntryMore ==
    ASSUME NEW S, IsFiniteSet(S), NEW e, e \notin S, NEW p
    PROVE  /\ Cardinality(Taken(S, p)) \in Nat
           /\ e.period = p =>
                 Cardinality(Taken(S \cup {e}, p)) = Cardinality(Taken(S, p)) + 1
           /\ e.period # p => Taken(S \cup {e}, p) = Taken(S, p)
<1>1. PICK T : T = Taken(S, p)
  OBVIOUS
<1>2. T \subseteq S /\ e \notin T
  BY <1>1 DEF Taken
<1>3. IsFiniteSet(T)
  BY <1>2, FS_Subset
<1>4. Cardinality(T) \in Nat
  BY <1>3, FS_CardinalityType
<1>5. Cardinality(T \cup {e}) = Cardinality(T) + 1
  BY <1>2, <1>3, FS_AddElement
<1>6. e.period = p => Taken(S \cup {e}, p) = T \cup {e}
  BY <1>1 DEF Taken
<1>7. e.period # p => Taken(S \cup {e}, p) = T
  BY <1>1 DEF Taken
<1> QED
  BY <1>1, <1>4, <1>5, <1>6, <1>7

LEMMA ClassesStep ==
    ASSUME IInv, [Next]_vars
    PROVE  ClassesAddUp'
<1>1. TypeOK /\ EntriesOK
  BY DEF IInv
<1>2. \A p \in DOMAIN periods : periods[p].plan.classes > 0 =>
          left[p] + Cardinality(Taken(attended, p)) = periods[p].plan.classes
  BY ClassesAre DEF IInv
<1>3. SUFFICES \A p \in DOMAIN periods' : periods'[p].plan.classes > 0 =>
          left'[p] + Cardinality(Taken(attended', p)) = periods'[p].plan.classes
  BY DEF ClassesAddUp, Pack, Taken
<1>4. ASSUME DOMAIN periods' = DOMAIN periods, left' = left, attended' = attended,
             \A p \in DOMAIN periods : periods'[p].plan = periods[p].plan,
             NEW p \in DOMAIN periods', periods'[p].plan.classes > 0
      PROVE  left'[p] + Cardinality(Taken(attended', p)) = periods'[p].plan.classes
  BY <1>2, <1>4
<1>5. ASSUME NEW m \in Members, NEW plan \in Plans, NEW start \in Int, Assign(m, plan, start),
             attended' = attended, NEW p \in DOMAIN periods', periods'[p].plan.classes > 0
      PROVE  left'[p] + Cardinality(Taken(attended', p)) = periods'[p].plan.classes
  <2>1. CASE p \in DOMAIN periods
    BY <1>1, <1>2, <1>5, <2>1, AssignFacts
  <2>2. CASE p \notin DOMAIN periods
    <3>1. p = Len(periods) + 1
      BY <1>1, <1>5, <2>2, AssignFacts, Shapes
    <3>2. left'[p] = plan.classes /\ periods'[p].plan = plan /\ plan.classes \in Nat
      BY <1>1, <1>5, <3>1, AssignFacts, Constants
    <3>3. Taken(attended', p) = {}
      BY <1>1, <1>5, <2>2 DEF Taken, EntriesOK
    <3>4. Cardinality(Taken(attended', p)) = 0
      BY <3>3, FS_EmptySet
    <3> QED
      BY <3>2, <3>4
  <2> QED
    BY <2>1, <2>2
<1>6. ASSUME NEW r \in Calls, Enter(r), NEW p \in DOMAIN periods', periods'[p].plan.classes > 0
      PROVE  left'[p] + Cardinality(Taken(attended', p)) = periods'[p].plan.classes
  <2>1. PICK e : e = Entry(r)
    OBVIOUS
  <2>2. /\ attended' = attended \cup {e} /\ periods' = periods
        /\ e \notin attended /\ e.period = about[r].period /\ e.period \in DOMAIN periods
    BY <1>1, <1>6, <2>1, EnterFacts, EntryFacts
  <2>3. /\ \A q \in DOMAIN periods \ {e.period} : left'[q] = left[q]
        /\ Pack(e.period) => left'[e.period] = left[e.period] - 1
    BY <1>1, <1>6, <2>2, EnterFacts
  <2>4. IsFiniteSet(attended) /\ left[p] \in Nat /\ p \in DOMAIN periods
    BY <1>1, <1>6, <2>2, Shapes DEF EntriesOK
  <2>5. left[p] + Cardinality(Taken(attended, p)) = periods[p].plan.classes
    BY <1>2, <1>6, <2>2
  <2>6. CASE e.period = p
    <3>1. left'[p] = left[p] - 1
      BY <1>6, <2>2, <2>3, <2>6 DEF Pack
    <3>2. /\ Cardinality(Taken(attended', p)) = Cardinality(Taken(attended, p)) + 1
          /\ Cardinality(Taken(attended, p)) \in Nat
      BY <2>2, <2>4, <2>6, OneEntryMore
    <3> QED
      BY <2>2, <2>4, <2>5, <3>1, <3>2
  <2>7. CASE e.period # p
    <3>1. left'[p] = left[p] /\ Taken(attended', p) = Taken(attended, p)
      BY <2>2, <2>3, <2>4, <2>7, OneEntryMore
    <3> QED
      BY <2>2, <2>5, <3>1
  <2> QED
    BY <2>6, <2>7
<1> QED
  BY <1>4, <1>5, <1>6, RowSteps

LEMMA LimitStep ==
    ASSUME IInv, [Next]_vars
    PROVE  WeeklyLimitHolds'
<1>1. TypeOK /\ EntriesOK /\ CallsKnowDays /\ CallsKnowWhen /\ CallsKnowWho
  BY DEF IInv
<1>2. \A p \in DOMAIN periods, b \in Branches, d \in Day : periods[p].plan.limit > 0 =>
          Cardinality(DaysOf(attended, p, b, WeekOf(d))) <= periods[p].plan.limit
  BY LimitIs DEF IInv
<1>3. SUFFICES ASSUME NEW p \in DOMAIN periods', NEW b \in Branches, NEW d \in Day,
                      periods'[p].plan.limit > 0
               PROVE  Cardinality(DaysOf(attended', p, b, WeekOf(d))) <= periods'[p].plan.limit
  BY DEF WeeklyLimitHolds, DaysOf
<1>4. CASE /\ DOMAIN periods' = DOMAIN periods /\ attended' = attended
           /\ \A x \in DOMAIN periods : periods'[x].plan = periods[x].plan
  BY <1>2, <1>3, <1>4
<1>5. ASSUME NEW m \in Members, NEW plan \in Plans, NEW start \in Int, Assign(m, plan, start),
             attended' = attended
      PROVE  Cardinality(DaysOf(attended', p, b, WeekOf(d))) <= periods'[p].plan.limit
  <2>1. CASE p \in DOMAIN periods
    BY <1>1, <1>2, <1>3, <1>5, <2>1, AssignFacts
  <2>2. CASE p \notin DOMAIN periods
    <3>1. p = Len(periods) + 1
      BY <1>1, <1>5, <2>2, AssignFacts, Shapes
    <3>2. periods'[p].plan.limit \in Nat
      BY <1>1, <1>5, <3>1, AssignFacts, Constants
    <3>3. DaysOf(attended', p, b, WeekOf(d)) = {}
      BY <1>1, <1>5, <2>2 DEF DaysOf, EntriesOK
    <3>4. Cardinality(DaysOf(attended', p, b, WeekOf(d))) = 0
      BY <3>3, FS_EmptySet
    <3> QED
      BY <3>2, <3>4
  <2> QED
    BY <2>1, <2>2
<1>6. ASSUME NEW r \in Calls, Enter(r)
      PROVE  Cardinality(DaysOf(attended', p, b, WeekOf(d))) <= periods'[p].plan.limit
  <2>1. PICK e, w : e = Entry(r) /\ w = WeekOf(d)
    OBVIOUS
  <2>2. /\ attended' = attended \cup {e} /\ periods' = periods
        /\ e.period = about[r].period /\ e.member = about[r].member
        /\ e.branch = about[r].branch /\ e.day = about[r].today /\ e.day \in Day
        /\ periods[e.period].owner = e.member
        /\ e.late <=> "day" \in changed[r]
    BY <1>1, <1>6, <2>1, EnterFacts, EntryFacts
  <2>3. p \in DOMAIN periods /\ Cardinality(DaysOf(attended, p, b, w)) <= periods[p].plan.limit
    BY <1>2, <1>3, <2>1, <2>2
  <2>4. CASE ~(e.period = p /\ e.branch = b /\ WeekOf(e.day) = w /\ ~e.late)
    <3>1. DaysOf(attended', p, b, w) = DaysOf(attended, p, b, w)
      BY <2>2, <2>4 DEF DaysOf
    <3> QED
      BY <2>1, <2>2, <2>3, <3>1
  <2>5. CASE e.period = p /\ e.branch = b /\ WeekOf(e.day) = w /\ ~e.late
    <3>1. PICK C, n : /\ C = OnTime(attended, e.member, e.branch, e.day)
                      /\ n = about[r].days
      OBVIOUS
    <3>2. at[r] = "recording" /\ Verdict(about[r]) = "OK"
      BY <1>1, <1>6, EnterFacts
    <3>3. Cardinality(C) <= n
      BY <1>1, <2>2, <2>5, <3>1, <3>2 DEF CallsKnowDays
    <3>4. ~(n >= periods[p].plan.limit)
      BY <1>3, <2>2, <2>5, <3>1, <3>2, OkMeans
    <3>5. n \in Nat /\ periods[p].plan.limit \in Nat
      BY <1>1, <2>3, <3>1, Shapes DEF Read
    <3>6. C \in SUBSET Day /\ IsFiniteSet(C) /\ Cardinality(C) \in Nat /\ e.day \notin C
      <4>1. C \in SUBSET Day
        BY <1>1, <3>1, OnTimeType DEF TypeOK
      <4>2. IsFiniteSet(C) /\ Cardinality(C) \in Nat
        BY <4>1, DaysCount
      <4> QED
        BY <3>1, <4>1, <4>2 DEF OnTime
    <3>7. DaysOf(attended', p, b, w) \in SUBSET (C \cup {e.day})
      <4>1. ASSUME NEW a \in attended', a.period = p, a.branch = b, WeekOf(a.day) = w, ~a.late
            PROVE  a.day \in C \cup {e.day}
        <5>1. CASE a = e
          BY <5>1
        <5>2. CASE a \in attended
          <6>1. a.member = e.member
            BY <1>1, <2>2, <2>5, <4>1, <5>2 DEF EntriesOK
          <6> QED
            BY <2>5, <3>1, <4>1, <5>2, <6>1 DEF OnTime
        <5> QED
          BY <2>2, <4>1, <5>1, <5>2
      <4> QED
        BY <4>1 DEF DaysOf
    <3>8. PICK D : D = C \cup {e.day}
      OBVIOUS
    <3>9. Cardinality(D) = Cardinality(C) + 1
      BY <3>6, <3>8, FS_AddElement
    <3>10. PICK E : E = DaysOf(attended', p, b, w)
      OBVIOUS
    <3>11. D \in SUBSET Day /\ E \in SUBSET D
      BY <2>2, <3>6, <3>7, <3>8, <3>10
    <3>12. Cardinality(E) <= Cardinality(D) /\ Cardinality(E) \in Nat
      BY <3>11, DaysCount
    <3>13. Cardinality(E) <= periods[p].plan.limit
      BY <3>3, <3>4, <3>5, <3>6, <3>9, <3>12
    <3> QED
      BY <2>1, <2>2, <3>10, <3>13
  <2> QED
    BY <2>4, <2>5
<1> QED
  BY <1>4, <1>5, <1>6, RowSteps

LEMMA InitIInv == Init => IInv
<1> SUFFICES ASSUME Init PROVE IInv
  OBVIOUS
<1>1. periods = <<>> /\ left = <<>> /\ attended = {} /\ \A r \in Calls : at[r] = "idle"
  BY DEF Init
<1>2. periods \in Seq(Row) /\ left \in Seq(Nat) /\ Len(periods) = 0 /\ Len(left) = 0
      /\ DOMAIN periods = {}
  BY <1>1
<1>3. TypeOK
  <2>1. day \in Day
    BY Constants DEF Init, Day
  <2>2. at \in [Calls -> Stages] /\ about \in [Calls -> Read]
        /\ changed \in [Calls -> SUBSET {"member", "period", "day"}]
        /\ hurdles \in [Members -> SUBSET Hurdles]
    BY NothingType DEF Init, Stages, Over
  <2> QED
    BY <1>1, <1>2, <2>1, <2>2, Constants DEF TypeOK
<1>4. CallsKnowWho /\ CallsKnowWhen /\ CallsKnowHurdles /\ CallsKnowPeriod /\ CallsKnowEntry
      /\ CallsKnowDays
  BY <1>1 DEF CallsKnowWho, CallsKnowWhen, CallsKnowHurdles, CallsKnowPeriod, CallsKnowEntry,
              CallsKnowDays, Knowing, Deciding, Over
<1>5. EntriesOK /\ ClassesAddUp /\ WeeklyLimitHolds
  BY <1>1, <1>2, FS_EmptySet DEF EntriesOK, ClassesAddUp, WeeklyLimitHolds
<1> QED
  BY <1>3, <1>4, <1>5 DEF IInv

LEMMA NextIInv == IInv /\ [Next]_vars => IInv'
BY TypeStep, WhoStep, WhenStep, HurdlesStep, PeriodStep, EntryStep, DaysStep, EntriesStep,
   ClassesStep, LimitStep DEF IInv

\* The invariant holds of every behaviour.
THEOREM Inductive == Spec => []IInv
BY InitIInv, NextIInv, PTL DEF Spec

-----------------------------------------------------------------------------
(* The theorems.                                                           *)

\* Rows, attendances and checks in flight have the shape the queries give them.
THEOREM TypeCorrect == Spec => []TypeOK
<1>1. IInv => TypeOK
  BY DEF IInv
<1> QED
  BY <1>1, Inductive, PTL

\* However many checks of however many branches race for the last class of a
\* pack, its classes are spent on its entries, one each, and on nothing else.
THEOREM ClassesAddUpHolds == Spec => []ClassesAddUp
<1>1. IInv => ClassesAddUp
  BY DEF IInv
<1> QED
  BY <1>1, Inductive, PTL

\* However many checks of a member run at once, the weekly limit of a plan holds
\* in each branch, the checks that ran past midnight apart.
THEOREM WeeklyLimitHoldsAlways == Spec => []WeeklyLimitHolds
<1>1. IInv => WeeklyLimitHolds
  BY DEF IInv
<1> QED
  BY <1>1, Inductive, PTL

LEMMA BarredStep ==
    ASSUME IInv, [Next]_vars, NEW a \in attended' \ attended
    PROVE  \E r \in Calls :
               /\ at[r] = "recording" /\ at'[r] = "entered" /\ about[r].member = a.member
               /\ hurdles[a.member] = {} \/ "member" \in changed[r]
               /\ \/ /\ periods[a.period].status = "ACTIVE"
                     /\ ~(periods[a.period].end # 0 /\ Ended(a.period))
                  \/ changed[r] \cap {"period", "day"} # {}
<1>1. TypeOK /\ CallsKnowHurdles /\ CallsKnowPeriod /\ CallsKnowWhen
  BY DEF IInv
<1>2. PICK r \in Calls : Enter(r) /\ a = Entry(r)
  BY Recorded
<1>3. PICK c : c = about[r]
  OBVIOUS
<1>4. at[r] = "recording" /\ Verdict(c) = "OK" /\ Moves(r, "entered", Nothing)
  BY <1>1, <1>2, <1>3, EnterFacts
<1>5. at'[r] = "entered"
  BY <1>1, <1>4 DEF Moves, TypeOK
<1>6. a.member = c.member /\ a.period = c.period
  BY <1>2, <1>3, EntryFacts
<1>7. hurdles[a.member] = {} \/ "member" \in changed[r]
  <2>1. c.barred \in SUBSET Hurdles
    BY <1>1, <1>3, Shapes DEF Read
  <2>2. c.barred = {}
    BY <1>4, <2>1, Constants, OkMeans
  <2>3. "member" \in changed[r] \/ c.barred = hurdles[c.member]
    BY <1>1, <1>3, <1>4 DEF CallsKnowHurdles, Knowing
  <2> QED
    BY <1>6, <2>2, <2>3
<1>8. ASSUME changed[r] \cap {"period", "day"} = {}
      PROVE  /\ periods[a.period].status = "ACTIVE"
             /\ ~(periods[a.period].end # 0 /\ Ended(a.period))
  <2>1. c.today = day
    BY <1>1, <1>3, <1>4, <1>8 DEF CallsKnowWhen, Knowing
  <2>2. /\ c.period # None /\ c.status = "ACTIVE"
        /\ periods[c.period].end = 0 \/ ~(periods[c.period].end < c.today)
    BY <1>4, OkMeans
  <2>3. c.status = periods[c.period].status
    BY <1>1, <1>3, <1>4, <1>8, <2>2 DEF CallsKnowPeriod, Deciding
  <2> QED
    BY <1>6, <2>1, <2>2, <2>3 DEF Ended
<1> QED
  BY <1>3, <1>4, <1>5, <1>6, <1>7, <1>8

\* Nobody enters who was barred, or whose membership was over, before the check
\* read it and ever since, whatever goes on at the desk meanwhile.
THEOREM BarredStaysOutHolds == Spec => BarredStaysOut
<1>1. IInv /\ [Next]_vars =>
          [\A a \in attended' \ attended : \E r \in Calls :
              /\ at[r] = "recording" /\ at'[r] = "entered" /\ about[r].member = a.member
              /\ hurdles[a.member] = {} \/ "member" \in changed[r]
              /\ \/ periods[a.period].status = "ACTIVE" /\ ~(periods[a.period].end # 0 /\ Ended(a.period))
                 \/ changed[r] \cap {"period", "day"} # {}]_vars
  BY BarredStep
<1> QED
  BY <1>1, Inductive, PTL DEF Spec, BarredStaysOut

LEMMA AgainStep ==
    ASSUME IInv, [Next]_vars, NEW q \in Calls, at[q] \notin Over, at'[q] = "again"
    PROVE  \E a \in attended :
               /\ a.member = about[q].member /\ a.branch = about[q].branch
               /\ a.day = about[q].today
<1>1. TypeOK /\ CallsKnowEntry
  BY DEF IInv
<1>2. CASE UNCHANGED vars
  BY <1>2 DEF vars, callVars, Over
<1>3. CASE at' = at
  BY <1>3 DEF Over
<1>4. ASSUME NEW r \in Calls, NEW o, Answer(r, o) \/ \E what : Note(r, o, what)
      PROVE  r = q /\ o = "again"
  BY <1>1, <1>4 DEF Answer, Note, TypeOK, Over
<1>5. ASSUME NEW r \in Calls, Refuse(r)
      PROVE  \E a \in attended :
                 /\ a.member = about[q].member /\ a.branch = about[q].branch
                 /\ a.day = about[q].today
  <2>1. /\ at[r] = "recording"
        /\ Answer(r, IF Verdict(about[r]) = "DUPLICATE_WINDOW" THEN "again" ELSE "refused")
    BY <1>5 DEF Refuse
  <2>2. r = q /\ Verdict(about[q]) = "DUPLICATE_WINDOW"
    BY <1>4, <2>1
  <2>3. about[q].entered
    BY <2>2, AgainMeans
  <2> QED
    BY <1>1, <2>1, <2>2, <2>3 DEF CallsKnowEntry
<1>6. ASSUME NEW r \in Calls, EnterAgain(r)
      PROVE  \E a \in attended :
                 /\ a.member = about[q].member /\ a.branch = about[q].branch
                 /\ a.day = about[q].today
  BY <1>4, <1>6 DEF EnterAgain, Twice
<1>7. ASSUME NEW r \in Calls, Enter(r) \/ EnterWithoutClass(r)
      PROVE  FALSE
  <2>1. Answer(r, "entered") \/ Answer(r, "failed")
    BY <1>7 DEF Enter, EnterWithoutClass
  <2> QED
    BY <1>4, <2>1
<1>8. ASSUME NEW r \in Calls, ReadMember(r) \/ ReadMembership(r) \/ ReadAttendance(r)
      PROVE  FALSE
  <2>1. \E what : Note(r, "membership", what) \/ Note(r, "attendance", what)
                  \/ Note(r, "recording", what)
    BY <1>8 DEF ReadMember, ReadMembership, ReadAttendance
  <2> QED
    BY <1>4, <2>1
<1>9. ASSUME NEW r \in Calls, NEW b \in Branches,
             Probe(r, b) \/ ProbeOfNobody(r, b) \/ \E m \in Visitors : Check(r, b, m)
      PROVE  FALSE
  <2>1. Answer(r, "refused") \/ \E what : Note(r, "member", what)
    BY <1>9 DEF Probe, ProbeOfNobody, Check
  <2> QED
    BY <1>4, <2>1
<1>10. ASSUME NEW m \in Visitors, NEW S, SetHurdles(m, S)
       PROVE  at' = at
  BY <1>10 DEF SetHurdles, callVars
<1>11. ASSUME NEW m \in Visitors, NEW plan, NEW start, Assign(m, plan, start)
       PROVE  at' = at
  BY <1>11 DEF Assign, callVars
<1>12. ASSUME NEW p \in DOMAIN periods, Cancel(p) \/ Expire(p)
       PROVE  at' = at
  BY <1>12 DEF Cancel, Expire, SetStatus, callVars
<1>13. CASE Midnight
  BY <1>3, <1>13 DEF Midnight, callVars
<1> QED
  BY <1>2, <1>3, <1>5, <1>6, <1>7, <1>8, <1>9, <1>10, <1>11, <1>12, <1>13 DEF Next

\* Who is told that the entry of the day was recorded already has one of this
\* branch, whether the check counted it or another check recorded it since.
THEOREM ReentryHasEntryHolds == Spec => ReentryHasEntry
<1>1. IInv /\ [Next]_vars =>
          [\A r \in Calls : at[r] \notin Over /\ at'[r] = "again" =>
              \E a \in attended :
                  a.member = about[r].member /\ a.branch = about[r].branch /\ a.day = about[r].today]_vars
  BY AgainStep
<1> QED
  BY <1>1, Inductive, PTL DEF Spec, ReentryHasEntry

=============================================================================
