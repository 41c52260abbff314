-------------------------------- MODULE Access --------------------------------
(***************************************************************************)
(* Access to a branch: by an identifier typed or scanned (AccessService    *)
(* check) or by a fingerprint (resolveProbe and resolveMatch, then         *)
(* checkForMember).  A check reads the member, the membership and the      *)
(* attendances in queries of their own, decides on what it read            *)
(* (evaluateAccess), and records the entry in one transaction; meanwhile   *)
(* the desk, the worker, the clock and other checks go on.                 *)
(*                                                                         *)
(* What bars a member whatever the membership is one set of hurdles; a     *)
(* check reads the day together with the member.  The branches share one   *)
(* calendar, and every check registers the entry it allows.  Of an attempt *)
(* the model keeps whether the member entered, had entered already, was    *)
(* refused, or was told nothing.                                           *)
(***************************************************************************)
EXTENDS Integers, FiniteSets, Sequences

CONSTANTS
    Members, Branches, Calls,
    Visitors,       \* bound: the members who come, of those enrolled
    Hurdles,        \* what may bar a member, of MEMBER_INACTIVE, DEBT_BLOCKED
                    \* and MEDICAL_CLEARANCE_EXPIRED
    Plans,          \* [classes, days, limit, branches]; 0: no pack, no end, no limit
    MaxPeriods,     \* bound: the memberships assigned
    Starts,         \* bound: the start dates the desk types
    LastDay,        \* bound: the days of an instance
    DaysPerWeek,
    Credentials,    \* templates in force
    OwnerOf,        \* ... and their member
    MaxScore,       \* scores go from 0 to this
    Threshold,      \* BIOMETRIC_MATCH_THRESHOLD
    Margin,         \* BIOMETRIC_MATCH_AMBIGUITY_MARGIN
    None

Period == 1..MaxPeriods
Day == 1..LastDay

ASSUME AccessAssumption ==
    /\ MaxPeriods \in Nat /\ LastDay \in Nat \ {0} /\ DaysPerWeek \in Nat \ {0}
    /\ Plans \subseteq [classes : Nat, days : Nat, limit : Nat, branches : SUBSET Branches]
    /\ Visitors \subseteq Members /\ OwnerOf \in [Credentials -> Members]
    /\ Hurdles \subseteq {"MEMBER_INACTIVE", "DEBT_BLOCKED", "MEDICAL_CLEARANCE_EXPIRED"}
    /\ Starts \subseteq Int
    /\ MaxScore \in Nat /\ Threshold \in Nat /\ Margin \in Nat
    /\ None \notin Members /\ None \notin Period

VARIABLES
    day,            \* the business day
    hurdles,        \* what bars each member now
    periods,        \* memberships, by order of creation
    left,           \* their classesRemaining
    attended,       \* attendances
    at,             \* where each check is
    about,          \* its branch and member, and what it has read
    changed         \* history: what changed since it read it

deskVars == <<hurdles, periods>>
recordVars == <<left, attended>>
callVars == <<at, about>>
vars == <<day, deskVars, recordVars, callVars, changed>>

\* A call that has ended, or not begun, and may begin.
Over == {"idle", "entered", "again", "refused", "failed"}

Nothing == [branch |-> None, member |-> None, today |-> 0, barred |-> {}, period |-> None,
            status |-> None, classes |-> 0, entered |-> FALSE, days |-> 0]

Init ==
    /\ day = 1
    /\ hurdles = [m \in Members |-> {}]
    /\ periods = <<>>
    /\ left = <<>>
    /\ attended = {}
    /\ at = [r \in Calls |-> "idle"]
    /\ about = [r \in Calls |-> Nothing]
    /\ changed = [r \in Calls |-> {}]

-----------------------------------------------------------------------------
(* The rest of the system, as far as a check reads it.                     *)

\* The checks in flight about a member have something changed under them.
Disturb(what, m) ==
    changed' = [r \in Calls |->
        IF at[r] \notin Over /\ about[r].member = m THEN changed[r] \cup {what} ELSE changed[r]]

\* A charge, a payment, a deactivation, a new medical clearance.
SetHurdles(m, S) ==
    /\ hurdles[m] # S
    /\ hurdles' = [hurdles EXCEPT ![m] = S]
    /\ Disturb("member", m)
    /\ UNCHANGED <<day, periods, recordVars, callVars>>

\* assign: the desk types the start date.
Assign(m, plan, start) ==
    /\ Len(periods) < MaxPeriods
    /\ periods' = Append(periods,
           [owner |-> m, plan |-> plan, start |-> start, status |-> "ACTIVE",
            end |-> IF plan.days = 0 THEN 0 ELSE start + plan.days - 1])
    /\ left' = Append(left, plan.classes)
    /\ Disturb("period", m)
    /\ UNCHANGED <<day, hurdles, attended, callVars>>

\* A period is over: by its end date, or a pack by its consumption.
Ended(p) ==
    LET row == periods[p] IN
    IF row.end = 0 THEN row.plan.classes > 0 /\ left[p] = 0 ELSE row.end < day

SetStatus(p, status) ==
    /\ periods' = [periods EXCEPT ![p].status = status]
    /\ Disturb("period", periods[p].owner)
    /\ UNCHANGED <<day, hurdles, recordVars, callVars>>

Cancel(p) == periods[p].status # "CANCELLED" /\ SetStatus(p, "CANCELLED")

\* The worker's sweep.
Expire(p) == periods[p].status = "ACTIVE" /\ Ended(p) /\ SetStatus(p, "EXPIRED")

Midnight ==
    /\ day < LastDay
    /\ day' = day + 1
    /\ changed' = [r \in Calls |-> IF at[r] \in Over THEN {} ELSE changed[r] \cup {"day"}]
    /\ UNCHANGED <<deskVars, recordVars, callVars>>

-----------------------------------------------------------------------------
(* Finding the member.                                                     *)

\* The call goes on to a step, with what it knows; nothing else changes.
Note(r, step, what) ==
    /\ at' = [at EXCEPT ![r] = step]
    /\ about' = [about EXCEPT ![r] = what]
    /\ UNCHANGED <<day, deskVars, recordVars>>

\* The answer, with its attempt.
Answer(r, outcome) ==
    /\ at' = [at EXCEPT ![r] = outcome]
    /\ about' = [about EXCEPT ![r] = Nothing]
    /\ changed' = [changed EXCEPT ![r] = {}]

\* check, and checkForMember, for a member that is found.
Check(r, b, m) ==
    /\ at[r] \in Over
    /\ Note(r, "member", [Nothing EXCEPT !.branch = b, !.member = m])
    /\ UNCHANGED changed

\* What the matcher may say of the templates in force.
Scores == [Credentials -> 0..MaxScore]

\* The candidates a sort by score may put first.
Best(S, s) == {c \in S : \A d \in S : s[d] <= s[c]}

Rival(top, second, s) ==
    /\ s[second] >= Threshold
    /\ OwnerOf[second] # OwnerOf[top]
    /\ s[top] - s[second] <= Margin

Seconds(top, s) == Best(Credentials \ {top}, s)

\* resolveMatch: the best candidate, if it reaches the threshold and the second
\* best is not another member's within the margin ...
Matches(s) ==
    {OwnerOf[top] : top \in {c \in Best(Credentials, s) :
        /\ s[c] >= Threshold
        /\ Seconds(c, s) # {} => \E d \in Seconds(c, s) : ~Rival(c, d, s)}}

\* ... and nobody otherwise.
MayMatchNobody(s) ==
    \/ Credentials = {}
    \/ \E c \in Best(Credentials, s) :
           s[c] < Threshold \/ \E d \in Seconds(c, s) : Rival(c, d, s)

MayMatch == UNION {Matches(s) : s \in Scores}
MatchMayFail == \E s \in Scores : MayMatchNobody(s)

\* resolveProbe: nobody is found, or the check goes on about who was.
Probe(r, b) ==
    /\ at[r] \in Over
    /\ \E m \in Visitors \cap MayMatch :
          Note(r, "member", [Nothing EXCEPT !.branch = b, !.member = m])
    /\ UNCHANGED changed

ProbeOfNobody(r, b) ==
    /\ at[r] \in Over
    /\ MatchMayFail
    /\ Answer(r, "refused")
    /\ UNCHANGED <<day, deskVars, recordVars>>

-----------------------------------------------------------------------------
(* The decision.                                                           *)

ReadMember(r) ==
    LET m == about[r].member IN
    /\ at[r] = "member"
    /\ Note(r, "membership", [about[r] EXCEPT !.today = day, !.barred = hurdles[m]])
    /\ changed' = [changed EXCEPT ![r] = {}]

\* The last to start of the periods that are not cancelled.
Candidates(m) == {p \in DOMAIN periods : periods[p].owner = m /\ periods[p].status # "CANCELLED"}

Latest(m) == {p \in Candidates(m) : \A q \in Candidates(m) : periods[q].start <= periods[p].start}

ReadMembership(r) ==
    /\ at[r] = "membership"
    /\ \/ /\ Latest(about[r].member) = {}
          /\ Note(r, "attendance", about[r])
       \/ \E p \in Latest(about[r].member) :
             Note(r, "attendance", [about[r] EXCEPT !.period = p, !.status = periods[p].status,
                                                    !.classes = left[p]])
    /\ UNCHANGED changed

\* Mutant: the week begins on its second day.
Tuesday(d) == d - ((d - 1) % DaysPerWeek) + 1

\* mondayOfWeek
Monday(d) == d - ((d - 1) % DaysPerWeek)

\* attendanceSnapshot: from Monday on, today apart.
ReadAttendance(r) ==
    LET c == about[r]
        here == {a.day : a \in {x \in attended : x.member = c.member /\ x.branch = c.branch}}
    IN
    /\ at[r] = "attendance"
    /\ Note(r, "recording",
            [c EXCEPT !.entered = c.today \in here,
                      !.days = Cardinality({d \in here : d # c.today /\ d >= Monday(c.today)})])
    /\ UNCHANGED changed

\* Mutant: a debt bars nobody.
AppliesButDebt(reason, c) ==
    LET row == periods[c.period] IN
    CASE reason = "MEMBER_INACTIVE" -> "MEMBER_INACTIVE" \in c.barred
      [] reason = "NO_MEMBERSHIP" -> c.period = None
      [] reason = "MEMBERSHIP_EXPIRED" ->
            c.status # "ACTIVE" \/ (row.end # 0 /\ row.end < c.today)
      [] reason = "DEBT_BLOCKED" -> FALSE
      [] reason = "BRANCH_NOT_ALLOWED" -> c.branch \notin row.plan.branches
      [] reason = "NO_CLASSES_REMAINING" -> row.plan.classes > 0 /\ c.classes = 0
      [] reason = "WEEKLY_LIMIT_REACHED" -> row.plan.limit > 0 /\ c.days >= row.plan.limit
      [] reason = "MEDICAL_CLEARANCE_EXPIRED" -> "MEDICAL_CLEARANCE_EXPIRED" \in c.barred
      [] reason = "DUPLICATE_WINDOW" -> c.entered
      [] OTHER -> TRUE

\* evaluateAccess: the conditions, of which the first that applies decides.
Applies(reason, c) ==
    LET row == periods[c.period] IN
    CASE reason = "MEMBER_INACTIVE" -> "MEMBER_INACTIVE" \in c.barred
      [] reason = "NO_MEMBERSHIP" -> c.period = None
      [] reason = "MEMBERSHIP_EXPIRED" ->
            c.status # "ACTIVE" \/ (row.end # 0 /\ row.end < c.today)
      [] reason = "DEBT_BLOCKED" -> "DEBT_BLOCKED" \in c.barred
      [] reason = "BRANCH_NOT_ALLOWED" -> c.branch \notin row.plan.branches
      [] reason = "NO_CLASSES_REMAINING" -> row.plan.classes > 0 /\ c.classes = 0
      [] reason = "WEEKLY_LIMIT_REACHED" -> row.plan.limit > 0 /\ c.days >= row.plan.limit
      [] reason = "MEDICAL_CLEARANCE_EXPIRED" -> "MEDICAL_CLEARANCE_EXPIRED" \in c.barred
      [] reason = "DUPLICATE_WINDOW" -> c.entered
      [] OTHER -> TRUE

Order ==
    <<"MEMBER_INACTIVE", "NO_MEMBERSHIP", "MEMBERSHIP_EXPIRED", "DEBT_BLOCKED",
      "BRANCH_NOT_ALLOWED", "NO_CLASSES_REMAINING", "WEEKLY_LIMIT_REACHED",
      "MEDICAL_CLEARANCE_EXPIRED", "DUPLICATE_WINDOW", "OK">>

Verdict(c) ==
    Order[CHOOSE i \in DOMAIN Order :
              Applies(Order[i], c) /\ \A j \in 1..(i - 1) : ~Applies(Order[j], c)]

Refuse(r) ==
    /\ at[r] = "recording"
    /\ LET verdict == Verdict(about[r]) IN
       /\ verdict # "OK"
       /\ Answer(r, IF verdict = "DUPLICATE_WINDOW" THEN "again" ELSE "refused")
    /\ UNCHANGED <<day, deskVars, recordVars>>

Entry(r) == [member |-> about[r].member, branch |-> about[r].branch, day |-> about[r].today,
             period |-> about[r].period, late |-> "day" \in changed[r]]

\* Mutant: an attendance in any branch counts.
TwiceAnywhere(r) == \E a \in attended : a.member = about[r].member /\ a.day = about[r].today

\* unique(gymId, memberId, branchId, occurredOn)
Twice(r) == \E a \in attended :
    a.member = about[r].member /\ a.branch = about[r].branch /\ a.day = about[r].today

Pack(p) == periods[p].plan.classes > 0

\* Mutant: the class is taken from what was read.
TakeClassRead(r) ==
    LET p == about[r].period IN
    left' = IF Pack(p) THEN [left EXCEPT ![p] = about[r].classes - 1] ELSE left

\* decrement, in the database.
TakeClass(r) ==
    LET p == about[r].period IN
    left' = IF Pack(p) THEN [left EXCEPT ![p] = @ - 1] ELSE left

\* The attendance, the class and the attempt.
Enter(r) ==
    /\ at[r] = "recording"
    /\ Verdict(about[r]) = "OK"
    /\ ~Twice(r)
    /\ Pack(about[r].period) => left[about[r].period] > 0
    /\ attended' = attended \cup {Entry(r)}
    /\ TakeClass(r)
    /\ Answer(r, "entered")
    /\ UNCHANGED <<day, deskVars>>

\* Another check has recorded the entry of the day: the unique index.
EnterAgain(r) ==
    /\ at[r] = "recording"
    /\ Verdict(about[r]) = "OK"
    /\ Twice(r)
    /\ Answer(r, "again")
    /\ UNCHANGED <<day, deskVars, recordVars>>

\* Another branch has taken the last class: the check of the column fails, and
\* the call with it.
EnterWithoutClass(r) ==
    /\ at[r] = "recording"
    /\ Verdict(about[r]) = "OK"
    /\ ~Twice(r)
    /\ Pack(about[r].period) /\ left[about[r].period] = 0
    /\ Answer(r, "failed")
    /\ UNCHANGED <<day, deskVars, recordVars>>

-----------------------------------------------------------------------------
Next ==
    \/ \E m \in Visitors, S \in SUBSET Hurdles : SetHurdles(m, S)
    \/ \E m \in Visitors, plan \in Plans, start \in Starts : Assign(m, plan, start)
    \/ \E p \in DOMAIN periods : Cancel(p) \/ Expire(p)
    \/ Midnight
    \/ \E r \in Calls, b \in Branches :
          Probe(r, b) \/ ProbeOfNobody(r, b) \/ \E m \in Visitors : Check(r, b, m)
    \/ \E r \in Calls :
          \/ ReadMember(r) \/ ReadMembership(r) \/ ReadAttendance(r)
          \/ Refuse(r) \/ Enter(r) \/ EnterAgain(r) \/ EnterWithoutClass(r)

Spec == Init /\ [][Next]_vars

-----------------------------------------------------------------------------
(* Properties.                                                             *)

Stages == Over \cup {"member", "membership", "attendance", "recording"}
Statuses == {"ACTIVE", "EXPIRED", "CANCELLED"}

Row == [owner : Members, plan : Plans, start : Int, status : Statuses, end : Int]
Attendance ==
    [member : Members, branch : Branches, day : Day, period : Period, late : BOOLEAN]
Read ==
    [branch : Branches \cup {None}, member : Members \cup {None}, today : 0..LastDay,
     barred : SUBSET Hurdles, period : Period \cup {None}, status : Statuses \cup {None},
     classes : Nat, entered : BOOLEAN, days : Nat]

TypeOK ==
    /\ day \in Day
    /\ hurdles \in [Members -> SUBSET Hurdles]
    /\ periods \in Seq(Row) /\ Len(periods) <= MaxPeriods
    /\ left \in Seq(Nat) /\ Len(left) = Len(periods)
    /\ \A p \in DOMAIN periods : left[p] <= periods[p].plan.classes
    /\ attended \subseteq Attendance
    /\ at \in [Calls -> Stages]
    /\ about \in [Calls -> Read]
    /\ changed \in [Calls -> SUBSET {"member", "period", "day"}]

\* The classes of a pack are spent on its entries and on nothing else, whatever
\* checks of several branches race for the last one (decrement and the check of
\* the column, in the transaction of the attendance).
ClassesAddUp ==
    \A p \in DOMAIN periods :
        Pack(p) => left[p] + Cardinality({a \in attended : a.period = p}) = periods[p].plan.classes

WeekOf(d) == (d - 1) \div DaysPerWeek

\* The weekly limit of a plan holds in each branch, except for checks that ran
\* past midnight (attendanceSnapshot and evaluateAccess, then the unique index
\* that stops the second entry of a day).
WeeklyLimitHolds ==
    \A p \in DOMAIN periods, b \in Branches, d \in Day :
        LET days == {a.day : a \in {x \in attended :
                        x.period = p /\ x.branch = b /\ WeekOf(x.day) = WeekOf(d) /\ ~x.late}}
        IN periods[p].plan.limit > 0 => Cardinality(days) <= periods[p].plan.limit

\* Nobody enters who was barred, or whose period was over, before the check read
\* it and ever since: what a check may miss is what changed while it ran.
BarredStaysOut ==
    [][\A a \in attended' \ attended : \E r \in Calls :
          /\ at[r] = "recording" /\ at'[r] = "entered" /\ about[r].member = a.member
          /\ hurdles[a.member] = {} \/ "member" \in changed[r]
          /\ \/ periods[a.period].status = "ACTIVE" /\ ~(periods[a.period].end # 0 /\ Ended(a.period))
             \/ changed[r] \cap {"period", "day"} # {}]_vars

\* Who is told that the entry of the day was recorded already has one of this
\* branch, also when another check recorded it first (isDuplicateAttendance).
ReentryHasEntry ==
    [][\A r \in Calls : at[r] \notin Over /\ at'[r] = "again" =>
          \E a \in attended :
              a.member = about[r].member /\ a.branch = about[r].branch /\ a.day = about[r].today]_vars
=============================================================================
