---- MODULE MCMemberships ----
EXTENDS Memberships

\* Months of two days and of one: the second day is the anchor that has to move.
MCYear == <<1, 2>>

MCStartDates == {<<1, 2>>, <<2, 1>>}
MCFirstDay == <<1, 2>>
MCLastDay == <<3, 2>>

\* The loops of membership-renewal.ts and of renew: month by month.
Loop(first, day, d) ==
    LET months == first[1]..(d[1] + 1)
        step[m \in months] ==
            LET s == IF m = first[1] THEN first ELSE AnchoredDate(m, day)
            IN IF NextMonthlyDate(s, day) \preceq d THEN step[m + 1] ELSE s
    IN step[first[1]]

ASSUME CurrentStartIsTheLoop ==
    \A m1, m2 \in 1..4, d1, d2, day \in 1..3 :
        (d1 <= MonthLength(m1) /\ d2 <= MonthLength(m2) /\ m1 <= m2) =>
            CurrentStart(<<m1, d1>>, day, <<m2, d2>>)
                = Loop(<<m1, d1>>, day, <<m2, d2>>)
====
