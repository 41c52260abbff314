SPECIFICATION Spec
CONSTANTS
    m1 = m1
    m2 = m2
    b1 = b1
    b2 = b2
    f1 = f1
    f2 = f2
    f3 = f3
    Members = {m1, m2}
    Visitors = {m1}
    Branches = {b1, b2}
    Calls = {r1, r2}
    Hurdles = {"DEBT_BLOCKED"}
    Plans <- MCPlans
    MaxPeriods = 1
    LastDay = 2
    Starts = {1}
    DaysPerWeek = 2
    Credentials = {f1, f2, f3}
    OwnerOf <- MCOwnerOf
    MaxScore = 2
    Threshold = 1
    Margin = 0
    None = None
INVARIANTS
    ClassesAddUp
    WeeklyLimitHolds
PROPERTIES
    ReentryHasEntry
    BarredStaysOut
SYMMETRY Symmetry
CHECK_DEADLOCK FALSE
