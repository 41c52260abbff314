SPECIFICATION FairMembershipsSpec
CONSTANTS
    MaxPeriods = 3
    Year <- MCYear
    StartDates <- MCStartDates
    FirstDay <- MCFirstDay
    LastDay <- MCLastDay
    MaxFaults = 1
INVARIANTS
    PeriodsInOrder
PROPERTIES
    RenewalFits
    WorkerChargesOnlyToday
    StopsAreHonoured
    DueRecurrenceSettles
CHECK_DEADLOCK FALSE
