SPECIFICATION FairSpec
CONSTANTS
    Ops = {o1, o2}
    Conns = {c1, c2}
    None = None
INVARIANTS
    ReaderIsHeld
PROPERTIES
    CancelledOperationEnds
CHECK_DEADLOCK FALSE
