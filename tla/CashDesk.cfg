SPECIFICATION Spec
CONSTANTS
    Users = {u1}
    Registers = {r1}
    Methods = {efectivo, transfer}
    CashMethods = {efectivo}
    Members = {m1}
    NoMember = NoMember
    Amounts = {1}
    Openings = {1}
    Requests = {q1, q2}
    MaxSessions = 1
    MaxMovements = 3
    MaxLines = 1
SYMMETRY Symmetry
INVARIANTS
    ReversalPairs
    LockedCollectionsCounted
    DetailsAddUp
PROPERTIES
    ImplementsBook
CHECK_DEADLOCK FALSE
