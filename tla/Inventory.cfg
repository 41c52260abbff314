SPECIFICATION ShopSpec
CONSTANTS
    Users = {u1}
    Registers = {r1}
    Methods = {efectivo}
    CashMethods = {efectivo}
    Members = {}
    NoMember = NoMember
    Amounts = {1}
    Openings = {0}
    Requests = {q1}
    MaxSessions = 1
    MaxMovements = 3
    MaxLines = 0
    Products = {p1}
    Prices = {1}
    Quantities = {1}
    Keys = {k1, k2, k3}
    Calls = {c1, c2}
    None = None
    MaxStock = 1
    FirstStock = 1
SYMMETRY Symmetry
INVARIANTS
    StockIsCounted
    SalesMatchTheDesk
    OneEffectPerKey
CHECK_DEADLOCK FALSE
