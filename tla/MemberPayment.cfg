SPECIFICATION PaymentSpec
CONSTANTS
    Desks = {d1}
    Price = 2
    FreeAmounts = {1}
    TransferFee = 1
    MaxMemberships = 2
    MaxVersion = 5
INVARIANTS
    QuotesAreSound
    ChargesAreSound
PROPERTIES
    PaysAsQuoted
CHECK_DEADLOCK FALSE
