SPECIFICATION FairSpec
CONSTANTS
    Members = {m1}
    CashSession = CashSession
    Txs = {t1, t2, t3}
    Amounts = {1}
    Fee = 2
    MaxBegun = 3
INVARIANTS
    LedgerChain
PROPERTIES
    ImplementsAccount
    EveryTransactionEnds
CHECK_DEADLOCK FALSE
