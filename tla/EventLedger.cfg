SPECIFICATION Spec
CONSTANTS
    e1 = e1
    e1again = e1again
    e2 = e2
    w1 = w1
    broken = broken
    gpt = gpt
    resp1 = resp1
    resp2 = resp2
    call1 = call1
    Deliveries <- MCDeliveries
    KindOf <- MCKindOf
    KeyOf <- MCKeyOf
    ModelOf <- MCModelOf
    Malformed = {broken}
    MongoFaults = TRUE
    MaxTime = 2
    MaxCrashes = 1
    MatchWindow = 1
    DefaultLimit = 1
    MaxLimit = 2
INVARIANTS
    LedgerInv
    OneAckPerEvent
    AckedIsListed
PROPERTIES
    LedgerGrows
    JoinMovesBack
