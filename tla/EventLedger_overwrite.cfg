SPECIFICATION Spec
CONSTANTS
    e1 = e1
    e1again = e1again
    e2 = e2
    w1 = w1
    broken = broken
    gpt = gpt
    resp1 = resp1
    resp2 = resp2
    call1 = call1
    Deliveries <- CachedDeliveries
    KindOf <- MCKindOf
    KeyOf <- MCKeyOf
    ModelOf <- MCModelOf
    Malformed = {}
    MongoFaults = FALSE
    MaxTime = 1
    MaxCrashes = 0
    MatchWindow = 2
    DefaultLimit = 1
    MaxLimit = 2
PROPERTIES
    SecondEventOverwrites
