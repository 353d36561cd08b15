SPECIFICATION Spec
CONSTANTS
    r1 = r1
    r2 = r2
    ada = ada
    dalle = dalle
    canned = canned
    empty = empty
    none = none
    Requests = {r1}
    Models = {ada, dalle}
    OtherOps <- MCOps
    Texts = {canned}
    DefaultReply = canned
    EmptyText = empty
    ErrorCodes = {0, 42, 400, 429}
    Inputs <- OneInput
    SeedFiles <- Seeds
    PutScenarios <- SlowPuts
    MaxPuts = 1
    MaxTime = 2
    NoModel = none
    DefaultImageModel = dalle
INVARIANTS
    LatencyInjected
