SPECIFICATION Spec
CONSTANTS
    r1 = r1
    r2 = r2
    ada = ada
    dalle = dalle
    canned = canned
    empty = empty
    none = none
    Requests = {r1}
    Models = {ada, dalle}
    OtherOps <- MCOps
    Texts = {canned}
    DefaultReply = canned
    EmptyText = empty
    ErrorCodes = {0, 42, 400, 429}
    Inputs <- AllInputs
    SeedFiles <- Seeds
    PutScenarios <- AllPuts
    MaxPuts = 2
    MaxTime = 1
    NoModel = none
    DefaultImageModel = dalle
INVARIANTS
    AnswerFollowsScenario
    OneShotInv
