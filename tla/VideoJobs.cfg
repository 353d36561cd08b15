SPECIFICATION Spec
CONSTANTS
    c1 = c1
    c2 = c2
    c3 = c3
    sora = sora
    canned = canned
    empty = empty
    Creates = {c1, c2, c3}
    Asks <- MCAsks
    VideoScenarios <- MCVideoScenarios
    MaxRestarts = 1
    Models = {sora}
    OtherOps = {"video"}
    Texts = {canned}
    DefaultReply = canned
    EmptyText = empty
    ErrorCodes = {503}
INVARIANTS
    IdsUnique
    ToldJobIsStored
    MissMeansRestart
    VideoInv
PROPERTIES
    JobsPermanent
    ImplementsRegistry
