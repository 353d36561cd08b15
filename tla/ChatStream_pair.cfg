SPECIFICATION Spec
CONSTANTS
    r1 = r1
    gpt = gpt
    gemini = gemini
    canned = canned
    long = long
    short = short
    empty = empty
    r2 = r2
    Requests = {r1, r2}
    Models <- TwoModels
    OtherOps = {"video"}
    Texts <- MCTexts
    DefaultReply = canned
    EmptyText = empty
    ErrorCodes = {0, 42, 103, 429}
    Inputs <- PairInputs
    SeedFiles <- NoSeed
    PutScenarios <- PairPuts
    MaxPuts = 1
    WordCount <- MCWordCount
    TextLength <- MCTextLength
    PromptTokens = 2
INVARIANTS
    NoOrphanProducer
    ChatInv
PROPERTIES
    ImplementsContract
