SPECIFICATION FairSpec
CONSTANTS
    r1 = r1
    gpt = gpt
    gemini = gemini
    canned = canned
    long = long
    short = short
    empty = empty
    r2 = r2
    Requests = {r1}
    Models <- OneModel
    OtherOps = {"video"}
    Texts <- MCTexts
    DefaultReply = canned
    EmptyText = empty
    ErrorCodes = {0, 42, 103, 429}
    Inputs <- AllInputs
    SeedFiles <- Seeds
    PutScenarios <- AllPuts
    MaxPuts = 2
    WordCount <- MCWordCount
    TextLength <- MCTextLength
    PromptTokens = 2
INVARIANTS
    ConnectedClientGetsWholeReply
    SpokenIsPrefixOfReply
    UsageOnlyWithFullText
    AnswerWasInForce
    AtMostOneLateWord
PROPERTIES
    GoneClientsReleased
    ReadingClientsServed
