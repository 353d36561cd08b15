SPECIFICATION Spec
CONSTANTS
    gpt = gpt
    nova = nova
    v1 = v1
    v2 = v2
    gemini = gemini
    openai = openai
    amazon = amazon
    google = google
    NoModel = NoModel
    Pieces <- MCPieces
    Catalog <- MCCatalog
    Systems <- MCSystems
    Histories <- MCHistories
    Utterances <- MCUtterances
    Replies <- MCReplies
    MaxTurns = 3
    MaxAsked = 2
INVARIANTS
    ConversationInv
    SameEverywhere
    RepliesCostAgain
    CountAgrees
    NamesMeanOneModel
