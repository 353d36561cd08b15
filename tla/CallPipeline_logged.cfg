SPECIFICATION PipelineSpec
CONSTANTS
    ask = ask
    askAgain = askAgain
    film = film
    filmAgain = filmAgain
    embed = embed
    embedAgain = embedAgain
    gpt = gpt
    sora = sora
    id1 = id1
    id2 = id2
    id3 = id3
    NoCallId = NoCallId
    NoId = NoId
    Calls <- MCCalls
    RequestOf <- MCRequestOf
    RouteOf <- MCRouteOf
    CallIdOf <- MCCallIdOf
    Sessions <- MCFilmSession
    CallOf <- MCCallOf
    Deliveries <- MCDeliveries
    KindOf <- MCKindOf
    KeyOf <- MCKeyOf
    ModelOf <- MCModelOf
    Malformed = {}
    MongoFaults = FALSE
    MaxTime = 1
    MaxCrashes = 0
    MaxMishaps = 1
INVARIANT
    EverySuccessfulCallLogged
