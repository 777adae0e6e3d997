SPECIFICATION RetrievalSpec
CONSTANTS
    Episodes = {1, 2, 3}
    Tokens <- ThreeTokens
    Signals <- ThreeSignals
    Matches <- ThreeMatches
    Rescued = {1, 3}
    Queries <- SomeQueries
    Budget = 5
    VectorK = 2
    GraphK = 2
    LexicalK = 2
    NameK = 1
    SeedK = 1
    ChainK = 3
    TopK = 2
    RrfK = 60
    MaxEvents = 3
    MaxPurges = 1
    MaxErrors = 1
    NoEpisode = 0
    Unit = 238266
INVARIANTS
    PreferredComesFirst
    FoundIsShown
PROPERTIES
    PurgedStaysOut
