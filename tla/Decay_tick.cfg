SPECIFICATION FairSpec
CONSTANTS
    e1 = e1
    e2 = e2
    e3 = e3
    Order <- MCOrder
    Broken = {"c"}
    Episodes <- MCEpisodes
    Home <- MCHome
    Type <- MCType
    Ts <- MCTs
    Tools <- MCTools
    Pinned = {e3}
    Hits <- MCHits
    Fade <- MCFade
    MaxTime = 2
    MaxFaults = 2
    MaxWrites = 3
INVARIANTS
    ImportanceIsCurrent
PROPERTIES
    EveryProjectDecays
