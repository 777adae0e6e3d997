SPECIFICATION FairSpec
CONSTANTS
    Handlers = {h1}
    e1 = e1
    e2 = e2
    Ids <- TwoIds
    Messages <- TwoMessages
    Times = {1, 2}
    NoId = NoId
    NoTime = NoTime
    QueueMax = 2
    MaxBatch = 1
    MaxFaults = 1
    MaxPurges = 1
INVARIANTS
    TypeOK
    AfterFollowsTime
    FacetedIsIndexed
PROPERTIES
    QueuedGetsFaceted
