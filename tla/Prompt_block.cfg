SPECIFICATION Spec
CONSTANTS
    Systems <- SomeSystems
    Anchors <- SomeAnchors
    Block = Block
    Billing = Billing
    Identity = Identity
    Rules = Rules
    Anchor = 1
    Recent = 1
    MaxMessages = 7
    MaxFaults = 1
INVARIANTS
    OnlyTheBlockIsAdded
    BlockIsNotArchived
    PairsStayWhole
CHECK_DEADLOCK FALSE
