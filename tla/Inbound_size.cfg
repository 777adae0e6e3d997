SPECIFICATION Spec
CONSTANTS
    Requests = {r1, r2}
    Writers = {w1, w2}
    Payloads <- AllPayloads
    Environments <- SomeEnvironments
    Options <- SomeOptions
    Defaults <- DefaultSettings
    Anchor = 1
    Recent = 1
    PctMinTotal = 8
    MinBudget = 1
    MaxBudget = 3
    Frame = 1
    MaxChanges = 2
    MaxFaults = 1
SYMMETRY Symmetry
CONSTRAINT CrossingIsSimple
INVARIANTS
    TrimsAsNeeded
    SettingTakesEffect
    SettingPersists
PROPERTIES
    FitsCeiling
