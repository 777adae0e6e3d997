SPECIFICATION Spec
CONSTANTS
    Sessions = {s1, s2}
    Turns = {a1, a2}
    Never = Never
    Window = 0
    TTL = 0
    MaxRescue = 1
    MaxLen = 2
    MaxTime = 1
SYMMETRY Symmetry
INVARIANTS
    RescueIsComplete
PROPERTIES
    RescueIsRecent
