SPECIFICATION Spec
CONSTANTS
    Modes <- Passive
    Caps = {0, 2}
    Inputs = {0, 4}
    Bodies <- WholeEvents
    MaxIds = 1
    MaxFaults = 0
INVARIANTS
    PassiveObservesOnly
CHECK_DEADLOCK FALSE
