SPECIFICATION Spec
CONSTANTS
    Writers = {w1, w2}
    Turns = {t1, t2}
    Ids = {i1, i2, i3, i4}
    NoId = NoId
    MaxBatch = 2
    MaxFaults = 1
    MaxPurges = 1
SYMMETRY Symmetry
CONSTRAINT LessWorkMoreTrouble
INVARIANTS
    TypeOK
    ReceiptsValid
    DroppedArchived
    FtsMirror
PROPERTIES
    RowsPersist
    ArchiveIsStore
