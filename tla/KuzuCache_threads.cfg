SPECIFICATION CacheSpec
CONSTANTS
    Projects = {p1, p2, p3, p4}
    Threads = {t1, t2}
    Handles = {h1, h2, h3, h4, h5, h6}
    NoHandle = NoHandle
    NoProject = NoProject
    MaxCache = 3
    Statements = 2
    MaxErrors = 1
SYMMETRY Symmetry
INVARIANTS
    SchemaBeforeUse
    HeldIsCached
