SPECIFICATION Spec
CONSTANTS
    Names = {hex, default, odd, dir}
    HexNames = {hex}
    SlugNames = {hex, default}
    DefaultName = default
    NoName = NoName
    Ports = {8787, 8788}
    NoUrl = NoUrl
    Commands = {c1, c2}
    Inodes = {i1, i2, i3, i4}
    NoFile = NoFile
    OwnUrl = OwnUrl
    Partial = Partial
    OwnKeys = {"HTTPS_PROXY"}
    Dirs = {dir}
    Clients = {"claude", "cc", "codex", "cursor", "continue"}
    MaxRuns = 3
    MaxSaves = 2
    MaxCrashes = 1
    MaxEarlier = 1
SYMMETRY Symmetry
CONSTRAINT FilesOrSession
INVARIANTS
    RoutedIsWhole
    SettingsStayWhole
    SameProject
PROPERTIES
    CommandKeepsOthers
CHECK_DEADLOCK FALSE
