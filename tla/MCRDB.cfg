SPECIFICATION RDBSpec
CONSTANTS
    Reader = {r1}
    Cleaner = {c1, c2}
    Keep = 1
    Compression = {TRUE, FALSE}
    MaxTime = 2
    NoFile = NoFile
INVARIANTS KeepsNewest NoTornRead NoStaleLoad Tidy
PROPERTY ImplementsSnapshotStore
