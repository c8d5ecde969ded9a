SPECIFICATION FairSpec
CONSTANTS
    Proc = {p1, p2}
    Key = {k1}
    TTL = {0, 1}
    MaxTime = 2
    MaxPending = 1
    None = None
PROPERTIES OnlyExpiredRemoved ExpiredIsRemoved WorkerEnds
