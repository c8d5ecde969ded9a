SPECIFICATION Spec
CONSTANTS
    p1 = p1
    p2 = p2
    k1 = k1
    k2 = k2
    k3 = k3
    short = short
    long = long
    Nil = Nil
    Missing = Missing
    Proc = {p1, p2}
    Key <- MCKey
    Value = {short, long}
    KeyLen <- MCKeyLen
    ValLen <- MCValLen
    ShardCount = 2
    ShardOf <- MCShardOf
    Limits <- MCLimits
    MaxGets = 2
    MaxResets = 1
INVARIANT ConcurrencySafe
CHECK_DEADLOCK FALSE
