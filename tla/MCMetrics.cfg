SPECIFICATION MetricsSpec
CONSTANTS
    p1 = p1
    p2 = p2
    p3 = p3
    Caller <- MCCaller
    Durations = {1, 3}
    MaxGets = 3
    MaxResets = 1
SYMMETRY MCSymmetry
INVARIANTS RecordsAddUp StatsErrsOneWay
CHECK_DEADLOCK FALSE
