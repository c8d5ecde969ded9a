SPECIFICATION HFairSpec
CONSTANTS
    Proc = {p1, p2, p3}
    Key = {k1, k2}
    Call = {c1, c2, c3, c4}
    Result = {ok}
    PanicKey = {k2}
    NoCall = NoCall
    Unset = Unset
    MaxRuns = 2
INVARIANTS FlightInv
PROPERTIES ResultIsStable ImplementsCoalescing DoReturns
CHECK_DEADLOCK FALSE
