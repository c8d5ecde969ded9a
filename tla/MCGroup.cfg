SPECIFICATION FairSpec
CONSTANTS
    Proc = {p1, p2, p3}
    Key = {k1}
    Call = {c1, c2, c3}
    PanicKey = {k1}
    Limited = TRUE
    NoCall = NoCall
    Unset = Unset
    Missing = Missing
    Err = Err
    MaxVersion = 2
INVARIANTS OneLoadPerKey GroupInv
CHECK_DEADLOCK FALSE
PROPERTIES ImplementsReadThrough GetReturnsUnlessPoisoned
