SPECIFICATION FairSpec
CONSTANTS
    k1 = k1
    k2 = k2
    k3 = k3
    short = short
    short2 = short2
    long = long
    Missing = Missing
    Key <- MCKey
    Value <- MCValue
    KeyLen <- MCKeyLen
    ValLen <- MCValLen
    Limits <- MCLimits
INVARIANTS IndexMatchesList HoldsMostRecent
PROPERTIES EvictsExactly ImplementsCacheStore AddReturns
