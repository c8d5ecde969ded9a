SPECIFICATION FairSpec
CONSTANTS
    Worker = {k1, k2}
    Writer = {w1, w2}
    Caller = {c1}
    None = None
INVARIANTS NoLostWriter RunningIsServed StoppedMeansStopped
PROPERTIES GoroutinesEnd StartReturnsIfSaved
