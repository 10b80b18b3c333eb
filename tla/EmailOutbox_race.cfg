\* Two producers race for one key, a third has its own; two ticks overlap.
CONSTANTS
    k1 = k1
    k2 = k2
    p1 = p1
    p2 = p2
    p3 = p3
    Keys = {k1, k2}
    Producers = {p1, p2, p3}
    KeyOf <- SharedKey
    Workers = {w1, w2}
    BatchSize = 1
    MaxAttempts = 2
    MaxBackoff = 1
    MaxFailures = 1
SPECIFICATION FairSpec
INVARIANTS
    QueuedByCommit
    CopiesAreAccounted
PROPERTIES
    KeepsPromise
    EveryMessageSettles
