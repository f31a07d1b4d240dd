SPECIFICATION FairSpec
CONSTANTS
    d1 = d1 d2 = d2 t1 = t1 p1 = p1 p2 = p2
    Derivatives = {d1, d2}
    Blocking = {d1}
    Tombstones = {t1}
    Causes <- CausesOfOne
    Authored <- AuthoredByOne
    Propagators = {p1}
    WorkBatch = 2
    MaxAttempts = 2
    MaxLostTicks = 1
    Subjects = {d1}
    SweepBatch = 1
    MaxPasses = 2
    Rungs = 1
    MaxBuilds = 2
    MaxRenewals = 1
INVARIANTS
    TypeOK
    HoldsProtect
PROPERTIES
    OwedIsSettled
    OverdueIsQueued
