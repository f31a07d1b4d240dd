SPECIFICATION FairSpec
CONSTANTS
    d1 = d1 d2 = d2 t1 = t1 p1 = p1 p2 = p2
    Derivatives = {d1}
    Blocking = {d1}
    Tombstones = {t1}
    Causes <- CausesOfOne
    Authored <- AuthoredByOne
    Propagators = {p1, p2}
    WorkBatch = 2
    MaxAttempts = 2
    MaxLostTicks = 0
    Subjects = {}
    SweepBatch = 1
    MaxPasses = 2
    Rungs = 1
    MaxBuilds = 1
    MaxRenewals = 1
PROPERTIES
    SettlesOnce
