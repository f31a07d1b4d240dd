SPECIFICATION FairSpec
CONSTANTS
    d1 = d1 d2 = d2 w1 = w1 w2 = w2
    Deliveries = {d1, d2}
    Workers = {w1, w2}
    BatchSize = 1
    MaxAttempts = 2
    Unsigned = {d1}
    MaxUpdates = 1
    MaxCrashes = 1
INVARIANTS
    TypeOK
    AttemptsCoverPosts
    GivesUpOnlyWhenSpent
PROPERTIES
    EveryDeliveryIsAttempted
