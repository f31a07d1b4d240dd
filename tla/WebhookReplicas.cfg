SPECIFICATION FairSpec
CONSTANTS
    d1 = d1 d2 = d2 w1 = w1 w2 = w2
    Deliveries = {d1}
    Workers = {w1, w2}
    BatchSize = 1
    MaxAttempts = 2
    Unsigned = {}
    MaxUpdates = 0
    MaxCrashes = 0
PROPERTIES
    SuccessIsFinal
