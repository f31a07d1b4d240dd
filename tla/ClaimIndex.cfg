SPECIFICATION FairSpec
CHECK_DEADLOCK FALSE
CONSTANTS
    c1 = c1 c2 = c2 q1 = q1 q2 = q2 e1 = e1 e2 = e2 p1 = p1
    Derivatives = {c1}
    Targets = {c1}
    Blocking = {}
    Causes = {"policy_change", "expiry", "erasure"}
    Propagators = {p1}
    WorkBatch = 1
    MaxAttempts = 1
    MaxLostTicks = 1
    Drainers = {e1, e2}
    DrainBatch = 1
    MaxEmbedAttempts = 2
    MaxLostDrains = 1
    Quarantines = {q1, q2}
    MaxInterventions = 2
    MaxLost = 1
INVARIANTS
    TypeOK
    ServableIsIndexed
    RetiredLeavesIndex
    WithheldIffHeld
PROPERTIES
    RequestsSettle
