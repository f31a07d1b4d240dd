SPECIFICATION PurgeSpec
CONSTANTS
    s1 = s1 s2 = s2 a1 = a1 a2 = a2 t1 = t1 t2 = t2 w1 = w1 w2 = w2
    Sessions = {s1, s2}
    Strategies = {"facts", "retired"}
    KnownStrategies = {"facts"}
    Tenants = {t1, t2}
    Actors = {a1, a2}
    Tenant <- TenantOfTwo
    Actor <- ActorOfTwo
    Workers = {w1}
    BatchSize = 2
    WindowEvents = 2
    MaxAttempts = 2
    NoRow = NoRow
    MaxEvents = 2
    MaxChanges = 1
    MaxAborts = 0
INVARIANTS
    ClaimsCiteOwnSession
PROPERTIES
    FairBatches
