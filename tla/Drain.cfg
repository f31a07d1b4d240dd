SPECIFICATION FairSpec
CONSTANTS
    s1 = s1 s2 = s2 a1 = a1 a2 = a2 t1 = t1 t2 = t2 w1 = w1 w2 = w2
    Sessions = {s1}
    Strategies = {"facts"}
    KnownStrategies = {"facts"}
    Tenants = {t1}
    Actors = {a1}
    Tenant <- TenantOfOne
    Actor <- ActorOfOne
    Workers = {w1, w2}
    BatchSize = 1
    WindowEvents = 1
    MaxAttempts = 2
    NoRow = NoRow
    MaxEvents = 2
    MaxChanges = 1
    MaxAborts = 1
INVARIANTS
    TypeOK
    NoTurnLost
    QueuedWindowsAreSound
PROPERTIES
    QueueDrains
