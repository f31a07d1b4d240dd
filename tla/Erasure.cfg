SPECIFICATION PastSpec
CONSTANTS
    s1 = s1 s2 = s2 a1 = a1 a2 = a2 t1 = t1 w1 = w1
    Sessions = {s1, s2}
    Strategies = {"facts", "preferences"}
    KnownStrategies = {"facts", "preferences"}
    PreferenceStrategies = {"preferences"}
    NoActor = NoActor
    NoClaim = NoClaim
    Tenants = {t1}
    Actors = {a1, a2}
    Tenant <- TenantOfTwo
    Actor <- ActorOfTwo
    Workers = {w1}
    BatchSize = 1
    WindowEvents = 1
    MaxAttempts = 1
    NoRow = NoRow
    MaxEvents = 2
    MaxChanges = 0
    MaxAborts = 0
    MaxRequests = 2
    MaxCurations = 2
INVARIANTS
    
    ChainsAreWhole
