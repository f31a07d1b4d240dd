SPECIFICATION PastSpec
CONSTANTS
    c1 = c1 c2 = c2 a1 = a1 a2 = a2 m1 = m1 m2 = m2 r1 = r1 r2 = r2 v1 = v1 d1 = d1 d2 = d2
    Challenges = {c1, c2}
    Attestations = {a1, a2}
    Manifests = {m1, m2}
    Requests = {r1, r2}
    Verifiers = {v1}
    MaxAttempts = 2
    Events <- AllEvents
    Drainers = {d1, d2}
    Limit = 2
    MaxWrites = 2
    MaxDisturbances = 1
    None = None
CHECK_DEADLOCK FALSE
INVARIANTS
    TypeOK
    ConsumedOnce
    RetryGetsTheReceipt
    TrailIsComplete
PROPERTIES
    RevocationLinearizes
    ServesWhatIsVouched
    RowsAreDrained
