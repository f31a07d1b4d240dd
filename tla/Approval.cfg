SPECIFICATION Spec
CHECK_DEADLOCK FALSE
SYMMETRY Symmetry
CONSTANTS
    c1 = c1 c2 = c2 s1 = s1 s2 = s2 k1 = k1 a1 = a1 a2 = a2
    MaxVersion = 2
    Challenges = {c1, c2}
    Candidates = {s1, s2}
    Verifiers = {k1}
    Activators = {a1, a2}
    MaxAttempts = 2
    MaxLive = 1
    MaxDisturbances = 1
    NoCandidate = NoCandidate
    NoChallenge = NoChallenge
INVARIANTS
    TypeOK
    OneInForce
    ApprovedOnce
    AttemptCeiling
PROPERTIES
    GateHolds
