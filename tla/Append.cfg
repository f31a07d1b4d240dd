SPECIFICATION FairSpec
CONSTANTS
    s1 = s1 s2 = s2 c1 = c1 c2 = c2 c3 = c3 c4 = c4
    NoRecord = NoRecord
    PageSize = 1
    Sessions = {s1, s2}
    Calls = {c1, c2, c3, c4}
    Session <- SessionOfFour
    Record <- RecordOfFour
CHECK_DEADLOCK FALSE
INVARIANTS
    TypeOK
    CursorNeverSkips
PROPERTIES
    AppendIsAtomic
    CallsEnd
