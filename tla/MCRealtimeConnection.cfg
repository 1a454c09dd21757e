\* Three connections on two processes; it ends when all have ended.
SPECIFICATION FairConnSpec
CONSTANTS
    c1 = c1
    c2 = c2
    c3 = c3
    p1 = p1
    p2 = p2
    NoConn = NoConn
    Conn = {c1, c2, c3}
    Process = {p1, p2}
    Home <- TwoHomes
INVARIANTS
    NoDeadEntry
PROPERTIES
    SameProcessKeySurvives
    ClosedConnectionsEnd
CHECK_DEADLOCK FALSE
