CONSTANTS
    mini = mini
    c1 = c1  c2 = c2
    r1 = r1  r2 = r2
    NoConn = NoConn  Nothing = Nothing
    Keys = {mini}
    Conns = {c1, c2}
    Requests = {r1, r2}
    OutCap = 1
SPECIFICATION OrderedSpec
INVARIANTS
    AnswersMatch
    PendingIsWaitedFor
    NoConnectionServesUnseen
PROPERTIES
    KeepsPromise
    CallsReturn
CHECK_DEADLOCK FALSE
