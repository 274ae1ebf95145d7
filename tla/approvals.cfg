CONSTANTS
    c1 = c1  c2 = c2
    pc = pc
    t1 = t1  t2 = t2
    AnyHost = AnyHost  Nobody = Nobody
    Calls = {c1, c2}
    Hosts = {pc}
    HostArg <- OnPc
    DefaultHost = AnyHost
    Threads = {t1, t2}
    Mocks = {"ask"}
    MaxRequests = 3
SPECIFICATION Spec
INVARIANTS
    TranscriptMatches
    OneAnswerOneRun
    OnlyAnswersClose
PROPERTIES
    KeepsConsent
SYMMETRY Alike
CHECK_DEADLOCK FALSE
