CONSTANTS
    Proc = {p1, p2, p3}
    NoProc = NoProc
    ConcurrentStart = FALSE
SPECIFICATION LockSpec

    
PROPERTIES
    RefusedOnlyByLive
CHECK_DEADLOCK FALSE
