CONSTANTS
    start = start
    p1 = p1
    p2 = p2
    stop = stop
    q1 = q1
    start2 = start2
    r1 = r1
    r2 = r2
    CommandId = {start, p1, p2, stop, start2, q1}
    Run = {r1, r2}
    None = None
    WorkOf <- MCWorkOf
    Unsupported = {r2}
SPECIFICATION EngineFairSpec
INVARIANTS
    MarkHasPrompt
    StopsReachTheirRun
    EngineUnderstands
PROPERTIES
    PromptsReported
CHECK_DEADLOCK FALSE
