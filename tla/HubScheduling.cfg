SPECIFICATION Spec
CONSTANTS
    Worker = {w}
    Direct = {d}
    Nodes = 2
    Steady = {2}
    MaxRequests = 1
    MaxConn = 3
    MaxBreaks = 1
    MaxFaults = 1
INVARIANTS
    PromptsInOrder
    

    
CHECK_DEADLOCK FALSE
