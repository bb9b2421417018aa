CONSTANTS
    Operator = {o1, o2}
    MaxRelease = 2
    MaxOps = 2
    MaxTriggers = 1
    MaxFaults = 1
SYMMETRY Shells
SPECIFICATION Spec
INVARIANTS
    
    ServicesRun
    InstallAsAsked

    
CHECK_DEADLOCK FALSE
