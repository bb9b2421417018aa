CONSTANTS
    None = None
    MaxLines = 3
    MaxRead = 3
    UsageCap = 1
    MaxTime = 7
    Interval = 2
    IdleSeconds = 2
    MaxCommits = 4
    MaxFaults = 2
SPECIFICATION Spec
INVARIANTS
    TailIsFaithful
    UsageIsCounted
    ChangesReported
    ProjectIsNamed
CHECK_DEADLOCK FALSE
