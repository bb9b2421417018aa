CONSTANTS
    Command = {c1}
    MaxEvents = 1
    MaxConn = 2
    MaxFaults = 1
    MaxNodeCrashes = 1
    PromptHandshake = TRUE
SPECIFICATION FairSpec
INVARIANTS
    CommandsTakenOnce
    EventsKept

    
CHECK_DEADLOCK FALSE
