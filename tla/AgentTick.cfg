CONSTANTS
    MaxRows = 4
    MaxBatch = 2
    MaxTickFaults = 3
SPECIFICATION TickFairSpec
INVARIANTS
    
    DoctorTells

    
CHECK_DEADLOCK FALSE
