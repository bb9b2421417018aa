CONSTANTS
    Row = {r1, r2}
    OldRow = {r1}
    Server = {srv}
    Importer = {imp}
    Restorer = {p1, p2}
    Latest = 2
    Overlap = FALSE
    MaxInodes = 5
    MaxStarts = 3
    MaxKills = 1
    MaxFaults = 2
    None = None
SPECIFICATION Spec
INVARIANTS
    RowsKept
    FilesAreWhole
    
CHECK_DEADLOCK FALSE
