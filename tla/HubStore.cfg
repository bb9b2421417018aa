CONSTANTS
    Command = {c1, c2}
    NodeEvent = {e1, e2}
    Task = {t1}
    Run = {r1, r2}
    Approval = {a1}
    Channel = {telegram}
    Actor = {x}
    Node = {n1, hub}
    HubNode = hub
    SystemTask = system
    None = None
    MaxAttempts = 1
SPECIFICATION Spec
SYMMETRY Symmetry
INVARIANTS
    Gapless
    ReceiptsMatchLog
    RowsMatchLog
PROPERTIES
    DurableFactsPersist
CHECK_DEADLOCK FALSE
