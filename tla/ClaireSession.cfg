CONSTANTS
    MaxTurns = 10
    Wake = {w1}
    MaxInputs = 1
    MaxFaults = 1
    MaxRestarts = 1
    None = None
SPECIFICATION FairSpec
INVARIANTS
    OneTurn
    FollowUpsAssess
    BridgeIsFaithful

    
