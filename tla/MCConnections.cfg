CONSTANTS
    p1 = p1
    p2 = p2
    Peers = {p1, p2}
    Pieces = {0, 1}
    Content <- MCContent
    EventCap = 5
    CommandCap = 1
    PeerCap = 1
    MaxPex = 2
    Depths = {1}
    MaxSaid <- MCMaxSaid
    MayLeave = {p1}
    Corrupt = {p2}
    Budgets <- MCBudgets
SPECIFICATION Spec
INVARIANTS
    
    ReleasedWhenGone
    PexAgrees
PROPERTIES
    InterestSent
CHECK_DEADLOCK FALSE
