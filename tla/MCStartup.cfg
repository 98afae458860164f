CONSTANTS
    p1 = p1
    p2 = p2
    p3 = p3
    Peers = {p1, p2, p3}
    EventCap = 4
    CommandCap = 4
    PeerCap = 2
    MaxPex = 3
    Pieces = {0}
    Content <- MCContent
    Depths = {1}
    MaxSaid <- MCMaxSaid
    MayLeave = {}
    Corrupt = {}
    Budgets <- MCBudgets
SPECIFICATION Spec
PROPERTIES
    StartsUp
CHECK_DEADLOCK FALSE
