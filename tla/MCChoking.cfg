SPECIFICATION ChokingSpec
CONSTANTS
    Peers = {p1, p2, p3, p4}
    Slots = 2
    Interval = 3
    MaxRate = 2
    None = None
SYMMETRY Symmetry
INVARIANTS
    ServedAsDecided
    OptimisticInTime
PROPERTIES
    Reciprocal
