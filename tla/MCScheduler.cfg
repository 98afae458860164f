SPECIFICATION Spec
CONSTANTS
    Peers = {p1, p2, p3}
    Pieces = {i1, i2, i3}
SYMMETRY Symmetry
INVARIANTS
    RarityIsHolderCount
    InFlightSound
    EndgameDetected
PROPERTIES
    NoReassignment
    EndgameEntry
    RarestFirst
