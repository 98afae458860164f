SPECIFICATION FairSpec
CONSTANTS
    PieceSize = 2
    Files <- MCFiles
    Count = 5
INVARIANTS
    InStep
    SameTorrent
PROPERTIES
    DeliverySpec
    EndsWell
