SPECIFICATION Spec
CONSTANTS
    Bits <- MCBits
    OurId <- MCOurId
    Target <- MCTarget
    Nodes <- MCNodes
    Told <- MCTold
    Peers <- MCPeers
    Score <- MCScore
    K = 2
    CloseCount = 2
    RefreshCount = 1
    MaxPeers = 2
    ReturnLimit = 1
    Stale = 1
INVARIANTS
    TableSound
    NeverEmptyAnswer
    AliveIsFound
PROPERTIES
    PingsLongestSilent
