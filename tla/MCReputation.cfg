CONSTANTS
    p1 = p1
    p2 = p2
    p3 = p3
    i1 = i1
    i2 = i2
    i3 = i3
    Peers <- MCPeers
    Pieces <- MCPieces
    WindowSize = 2
    ResponseWindow = 2
    TempBan = 1
    Fast = 5
    Slow = 1
    Bytes = 6
    MinWait = 1
    DefaultWait = 1
    MaxAge = 2
    Corrupt = {p3}
    MaxBad = 4
SYMMETRY Symmetry
SPECIFICATION Spec
INVARIANTS
    WindowsKeepLast
    DepthFollowsSpeed
PROPERTIES
    BlacklistHolds
