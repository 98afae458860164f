SPECIFICATION Spec
CHECK_DEADLOCK FALSE
CONSTANTS
    a = a
    b = b
    c = c
    Peers = {a, b, c}
    Pieces = {0, 1}
    Depths = {5}
    Content <- MCContent
    MaxBad <- MCMaxBad
    MaxChoke <- MCMaxChoke
    Gains <- MCGains
    MixUps = {}
    MayLeave = {a}
    MaxStale = 0
    MayFailDisk = FALSE
INVARIANTS
    NeverStalls
