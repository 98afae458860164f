SPECIFICATION FairSpec
CONSTANTS
    a = a
    b = b
    Peers = {a, b}
    Pieces = {0, 1, 2}
    Depths = {1}
    Content <- MCContent
    MaxBad <- MCMaxBad
    MaxChoke <- MCMaxChoke
    Gains <- MCGains
    MixUps <- MCMixUps
    MayLeave = {b}
    MaxStale = 0
    MayFailDisk = TRUE
INVARIANTS
    WrittenOnce
PROPERTIES
    DeliverySpec
    Completes
