SPECIFICATION Spec
CHECK_DEADLOCK FALSE
CONSTANTS
    a = a
    b = b
    Peers = {a, b}
    Pieces = {0, 1}
    Depths = {1, 2}
    Content <- MCContent
    MaxBad <- MCMaxBad
    MaxChoke <- MCMaxChoke
    Gains <- MCGains
    MixUps = {}
    MayLeave = {b}
    MaxStale = 1
    MayFailDisk = FALSE
INVARIANTS
    TypeOK
    TablesSound
    InFlightAnswered
PROPERTIES
    SchedulerSpec
    NoRequestWhileBanned
