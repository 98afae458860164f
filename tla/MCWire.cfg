SPECIFICATION Spec
CHECK_DEADLOCK FALSE
CONSTANTS
    Base = 16
    IdLen = 1
    HashLen = 1
    ScoreLen = 1
    MaxPayload = 64
    Messages <- MCMessages
    Strange <- MCStrange
    MaxSent = 2
    Queries <- MCQueries
INVARIANTS
    NothingLost
    SaidIsHeard
PROPERTIES
    ChannelSpec
    Received
