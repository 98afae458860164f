SPECIFICATION FairSpec
CONSTANTS
    Nodes = {0, 1, 2, 3, 4, 5, 6}
    Start = {4, 5, 6}
    Resolvable = {0, 1, 2, 4, 5, 6}
    Knows <- MCKnows
    Offers <- MCOffers
    Good = {"p", "q", "r"}
    Alpha = 2
    MaxQueries = 5
    EarlyCount = 3
    MaxResults = 2
    MaxDuplicates = 1
INVARIANTS
    NothingHeardIsWasted
    EveryoneHeard
PROPERTIES
    ClosestFirst
    Terminates
