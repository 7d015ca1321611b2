CONSTANTS
    None = None
    Machine = {m1}
    Campaign = {c1}
    Worker = {w1}
    MaxRequests = 2
    MaxTroubles = 1
SPECIFICATION FairSpec
INVARIANTS DeletedIsEmpty ReadyHasVolume
PROPERTIES StaysDeleted DeletionIsDecided
CHECK_DEADLOCK FALSE
