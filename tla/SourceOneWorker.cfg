CONSTANTS
    Worker = {w1}
    MaxUploads = 2
    MaxRequests = 2
    MaxCampaigns = 1
    MaxTroubles = 1
SPECIFICATION FairSpec
INVARIANTS ReadyIsCurrent UnfinishedIsPending NoContainersLeft
PROPERTY CompileEnds
CHECK_DEADLOCK FALSE
