CONSTANTS
    Avm = {a1}
    None = None
    Worker = {w1, w2}
    Request = {r1}
    VmLiveMax = 0
    MaxDeletes = 1
    MaxAborts = 0
    MaxFaults = 1
SPECIFICATION FairSpec
INVARIANT Traceable
PROPERTIES CreationEnds DeletionIsCarriedOut
CHECK_DEADLOCK FALSE
