CONSTANTS
    Avm = {a1, a2, a3}
    None = None
    Worker = {w1}
    Request = {r1, r2}
    VmLiveMax = 1
    MaxDeletes = 2
    MaxAborts = 1
    MaxFaults = 1
SPECIFICATION Spec
SYMMETRY Symmetry
INVARIANTS DeletedIsClean ReadyIsDeployed OvershootBounded CreationNotLost
CHECK_DEADLOCK FALSE
