CONSTANTS
    c1 = c1
    c2 = c2
    x1 = x1
    x2 = x2
    Command = {c1, c2}
    Apk = {x1, x2}
    None = None
    Plan <- InstallAndAnother
    Deletable = {x1}
    Worker = {w1, w2}
    MaxTroubles = 1
SPECIFICATION FairSpec
INVARIANTS ReadyIsInstalled InstallsLeaveOne
PROPERTIES OutputWithReady CommandEnds
CHECK_DEADLOCK FALSE
