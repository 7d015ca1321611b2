CONSTANTS
    Testrun = {t1, t2}
    Avm = {a1, a2}
    None = None
    Worker = {w1, w2}
    Installs = 1
    Tests = 1
    VmAsyncMax = 2
    MaxDeletes = 0
    MaxFaults = 0
SPECIFICATION Spec
INVARIANT ReadyMeansTested
CHECK_DEADLOCK FALSE
