SPECIFICATION FairSpec
CONSTANTS
    Task = {t1}
    NoTask = NoTask
    Worker = {w1}
    Slot = {s1, s2, s3}
    Rejects <- Nobody
    HeatPoll = 1
    DelayMin = 1
    DelayMax = 1
    FailTimeout = 3
    FloatLimit = 2
    QueuesExist = TRUE
    MaxCrashes = 0
PROPERTY RetryDrains
