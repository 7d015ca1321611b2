SPECIFICATION FairSpec
CONSTANTS
    Task = {t1}
    NoTask = NoTask
    Worker = {w1, w2}
    Slot = {s1, s2, s3, s4}
    Rejects <- OneProcess
    HeatPoll = 1
    DelayMin = 1
    DelayMax = 1
    FailTimeout = 1
    FloatLimit = 1
    QueuesExist = FALSE
    MaxCrashes = 1
INVARIANTS OneAtATime NoTaskLost CopiesBounded AgedByRetries
PROPERTIES ImplementsService EventuallySettled
