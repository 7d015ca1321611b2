CONSTANTS
    Testrun = {t1, t2}
    Avm = {a1, a2}
    None = None
    Worker = {w1}
    Installs = 1
    Tests = 1
    VmAsyncMax = 1
    MaxDeletes = 1
    MaxFaults = 1
SPECIFICATION FairSpec
INVARIANTS AsyncQuotaKept MachinesPerTestrun NoOrphans ReadyMeansTested
PROPERTIES StaysDeleted CampaignEnds MachinesGo
CHECK_DEADLOCK FALSE
