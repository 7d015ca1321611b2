CONSTANTS
    Apk = {f1}
    Camera = {c1}
    None = None
    Worker = {w1}
    Request = {r1, r2}
    MaxDeletes = 2
    MaxTroubles = 1
SPECIFICATION FairSpec
INVARIANTS VolumeMatches ReadyIsTidy
PROPERTIES UploadEnds DeletionIsCarriedOut
CHECK_DEADLOCK FALSE
