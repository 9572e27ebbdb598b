\* Two concurrent POST /api/loco_icon requests and one restart.
CONSTANTS
    t1 = t1
    t2 = t2
    Threads = {t1, t2}
    Bodies <- MCBodies
    UidLen <- MCUidLen
    IconLen <- MCIconLen
    MaxReqs = 2
    MaxRestarts = 1
SPECIFICATION Spec
PROPERTY AckedOverridesSurviveRestart
CHECK_DEADLOCK FALSE
