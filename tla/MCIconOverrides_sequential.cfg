\* One Flask thread saving at a time, and two restarts of the server at any point.
CONSTANTS
    t1 = t1
    t2 = t2
    Threads = {t1}
    Bodies <- MCBodies
    UidLen <- MCUidLen
    IconLen <- MCIconLen
    MaxReqs = 3
    MaxRestarts = 2
SPECIFICATION Spec
INVARIANT PathAlwaysComplete
PROPERTY AckedOverridesSurviveRestart
CHECK_DEADLOCK FALSE
