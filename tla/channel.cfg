SPECIFICATION FairSpec
CONSTANTS t1 = t1 t2 = t2 t3 = t3
    Threads = {t1, t2, t3} Values = {v1, v2, v3} Cap = 2 NoThread = NoThread MayCall <- Calls
INVARIANTS TypeOK NoLostWakeup
PROPERTIES ImplementsQueue SleepersWake
CHECK_DEADLOCK FALSE
