SPECIFICATION FairSpec
CONSTANTS Threads = {t1, t2, t3} Permits = 1 MaxPermits = 2
INVARIANTS NoLostWakeup
PROPERTIES ImplementsCount SleepersWake
