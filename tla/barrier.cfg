SPECIFICATION FairSpec
CONSTANTS Threads = {t1, t2, t3} Parties = 3 Wrap = 2 MaxCalls = 3
INVARIANTS NoPhaseOvertakes OneLeaderEach
PROPERTY RoundsEnd
CHECK_DEADLOCK FALSE
