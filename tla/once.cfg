SPECIFICATION OnceFairSpec
CONSTANTS Threads = {t1, t2, t3}
INVARIANTS RunsOnce SleeperHasRunner
PROPERTY CallsEnd
CHECK_DEADLOCK FALSE
