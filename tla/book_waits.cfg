SPECIFICATION FairSpec
CONSTANTS N = 2 Locks = {l1} Events = {e1} Buckets = {b1} Timers = TRUE MoveHandles = TRUE Lending = TRUE
INVARIANT StuckIsDiagnosed
PROPERTY StopReasonEndsWait
CHECK_DEADLOCK FALSE
