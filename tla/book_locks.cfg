SPECIFICATION Spec
CONSTANTS N = 3 Locks = {l1} Events = {} Buckets = {} Timers = FALSE MoveHandles = FALSE Lending = TRUE
INVARIANTS TypeOK LocksMatchGuards OrphansComeFromCutFrames ExitLeavesNothing NoUndiagnosedCycle
PROPERTY PoisonedStaysUnreached
CHECK_DEADLOCK FALSE
