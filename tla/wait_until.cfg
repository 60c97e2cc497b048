SPECIFICATION FairSpec
CONSTANTS N = 3 l1 = l1 c1 = c1 Locks = {l1} Counts = {c1} NoKey = NoKey MayWait <- ProgramWaits
INVARIANTS NoSignalLost SignalledAreNotified
PROPERTIES CameEndsSleep StopEndsWait
CHECK_DEADLOCK FALSE
