SPECIFICATION FairSpec
CONSTANTS N = 4 IdleMax = 1
INVARIANTS TypeOK OneRuns TurnIsWithMember ChosenIsUnparked OneWorkerEach
PROPERTY ChosenRuns
CHECK_DEADLOCK FALSE
