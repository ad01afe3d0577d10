CONSTANT KTasks = {"k1", "k2", "k3"}
SPECIFICATION FairSpec
INVARIANTS SchedTypeOK RunsCurrent OwnSpaceAndStack FramesAfterStart OneTurnEach
PROPERTY EventuallyCurrent
CHECK_DEADLOCK FALSE
