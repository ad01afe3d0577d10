CONSTANT KTasks = {"k1", "k2", "k3"}
SPECIFICATION SchedSpec
INVARIANT NoActiveTaskBeforeStart
CHECK_DEADLOCK FALSE
