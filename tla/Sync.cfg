CONSTANTS
    NUM_MAX_TASK = 3
    CORE_NUM = 2
    LOCK_NUM = 2
    BARRIER_NUM = 1
    CONDITION_NUM = 1
    MaxPid = 4
    MaxTime = 0
    Masks = {{1}}
    Keys = {1, 2}
    Goals = {3}
    Workload = {"exec", "kill", "exit", "mutex", "cond", "barrier"}
SPECIFICATION Spec
INVARIANTS TasksConsistent
           MutexExclusion NoOrphanedMutex OwnerIsHolder BarrierConserved
PROPERTIES RekeyedOnlyWhenFree BarrierReleasesTogether
