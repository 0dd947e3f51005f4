CONSTANTS
    NUM_MAX_TASK = 3
    CORE_NUM = 2
    LOCK_NUM = 0
    BARRIER_NUM = 0
    CONDITION_NUM = 0
    MaxPid = 4
    MaxTime = 0
    Masks = {}
    Keys = {}
    Goals = {}
    Workload = {"exec", "kill", "kill_remote"}
SPECIFICATION Spec
INVARIANT ReusedOnlyWhenLeft
