CONSTANTS
    NUM_MAX_TASK = 3
    CORE_NUM = 2
    LOCK_NUM = 1
    BARRIER_NUM = 0
    CONDITION_NUM = 0
    MaxPid = 4
    MaxTime = 1
    Masks = {}
    Keys = {1}
    Goals = {}
    Workload = {"exec", "exit", "kill", "sleep", "mutex"}
SPECIFICATION FairSpec
PROPERTIES ReadyRuns SleeperRuns WaiterEnters
