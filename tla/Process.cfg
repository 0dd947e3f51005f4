CONSTANTS
    NUM_MAX_TASK = 3
    CORE_NUM = 2
    LOCK_NUM = 0
    BARRIER_NUM = 0
    CONDITION_NUM = 0
    MaxPid = 4
    MaxTime = 1
    Masks = {{1}}
    Keys = {}
    Goals = {}
    Workload = {"exec", "exit", "kill", "waitpid", "sleep", "thread", "taskset"}
SPECIFICATION Spec
INVARIANTS TypeOK OneQueue RunningExactlyOnce NobodyForgotten FreeSlotsClean DrainsEnd
