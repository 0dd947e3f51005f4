CONSTANTS
    Procs = {p1}
    Data = {"d1"}
    Keys = {1}
    Fan = 2
    ImagePages = 1
    HeapVpns = {2, 3, 4}
    StackVpn = 7
    MAX_PAGETABLE_NUM = 16
    NUM_MAX_SHM = 2
    PAGE_NUM = 21
    MaxSector = 3
    MaxShm = 1
    NumMod = 4
    KeyMod = 4
    Uses = {}
SPECIFICATION FullSpec
PROPERTY MemorySpec
CHECK_DEADLOCK FALSE
