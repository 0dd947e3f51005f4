CONSTANTS
    Procs = {p1, p2}
    Data = {"d1"}
    Keys = {1, 2}
    Fan = 2
    ImagePages = 1
    HeapVpns = {2, 3, 4}
    StackVpn = 7
    MAX_PAGETABLE_NUM = 11
    NUM_MAX_SHM = 2
    PAGE_NUM = 21
    MaxSector = 3
    MaxShm = 1
    NumMod = 4
    KeyMod = 4
    Uses = {}
SPECIFICATION Spec
SYMMETRY ProcSymmetry
PROPERTY MemorySpec
CHECK_DEADLOCK FALSE
