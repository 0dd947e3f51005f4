CONSTANTS
    Procs = {p1, p2}
    Data = {}
    Keys = {1, 5}
    Fan = 2
    ImagePages = 1
    HeapVpns = {2, 3, 4}
    StackVpn = 7
    MAX_PAGETABLE_NUM = 11
    NUM_MAX_SHM = 2
    PAGE_NUM = 21
    MaxSector = 3
    MaxShm = 2
    NumMod = 4
    KeyMod = 4
    Uses = {"tlb", "detach"}
SPECIFICATION Spec
SYMMETRY ProcSymmetry
INVARIANTS TypeOK FramesExclusive SwappedOnlyWhenFull OnlyVictimAssert 
CHECK_DEADLOCK FALSE
