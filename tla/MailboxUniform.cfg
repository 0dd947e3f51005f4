CONSTANTS
    Tasks = {t1, t2, t3, t4, t5}
    Names = {"a"}
    MBOX_NUM = 1
    MAX_MBOX_LENGTH = 5
    Lengths = {2}
    MaxTail = 7
    Kills = FALSE
SPECIFICATION Spec
SYMMETRY TaskSymmetry
INVARIANTS TypeOK WholeMessages NobodyStranded UserCount
CHECK_DEADLOCK FALSE
