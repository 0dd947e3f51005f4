CONSTANTS
    Tasks = {t1, t2, t3}
    Names = {"a", "b"}
    MBOX_NUM = 2
    MAX_MBOX_LENGTH = 2
    Lengths = {1, 2}
    MaxTail = 1
    Kills = TRUE
SPECIFICATION Spec
SYMMETRY TaskSymmetry
INVARIANTS BufferBounds NamesUnique
CHECK_DEADLOCK FALSE
