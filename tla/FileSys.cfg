SPECIFICATION Spec
CONSTANTS
    INODES = 4
    BLOCKS = 6
    DENTRIES = 4
    NUM_FDESCS = 1
    DIRECT_SIZE = 1
    FIRST_BLOCK_NUM = 1
    SECOND_BLOCK_NUM = 1
    FIRST_BLOCK_SIZE = 2
    BLOCK_SIZE = 2
    UMOD = 3
    Names = {a, b, "."}
    Bytes = {0, 1, 2}
    Lengths = {1, 3}
    Buffers <- OneBuffer
    Offsets <- MCOffsets
    MaxSize = 7
    MaxDepth = 1
    Scenarios <- MCScenarios
INVARIANTS TypeOK TreeConsistent BlocksExclusive NoDangling
PROPERTIES NamesStable FileStoreSpec
SYMMETRY NameSymmetry
CHECK_DEADLOCK FALSE
