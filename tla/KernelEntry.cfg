SPECIFICATION Spec
CONSTANTS
    Cores = {0, 1}
    Tasks = {1, 2, 3}
    Shell = 1
    REGS = 2
INVARIANTS TypeOK KernelExclusive ContextsWhole BootOrder
PROPERTIES KernelReleased
