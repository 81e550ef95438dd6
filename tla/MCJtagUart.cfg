\* A ring of three, a FIFO of one, a host that comes and goes.
SPECIFICATION Spec
CONSTANTS
    BUF_LEN = 3
    FIFO = 1
    THRESHOLD = 0
    INT_MAX = 4
    TIMEOUT = 2
    ALARM = TRUE
    HOISTED = FALSE
    PROGRAMS <- MCPrograms
INVARIANTS
    MaskSound
    ForeverIsForever
PROPERTIES
    TxIsPipe
    RxIsPipe
    CallsReturn
    NothingStuck
