\* What the answer EIO says of the host.
SPECIFICATION Spec
CONSTANTS
    BUF_LEN = 3
    FIFO = 1
    THRESHOLD = 0
    INT_MAX = 4
    TIMEOUT = 2
    ALARM = TRUE
    HOISTED = FALSE
    PROGRAMS <- MCOnlyWrites
PROPERTY EioMeansNoHost
