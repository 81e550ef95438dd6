\* What the profiler does when it is interrupted by itself.
SPECIFICATION HalSpec
CONSTANTS
    Alarms = {a1, a2, a3}
    ListHead = ListHead
    DELAYS = {0, 1, 2}
    TICKS_MAX = 2
    ALT_MAX_FD = 5
    Threads = {t1, t2}
    DeviceNames <- MCDeviceNames
    FsNames <- MCFsNames
    Paths <- MCPaths
    StdName <- MCJtag
    WORD = 64
    SPEED = 11
    CYCLES = 3
    US = 6
    RATE = 3
    HALF = 4
    CLOCK_MAX = 9
    Times <- MCTimes
    Functions = {f1, f2}
    Callers = {g1}
    SLAB = 3
    HISTOGRAM = 2
    HEAP = 9
    CALLS_MAX = 5
    ALT_NIRQ = 2
    NEST_MAX = 3
    LINE = 2
    MEMORY = 2
    DLINES = 1
    ILINES = 2
    HEX_DIGITS = 2
    Values <- MCValues
    Formats <- MCFormats
CHECK_DEADLOCK FALSE
INVARIANT SamplerOnce
