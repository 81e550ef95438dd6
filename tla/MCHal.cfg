\* Three alarms and three ticks; two threads, one device and one file system,
\* and a table with two descriptors beside the standard ones; words of 64
\* values and numbers of two hexadecimal digits; a second of six microseconds
\* and two ticks; two functions with one caller; two interrupts, nested once;
\* one line of data cache and two of instruction cache.
\* Counts and nestings are bounded, so that parts come to an end.
SPECIFICATION HalSpec
CONSTANTS
    Alarms = {a1, a2, a3}
    ListHead = ListHead
    DELAYS = {0, 1, 2}
    TICKS_MAX = 2
    ALT_MAX_FD = 5
    Threads = {t1, t2}
    DeviceNames <- MCDeviceNames
    FsNames <- MCFsNames
    Paths <- MCPaths
    StdName <- MCJtag
    WORD = 64
    SPEED = 11
    CYCLES = 3
    US = 6
    RATE = 3
    HALF = 4
    CLOCK_MAX = 9
    Times <- MCTimes
    Functions = {f1, f2}
    Callers = {g1}
    SLAB = 3
    HISTOGRAM = 2
    HEAP = 9
    CALLS_MAX = 5
    ALT_NIRQ = 2
    NEST_MAX = 3
    LINE = 2
    MEMORY = 2
    DLINES = 1
    ILINES = 2
    HEX_DIGITS = 2
    Values <- MCValues
    Formats <- MCFormats
CHECK_DEADLOCK FALSE
INVARIANTS
    ListSound
    NeverOverdue
    DescriptorsSound
    ExclusiveOtherwise
    ShortOnlyByDivision
    TimeTold
    ProfileSound
    IrqSound
    CachesSound
    PrintedIsNumber
PROPERTIES
    StoppedStaysQuiet
    TickReturns
