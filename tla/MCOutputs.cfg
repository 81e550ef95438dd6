\* Every point the driver draws and every row of it; every byte of a score; the
\* real lines and FIFO, with a terminal that reads and without one, when the
\* program stops for ever; two writes at any time of any word while pictures
\* are scanned.
SPECIFICATION OutputsSpec
CONSTANTS
    SIZE = 32
    h_pixels = 10
    h_period = 12
    v_pixels = 4
    v_period = 5
    FIRST_ROW = 1
    FIRST_COLUMN = 1
    ROWS = 2
    COLUMNS = 8
    Word <- MCWord
    Blank <- MCBlank
    WRITES_MAX = 2
    FIFO_DEPTH = 64
    START_LEN = 18
    LOST_LEN = 21
    WON_LEN = 20
    GAMES_MAX = 3
CHECK_DEADLOCK FALSE
INVARIANTS
    SquaresDisjoint
    InsideMemory
    LastColumnHidden
    SmallScoresShown
    AddressFollowsBeam
    NoCharacterLost
    TwoGamesWithoutHost
PROPERTIES
    PictureSettles
    NextGameStarts
    FreezesWithoutHost
