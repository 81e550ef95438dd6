\* Long enough to collide: the snake dies from length five on.
SPECIFICATION Spec
CONSTANTS
    SIZE = 5
    HISTORY = 6
    snake_length = 6
    FOOD_MAX = 2
    START = 2
    GameOverTiles <- MCGameOverTiles
INVARIANTS
    TypeOK
    LossNeedsFive
    NoGhosts
    FinalScore
PROPERTIES
    NoInstantReversal
    OverlapOnlyByFoodOnSnake
    PictureSpoiltOnlyOnTrail
    PlaysByTheRules
