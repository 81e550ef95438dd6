\* Eating at every pass leaves the history shorter than the snake.
SPECIFICATION Spec
CONSTANTS
    SIZE = 5
    HISTORY = 5
    snake_length = 4
    FOOD_MAX = 3
    START = 2
    GameOverTiles <- MCGameOverTiles
PROPERTY DrawsOnlyTiles
