------------------------------- MODULE Snake -------------------------------
(***************************************************************************)
(* The snake driver: snake_play() of NiosDisplay_App/snake.c and every     *)
(* function it calls.  One step is one pass of the while (1) loop, from    *)
(* the read of the requested direction to the delay; the four ways a pass  *)
(* can end are four actions: the snake glides, eats, wins or collides.     *)
(*                                                                         *)
(* The module is open on two sides.  read_direction_cb may return any      *)
(* direction at every pass, and random_number_cb any number it can return. *)
(*                                                                         *)
(* The picture is kept per tile.  A tile with x = SIZE lies below the last *)
(* row of the picture (module FrameGeometry), so drawing it changes no     *)
(* tile of the screen, and neither does drawing the point (0, 0).          *)
(***************************************************************************)
EXTENDS SnakeMoves, Sequences

CONSTANTS
    HISTORY,        \* entries of point_history (33)
    snake_length,   \* the length that wins (32)
    FOOD_MAX,       \* random_number_cb returns 1..FOOD_MAX (30)
    START,          \* both coordinates of the first head (16)
    GameOverTiles   \* the tiles of the game-over text

Screen == {t \in Tile : t.x # SIZE}

ASSUME SnakeAssumption ==
    /\ HISTORY \in Nat
    /\ snake_length \in 2..HISTORY
    /\ FOOD_MAX \in 1..(SIZE - 1)
    /\ START \in 1..(SIZE - 1)
    /\ GameOverTiles \subseteq Screen

(* Operators marked "slip" are wrong on purpose: each is a small mistake in
   the operator that follows it, which the properties below must notice. *)

VARIABLES
    play,               \* what snake_play is doing, or how it last returned
    current_direction,
    length,
    point_history,      \* entry 0 is also current_location
    current_food,
    frame_buffer,       \* the colour of each tile of the screen
    score               \* the value last written to the score register

vars == <<play, current_direction, length, point_history, current_food,
          frame_buffer, score>>

-----------------------------------------------------------------------------
Index == 0..(HISTORY - 1)

Food == [x : 1..FOOD_MAX, y : 1..FOOD_MAX]

Color == {"background", "food", "snake"}

fill_buffer(color) == [t \in Screen |-> color]

draw_square(frame, p, color) ==
    [t \in Screen |-> IF t = p THEN color ELSE frame[t]]

draw_game_over ==
    [t \in Screen |-> IF t \in GameOverTiles THEN "snake" ELSE "background"]

move_snake_unshifted(history, d) ==           \* slip: the memmove forgotten
    [history EXCEPT ![0] = Moved(history[0], d)]

\* The memmove by one entry, then the store of the new location.
move_snake(history, d) ==
    [i \in Index |-> IF i = 0 THEN Moved(history[0], d) ELSE history[i - 1]]

collision_from_zero(history, len) ==          \* slip: the loop starts at 0
    \E i \in 0..(len - 1) : history[i] = history[0]

collision_before_last(history, len) ==        \* slip: the loop ends too early
    \E i \in 1..(len - 2) : history[i] = history[0]

detect_collision_snake(history, len) ==
    \E i \in 1..(len - 1) : history[i] = history[0]

\* The food after the `while (!valid)' loop, which always ends after one
\* pass: a first draw inside the snake is replaced by an unchecked second.
respawn(history, len, first, second) ==
    IF \E i \in 0..(len - 1) : history[i] = first THEN second ELSE first

redraw_unerased(frame, history, len) ==       \* slip: the erase forgotten
    draw_square(frame, history[0], "snake")

redraw_head_first(frame, history, len) ==     \* slip: erased after drawing
    draw_square(draw_square(frame, history[0], "snake"),
                history[len], "background")

\* The picture drawn at the end of a pass: the cell behind the tail is
\* erased, then the head is drawn.
redraw(frame, history, len) ==
    draw_square(draw_square(frame, history[len], "background"),
                history[0], "snake")

display_score_from_zero(value) == score' = value - 1     \* slip: off by one

display_score(value) == score' = value

-----------------------------------------------------------------------------
Init ==
    /\ play = "idle"
    /\ current_direction = "right"
    /\ length = 1
    /\ point_history = [i \in Index |-> Origin]
    /\ current_food \in Food
    /\ frame_buffer = fill_buffer("background")
    /\ score = 0

\* A call of snake_play up to its loop.
Begin ==
    /\ play # "playing"
    /\ play' = "playing"
    /\ current_direction' = "right"
    /\ length' = 1
    /\ point_history' = [i \in Index |->
                            IF i = 0 THEN [x |-> START, y |-> START]
                                     ELSE Origin]
    /\ current_food' \in Food
    /\ frame_buffer' =
           draw_square(fill_buffer("background"), current_food', "food")
    /\ UNCHANGED score

\* The beginning of every pass: read, filter and move.
Turn(d) ==
    /\ play = "playing"
    /\ current_direction' = filter_direction(current_direction, d)
    /\ point_history' = move_snake(point_history, current_direction')

Collide(d) ==
    /\ Turn(d)
    /\ detect_collision_snake(point_history', length)
    /\ play' = "lost"
    /\ frame_buffer' = draw_game_over
    /\ UNCHANGED <<length, current_food, score>>

Glide(d) ==
    /\ Turn(d)
    /\ ~ detect_collision_snake(point_history', length)
    /\ point_history'[0] # current_food
    /\ frame_buffer' = redraw(frame_buffer, point_history', length)
    /\ display_score(length)
    /\ UNCHANGED <<play, length, current_food>>

Eat(d) ==
    /\ Turn(d)
    /\ ~ detect_collision_snake(point_history', length)
    /\ point_history'[0] = current_food
    /\ length + 1 # snake_length
    /\ length' = length + 1
    /\ \E first, second \in Food :
           current_food' = respawn(point_history', length', first, second)
    /\ frame_buffer' =
           redraw(draw_square(draw_square(frame_buffer, point_history'[0],
                                          "snake"),
                              current_food', "food"),
                  point_history', length')
    /\ display_score(length')
    /\ UNCHANGED play

Win(d) ==
    /\ Turn(d)
    /\ ~ detect_collision_snake(point_history', length)
    /\ point_history'[0] = current_food
    /\ length + 1 = snake_length
    /\ length' = length + 1
    /\ play' = "won"
    /\ frame_buffer' = draw_game_over
    /\ UNCHANGED <<current_food, score>>

Next ==
    \/ Begin
    \/ \E d \in direction_t : Collide(d) \/ Glide(d) \/ Eat(d) \/ Win(d)

Spec == Init /\ [][Next]_vars

-----------------------------------------------------------------------------
Body == {point_history[i] : i \in 0..(length - 1)}

\* The body and the cell the tail has just left.
Trail == {point_history[i] : i \in 0..length}

SelfOverlap == \E i, j \in 0..(length - 1) :
                   i # j /\ point_history[i] = point_history[j]

\* The picture a player expects.
PictureExact ==
    \A t \in Screen :
        frame_buffer[t] = CASE t \in Body       -> "snake"
                            [] t \notin Body /\ t = current_food -> "food"
                            [] OTHER            -> "background"

Running == play = "playing" /\ play' = "playing"

(* Types, and the bound on length that keeps every index of point_history
   used by a pass of the loop inside the array. *)
TypeOK ==
    /\ play \in {"idle", "playing", "lost", "won"}
    /\ current_direction \in direction_t
    /\ length \in 1..snake_length
    /\ point_history \in [Index -> point_t]
    /\ current_food \in Food
    /\ frame_buffer \in [Screen -> Color]
    /\ score \in 0..(snake_length - 1)
    /\ play = "playing" => length < snake_length /\ point_history[0] \in Tile

(* The loop of detect_collision_snake compares the head with cells that a
   short snake cannot reach: filter_direction keeps the last moves from
   closing a loop, also over the uneven edges of the board, so that a game is
   never lost with fewer than five cells. *)
LossNeedsFive == play = "lost" => length >= 5

(* Why: an entry of the history that was never a cell of the snake is
   followed only by such entries, ... *)
HistoryHasNoGap ==
    \A k \in Index : k # 0 /\ point_history[k - 1] = Origin
                        => point_history[k] = Origin

(* ... and the last two moves are known, and the later is not the reverse of
   the earlier. *)
LinkedBy(k, d) ==
    k \in Index /\ point_history[k] # Origin
        => point_history[k - 1] = Moved(point_history[k], d)

LastMoves ==
    /\ LinkedBy(1, current_direction)
    /\ \E before \in direction_t : /\ LinkedBy(2, before)
                                   /\ current_direction # Opposite(before)

SteeringInv ==
    /\ HistoryHasNoGap
    /\ LastMoves
    /\ LossNeedsFive

(* The head never re-enters the cell it has just left, whatever the buttons
   ask for: what filter_direction is for. *)
NoInstantReversal ==
    [][Running /\ point_history[1] # Origin
          => point_history'[0] # point_history[1]]_vars

(* Nothing the erase-and-draw of snake_play leaves behind stays on the
   screen: a lit tile is a cell of the snake, a food-coloured tile is the
   current food. *)
NoGhosts ==
    play = "playing" =>
        \A t \in Screen :
            /\ frame_buffer[t] = "snake" => t \in Body
            /\ frame_buffer[t] = "food" => t = current_food

(* A pass makes two cells of the snake coincide only by eating a food that
   lay on the snake, which only the unchecked second draw puts there: the
   collision test leaves out the last cell because the tail is leaving it,
   and the tail stays when the snake eats. *)
OverlapOnlyByFoodOnSnake ==
    [][Running /\ ~ SelfOverlap /\ SelfOverlap' => current_food \in Body]_vars

(* A pass that starts from an exact picture ends in an exact picture, with
   two exceptions: the food is on the trail, where the erase removes it, or
   the snake eats while it already covers the cell behind its tail, which is
   then erased under it. *)
PictureSpoiltOnlyOnTrail ==
    [][Running /\ PictureExact /\ ~ SelfOverlap /\ ~ PictureExact'
          => \/ current_food' \in Trail'
             \/ length' > length /\ point_history[length] \in Body]_vars

(* After a lost game the score register holds the length the snake died
   with; after a won game it holds one less: the register is written at the
   end of every pass but the last. *)
FinalScore ==
    /\ play = "lost" => score = length
    /\ play = "won" => score = length - 1

(* Of what the repository says of the program, the code does not do the
   following two. *)

(* "Location is valid" (snake.c:48): the squares a pass draws are tiles of
   the board.  A snake that has eaten at every pass erases the point (0, 0),
   which its history was initialised with. *)
DrawsOnlyTiles == [][Running => point_history'[length'] \in Tile]_vars

(* "Game will always be 32 tiles" (snake.h:4): a snake that leaves the board
   on one side comes back on the tile at the other side.  Leaving to the left
   or upwards it comes back one tile further in. *)
WrapsToFarSide ==
    [][/\ Running /\ current_direction' = "left" /\ point_history[0].x = 1
       => point_history'[0].x = SIZE]_vars

-----------------------------------------------------------------------------
\* Until the first call there is no snake; then the first `length' entries of
\* the history are its cells.
Cells ==
    IF play = "idle" THEN << >>
                     ELSE [i \in 1..length |-> point_history[i - 1]]

Rules == INSTANCE SnakeRules
             WITH body <- Cells,
                  food <- current_food,
                  First <- [x |-> START, y |-> START]

(* The history array, its shift and the bounds of the collision loop play
   the game of module SnakeRules. *)
PlaysByTheRules == Rules!Spec
=============================================================================
