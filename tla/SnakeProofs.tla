---------------------------- MODULE SnakeProofs ----------------------------
(***************************************************************************)
(* Proofs about module Snake, for every board and every winning length     *)
(* that its assumptions allow.                                             *)
(***************************************************************************)
EXTENDS Snake, TLAPS

-----------------------------------------------------------------------------
(* The moves of the head. *)

\* Every move from a tile of the board ends on a tile of the board.
LEMMA MovedTile ==
    ASSUME NEW p \in Tile, NEW d \in direction_t
    PROVE  Moved(p, d) \in Tile
BY SizeAssumption
   DEF Moved, Tile, Coord, direction_t, Increment, Decrement

\* The filter returns a direction, and never the reverse of the current one.
LEMMA FilterForward ==
    ASSUME NEW c \in direction_t, NEW d \in direction_t
    PROVE  /\ filter_direction(c, d) \in direction_t
           /\ filter_direction(c, d) # Opposite(c)
BY DEF filter_direction, Opposite, direction_t

-----------------------------------------------------------------------------
(* The type invariant. *)

LEMMA IndexFacts ==
    /\ 0 \in Index
    /\ \A i \in Index : i # 0 => i - 1 \in Index
    /\ \A i \in 0..(snake_length - 1) : i \in Index
    /\ Index \subseteq Nat
    /\ 1 \in Index
    /\ 3 \in Index => 2 \in Index
BY SnakeAssumption DEF Index

LEMMA TurnTypes ==
    ASSUME TypeOK, NEW d \in direction_t, Turn(d)
    PROVE  /\ current_direction' \in direction_t
           /\ point_history' \in [Index -> point_t]
           /\ point_history'[0] \in Tile
           /\ point_history'[0] = Moved(point_history[0], current_direction')
           /\ \A i \in Index : i # 0 => point_history'[i] = point_history[i - 1]
<1>1. current_direction' \in direction_t
    BY FilterForward DEF Turn, TypeOK
<1>2. Moved(point_history[0], current_direction') \in Tile
    BY <1>1, MovedTile DEF Turn, TypeOK
<1>3. point_history' = [i \in Index |->
                           IF i = 0 THEN Moved(point_history[0],
                                               current_direction')
                                    ELSE point_history[i - 1]]
    BY DEF Turn, move_snake
<1>4. point_history' \in [Index -> point_t]
    BY <1>2, <1>3, IndexFacts DEF TypeOK, point_t
<1>5. QED
    BY <1>1, <1>2, <1>3, <1>4, IndexFacts

LEMMA FrameTypes ==
    /\ \A c \in Color : fill_buffer(c) \in [Screen -> Color]
    /\ draw_game_over \in [Screen -> Color]
    /\ \A f \in [Screen -> Color], p \in point_t, c \in Color :
           draw_square(f, p, c) \in [Screen -> Color]
BY DEF fill_buffer, draw_game_over, draw_square, Color

(* The type invariant of module Snake, with the bound on length that keeps
   the index of the erase inside point_history. *)
THEOREM TypeCorrect == Spec => []TypeOK
<1>1. Init => TypeOK
  <2> SUFFICES ASSUME Init PROVE TypeOK
    OBVIOUS
  <2>1. frame_buffer \in [Screen -> Color]
    BY FrameTypes DEF Init, Color
  <2>2. QED
    BY <2>1, SnakeAssumption DEF Init, TypeOK, direction_t, point_t
<1>2. TypeOK /\ [Next]_vars => TypeOK'
  <2> SUFFICES ASSUME TypeOK, [Next]_vars PROVE TypeOK'
    OBVIOUS
  <2>1. CASE Begin
    <3>1. [x |-> START, y |-> START] \in Tile
      BY SnakeAssumption, SizeAssumption DEF Tile, Coord
    <3>2. point_history' \in [Index -> point_t] /\ point_history'[0] \in Tile
      BY <2>1, <3>1, IndexFacts DEF Begin, point_t
    <3>3. frame_buffer' \in [Screen -> Color]
      <4>1. current_food' \in Food
        BY <2>1 DEF Begin
      <4>2. \A t \in Screen : frame_buffer'[t] \in Color
        BY <2>1 DEF Begin, draw_square, fill_buffer, Color
      <4>3. QED
        BY <2>1, <4>2 DEF Begin, draw_square, fill_buffer, Color
    <3>4. QED
      BY <2>1, <3>2, <3>3, SnakeAssumption DEF Begin, TypeOK, direction_t
  <2>2. ASSUME NEW d \in direction_t, Collide(d) PROVE TypeOK'
    <3>1. Turn(d)
      BY <2>2 DEF Collide
    <3>2. QED
      BY <2>2, <3>1, TurnTypes, FrameTypes DEF Collide, TypeOK
  <2>3. ASSUME NEW d \in direction_t, Glide(d) PROVE TypeOK'
    <3>1. Turn(d)
      BY <2>3 DEF Glide
    <3>2. frame_buffer' \in [Screen -> Color]
      BY <2>3 DEF Glide, redraw, draw_square, TypeOK, Color
    <3>3. score' \in 0..(snake_length - 1)
      BY <2>3, <3>1, SnakeAssumption DEF Glide, Turn, TypeOK, display_score
    <3>4. QED
      BY <2>3, <3>1, <3>2, <3>3, TurnTypes DEF Glide, TypeOK
  <2>4. ASSUME NEW d \in direction_t, Eat(d) PROVE TypeOK'
    <3>1. Turn(d)
      BY <2>4 DEF Eat
    <3>2. length' \in 1..snake_length /\ length' < snake_length
      BY <2>4, <3>1, SnakeAssumption DEF Eat, Turn, TypeOK
    <3>3. current_food' \in Food
      BY <2>4 DEF Eat, respawn
    <3>4. frame_buffer' \in [Screen -> Color]
      BY <2>4 DEF Eat, redraw, draw_square, TypeOK, Color
    <3>5. score' \in 0..(snake_length - 1)
      BY <2>4, <3>2, SnakeAssumption DEF Eat, display_score
    <3>6. QED
      BY <2>4, <3>1, <3>2, <3>3, <3>4, <3>5, TurnTypes DEF Eat, TypeOK
  <2>5. ASSUME NEW d \in direction_t, Win(d) PROVE TypeOK'
    <3>1. Turn(d)
      BY <2>5 DEF Win
    <3>2. length' \in 1..snake_length
      BY <2>5, <3>1, SnakeAssumption DEF Win, Turn, TypeOK
    <3>3. QED
      BY <2>5, <3>1, <3>2, TurnTypes, FrameTypes DEF Win, TypeOK
  <2>6. CASE UNCHANGED vars
    BY <2>6 DEF vars, TypeOK
  <2>7. QED
    BY <2>1, <2>2, <2>3, <2>4, <2>5, <2>6 DEF Next
<1>3. QED
    BY <1>1, <1>2, PTL DEF Spec

-----------------------------------------------------------------------------
(* No loop of fewer than four moves.  A move is taken apart into its effect *)
(* on each coordinate.                                                      *)

StepX(d, c) == IF d = "right" THEN Increment(c)
               ELSE IF d = "left" THEN Decrement(c) ELSE c

StepY(d, c) == IF d = "down" THEN Increment(c)
               ELSE IF d = "up" THEN Decrement(c) ELSE c

LEMMA MovedCoordinates ==
    ASSUME NEW p \in Tile, NEW d \in direction_t
    PROVE  /\ Moved(p, d).x = StepX(d, p.x)
           /\ Moved(p, d).y = StepY(d, p.y)
<1>1. p = [x |-> p.x, y |-> p.y]
    BY DEF Tile
<1>2. CASE d = "down"
    BY <1>1, <1>2 DEF Moved, StepX, StepY
<1>3. CASE d = "up"
    BY <1>1, <1>3 DEF Moved, StepX, StepY
<1>4. CASE d = "right"
    BY <1>1, <1>4 DEF Moved, StepX, StepY
<1>5. CASE d = "left"
    BY <1>1, <1>5 DEF Moved, StepX, StepY
<1>6. QED
    BY <1>2, <1>3, <1>4, <1>5 DEF direction_t

LEMMA Turns ==
    ASSUME NEW a \in direction_t, NEW b \in direction_t, b # Opposite(a)
    PROVE  /\ ~ (a = "down" /\ b = "up")
           /\ ~ (a = "up" /\ b = "down")
           /\ ~ (a = "left" /\ b = "right")
           /\ ~ (a = "right" /\ b = "left")
BY DEF Opposite

LEMMA OneMove ==
    ASSUME NEW p \in Tile, NEW a \in direction_t
    PROVE  Moved(p, a) # p
<1>1. p.x \in Coord /\ p.y \in Coord
    BY DEF Tile
<1>2. StepX(a, p.x) # p.x \/ StepY(a, p.y) # p.y
    BY <1>1, SizeAssumption
       DEF StepX, StepY, Increment, Decrement, Coord, direction_t
<1>3. QED
    BY <1>2, MovedCoordinates

LEMMA TwoMoves ==
    ASSUME NEW p \in Tile, NEW a \in direction_t, NEW b \in direction_t,
           b # Opposite(a)
    PROVE  Moved(Moved(p, a), b) # p
<1>1. p.x \in Coord /\ p.y \in Coord
    BY DEF Tile
<1>2. \/ StepX(b, StepX(a, p.x)) # p.x
      \/ StepY(b, StepY(a, p.y)) # p.y
    BY <1>1, SizeAssumption, Turns
       DEF StepX, StepY, Increment, Decrement, Coord, direction_t
<1>3. QED
    BY <1>2, MovedCoordinates, MovedTile

LEMMA ThreeMoves ==
    ASSUME NEW p \in Tile, NEW a \in direction_t, NEW b \in direction_t,
           NEW c \in direction_t, b # Opposite(a), c # Opposite(b)
    PROVE  Moved(Moved(Moved(p, a), b), c) # p
<1>1. p.x \in Coord /\ p.y \in Coord
    BY DEF Tile
<1>2. \/ StepX(c, StepX(b, StepX(a, p.x))) # p.x
      \/ StepY(c, StepY(b, StepY(a, p.y))) # p.y
  <2>1. CASE a \in {"left", "right"}
    BY <1>1, <2>1, SizeAssumption, Turns
       DEF StepX, StepY, Increment, Decrement, Coord, direction_t
  <2>2. CASE a \in {"up", "down"}
    BY <1>1, <2>2, SizeAssumption, Turns
       DEF StepX, StepY, Increment, Decrement, Coord, direction_t
  <2>3. QED
    BY <2>1, <2>2 DEF direction_t
<1>3. QED
  <2> DEFINE q == Moved(p, a)
             r == Moved(q, b)
  <2>1. q \in Tile /\ r \in Tile
    BY MovedTile
  <2>2. /\ Moved(r, c).x = StepX(c, StepX(b, StepX(a, p.x)))
        /\ Moved(r, c).y = StepY(c, StepY(b, StepY(a, p.y)))
    BY <2>1, MovedCoordinates
  <2>3. QED
    BY <1>2, <2>2

-----------------------------------------------------------------------------
(* A lost game has five cells. *)

LEMMA TileNotOrigin == \A t \in Tile : t # Origin
BY DEF Tile, Coord, Origin

\* With the last two moves known, the next head meets none of the three cells
\* behind it.
LEMMA HeadIsClear ==
    ASSUME TypeOK, HistoryHasNoGap, LastMoves,
           NEW d \in direction_t, Turn(d),
           NEW i \in Index, i \in 1..3
    PROVE  point_history'[i] # point_history'[0]
<1> SUFFICES ASSUME point_history'[i] = point_history'[0] PROVE FALSE
    OBVIOUS
<1> DEFINE h == point_history
<1>1. /\ current_direction' \in direction_t
      /\ current_direction' # Opposite(current_direction)
      /\ current_direction \in direction_t
      /\ h[0] \in Tile
    BY FilterForward DEF TypeOK, Turn
<1>2. /\ h'[0] = Moved(h[0], current_direction')
      /\ h'[0] \in Tile
      /\ h'[i] = h[i - 1]
    BY TurnTypes
<1>3. h[i - 1] \in Tile /\ h[i - 1] # Origin
    BY <1>2, TileNotOrigin
<1>4. CASE i = 1
    BY <1>1, <1>2, <1>4, OneMove
<1>5. CASE i = 2
  <2>1. h[0] = Moved(h[1], current_direction)
    BY <1>3, <1>5, IndexFacts DEF LastMoves, LinkedBy
  <2>2. QED
    BY <1>1, <1>2, <1>3, <1>5, <2>1, TwoMoves
<1>6. CASE i = 3
  <2>1. 1 \in Index /\ 2 \in Index
    BY <1>6, IndexFacts
  <2>2. h[1] # Origin
    BY <1>3, <1>6, <2>1 DEF HistoryHasNoGap
  <2>3. h[0] = Moved(h[1], current_direction)
    BY <2>1, <2>2 DEF LastMoves, LinkedBy
  <2>4. PICK before \in direction_t : /\ LinkedBy(2, before)
                                      /\ current_direction # Opposite(before)
    BY DEF LastMoves
  <2>5. h[1] = Moved(h[2], before)
    BY <1>3, <1>6, <2>1, <2>4 DEF LinkedBy
  <2>6. QED
    BY <1>1, <1>2, <1>3, <1>6, <2>3, <2>4, <2>5, ThreeMoves
<1>7. QED
    BY <1>4, <1>5, <1>6

LEMMA TurnKeepsLinks ==
    ASSUME TypeOK, HistoryHasNoGap, LastMoves,
           NEW d \in direction_t, Turn(d)
    PROVE  HistoryHasNoGap' /\ LastMoves'
<1> DEFINE h == point_history
<1>1. /\ current_direction' \in direction_t
      /\ current_direction' # Opposite(current_direction)
      /\ current_direction \in direction_t
    BY FilterForward DEF TypeOK, Turn
<1>2. /\ h'[0] = Moved(h[0], current_direction')
      /\ h'[0] \in Tile
      /\ \A k \in Index : k # 0 => h'[k] = h[k - 1]
    BY TurnTypes
<1>3. HistoryHasNoGap'
  <2> SUFFICES ASSUME NEW k \in Index, k # 0, h'[k - 1] = Origin
               PROVE  h'[k] = Origin
    BY DEF HistoryHasNoGap
  <2>1. k # 1
    BY <1>2, TileNotOrigin
  <2>2. k - 1 \in Index /\ k - 1 # 0
    BY <2>1, IndexFacts
  <2>3. h[(k - 1) - 1] = Origin
    BY <1>2, <2>2
  <2>4. QED
    BY <1>2, <2>2, <2>3 DEF HistoryHasNoGap
<1>4. LinkedBy(1, current_direction)'
    BY <1>2 DEF LinkedBy
<1>5. PICK before \in direction_t : before = current_direction
    BY <1>1
<1>6. LinkedBy(2, before)'
  <2> SUFFICES ASSUME 2 \in Index, h'[2] # Origin
               PROVE  h'[1] = Moved(h'[2], before)
    BY DEF LinkedBy
  <2>1. 1 \in Index /\ h'[2] = h[1] /\ h'[1] = h[0]
    BY <1>2, IndexFacts
  <2>2. QED
    BY <1>5, <2>1 DEF LastMoves, LinkedBy
<1>7. current_direction' # Opposite(before)
    BY <1>1, <1>5
<1>8. QED
    BY <1>3, <1>4, <1>6, <1>7 DEF LastMoves

LEMMA SteeringInvariant == Spec => []SteeringInv
<1>1. Init => SteeringInv
    BY DEF Init, SteeringInv, HistoryHasNoGap, LastMoves, LinkedBy,
           LossNeedsFive, direction_t, Opposite, Index
<1>2. TypeOK /\ SteeringInv /\ [Next]_vars => SteeringInv'
  <2> SUFFICES ASSUME TypeOK, SteeringInv, [Next]_vars PROVE SteeringInv'
    OBVIOUS
  <2>1. CASE Begin
    <3>1. \A k \in Index : k # 0 => point_history'[k] = Origin
      BY <2>1 DEF Begin
    <3>2. current_direction' = "right" /\ play' = "playing"
      BY <2>1 DEF Begin
    <3>3. HistoryHasNoGap'
      BY <3>1 DEF HistoryHasNoGap
    <3>4. LastMoves'
      BY <3>1, <3>2 DEF LastMoves, LinkedBy, direction_t, Opposite
    <3>5. QED
      BY <3>2, <3>3, <3>4 DEF SteeringInv, LossNeedsFive
  <2>2. ASSUME NEW d \in direction_t, Collide(d) PROVE SteeringInv'
    <3>1. Turn(d)
      BY <2>2 DEF Collide
    <3>2. PICK i \in 1..(length - 1) : point_history'[i] = point_history'[0]
      BY <2>2 DEF Collide, detect_collision_snake
    <3>3. i \in Index
      BY <2>2, <3>1, SnakeAssumption DEF Turn, TypeOK, Index
    <3>4. i \notin 1..3
      BY <3>1, <3>2, <3>3, HeadIsClear DEF SteeringInv
    <3>5. length' >= 5
      BY <2>2, <3>2, <3>4 DEF Collide, TypeOK
    <3>6. QED
      BY <3>1, <3>5, TurnKeepsLinks DEF SteeringInv, LossNeedsFive
  <2>3. ASSUME NEW d \in direction_t, Glide(d) \/ Eat(d) \/ Win(d)
        PROVE  SteeringInv'
    <3>1. Turn(d) /\ play' # "lost"
      BY <2>3 DEF Glide, Eat, Win, Turn
    <3>2. QED
      BY <3>1, TurnKeepsLinks DEF SteeringInv, LossNeedsFive
  <2>4. CASE UNCHANGED vars
    BY <2>4 DEF vars, SteeringInv, HistoryHasNoGap, LastMoves, LinkedBy,
                LossNeedsFive
  <2>5. QED
    BY <2>1, <2>2, <2>3, <2>4 DEF Next
<1>3. QED
    BY <1>1, <1>2, TypeCorrect, PTL DEF Spec

(* No game is lost with fewer than five cells, on any board of at least five
   tiles a side. *)
THEOREM NoShortLoss == Spec => []LossNeedsFive
<1>1. SteeringInv => LossNeedsFive
    BY DEF SteeringInv
<1>2. QED
    BY <1>1, SteeringInvariant, PTL

(* The score register after a game, for every winning length but two: a game
   that is won by its first pass has not written the register at all. *)
RegisterFollows == play = "playing" /\ length > 1 => score = length

LEMMA RegisterSteps ==
    ASSUME TypeOK, SteeringInv', snake_length # 2,
           RegisterFollows, FinalScore, [Next]_vars
    PROVE  RegisterFollows' /\ FinalScore'
<1>1. CASE Begin
  BY <1>1 DEF Begin, RegisterFollows, FinalScore
<1>2. ASSUME NEW d \in direction_t, Collide(d)
      PROVE  RegisterFollows' /\ FinalScore'
  <2>1. /\ play = "playing" /\ play' = "lost"
        /\ length' = length /\ score' = score
    BY <1>2 DEF Collide, Turn
  <2>2. length \in Nat /\ length' >= 5
    BY <2>1, SnakeAssumption DEF TypeOK, SteeringInv, LossNeedsFive
  <2> QED
    BY <2>1, <2>2 DEF RegisterFollows, FinalScore
<1>3. ASSUME NEW d \in direction_t, Glide(d) \/ Eat(d)
      PROVE  RegisterFollows' /\ FinalScore'
  BY <1>3 DEF Glide, Eat, Turn, display_score, RegisterFollows, FinalScore
<1>4. ASSUME NEW d \in direction_t, Win(d)
      PROVE  RegisterFollows' /\ FinalScore'
  <2>1. /\ play = "playing" /\ play' = "won"
        /\ length' = length + 1 /\ length + 1 = snake_length /\ score' = score
    BY <1>4 DEF Win, Turn
  <2>2. length \in Nat /\ length > 1
    BY <2>1, SnakeAssumption DEF TypeOK
  <2> QED
    BY <2>1, <2>2 DEF RegisterFollows, FinalScore
<1>5. CASE UNCHANGED vars
  BY <1>5 DEF vars, RegisterFollows, FinalScore
<1> QED
  BY <1>1, <1>2, <1>3, <1>4, <1>5 DEF Next

(* After a loss the register shows the length, after a win one less. *)
THEOREM ScoreAtTheEnd ==
    ASSUME snake_length # 2
    PROVE  Spec => []FinalScore
<1>1. Init => RegisterFollows /\ FinalScore
  BY DEF Init, RegisterFollows, FinalScore
<1>2. /\ TypeOK /\ SteeringInv' /\ RegisterFollows /\ FinalScore /\ [Next]_vars
      => RegisterFollows' /\ FinalScore'
  BY RegisterSteps
<1> QED
  BY <1>1, <1>2, TypeCorrect, SteeringInvariant, PTL DEF Spec

(* The head never re-enters the cell it has just left. *)
THEOREM NeverReverses == Spec => NoInstantReversal
<1> DEFINE Forward == Running /\ point_history[1] # Origin
                          => point_history'[0] # point_history[1]
<1>1. TypeOK /\ SteeringInv /\ [Next]_vars => [Forward]_vars
  <2> SUFFICES ASSUME TypeOK, SteeringInv, NEW d \in direction_t, Turn(d),
                      point_history[1] # Origin
               PROVE  point_history'[0] # point_history[1]
    BY DEF Next, Begin, Collide, Glide, Eat, Win, Running
  <2>1. 1 \in Index
    BY IndexFacts
  <2>2. CASE 2 \in Index
    <3>1. point_history'[2] = point_history[1]
      BY <2>2, TurnTypes
    <3>2. QED
      BY <2>2, <3>1, HeadIsClear DEF SteeringInv
  <2>3. CASE 2 \notin Index
    <3>1. /\ point_history[0] = Moved(point_history[1], current_direction)
          /\ point_history[1] \in Tile
      BY <2>1 DEF SteeringInv, LastMoves, LinkedBy, TypeOK, point_t
    <3>2. QED
      BY <3>1, TurnTypes, FilterForward, TwoMoves DEF Turn, TypeOK
  <2>4. QED
    BY <2>2, <2>3
<1>2. QED
    BY <1>1, TypeCorrect, SteeringInvariant, PTL
       DEF Spec, NoInstantReversal

-----------------------------------------------------------------------------
(* The picture. *)

\* What a pass that goes on does to the history and to the picture.
LEMMA PassEffect ==
    ASSUME TypeOK, NEW d \in direction_t, Glide(d) \/ Eat(d)
    PROVE  /\ length \in Nat \ {0}
           /\ length' = length \/ length' = length + 1
           /\ \A i \in 1..length' : i \in Index
           /\ \A i \in 1..length' : point_history'[i] = point_history[i - 1]
           /\ \A i \in 1..(length - 1) : point_history'[i] # point_history'[0]
<1>1. Turn(d) /\ play = "playing"
    BY DEF Glide, Eat, Turn
<1>2. length \in 1..(snake_length - 1) /\ length' \in 1..(snake_length - 1)
    BY <1>1, SnakeAssumption DEF Glide, Eat, TypeOK
<1>3. length \in Nat \ {0} /\ (length' = length \/ length' = length + 1)
    BY <1>2, SnakeAssumption DEF Glide, Eat
<1>4. \A i \in 1..length' : i \in Index
    BY <1>2, IndexFacts, SnakeAssumption
<1>5. \A i \in 1..length' : point_history'[i] = point_history[i - 1]
    BY <1>1, <1>3, <1>4, TurnTypes
<1>6. \A i \in 1..(length - 1) : point_history'[i] # point_history'[0]
    BY DEF Glide, Eat, detect_collision_snake
<1>7. QED
    BY <1>3, <1>4, <1>5, <1>6

LEMMA GlidePicture ==
    ASSUME NEW d \in direction_t, Glide(d), NEW t \in Screen
    PROVE  frame_buffer'[t] =
               IF t = point_history'[0] THEN "snake"
               ELSE IF t = point_history'[length'] THEN "background"
               ELSE frame_buffer[t]
BY DEF Glide, redraw, draw_square

LEMMA EatPicture ==
    ASSUME NEW d \in direction_t, Eat(d), NEW t \in Screen
    PROVE  frame_buffer'[t] =
               IF t = point_history'[0] THEN "snake"
               ELSE IF t = point_history'[length'] THEN "background"
               ELSE IF t = current_food' THEN "food"
               ELSE frame_buffer[t]
BY DEF Eat, redraw, draw_square

(* No tile stays lit behind the snake, and no old food stays on the screen. *)
THEOREM PictureHasNoGhosts == Spec => []NoGhosts
<1>1. Init => NoGhosts
    BY DEF Init, NoGhosts
<1>2. TypeOK /\ NoGhosts /\ [Next]_vars => NoGhosts'
  <2> SUFFICES ASSUME TypeOK, NoGhosts, [Next]_vars, play' = "playing",
                      NEW t \in Screen
               PROVE  /\ frame_buffer'[t] = "snake" => t \in Body'
                      /\ frame_buffer'[t] = "food" => t = current_food'
    BY DEF NoGhosts
  <2>1. CASE Begin
    BY <2>1 DEF Begin, draw_square, fill_buffer
  <2>2. ASSUME NEW d \in direction_t, Collide(d) \/ Win(d) PROVE FALSE
    BY <2>2 DEF Collide, Win
  <2>3. ASSUME NEW d \in direction_t, Glide(d) \/ Eat(d)
        PROVE  /\ frame_buffer'[t] = "snake" => t \in Body'
               /\ frame_buffer'[t] = "food" => t = current_food'
    <3>1. /\ play = "playing"
          /\ length \in Nat \ {0}
          /\ length' = length \/ length' = length + 1
      BY <2>3, PassEffect DEF Glide, Eat, Turn
    <3>2. point_history'[0] \in Body'
      BY <3>1 DEF Body
    <3>3. ASSUME t \in Body, t # point_history'[length'] PROVE t \in Body'
      <4>1. PICK i \in 0..(length - 1) : t = point_history[i]
        BY <3>3 DEF Body
      <4>2. i + 1 \in 1..length' /\ point_history'[i + 1] = t
        BY <2>3, <3>1, <4>1, PassEffect
      <4>3. i + 1 # length'
        BY <3>3, <4>2
      <4>4. i + 1 \in 0..(length' - 1)
        BY <3>1, <4>1, <4>2, <4>3
      <4>5. QED
        BY <4>2, <4>4 DEF Body
    <3>4. CASE Glide(d)
      <4>1. current_food' = current_food
        BY <3>4 DEF Glide
      <4>2. QED
        BY <3>1, <3>2, <3>3, <3>4, <4>1, GlidePicture DEF NoGhosts
    <3>5. CASE Eat(d)
      <4>1. point_history'[0] = current_food
        BY <3>5 DEF Eat
      <4>2. QED
        BY <3>1, <3>2, <3>3, <3>5, <4>1, EatPicture DEF NoGhosts
    <3>6. QED
      BY <2>3, <3>4, <3>5
  <2>4. CASE UNCHANGED vars
    BY <2>4 DEF vars, NoGhosts, Body
  <2>5. QED
    BY <2>1, <2>2, <2>3, <2>4 DEF Next
<1>3. QED
    BY <1>1, <1>2, TypeCorrect, PTL DEF Spec

-----------------------------------------------------------------------------
(* Two cells of the snake coincide only after it ate a food on itself. *)
LEMMA PassOverlap ==
    ASSUME TypeOK, NEW d \in direction_t, Glide(d) \/ Eat(d),
           ~ SelfOverlap, SelfOverlap'
    PROVE  current_food \in Body
<1>1. PICK i \in 0..(length' - 1), j \in 0..(length' - 1) :
          i # j /\ point_history'[i] = point_history'[j]
    BY DEF SelfOverlap
<1>2. length \in Nat \ {0} /\ (length' = length \/ length' = length + 1)
    BY PassEffect
<1>3. CASE i # 0 /\ j # 0
  <2>1. /\ i - 1 \in 0..(length - 1) /\ j - 1 \in 0..(length - 1)
        /\ point_history[i - 1] = point_history[j - 1]
    BY <1>1, <1>2, <1>3, PassEffect
  <2>2. QED
    BY <1>1, <2>1 DEF SelfOverlap
<1>4. ASSUME NEW k \in 0..(length' - 1), k # 0,
             point_history'[k] = point_history'[0]
      PROVE  current_food \in Body
  <2>1. k = length /\ length' = length + 1
    BY <1>2, <1>4, PassEffect
  <2>2. point_history'[0] = current_food
    BY <1>2, <2>1 DEF Glide, Eat
  <2>3. point_history'[k] = point_history[length - 1]
    BY <1>2, <1>4, <2>1, PassEffect
  <2>4. QED
    BY <1>2, <2>2, <2>3, <2>1, <1>4 DEF Body
<1>5. QED
    BY <1>1, <1>3, <1>4

THEOREM OverlapNeedsFoodOnSnake == Spec => OverlapOnlyByFoodOnSnake
<1>1. TypeOK /\ [Next]_vars
        => [Running /\ ~ SelfOverlap /\ SelfOverlap'
              => current_food \in Body]_vars
  <2> SUFFICES ASSUME TypeOK, Next, Running, ~ SelfOverlap, SelfOverlap'
               PROVE  current_food \in Body
    OBVIOUS
  <2>1. PICK d \in direction_t : Glide(d) \/ Eat(d)
    BY DEF Next, Begin, Collide, Win, Running
  <2>2. QED
    BY <2>1, PassOverlap
<1>2. QED
    BY <1>1, TypeCorrect, PTL DEF Spec, OverlapOnlyByFoodOnSnake

-----------------------------------------------------------------------------
(* An exact picture stays exact unless the food or a meal meets the trail. *)

LEMMA Exactly ==
    PictureExact <=>
        \A t \in Screen :
            frame_buffer[t] = IF t \in Body THEN "snake"
                              ELSE IF t = current_food THEN "food"
                              ELSE "background"
BY DEF PictureExact

LEMMA PassPicture ==
    ASSUME TypeOK, NEW d \in direction_t, Glide(d) \/ Eat(d),
           PictureExact, ~ SelfOverlap, current_food' \notin Trail',
           length' > length => point_history[length] \notin Body
    PROVE  PictureExact'
<1> DEFINE h == point_history
<1>1. /\ length \in Nat \ {0}
      /\ length' = length \/ length' = length + 1
      /\ \A i \in 1..length' : h'[i] = h[i - 1]
    BY PassEffect
<1> SUFFICES ASSUME NEW t \in Screen
             PROVE  frame_buffer'[t] = IF t \in Body' THEN "snake"
                                       ELSE IF t = current_food' THEN "food"
                                       ELSE "background"
    BY DEF PictureExact
<1>2. h'[0] \in Body' /\ Body' \subseteq Trail' /\ h'[length'] \in Trail'
    BY <1>1 DEF Body, Trail
<1>3. ASSUME NEW i \in 1..(length' - 1) PROVE h'[i] # h'[length']
  <2>1. h'[i] = h[i - 1] /\ h'[length'] = h[length' - 1]
    BY <1>1
  <2>2. CASE length' = length
    BY <1>1, <2>1, <2>2 DEF SelfOverlap
  <2>3. CASE length' = length + 1
    BY <1>1, <2>1, <2>3 DEF Body
  <2>4. QED
    BY <1>1, <2>2, <2>3
<1>4. ASSUME t # h'[0], t # h'[length'] PROVE t \in Body' <=> t \in Body
  <2>1. ASSUME NEW i \in 0..(length' - 1), t = h'[i] PROVE t \in Body
    <3>1. i - 1 \in 0..(length - 1) /\ t = h[i - 1]
      BY <1>1, <1>4, <2>1
    <3>2. QED
      BY <3>1 DEF Body
  <2>2. ASSUME NEW i \in 0..(length - 1), t = h[i] PROVE t \in Body'
    <3>1. i + 1 \in 0..(length' - 1) /\ t = h'[i + 1]
      BY <1>1, <1>4, <2>2
    <3>2. QED
      BY <3>1 DEF Body
  <2>3. QED
    BY <2>1, <2>2 DEF Body
<1>5. CASE t = h'[0]
    BY <1>2, <1>5, GlidePicture, EatPicture
<1>6. CASE t # h'[0] /\ t = h'[length']
  <2>1. t \notin Body'
    BY <1>1, <1>3, <1>6 DEF Body
  <2>2. QED
    BY <1>2, <1>6, <2>1, GlidePicture, EatPicture
<1>7. CASE t # h'[0] /\ t # h'[length']
  <2>1. CASE Glide(d)
    <3>1. current_food' = current_food
      BY <2>1 DEF Glide
    <3>2. QED
      BY <1>4, <1>7, <2>1, <3>1, GlidePicture, Exactly
  <2>2. CASE Eat(d)
    <3>1. current_food = h'[0]
      BY <2>2 DEF Eat
    <3>2. QED
      BY <1>2, <1>4, <1>7, <2>2, <3>1, EatPicture, Exactly
  <2>3. QED
    BY <2>1, <2>2
<1>8. QED
    BY <1>5, <1>6, <1>7

THEOREM PictureStaysExact == Spec => PictureSpoiltOnlyOnTrail
<1>1. TypeOK /\ [Next]_vars
        => [Running /\ PictureExact /\ ~ SelfOverlap /\ ~ PictureExact'
              => \/ current_food' \in Trail'
                 \/ length' > length /\ point_history[length] \in Body]_vars
  <2> SUFFICES ASSUME TypeOK, Next, Running, PictureExact, ~ SelfOverlap,
                      current_food' \notin Trail',
                      length' > length => point_history[length] \notin Body
               PROVE  PictureExact'
    OBVIOUS
  <2>1. PICK d \in direction_t : Glide(d) \/ Eat(d)
    BY DEF Next, Begin, Collide, Win, Running
  <2>2. QED
    BY <2>1, PassPicture
<1>2. QED
    BY <1>1, TypeCorrect, PTL DEF Spec, PictureSpoiltOnlyOnTrail

-----------------------------------------------------------------------------
(* The array plays the game of module SnakeRules. *)


\* The first n entries of an array, read as a sequence.
LEMMA ArrayAsSequence ==
    ASSUME NEW S, NEW n \in Nat, NEW f, \A i \in 0..(n - 1) : f[i] \in S
    PROVE  LET s == [i \in 1..n |-> f[i - 1]]
           IN  /\ s \in Seq(S)
               /\ Len(s) = n
               /\ \A i \in 1..n : s[i] = f[i - 1]
OBVIOUS

\* The cells while there is a snake, before and after a step.
LEMMA ArrayCells ==
    ASSUME NEW n \in 1..snake_length, NEW f \in [Index -> point_t],
           NEW s, s = [i \in 1..n |-> f[i - 1]]
    PROVE  /\ n \in Nat \ {0}
           /\ s \in Seq(point_t)
           /\ Len(s) = n
           /\ \A i \in 1..n : s[i] = f[i - 1]
<1>1. n \in Nat \ {0} /\ \A i \in 0..(n - 1) : i \in Index
    BY IndexFacts, SnakeAssumption
<1>2. QED
    BY <1>1, ArrayAsSequence

LEMMA CellsFacts ==
    ASSUME TypeOK, play # "idle"
    PROVE  /\ length \in Nat \ {0}
           /\ Cells \in Seq(point_t)
           /\ Len(Cells) = length
           /\ \A i \in 1..length : Cells[i] = point_history[i - 1]
BY ArrayCells DEF TypeOK, Cells

LEMMA CellsFactsNext ==
    ASSUME TypeOK', play' # "idle"
    PROVE  /\ length' \in Nat \ {0}
           /\ Cells' \in Seq(point_t)
           /\ Len(Cells') = length'
           /\ \A i \in 1..length' : Cells'[i] = point_history'[i - 1]
BY ArrayCells DEF TypeOK, Cells

\* Sequences with the same length and the same elements are equal.
LEMMA SameSequence ==
    ASSUME NEW S, NEW s \in Seq(S), NEW t \in Seq(S), Len(s) = Len(t),
           \A i \in 1..Len(s) : s[i] = t[i]
    PROVE  s = t
OBVIOUS

LEMMA FollowCells ==
    ASSUME TypeOK, play # "idle", TypeOK', play' # "idle", length' = length,
           \A i \in 1..(length - 1) : point_history'[i] = point_history[i - 1]
    PROVE  Cells' = Rules!Follow(point_history'[0])
<1> DEFINE tile == point_history'[0]
           shorter == SubSeq(Cells, 1, length - 1)
<1>1. /\ length \in Nat \ {0}
      /\ Cells \in Seq(point_t) /\ Len(Cells) = length
      /\ \A i \in 1..length : Cells[i] = point_history[i - 1]
    BY CellsFacts
<1>2. /\ Cells' \in Seq(point_t) /\ Len(Cells') = length
      /\ \A i \in 1..length : Cells'[i] = point_history'[i - 1]
    BY CellsFactsNext
<1>3. tile \in point_t
    BY IndexFacts DEF TypeOK
<1>4. /\ shorter \in Seq(point_t) /\ Len(shorter) = length - 1
      /\ \A i \in 1..(length - 1) : shorter[i] = Cells[i]
    BY <1>1
<1>5. /\ <<tile>> \o shorter \in Seq(point_t)
      /\ Len(<<tile>> \o shorter) = length
      /\ \A i \in 1..length : (<<tile>> \o shorter)[i] =
             IF i = 1 THEN tile ELSE shorter[i - 1]
    BY <1>1, <1>3, <1>4
<1> HIDE DEF shorter
<1>6. ASSUME NEW i \in 1..length
      PROVE  Cells'[i] = (<<tile>> \o shorter)[i]
  <2>1. Cells'[i] = point_history'[i - 1]
    BY <1>2
  <2>2. CASE i = 1
    BY <1>5, <2>1, <2>2
  <2>3. CASE i # 1
    <3>1. i - 1 \in 1..(length - 1) /\ i - 1 \in 1..length
      BY <1>1, <2>3
    <3>2. point_history'[i - 1] = point_history[i - 2]
      BY <3>1
    <3>3. shorter[i - 1] = point_history[i - 2]
      <4>1. shorter[i - 1] = Cells[i - 1]
        BY <1>4, <3>1
      <4>2. Cells[i - 1] = point_history[(i - 1) - 1]
        BY <1>1, <3>1
      <4>3. QED
        BY <4>1, <4>2
    <3>4. QED
      BY <1>5, <2>1, <2>3, <3>2, <3>3
  <2>4. QED
    BY <2>2, <2>3
<1>7. Cells' = <<tile>> \o shorter
    BY <1>2, <1>5, <1>6, SameSequence
<1>8. QED
    BY <1>1, <1>7 DEF Rules!Follow, shorter

LEMMA GrowCells ==
    ASSUME TypeOK, play # "idle", TypeOK', play' # "idle",
           length' = length + 1,
           \A i \in 1..length : point_history'[i] = point_history[i - 1]
    PROVE  Cells' = <<point_history'[0]>> \o Cells
<1> DEFINE tile == point_history'[0]
<1>1. /\ length \in Nat \ {0}
      /\ Cells \in Seq(point_t) /\ Len(Cells) = length
      /\ \A i \in 1..length : Cells[i] = point_history[i - 1]
    BY CellsFacts
<1>2. /\ Cells' \in Seq(point_t) /\ Len(Cells') = length + 1
      /\ \A i \in 1..(length + 1) : Cells'[i] = point_history'[i - 1]
    BY CellsFactsNext
<1>3. tile \in point_t
    BY IndexFacts DEF TypeOK
<1>4. /\ <<tile>> \o Cells \in Seq(point_t)
      /\ Len(<<tile>> \o Cells) = length + 1
      /\ \A i \in 1..(length + 1) : (<<tile>> \o Cells)[i] =
             IF i = 1 THEN tile ELSE Cells[i - 1]
    BY <1>1, <1>3
<1>5. ASSUME NEW i \in 1..(length + 1)
      PROVE  Cells'[i] = (<<tile>> \o Cells)[i]
  <2>1. Cells'[i] = point_history'[i - 1]
    BY <1>2
  <2>2. CASE i = 1
    BY <1>4, <2>1, <2>2
  <2>3. CASE i # 1
    <3>1. i - 1 \in 1..length
      BY <1>1, <2>3
    <3>2. point_history'[i - 1] = point_history[(i - 1) - 1]
      BY <3>1
    <3>3. Cells[i - 1] = point_history[(i - 1) - 1]
      BY <1>1, <3>1
    <3>4. QED
      BY <1>4, <2>1, <2>3, <3>2, <3>3
  <2>4. QED
    BY <2>2, <2>3
<1>6. QED
    BY <1>2, <1>4, <1>5, SameSequence

\* The head enters a tile that the rules allow.
LEMMA HeadInReach ==
    ASSUME TypeOK, SteeringInv, NEW d \in direction_t, Turn(d)
    PROVE  point_history'[0] \in Rules!Reach
<1>1. /\ length \in Nat \ {0} /\ Len(Cells) = length
      /\ \A i \in 1..length : Cells[i] = point_history[i - 1]
    BY CellsFacts DEF Turn
<1>2. /\ Cells[1] = point_history[0]
      /\ length > 1 => Cells[2] = point_history[1]
    BY <1>1
<1>3. /\ current_direction' \in direction_t
      /\ point_history'[0] = Moved(Cells[1], current_direction')
    BY <1>2, TurnTypes
<1>4. length > 1 => point_history'[0] # point_history[1]
  <2> SUFFICES ASSUME length > 1, point_history'[0] = point_history[1]
               PROVE  FALSE
    OBVIOUS
  <2>1. 2 \in Index
    BY <1>1, SnakeAssumption DEF TypeOK, Turn, Index
  <2>2. point_history'[2] = point_history[1]
    BY <2>1, TurnTypes
  <2>3. QED
    BY <2>1, <2>2, HeadIsClear DEF SteeringInv
<1>5. Rules!Reach = {Moved(Cells[1], c) : c \in direction_t}
                        \ (IF Len(Cells) > 1 THEN {Cells[2]} ELSE {})
    BY DEF Rules!Reach, Rules!Moved, Moved, Rules!direction_t, direction_t,
           Rules!Increment, Increment, Rules!Decrement, Decrement
<1>6. point_history'[0] \in {Moved(Cells[1], c) : c \in direction_t}
    BY <1>3
<1>7. point_history'[0] \notin (IF Len(Cells) > 1 THEN {Cells[2]} ELSE {})
    BY <1>1, <1>2, <1>4
<1>8. QED
    BY <1>5, <1>6, <1>7

LEMMA StepByTheRules ==
    ASSUME TypeOK, TypeOK', SteeringInv, [Next]_vars
    PROVE  [Rules!Next]_Rules!vars
<1>1. CASE Begin
  <2>1. length' = 1 /\ point_history'[0] = [x |-> START, y |-> START]
    BY <1>1, IndexFacts DEF Begin
  <2>2. Cells' = <<[x |-> START, y |-> START]>>
    BY <1>1, <2>1 DEF Begin, Cells
  <2>3. Rules!Start
    BY <1>1, <2>2 DEF Begin, Rules!Start
  <2>4. QED
    BY <2>3 DEF Rules!Next
<1>2. ASSUME NEW d \in direction_t, Collide(d) \/ Glide(d) \/ Eat(d) \/ Win(d)
      PROVE  Rules!Next
  <2> DEFINE tile == point_history'[0]
  <2>1. Turn(d) /\ play = "playing" /\ play' # "idle" /\ length < snake_length
    BY <1>2 DEF Collide, Glide, Eat, Win, Turn, TypeOK
  <2>2. tile \in Rules!Reach
    BY <2>1, HeadInReach
  <2>3. /\ length \in Nat \ {0} /\ Len(Cells) = length
        /\ \A i \in 1..length : Cells[i] = point_history[i - 1]
    BY <2>1, CellsFacts
  <2>4. \A i \in 1..length : i \in Index /\ point_history'[i] = point_history[i - 1]
    <3>1. \A i \in 1..length : i \in Index
      BY <2>1, <2>3, IndexFacts, SnakeAssumption
    <3>2. QED
      BY <2>1, <3>1, TurnTypes
  <2>5. detect_collision_snake(point_history', length) <=> Rules!Hits(tile)
    BY <2>3, <2>4 DEF detect_collision_snake, Rules!Hits
  <2>6. CASE Collide(d)
    <3>1. length' = length /\ current_food' = current_food /\ play' = "lost"
      BY <2>6 DEF Collide
    <3>2. Cells' = Rules!Follow(tile)
      BY <2>1, <2>3, <2>4, <3>1, FollowCells
    <3>3. Rules!Lose(tile)
      BY <2>1, <2>5, <2>6, <3>1, <3>2 DEF Collide, Rules!Lose
    <3>4. QED
      BY <2>2, <3>3 DEF Rules!Next
  <2>7. CASE Glide(d)
    <3>1. length' = length /\ current_food' = current_food /\ play' = play
      BY <2>7 DEF Glide
    <3>2. Cells' = Rules!Follow(tile)
      BY <2>1, <2>3, <2>4, <3>1, FollowCells
    <3>3. Rules!Move(tile)
      BY <2>1, <2>5, <2>7, <3>1, <3>2 DEF Glide, Rules!Move
    <3>4. QED
      BY <2>2, <3>3 DEF Rules!Next
  <2>8. CASE Eat(d)
    <3>1. /\ length' = length + 1 /\ play' = play
          /\ tile = current_food /\ current_food' \in Food
      BY <2>8 DEF Eat, TypeOK
    <3>2. Cells' = <<tile>> \o Cells
      BY <2>1, <2>4, <3>1, GrowCells
    <3>3. length + 1 < snake_length
      BY <2>1, <2>3, <2>8, SnakeAssumption DEF Eat
    <3>4. Rules!Grow(tile)
      BY <2>1, <2>3, <2>5, <2>8, <3>1, <3>2, <3>3 DEF Eat, Rules!Grow
    <3>5. QED
      BY <2>2, <3>4 DEF Rules!Next
  <2>9. CASE Win(d)
    <3>1. /\ length' = length + 1 /\ play' = "won"
          /\ tile = current_food /\ current_food' = current_food
          /\ length + 1 = snake_length
      BY <2>9 DEF Win
    <3>2. Cells' = <<tile>> \o Cells
      BY <2>1, <2>4, <3>1, GrowCells
    <3>3. Rules!Win(tile)
      BY <2>1, <2>3, <2>5, <2>9, <3>1, <3>2 DEF Win, Rules!Win
    <3>4. QED
      BY <2>2, <3>3 DEF Rules!Next
  <2>10. QED
    BY <1>2, <2>6, <2>7, <2>8, <2>9
<1>3. CASE UNCHANGED vars
    BY <1>3 DEF vars, Cells, Rules!vars
<1>4. QED
    BY <1>1, <1>2, <1>3 DEF Next

(* Every behaviour of the driver is a game played by the rules. *)
THEOREM DriverPlaysByTheRules == Spec => PlaysByTheRules
<1>1. Init => Rules!Init
    BY DEF Init, Cells, Rules!Init
<1>2. TypeOK /\ TypeOK' /\ SteeringInv /\ [Next]_vars
        => [Rules!Next]_Rules!vars
    BY StepByTheRules
<1>3. QED
    BY <1>1, <1>2, TypeCorrect, SteeringInvariant, PTL
       DEF Spec, PlaysByTheRules, Rules!Spec
=============================================================================
