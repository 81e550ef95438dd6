----------------------------- MODULE SnakeMoves -----------------------------
(***************************************************************************)
(* The board of the game and the movement of the head on it, as written in *)
(* NiosDisplay_App/snake.c and types.h.  A point is a record of two small  *)
(* coordinates.  The game draws on tiles 1..SIZE in each direction; the    *)
(* point (0, 0) is what a zero-initialised history entry holds.            *)
(*                                                                         *)
(* Stepping down or right wraps from SIZE to 1, stepping up or left wraps  *)
(* from 1 to SIZE - 1: the two are not inverse to each other at the edge.  *)
(***************************************************************************)
EXTENDS Integers

CONSTANT SIZE     \* tiles per side (snake.h: SIZE, 32)

\* The arguments about short loops need a board of at least five tiles; the
\* coordinates of a point_t are bytes.
ASSUME SizeAssumption == SIZE \in 5..255

direction_t == {"up", "down", "left", "right"}

Coord == 1..SIZE

Tile == [x : Coord, y : Coord]

Origin == [x |-> 0, y |-> 0]

point_t == Tile \cup {Origin}

Increment(c) == IF c = SIZE THEN 1 ELSE c + 1

DecrementUnwrapped(c) == c - 1     \* slip: the wrap forgotten

Decrement(c) == IF c = 1 THEN SIZE - 1 ELSE c - 1

\* The tile the head enters when it leaves p in direction d.
Moved(p, d) ==
    CASE d = "down"  -> [p EXCEPT !.y = Increment(p.y)]
      [] d = "up"    -> [p EXCEPT !.y = Decrement(p.y)]
      [] d = "right" -> [p EXCEPT !.x = Increment(p.x)]
      [] d = "left"  -> [p EXCEPT !.x = Decrement(p.x)]

Opposite(d) ==
    CASE d = "up"    -> "down"
      [] d = "down"  -> "up"
      [] d = "left"  -> "right"
      [] d = "right" -> "left"

filter_direction_off(current, requested) == requested     \* slip: no filter

\* A request to turn back on the spot is ignored.
filter_direction(current, requested) ==
    IF requested # Opposite(current) THEN requested ELSE current
=============================================================================
