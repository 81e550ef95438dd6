----------------------------- MODULE SnakeRules -----------------------------
(***************************************************************************)
(* The rules of the game that snake_play() promises, without its history   *)
(* array, its draw calls and its direction variable: the snake is the      *)
(* sequence of its cells, head first.  At every move the head enters a     *)
(* neighbouring tile, never the one just behind it.  Module Snake          *)
(* implements this specification.                                          *)
(***************************************************************************)
EXTENDS SnakeMoves, Sequences

CONSTANTS
    snake_length,   \* the length that wins
    Food,           \* the tiles on which food may appear
    First           \* the tile of the first head

VARIABLES play, body, food

vars == <<play, body, food>>

Init ==
    /\ play = "idle"
    /\ body = << >>
    /\ food \in Food

Start ==
    /\ play # "playing"
    /\ play' = "playing"
    /\ body' = <<First>>
    /\ food' \in Food

\* The tiles the head may enter next.
Reach ==
    {Moved(body[1], d) : d \in direction_t}
        \ (IF Len(body) > 1 THEN {body[2]} ELSE {})

\* Moving takes the last cell along, so entering it is no collision.
Follow(tile) == <<tile>> \o SubSeq(body, 1, Len(body) - 1)

Hits(tile) == \E i \in 1..(Len(body) - 1) : body[i] = tile

Lose(tile) ==
    /\ play = "playing"
    /\ Hits(tile)
    /\ play' = "lost"
    /\ body' = Follow(tile)
    /\ UNCHANGED food

Move(tile) ==
    /\ play = "playing"
    /\ ~ Hits(tile)
    /\ tile # food
    /\ body' = Follow(tile)
    /\ UNCHANGED <<play, food>>

Grow(tile) ==
    /\ play = "playing"
    /\ ~ Hits(tile)
    /\ tile = food
    /\ Len(body) + 1 < snake_length
    /\ body' = <<tile>> \o body
    /\ food' \in Food
    /\ UNCHANGED play

Win(tile) ==
    /\ play = "playing"
    /\ ~ Hits(tile)
    /\ tile = food
    /\ Len(body) + 1 = snake_length
    /\ play' = "won"
    /\ body' = <<tile>> \o body
    /\ UNCHANGED food

Next ==
    \/ Start
    \/ \E tile \in Reach : Lose(tile) \/ Move(tile) \/ Grow(tile) \/ Win(tile)

Spec == Init /\ [][Next]_vars
=============================================================================
