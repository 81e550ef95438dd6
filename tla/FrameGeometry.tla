---------------------------- MODULE FrameGeometry ----------------------------
(***************************************************************************)
(* Where draw_square() of snake.c writes: one row of bytes per pass of its *)
(* loop, for the points that module Snake draws.  The module justifies     *)
(* what module Snake assumes of the picture, that drawing one tile changes *)
(* no other and that a tile with x = SIZE is not on the screen.            *)
(*                                                                         *)
(* Offsets are counted from frame_buffer; the picture is the first         *)
(* resolution * resolution bytes, and the memory of the frame buffer goes  *)
(* on behind it.  The numbers are those of main.c and of the hardware.     *)
(***************************************************************************)
EXTENDS SnakeMoves

resolution == 512
square_size == resolution \div 32
square_diameter == square_size \div 2
FRAME_BUFFER_SPAN == 282144

\* draw_square has the number of tiles as a literal.
ASSUME GeometryAssumption == SIZE = 32

VARIABLES
    location,   \* the argument of the current call
    i,          \* rows written; the call is over when it is square_size
    start       \* offset of the row to write next

vars == <<location, i, start>>

Offset(p) ==
    resolution * p.x * square_size - square_diameter + p.y * square_size

Init ==
    /\ location \in point_t
    /\ i = 0
    /\ start = Offset(location)

draw_square(p) ==
    /\ i = square_size
    /\ location' = p
    /\ i' = 0
    /\ start' = Offset(p)

NextRowShort ==                   \* slip: a row of the picture one too short
    /\ i < square_size
    /\ i' = i + 1
    /\ start' = start + resolution - 1
    /\ UNCHANGED location

NextRowTall ==                    \* slip: a row of tiles for a row of pixels
    /\ i < square_size
    /\ i' = i + 1
    /\ start' = start + resolution * square_size
    /\ UNCHANGED location

\* memset of square_size bytes at start, then one row down.
NextRow ==
    /\ i < square_size
    /\ i' = i + 1
    /\ start' = start + resolution
    /\ UNCHANGED location

Next == NextRow \/ \E p \in point_t : draw_square(p)

Spec == Init /\ [][Next]_vars

-----------------------------------------------------------------------------
Written == IF i < square_size THEN start .. (start + square_size - 1) ELSE {}

\* The only tile that may own the byte at an offset.
Owner(offset) ==
    LET b == offset - square_diameter
    IN  [x |-> b \div (resolution * square_size),
         y |-> (b % resolution) \div square_size + 1]

(* A byte is written for one tile only, although the rows of tiles with
   y = SIZE run over into the next row of pixels; and the point (0, 0) shares
   no byte with a tile. *)
SquaresDisjoint ==
    \A byte \in Written :
        IF location = Origin THEN Owner(byte) \notin Tile
                             ELSE Owner(byte) = location

(* Every byte lies in the memory of the frame buffer, except eight that are
   written before it when the point (0, 0) is drawn. *)
InsideMemory ==
    \A byte \in Written :
        \/ byte \in 0..(FRAME_BUFFER_SPAN - 1)
        \/ location = Origin /\ i = 0 /\ byte \in (- square_diameter)..(-1)

(* The tiles with x = SIZE lie behind the picture, and every row of the others
   begins in it. *)
LastColumnHidden ==
    i < square_size /\ location # Origin
        => (start < resolution * resolution <=> location.x # SIZE)
=============================================================================
