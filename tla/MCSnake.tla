------------------------------ MODULE MCSnake ------------------------------
(***************************************************************************)
(* Small boards for TLC.  Five tiles a side is the smallest board the      *)
(* assumptions allow; the game-over text is one tile, and it is a tile the *)
(* food may also use.                                                      *)
(***************************************************************************)
EXTENDS Snake

MCGameOverTiles == {[x |-> 1, y |-> 1]}
=============================================================================
