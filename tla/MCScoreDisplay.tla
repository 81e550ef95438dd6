--------------------------- MODULE MCScoreDisplay ---------------------------
(* Every byte is written after every other; there are no constants. *)
EXTENDS ScoreDisplay
=============================================================================
