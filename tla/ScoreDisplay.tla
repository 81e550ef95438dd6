---------------------------- MODULE ScoreDisplay ----------------------------
(***************************************************************************)
(* From display_score() of main.c to the two seven-segment displays: the   *)
(* argument is a byte, the output port keeps its low six bits, and         *)
(* seven_seg_encoder.vhd turns the six bits into the segments of two       *)
(* digits.  A pattern of segments is named by the digit it shows; all      *)
(* segments lit show an 8.                                                 *)
(***************************************************************************)
EXTENDS Integers

VARIABLES
    written,    \* the last byte written, 0 at reset
    data_out    \* the register of the port

score_vars == <<written, data_out>>

\* The table of the encoder, a row for each number up to 33.
encode(score) ==
    CASE score = 28            -> <<2, 7>>
      [] score \in 0..33 \ {28} -> <<score \div 10, score % 10>>
      [] OTHER                 -> <<8, 8>>

seven_seg == encode(data_out)

ScoreInit == written = 0 /\ data_out = 0

DisplayFiveBits(score) ==     \* slip: the port one bit too narrow
    /\ written' = score
    /\ data_out' = score % 32

display_score(score) ==
    /\ written' = score
    /\ data_out' = score % 64

ScoreNext == \E score \in 0..255 : display_score(score)

ScoreSpec == ScoreInit /\ [][ScoreNext]_score_vars

-----------------------------------------------------------------------------
Shown == seven_seg[1] * 10 + seven_seg[2]

(* Up to 33, one more than the length that wins, and except 28, the number on
   the displays is the byte that was written: six bits are enough. *)
SmallScoresShown == written \in 0..33 \ {28} => Shown = written

(* "Able to show a 6 bit number" (README.md:28).  It is not: from 34 on it
   shows 88, and 28, whose row says "--28" (seven_seg_encoder.vhd:74), is
   shown as 27, so that eating the 27th food does not change the displays. *)
SixBitsShown == written < 64 => Shown = written
=============================================================================
