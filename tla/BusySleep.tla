----------------------------- MODULE BusySleep -----------------------------
(***************************************************************************)
(* usleep(): a busy loop of known cost.  A long sleep is cut into pieces,  *)
(* each the largest count an int can hold.  One assembler loop is one      *)
(* step; what it does is told by the number of times it goes round.        *)
(***************************************************************************)
EXTENDS Integers

CONSTANTS
    WORD,           \* 2^32, the number of values of a word
    SPEED,          \* cycles of the processor in a microsecond (138)
    CYCLES          \* cycles of a loop: 9 on a "tiny" core, else 3

\* Loops in a microsecond: 15, where 15.33 go into one.
ROUNDS == SPEED \div CYCLES

ASSUME BusySleepAssumption == /\ WORD \in Nat /\ SPEED \in Nat
                              /\ CYCLES \in Nat \ {0} /\ CYCLES <= SPEED
                              /\ WORD \div 2 > ROUNDS

VARIABLES
    asked,          \* the microseconds usleep() was called with
    us, i,          \* the variables of alt_busy_sleep
    rounds,         \* times all loops have gone round
    sleep_at

sleep_vars == <<asked, us, i, rounds, sleep_at>>

INT_MAX == WORD \div 2 - 1
Piece == INT_MAX \div ROUNDS
big_loops == asked \div Piece

SleepInit ==
    /\ asked = 0 /\ us = 0 /\ i = 0 /\ rounds = 0
    /\ sleep_at = "awake"

ALT_USLEEP ==
    /\ sleep_at = "awake"
    /\ asked' \in 0..WORD - 1
    /\ us' = asked'
    /\ i' = 0 /\ rounds' = 0
    /\ sleep_at' = "loops"

\* A slip: a piece takes one microsecond too many off what is left.
BigLoopOneMore ==
    /\ sleep_at = "loops" /\ i < big_loops
    /\ i' = i + 1
    /\ rounds' = rounds + INT_MAX
    /\ us' = us - Piece - 1
    /\ UNCHANGED <<asked, sleep_at>>

\* The loop counts its input register down, which the compiler is not told:
\* after the first piece the register holds INT_MAX again or still zero, and
\* from zero the loop goes round all values of a word.
BigLoop ==
    /\ sleep_at = "loops" /\ i < big_loops
    /\ i' = i + 1
    /\ rounds' \in {rounds + INT_MAX} \union IF i = 0 THEN {} ELSE {rounds + WORD}
    /\ us' = us - Piece
    /\ UNCHANGED <<asked, sleep_at>>

Count == (us * ROUNDS) % WORD

\* After big loops the counter runs down to zero, ...
LastLoop ==
    /\ sleep_at = "loops" /\ i = big_loops /\ big_loops > 0
    /\ rounds' = rounds + IF Count = 0 THEN WORD ELSE Count
    /\ sleep_at' = "awake"
    /\ UNCHANGED <<asked, us, i>>

\* ... and without any until it is not positive.
OnlyLoop ==
    /\ sleep_at = "loops" /\ big_loops = 0
    /\ rounds' = rounds + IF Count = 0 THEN 1 ELSE Count
    /\ sleep_at' = "awake"
    /\ UNCHANGED <<asked, us, i>>

SleepNext == ALT_USLEEP \/ BigLoop \/ LastLoop \/ OnlyLoop

SleepSpec == SleepInit /\ [][SleepNext]_sleep_vars

-----------------------------------------------------------------------------
(* The loops are "equivalent to for (i=0;i<us*(ALT_CPU_FREQ/3);i++);"
   (alt_busy_sleep.c:36-38): they go round as often as was asked for, but for
   the rest of each piece and the one round that cannot be left out.  A
   sleep of a whole number of pieces goes round all values of a word more. *)
SleepsAsAsked ==
    sleep_at = "awake" => rounds <= asked * ROUNDS + big_loops * (ROUNDS - 1) + 1

(* By the code's own calibration, SPEED cycles a microsecond and CYCLES a loop,
   a sleep lacks nothing but what the division that gives ROUNDS cuts off,
   less than one loop for each microsecond: into whatever number of pieces it
   is cut, and whatever the loops' registers hold. *)
ShortOnlyByDivision ==
    sleep_at = "awake" =>
        asked * SPEED - rounds * CYCLES <= asked * (SPEED % CYCLES)
=============================================================================
