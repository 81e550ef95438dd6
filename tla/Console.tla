------------------------------ MODULE Console ------------------------------
(***************************************************************************)
(* The endless loop of main(): print a line, play a game, print how it     *)
(* ended.  Lines leave through the polling JTAG UART driver: a character   *)
(* is written once the control register shows space in the transmit FIFO,  *)
(* and the driver waits for ever while it does not.  Only a terminal on    *)
(* the host takes characters out of the FIFO.                              *)
(*                                                                         *)
(* What happens inside a game is module Snake; here a game only ends.      *)
(*                                                                         *)
(* Operators marked "slip" are wrong on purpose, for the properties to     *)
(* notice.                                                                 *)
(***************************************************************************)
EXTENDS Integers

CONSTANTS
    FIFO_DEPTH,     \* characters the FIFO holds (64)
    START_LEN,      \* "Starting snake...\n" (18)
    LOST_LEN,       \* "Game over, you lost!\n" (21)
    WON_LEN,        \* "Game over, you won!\n" (20)
    GAMES_MAX       \* games are counted up to this bound

ASSUME ConsoleAssumption ==
    /\ FIFO_DEPTH \in Nat \ {0}
    /\ START_LEN \in Nat \ {0} /\ LOST_LEN \in Nat \ {0}
    /\ WON_LEN \in Nat \ {0}
    /\ GAMES_MAX \in Nat \ {0}

VARIABLES
    host,       \* a terminal is attached, all the time or never
    pc,         \* "poll", "put" or "play"
    message,    \* the line being printed, or printed last
    left,       \* its characters not yet written
    fifo,       \* characters in the transmit FIFO
    woverflow,  \* the last character was written to a full FIFO, and lost
    games       \* calls of snake_play so far, up to GAMES_MAX

console_vars == <<host, pc, message, left, fifo, woverflow, games>>

-----------------------------------------------------------------------------
ConsoleInit ==
    /\ host \in BOOLEAN
    /\ pc = "poll"
    /\ message = "start" /\ left = START_LEN
    /\ fifo = 0
    /\ woverflow = FALSE
    /\ games = 0

PollBlind ==                          \* slip: the space is not looked at
    /\ pc = "poll" /\ left > 0
    /\ pc' = "put"
    /\ UNCHANGED <<host, message, left, fifo, woverflow, games>>

\* The read of the control register.  Without space the loop reads again.
Poll ==
    /\ pc = "poll" /\ left > 0
    /\ fifo < FIFO_DEPTH
    /\ pc' = "put"
    /\ UNCHANGED <<host, message, left, fifo, woverflow, games>>

PutSame ==                            \* slip: the pointer does not advance
    /\ pc = "put"
    /\ pc' = "poll"
    /\ fifo' = IF fifo < FIFO_DEPTH THEN fifo + 1 ELSE fifo
    /\ UNCHANGED <<host, message, left, woverflow, games>>

\* The write of the data register.
Put ==
    /\ pc = "put"
    /\ pc' = "poll"
    /\ left' = left - 1
    /\ woverflow' = (fifo = FIFO_DEPTH)
    /\ fifo' = IF fifo < FIFO_DEPTH THEN fifo + 1 ELSE fifo
    /\ UNCHANGED <<host, message, games>>

\* The line is out: play, or go round the loop and print the next.
CallSnakePlay ==
    /\ pc = "poll" /\ left = 0 /\ message = "start"
    /\ pc' = "play"
    /\ games' = IF games < GAMES_MAX THEN games + 1 ELSE games
    /\ UNCHANGED <<host, message, left, fifo, woverflow>>

GoRound ==
    /\ pc = "poll" /\ left = 0 /\ message # "start"
    /\ message' = "start" /\ left' = START_LEN
    /\ UNCHANGED <<host, pc, fifo, woverflow, games>>

SnakePlayReturns ==
    /\ pc = "play"
    /\ pc' = "poll"
    /\ \/ message' = "lost" /\ left' = LOST_LEN
       \/ message' = "won"  /\ left' = WON_LEN
    /\ UNCHANGED <<host, fifo, woverflow, games>>

HostReads ==
    /\ host
    /\ fifo > 0
    /\ fifo' = fifo - 1
    /\ UNCHANGED <<host, pc, message, left, woverflow, games>>

Processor == Poll \/ Put \/ CallSnakePlay \/ GoRound

ConsoleNext == Processor \/ SnakePlayReturns \/ HostReads

\* The processor runs and an attached terminal reads.  A game may last for
\* ever.
ConsoleSpec == /\ ConsoleInit /\ [][ConsoleNext]_console_vars
               /\ WF_console_vars(Processor) /\ WF_console_vars(HostReads)

-----------------------------------------------------------------------------
ConsoleTypeOK ==
    /\ host \in BOOLEAN
    /\ pc \in {"poll", "put", "play"}
    /\ message \in {"start", "lost", "won"}
    /\ left \in Nat
    /\ fifo \in 0..FIFO_DEPTH
    /\ woverflow \in BOOLEAN
    /\ games \in 0..GAMES_MAX

(* The space seen by the poll is still there at the write: nobody else
   writes, so no character of a line is ever lost. *)
NoCharacterLost == ~ woverflow

\* Why: between a poll that sees space and the write, characters only leave.
SpaceStands == /\ pc = "put" => fifo < FIFO_DEPTH /\ left > 0
               /\ NoCharacterLost

(* While a terminal reads, every line comes to its end and the next game
   starts. *)
NextGameStarts == host => (pc # "play" ~> pc = "play")

(* Without a terminal two games are played: the FIFO takes the lines around
   the first and the line before the second, and not the one after it. *)
TwoGamesWithoutHost == ~ host => games <= 2

\* Why: what was printed up to a game is still in the FIFO.  Every line after
\* a game has at least m characters.
FifoKeepsAll(m) ==
    ~ host =>
      \/ games = 0 /\ message = "start" /\ pc # "play"
           /\ fifo + left >= START_LEN
      \/ games = 1 /\ message = "start" /\ pc = "play"
           /\ fifo >= START_LEN /\ left = 0
      \/ games = 1 /\ message # "start" /\ pc # "play"
           /\ fifo + left >= START_LEN + m
      \/ games = 1 /\ message = "start" /\ pc # "play"
           /\ fifo + left >= 2 * START_LEN + m
      \/ games = 2 /\ message = "start" /\ pc = "play"
           /\ fifo >= 2 * START_LEN + m /\ left = 0
      \/ games = 2 /\ message # "start" /\ pc # "play"
           /\ fifo + left >= 2 * START_LEN + 2 * m

(* ... then the console stands still in the middle of a line, as long as
   games end at all. *)
FreezesWithoutHost == ~ host /\ []<>(pc # "play") => <>[](left > 0)
=============================================================================
