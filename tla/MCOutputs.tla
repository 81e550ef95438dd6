----------------------------- MODULE MCOutputs -----------------------------
(***************************************************************************)
(* One run for the four modules about what leaves the processor: the       *)
(* squares in the frame buffer, the digits of the score, the lines on the  *)
(* console, and the scan of a window of two rows of two words, with a      *)
(* visible margin and a blanking time on each axis.  They share no state,  *)
(* so the run explores one at a time.                                      *)
(***************************************************************************)
EXTENDS FrameGeometry, ScoreDisplay, Console, VgaScan

VARIABLE part       \* what is explored: "squares", "score", "console" or "scan"

MCBlank == [b \in 0..3 |-> "background"]

\* The second value tells the bytes of a word apart.
MCWord == {MCBlank, [b \in 0..3 |-> IF b = 0 THEN "snake" ELSE "background"]}

output_vars == <<part, vars, score_vars, console_vars, scan_vars>>

OutputsInit ==
    /\ part \in {"squares", "score", "console", "scan"}
    /\ Init /\ ScoreInit /\ ConsoleInit /\ ScanInit
    /\ part # "squares" => location = Origin
    /\ part # "console" => ~ host

Squares == part = "squares" /\ Next /\ UNCHANGED <<part, score_vars, console_vars, scan_vars>>

Digits == part = "score" /\ ScoreNext /\ UNCHANGED <<part, vars, console_vars, scan_vars>>

Console(action) ==
    part = "console" /\ action /\ UNCHANGED <<part, vars, score_vars, scan_vars>>

Scan == part = "scan" /\ ScanNext /\ UNCHANGED <<part, vars, score_vars, console_vars>>

OutputsNext == Squares \/ Digits \/ Console(ConsoleNext) \/ Scan

\* The fairness of ConsoleSpec and of ScanSpec, for their parts.
OutputsSpec == /\ OutputsInit /\ [][OutputsNext]_output_vars
               /\ WF_output_vars(Console(Processor))
               /\ WF_output_vars(Console(HostReads))
               /\ WF_output_vars(Scan)
=============================================================================
