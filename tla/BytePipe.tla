------------------------------ MODULE BytePipe ------------------------------
(***************************************************************************)
(* What one direction of the JTAG UART driver promises its callers: a      *)
(* pipe.  Characters are numbered in the order they go in.  Several may go *)
(* in at once, as a block; they come out one by one, in that order, each   *)
(* once and none left out.                                                 *)
(***************************************************************************)
EXTENDS Integers

CONSTANT CAPACITY       \* characters the pipe holds

VARIABLES
    sent,               \* number of the last character that went in
    received            \* number of the last character that came out

Init == sent = 0 /\ received = 0

Send == /\ sent' \in sent + 1 .. received + CAPACITY
        /\ UNCHANGED received

Receive == /\ received < sent
           /\ received' = received + 1
           /\ UNCHANGED sent

Next == Send \/ Receive

Spec == Init /\ [][Next]_<<sent, received>>
=============================================================================
