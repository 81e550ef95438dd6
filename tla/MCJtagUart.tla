----------------------------- MODULE MCJtagUart -----------------------------
\* Constants for model checking module JtagUart.
EXTENDS JtagUart
Waiting == [counts |-> {}, spaces |-> {}, closes |-> FALSE,
            nonblock |-> {FALSE}, arguments |-> {}, out |-> 0, in |-> 0]
\* Writes of one and three characters and closes, alone ...
Writes == [Waiting EXCEPT !.counts = {1, 3}, !.closes = TRUE, !.out = 4]
\* ... reads alone, with the timeout turned off at some time ...
Reads == [Waiting EXCEPT !.spaces = {2}, !.arguments = {0}, !.in = 4]
\* ... and both, never waiting.
Both == [Waiting EXCEPT !.counts = {1}, !.spaces = {1}, !.nonblock = {TRUE},
                        !.out = 1, !.in = 1]
MCPrograms == {Writes, Reads, Both}
MCOnlyWrites == {[Writes EXCEPT !.closes = FALSE]}
=============================================================================
