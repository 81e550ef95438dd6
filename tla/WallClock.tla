----------------------------- MODULE WallClock -----------------------------
(***************************************************************************)
(* The time of day: gettimeofday() and settimeofday() compute with the     *)
(* count of ticks, which the timer interrupt goes on counting.  The count  *)
(* has two words, and the processor reads one at a time; which one first   *)
(* is up to the compiler.                                                  *)
(***************************************************************************)
EXTENDS Integers

CONSTANTS
    US,             \* ALT_US, the parts of a second (1000000)
    RATE,           \* _alt_tick_rate, ticks in a second (1000)
    HALF,           \* values of the lower word of the count (2^32)
    CLOCK_MAX,      \* the count is followed up to this bound
    Times           \* what the clock is set to, [sec, usec]

ASSUME WallClockAssumption ==
    /\ RATE \in Nat \ {0} /\ US \in Nat \ {0} /\ US % RATE = 0
    /\ HALF \in Nat \ {0} /\ CLOCK_MAX \in Nat
    /\ \A t \in Times : t.sec \in Nat /\ t.usec \in 0..US - 1

VARIABLES
    count,          \* _alt_nticks
    alt_resettime,  \* [sec, usec]
    op,             \* the call: [do, t, low, high, from, to], the last two
                    \* the ticks at its first and last read
    set,            \* when and to what the clock was set last: [at, total, torn]
    told            \* the answer of the last call

clock_vars == <<count, alt_resettime, op, set, told>>

Unread == -1
NoCall == [do |-> "none", t |-> [sec |-> 0, usec |-> 0],
           low |-> Unread, high |-> Unread, from |-> 0, to |-> 0]
NeverSet == [at |-> 0, total |-> 0, torn |-> FALSE]
NotTold == [time |-> [sec |-> 0, usec |-> 0], from |-> 0, to |-> 0, torn |-> TRUE]
Total(t) == t.sec * US + t.usec

ClockInit ==
    /\ count = 0
    /\ alt_resettime = [sec |-> 0, usec |-> 0]
    /\ op = NoCall
    /\ set = NeverSet
    /\ told = NotTold

\* What alt_tick does to the count.
CountTick ==
    /\ count < CLOCK_MAX
    /\ count' = count + 1
    /\ UNCHANGED <<alt_resettime, op, set, told>>

ClockCall ==
    /\ op.do = "none"
    /\ \/ op' = [NoCall EXCEPT !.do = "get"]
       \/ \E t \in Times : op' = [NoCall EXCEPT !.do = "set", !.t = t]
    /\ told' = NotTold
    /\ UNCHANGED <<count, alt_resettime, set>>

\* alt_nticks(): a word is read.
ReadWord ==
    /\ op.do # "none"
    /\ \/ op.low = Unread /\ op' = [op EXCEPT !.low = count % HALF, !.to = count,
                                  !.from = IF op.high = Unread THEN count ELSE @]
       \/ op.high = Unread /\ op' = [op EXCEPT !.high = count \div HALF, !.to = count,
                                  !.from = IF op.low = Unread THEN count ELSE @]
    /\ UNCHANGED <<count, alt_resettime, set, told>>

Complete == op.low # Unread /\ op.high # Unread
count_read == op.high * HALF + op.low
Torn == op.from \div HALF # op.to \div HALF

Parts(n) == (n * (US \div RATE)) % US

NoCarry(t) ==                         \* slip: the second loop left out
    IF t.usec < 0 THEN [sec |-> t.sec - 1, usec |-> t.usec + US] ELSE t

\* The two loops of gettimeofday.
Normal(t) ==
    CASE t.usec < 0 /\ t.sec <= 0 -> [sec |-> 0, usec |-> 0]
      [] t.usec < 0 /\ t.sec > 0  -> [sec |-> t.sec - 1, usec |-> t.usec + US]
      [] t.usec >= US             -> [sec |-> t.sec + 1, usec |-> t.usec - US]
      [] OTHER                    -> t

ALT_GETTIMEOFDAY ==
    /\ op.do = "get" /\ Complete
    /\ told' = [time |-> Normal([sec |-> alt_resettime.sec + count_read \div RATE,
                                 usec |-> alt_resettime.usec + Parts(count_read)]),
                from |-> op.from, to |-> op.to, torn |-> Torn \/ set.torn]
    /\ op' = NoCall
    /\ UNCHANGED <<count, alt_resettime, set>>

ALT_SETTIMEOFDAY ==
    /\ op.do = "set" /\ Complete
    /\ alt_resettime' = [sec |-> op.t.sec - count_read \div RATE,
                         usec |-> op.t.usec - Parts(count_read)]
    /\ set' = [at |-> count_read, total |-> Total(op.t), torn |-> Torn]
    /\ op' = NoCall
    /\ UNCHANGED <<count, told>>

ClockNext == CountTick \/ ClockCall \/ ReadWord
               \/ ALT_GETTIMEOFDAY \/ ALT_SETTIMEOFDAY

ClockSpec == ClockInit /\ [][ClockNext]_clock_vars

-----------------------------------------------------------------------------
(* The time told is the time that was set and the ticks counted since, at an
   instant between the reads of the count, whatever is borrowed from the
   seconds.  The exception is a call during which the lower word of the count
   wrapped, this one or the one that set the clock: its count may be off by
   2^32 ticks. *)
TimeTold ==
    \/ told.torn
    \/ \E n \in told.from..told.to :
         LET total == set.total + (n - set.at) * (US \div RATE)
         IN  told.time = [sec |-> total \div US, usec |-> total % US]
=============================================================================
