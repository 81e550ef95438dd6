------------------------------- MODULE Alarms -------------------------------
(***************************************************************************)
(* The system clock: the count of ticks and the alarms, callbacks that     *)
(* alt_tick() makes from the timer interrupt.  Alarms are kept in a doubly *)
(* linked list that the program changes with interrupts disabled, and that *)
(* a callback may change while alt_tick() is walking along it.             *)
(***************************************************************************)
EXTENDS Integers, FiniteSets

CONSTANTS
    Alarms,         \* the alt_alarm structures of the program
    ListHead,       \* alt_alarm_list
    DELAYS,         \* ticks asked for, and returned by callbacks
    TICKS_MAX       \* ticks are counted up to this bound

none == "none"

ASSUME AlarmsAssumption ==
    /\ IsFiniteSet(Alarms) /\ ListHead \notin Alarms
    /\ none \notin Alarms \union {ListHead}
    /\ DELAYS \subseteq Nat
    /\ TICKS_MAX \in Nat

VARIABLES
    rate,           \* _alt_tick_rate is set: there is a system clock
    nticks,         \* _alt_nticks
    next, previous, \* the links; an entry of no list points to itself
    time,           \* the tick each alarm is due
    cursor,         \* the alarm alt_tick() looks at, "none" outside
    following,      \* its successor, read before the callback
    \* what was done to them, for the properties
    stopped,        \* alarms stopped and not started since
    cut             \* of these, stopped when alt_tick() was to go to them next

alarm_vars == <<rate, nticks, next, previous, time, cursor, following, stopped, cut>>

Entries == Alarms \union {ListHead}

-----------------------------------------------------------------------------
\* alt_llist_insert and alt_llist_remove
Insert(a) ==
    /\ previous' = [previous EXCEPT ![a] = ListHead, ![next[ListHead]] = a]
    /\ next' = [next EXCEPT ![a] = next[ListHead], ![ListHead] = a]

RemoveForwardOnly(a) ==               \* slip: one link is left standing
    /\ previous' = [previous EXCEPT ![a] = a]
    /\ next' = [next EXCEPT ![previous[a]] = next[a], ![a] = a]

Remove(a) ==
    /\ previous' = [previous EXCEPT ![next[a]] = previous[a], ![a] = a]
    /\ next' = [next EXCEPT ![previous[a]] = next[a], ![a] = a]

Listed == {a \in Alarms : next[a] # a}

-----------------------------------------------------------------------------
AlarmsInit ==
    /\ rate = FALSE
    /\ nticks = 0
    /\ next = [e \in Entries |-> e] /\ previous = [e \in Entries |-> e]
    /\ time = [a \in Alarms |-> 0]
    /\ cursor = none /\ following = none
    /\ stopped = {} /\ cut = {}

\* alt_avalon_timer_sc_init: from now on the timer ticks.
SysclkInit ==
    /\ ~ rate
    /\ rate' = TRUE
    /\ UNCHANGED <<nticks, next, previous, time, cursor, following, stopped, cut>>

DueOneEarly(a, n) ==                  \* slip: the tick under way is counted
    time' = [time EXCEPT ![a] = n + nticks]

Due(a, n) == time' = [time EXCEPT ![a] = n + nticks + 1]

\* alt_alarm_start, of an alarm that is not running.
Start(a) ==
    /\ rate
    /\ next[a] = a
    /\ \E n \in DELAYS : Due(a, n)
    /\ Insert(a)
    /\ stopped' = stopped \ {a} /\ cut' = cut \ {a}

\* alt_alarm_stop
Stop(a) ==
    /\ Remove(a)
    /\ stopped' = stopped \union {a}
    /\ cut' = IF a = following THEN cut \union {a} ELSE cut
    /\ UNCHANGED time

ProgramStarts ==
    /\ cursor = none
    /\ \E a \in Alarms : Start(a)
    /\ UNCHANGED <<rate, nticks, cursor, following>>

ProgramStops ==
    /\ cursor = none
    /\ \E a \in Listed \union stopped : Stop(a)
    /\ UNCHANGED <<rate, nticks, cursor, following>>

-----------------------------------------------------------------------------
\* alt_tick
Tick ==
    /\ rate /\ cursor = none /\ nticks < TICKS_MAX
    /\ nticks' = nticks + 1
    /\ cursor' = next[ListHead]
    /\ following' = none
    /\ UNCHANGED <<rate, next, previous, time, stopped, cut>>

InCallback == cursor \in Alarms /\ following # none

\* The successor is read; an alarm that is not due is passed over.
Visit ==
    /\ cursor \in Alarms /\ following = none
    /\ IF time[cursor] <= nticks
       THEN following' = next[cursor] /\ UNCHANGED cursor
       ELSE cursor' = next[cursor] /\ UNCHANGED following
    /\ UNCHANGED <<rate, nticks, next, previous, time, stopped, cut>>

\* What a callback may do to the list before it returns.
CallbackStarts ==
    /\ InCallback
    /\ \E a \in Alarms : Start(a)
    /\ UNCHANGED <<rate, nticks, cursor, following>>

CallbackStops ==
    /\ InCallback
    /\ \E a \in Listed : Stop(a)
    /\ UNCHANGED <<rate, nticks, cursor, following>>

ReturnsZeroStays ==                   \* slip: zero leaves the alarm listed
    /\ InCallback
    /\ stopped' = stopped \union {cursor}
    /\ cursor' = following /\ following' = none
    /\ UNCHANGED <<rate, nticks, next, previous, time, cut>>

ReturnsZeroThenNext ==                \* slip: the link is read afterwards
    /\ InCallback
    /\ Stop(cursor)
    /\ cursor' = next'[cursor] /\ following' = none
    /\ UNCHANGED <<rate, nticks>>

\* The callback returns zero, and is unregistered ...
ReturnsZero ==
    /\ InCallback
    /\ Stop(cursor)
    /\ cursor' = following /\ following' = none
    /\ UNCHANGED <<rate, nticks>>

\* ... or the ticks to its next call.
ReturnsDelay ==
    /\ InCallback
    /\ \E n \in DELAYS \ {0} : time' = [time EXCEPT ![cursor] = @ + n]
    /\ cursor' = following /\ following' = none
    /\ UNCHANGED <<rate, nticks, next, previous, stopped, cut>>

TickEnds ==
    /\ cursor = ListHead
    /\ cursor' = none
    /\ UNCHANGED <<rate, nticks, next, previous, time, following, stopped, cut>>

InTick == Visit \/ ReturnsZero \/ ReturnsDelay \/ TickEnds

AlarmsNext == SysclkInit \/ ProgramStarts \/ ProgramStops \/ Tick \/ InTick
                \/ CallbackStarts \/ CallbackStops

\* alt_tick() runs, and callbacks return.
AlarmsSpec == /\ AlarmsInit /\ [][AlarmsNext]_alarm_vars
              /\ SF_alarm_vars(Visit) /\ SF_alarm_vars(ReturnsZero \/ ReturnsDelay)
              /\ WF_alarm_vars(TickEnds)

-----------------------------------------------------------------------------
(* The list stays one ring through its head, the same in both directions,
   with no stopped alarm in it, whoever changed it: program, callback, or the
   return of a callback that had stopped itself. *)
ListSound ==
    /\ \A e \in Entries : previous[next[e]] = e /\ next[previous[e]] = e
    /\ \A ring \in SUBSET Entries :
         ListHead \in ring /\ (\A e \in ring : next[e] \in ring) => Listed \subseteq ring
    /\ Listed \intersect stopped = {}

(* Between ticks no alarm is overdue: each listed alarm is called at the tick
   it is due, however the callbacks before it rearranged the list. *)
NeverOverdue ==
    cursor = none => \A a \in Listed : time[a] > nticks

(* An alarm that was stopped is not called again before it is started, unless
   it was stopped when alt_tick() had taken its address as the next to look at
   (alt_tick.c:102): nothing tells alt_tick() then. *)
StoppedStaysQuiet ==
    [][following = none /\ following' # none
         => cursor \notin stopped \ cut]_alarm_vars

(* alt_tick() comes to the end of the list, or to an alarm that was stopped in
   front of it.  That one points to itself, and the interrupt goes round in it
   until a callback of its own starts it again. *)
TickReturns == cursor # none ~> cursor = none \/ cursor \in cut
=============================================================================
