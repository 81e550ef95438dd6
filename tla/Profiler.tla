------------------------------ MODULE Profiler ------------------------------
(***************************************************************************)
(* Profiling with gmon: every instrumented function calls mcount, which    *)
(* looks for the record of its caller and counts the call, or adds a       *)
(* record.  Records and the histogram of the sampler come from sbrk().     *)
(* The program may be interrupted between any two steps by an interrupt    *)
(* routine that is instrumented too and runs to its end; all functions are *)
(* in one bucket of the hash table.                                        *)
(***************************************************************************)
EXTENDS Integers, Sequences, FiniteSets

CONSTANTS
    Functions, Callers,
    SLAB,           \* records in a slab (85)
    HISTOGRAM,      \* length of the histogram, in records
    HEAP,           \* room from __alt_heap_start to __alt_heap_limit
    CALLS_MAX       \* calls that are followed

ASSUME ProfilerAssumption == /\ SLAB \in Nat \ {0} /\ HISTOGRAM \in Nat
                             /\ HEAP \in Nat /\ CALLS_MAX \in Nat

VARIABLES
    ticking,        \* _alt_tick_rate is set
    heap_end,
    slab,           \* mcount_slab_ptr and mcount_slab_size: [ptr, size]
    records,        \* all records, oldest first: [fn, from, at, count], from
                    \* = none for the entry of a function
    histogram,      \* s_pcsamples
    pcsample_need_init,
    samplers,       \* alarms started
    mcount,         \* the calls under way, of program and of interrupt
    counted         \* pairs of function and caller whose call has returned

profile_vars == <<ticking, heap_end, slab, records, histogram,
                  pcsample_need_init, samplers, mcount, counted>>
memory_vars == <<heap_end, slab, records, histogram>>

Context == {"program", "interrupt"}
Away == [at |-> "away", fn |-> "none", from |-> "none", entry |-> 0, seen |-> 0]

\* What sbrk() answers when the heap is used up; addresses below zero stand
\* for those that are computed from it.
Failed == - SLAB - 1
NoHistogram == Failed - 1

ProfileInit ==
    /\ ticking = FALSE
    /\ heap_end = 0
    /\ slab = [ptr |-> 0, size |-> 0]
    /\ records = <<>>
    /\ histogram = NoHistogram
    /\ pcsample_need_init = TRUE
    /\ samplers = 0
    /\ mcount = [c \in Context |-> Away]
    /\ counted = {}

StartTimer ==
    /\ ~ ticking
    /\ ticking' = TRUE
    /\ UNCHANGED <<memory_vars, pcsample_need_init, samplers, mcount, counted>>

\* ALT_SBRK, of an end of the heap.
Sbrk(end, n) ==
    IF end + n > HEAP THEN [end |-> end, ptr |-> Failed]
    ELSE [end |-> end + n, ptr |-> end]

SlabOverdrawn(s, end) ==              \* slip: one record more than fits
    IF s.size < 0 THEN LET b == Sbrk(end, SLAB)
                       IN [slab |-> [ptr |-> b.ptr, size |-> SLAB], end |-> b.end]
    ELSE [slab |-> s, end |-> end]

\* mcount_allocate, before a record is taken: the failure of sbrk() is not
\* noticed.
SlabFor(s, end) ==
    IF s.size = 0 THEN LET b == Sbrk(end, SLAB)
                       IN [slab |-> [ptr |-> b.ptr, size |-> SLAB], end |-> b.end]
    ELSE [slab |-> s, end |-> end]

-----------------------------------------------------------------------------
\* The program goes on only when the interrupt routine has returned.
Turn(c) == c = "program" => mcount["interrupt"].at = "away"
McountGoes(c, at) == mcount' = [mcount EXCEPT ![c].at = at]

Latest(found) == IF found = {} THEN 0 ELSE CHOOSE k \in found : \A l \in found : l <= k

CallMcount(c) ==
    /\ Turn(c) /\ mcount[c].at = "away"
    /\ Len(records) < CALLS_MAX
    /\ \E fn \in Functions, from \in Callers :
         mcount' = [mcount EXCEPT ![c] = [Away EXCEPT !.at = "function", !.fn = fn,
                                                      !.from = from]]
    /\ UNCHANGED <<ticking, memory_vars, pcsample_need_init, samplers, counted>>

\* The list of functions, then that of the function's callers, is searched;
\* both have the newest first.
FindFunction(c) ==
    LET m == mcount[c]
        entry == Latest({k \in DOMAIN records : /\ records[k].fn = m.fn
                                                /\ records[k].from = "none"}) IN
    /\ Turn(c) /\ m.at = "function"
    /\ mcount' = [mcount EXCEPT ![c].entry = entry,
                                ![c].at = IF entry = 0 THEN "record" ELSE "arc"]
    /\ UNCHANGED <<ticking, memory_vars, pcsample_need_init, samplers, counted>>

FindArc(c) ==
    LET m == mcount[c]
        arc == Latest({k \in DOMAIN records : /\ records[k].from = m.from
                                              /\ records[k].entry = m.entry}) IN
    /\ Turn(c) /\ m.at = "arc"
    /\ mcount' = [mcount EXCEPT ![c].seen = arc,
                                ![c].at = IF arc = 0 THEN "record" ELSE "count"]
    /\ UNCHANGED <<ticking, memory_vars, pcsample_need_init, samplers, counted>>

Returns(c) ==
    /\ mcount' = [mcount EXCEPT ![c] = Away]
    /\ counted' = counted \union {<<mcount[c].fn, mcount[c].from>>}

\* .Lfound_arc adds one to a count that only statistics use.
CountCall(c) ==
    /\ Turn(c) /\ mcount[c].at = "count"
    /\ Returns(c)
    /\ UNCHANGED <<ticking, memory_vars, pcsample_need_init, samplers>>

-----------------------------------------------------------------------------
\* __mcount_record: the flag is tested, ...
TestInit(c) ==
    /\ Turn(c) /\ mcount[c].at = "record"
    /\ McountGoes(c, IF pcsample_need_init THEN "clear" ELSE "add")
    /\ UNCHANGED <<ticking, memory_vars, pcsample_need_init, samplers, counted>>

\* ... and cleared in another access, before the sampler is started.
ClearInit(c) ==
    /\ Turn(c) /\ mcount[c].at = "clear"
    /\ pcsample_need_init' = FALSE
    /\ McountGoes(c, "init")
    /\ UNCHANGED <<ticking, memory_vars, samplers, counted>>

\* nios2_pcsample_init: nothing is done before the timer ticks ...
TooEarly(c) ==
    /\ Turn(c) /\ mcount[c].at = "init" /\ ~ ticking
    /\ pcsample_need_init' = TRUE
    /\ McountGoes(c, "add")
    /\ UNCHANGED <<ticking, memory_vars, samplers, counted>>

\* ... and then a histogram is made ...
MakeHistogram(c) ==
    LET b == Sbrk(heap_end, HISTOGRAM) IN
    /\ Turn(c) /\ mcount[c].at = "init" /\ ticking
    /\ histogram' = b.ptr
    /\ heap_end' = b.end
    /\ McountGoes(c, "start")
    /\ UNCHANGED <<ticking, slab, records, pcsample_need_init, samplers, counted>>

\* ... and sampled into from an alarm.
StartSampler(c) ==
    /\ Turn(c) /\ mcount[c].at = "start"
    /\ samplers' = samplers + 1
    /\ pcsample_need_init' = FALSE
    /\ McountGoes(c, "add")
    /\ UNCHANGED <<ticking, memory_vars, counted>>

\* The rest of __mcount_record, with interrupts disabled.
AddRecord(c) ==
    LET m == mcount[c]
        first == SlabFor(slab, heap_end)
        taken == [ptr |-> first.slab.ptr + 1, size |-> first.slab.size - 1]
        second == IF m.entry = 0 THEN SlabFor(taken, first.end) ELSE first
        function == [fn |-> m.fn, from |-> "none", entry |-> 0, at |-> first.slab.ptr]
        entry == IF m.entry = 0 THEN Len(records) + 1 ELSE m.entry
        arc == [fn |-> m.fn, from |-> m.from, entry |-> entry, at |-> second.slab.ptr]
    IN
    /\ Turn(c) /\ m.at = "add"
    /\ records' = records \o IF m.entry = 0 THEN <<function, arc>> ELSE <<arc>>
    /\ slab' = [ptr |-> second.slab.ptr + 1, size |-> second.slab.size - 1]
    /\ heap_end' = second.end
    /\ Returns(c)
    /\ UNCHANGED <<ticking, histogram, pcsample_need_init, samplers>>

ProfileNext ==
    \/ StartTimer
    \/ \E c \in Context :
         \/ CallMcount(c) \/ FindFunction(c) \/ FindArc(c) \/ CountCall(c)
         \/ TestInit(c) \/ ClearInit(c) \/ TooEarly(c) \/ MakeHistogram(c) \/ StartSampler(c)
         \/ AddRecord(c)

ProfileSpec == ProfileInit /\ [][ProfileNext]_profile_vars

-----------------------------------------------------------------------------
(* While the heap lasts: no two records share memory with one another or with
   the histogram, and a call that has returned is recorded under its function
   and its caller, however calls interrupt each other.  A second record of the
   same pair is possible: "two copies of the same arc" (alt_gmon.c:179). *)
ProfileSound ==
    /\ \A k, l \in DOMAIN records :
         records[k].at >= 0 /\ records[l].at = records[k].at => k = l
    /\ histogram >= 0 =>
         \A k \in DOMAIN records :
           records[k].at \notin histogram..histogram + HISTOGRAM - 1
    /\ \A pair \in counted : \E k \in DOMAIN records :
         <<records[k].fn, records[k].from>> = pair

(* "This function might be called at interrupt time so must be able to cope
   with reentrancy" (alt_gmon.c:153-154): the one alarm structure of the sampler
   is put into the list of alarms once.  An interrupt between the test of the
   flag and the store that clears it starts the sampler a second time. *)
SamplerOnce == samplers <= 1
=============================================================================
