------------------------------- MODULE MCHal -------------------------------
(***************************************************************************)
(* One run for the services of the HAL: the system clock and its alarms,   *)
(* the descriptors of files, the busy sleep, the clock of the day, the     *)
(* profiler, the interrupt masks, the cache functions and the printing of  *)
(* numbers.  They share no state, so the run explores one at a time.       *)
(***************************************************************************)
EXTENDS Alarms, FileTable, BusySleep, WallClock, Profiler, IrqMask, Caches, PrintNumber

VARIABLE part       \* the service that is explored

MCJtag == <<"dev", "jtag">>
MCMount == <<"mnt">>
MCDeviceNames == {MCJtag}
MCFsNames == {MCMount}
MCPaths == {MCJtag, <<"mnt", "file">>}
MCTimes == {[sec |-> 0, usec |-> 0], [sec |-> 1, usec |-> 5]}
MCValues == {0, 7, 8, 9, 10, 15, 16, 99, 100, 127, 128, 129, 200, 255}
MCFlags == {<<>>, <<0>>, <<4>>, <<Dot>>, <<Ell>>, <<0, 4>>, <<Dot, 4>>, <<4, Dot>>,
            <<0, 4, Ell>>, <<4, Dot, 2>>, <<1, 0>>}
MCFormats ==
    {<<Percent>> \o pre \o <<letter>> : pre \in MCFlags,
                                         letter \in {Dee, You, Oh, Ex, Cee, Ess, Other}}
    \union {<<Percent, 4, Dee, Percent, Dee>>, <<Percent, Percent, Dee>>, <<Other, Percent>>,
            <<Percent, 4, Percent, Ex>>, <<Percent, 4, Cee, Percent, 0, Dee>>}

hal_vars == <<part, alarm_vars, files, sleep_vars, clock_vars, profile_vars, irq_vars,
              cache_vars, print_vars>>

HalInit ==
    /\ part \in {"alarms", "files", "sleep", "clock", "profile", "irq", "caches", "print"}
    /\ AlarmsInit /\ FilesInit /\ SleepInit /\ ClockInit
    /\ ProfileInit /\ IrqInit /\ CachesInit /\ PrintInit

AlarmsStep(action) ==
    /\ part = "alarms" /\ action
    /\ UNCHANGED <<part, files, sleep_vars, clock_vars, profile_vars, irq_vars,
                   cache_vars, print_vars>>
FilesStep ==
    /\ part = "files" /\ FilesNext
    /\ UNCHANGED <<part, alarm_vars, sleep_vars, clock_vars, profile_vars, irq_vars,
                   cache_vars, print_vars>>
SleepStep ==
    /\ part = "sleep" /\ SleepNext
    /\ UNCHANGED <<part, alarm_vars, files, clock_vars, profile_vars, irq_vars,
                   cache_vars, print_vars>>
ClockStep ==
    /\ part = "clock" /\ ClockNext
    /\ UNCHANGED <<part, alarm_vars, files, sleep_vars, profile_vars, irq_vars,
                   cache_vars, print_vars>>
ProfileStep ==
    /\ part = "profile" /\ ProfileNext
    /\ UNCHANGED <<part, alarm_vars, files, sleep_vars, clock_vars, irq_vars,
                   cache_vars, print_vars>>
IrqStep ==
    /\ part = "irq" /\ IrqNext
    /\ UNCHANGED <<part, alarm_vars, files, sleep_vars, clock_vars, profile_vars,
                   cache_vars, print_vars>>
CachesStep ==
    /\ part = "caches" /\ CachesNext
    /\ UNCHANGED <<part, alarm_vars, files, sleep_vars, clock_vars, profile_vars,
                   irq_vars, print_vars>>
PrintStep ==
    /\ part = "print" /\ PrintNext
    /\ UNCHANGED <<part, alarm_vars, files, sleep_vars, clock_vars, profile_vars,
                   irq_vars, cache_vars>>

HalNext == AlarmsStep(AlarmsNext) \/ FilesStep \/ SleepStep \/ ClockStep \/ ProfileStep
             \/ IrqStep \/ CachesStep \/ PrintStep

\* The fairness of AlarmsSpec, for its part.
HalSpec == /\ HalInit /\ [][HalNext]_hal_vars
           /\ SF_hal_vars(AlarmsStep(Visit))
           /\ SF_hal_vars(AlarmsStep(ReturnsZero \/ ReturnsDelay))
           /\ WF_hal_vars(AlarmsStep(TickEnds))
=============================================================================
