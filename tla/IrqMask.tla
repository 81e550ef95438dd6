------------------------------ MODULE IrqMask ------------------------------
(***************************************************************************)
(* Which interrupts can come: the enable bit of the processor (PIE), its   *)
(* mask IENABLE, and the two variables the HAL computes the mask from.     *)
(* The program and interrupt routines enable and disable single interrupts *)
(* and critical sections, and a routine may open itself to interrupts of   *)
(* higher priority, which is a lower number.                               *)
(***************************************************************************)
EXTENDS Integers, Sequences

CONSTANTS
    ALT_NIRQ,       \* interrupts of the processor (32)
    NEST_MAX        \* levels of nesting that are followed

ASSUME IrqAssumption == ALT_NIRQ \in Nat /\ NEST_MAX \in Nat

Irq == 0..ALT_NIRQ - 1
Program == ALT_NIRQ     \* the level at which no interrupt routine runs

VARIABLES
    pie, ienable,
    alt_irq_active, alt_priority_mask,  \* as sets of interrupts
    nest,           \* what runs, the outermost first
    wanted,         \* the interrupts that were enabled and not disabled since
    spoilt          \* a routine changed the mask while one was open

irq_vars == <<pie, ienable, alt_irq_active, alt_priority_mask, nest, wanted, spoilt>>
masks == <<ienable, alt_irq_active, alt_priority_mask>>

\* A level of nesting: the interrupt, PIE when it came, what alt_irq_enable or
\* alt_irq_disable is doing (at, id, on, value), the contexts of the critical
\* sections it is in, and the mask from before it was opened.
Level(irq, enabled) ==
    [irq |-> irq, pie |-> enabled, at |-> "runs", id |-> 0, on |-> FALSE,
     value |-> {}, contexts |-> <<>>, open |-> FALSE, old |-> {}]

\* alt_irq_init
IrqInit ==
    /\ pie = TRUE
    /\ alt_irq_active = {} /\ ienable = {} /\ wanted = {}
    /\ alt_priority_mask = Irq
    /\ nest = <<Level(Program, TRUE)>>
    /\ spoilt = FALSE

Depth == Len(nest)
Running == nest[Depth]

\* Exception entry, between any two instructions.
TakeIrq ==
    /\ pie /\ Depth < NEST_MAX
    /\ \E irq \in ienable : nest' = Append(nest, Level(irq, pie))
    /\ pie' = FALSE
    /\ UNCHANGED <<masks, wanted, spoilt>>

\* The routine has undone what it did, and eret restores PIE.
Eret ==
    /\ Depth > 1
    /\ Running.at = "runs" /\ Running.contexts = <<>> /\ ~ Running.open
    /\ pie' = Running.pie
    /\ nest' = SubSeq(nest, 1, Depth - 1)
    /\ spoilt' = (spoilt /\ Depth > 2)
    /\ UNCHANGED <<masks, wanted>>

-----------------------------------------------------------------------------
DisableAll ==
    /\ Running.at = "runs" /\ Running.contexts = <<>>
    /\ nest' = [nest EXCEPT ![Depth].contexts = <<pie>>]
    /\ pie' = FALSE
    /\ UNCHANGED <<masks, wanted, spoilt>>

EnableAll ==
    /\ Running.at = "runs" /\ Running.contexts # <<>>
    /\ pie' = Running.contexts[1]
    /\ nest' = [nest EXCEPT ![Depth].contexts = <<>>]
    /\ UNCHANGED <<masks, wanted, spoilt>>

\* alt_irq_enable and alt_irq_disable: a critical section around ...
Ask ==
    /\ Running.at = "runs"
    /\ \E id \in Irq, on \in BOOLEAN :
         nest' = [nest EXCEPT ![Depth] = [@ EXCEPT !.at = "load", !.id = id, !.on = on,
                                          !.contexts = <<pie>> \o Running.contexts]]
    /\ pie' = FALSE
    /\ UNCHANGED <<masks, wanted, spoilt>>

\* ... reading alt_irq_active, ...
Load ==
    /\ Running.at = "load"
    /\ nest' = [nest EXCEPT ![Depth].at = "store",
                            ![Depth].value = IF Running.on
                                             THEN alt_irq_active \union {Running.id}
                                             ELSE alt_irq_active \ {Running.id}]
    /\ UNCHANGED <<pie, masks, wanted, spoilt>>

\* ... writing it, ...
Store ==
    /\ Running.at = "store"
    /\ alt_irq_active' = Running.value
    /\ nest' = [nest EXCEPT ![Depth].at = "write"]
    /\ UNCHANGED <<pie, ienable, alt_priority_mask, wanted, spoilt>>

\* ... and writing the mask, whatever alt_priority_mask is.
WriteIenable ==
    /\ Running.at = "write"
    /\ ienable' = alt_irq_active
    /\ wanted' = IF Running.on THEN wanted \union {Running.id} ELSE wanted \ {Running.id}
    /\ spoilt' = (spoilt \/ \E l \in DOMAIN nest : nest[l].open)
    /\ pie' = Running.contexts[1]
    /\ nest' = [nest EXCEPT ![Depth] = [@ EXCEPT !.at = "runs", !.id = 0, !.on = FALSE,
                                         !.value = {}, !.contexts = Tail(Running.contexts)]]
    /\ UNCHANGED <<alt_irq_active, alt_priority_mask>>

-----------------------------------------------------------------------------
InRoutine == Depth > 1 /\ Running.at = "runs" /\ Running.contexts = <<>>

InterruptibleByItself ==              \* slip: the mask one bit too wide
    /\ InRoutine /\ ~ Running.open
    /\ alt_priority_mask' = 0..Running.irq
    /\ ienable' = alt_irq_active \intersect alt_priority_mask'
    /\ pie' = TRUE
    /\ nest' = [nest EXCEPT ![Depth].open = TRUE, ![Depth].old = alt_priority_mask]
    /\ UNCHANGED <<alt_irq_active, wanted, spoilt>>

\* alt_irq_interruptible
Interruptible ==
    /\ InRoutine /\ ~ Running.open
    /\ alt_priority_mask' = 0..Running.irq - 1
    /\ ienable' = alt_irq_active \intersect alt_priority_mask'
    /\ pie' = TRUE
    /\ nest' = [nest EXCEPT ![Depth].open = TRUE, ![Depth].old = alt_priority_mask]
    /\ UNCHANGED <<alt_irq_active, wanted, spoilt>>

\* alt_irq_non_interruptible
NonInterruptible ==
    /\ InRoutine /\ Running.open
    /\ pie' = FALSE
    /\ alt_priority_mask' = Running.old
    /\ ienable' = alt_irq_active \intersect Running.old
    /\ nest' = [nest EXCEPT ![Depth].open = FALSE, ![Depth].old = {}]
    /\ UNCHANGED <<alt_irq_active, wanted, spoilt>>

IrqNext == TakeIrq \/ Eret \/ DisableAll \/ EnableAll \/ Ask \/ Load \/ Store
             \/ WriteIenable \/ Interruptible \/ NonInterruptible

IrqSpec == IrqInit /\ [][IrqNext]_irq_vars

-----------------------------------------------------------------------------
(* Whenever the program runs outside of its critical sections, interrupts are
   on and exactly those can come that were asked for, whatever routines did
   and wherever they came in between.  A routine that opens itself is only
   interrupted by others of higher priority, unless one of them enables or
   disables a single interrupt meanwhile: that writes the whole mask and lets
   in all the others. *)
IrqSound ==
    /\ Depth = 1 /\ Running.at = "runs" =>
         /\ ienable = wanted /\ alt_irq_active = wanted
         /\ pie = (Running.contexts = <<>>)
    /\ spoilt \/ \A l \in 2..Depth : nest[l].irq < nest[l - 1].irq
=============================================================================
