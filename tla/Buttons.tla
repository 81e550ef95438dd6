------------------------------ MODULE Buttons ------------------------------
(***************************************************************************)
(* From a key of the board to the variable `direction' of main.c:          *)
(*                                                                         *)
(*   - the parallel port btn_pio (system_btn_pio.v), which samples the     *)
(*     keys at every clock and latches falling edges in edge_capture;      *)
(*   - the start of main(), which prepares the port and registers the      *)
(*     interrupt routine;                                                  *)
(*   - the HAL's dispatcher alt_irq_handler(), which the timer interrupt   *)
(*     shares with the keys;                                               *)
(*   - the interrupt routine itself, one step per access to the port.      *)
(*                                                                         *)
(* Every step is one edge of the clock: the port samples the keys, which   *)
(* may have any levels, while the processor does one thing or nothing.     *)
(***************************************************************************)
EXTENDS Integers

CONSTANT Keys     \* the keys in use, named by their bit: 8, 4, 2, 1

ASSUME KeysAssumption == Keys \subseteq {1, 2, 4, 8}

VARIABLES
    \* btn_pio
    d1,             \* keys whose level was high (released) one clock ago
    d2,             \* ... and two clocks ago
    edge_capture,   \* keys with a latched falling edge
    irq_mask,
    \* the timer
    timer_to,       \* its timeout flag, the timer's interrupt request
    timer_due,      \* it may expire again
    \* the processor and the HAL
    pie,            \* interrupts are enabled in the status register
    ienable,        \* interrupt lines that are enabled
    handlers,       \* lines whose entry in alt_irq[] is filled in
    active,         \* alt_irq_handler: the pending lines it last read
    irq_pc,         \* where the exception handler is, or "off"
    \* main.c
    main_pc,        \* where main() is
    captured,       \* the C variable edge_capture
    direction

port  == <<d1, d2, edge_capture>>
timer == <<timer_to, timer_due>>
hal   == <<pie, ienable, handlers>>
vars  == <<port, irq_mask, timer, hal, active, irq_pc, main_pc, captured,
           direction>>

-----------------------------------------------------------------------------
TIMER == 1      \* SYS_CLK_TIMER_IRQ
BTN   == 2      \* BTN_PIO_IRQ

direction_t == {"up", "down", "left", "right"}

\* The switch of the interrupt routine.
DirectionOf(key) ==
    CASE key = 8 -> "up"
      [] key = 4 -> "right"
      [] key = 2 -> "left"
      [] key = 1 -> "down"

Falling == d2 \ d1

ClockUnlatched(write) ==          \* slip: edges are not held
    /\ d1' \in SUBSET Keys
    /\ d2' = d1
    /\ edge_capture' = IF write THEN {} ELSE Falling

\* A rising clock edge of btn_pio.  A write to edge_capture clears all its
\* bits, those of the edges detected at this very clock included.
Clock(write) ==
    /\ d1' \in SUBSET Keys
    /\ d2' = d1
    /\ edge_capture' = IF write THEN {} ELSE edge_capture \cup Falling

Requests ==
    {irq \in {TIMER, BTN} :
        \/ irq = TIMER /\ timer_to
        \/ irq = BTN /\ edge_capture \cap irq_mask # {}}

alt_irq_pending == Requests \cap ienable

-----------------------------------------------------------------------------
\* Entry of main().  alt_main() has enabled interrupts and the timer driver
\* has registered its routine; keys may have been pressed since reset.
Init ==
    /\ d1 \in SUBSET Keys
    /\ d2 \in SUBSET Keys
    /\ edge_capture \in SUBSET Keys
    /\ irq_mask = {}
    /\ timer_to = FALSE /\ timer_due = TRUE
    /\ pie = TRUE /\ ienable = {TIMER} /\ handlers = {TIMER}
    /\ active = {}
    /\ irq_pc = "off"
    /\ main_pc = "mask"
    /\ captured = {}
    /\ direction = "down"

\* The processor is busy with something that matters to nobody here.
Idle ==
    /\ Clock(FALSE)
    /\ UNCHANGED <<irq_mask, timer, hal, active, irq_pc, main_pc, captured,
                   direction>>

\* The period (1 ms) is far longer than an exception or the start of main():
\* the timer does not expire twice without the game having run in between.
TimerExpires ==
    /\ timer_due
    /\ timer_to' = TRUE
    /\ timer_due' = FALSE
    /\ Clock(FALSE)
    /\ UNCHANGED <<irq_mask, hal, active, irq_pc, main_pc, captured,
                   direction>>

-----------------------------------------------------------------------------
(* The start of main().  Operators marked "slip" are wrong on purpose, for
   the properties below to notice. *)

MainAt(pc, next) ==
    /\ irq_pc = "off"
    /\ main_pc = pc
    /\ main_pc' = next

SetMask ==
    /\ MainAt("mask", "clear")
    /\ irq_mask' = Keys
    /\ Clock(FALSE)
    /\ UNCHANGED <<timer, hal, active, irq_pc, captured, direction>>

ClearEdges ==
    /\ MainAt("clear", "disable")
    /\ Clock(TRUE)
    /\ UNCHANGED <<irq_mask, timer, hal, active, irq_pc, captured, direction>>

\* alt_iic_isr_register: alt_irq_disable_all, ...
DisableInterrupts ==
    /\ MainAt("disable", "enable_line")
    /\ pie' = FALSE
    /\ Clock(FALSE)
    /\ UNCHANGED <<irq_mask, timer, ienable, handlers, active, irq_pc,
                   captured, direction>>

\* ... the entry of the table, the line, and alt_irq_enable_all.
RegisterHandler ==
    /\ MainAt("enable_line", "game")
    /\ handlers' = handlers \cup {BTN}
    /\ ienable' = ienable \cup {BTN}
    /\ pie' = TRUE
    /\ Clock(FALSE)
    /\ UNCHANGED <<irq_mask, timer, active, irq_pc, captured, direction>>

\* snake_play() has the processor for a while.
GameRuns ==
    /\ MainAt("game", "game")
    /\ timer_due' = TRUE
    /\ Clock(FALSE)
    /\ UNCHANGED <<irq_mask, timer_to, hal, active, irq_pc, captured, direction>>

-----------------------------------------------------------------------------
(* The exception handler. *)

IrqAt(pc, next) ==
    /\ irq_pc = pc
    /\ irq_pc' = next

\* Entry: interrupts go off until eret, and ipending is read to tell an
\* interrupt from a software exception.
TakeInterrupt ==
    /\ pie
    /\ alt_irq_pending # {}
    /\ IrqAt("off", "handler")
    /\ Clock(FALSE)
    /\ UNCHANGED <<irq_mask, timer, hal, active, main_pc, captured, direction>>

\* alt_irq_handler() reads ipending once more, and does not look whether
\* anything is pending: its inner loop would not end.
StartHandler ==
    /\ IrqAt("handler", "dispatch")
    /\ active' = alt_irq_pending
    /\ Clock(FALSE)
    /\ UNCHANGED <<irq_mask, timer, hal, main_pc, captured, direction>>

\* The lowest-numbered active line first.
DispatchTimer ==
    /\ TIMER \in active
    /\ IrqAt("dispatch", "recheck")
    /\ timer_to' = FALSE
    /\ Clock(FALSE)
    /\ UNCHANGED <<irq_mask, timer_due, hal, active, main_pc, captured,
                   direction>>

DispatchButtons ==
    /\ active = {BTN}
    /\ IrqAt("dispatch", "read")
    /\ Clock(FALSE)
    /\ UNCHANGED <<irq_mask, timer, hal, active, main_pc, captured, direction>>

ReadEdges ==
    /\ IrqAt("read", "acknowledge")
    /\ captured' = edge_capture
    /\ Clock(FALSE)
    /\ UNCHANGED <<irq_mask, timer, hal, active, main_pc, direction>>

AcknowledgeNothing ==             \* slip: the write that clears is missing
    /\ IrqAt("acknowledge", "steer")
    /\ Clock(FALSE)
    /\ UNCHANGED <<irq_mask, timer, hal, active, main_pc, captured, direction>>

AcknowledgeEdges ==
    /\ IrqAt("acknowledge", "steer")
    /\ Clock(TRUE)
    /\ UNCHANGED <<irq_mask, timer, hal, active, main_pc, captured, direction>>

SteerFromPort ==                  \* slip: the register read again, cleared
    /\ IrqAt("steer", "recheck")
    /\ direction' = IF \E key \in Keys : edge_capture = {key}
                    THEN DirectionOf(CHOOSE key \in edge_capture : TRUE)
                    ELSE direction
    /\ Clock(FALSE)
    /\ UNCHANGED <<irq_mask, timer, hal, active, main_pc, captured>>

\* Several edges at once match no case of the switch.
Steer ==
    /\ IrqAt("steer", "recheck")
    /\ direction' = IF \E key \in Keys : captured = {key}
                    THEN DirectionOf(CHOOSE key \in captured : TRUE)
                    ELSE direction
    /\ Clock(FALSE)
    /\ UNCHANGED <<irq_mask, timer, hal, active, main_pc, captured>>

AgainStale ==                     \* slip: the pending lines not read again
    /\ alt_irq_pending # {}
    /\ IrqAt("recheck", "dispatch")
    /\ Clock(FALSE)
    /\ UNCHANGED <<irq_mask, timer, hal, active, main_pc, captured, direction>>

Again ==
    /\ alt_irq_pending # {}
    /\ IrqAt("recheck", "dispatch")
    /\ active' = alt_irq_pending
    /\ Clock(FALSE)
    /\ UNCHANGED <<irq_mask, timer, hal, main_pc, captured, direction>>

Return ==
    /\ alt_irq_pending = {}
    /\ IrqAt("recheck", "off")
    /\ active' = {}
    /\ Clock(FALSE)
    /\ UNCHANGED <<irq_mask, timer, hal, main_pc, captured, direction>>

-----------------------------------------------------------------------------
Processor ==
    \/ SetMask \/ ClearEdges \/ DisableInterrupts \/ RegisterHandler
    \/ TakeInterrupt \/ StartHandler \/ DispatchTimer
    \/ DispatchButtons \/ ReadEdges \/ AcknowledgeEdges \/ Steer \/ Again \/ Return

Next == Idle \/ TimerExpires \/ GameRuns \/ Processor

\* The processor executes instructions for as long as it is powered, and takes
\* an interrupt that stays pending.
Spec == Init /\ [][Next]_vars /\ WF_vars(Processor)

-----------------------------------------------------------------------------
TypeOK ==
    /\ d1 \subseteq Keys /\ d2 \subseteq Keys
    /\ edge_capture \subseteq Keys /\ irq_mask \in {{}, Keys}
    /\ timer_to \in BOOLEAN /\ timer_due \in BOOLEAN
    /\ pie \in BOOLEAN
    /\ ienable \subseteq {TIMER, BTN} /\ handlers \subseteq {TIMER, BTN}
    /\ active \subseteq {TIMER, BTN}
    /\ irq_pc \in {"off", "handler", "dispatch", "read", "acknowledge",
                   "steer", "recheck"}
    /\ main_pc \in {"mask", "clear", "disable", "enable_line", "game"}
    /\ captured \subseteq Keys
    /\ direction \in direction_t

(* The search for the active line in alt_irq_handler() has no end test
   (alt_irq_handler.c:141-155): the request that caused the exception must
   still stand when the handler reads the pending lines itself.  And no line
   is dispatched through an entry of alt_irq[] that is not filled in:
   alt_iic_isr_register() updates the table with interrupts off. *)
HandlerFindsWork == irq_pc = "dispatch" => active # {} /\ active \subseteq handlers

(* The interrupt routine is never called without an edge to read, whatever
   the timer interrupt does before it and however the keys bounce. *)
IsrReadsAnEdge == irq_pc \in {"acknowledge", "steer"} => captured # {}

(* Why both hold: a request stands until the routine that serves it
   withdraws it. *)
HandlerInv ==
    /\ ienable \subseteq handlers
    /\ irq_pc = "handler" => alt_irq_pending # {}
    /\ irq_pc = "dispatch" => active # {} /\ active \subseteq alt_irq_pending
    /\ irq_pc = "read" => edge_capture \cap irq_mask # {}
    /\ irq_pc \in {"acknowledge", "steer"} => captured # {}

(* A key pressed alone while the game runs ends up in `direction', unless the
   edge of another key comes in the meantime. *)
LonePressObeyed ==
    \A key \in Keys :
        (main_pc = "game" /\ edge_capture = {key})
            ~> (direction = DirectionOf(key) \/ edge_capture \ {key} # {})

(* Once the keys are quiet the game goes on: no interrupt is served for
   ever. *)
GameGoesOn ==
    <>[](Falling = {}) => []<>(main_pc = "game" /\ irq_pc = "off")
=============================================================================
