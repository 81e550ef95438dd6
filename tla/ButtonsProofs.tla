--------------------------- MODULE ButtonsProofs ---------------------------
(***************************************************************************)
(* Proofs about module Buttons, for every set of keys.                     *)
(***************************************************************************)
EXTENDS Buttons, TLAPS

\* The port keeps its types at every clock, and no step but the two writes
\* takes an edge away.
LEMMA ClockFacts ==
    ASSUME TypeOK, NEW w \in BOOLEAN, Clock(w)
    PROVE  /\ d1' \subseteq Keys /\ d2' \subseteq Keys
           /\ edge_capture' \subseteq Keys
           /\ ~ w => edge_capture \subseteq edge_capture'
BY DEF Clock, Falling, TypeOK

LEMMA SteerType ==
    ASSUME TypeOK, Steer
    PROVE  direction' \in direction_t
<1>1. CASE \E key \in Keys : captured = {key}
  <2>1. PICK key \in Keys : captured = {key}
    BY <1>1
  <2>2. (CHOOSE k \in captured : TRUE) = key
    BY <2>1
  <2>3. DirectionOf(key) \in direction_t
    <3>1. key \in {1, 2, 4, 8}
      BY KeysAssumption
    <3>2. QED
      BY <3>1 DEF DirectionOf, direction_t
  <2>4. QED
    BY <1>1, <2>2, <2>3 DEF Steer
<1>2. CASE ~ \E key \in Keys : captured = {key}
    BY <1>2 DEF Steer, TypeOK
<1>3. QED
    BY <1>1, <1>2

\* The type invariant of module Buttons.
THEOREM TypeCorrect == Spec => []TypeOK
<1>1. Init => TypeOK
    BY DEF Init, TypeOK, direction_t, TIMER, BTN
<1>2. TypeOK /\ [Next]_vars => TypeOK'
  <2> SUFFICES ASSUME TypeOK, [Next]_vars PROVE TypeOK'
    OBVIOUS
  <2> USE DEF TypeOK
  <2>1. CASE Idle
    BY <2>1, ClockFacts DEF Idle, timer, hal
  <2>2. CASE TimerExpires
    BY <2>2, ClockFacts DEF TimerExpires, hal
  <2>3. CASE GameRuns
    BY <2>3, ClockFacts DEF GameRuns, MainAt, hal
  <2>4. CASE SetMask
    BY <2>4, ClockFacts DEF SetMask, MainAt, timer, hal
  <2>5. CASE ClearEdges
    BY <2>5, ClockFacts DEF ClearEdges, MainAt, timer, hal
  <2>6. CASE DisableInterrupts
    BY <2>6, ClockFacts DEF DisableInterrupts, MainAt, timer
  <2>7. CASE RegisterHandler
    BY <2>7, ClockFacts DEF RegisterHandler, MainAt, timer
  <2>8. CASE TakeInterrupt
    BY <2>8, ClockFacts DEF TakeInterrupt, IrqAt, timer, hal
  <2>9. CASE StartHandler
    BY <2>9, ClockFacts DEF StartHandler, IrqAt, timer, hal, alt_irq_pending
  <2>10. CASE DispatchTimer
    BY <2>10, ClockFacts DEF DispatchTimer, IrqAt, hal
  <2>11. CASE DispatchButtons
    BY <2>11, ClockFacts DEF DispatchButtons, IrqAt, timer, hal
  <2>12. CASE ReadEdges
    BY <2>12, ClockFacts DEF ReadEdges, IrqAt, timer, hal
  <2>13. CASE AcknowledgeEdges
    BY <2>13, ClockFacts DEF AcknowledgeEdges, IrqAt, timer, hal
  <2>14. CASE Steer
    BY <2>14, ClockFacts, SteerType DEF Steer, IrqAt, timer, hal
  <2>15. CASE Again
    BY <2>15, ClockFacts DEF Again, IrqAt, timer, hal, alt_irq_pending
  <2>16. CASE Return
    BY <2>16, ClockFacts DEF Return, IrqAt, timer, hal
  <2>17. CASE UNCHANGED vars
    BY <2>17 DEF vars, port, timer, hal
  <2>18. QED
    BY <2>1, <2>2, <2>3, <2>4, <2>5, <2>6, <2>7, <2>8, <2>9, <2>10, <2>11,
       <2>12, <2>13, <2>14, <2>15, <2>16, <2>17 DEF Next, Processor
<1>3. QED
    BY <1>1, <1>2, PTL DEF Spec

-----------------------------------------------------------------------------
\* A step that clears nothing and masks nothing leaves every request standing.
LEMMA RequestsStand ==
    ASSUME TypeOK, Clock(FALSE), timer_to => timer_to',
           UNCHANGED <<irq_mask, ienable>>
    PROVE  /\ alt_irq_pending \subseteq alt_irq_pending'
           /\ edge_capture \cap irq_mask \subseteq
                  (edge_capture \cap irq_mask)'
<1>1. edge_capture \subseteq edge_capture'
    BY ClockFacts
<1>2. QED
    BY <1>1 DEF alt_irq_pending, Requests

\* The pending lines, read off the definition.
LEMMA ButtonRequest ==
    BTN \in alt_irq_pending => edge_capture \cap irq_mask # {}
BY DEF alt_irq_pending, Requests, TIMER, BTN

LEMMA HandlerInvariant == Spec => []HandlerInv
<1>1. Init => HandlerInv
    BY DEF Init, HandlerInv
<1>2. TypeOK /\ HandlerInv /\ [Next]_vars => HandlerInv'
  <2> SUFFICES ASSUME TypeOK, HandlerInv, [Next]_vars PROVE HandlerInv'
    OBVIOUS
  <2> USE DEF HandlerInv
  <2>1. CASE Idle
    BY <2>1, RequestsStand DEF Idle, timer, hal
  <2>2. CASE TimerExpires
    BY <2>2, RequestsStand DEF TimerExpires, hal
  <2>3. CASE GameRuns
    BY <2>3 DEF GameRuns, MainAt, hal
  <2>4. CASE SetMask
    BY <2>4 DEF SetMask, MainAt, timer, hal
  <2>5. CASE ClearEdges
    BY <2>5 DEF ClearEdges, MainAt, timer, hal
  <2>6. CASE DisableInterrupts
    BY <2>6 DEF DisableInterrupts, MainAt, timer
  <2>7. CASE RegisterHandler
    BY <2>7 DEF RegisterHandler, MainAt, timer
  <2>8. CASE TakeInterrupt
    BY <2>8, RequestsStand DEF TakeInterrupt, IrqAt, timer, hal
  <2>9. CASE StartHandler
    BY <2>9, RequestsStand DEF StartHandler, IrqAt, timer, hal
  <2>10. CASE DispatchTimer
    BY <2>10 DEF DispatchTimer, IrqAt, hal
  <2>11. CASE DispatchButtons
    <3>1. edge_capture \cap irq_mask # {}
      BY <2>11, ButtonRequest DEF DispatchButtons, IrqAt
    <3>2. QED
      BY <2>11, <3>1, RequestsStand DEF DispatchButtons, IrqAt, timer, hal
  <2>12. CASE ReadEdges
    BY <2>12 DEF ReadEdges, IrqAt, timer, hal
  <2>13. CASE AcknowledgeEdges
    BY <2>13 DEF AcknowledgeEdges, IrqAt, timer, hal
  <2>14. CASE Steer
    BY <2>14 DEF Steer, IrqAt, timer, hal
  <2>15. CASE Again
    BY <2>15, RequestsStand DEF Again, IrqAt, timer, hal
  <2>16. CASE Return
    BY <2>16 DEF Return, IrqAt, timer, hal
  <2>17. CASE UNCHANGED vars
    BY <2>17 DEF vars, port, timer, hal, alt_irq_pending, Requests
  <2>18. QED
    BY <2>1, <2>2, <2>3, <2>4, <2>5, <2>6, <2>7, <2>8, <2>9, <2>10, <2>11,
       <2>12, <2>13, <2>14, <2>15, <2>16, <2>17 DEF Next, Processor
<1>3. QED
    BY <1>1, <1>2, TypeCorrect, PTL DEF Spec

(* The dispatcher always finds the line it looks for, and its routine is
   registered. *)
THEOREM HandlerAlwaysFindsWork == Spec => []HandlerFindsWork
<1>1. HandlerInv => HandlerFindsWork
    BY DEF HandlerInv, HandlerFindsWork, alt_irq_pending
<1>2. QED
    BY <1>1, HandlerInvariant, PTL

(* The interrupt routine is never called without an edge to read. *)
THEOREM NoSpuriousIsr == Spec => []IsrReadsAnEdge
<1>1. HandlerInv => IsrReadsAnEdge
    BY DEF HandlerInv, IsrReadsAnEdge
<1>2. QED
    BY <1>1, HandlerInvariant, PTL
=============================================================================
