---------------------------- MODULE IrqMaskProofs ----------------------------
(***************************************************************************)
(* Proofs about module IrqMask, for every number of interrupts and every   *)
(* depth of nesting.                                                       *)
(***************************************************************************)
EXTENDS IrqMask, SequenceTheorems, TLAPS

LevelType ==
    [irq : 0..ALT_NIRQ, pie : BOOLEAN, at : {"runs", "load", "store", "write"},
     id : Int, on : BOOLEAN, value : SUBSET Irq, contexts : Seq(BOOLEAN),
     open : BOOLEAN, old : SUBSET Irq]

IrqTypes ==
    /\ pie \in BOOLEAN /\ spoilt \in BOOLEAN
    /\ ienable \in SUBSET Irq /\ alt_irq_active \in SUBSET Irq
    /\ wanted \in SUBSET Irq
    /\ nest \in Seq(LevelType) /\ Len(nest) >= 1

\* The program is not interrupted from within: all below the level that runs
\* are at rest, and all but the program itself have opened themselves.
Below ==
    /\ nest[1].irq = Program /\ ~ nest[1].open
    /\ \A l \in 2..Depth : nest[l].pie = TRUE /\ nest[l].irq \in Irq
    /\ \A l \in 1..Depth - 1 : /\ nest[l].at = "runs" /\ nest[l].contexts = <<>>
                               /\ l >= 2 => nest[l].open

\* PIE outside of critical sections.
Base == Depth = 1 \/ Running.open

Enabling ==
    IF Running.at = "runs"
    THEN \/ Running.contexts = <<>> /\ pie = Base
         \/ Running.contexts = <<Base>> /\ pie = FALSE
    ELSE Running.contexts \in {<<Base>>, <<FALSE, Base>>} /\ pie = FALSE

\* The mask of priorities that a level finds.
MaskAt(l) == IF l <= 2 THEN Irq ELSE 0..nest[l - 1].irq - 1

Priorities ==
    /\ \A l \in 2..Depth : nest[l].open => nest[l].old = MaskAt(l)
    /\ alt_priority_mask = IF Running.open THEN 0..Running.irq - 1 ELSE MaskAt(Depth)

SomeOpen == \E l \in 1..Depth : nest[l].open

Asked == IF Running.on THEN wanted \union {Running.id} ELSE wanted \ {Running.id}

\* The variables and the registers agree outside of alt_irq_enable() and
\* alt_irq_disable(), but for a mask that was spoilt.
Agree ==
    /\ Running.at # "runs" => Running.id \in Irq
    /\ Running.at = "store" => Running.value = Asked
    /\ alt_irq_active = IF Running.at = "write" THEN Asked ELSE wanted
    /\ Running.at # "write" =>
         \/ ienable = alt_irq_active \intersect alt_priority_mask
         \/ spoilt /\ SomeOpen

Ordered == spoilt \/ \A l \in 2..Depth : nest[l].irq < nest[l - 1].irq

IrqInv == IrqTypes /\ Below /\ Enabling /\ Priorities /\ Agree /\ Ordered

-----------------------------------------------------------------------------
LEMMA DepthFacts ==
    ASSUME IrqTypes
    PROVE  /\ Depth \in Nat /\ Depth >= 1
           /\ Running \in LevelType
           /\ \A l \in 1..Depth : nest[l] \in LevelType
BY SMT DEF IrqTypes, Depth, Running

\* A step of the level that runs.
LEMMA TopReplaced ==
    ASSUME IrqTypes, NEW x \in LevelType, nest' = [nest EXCEPT ![Depth] = x]
    PROVE  /\ nest' \in Seq(LevelType) /\ Len(nest') >= 1
           /\ Depth' = Depth /\ Running' = x
           /\ \A l \in 1..Depth - 1 : nest'[l] = nest[l]
<1>1. nest \in Seq(LevelType) /\ Len(nest) \in Nat /\ Len(nest) >= 1
    BY SMT DEF IrqTypes
<1>2. nest' \in Seq(LevelType) /\ Len(nest') = Len(nest)
    BY <1>1, SMT DEF Depth
<1>3. nest'[Len(nest)] = x /\ \A l \in 1..Len(nest) - 1 : nest'[l] = nest[l]
    BY <1>1, SMT DEF Depth
<1>4. QED
    BY <1>1, <1>2, <1>3 DEF Depth, Running

LEMMA TopKeepsOrder ==
    ASSUME IrqInv, NEW x \in LevelType, nest' = [nest EXCEPT ![Depth] = x],
           x.irq = Running.irq, x.pie = Running.pie, Depth = 1 => ~ x.open,
           spoilt => spoilt'
    PROVE  Below' /\ Ordered'
<1>1. Depth \in Nat /\ Depth >= 1
    BY DepthFacts DEF IrqInv
<1>2. /\ Depth' = Depth /\ nest'[Depth] = x
      /\ \A l \in 1..Depth - 1 : nest'[l] = nest[l]
    BY TopReplaced DEF IrqInv, Running
<1>3. \A l \in 1..Depth : nest'[l].irq = nest[l].irq /\ nest'[l].pie = nest[l].pie
  <2> SUFFICES ASSUME NEW l \in 1..Depth
               PROVE  nest'[l].irq = nest[l].irq /\ nest'[l].pie = nest[l].pie
    OBVIOUS
  <2>1. l = Depth \/ l \in 1..Depth - 1
    BY <1>1, SMT
  <2>2. QED
    BY <1>2, <2>1 DEF Running
<1>4. Below'
  <2>1. nest'[1].irq = Program /\ ~ nest'[1].open
    <3>1. 1 \in 1..Depth /\ (Depth = 1 \/ 1 \in 1..Depth - 1)
      BY <1>1, SMT
    <3>2. QED
      BY <1>2, <1>3, <3>1 DEF IrqInv, Below
  <2>2. \A l \in 2..Depth : l \in 1..Depth
    BY <1>1, SMT
  <2>3. QED
    BY <1>2, <1>3, <2>1, <2>2 DEF IrqInv, Below
<1>5. Ordered'
  <2>1. \A l \in 2..Depth : l \in 1..Depth /\ l - 1 \in 1..Depth
    BY <1>1, SMT
  <2>2. QED
    BY <1>2, <1>3, <2>1 DEF IrqInv, Ordered
<1>6. QED
    BY <1>4, <1>5

LEMMA TopKeepsMask ==
    ASSUME IrqInv, NEW x \in LevelType, nest' = [nest EXCEPT ![Depth] = x],
           x.irq = Running.irq, x.open = Running.open, x.old = Running.old,
           alt_priority_mask' = alt_priority_mask
    PROVE  Priorities' /\ (Base' <=> Base) /\ (SomeOpen' <=> SomeOpen)
<1>1. Depth \in Nat /\ Depth >= 1
    BY DepthFacts DEF IrqInv
<1>2. /\ Depth' = Depth /\ Running' = x /\ nest'[Depth] = x
      /\ \A l \in 1..Depth - 1 : nest'[l] = nest[l]
    BY TopReplaced DEF IrqInv, Running
<1>3. \A l \in 1..Depth : /\ nest'[l].irq = nest[l].irq /\ nest'[l].open = nest[l].open
                          /\ nest'[l].old = nest[l].old
  <2> SUFFICES ASSUME NEW l \in 1..Depth
               PROVE  /\ nest'[l].irq = nest[l].irq /\ nest'[l].open = nest[l].open
                      /\ nest'[l].old = nest[l].old
    OBVIOUS
  <2>1. l = Depth \/ l \in 1..Depth - 1
    BY <1>1, SMT
  <2>2. QED
    BY <1>2, <2>1 DEF Running
<1>4. \A l \in 1..Depth : MaskAt(l)' = MaskAt(l)
  <2> SUFFICES ASSUME NEW l \in 1..Depth, ~ (l <= 2) PROVE MaskAt(l)' = MaskAt(l)
    BY DEF MaskAt
  <2>1. l - 1 \in 1..Depth
    BY <1>1, SMT
  <2>2. QED
    BY <1>3, <2>1 DEF MaskAt
<1>5. \A l \in 2..Depth : l \in 1..Depth
    BY <1>1, SMT
<1>6. Depth \in 1..Depth
    BY <1>1, SMT
<1>7. QED
    BY <1>2, <1>3, <1>4, <1>5, <1>6 DEF IrqInv, Priorities, Base, SomeOpen

-----------------------------------------------------------------------------
(* The steps. *)

LEMMA TakeKept ==
    ASSUME IrqInv, TakeIrq
    PROVE  IrqInv'
<1> DEFINE top(irq) == Level(irq, pie)
<1>1. Depth \in Nat /\ Depth >= 1 /\ Running \in LevelType
      /\ \A l \in 1..Depth : nest[l] \in LevelType
    BY DepthFacts DEF IrqInv
<1>2. PICK irq \in ienable : nest' = Append(nest, top(irq))
    BY DEF TakeIrq
<1>3. pie = TRUE /\ pie' = FALSE /\ UNCHANGED <<masks, wanted, spoilt>>
    BY DEF TakeIrq, IrqInv, IrqTypes
<1>4. irq \in Irq /\ irq \in Int /\ 0 <= irq /\ irq < ALT_NIRQ /\ ALT_NIRQ \in Nat
    BY IrqAssumption, SMT DEF IrqInv, IrqTypes, Irq
<1>5. Running.at = "runs" /\ Running.contexts = <<>> /\ Base
    BY <1>3 DEF IrqInv, Enabling
<1>6. top(irq) \in LevelType
  <2>1. irq \in 0..ALT_NIRQ
    BY <1>4, SMT
  <2>2. <<>> \in Seq(BOOLEAN)
    BY SMT
  <2>3. QED
    BY <1>3, <2>1, <2>2 DEF Level, LevelType
<1>7. /\ nest' \in Seq(LevelType) /\ Depth' = Depth + 1 /\ Running' = top(irq)
      /\ \A l \in 1..Depth : nest'[l] = nest[l]
      /\ nest'[Depth + 1] = top(irq)
  <2>1. nest \in Seq(LevelType)
    BY DEF IrqInv, IrqTypes
  <2> HIDE DEF top
  <2>2. QED
    BY <1>2, <1>6, <2>1, SMT DEF Depth, Running
<1>8. /\ top(irq).irq = irq /\ top(irq).pie = TRUE /\ top(irq).at = "runs"
      /\ top(irq).contexts = <<>> /\ ~ top(irq).open
    BY <1>3 DEF Level
<1> HIDE DEF top
<1>9. IrqTypes'
  <2>1. Len(nest') >= 1
    BY <1>1, <1>7, SMT DEF Depth
  <2>2. QED
    BY <1>3, <1>7, <2>1 DEF IrqInv, IrqTypes, masks
<1>10. \A l \in 2..Depth + 1 : l = Depth + 1 \/ l \in 2..Depth
    BY <1>1, SMT
<1>11. \A l \in 2..Depth : l \in 1..Depth /\ l - 1 \in 1..Depth
    BY <1>1, SMT
<1>12. Below'
  <2>1. nest'[1] = nest[1]
    BY <1>1, <1>7, SMT
  <2>2. \A l \in 2..Depth' : nest'[l].pie = TRUE /\ nest'[l].irq \in Irq
    BY <1>4, <1>7, <1>8, <1>10, <1>11 DEF IrqInv, Below
  <2>3. ASSUME NEW l \in 1..Depth' - 1
        PROVE  /\ nest'[l].at = "runs" /\ nest'[l].contexts = <<>>
               /\ l >= 2 => nest'[l].open
    <3>1. l \in 1..Depth /\ (l = Depth \/ l \in 1..Depth - 1)
      BY <1>1, <1>7, SMT
    <3>2. CASE l = Depth
      <4>1. Depth >= 2 => Running.open
        BY <1>1, <1>5, SMT DEF Base
      <4>2. QED
        BY <1>5, <1>7, <3>1, <3>2, <4>1 DEF Running
    <3>3. CASE l \in 1..Depth - 1
      BY <1>7, <3>1, <3>3 DEF IrqInv, Below
    <3>4. QED
      BY <3>1, <3>2, <3>3
  <2>4. QED
    BY <2>1, <2>2, <2>3 DEF IrqInv, Below
<1>13. Enabling'
  <2>1. Base' = FALSE
    <3>1. Depth' # 1
      BY <1>1, <1>7, SMT
    <3>2. QED
      BY <1>7, <1>8, <3>1 DEF Base
  <2>2. QED
    BY <1>3, <1>7, <1>8, <2>1 DEF Enabling
<1>14. /\ MaskAt(Depth)' = alt_priority_mask
       /\ irq \in alt_priority_mask => irq < Running.irq
  <2>1. CASE Depth = 1
    <3>1. ~ Running.open /\ Running.irq = ALT_NIRQ
      BY <2>1 DEF IrqInv, Below, Running, Program
    <3>2. alt_priority_mask = Irq
      BY <2>1, <3>1 DEF IrqInv, Priorities, MaskAt
    <3>3. Depth' <= 2 /\ irq < ALT_NIRQ
      BY <1>4, <1>7, <2>1, SMT
    <3>4. QED
      BY <3>1, <3>2, <3>3 DEF MaskAt
  <2>2. CASE Depth # 1
    <3>1. Running.open /\ ~ (Depth' <= 2) /\ Depth' - 1 = Depth /\ Depth \in 1..Depth
      BY <1>1, <1>5, <1>7, <2>2, SMT DEF Base
    <3>2. alt_priority_mask = 0..Running.irq - 1
      BY <3>1 DEF IrqInv, Priorities
    <3>3. MaskAt(Depth)' = 0..Running.irq - 1
      BY <1>7, <3>1 DEF MaskAt, Running
    <3>4. Running.irq \in Int
      BY <1>1, IrqAssumption, SMT DEF LevelType
    <3>5. QED
      BY <1>4, <3>2, <3>3, <3>4, SMT
  <2>3. QED
    BY <2>1, <2>2
<1>15. Priorities'
  <2>1. ASSUME NEW l \in 2..Depth', nest'[l].open
        PROVE  nest'[l].old = MaskAt(l)'
    <3>1. l \in 2..Depth /\ nest'[l] = nest[l] /\ nest'[l - 1] = nest[l - 1]
      BY <1>7, <1>8, <1>10, <1>11, <2>1
    <3>2. MaskAt(l)' = MaskAt(l)
      BY <3>1 DEF MaskAt
    <3>3. QED
      BY <2>1, <3>1, <3>2 DEF IrqInv, Priorities
  <2>2. alt_priority_mask' = IF Running'.open THEN 0..Running'.irq - 1
                             ELSE MaskAt(Depth)'
    BY <1>3, <1>7, <1>8, <1>14 DEF masks
  <2>3. QED
    BY <2>1, <2>2 DEF Priorities
<1>16. \/ ienable = alt_irq_active \intersect alt_priority_mask
       \/ spoilt /\ SomeOpen
    BY <1>5 DEF IrqInv, Agree
<1>17. Agree'
  <2>1. SomeOpen => SomeOpen'
    <3>1. \A l \in 1..Depth : l \in 1..Depth'
      BY <1>1, <1>7, SMT
    <3>2. QED
      BY <1>7, <3>1 DEF SomeOpen
  <2>2. alt_irq_active = wanted
    BY <1>5 DEF IrqInv, Agree
  <2>3. QED
    BY <1>3, <1>7, <1>8, <1>16, <2>1, <2>2 DEF Agree, masks
<1>18. Ordered'
  <2> SUFFICES ASSUME ~ spoilt, NEW l \in 2..Depth'
               PROVE  nest'[l].irq < nest'[l - 1].irq
    BY <1>3 DEF Ordered
  <2>1. CASE l = Depth + 1
    <3>1. l - 1 = Depth /\ Depth \in 1..Depth
      BY <1>1, <2>1, SMT
    <3>2. irq \in alt_priority_mask
      BY <1>16
    <3>3. QED
      BY <1>7, <1>8, <1>14, <2>1, <3>1, <3>2 DEF Running
  <2>2. CASE l \in 2..Depth
    BY <1>7, <1>11, <2>2 DEF IrqInv, Ordered
  <2>3. QED
    BY <1>7, <1>10, <2>1, <2>2
<1>19. QED
    BY <1>9, <1>12, <1>13, <1>15, <1>17, <1>18 DEF IrqInv

LEMMA EretKept ==
    ASSUME IrqInv, Eret
    PROVE  IrqInv'
<1>1. Depth \in Nat /\ Depth >= 2 /\ Running \in LevelType
      /\ \A l \in 1..Depth : nest[l] \in LevelType
    BY DepthFacts, SMT DEF IrqInv, Eret
<1>2. /\ Running.at = "runs" /\ Running.contexts = <<>> /\ ~ Running.open
      /\ pie' = Running.pie /\ nest' = SubSeq(nest, 1, Depth - 1)
      /\ spoilt' = (spoilt /\ Depth > 2)
      /\ UNCHANGED <<masks, wanted>>
    BY DEF Eret
<1>3. /\ nest' \in Seq(LevelType) /\ Depth' = Depth - 1
      /\ \A l \in 1..Depth - 1 : nest'[l] = nest[l]
  <2>1. nest \in Seq(LevelType) /\ Depth = Len(nest)
    BY DEF IrqInv, IrqTypes, Depth
  <2>2. QED
    BY <1>1, <1>2, <2>1, SMT DEF Depth
<1>4. /\ Depth - 1 \in 1..Depth - 1 /\ Depth \in 2..Depth
      /\ \A l \in 2..Depth - 1 : l \in 1..Depth - 1 /\ l - 1 \in 1..Depth - 1 /\ l \in 2..Depth
      /\ \A l \in 1..(Depth - 1) - 1 : l \in 1..Depth - 1
    BY <1>1, SMT
<1>5. Running' = nest[Depth - 1] /\ Running'.at = "runs" /\ Running'.contexts = <<>>
    BY <1>3, <1>4 DEF Running, IrqInv, Below
<1>6. IrqTypes'
  <2>1. Running.pie \in BOOLEAN
    BY <1>1 DEF LevelType
  <2>2. Len(nest') >= 1
    BY <1>1, <1>3, SMT DEF Depth
  <2>3. spoilt' \in BOOLEAN
    BY <1>2
  <2>4. QED
    BY <1>2, <1>3, <2>1, <2>2, <2>3 DEF IrqInv, IrqTypes, masks
<1>7. Below'
  <2>1. nest'[1] = nest[1]
    BY <1>1, <1>3, SMT
  <2>2. QED
    BY <1>3, <1>4, <2>1 DEF IrqInv, Below
<1>8. Base' = TRUE
  <2>1. CASE Depth = 2
    <3>1. Depth' = 1
      BY <1>3, <2>1, SMT
    <3>2. QED
      BY <3>1 DEF Base
  <2>2. CASE Depth # 2
    <3>1. Depth - 1 >= 2
      BY <1>1, <2>2, SMT
    <3>2. Running'.open
      BY <1>4, <1>5, <3>1 DEF IrqInv, Below
    <3>3. QED
      BY <3>2 DEF Base
  <2>3. QED
    BY <2>1, <2>2
<1>9. Enabling'
  <2>1. pie' = TRUE
    BY <1>2, <1>4 DEF IrqInv, Below, Running
  <2>2. QED
    BY <1>5, <1>8, <2>1 DEF Enabling
<1>10. alt_priority_mask = MaskAt(Depth)
    BY <1>2 DEF IrqInv, Priorities
<1>11. Priorities'
  <2>1. ASSUME NEW l \in 2..Depth', nest'[l].open
        PROVE  nest'[l].old = MaskAt(l)'
    <3>1. l \in 2..Depth /\ nest'[l] = nest[l] /\ nest'[l - 1] = nest[l - 1]
      BY <1>3, <1>4, <2>1
    <3>2. MaskAt(l)' = MaskAt(l)
      BY <3>1 DEF MaskAt
    <3>3. QED
      BY <2>1, <3>1, <3>2 DEF IrqInv, Priorities
  <2>2. alt_priority_mask' = IF Running'.open THEN 0..Running'.irq - 1 ELSE MaskAt(Depth)'
    <3>1. CASE Depth = 2
      <4>1. Depth' = 1 /\ ~ Running'.open
        <5>1. Depth - 1 = 1
          BY <3>1, SMT
        <5>2. QED
          BY <1>3, <1>5, <5>1 DEF IrqInv, Below
      <4>2. MaskAt(Depth) = Irq /\ MaskAt(Depth)' = Irq
        <5>1. Depth <= 2 /\ Depth' <= 2
          BY <1>3, <3>1, SMT
        <5>2. QED
          BY <5>1 DEF MaskAt
      <4>3. QED
        BY <1>2, <1>10, <4>1, <4>2 DEF masks
    <3>2. CASE Depth # 2
      <4>1. ~ (Depth <= 2) /\ Running'.open
        <5>1. ~ (Depth <= 2) /\ Depth - 1 >= 2
          BY <1>1, <3>2, SMT
        <5>2. QED
          BY <1>4, <1>5, <5>1 DEF IrqInv, Below
      <4>2. QED
        BY <1>2, <1>5, <1>10, <4>1 DEF MaskAt, masks
    <3>3. QED
      BY <3>1, <3>2
  <2>3. QED
    BY <2>1, <2>2 DEF Priorities
<1>12. Agree'
  <2>1. \/ ienable = alt_irq_active \intersect alt_priority_mask
        \/ spoilt /\ SomeOpen
    BY <1>2 DEF IrqInv, Agree
  <2>2. ASSUME SomeOpen PROVE SomeOpen' /\ Depth > 2
    <3>1. PICK l \in 1..Depth : nest[l].open
      BY <2>2 DEF SomeOpen
    <3>2. l # Depth /\ l # 1
      BY <1>2, <3>1 DEF Running, IrqInv, Below
    <3>3. l \in 1..Depth - 1 /\ Depth > 2
      BY <1>1, <3>1, <3>2, SMT
    <3>4. QED
      BY <1>3, <3>1, <3>3 DEF SomeOpen
  <2>3. alt_irq_active = wanted
    BY <1>2 DEF IrqInv, Agree
  <2>4. QED
    BY <1>2, <1>5, <2>1, <2>2, <2>3 DEF Agree, masks
<1>13. Ordered'
  <2> SUFFICES ASSUME ~ spoilt', NEW l \in 2..Depth'
               PROVE  nest'[l].irq < nest'[l - 1].irq
    BY DEF Ordered
  <2>1. Depth > 2
    BY <1>1, <1>3, SMT
  <2>2. ~ spoilt
    BY <1>2, <2>1
  <2>3. QED
    BY <1>3, <1>4, <2>2 DEF IrqInv, Ordered
<1>14. QED
    BY <1>6, <1>7, <1>9, <1>11, <1>12, <1>13 DEF IrqInv

\* A step of the level that runs in which it neither opens nor closes.
LEMMA TopKept ==
    ASSUME IrqInv, NEW x \in LevelType, nest' = [nest EXCEPT ![Depth] = x],
           x.irq = Running.irq, x.pie = Running.pie,
           x.open = Running.open, x.old = Running.old,
           alt_priority_mask' = alt_priority_mask, spoilt => spoilt'
    PROVE  /\ Below' /\ Priorities' /\ Ordered'
           /\ Running' = x /\ nest' \in Seq(LevelType) /\ Len(nest') >= 1
           /\ Base' = Base /\ (SomeOpen' <=> SomeOpen)
<1>1. Depth = 1 => ~ x.open
    BY DEF IrqInv, Below, Running
<1>2. Base \in BOOLEAN /\ Base' \in BOOLEAN
  <2>1. Base \in BOOLEAN
    BY DEF Base, IrqInv
  <2>2. Base' \in BOOLEAN
    BY DEF Base
  <2>3. QED
    BY <2>1, <2>2
<1>3. QED
    BY <1>1, <1>2, TopReplaced, TopKeepsOrder, TopKeepsMask DEF IrqInv

LEMMA SectionsKept ==
    ASSUME IrqInv, DisableAll \/ EnableAll
    PROVE  IrqInv'
<1>1. Running \in LevelType /\ Running.at = "runs"
    BY DepthFacts DEF IrqInv, DisableAll, EnableAll
<1>2. \/ Running.contexts = <<>> /\ pie = Base
      \/ Running.contexts = <<Base>> /\ pie = FALSE
    BY <1>1 DEF IrqInv, Enabling
<1>3. Base \in BOOLEAN /\ <<Base>> \in Seq(BOOLEAN) /\ <<>> \in Seq(BOOLEAN)
  <2>1. Base \in BOOLEAN
    BY DEF Base
  <2>2. QED
    BY <2>1, SMT
<1>4. UNCHANGED <<masks, wanted, spoilt>>
    BY DEF DisableAll, EnableAll
<1>5. PICK contexts \in {<<>>, <<Base>>} :
        /\ nest' = [nest EXCEPT ![Depth] = [Running EXCEPT !.contexts = contexts]]
        /\ contexts = <<>> => pie' = Base
        /\ contexts = <<Base>> => pie' = FALSE
  <2>1. CASE DisableAll
    <3>1. Running.contexts = <<>> /\ pie = Base /\ <<Base>> # <<>>
      <4>1. <<Base>> # <<>>
        BY SMT
      <4>2. QED
        BY <1>2, <2>1, <4>1 DEF DisableAll
    <3>2. /\ nest' = [nest EXCEPT ![Depth] = [Running EXCEPT !.contexts = <<Base>>]]
          /\ pie' = FALSE
      BY <2>1, <3>1 DEF DisableAll, Running
    <3>3. QED
      BY <3>1, <3>2
  <2>2. CASE EnableAll
    <3>1. Running.contexts = <<Base>> /\ <<Base>>[1] = Base /\ <<Base>> # <<>>
      <4>1. <<Base>>[1] = Base /\ <<Base>> # <<>>
        BY SMT
      <4>2. QED
        BY <1>2, <2>2, <4>1 DEF EnableAll
    <3>2. /\ nest' = [nest EXCEPT ![Depth] = [Running EXCEPT !.contexts = <<>>]]
          /\ pie' = Base
      BY <2>2, <3>1 DEF EnableAll, Running
    <3>3. QED
      BY <3>1, <3>2
  <2>3. QED
    BY <2>1, <2>2
<1> DEFINE x == [Running EXCEPT !.contexts = contexts]
<1>6. /\ x \in LevelType /\ x.irq = Running.irq /\ x.pie = Running.pie
      /\ x.open = Running.open /\ x.old = Running.old
      /\ x.at = "runs" /\ x.contexts = contexts
    BY <1>1, <1>3, <1>5 DEF LevelType
<1> HIDE DEF x
<1>7. /\ Below' /\ Priorities' /\ Ordered'
      /\ Running' = x /\ nest' \in Seq(LevelType) /\ Len(nest') >= 1
      /\ Base' = Base /\ (SomeOpen' <=> SomeOpen)
    BY <1>4, <1>5, <1>6, TopKept DEF x, masks
<1>8. pie' \in BOOLEAN
    BY <1>3, <1>5
<1>9. IrqTypes'
    BY <1>4, <1>7, <1>8 DEF IrqInv, IrqTypes, masks
<1>10. Enabling'
    BY <1>5, <1>6, <1>7 DEF Enabling
<1>11. Agree'
    BY <1>1, <1>4, <1>6, <1>7 DEF IrqInv, Agree, masks
<1>12. QED
    BY <1>7, <1>9, <1>10, <1>11 DEF IrqInv

LEMMA TwoContexts ==
    ASSUME NEW b \in BOOLEAN
    PROVE  <<FALSE>> \o <<b>> = <<FALSE, b>>
<1>1. <<FALSE>> \in Seq(BOOLEAN) /\ <<b>> \in Seq(BOOLEAN)
    BY SMT
<1>2. /\ Len(<<FALSE>> \o <<b>>) = 2
      /\ (<<FALSE>> \o <<b>>)[1] = FALSE /\ (<<FALSE>> \o <<b>>)[2] = b
    BY SMT
<1>3. <<FALSE>> \o <<b>> \in Seq(BOOLEAN)
    BY <1>1, SMT
<1>4. /\ <<FALSE, b>> \in Seq(BOOLEAN) /\ Len(<<FALSE, b>>) = 2
      /\ <<FALSE, b>>[1] = FALSE /\ <<FALSE, b>>[2] = b
    BY SMT
<1>5. \A i \in 1..2 : i = 1 \/ i = 2
    BY SMT
<1>6. \A i \in 1..Len(<<FALSE>> \o <<b>>) : (<<FALSE>> \o <<b>>)[i] = <<FALSE, b>>[i]
    BY <1>2, <1>4, <1>5
<1>7. QED
    BY <1>2, <1>3, <1>4, <1>6, SeqEqual

LEMMA AskKept ==
    ASSUME IrqInv, Ask
    PROVE  IrqInv'
<1>1. Running \in LevelType /\ Running.at = "runs"
    BY DepthFacts DEF IrqInv, Ask
<1>2. PICK id \in Irq, on \in BOOLEAN :
        nest' = [nest EXCEPT ![Depth] = [Running EXCEPT !.at = "load", !.id = id, !.on = on,
                                         !.contexts = <<pie>> \o Running.contexts]]
    BY DEF Ask, Running
<1>3. pie' = FALSE /\ UNCHANGED <<masks, wanted, spoilt>>
    BY DEF Ask
<1>4. Base \in BOOLEAN
    BY DEF Base
<1> DEFINE contexts == <<pie>> \o Running.contexts
<1>5. contexts \in {<<Base>>, <<FALSE, Base>>} /\ contexts \in Seq(BOOLEAN)
  <2>1. \/ Running.contexts = <<>> /\ pie = Base
        \/ Running.contexts = <<Base>> /\ pie = FALSE
    BY <1>1 DEF IrqInv, Enabling
  <2>2. <<Base>> \o <<>> = <<Base>> /\ <<FALSE>> \o <<Base>> = <<FALSE, Base>>
    <3>1. <<Base>> \in Seq(BOOLEAN)
      BY <1>4, SMT
    <3>2. QED
      BY <1>4, <3>1, ConcatEmptySeq, TwoContexts
  <2>3. <<Base>> \in Seq(BOOLEAN) /\ <<FALSE, Base>> \in Seq(BOOLEAN)
    BY <1>4, SMT
  <2>4. QED
    BY <2>1, <2>2, <2>3
<1> HIDE DEF contexts
<1> DEFINE x == [Running EXCEPT !.at = "load", !.id = id, !.on = on, !.contexts = contexts]
<1>6. id \in Int
    BY SMT DEF Irq
<1>7. /\ x \in LevelType /\ x.irq = Running.irq /\ x.pie = Running.pie
      /\ x.open = Running.open /\ x.old = Running.old
      /\ x.at = "load" /\ x.contexts = contexts /\ x.id = id
    BY <1>1, <1>5, <1>6 DEF LevelType
<1>8. nest' = [nest EXCEPT ![Depth] = x]
    BY <1>2 DEF contexts
<1> HIDE DEF x
<1>9. /\ Below' /\ Priorities' /\ Ordered'
      /\ Running' = x /\ nest' \in Seq(LevelType) /\ Len(nest') >= 1
      /\ Base' = Base /\ (SomeOpen' <=> SomeOpen)
    BY <1>3, <1>7, <1>8, TopKept DEF masks
<1>10. IrqTypes'
    BY <1>3, <1>9 DEF IrqInv, IrqTypes, masks
<1>11. Enabling'
    BY <1>3, <1>5, <1>7, <1>9 DEF Enabling
<1>12. Agree'
    BY <1>1, <1>3, <1>7, <1>9 DEF IrqInv, Agree, masks
<1>13. QED
    BY <1>9, <1>10, <1>11, <1>12 DEF IrqInv

LEMMA LoadKept ==
    ASSUME IrqInv, Load
    PROVE  IrqInv'
<1>1. Running \in LevelType /\ Running.at = "load" /\ Running.id \in Irq
    BY DepthFacts DEF IrqInv, Load, Agree
<1> DEFINE value == IF Running.on THEN alt_irq_active \union {Running.id}
                    ELSE alt_irq_active \ {Running.id}
           x == [Running EXCEPT !.at = "store", !.value = value]
<1>2. UNCHANGED <<pie, masks, wanted, spoilt>>
    BY DEF Load
<1>3. nest' = [nest EXCEPT ![Depth] = x]
    BY DEF Load, Running
<1>4. value \in SUBSET Irq /\ value = Asked
    BY <1>1 DEF IrqInv, IrqTypes, Agree, Asked
<1> HIDE DEF value
<1>5. /\ x \in LevelType /\ x.irq = Running.irq /\ x.pie = Running.pie
      /\ x.open = Running.open /\ x.old = Running.old
      /\ x.at = "store" /\ x.contexts = Running.contexts
      /\ x.id = Running.id /\ x.on = Running.on /\ x.value = value
    BY <1>1, <1>4 DEF LevelType
<1> HIDE DEF x
<1>6. /\ Below' /\ Priorities' /\ Ordered'
      /\ Running' = x /\ nest' \in Seq(LevelType) /\ Len(nest') >= 1
      /\ Base' = Base /\ (SomeOpen' <=> SomeOpen)
    BY <1>2, <1>3, <1>5, TopKept DEF masks
<1>7. IrqTypes'
    BY <1>2, <1>6 DEF IrqInv, IrqTypes, masks
<1>8. Enabling'
    BY <1>1, <1>2, <1>5, <1>6 DEF IrqInv, Enabling
<1>9. Asked' = Asked
    BY <1>2, <1>5, <1>6 DEF Asked
<1>10. Agree'
    BY <1>1, <1>2, <1>4, <1>5, <1>6, <1>9 DEF IrqInv, Agree, masks
<1>11. QED
    BY <1>6, <1>7, <1>8, <1>10 DEF IrqInv

LEMMA StoreKept ==
    ASSUME IrqInv, Store
    PROVE  IrqInv'
<1>1. Running \in LevelType /\ Running.at = "store" /\ Running.id \in Irq
      /\ Running.value = Asked
    BY DepthFacts DEF IrqInv, Store, Agree
<1> DEFINE x == [Running EXCEPT !.at = "write"]
<1>2. /\ UNCHANGED <<pie, ienable, alt_priority_mask, wanted, spoilt>>
      /\ alt_irq_active' = Asked
    BY <1>1 DEF Store
<1>3. nest' = [nest EXCEPT ![Depth] = x]
    BY DEF Store, Running
<1>4. /\ x \in LevelType /\ x.irq = Running.irq /\ x.pie = Running.pie
      /\ x.open = Running.open /\ x.old = Running.old
      /\ x.at = "write" /\ x.contexts = Running.contexts
      /\ x.id = Running.id /\ x.on = Running.on
    BY <1>1 DEF LevelType
<1> HIDE DEF x
<1>5. /\ Below' /\ Priorities' /\ Ordered'
      /\ Running' = x /\ nest' \in Seq(LevelType) /\ Len(nest') >= 1
      /\ Base' = Base /\ (SomeOpen' <=> SomeOpen)
    BY <1>2, <1>3, <1>4, TopKept
<1>6. Asked' = Asked /\ Asked \in SUBSET Irq
    BY <1>1, <1>2, <1>4, <1>5 DEF Asked, IrqInv, IrqTypes
<1>7. IrqTypes'
    BY <1>2, <1>5, <1>6 DEF IrqInv, IrqTypes
<1>8. Enabling'
    BY <1>1, <1>2, <1>4, <1>5 DEF IrqInv, Enabling
<1>9. Agree'
    BY <1>1, <1>2, <1>4, <1>5, <1>6 DEF Agree
<1>10. QED
    BY <1>5, <1>7, <1>8, <1>9 DEF IrqInv

LEMMA WriteKept ==
    ASSUME IrqInv, WriteIenable
    PROVE  IrqInv'
<1>1. Running \in LevelType /\ Running.at = "write" /\ Running.id \in Irq
      /\ alt_irq_active = Asked
    BY DepthFacts DEF IrqInv, WriteIenable, Agree
<1>2. /\ ienable' = alt_irq_active /\ wanted' = Asked
      /\ spoilt' = (spoilt \/ \E l \in DOMAIN nest : nest[l].open)
      /\ pie' = Running.contexts[1]
      /\ UNCHANGED <<alt_irq_active, alt_priority_mask>>
    BY DEF WriteIenable, Asked
<1>3. Running.contexts \in {<<Base>>, <<FALSE, Base>>}
    BY <1>1 DEF IrqInv, Enabling
<1> DEFINE x == [Running EXCEPT !.at = "runs", !.id = 0, !.on = FALSE, !.value = {},
                                !.contexts = Tail(Running.contexts)]
<1>4. nest' = [nest EXCEPT ![Depth] = x]
    BY DEF WriteIenable, Running
<1>5. Base \in BOOLEAN
    BY DEF Base
<1>6. /\ Tail(Running.contexts) \in {<<>>, <<Base>>} /\ Tail(Running.contexts) \in Seq(BOOLEAN)
      /\ Tail(Running.contexts) = <<>> => Running.contexts[1] = Base
      /\ Tail(Running.contexts) = <<Base>> => Running.contexts[1] = FALSE
  <2>1. /\ Tail(<<Base>>) = <<>> /\ <<Base>>[1] = Base
        /\ Tail(<<FALSE, Base>>) = <<Base>> /\ <<FALSE, Base>>[1] = FALSE
        /\ <<Base>> # <<>>
    BY SMT
  <2>2. <<>> \in Seq(BOOLEAN) /\ <<Base>> \in Seq(BOOLEAN)
    BY <1>5, SMT
  <2>3. QED
    BY <1>3, <2>1, <2>2
<1>7. /\ x \in LevelType /\ x.irq = Running.irq /\ x.pie = Running.pie
      /\ x.open = Running.open /\ x.old = Running.old
      /\ x.at = "runs" /\ x.contexts = Tail(Running.contexts)
  <2>1. 0 \in Int
    BY SMT
  <2>2. QED
    BY <1>1, <1>6, <2>1 DEF LevelType
<1> HIDE DEF x
<1>8. /\ Below' /\ Priorities' /\ Ordered'
      /\ Running' = x /\ nest' \in Seq(LevelType) /\ Len(nest') >= 1
      /\ Base' = Base /\ (SomeOpen' <=> SomeOpen)
    BY <1>2, <1>4, <1>7, TopKept
<1>9. spoilt' = (spoilt \/ SomeOpen) /\ spoilt' \in BOOLEAN
  <2>1. DOMAIN nest = 1..Depth
    BY SMT DEF IrqInv, IrqTypes, Depth
  <2>2. QED
    BY <1>2, <2>1 DEF SomeOpen
<1>10. Asked \in SUBSET Irq /\ pie' \in BOOLEAN
    BY <1>1, <1>2, <1>5, <1>6 DEF Asked, IrqInv, IrqTypes
<1>11. IrqTypes'
    BY <1>1, <1>2, <1>8, <1>9, <1>10 DEF IrqInv, IrqTypes
<1>12. Enabling'
    BY <1>2, <1>6, <1>7, <1>8 DEF Enabling
<1>13. ASSUME ~ SomeOpen
       PROVE  alt_priority_mask = Irq
  <2>1. Depth \in Nat /\ Depth >= 1 /\ Depth \in 1..Depth
    BY DepthFacts, SMT DEF IrqInv
  <2>2. ~ Running.open
    BY <1>13, <2>1 DEF SomeOpen, Running
  <2>3. Depth <= 2
    <3>1. SUFFICES ASSUME ~ (Depth <= 2) PROVE FALSE
      OBVIOUS
    <3>2. 2 \in 1..Depth - 1 /\ 2 \in 1..Depth /\ 2 >= 2
      BY <2>1, <3>1, SMT
    <3>3. QED
      BY <1>13, <3>2 DEF SomeOpen, IrqInv, Below
  <2>4. QED
    BY <2>2, <2>3 DEF IrqInv, Priorities, MaskAt
<1>14. Agree'
  <2>1. \/ ienable' = alt_irq_active' \intersect alt_priority_mask'
        \/ spoilt' /\ SomeOpen'
    BY <1>1, <1>2, <1>8, <1>9, <1>10, <1>13
  <2>2. QED
    BY <1>1, <1>2, <1>7, <1>8, <2>1 DEF Agree
<1>15. QED
    BY <1>8, <1>11, <1>12, <1>14 DEF IrqInv

LEMMA OpenKept ==
    ASSUME IrqInv, Interruptible
    PROVE  IrqInv'
<1>1. /\ Running \in LevelType /\ Running.at = "runs" /\ Running.contexts = <<>>
      /\ ~ Running.open /\ Depth \in Nat /\ Depth > 1
    BY DepthFacts DEF IrqInv, Interruptible, InRoutine
<1> DEFINE x == [Running EXCEPT !.open = TRUE, !.old = alt_priority_mask]
<1>2. /\ alt_priority_mask' = 0..Running.irq - 1
      /\ ienable' = alt_irq_active \intersect alt_priority_mask'
      /\ pie' = TRUE /\ UNCHANGED <<alt_irq_active, wanted, spoilt>>
    BY DEF Interruptible
<1>3. nest' = [nest EXCEPT ![Depth] = x]
    BY DEF Interruptible, Running
<1>4. alt_priority_mask = MaskAt(Depth) /\ MaskAt(Depth) \in SUBSET Irq
  <2>1. alt_priority_mask = MaskAt(Depth)
    BY <1>1 DEF IrqInv, Priorities
  <2>2. CASE Depth <= 2
    BY <2>1, <2>2 DEF MaskAt
  <2>3. CASE ~ (Depth <= 2)
    <3>1. Depth - 1 \in 2..Depth
      BY <1>1, <2>3, SMT
    <3>2. nest[Depth - 1].irq \in Irq
      BY <3>1 DEF IrqInv, Below
    <3>3. nest[Depth - 1].irq \in Int /\ nest[Depth - 1].irq < ALT_NIRQ
      BY <3>2, IrqAssumption, SMT DEF Irq
    <3>4. 0..nest[Depth - 1].irq - 1 \subseteq Irq
      BY <3>3, IrqAssumption, SMT DEF Irq
    <3>5. QED
      BY <2>1, <2>3, <3>4 DEF MaskAt
  <2>4. QED
    BY <2>2, <2>3
<1>5. /\ x \in LevelType /\ x.irq = Running.irq /\ x.pie = Running.pie
      /\ x.open = TRUE /\ x.old = alt_priority_mask
      /\ x.at = "runs" /\ x.contexts = <<>>
    BY <1>1, <1>4 DEF LevelType
<1> HIDE DEF x
<1>6. /\ nest' \in Seq(LevelType) /\ Len(nest') >= 1
      /\ Depth' = Depth /\ Running' = x /\ nest'[Depth] = x
      /\ \A l \in 1..Depth - 1 : nest'[l] = nest[l]
    BY <1>3, <1>5, TopReplaced DEF IrqInv, Running
<1>7. Below' /\ Ordered'
  <2>1. Depth # 1
    BY <1>1, SMT
  <2>2. QED
    BY <1>2, <1>3, <1>5, <2>1, TopKeepsOrder
<1>8. IrqTypes'
  <2>1. ienable' \in SUBSET Irq
    BY <1>2 DEF IrqInv, IrqTypes
  <2>2. QED
    BY <1>2, <1>6, <2>1 DEF IrqInv, IrqTypes
<1>9. Enabling'
    BY <1>2, <1>5, <1>6 DEF Enabling, Base
<1>10. ASSUME NEW l \in 2..Depth
       PROVE  MaskAt(l)' = MaskAt(l) /\ (l = Depth \/ nest'[l] = nest[l])
  <2>1. l - 1 \in 1..Depth - 1 /\ (l = Depth \/ l \in 1..Depth - 1)
    BY <1>1, SMT
  <2>2. QED
    BY <1>6, <2>1 DEF MaskAt
<1>11. Priorities'
  <2>1. \A l \in 2..Depth : nest'[l].open => nest'[l].old = MaskAt(l)'
    BY <1>4, <1>5, <1>6, <1>10 DEF IrqInv, Priorities
  <2>2. QED
    BY <1>2, <1>5, <1>6, <2>1 DEF Priorities
<1>12. Agree'
    BY <1>1, <1>2, <1>5, <1>6 DEF IrqInv, Agree
<1>13. QED
    BY <1>7, <1>8, <1>9, <1>11, <1>12 DEF IrqInv

LEMMA CloseKept ==
    ASSUME IrqInv, NonInterruptible
    PROVE  IrqInv'
<1>1. /\ Running \in LevelType /\ Running.at = "runs" /\ Running.contexts = <<>>
      /\ Running.open /\ Depth \in Nat /\ Depth > 1
    BY DepthFacts DEF IrqInv, NonInterruptible, InRoutine
<1> DEFINE x == [Running EXCEPT !.open = FALSE, !.old = {}]
<1>2. /\ alt_priority_mask' = Running.old
      /\ ienable' = alt_irq_active \intersect alt_priority_mask'
      /\ pie' = FALSE /\ UNCHANGED <<alt_irq_active, wanted, spoilt>>
    BY DEF NonInterruptible
<1>3. nest' = [nest EXCEPT ![Depth] = x]
    BY DEF NonInterruptible, Running
<1>4. /\ x \in LevelType /\ x.irq = Running.irq /\ x.pie = Running.pie
      /\ x.open = FALSE /\ x.at = "runs" /\ x.contexts = <<>>
    BY <1>1 DEF LevelType
<1> HIDE DEF x
<1>5. /\ nest' \in Seq(LevelType) /\ Len(nest') >= 1
      /\ Depth' = Depth /\ Running' = x /\ nest'[Depth] = x
      /\ \A l \in 1..Depth - 1 : nest'[l] = nest[l]
    BY <1>3, <1>4, TopReplaced DEF IrqInv, Running
<1>6. Below' /\ Ordered'
    BY <1>1, <1>2, <1>3, <1>4, TopKeepsOrder
<1>7. IrqTypes'
  <2>1. ienable' \in SUBSET Irq
    BY <1>2 DEF IrqInv, IrqTypes
  <2>2. QED
    BY <1>2, <1>5, <2>1 DEF IrqInv, IrqTypes
<1>8. Enabling'
  <2>1. Base' = FALSE
    <3>1. Depth # 1
      BY <1>1, SMT
    <3>2. QED
      BY <1>4, <1>5, <3>1 DEF Base
  <2>2. QED
    BY <1>2, <1>4, <1>5, <2>1 DEF Enabling
<1>9. ASSUME NEW l \in 2..Depth
      PROVE  MaskAt(l)' = MaskAt(l) /\ (l = Depth \/ nest'[l] = nest[l])
  <2>1. l - 1 \in 1..Depth - 1 /\ (l = Depth \/ l \in 1..Depth - 1)
    BY <1>1, SMT
  <2>2. QED
    BY <1>5, <2>1 DEF MaskAt
<1>10. Priorities'
  <2>1. \A l \in 2..Depth : nest'[l].open => nest'[l].old = MaskAt(l)'
    BY <1>4, <1>5, <1>9 DEF IrqInv, Priorities
  <2>2. Depth \in 2..Depth
    BY <1>1, SMT
  <2>3. Running.old = MaskAt(Depth)
    BY <1>1, <2>2 DEF IrqInv, Priorities, Running
  <2>4. MaskAt(Depth)' = MaskAt(Depth)
    BY <1>5, <1>9, <2>2 DEF MaskAt
  <2>5. QED
    BY <1>2, <1>4, <1>5, <2>1, <2>3, <2>4 DEF Priorities
<1>11. Agree'
    BY <1>1, <1>2, <1>4, <1>5 DEF IrqInv, Agree
<1>12. QED
    BY <1>6, <1>7, <1>8, <1>10, <1>11 DEF IrqInv

LEMMA IrqInvariant == IrqSpec => []IrqInv
<1>1. IrqInit => IrqInv
  <2> SUFFICES ASSUME IrqInit PROVE IrqInv
    OBVIOUS
  <2> DEFINE program == Level(Program, TRUE)
  <2>1. nest = <<program>> /\ pie = TRUE /\ alt_priority_mask = Irq /\ spoilt = FALSE
        /\ alt_irq_active = {} /\ ienable = {} /\ wanted = {}
    BY DEF IrqInit
  <2>2. program \in LevelType
    <3>1. ALT_NIRQ \in 0..ALT_NIRQ /\ <<>> \in Seq(BOOLEAN) /\ 0 \in Int
      BY IrqAssumption, SMT
    <3>2. QED
      BY <3>1 DEF Level, LevelType, Program
  <2>3. /\ program.irq = Program /\ program.at = "runs" /\ program.contexts = <<>>
        /\ ~ program.open
    BY DEF Level
  <2> HIDE DEF program
  <2>4. /\ nest \in Seq(LevelType) /\ Depth = 1 /\ Running = program /\ nest[1] = program
        /\ Len(nest) >= 1
    BY <2>1, <2>2, SMT DEF Depth, Running
  <2>5. 2..Depth = {} /\ 1..Depth - 1 = {} /\ Depth <= 2
    BY <2>4, SMT
  <2>6. IrqTypes
    BY <2>1, <2>4 DEF IrqTypes
  <2>7. Below /\ Enabling /\ Priorities /\ Agree /\ Ordered
    BY <2>1, <2>3, <2>4, <2>5 DEF Below, Enabling, Base, Priorities, MaskAt, Agree, Ordered
  <2>8. QED
    BY <2>6, <2>7 DEF IrqInv
<1>2. IrqInv /\ [IrqNext]_irq_vars => IrqInv'
  <2>1. ASSUME IrqInv, UNCHANGED irq_vars PROVE IrqInv'
    BY <2>1 DEF IrqInv, IrqTypes, Below, Enabling, Base, Priorities, MaskAt, Agree, Asked,
                SomeOpen, Ordered, Depth, Running, irq_vars
  <2>2. QED
    BY <2>1, TakeKept, EretKept, SectionsKept, AskKept, LoadKept, StoreKept, WriteKept,
       OpenKept, CloseKept DEF IrqNext
<1>3. QED
    BY <1>1, <1>2, PTL DEF IrqSpec

(* For every number of interrupts, however they nest and wherever they come:
   the program outside of its sections sees the interrupts it asked for, and
   routines that opened themselves are interrupted by higher priorities only,
   as long as none of them enables or disables an interrupt. *)
THEOREM InterruptsSound == IrqSpec => []IrqSound
<1>1. IrqInv => IrqSound
  <2> SUFFICES ASSUME IrqInv PROVE IrqSound
    OBVIOUS
  <2>1. ASSUME Depth = 1, Running.at = "runs"
        PROVE  /\ ienable = wanted /\ alt_irq_active = wanted
               /\ pie = (Running.contexts = <<>>)
    <3>1. ~ Running.open /\ Depth <= 2
      <4>1. Depth <= 2
        BY <2>1, SMT
      <4>2. QED
        BY <2>1, <4>1 DEF IrqInv, Below, Running
    <3>2. alt_priority_mask = Irq
      BY <3>1 DEF IrqInv, Priorities, MaskAt
    <3>3. ~ SomeOpen
      <4>1. \A l \in 1..Depth : l = Depth
        BY <2>1, SMT
      <4>2. QED
        BY <3>1, <4>1 DEF SomeOpen, Running
    <3>4. alt_irq_active = wanted /\ wanted \in SUBSET Irq
      BY <2>1 DEF IrqInv, Agree, IrqTypes
    <3>5. ienable = wanted
      BY <2>1, <3>2, <3>3, <3>4 DEF IrqInv, Agree
    <3>6. Base = TRUE /\ <<Base>> # <<>>
      <4>1. <<Base>> # <<>>
        BY SMT
      <4>2. QED
        BY <2>1, <4>1 DEF Base
    <3>7. pie = (Running.contexts = <<>>)
      BY <2>1, <3>6 DEF IrqInv, Enabling
    <3>8. QED
      BY <3>4, <3>5, <3>7
  <2>2. spoilt \/ \A l \in 2..Depth : nest[l].irq < nest[l - 1].irq
    BY DEF IrqInv, Ordered
  <2>3. QED
    BY <2>1, <2>2 DEF IrqSound
<1>2. QED
    BY <1>1, IrqInvariant, PTL
=============================================================================
