------------------------- MODULE PrintNumberProofs -------------------------
(***************************************************************************)
(* Proofs about module PrintNumber, for words of any number of hexadecimal *)
(* digits, any numbers and any formats: while a number is printed, the     *)
(* digits that were sent read as the number above the places that are      *)
(* left, so what a directive prints reads as the number that was meant.    *)
(***************************************************************************)
EXTENDS PrintNumber, Arithmetic, SequenceTheorems, TLAPS

-----------------------------------------------------------------------------
(* The invariant. *)

Fmt == [base : {8, 10, 16}, signed : BOOLEAN, leadingZero : BOOLEAN,
        before : Int, after : Int]

PrintTypes ==
    /\ printer \in {"none", "alt_log_private_printf", "alt_printf"}
    /\ state \in {"idle", "chars", "first", "other", "start", "count", "shift", "digits"}
    /\ format \in Seq(Int) /\ w \in 1..Len(format) + 1
    /\ \A k \in 1..Len(format) : format[k] \in Other..9
    /\ state = "idle" => w = 1
    /\ fmt \in Fmt
    /\ v \in Nat /\ p \in Nat /\ vShrink \in Nat /\ digitCount \in Nat
    /\ value \in 0..NUMBER - 1
    /\ printed \in Seq(Int) /\ from \in 0..Len(printed)

\* What has been read of a directive that began at o, and what it has set.
WidthOf(text) == Reads(10, BeforeDot(text))
Sought(o) == SubSeq(format, o + 1, w - 1)

Begun(o) ==
    /\ format[o] = Percent
    /\ \A l \in o + 1..w - 1 : format[l] # Percent
    /\ state = "first" => o = w - 1
    /\ state = "other" => o < w - 1 /\ printer = "alt_log_private_printf"
    /\ fmt.leadingZero <=> o < w - 1 /\ format[o + 1] = 0
    /\ fmt.after >= 0 <=> \E l \in o + 1..w - 1 : format[l] = Dot
    /\ IF fmt.before < 0 THEN WidthOf(Sought(o)) = 0 ELSE fmt.before = WidthOf(Sought(o))

DirectiveInv == state \in {"first", "other"} => \E o \in 1..w - 1 : Begun(o)

\* What the directive was, once its letter has been read.
Printing == state \in {"start", "count", "shift", "digits"}

AskedInv ==
    Printing =>
        /\ Letter \in {Dee, You, Oh, Ex}
        /\ fmt.base = BaseAsked
        /\ fmt.signed <=> Letter = Dee
        /\ fmt.leadingZero <=> ZeroAsked
        /\ state \in {"start", "count"} =>
             IF fmt.before < 0 THEN WidthAsked = 0 ELSE fmt.before = WidthAsked
        /\ printer = "alt_printf" => Letter = Ex /\ WidthAsked = 0
        /\ WidthAsked \in Nat

\* While digits are counted, p is the place of the last one counted, and the
\* number reaches it.
CountInv ==
    state = "count" =>
        /\ printer = "alt_log_private_printf"
        /\ v = Shown
        /\ \E k \in Nat : /\ digitCount = k + 1
                          /\ p = Power(fmt.base)[k]
                          /\ vShrink = v \div p
                          /\ k > 0 => p <= v

\* While the first digit is looked for, the number is below the place after p.
ShiftInv ==
    state = "shift" =>
        /\ printer = "alt_printf"
        /\ v = value /\ value # 0
        /\ from = Len(printed)
        /\ \E k \in Nat : p = Power(16)[k] /\ v < Power(16)[k + 1]

\* What stands before the digits: the first n characters sent.
Lead(n) ==
    /\ \A k \in 1..n : Sent[k] \in {Minus, Space, 0}
    /\ Sign <=> \E k \in 1..n : Sent[k] = Minus
    /\ \A k \in 1..n : Sent[k] < 0 => \A l \in 1..k - 1 : Sent[l] = Space
    /\ \A k \in 1..n : Sent[k] = 0 => fmt.leadingZero
    /\ fmt.leadingZero => \A k \in 1..n : Sent[k] # Space

\* n characters stand before the digits and r digits are still to come: those
\* that were sent read as the number above the places that are left.
Reading(n, r) ==
    /\ n <= Len(Sent)
    /\ Lead(n)
    /\ \A k \in n + 1..Len(Sent) : Sent[k] >= 0
    /\ p = IF r = 0 THEN 0 ELSE Power(fmt.base)[r - 1]
    /\ Reads(fmt.base, Sent) = Shown \div Power(fmt.base)[r]
    /\ v = IF printer = "alt_printf" THEN Shown ELSE Shown % Power(fmt.base)[r]
    /\ Len(Sent) + r > n
    /\ Len(Sent) + r > n + 1 =>
         IF Len(Sent) = n THEN Power(fmt.base)[r - 1] <= Shown ELSE Sent[n + 1] > 0
    /\ Len(Sent) + r >= WidthAsked
    /\ Len(Sent) + r > WidthAsked => \A k \in 1..n : Sent[k] = Minus

DigitsInv ==
    state = "digits" =>
        /\ printer \in {"alt_log_private_printf", "alt_printf"}
        /\ \E n, r \in Nat : Reading(n, r)

PrintInv == /\ PrintTypes /\ DirectiveInv /\ AskedInv
            /\ CountInv /\ ShiftInv /\ DigitsInv

-----------------------------------------------------------------------------
(* Powers. *)

LEMMA PowerIs ==
    ASSUME NEW b \in Nat
    PROVE  /\ Power(b) \in [Nat -> Nat]
           /\ Power(b)[0] = 1
           /\ \A n \in Nat : Power(b)[n + 1] = b * Power(b)[n]
<1> DEFINE step == [ns \in Nat \X Nat |-> b * ns[2]]
<1> DEFINE IsPower(f) == f = [n \in Nat |-> IF n = 0 THEN 1 ELSE b * f[n - 1]]
<1>1. step \in [Nat \X Nat -> Nat]
  OBVIOUS
<1>2. \A n, s \in Nat : step[<<n, s>>] = b * s
  OBVIOUS
<1> HIDE DEF step
<1>3. PICK f \in [Nat -> Nat] : f[0] = 1 /\ \A n \in Nat : f[n + 1] = step[<<n + 1, f[n]>>]
  <2>1. PICK a \in Nat : a = 1
    OBVIOUS
  <2>2. PICK f \in [Nat -> Nat] :
              f[0] = a /\ \A n \in Nat : f[n + 1] = step[<<n + 1, f[n]>>]
    BY <1>1, Recursion
  <2> QED
    BY <2>1, <2>2
<1>4. IsPower(f)
  <2>1. ASSUME NEW n \in Nat
        PROVE  f[n] = IF n = 0 THEN 1 ELSE b * f[n - 1]
    <3>1. CASE n = 0
      BY <3>1, <1>3
    <3>2. CASE n # 0
      <4>1. n - 1 \in Nat /\ (n - 1) + 1 = n
        BY <3>2
      <4>2. f[n - 1] \in Nat
        BY <4>1, <1>3
      <4>3. f[n] = step[<<n, f[n - 1]>>]
        BY <4>1, <1>3
      <4> QED
        BY <4>2, <4>3, <1>2, <3>2
    <3> QED
      BY <3>1, <3>2
  <2> QED
    BY <2>1, <1>3
<1>5. Power(b) = CHOOSE g : IsPower(g)
  BY DEF Power
<1> HIDE DEF IsPower
<1>6. IsPower(Power(b))
  BY <1>4, <1>5
<1> DEFINE g == Power(b)
<1>7. g = [n \in Nat |-> IF n = 0 THEN 1 ELSE b * g[n - 1]]
  BY <1>6 DEF IsPower
<1> HIDE DEF g
<1>8. g[0] = 1
  BY <1>7
<1>9. ASSUME NEW n \in Nat
      PROVE  g[n + 1] = b * g[n]
  <2>1. n + 1 \in Nat /\ n + 1 # 0 /\ (n + 1) - 1 = n
    OBVIOUS
  <2> QED
    BY <2>1, <1>7
<1>10. ASSUME NEW n \in Nat
       PROVE  g[n] \in Nat
  <2> DEFINE T == {k \in Nat : g[k] \in Nat}
  <2>1. 0 \in T
    BY <1>8
  <2>2. ASSUME NEW k \in Nat, k \in T
        PROVE  k + 1 \in T
    BY <2>2, <1>9
  <2> HIDE DEF T
  <2>3. \A k \in Nat : k \in T
    BY <2>1, <2>2, AllNaturals
  <2> QED
    BY <2>3 DEF T
<1>11. g \in [Nat -> Nat]
  BY <1>7, <1>10
<1> QED
  BY <1>8, <1>9, <1>11 DEF g

LEMMA Positive ==
    ASSUME NEW b \in Nat, 1 <= b
    PROVE  \A n \in Nat : Power(b)[n] \in Nat /\ Power(b)[n] >= 1
<1> DEFINE T == {n \in Nat : Power(b)[n] \in Nat /\ Power(b)[n] >= 1}
<1>1. 0 \in T
  <2>1. Power(b)[0] = 1
    BY PowerIs
  <2> QED
    BY <2>1
<1>2. ASSUME NEW n \in Nat, n \in T
      PROVE  n + 1 \in T
  <2> DEFINE x == Power(b)[n]
  <2>1. x \in Nat /\ x >= 1 /\ Power(b)[n + 1] = b * x
    BY <1>2, PowerIs
  <2> HIDE DEF x
  <2>2. b * x \in Nat /\ b * x >= 1
    BY <2>1, SMT
  <2> QED
    BY <2>1, <2>2
<1> HIDE DEF T
<1>3. \A n \in Nat : n \in T
  BY <1>1, <1>2, AllNaturals
<1> QED
  BY <1>3 DEF T

-----------------------------------------------------------------------------
(* What digits mean. *)

\* The number read so far, after each of the characters.
IsReading(number, base, text) ==
    /\ number \in [0..Len(text) -> Nat]
    /\ number[0] = 0
    /\ \A k \in 1..Len(text) :
         number[k] = IF text[k] >= 0 THEN number[k - 1] * base + text[k] ELSE number[k - 1]

LEMMA ReadsIs ==
    ASSUME NEW base \in Nat, NEW text \in Seq(Int)
    PROVE  \E number : /\ IsReading(number, base, text)
                       /\ Reads(base, text) = number[Len(text)]
<1> DEFINE step == [ns \in Nat \X Nat |->
                      IF ns[1] \in 1..Len(text) /\ text[ns[1]] >= 0
                      THEN ns[2] * base + text[ns[1]] ELSE ns[2]]
<1> DEFINE IsNumber(f) ==
             f = [k \in 0..Len(text) |->
                    IF k = 0 THEN 0
                    ELSE IF text[k] >= 0 THEN f[k - 1] * base + text[k] ELSE f[k - 1]]
<1>1. ASSUME NEW n \in Nat, NEW s \in Nat
      PROVE  (IF n \in 1..Len(text) /\ text[n] >= 0 THEN s * base + text[n] ELSE s) \in Nat
  <2>1. n \in 1..Len(text) => text[n] \in Int
    OBVIOUS
  <2> QED
    BY <2>1, SMT
<1>2. step \in [Nat \X Nat -> Nat]
  BY <1>1
<1>3. \A n, s \in Nat : step[<<n, s>>] = IF n \in 1..Len(text) /\ text[n] >= 0
                                         THEN s * base + text[n] ELSE s
  OBVIOUS
<1> HIDE DEF step
<1>4. PICK f \in [Nat -> Nat] : f[0] = 0 /\ \A n \in Nat : f[n + 1] = step[<<n + 1, f[n]>>]
  <2>1. PICK a \in Nat : a = 0
    OBVIOUS
  <2>2. PICK f \in [Nat -> Nat] :
              f[0] = a /\ \A n \in Nat : f[n + 1] = step[<<n + 1, f[n]>>]
    BY <1>2, Recursion
  <2> QED
    BY <2>1, <2>2
<1> DEFINE g == [k \in 0..Len(text) |-> f[k]]
<1>5. ASSUME NEW k \in 1..Len(text)
      PROVE  f[k] = IF text[k] >= 0 THEN f[k - 1] * base + text[k] ELSE f[k - 1]
  <2>1. k \in Nat /\ k - 1 \in Nat /\ (k - 1) + 1 = k
    OBVIOUS
  <2>2. f[k - 1] \in Nat
    BY <2>1, <1>4
  <2>3. f[k] = step[<<k, f[k - 1]>>]
    BY <2>1, <1>4
  <2> QED
    BY <2>1, <2>2, <2>3, <1>3
<1>6. Len(text) \in Nat
  OBVIOUS
<1>7. ASSUME NEW k \in 1..Len(text)
      PROVE  g[k] = IF text[k] >= 0 THEN g[k - 1] * base + text[k] ELSE g[k - 1]
  <2>1. k \in 0..Len(text) /\ k - 1 \in 0..Len(text)
    BY <1>6
  <2>2. g[k] = f[k] /\ g[k - 1] = f[k - 1]
    BY <2>1
  <2> QED
    BY <2>2, <1>5
<1>8. g \in [0..Len(text) -> Nat] /\ g[0] = 0
  BY <1>4, <1>6
<1>9. g = [k \in 0..Len(text) |-> g[k]]
  OBVIOUS
<1> HIDE DEF g
<1>10. IsNumber(g)
  <2>1. ASSUME NEW k \in 0..Len(text)
        PROVE  g[k] = IF k = 0 THEN 0
                      ELSE IF text[k] >= 0 THEN g[k - 1] * base + text[k] ELSE g[k - 1]
    <3>1. k # 0 => k \in 1..Len(text)
      BY <1>6
    <3> QED
      BY <3>1, <1>7, <1>8
  <2> QED
    BY <2>1, <1>9
<1> DEFINE chosen == CHOOSE h : IsNumber(h)
<1>11. Reads(base, text) = chosen[Len(text)]
  BY DEF Reads
<1> HIDE DEF IsNumber
<1>12. IsNumber(chosen)
  BY <1>10
<1> HIDE DEF chosen
<1>13. chosen = [k \in 0..Len(text) |->
                   IF k = 0 THEN 0
                   ELSE IF text[k] >= 0 THEN chosen[k - 1] * base + text[k] ELSE chosen[k - 1]]
  BY <1>12 DEF IsNumber
<1>14. chosen[0] = 0
  BY <1>13, <1>6
<1>15. \A k \in 1..Len(text) :
          chosen[k] = IF text[k] >= 0 THEN chosen[k - 1] * base + text[k] ELSE chosen[k - 1]
  <2> SUFFICES ASSUME NEW k \in 1..Len(text)
               PROVE  chosen[k] = IF text[k] >= 0 THEN chosen[k - 1] * base + text[k]
                                  ELSE chosen[k - 1]
    OBVIOUS
  <2>1. k \in 0..Len(text) /\ k # 0
    BY <1>6
  <2> QED
    BY <1>13, <2>1
<1>16. ASSUME NEW k \in Nat
       PROVE  k <= Len(text) => chosen[k] \in Nat
  <2> DEFINE T == {l \in Nat : l <= Len(text) => chosen[l] \in Nat}
  <2>1. 0 \in T
    BY <1>14
  <2>2. ASSUME NEW l \in Nat, l \in T
        PROVE  l + 1 \in T
    <3> SUFFICES ASSUME l + 1 <= Len(text)
                 PROVE  chosen[l + 1] \in Nat
      OBVIOUS
    <3>1. l + 1 \in 1..Len(text) /\ (l + 1) - 1 = l /\ chosen[l] \in Nat
      BY <2>2, <1>6
    <3>2. text[l + 1] \in Int
      BY <3>1
    <3> DEFINE x == chosen[l]
    <3> DEFINE c == text[l + 1]
    <3>3. chosen[l + 1] = IF c >= 0 THEN x * base + c ELSE x
      BY <3>1, <1>15
    <3>4. x \in Nat /\ c \in Int
      BY <3>1, <3>2
    <3> HIDE DEF x, c
    <3>5. c >= 0 => x * base + c \in Nat
      <4>1. x * base \in Nat
        BY <3>4, SMT
      <4> DEFINE y == x * base
      <4>2. y \in Nat
        BY <4>1
      <4> HIDE DEF y
      <4>3. c >= 0 => y + c \in Nat
        BY <4>2, <3>4
      <4> QED
        BY <4>3 DEF y
    <3> QED
      BY <3>3, <3>4, <3>5
  <2> HIDE DEF T
  <2>3. \A l \in Nat : l \in T
    BY <2>1, <2>2, AllNaturals
  <2> QED
    BY <2>3 DEF T
<1>17. chosen \in [0..Len(text) -> Nat]
  <2>1. \A k \in 0..Len(text) : chosen[k] \in Nat
    BY <1>16
  <2>2. chosen = [k \in 0..Len(text) |-> chosen[k]]
    BY <1>13
  <2> QED
    BY <2>1, <2>2
<1> QED
  BY <1>11, <1>14, <1>15, <1>17 DEF IsReading

\* Two texts that begin alike read alike as far as that.
LEMMA ReadAlike ==
    ASSUME NEW base \in Nat, NEW one \in Seq(Int), NEW two \in Seq(Int),
           NEW f, IsReading(f, base, one), NEW g, IsReading(g, base, two),
           NEW n \in Nat, n <= Len(one), n <= Len(two),
           \A k \in 1..n : one[k] = two[k]
    PROVE  f[n] = g[n]
<1> DEFINE T == {k \in Nat : k <= n => f[k] = g[k]}
<1>1. 0 \in T
  BY DEF IsReading
<1>2. ASSUME NEW k \in Nat, k \in T
      PROVE  k + 1 \in T
  <2> SUFFICES ASSUME k + 1 <= n
               PROVE  f[k + 1] = g[k + 1]
    OBVIOUS
  <2>1. k + 1 \in 1..Len(one) /\ k + 1 \in 1..Len(two) /\ k + 1 \in 1..n /\ (k + 1) - 1 = k
    OBVIOUS
  <2>2. f[k] = g[k] /\ one[k + 1] = two[k + 1]
    BY <1>2, <2>1
  <2>3. f[k + 1] = IF one[k + 1] >= 0 THEN f[k] * base + one[k + 1] ELSE f[k]
    BY <2>1 DEF IsReading
  <2>4. g[k + 1] = IF two[k + 1] >= 0 THEN g[k] * base + two[k + 1] ELSE g[k]
    BY <2>1 DEF IsReading
  <2> QED
    BY <2>2, <2>3, <2>4
<1> HIDE DEF T
<1>3. \A k \in Nat : k \in T
  BY <1>1, <1>2, AllNaturals
<1> QED
  BY <1>3 DEF T

LEMMA ReadsNat ==
    ASSUME NEW base \in Nat, NEW text \in Seq(Int)
    PROVE  Reads(base, text) \in Nat
<1>1. PICK number : IsReading(number, base, text) /\ Reads(base, text) = number[Len(text)]
  BY ReadsIs
<1>2. Len(text) \in 0..Len(text)
  OBVIOUS
<1> QED
  BY <1>1, <1>2 DEF IsReading

LEMMA ReadsAppend ==
    ASSUME NEW base \in Nat, NEW text \in Seq(Int), NEW c \in Int
    PROVE  Reads(base, Append(text, c))
             = IF c >= 0 THEN Reads(base, text) * base + c ELSE Reads(base, text)
<1>1. PICK longer \in Seq(Int) : longer = Append(text, c)
  <2>1. Append(text, c) \in Seq(Int)
    OBVIOUS
  <2> QED
    BY <2>1
<1>2. /\ Len(longer) = Len(text) + 1 /\ longer[Len(longer)] = c
      /\ \A k \in 1..Len(text) : longer[k] = text[k]
  BY <1>1
<1>3. PICK f : IsReading(f, base, text) /\ Reads(base, text) = f[Len(text)]
  BY ReadsIs
<1>4. PICK g : IsReading(g, base, longer) /\ Reads(base, longer) = g[Len(longer)]
  BY ReadsIs
<1>5. PICK n \in Nat : n = Len(text)
  OBVIOUS
<1>6. f[n] = g[n]
  <2>1. n <= Len(text) /\ n <= Len(longer) /\ \A k \in 1..n : text[k] = longer[k]
    BY <1>2, <1>5
  <2> QED
    BY <1>3, <1>4, <2>1, ReadAlike
<1>7. n + 1 \in 1..Len(longer) /\ (n + 1) - 1 = n /\ Len(longer) = n + 1
  BY <1>2, <1>5
<1>8. g[n + 1] = IF longer[n + 1] >= 0 THEN g[n] * base + longer[n + 1] ELSE g[n]
  BY <1>4, <1>7 DEF IsReading
<1> QED
  BY <1>1, <1>2, <1>3, <1>4, <1>5, <1>6, <1>7, <1>8

\* Spaces, signs, zeros and letters mean nothing.
LEMMA ReadsNothing ==
    ASSUME NEW base \in Nat, NEW text \in Seq(Int), \A k \in 1..Len(text) : text[k] <= 0
    PROVE  Reads(base, text) = 0
<1>1. PICK f : IsReading(f, base, text) /\ Reads(base, text) = f[Len(text)]
  BY ReadsIs
<1> DEFINE T == {k \in Nat : k <= Len(text) => f[k] = 0}
<1>2. 0 \in T
  BY <1>1 DEF IsReading
<1>3. ASSUME NEW k \in Nat, k \in T
      PROVE  k + 1 \in T
  <2> SUFFICES ASSUME k + 1 <= Len(text)
               PROVE  f[k + 1] = 0
    OBVIOUS
  <2>1. k + 1 \in 1..Len(text) /\ (k + 1) - 1 = k
    OBVIOUS
  <2>2. f[k] = 0 /\ text[k + 1] \in Int /\ text[k + 1] <= 0
    BY <1>3, <2>1
  <2>3. f[k + 1] = IF text[k + 1] >= 0 THEN f[k] * base + text[k + 1] ELSE f[k]
    BY <1>1, <2>1 DEF IsReading
  <2>4. 0 * base = 0
    OBVIOUS
  <2> QED
    BY <2>2, <2>3, <2>4
<1> HIDE DEF T
<1>4. \A k \in Nat : k \in T
  BY <1>2, <1>3, AllNaturals
<1>5. Len(text) \in T
  BY <1>4
<1> QED
  BY <1>1, <1>5 DEF T

\* One character more of a directive.
LEMMA DotMasked ==
    ASSUME NEW text \in Seq(Int)
    PROVE  /\ BeforeDot(text) \in Seq(Int)
           /\ Len(BeforeDot(text)) = Len(text)
<1>1. \A k \in 1..Len(text) : (IF \E l \in 1..k : text[l] = Dot THEN Dot ELSE text[k]) \in Int
  BY DEF Dot
<1> QED
  BY <1>1 DEF BeforeDot

LEMMA WidthAppend ==
    ASSUME NEW text \in Seq(Int), NEW c \in Int
    PROVE  /\ WidthOf(text) \in Nat
           /\ WidthOf(Append(text, c))
                = IF c >= 0 /\ ~ (\E k \in 1..Len(text) : text[k] = Dot)
                  THEN WidthOf(text) * 10 + c ELSE WidthOf(text)
<1>1. PICK longer \in Seq(Int) : longer = Append(text, c)
  <2>1. Append(text, c) \in Seq(Int)
    OBVIOUS
  <2> QED
    BY <2>1
<1>2. /\ Len(longer) = Len(text) + 1 /\ longer[Len(text) + 1] = c
      /\ \A k \in 1..Len(text) : longer[k] = text[k]
  BY <1>1
<1> DEFINE d == IF \E l \in 1..Len(longer) : longer[l] = Dot THEN Dot ELSE c
<1> DEFINE masked == BeforeDot(text)
<1>3. masked \in Seq(Int) /\ Len(masked) = Len(text)
  BY DotMasked
<1>4. BeforeDot(longer) \in Seq(Int) /\ Len(BeforeDot(longer)) = Len(longer)
  BY DotMasked
<1>5. d \in Int
  BY DEF Dot
<1>6. ASSUME NEW k \in 1..Len(longer)
      PROVE  BeforeDot(longer)[k] = Append(masked, d)[k]
  <2>1. BeforeDot(longer)[k] = IF \E l \in 1..k : longer[l] = Dot THEN Dot ELSE longer[k]
    BY DEF BeforeDot
  <2>2. CASE k = Len(longer)
    <3>1. Append(masked, d)[k] = d
      <4>1. k = Len(masked) + 1
        BY <2>2, <1>2, <1>3
      <4> HIDE DEF masked, d
      <4> QED
        BY <4>1, <1>3, <1>5
    <3>2. longer[k] = c
      BY <2>2, <1>2
    <3> QED
      BY <2>1, <2>2, <3>1, <3>2
  <2>3. CASE k # Len(longer)
    <3>1. k \in 1..Len(text) /\ k \in 1..Len(masked) /\ \A l \in 1..k : l \in 1..Len(text)
      BY <2>3, <1>2, <1>3
    <3>2. Append(masked, d)[k] = masked[k]
      BY <3>1, <1>3
    <3>3. masked[k] = IF \E l \in 1..k : text[l] = Dot THEN Dot ELSE text[k]
      BY <3>1 DEF BeforeDot
    <3>4. \A l \in 1..k : longer[l] = text[l]
      BY <3>1, <1>2
    <3>5. longer[k] = text[k]
      BY <3>1, <1>2
    <3> HIDE DEF masked, d
    <3> QED
      BY <2>1, <3>2, <3>3, <3>4, <3>5
  <2> QED
    BY <2>2, <2>3
<1> HIDE DEF masked
<1>7. Append(masked, d) \in Seq(Int) /\ Len(Append(masked, d)) = Len(masked) + 1
  BY <1>3, <1>5
<1>8. BeforeDot(longer) = Append(masked, d)
  BY <1>2, <1>3, <1>4, <1>6, <1>7, SeqEqual
<1>9. Reads(10, Append(masked, d)) = IF d >= 0 THEN Reads(10, masked) * 10 + d
                                     ELSE Reads(10, masked)
  BY <1>3, <1>5, ReadsAppend
<1>10. Reads(10, masked) \in Nat
  BY <1>3, ReadsNat
<1>11. c >= 0 => ((\E l \in 1..Len(longer) : longer[l] = Dot)
                    <=> \E k \in 1..Len(text) : text[k] = Dot)
  <2> SUFFICES ASSUME c >= 0
               PROVE  (\E l \in 1..Len(longer) : longer[l] = Dot)
                        <=> \E k \in 1..Len(text) : text[k] = Dot
    OBVIOUS
  <2>1. c # Dot
    BY DEF Dot
  <2>2. \A l \in 1..Len(longer) : l \in 1..Len(text) \/ l = Len(text) + 1
    BY <1>2
  <2>3. \A l \in 1..Len(text) : l \in 1..Len(longer)
    BY <1>2
  <2> QED
    BY <1>2, <2>1, <2>2, <2>3
<1>12. ~ (Dot >= 0)
  BY DEF Dot
<1>13. ~ (c >= 0) => ~ (d >= 0)
  BY <1>12
<1>14. d >= 0 <=> c >= 0 /\ ~ (\E k \in 1..Len(text) : text[k] = Dot)
  BY <1>11, <1>12, <1>13
<1>15. d >= 0 => d = c
  BY <1>12
<1> HIDE DEF d
<1> QED
  BY <1>1, <1>8, <1>9, <1>10, <1>14, <1>15 DEF WidthOf, masked

\* A number falls apart at a place and at the place above it.
LEMMA Places ==
    ASSUME NEW a \in Nat, NEW b \in Nat, 1 <= b, NEW n \in Nat
    PROVE  /\ a \div Power(b)[n]
                = (a \div Power(b)[n + 1]) * b + (a % Power(b)[n + 1]) \div Power(b)[n]
           /\ (a % Power(b)[n + 1]) \div Power(b)[n] \in 0..b - 1
           /\ (a % Power(b)[n + 1]) % Power(b)[n] = a % Power(b)[n]
           /\ (a \div Power(b)[n]) \div b = a \div Power(b)[n + 1]
           /\ (a \div Power(b)[n]) % b = (a % Power(b)[n + 1]) \div Power(b)[n]
<1>19. PICK pl \in Nat : pl = Power(b)[n] /\ 1 <= pl
  BY Positive
<1>20. PICK above \in Nat : above = Power(b)[n + 1]
  BY Positive
<1>1. above = b * pl
  BY <1>19, <1>20, PowerIs
<1>2. above >= 1
  BY <1>1, <1>19, SMT
<1>3. PICK q \in Nat : q = a \div above
  BY <1>2, QuotientBounds
<1>4. PICK m \in 0..above - 1 : m = a % above /\ m = a - above * q
  BY <1>2, <1>3, RemainderIs
<1>5. PICK d \in Nat : d = m \div pl /\ pl * d <= m /\ m < pl * d + pl
  <2>1. m \in Nat
    BY <1>4
  <2> QED
    BY <2>1, <1>19, QuotientBounds
<1>6. PICK r \in 0..pl - 1 : r = m % pl /\ r = m - pl * d
  <2>1. m \in Nat
    BY <1>4
  <2> QED
    BY <2>1, <1>5, <1>19, RemainderIs
<1>7. d < b
  <2> SUFFICES ASSUME b <= d
               PROVE  FALSE
    BY <1>5
  <2>1. b * pl <= d * pl
    BY <1>5, ProductsGrow
  <2>2. d * pl = pl * d
    BY <1>5, SMT
  <2> QED
    BY <1>1, <1>4, <1>5, <2>1, <2>2
<1>8. a = (q * b + d) * pl + r /\ q * b + d \in Nat
  <2>1. PICK x \in Nat : x = q * b
    <3>1. q * b \in Nat
      BY <1>3, SMT
    <3> QED
      BY <3>1
  <2>2. (x + d) * pl = x * pl + d * pl
    BY <1>5, Distributes
  <2>3. x * pl = above * q
    BY <1>1, <1>3, <2>1, SMT
  <2>4. d * pl = pl * d
    BY <1>5, SMT
  <2>5. PICK y \in Int : y = above * q
    <3>1. above * q \in Int
      BY <1>1, <1>3, SMT
    <3> QED
      BY <3>1
  <2>6. PICK z \in Int : z = pl * d
    <3>1. pl * d \in Int
      BY <1>5, SMT
    <3> QED
      BY <3>1
  <2>7. (x + d) * pl = y + z
    BY <2>2, <2>3, <2>4, <2>5, <2>6
  <2>8. a = y + z + r
    <3>1. m = a - y /\ r = m - z /\ m \in Int /\ r \in Int
      BY <1>4, <1>6, <2>5, <2>6
    <3> QED
      BY <3>1
  <2>9. x + d \in Nat
    BY <2>1, <1>5
  <2> QED
    BY <2>1, <2>7, <2>8, <2>9
<1>9. a \div pl = q * b + d
  <2>1. PICK c \in Nat : c = q * b + d
    BY <1>8
  <2>2. PICK z \in Int : z = c * pl
    <3>1. c * pl \in Int
      BY <2>1, SMT
    <3> QED
      BY <3>1
  <2>3. z <= a /\ a < z + pl
    BY <1>6, <1>8, <2>1, <2>2
  <2>4. a \div pl = c
    BY <2>1, <2>2, <2>3, QuotientIs
  <2> QED
    BY <2>1, <2>4
<1>10. a % pl = r
  <2>1. PICK c \in Nat : c = q * b + d
    BY <1>8
  <2>2. a % pl = a - pl * c
    <3>1. a \div pl = c
      BY <1>9, <2>1
    <3>2. a % pl = a - pl * (a \div pl)
      BY RemainderIs
    <3> QED
      BY <3>1, <3>2, Zenon
  <2>3. pl * c = c * pl
    BY <2>1, SMT
  <2>4. PICK z \in Int : z = c * pl
    <3>1. c * pl \in Int
      BY <2>1, SMT
    <3> QED
      BY <3>1
  <2> QED
    BY <1>6, <1>8, <2>1, <2>2, <2>3, <2>4
<1>11. (q * b + d) \div b = q /\ (q * b + d) % b = d
  <2>1. PICK x \in Nat : x = q * b
    <3>1. q * b \in Nat
      BY <1>3, SMT
    <3> QED
      BY <3>1
  <2>2. x + d \in Nat /\ x <= x + d /\ x + d < x + b
    BY <2>1, <1>5, <1>7
  <2>3. (x + d) \div b = q
    BY <2>1, <2>2, <1>3, QuotientIs
  <2>4. (x + d) % b = (x + d) - b * q
    BY <2>2, <2>3, RemainderIs
  <2>5. b * q = x
    BY <2>1, <1>3, SMT
  <2> QED
    BY <2>1, <2>3, <2>4, <2>5, <1>5
<1>12. a % above = m /\ a \div above = q
  BY <1>1, <1>3, <1>4, Zenon
<1>13. (a % above) \div pl = d
  BY <1>12, <1>5, Zenon
<1>14. (a % above) % pl = r
  BY <1>12, <1>6, Zenon
<1>15. a \div pl = (a \div above) * b + (a % above) \div pl
  BY <1>9, <1>12, <1>13, Zenon
<1>16. (a \div pl) \div b = a \div above /\ (a \div pl) % b = (a % above) \div pl
  BY <1>9, <1>11, <1>12, <1>13, Zenon
<1>17. (a % above) \div pl \in 0..b - 1
  <2>1. d \in 0..b - 1
    BY <1>5, <1>7
  <2> QED
    BY <2>1, <1>13, Zenon
<1>18. (a % above) % pl = a % pl
  BY <1>10, <1>14, Zenon
<1> QED
  BY <1>15, <1>16, <1>17, <1>18, <1>19, <1>20, Zenon

\* Parts of it, as lemmas of their own.
LEMMA DigitAbove ==
    ASSUME NEW a \in Nat, NEW b \in Nat, 1 <= b, NEW n \in Nat
    PROVE  a \div Power(b)[n]
             = (a \div Power(b)[n + 1]) * b + (a % Power(b)[n + 1]) \div Power(b)[n]
BY Places, Zenon

LEMMA DigitAt ==
    ASSUME NEW a \in Nat, NEW b \in Nat, 1 <= b, NEW n \in Nat
    PROVE  (a \div Power(b)[n]) % b = (a % Power(b)[n + 1]) \div Power(b)[n]
BY Places, Zenon

LEMMA RestBelow ==
    ASSUME NEW a \in Nat, NEW b \in Nat, 1 <= b, NEW n \in Nat
    PROVE  (a % Power(b)[n + 1]) % Power(b)[n] = a % Power(b)[n]
BY Places, Zenon

\* Below the place a number has no quotient; the place below another is its
\* quotient by the base.
LEMMA SmallQuotients ==
    ASSUME NEW a \in Nat, NEW pl \in Nat, 1 <= pl
    PROVE  /\ a \div pl = 0 <=> a < pl
           /\ a < pl => a % pl = a
           /\ a \div 1 = a /\ a % 1 = 0
<1>1. PICK q \in Nat : q = a \div pl /\ pl * q <= a /\ a < pl * q + pl
  BY QuotientBounds
<1>2. q = 0 => pl * q = 0
  BY SMT
<1>3. q >= 1 => pl * q >= pl
  BY <1>1, SMT
<1>4. pl * q \in Int
  BY <1>1, SMT
<1>5. q = 0 <=> a < pl
  BY <1>1, <1>2, <1>3, <1>4
<1>6. a % pl = a - pl * q
  BY <1>1, RemainderIs
<1>7. a \div 1 = a /\ a % 1 = 0
  BY SMT
<1> QED
  BY <1>1, <1>2, <1>5, <1>6, <1>7

LEMMA PlaceBelow ==
    ASSUME NEW b \in Nat, 2 <= b, NEW n \in Nat
    PROVE  Power(b)[n] \div b = IF n = 0 THEN 0 ELSE Power(b)[n - 1]
<1>1. CASE n = 0
  <2>1. Power(b)[n] = 1
    BY <1>1, PowerIs
  <2>2. 1 \div b = 0
    BY SmallQuotients
  <2> QED
    BY <1>1, <2>1, <2>2
<1>2. CASE n # 0
  <2>1. n - 1 \in Nat /\ (n - 1) + 1 = n
    BY <1>2
  <2>2. PICK x \in Nat : x = Power(b)[n - 1]
    BY <2>1, PowerIs
  <2>3. Power(b)[n] = b * x
    BY <2>1, <2>2, PowerIs
  <2>4. PICK y \in Nat : y = b * x
    <3>1. b * x \in Nat
      BY <2>2, SMT
    <3> QED
      BY <3>1
  <2>5. x * b = y
    BY <2>2, <2>4, SMT
  <2>6. y \div b = x
    BY <2>2, <2>4, <2>5, QuotientIs
  <2> QED
    BY <1>2, <2>2, <2>3, <2>4, <2>6
<1> QED
  BY <1>1, <1>2

-----------------------------------------------------------------------------
(* Formats, records and texts. *)

LEMMA FormatFacts ==
    ASSUME NEW f \in Formats
    PROVE  f \in Seq(Int) /\ \A k \in 1..Len(f) : f[k] \in Other..9
<1>1. f \in Seq(Other..9)
  BY PrintAssumption
<1>2. \A k \in 1..Len(f) : f[k] \in Other..9
  BY <1>1, ElementOfSeq
<1>3. Other..9 \subseteq Int
  BY DEF Other
<1> QED
  BY <1>1, <1>2, <1>3

\* A word has at least one digit.
LEMMA WordFacts ==
    /\ NUMBER \in Nat /\ NUMBER >= 16
    /\ NUMBER \div 16 = Power(16)[HEX_DIGITS - 1] /\ HEX_DIGITS - 1 \in Nat
    /\ NUMBER = Power(16)[(HEX_DIGITS - 1) + 1]
<1>1. PICK k \in Nat : k = HEX_DIGITS - 1 /\ k + 1 = HEX_DIGITS
  BY PrintAssumption
<1>2. PICK x \in Nat : x = Power(16)[k] /\ x >= 1
  BY Positive
<1>3. Power(16)[k + 1] = 16 * Power(16)[k]
  BY PowerIs
<1>4. NUMBER = 16 * x /\ NUMBER = Power(16)[k + 1]
  BY <1>1, <1>2, <1>3 DEF NUMBER
<1>5. (16 * x) \div 16 = x /\ 16 * x \in Nat /\ 16 * x >= 16
  BY <1>2, SMT
<1>6. NUMBER \div 16 = x /\ NUMBER \in Nat /\ NUMBER >= 16
  BY <1>4, <1>5, Zenon
<1> QED
  BY <1>1, <1>2, <1>4, <1>6, Zenon

LEMMA ShownFacts ==
    ASSUME PrintTypes
    PROVE  /\ Shown \in Nat /\ Shown < NUMBER
           /\ Sign \in BOOLEAN
           /\ Sign => Shown = NUMBER - value
           /\ ~ Sign => Shown = value
<1>1. value \in 0..NUMBER - 1 /\ fmt.signed \in BOOLEAN
  BY DEF PrintTypes, Fmt
<1>2. NUMBER \in Nat /\ NUMBER >= 16
  BY WordFacts
<1>3. Sign \in BOOLEAN
  BY <1>1 DEF Sign, SignBit
<1>4. ASSUME Sign
      PROVE  Shown = NUMBER - value /\ NUMBER - value \in 1..NUMBER - 1
  <2>1. value >= NUMBER \div 2
    BY <1>4 DEF Sign, SignBit
  <2>2. NUMBER \div 2 >= 8
    BY <1>2, SMT
  <2>3. NUMBER \div 2 \in Int
    BY <1>2, SMT
  <2>4. NUMBER - value \in 1..NUMBER - 1
    BY <1>1, <1>2, <2>1, <2>2, <2>3
  <2>5. PICK a \in Nat : a = NUMBER - value /\ a < NUMBER
    BY <1>1, <1>2, <2>4
  <2>6. a % NUMBER = a
    BY <1>2, <2>5, SmallQuotients
  <2> QED
    BY <1>4, <2>4, <2>5, <2>6 DEF Shown, Negated
<1>5. ~ Sign => Shown = value
  BY DEF Shown
<1>6. CASE Sign
  BY <1>1, <1>2, <1>3, <1>4, <1>6
<1>7. CASE ~ Sign
  BY <1>1, <1>2, <1>3, <1>5, <1>7
<1> QED
  BY <1>3, <1>6, <1>7

\* The parts of fmt change one at a time.
LEMMA FmtFacts ==
    ASSUME NEW f \in Fmt
    PROVE  /\ f.base \in {8, 10, 16} /\ f.signed \in BOOLEAN /\ f.leadingZero \in BOOLEAN
           /\ f.before \in Int /\ f.after \in Int
           /\ \A x \in Int : /\ [f EXCEPT !.before = x] \in Fmt
                             /\ [f EXCEPT !.before = x].base = f.base
                             /\ [f EXCEPT !.before = x].signed = f.signed
                             /\ [f EXCEPT !.before = x].leadingZero = f.leadingZero
                             /\ [f EXCEPT !.before = x].before = x
                             /\ [f EXCEPT !.before = x].after = f.after
           /\ \A x \in Int : /\ [f EXCEPT !.after = x] \in Fmt
                             /\ [f EXCEPT !.after = x].leadingZero = f.leadingZero
                             /\ [f EXCEPT !.after = x].before = f.before
                             /\ [f EXCEPT !.after = x].after = x
           /\ /\ [f EXCEPT !.leadingZero = TRUE] \in Fmt
              /\ [f EXCEPT !.leadingZero = TRUE].before = f.before
              /\ [f EXCEPT !.leadingZero = TRUE].after = f.after
           /\ \A s \in BOOLEAN, b \in {8, 10, 16} :
                /\ [f EXCEPT !.signed = s, !.base = b] \in Fmt
                /\ [f EXCEPT !.signed = s, !.base = b].base = b
                /\ [f EXCEPT !.signed = s, !.base = b].signed = s
                /\ [f EXCEPT !.signed = s, !.base = b].leadingZero = f.leadingZero
                /\ [f EXCEPT !.signed = s, !.base = b].before = f.before
                /\ [f EXCEPT !.signed = s, !.base = b].after = f.after
BY DEF Fmt

LEMMA NoFmtFacts ==
    /\ NoFmt \in Fmt
    /\ NoFmt.before = -1 /\ NoFmt.after = -1 /\ NoFmt.leadingZero = FALSE
BY DEF NoFmt, Fmt

\* A part of a text, and the same with the next character.
LEMMA PartFacts ==
    ASSUME NEW text \in Seq(Int), NEW o \in Nat, NEW n \in Nat, o <= n, n <= Len(text)
    PROVE  /\ SubSeq(text, o + 1, n) \in Seq(Int)
           /\ Len(SubSeq(text, o + 1, n)) = n - o
           /\ \A k \in 1..n - o : SubSeq(text, o + 1, n)[k] = text[o + k]
<1>1. \A k \in o + 1..n : text[k] \in Int
  OBVIOUS
<1>2. o + 1 \in Int /\ n \in Int /\ n - (o + 1) + 1 = n - o /\ (o + 1 <= n <=> n - o # 0)
  OBVIOUS
<1>3. \A k \in Int : (o + 1) + k - 1 = o + k
  OBVIOUS
<1>4. /\ SubSeq(text, o + 1, n) \in Seq(Int)
      /\ Len(SubSeq(text, o + 1, n)) = IF o + 1 <= n THEN n - (o + 1) + 1 ELSE 0
      /\ \A k \in 1..n - (o + 1) + 1 : SubSeq(text, o + 1, n)[k] = text[(o + 1) + k - 1]
  BY <1>1, <1>2, SubSeqProperties
<1>5. Len(SubSeq(text, o + 1, n)) = n - o
  <2>1. CASE o + 1 <= n
    BY <2>1, <1>2, <1>4
  <2>2. CASE ~ (o + 1 <= n)
    BY <2>2, <1>2, <1>4
  <2> QED
    BY <2>1, <2>2
<1>6. ASSUME NEW k \in 1..n - o
      PROVE  SubSeq(text, o + 1, n)[k] = text[o + k]
  <2>1. k \in 1..n - (o + 1) + 1 /\ (o + 1) + k - 1 = o + k
    BY <1>2
  <2>2. SubSeq(text, o + 1, n)[k] = text[(o + 1) + k - 1]
    BY <1>4, <2>1
  <2> QED
    BY <2>1, <2>2
<1> QED
  BY <1>4, <1>5, <1>6

LEMMA PartGrows ==
    ASSUME NEW text \in Seq(Int), NEW o \in Nat, NEW n \in Nat, o <= n, n + 1 <= Len(text)
    PROVE  SubSeq(text, o + 1, n + 1) = Append(SubSeq(text, o + 1, n), text[n + 1])
<1>1. PICK c \in Int : c = text[n + 1]
  OBVIOUS
<1>2. PICK m \in Nat : m = n + 1 /\ m - o = (n - o) + 1 /\ o <= m /\ m <= Len(text)
  OBVIOUS
<1>3. PICK part \in Seq(Int) : /\ part = SubSeq(text, o + 1, n)
                               /\ Len(part) = n - o
                               /\ \A k \in 1..n - o : part[k] = text[o + k]
  <2>1. n <= Len(text)
    OBVIOUS
  <2> QED
    BY <2>1, PartFacts
<1>4. PICK longer \in Seq(Int) : /\ longer = SubSeq(text, o + 1, m)
                                 /\ Len(longer) = m - o
                                 /\ \A k \in 1..m - o : longer[k] = text[o + k]
  <2>1. /\ SubSeq(text, o + 1, m) \in Seq(Int)
        /\ Len(SubSeq(text, o + 1, m)) = m - o
        /\ \A k \in 1..m - o : SubSeq(text, o + 1, m)[k] = text[o + k]
    BY <1>2, PartFacts
  <2> QED
    BY <2>1
<1>5. PICK other \in Seq(Int) : other = Append(part, c)
  <2>1. Append(part, c) \in Seq(Int)
    BY <1>1
  <2> QED
    BY <2>1
<1>6. Len(other) = Len(part) + 1 /\ other[Len(part) + 1] = c
      /\ \A k \in 1..Len(part) : other[k] = part[k]
  BY <1>5, <1>1
<1>7. ASSUME NEW k \in 1..Len(longer)
      PROVE  longer[k] = other[k]
  <2>1. CASE k = m - o
    <3>1. longer[k] = text[o + k] /\ o + k = n + 1 /\ k = Len(part) + 1
      BY <1>2, <1>3, <1>4, <2>1
    <3> QED
      BY <3>1, <1>1, <1>6
  <2>2. CASE k # m - o
    <3>1. k \in 1..n - o /\ k \in 1..m - o /\ k \in 1..Len(part)
      BY <1>2, <1>3, <1>4, <2>2
    <3> QED
      BY <3>1, <1>3, <1>4, <1>6
  <2> QED
    BY <2>1, <2>2
<1>8. Len(longer) = Len(other)
  BY <1>2, <1>3, <1>4, <1>6
<1>9. longer = other
  BY <1>7, <1>8, SeqEqual
<1> QED
  BY <1>1, <1>2, <1>3, <1>4, <1>5, <1>9

\* The percent sign a directive began with.
LEMMA OpenedIs ==
    ASSUME NEW f, NEW n \in Int, NEW o \in 1..n, f[o] = Percent,
           \A l \in o + 1..n : f[l] # Percent
    PROVE  (CHOOSE q \in 1..n : f[q] = Percent /\ \A l \in q + 1..n : f[l] # Percent) = o
<1>1. ASSUME NEW q \in 1..n, f[q] = Percent, \A l \in q + 1..n : f[l] # Percent
      PROVE  q = o
  <2>1. q < o => o \in q + 1..n
    OBVIOUS
  <2>2. o < q => q \in o + 1..n
    OBVIOUS
  <2> QED
    BY <1>1, <2>1, <2>2
<1> QED
  BY <1>1

LEMMA RepeatFacts ==
    ASSUME NEW c \in Int, NEW r \in Int
    PROVE  /\ Repeat(c, r) \in Seq(Int)
           /\ Len(Repeat(c, r)) = IF r > 0 THEN r ELSE 0
           /\ \A k \in 1..Len(Repeat(c, r)) : Repeat(c, r)[k] = c
<1>1. PICK n \in Nat : n = IF r > 0 THEN r ELSE 0
  <2>1. (IF r > 0 THEN r ELSE 0) \in Nat
    OBVIOUS
  <2> QED
    BY <2>1
<1>2. 1..r = 1..n
  BY <1>1
<1>3. Repeat(c, r) = [k \in 1..n |-> c]
  BY <1>2 DEF Repeat
<1>4. [k \in 1..n |-> c] \in Seq(Int) /\ Len([k \in 1..n |-> c]) = n
  OBVIOUS
<1>5. \A k \in 1..n : [l \in 1..n |-> c][k] = c
  OBVIOUS
<1> QED
  BY <1>1, <1>3, <1>4, <1>5

LEMMA SendFacts ==
    ASSUME PrintTypes, NEW text \in Seq(Int), Sends(text)
    PROVE  printed' \in Seq(Int) /\ from \in 0..Len(printed')
<1>1. printed \in Seq(Int) /\ from \in 0..Len(printed)
  BY DEF PrintTypes
<1>2. printed' = printed \o text
  BY DEF Sends
<1>3. printed \o text \in Seq(Int) /\ Len(printed \o text) = Len(printed) + Len(text)
  BY <1>1
<1>4. Len(text) \in Nat /\ Len(printed) \in Nat
  BY <1>1
<1> QED
  BY <1>1, <1>2, <1>3, <1>4

-----------------------------------------------------------------------------
(* The characters of a format. *)

LEMMA PrintStart == PrintInit => PrintInv
<1> SUFFICES ASSUME PrintInit
             PROVE  PrintInv
  OBVIOUS
<1>1. state = "idle" /\ format = <<>> /\ w = 1 /\ printed = <<>> /\ from = 0
  BY DEF PrintInit
<1>2. fmt \in Fmt /\ v = 0 /\ p = 0 /\ vShrink = 0 /\ digitCount = 0 /\ value = 0
      /\ printer = "none"
  BY NoFmtFacts DEF PrintInit
<1>3. Len(format) = 0 /\ format \in Seq(Int) /\ printed \in Seq(Int) /\ Len(printed) = 0
  BY <1>1
<1>4. value \in 0..NUMBER - 1
  BY <1>2, WordFacts
<1>5. PrintTypes
  BY <1>1, <1>2, <1>3, <1>4 DEF PrintTypes
<1> QED
  BY <1>1, <1>5 DEF PrintInv, DirectiveInv, AskedInv, Printing, CountInv, ShiftInv, DigitsInv

\* Outside of directives there is nothing to keep but the types.
LEMMA Quiet ==
    ASSUME PrintTypes', state' \in {"idle", "chars"}
    PROVE  PrintInv'
BY DEF PrintInv, DirectiveInv, AskedInv, Printing, CountInv, ShiftInv, DigitsInv

\* What the taking of a character leaves alone.
LEMMA TakenTypes ==
    ASSUME PrintTypes, NEW at, NEW c, Takes(at, c), fmt' \in Fmt,
           printed' \in Seq(Int), from \in 0..Len(printed'),
           state' \in {"chars", "first", "other", "start"}
    PROVE  /\ PrintTypes'
           /\ state = at /\ w \in Nat /\ w >= 1 /\ w <= Len(format) /\ c = format[w]
           /\ c \in Other..9 /\ c \in Int
           /\ w' = w + 1 /\ w' - 1 = w /\ format' = format /\ printer' = printer
<1>1. /\ state = at /\ w <= Len(format) /\ c = format[w] /\ w' = w + 1
      /\ printer' = printer /\ format' = format /\ value' = value /\ from' = from
      /\ v' = v /\ p' = p /\ vShrink' = vShrink /\ digitCount' = digitCount
  BY DEF Takes, digit_vars
<1>2. /\ printer \in {"none", "alt_log_private_printf", "alt_printf"}
      /\ format \in Seq(Int) /\ w \in 1..Len(format) + 1
      /\ \A k \in 1..Len(format) : format[k] \in Other..9
      /\ v \in Nat /\ p \in Nat /\ vShrink \in Nat /\ digitCount \in Nat
      /\ value \in 0..NUMBER - 1
  BY DEF PrintTypes
<1>3. w \in 1..Len(format) /\ w + 1 \in 1..Len(format) + 1 /\ (w + 1) - 1 = w
  BY <1>1, <1>2
<1>4. c \in Other..9 /\ c \in Int
  BY <1>1, <1>2, <1>3
<1>5. PrintTypes'
  BY <1>1, <1>2, <1>3 DEF PrintTypes
<1> QED
  BY <1>1, <1>3, <1>4, <1>5

LEMMA CallPrintfKept == PrintInv /\ CallPrintf => PrintInv'
<1> SUFFICES ASSUME PrintInv, CallPrintf
             PROVE  PrintInv'
  OBVIOUS
<1>1. PrintTypes
  BY DEF PrintInv
<1>2. /\ state' = "chars" /\ w' = w /\ fmt' = fmt /\ v' = v /\ p' = p
      /\ vShrink' = vShrink /\ digitCount' = digitCount
      /\ printed' = printed /\ from' = from
      /\ state = "idle"
      /\ printer' \in {"alt_log_private_printf", "alt_printf"}
      /\ format' \in Formats /\ value' \in Values
  BY DEF CallPrintf, digit_vars
<1>3. value' \in 0..NUMBER - 1
  BY <1>2, PrintAssumption
<1>4. format' \in Seq(Int) /\ \A k \in 1..Len(format') : format'[k] \in Other..9
  BY <1>2, FormatFacts
<1>5. w' \in 1..Len(format') + 1
  <2>1. w' = 1 /\ Len(format') \in Nat
    BY <1>1, <1>2, <1>4 DEF PrintTypes
  <2> QED
    BY <2>1
<1>6. PrintTypes'
  BY <1>1, <1>2, <1>3, <1>4, <1>5 DEF PrintTypes
<1> QED
  BY <1>2, <1>6, Quiet

LEMMA OtherCharKept == PrintInv /\ OtherChar => PrintInv'
<1> SUFFICES ASSUME PrintInv, OtherChar
             PROVE  PrintInv'
  OBVIOUS
<1>1. PICK c \in Other..9 : Takes("chars", c) /\ Sends(<<c>>) /\ state' = state /\ fmt' = fmt
  BY DEF OtherChar
<1>2. PrintTypes /\ fmt' \in Fmt /\ state' = "chars"
  BY <1>1 DEF PrintInv, PrintTypes, Takes
<1>3. <<c>> \in Seq(Int)
  BY DEF Other
<1>4. printed' \in Seq(Int) /\ from \in 0..Len(printed')
  BY <1>1, <1>2, <1>3, SendFacts
<1>5. PrintTypes'
  BY <1>1, <1>2, <1>4, TakenTypes
<1> QED
  BY <1>2, <1>5, Quiet

LEMMA PercentAgainKept == PrintInv /\ PercentAgain => PrintInv'
<1> SUFFICES ASSUME PrintInv, PercentAgain
             PROVE  PrintInv'
  OBVIOUS
<1>1. Takes("first", Percent) /\ Sends(<<Percent>>) /\ state' = "chars" /\ fmt' = fmt
  BY DEF PercentAgain
<1>2. PrintTypes /\ fmt' \in Fmt
  BY <1>1 DEF PrintInv, PrintTypes
<1>3. <<Percent>> \in Seq(Int)
  BY DEF Percent
<1>4. printed' \in Seq(Int) /\ from \in 0..Len(printed')
  BY <1>1, <1>2, <1>3, SendFacts
<1>5. PrintTypes'
  BY <1>1, <1>2, <1>4, TakenTypes
<1> QED
  BY <1>1, <1>5, Quiet

LEMMA PercentCharKept == PrintInv /\ PercentChar => PrintInv'
<1> SUFFICES ASSUME PrintInv, PercentChar
             PROVE  PrintInv'
  OBVIOUS
<1>1. Takes("chars", Percent) /\ state' = "first" /\ fmt' = NoFmt /\ printed' = printed
  BY DEF PercentChar
<1>2. PrintTypes /\ fmt' \in Fmt /\ printed' \in Seq(Int) /\ from \in 0..Len(printed')
  BY <1>1, NoFmtFacts DEF PrintInv, PrintTypes
<1>3. /\ PrintTypes'
      /\ w \in Nat /\ w >= 1 /\ w <= Len(format) /\ Percent = format[w]
      /\ w' = w + 1 /\ w' - 1 = w /\ format' = format
  BY <1>1, <1>2, TakenTypes
<1>9. PICK o \in Nat : o = w
  BY <1>3
<1>4. /\ fmt'.before < 0 /\ ~ (fmt'.after >= 0) /\ fmt'.leadingZero = FALSE
  BY <1>1, NoFmtFacts
<1>5. WidthOf(Sought(o))' = 0
  <2>1. Sought(o)' = SubSeq(format, w + 1, w)
    BY <1>3, <1>9 DEF Sought
  <2>2. format \in Seq(Int)
    BY <1>2 DEF PrintTypes
  <2>3. SubSeq(format, w + 1, w) \in Seq(Int) /\ Len(SubSeq(format, w + 1, w)) = 0
    <3>1. w - w = 0 /\ w <= w
      BY <1>3
    <3> QED
      BY <3>1, <2>2, <1>3, PartFacts
  <2>4. PICK text \in Seq(Int) : text = SubSeq(format, w + 1, w) /\ Len(text) = 0
    BY <2>3
  <2>5. Reads(10, BeforeDot(text)) = 0
    <3>1. BeforeDot(text) \in Seq(Int) /\ Len(BeforeDot(text)) = 0
      BY <2>4, DotMasked
    <3>2. \A k \in 1..Len(BeforeDot(text)) : BeforeDot(text)[k] <= 0
      BY <3>1
    <3> QED
      BY <3>1, <3>2, ReadsNothing
  <2> QED
    BY <2>1, <2>4, <2>5 DEF WidthOf
<1>6. \A l \in w + 1..w : FALSE
  BY <1>3
<1>7. Begun(o)'
  BY <1>1, <1>3, <1>4, <1>5, <1>6, <1>9 DEF Begun
<1>8. o \in 1..w' - 1
  BY <1>3, <1>9
<1> QED
  BY <1>1, <1>3, <1>7, <1>8
     DEF PrintInv, DirectiveInv, AskedInv, Printing, CountInv, ShiftInv, DigitsInv

LEMMA PrintfReturnsKept == PrintInv /\ PrintfReturns => PrintInv'
<1> SUFFICES ASSUME PrintInv, PrintfReturns
             PROVE  PrintInv'
  OBVIOUS
<1>1. state' = "idle" /\ format' = <<>> /\ w' = 1 /\ printed' = <<>> /\ from' = 0
  BY DEF PrintfReturns
<1>2. fmt' \in Fmt /\ v' = 0 /\ p' = 0 /\ vShrink' = 0 /\ digitCount' = 0 /\ value' = 0
      /\ printer' = "none"
  BY NoFmtFacts DEF PrintfReturns
<1>3. Len(format') = 0 /\ format' \in Seq(Int) /\ printed' \in Seq(Int) /\ Len(printed') = 0
  BY <1>1
<1>4. value' \in 0..NUMBER - 1
  BY <1>2, WordFacts
<1>5. PrintTypes'
  BY <1>1, <1>2, <1>3, <1>4 DEF PrintTypes
<1> QED
  BY <1>1, <1>5, Quiet

-----------------------------------------------------------------------------
(* Directives. *)

\* The state in which a character of a directive is met, and where it began.
LEMMA DirectiveFacts ==
    ASSUME PrintInv, NEW c, Directive(c)
    PROVE  /\ c # Percent \/ state = "other"
           /\ state \in {"first", "other"}
           /\ Takes(state, c)
           /\ state = "other" => printer = "alt_log_private_printf"
           /\ \E o \in 1..w - 1 : Begun(o)
<1>1. state \in {"first", "other"} /\ Takes(state, c) /\ (c # Percent \/ state = "other")
  BY DEF Directive, Takes
<1>2. \E o \in 1..w - 1 : Begun(o)
  BY <1>1 DEF PrintInv, DirectiveInv
<1>3. state = "other" => printer = "alt_log_private_printf"
  BY <1>2 DEF Begun
<1> QED
  BY <1>1, <1>2, <1>3

LEMMA TextKept == PrintInv /\ Text => PrintInv'
<1> SUFFICES ASSUME PrintInv, Text
             PROVE  PrintInv'
  OBVIOUS
<1> DEFINE text(c) == Repeat(Other, IF c = Ess THEN 2 ELSE 1)
<1> DEFINE pad(c) == IF printer = "alt_printf" THEN <<>>
                     ELSE Repeat(Space, fmt.before - Len(text(c)))
<1>1. PICK c \in {Cee, Ess} : /\ Directive(c) /\ Sends(pad(c) \o text(c))
                              /\ state' = "chars" /\ fmt' = fmt
  BY DEF Text
<1>2. PrintTypes /\ fmt' \in Fmt /\ fmt.before \in Int
  BY <1>1 DEF PrintInv, PrintTypes, Fmt
<1>3. text(c) \in Seq(Int) /\ Len(text(c)) \in Int
  <2>1. (IF c = Ess THEN 2 ELSE 1) \in Int /\ Other \in Int
    BY DEF Other
  <2>2. text(c) \in Seq(Int)
    BY <2>1, RepeatFacts
  <2> HIDE DEF text
  <2> QED
    BY <2>2
<1>4. pad(c) \in Seq(Int)
  <2>1. fmt.before - Len(text(c)) \in Int /\ Space \in Int
    <3> HIDE DEF text
    <3> QED
      BY <1>2, <1>3 DEF Space
  <2>2. Repeat(Space, fmt.before - Len(text(c))) \in Seq(Int)
    BY <2>1, RepeatFacts
  <2>3. <<>> \in Seq(Int)
    OBVIOUS
  <2> QED
    BY <2>2, <2>3
<1> HIDE DEF text, pad
<1>5. pad(c) \o text(c) \in Seq(Int)
  BY <1>3, <1>4
<1>6. printed' \in Seq(Int) /\ from \in 0..Len(printed')
  BY <1>1, <1>2, <1>5, SendFacts
<1>7. Takes(state, c)
  BY <1>1, DirectiveFacts
<1>8. PrintTypes'
  BY <1>1, <1>2, <1>6, <1>7, TakenTypes
<1> QED
  BY <1>1, <1>8, Quiet

LEMMA UnknownKept == PrintInv /\ Unknown => PrintInv'
<1> SUFFICES ASSUME PrintInv, Unknown
             PROVE  PrintInv'
  OBVIOUS
<1>1. PICK c \in Other..9 : /\ Directive(c)
                            /\ state' = "chars" /\ fmt' = fmt /\ printed' = printed
  BY DEF Unknown
<1>2. PrintTypes /\ fmt' \in Fmt /\ printed' \in Seq(Int) /\ from \in 0..Len(printed')
  BY <1>1 DEF PrintInv, PrintTypes
<1>3. Takes(state, c)
  BY <1>1, DirectiveFacts
<1>4. PrintTypes'
  BY <1>1, <1>2, <1>3, TakenTypes
<1> QED
  BY <1>1, <1>4, Quiet

\* One character more.
LEMMA OneMoreChar ==
    ASSUME PrintTypes, NEW o \in 1..w - 1, w <= Len(format), format' = format, w' = w + 1
    PROVE  /\ WidthOf(Sought(o)) \in Nat
           /\ WidthOf(Sought(o))'
                = IF format[w] >= 0 /\ ~ (\E l \in o + 1..w - 1 : format[l] = Dot)
                  THEN WidthOf(Sought(o)) * 10 + format[w] ELSE WidthOf(Sought(o))
<1>1. format \in Seq(Int) /\ w \in 1..Len(format)
  BY DEF PrintTypes
<1>2. PICK n \in Nat : n = w - 1
  BY <1>1
<1>3. n + 1 = w /\ o \in Nat /\ o <= n /\ n + 1 <= Len(format) /\ n <= Len(format)
      /\ w' - 1 = n + 1
  BY <1>1, <1>2
<1>4. PICK c \in Int : c = format[n + 1]
  BY <1>1, <1>3
<1>5. PICK text \in Seq(Int) : /\ text = SubSeq(format, o + 1, n)
                               /\ Len(text) = n - o
                               /\ \A k \in 1..n - o : text[k] = format[o + k]
  <2>1. /\ SubSeq(format, o + 1, n) \in Seq(Int)
        /\ Len(SubSeq(format, o + 1, n)) = n - o
        /\ \A k \in 1..n - o : SubSeq(format, o + 1, n)[k] = format[o + k]
    BY <1>1, <1>3, PartFacts
  <2> QED
    BY <2>1
<1>6. SubSeq(format, o + 1, n + 1) = Append(text, c)
  BY <1>1, <1>3, <1>4, <1>5, PartGrows
<1>7. Sought(o) = text
  BY <1>2, <1>5 DEF Sought
<1>8. Sought(o)' = Append(text, c)
  BY <1>3, <1>6 DEF Sought
<1>9. (\E k \in 1..Len(text) : text[k] = Dot) <=> \E l \in o + 1..w - 1 : format[l] = Dot
  <2>1. ASSUME NEW k \in 1..Len(text), text[k] = Dot
        PROVE  \E l \in o + 1..w - 1 : format[l] = Dot
    <3>1. o + k \in o + 1..w - 1 /\ text[k] = format[o + k]
      BY <1>3, <1>5
    <3> QED
      BY <2>1, <3>1
  <2>2. ASSUME NEW l \in o + 1..w - 1, format[l] = Dot
        PROVE  \E k \in 1..Len(text) : text[k] = Dot
    <3>1. l - o \in 1..n - o /\ o + (l - o) = l
      BY <1>3
    <3>2. text[l - o] = format[l]
      BY <1>5, <3>1
    <3> QED
      BY <1>5, <2>2, <3>1, <3>2
  <2> QED
    BY <2>1, <2>2
<1>10. /\ WidthOf(text) \in Nat
       /\ WidthOf(Append(text, c))
            = IF c >= 0 /\ ~ (\E k \in 1..Len(text) : text[k] = Dot)
              THEN WidthOf(text) * 10 + c ELSE WidthOf(text)
  BY WidthAppend
<1>11. WidthOf(Sought(o))' = WidthOf(Append(text, c))
  BY <1>8 DEF WidthOf
<1>12. c = format[w]
  BY <1>3, <1>4
<1> QED
  BY <1>7, <1>9, <1>10, <1>11, <1>12, Zenon

\* A flag or a digit of the width: the directive goes on.
LEMMA GoesOn ==
    ASSUME PrintTypes, NEW o \in 1..w - 1, Begun(o), PrintTypes', state' = "other",
           printer' = "alt_log_private_printf", format' = format, w' = w + 1,
           w <= Len(format), format[w] # Percent,
           fmt'.leadingZero <=> fmt.leadingZero \/ (o = w - 1 /\ format[w] = 0),
           (fmt'.after >= 0) <=> (fmt.after >= 0 \/ format[w] = Dot),
           NEW before, before = IF fmt.before < 0 THEN 0 ELSE fmt.before,
           (IF fmt'.before < 0 THEN 0 ELSE fmt'.before)
             = IF format[w] >= 0 /\ ~ (fmt.after >= 0) THEN before * 10 + format[w] ELSE before
    PROVE  PrintInv'
<1>1. w \in Nat /\ w >= 1 /\ w' - 1 = w /\ o \in Nat /\ o + 1 <= w
  BY DEF PrintTypes
<1>2. \A l \in o + 1..w : l = w \/ l \in o + 1..w - 1
  BY <1>1
<1>3. w \in o + 1..w /\ \A l \in o + 1..w - 1 : l \in o + 1..w
  BY <1>1
<1>4. /\ format[o] = Percent
      /\ \A l \in o + 1..w - 1 : format[l] # Percent
      /\ fmt.leadingZero <=> o < w - 1 /\ format[o + 1] = 0
      /\ fmt.after >= 0 <=> \E l \in o + 1..w - 1 : format[l] = Dot
      /\ IF fmt.before < 0 THEN WidthOf(Sought(o)) = 0 ELSE fmt.before = WidthOf(Sought(o))
  BY DEF Begun
<1>5. /\ WidthOf(Sought(o)) \in Nat
      /\ WidthOf(Sought(o))'
           = IF format[w] >= 0 /\ ~ (\E l \in o + 1..w - 1 : format[l] = Dot)
             THEN WidthOf(Sought(o)) * 10 + format[w] ELSE WidthOf(Sought(o))
  BY OneMoreChar
<1>6. WidthOf(Sought(o)) = IF fmt.before < 0 THEN 0 ELSE fmt.before
  BY <1>4
<1>7. WidthOf(Sought(o))' = IF fmt'.before < 0 THEN 0 ELSE fmt'.before
  BY <1>4, <1>5, <1>6, Zenon
<1>8. \A l \in o + 1..w : format[l] # Percent
  BY <1>2, <1>4
<1>9. fmt'.after >= 0 <=> \E l \in o + 1..w : format[l] = Dot
  BY <1>2, <1>3, <1>4
<1>10. fmt'.leadingZero <=> o < w /\ format[o + 1] = 0
  <2>1. CASE o = w - 1
    <3>1. o + 1 = w /\ o < w /\ ~ (o < w - 1)
      BY <1>1, <2>1
    <3> QED
      BY <1>4, <2>1, <3>1
  <2>2. CASE o # w - 1
    <3>1. o < w /\ o < w - 1
      BY <1>1, <2>2
    <3> QED
      BY <1>4, <2>2, <3>1
  <2> QED
    BY <2>1, <2>2
<1>11. o < w /\ o \in 1..w' - 1
  BY <1>1
<1>12. IF fmt'.before < 0 THEN WidthOf(Sought(o))' = 0 ELSE fmt'.before = WidthOf(Sought(o))'
  BY <1>7
<1>13. state' # "first"
  OBVIOUS
<1>14. Begun(o)'
  <2>1. format'[o] = Percent /\ \A l \in o + 1..w' - 1 : format'[l] # Percent
    BY <1>1, <1>4, <1>8
  <2>2. fmt'.leadingZero <=> o < w' - 1 /\ format'[o + 1] = 0
    BY <1>1, <1>10
  <2>3. fmt'.after >= 0 <=> \E l \in o + 1..w' - 1 : format'[l] = Dot
    BY <1>1, <1>9
  <2>4. o < w' - 1
    BY <1>1, <1>11
  <2> QED
    BY <1>12, <1>13, <2>1, <2>2, <2>3, <2>4, Zenon DEF Begun
<1> QED
  BY <1>11, <1>14
     DEF PrintInv, DirectiveInv, AskedInv, Printing, CountInv, ShiftInv, DigitsInv

LEMMA FirstZeroKept == PrintInv /\ FirstZero => PrintInv'
<1> SUFFICES ASSUME PrintInv, FirstZero
             PROVE  PrintInv'
  OBVIOUS
<1>1. /\ printer = "alt_log_private_printf" /\ Takes("first", 0)
      /\ fmt' = [fmt EXCEPT !.leadingZero = TRUE]
      /\ state' = "other" /\ printed' = printed
  BY DEF FirstZero
<1>2. PrintTypes /\ fmt \in Fmt /\ printed' \in Seq(Int) /\ from \in 0..Len(printed')
  BY <1>1 DEF PrintInv, PrintTypes
<1>3. /\ fmt' \in Fmt /\ fmt'.before = fmt.before /\ fmt'.after = fmt.after
      /\ fmt.before \in Int
  BY <1>1, <1>2, FmtFacts
<1>4. /\ PrintTypes' /\ state = "first"
      /\ w \in Nat /\ w <= Len(format) /\ 0 = format[w]
      /\ w' = w + 1 /\ format' = format /\ printer' = printer
  BY <1>1, <1>2, <1>3, TakenTypes
<1>5. PICK o \in 1..w - 1 : Begun(o)
  BY <1>4 DEF PrintInv, DirectiveInv
<1>6. o = w - 1
  BY <1>4, <1>5 DEF Begun
<1>7. WidthOf(Sought(o)) = 0
  <2>1. w = o + 1 /\ format \in Seq(Int) /\ o \in Nat /\ o <= Len(format)
    BY <1>2, <1>4, <1>5, <1>6 DEF PrintTypes
  <2>2. SubSeq(format, o + 1, o) \in Seq(Int) /\ Len(SubSeq(format, o + 1, o)) = 0
    <3>1. o - o = 0 /\ o <= o
      BY <2>1
    <3> QED
      BY <3>1, <2>1, PartFacts
  <2>3. PICK text \in Seq(Int) : text = SubSeq(format, o + 1, o) /\ Len(text) = 0
    BY <2>2
  <2>4. Reads(10, BeforeDot(text)) = 0
    <3>1. BeforeDot(text) \in Seq(Int) /\ Len(BeforeDot(text)) = 0
      BY <2>3, DotMasked
    <3>2. \A k \in 1..Len(BeforeDot(text)) : BeforeDot(text)[k] <= 0
      BY <3>1
    <3> QED
      BY <3>1, <3>2, ReadsNothing
  <2>5. Sought(o) = text
    BY <1>6, <2>3 DEF Sought
  <2> QED
    BY <2>4, <2>5 DEF WidthOf
<1>8. (IF fmt.before < 0 THEN 0 ELSE fmt.before) = 0
  BY <1>5, <1>7 DEF Begun
<1>11. PICK before : before = IF fmt.before < 0 THEN 0 ELSE fmt.before
  OBVIOUS
<1>9. 0 # Percent /\ 0 # Dot
  BY DEF Percent, Dot
<1>10. 0 * 10 + 0 = 0
  OBVIOUS
<1> QED
  BY <1>1, <1>2, <1>3, <1>4, <1>5, <1>6, <1>8, <1>9, <1>10, <1>11, GoesOn

LEMMA FlagKept == PrintInv /\ Flag => PrintInv'
<1> SUFFICES ASSUME PrintInv, Flag
             PROVE  PrintInv'
  OBVIOUS
<1>1. PICK c \in {Dot, Ell} \union 0..9 :
        /\ printer = "alt_log_private_printf" /\ Directive(c)
        /\ fmt' = CASE c = Dot -> [fmt EXCEPT !.after = 0]
                    [] c = Ell -> fmt
                    [] c >= 0 /\ fmt.after < 0 ->
                         [fmt EXCEPT !.before = (IF @ < 0 THEN 0 ELSE @ * 10) + c]
                    [] OTHER -> [fmt EXCEPT !.after = @ * 10 + c]
        /\ state' = "other" /\ printed' = printed
  BY DEF Flag
<1>2. PrintTypes /\ fmt \in Fmt /\ printed' \in Seq(Int) /\ from \in 0..Len(printed')
  BY <1>1 DEF PrintInv, PrintTypes
<1>3. Takes(state, c) /\ \E o \in 1..w - 1 : Begun(o)
  BY <1>1, DirectiveFacts
<1>4. c \in Int /\ Dot = -4 /\ Ell = -5 /\ Percent = -3 /\ (c = Dot \/ c = Ell \/ c \in 0..9)
  BY DEF Dot, Ell, Percent
<1>5. /\ fmt.before \in Int /\ fmt.after \in Int
  BY <1>2, FmtFacts
<1>10. PICK before \in Int : before = IF fmt.before < 0 THEN 0 ELSE fmt.before
  BY <1>5
<1>6. /\ fmt' \in Fmt /\ fmt'.leadingZero = fmt.leadingZero
      /\ (fmt'.after >= 0) <=> (fmt.after >= 0 \/ c = Dot)
      /\ (IF fmt'.before < 0 THEN 0 ELSE fmt'.before)
           = IF c >= 0 /\ ~ (fmt.after >= 0) THEN before * 10 + c ELSE before
  <2>1. CASE c = Dot
    <3>1. PICK x \in Int : x = 0 /\ fmt' = [fmt EXCEPT !.after = x]
      <4>1. 0 \in Int /\ fmt' = [fmt EXCEPT !.after = 0]
        BY <1>1, <1>4, <2>1
      <4> QED
        BY <4>1, Zenon
    <3>2. /\ fmt' \in Fmt /\ fmt'.leadingZero = fmt.leadingZero
          /\ fmt'.before = fmt.before /\ fmt'.after = 0
      BY <1>2, <3>1 DEF Fmt
    <3> QED
      BY <1>4, <1>10, <2>1, <3>2
  <2>2. CASE c = Ell
    <3>1. fmt' = fmt
      BY <1>1, <1>4, <2>2
    <3> QED
      BY <1>2, <1>4, <1>10, <2>2, <3>1
  <2>3. CASE c \in 0..9 /\ fmt.after < 0
    <3>1. PICK x \in Int : x = (IF fmt.before < 0 THEN 0 ELSE fmt.before * 10) + c
      <4>1. (IF fmt.before < 0 THEN 0 ELSE fmt.before * 10) + c \in Int
        BY <1>4, <1>5
      <4> QED
        BY <4>1
    <3>2. fmt' = [fmt EXCEPT !.before = x]
      BY <1>1, <1>4, <2>3, <3>1
    <3>3. /\ fmt' \in Fmt /\ fmt'.leadingZero = fmt.leadingZero
          /\ fmt'.before = x /\ fmt'.after = fmt.after
      BY <1>2, <3>2 DEF Fmt
    <3>4. x >= 0 /\ x = before * 10 + c
      BY <1>5, <1>10, <2>3, <3>1
    <3> QED
      BY <1>4, <1>5, <2>3, <3>3, <3>4
  <2>4. CASE c \in 0..9 /\ ~ (fmt.after < 0)
    <3>1. PICK x \in Int : x = fmt.after * 10 + c /\ x >= 0
      <4>1. fmt.after * 10 + c \in Int /\ fmt.after * 10 + c >= 0
        BY <1>4, <1>5, <2>4
      <4> QED
        BY <4>1
    <3>2. fmt' = [fmt EXCEPT !.after = x]
      BY <1>1, <1>4, <2>4, <3>1
    <3>3. /\ fmt' \in Fmt /\ fmt'.leadingZero = fmt.leadingZero
          /\ fmt'.before = fmt.before /\ fmt'.after = x
      BY <1>2, <3>2 DEF Fmt
    <3> QED
      BY <1>4, <1>5, <1>10, <2>4, <3>1, <3>3
  <2> QED
    BY <1>4, <2>1, <2>2, <2>3, <2>4
<1>7. /\ PrintTypes'
      /\ w \in Nat /\ w <= Len(format) /\ c = format[w]
      /\ w' = w + 1 /\ format' = format /\ printer' = printer
  BY <1>1, <1>2, <1>3, <1>6, TakenTypes
<1>8. PICK o \in 1..w - 1 : Begun(o)
  BY <1>3
<1>9. c # Percent
  BY <1>4
\* A zero right after the percent sign is read by FirstZero.
<1>12. o = w - 1 => c # 0
  <2>1. CASE state = "first"
    BY <1>1, <2>1 DEF Directive, Takes
  <2>2. CASE state # "first"
    <3>1. o < w - 1
      BY <1>3, <1>8, <2>2, DirectiveFacts, <1>1 DEF Begun
    <3> QED
      BY <1>7, <3>1
  <2> QED
    BY <2>1, <2>2
<1>11. /\ printer' = "alt_log_private_printf" /\ state' = "other"
       /\ format[w] # Percent
       /\ fmt'.leadingZero <=> fmt.leadingZero \/ (o = w - 1 /\ format[w] = 0)
       /\ (fmt'.after >= 0) <=> (fmt.after >= 0 \/ format[w] = Dot)
       /\ (IF fmt'.before < 0 THEN 0 ELSE fmt'.before)
            = IF format[w] >= 0 /\ ~ (fmt.after >= 0) THEN before * 10 + format[w] ELSE before
  BY <1>1, <1>6, <1>7, <1>9, <1>12
<1> QED
  BY <1>2, <1>7, <1>8, <1>10, <1>11, GoesOn, Zenon

\* The letter ends the directive: what was sought is what is asked.
LEMMA LetterTaken ==
    ASSUME PrintTypes, NEW o \in 1..w - 1, Begun(o), w <= Len(format),
           format[w] # Percent, ~ (format[w] >= 0), format' = format, w' = w + 1
    PROVE  /\ Letter' = format[w]
           /\ Opened' = o
           /\ WidthAsked' = WidthOf(Sought(o))
           /\ WidthAsked' \in Nat
           /\ ZeroAsked' <=> format[o + 1] = 0
<1>1. /\ w \in Nat /\ w >= 1 /\ w' - 1 = w /\ w' - 2 = w - 1 /\ w - 1 \in Int
      /\ o \in Nat /\ o <= w /\ 1 \in 1..w - o /\ o + 1 <= w
      /\ format \in Seq(Int)
  BY DEF PrintTypes
<1>2. Letter' = format[w]
  BY <1>1 DEF Letter
<1>3. Opened' = o
  <2>1. format[o] = Percent /\ \A l \in o + 1..w - 1 : format[l] # Percent
    BY DEF Begun
  <2>2. (CHOOSE q \in 1..w - 1 : format[q] = Percent
                                  /\ \A l \in q + 1..w - 1 : format[l] # Percent) = o
    BY <1>1, <2>1, OpenedIs
  <2> QED
    BY <1>1, <2>2 DEF Opened
<1>4. Asked' = SubSeq(format, o + 1, w)
  BY <1>1, <1>3 DEF Asked
<1>5. Sought(o)' = SubSeq(format, o + 1, w)
  BY <1>1 DEF Sought
<1>6. WidthAsked' = WidthOf(Sought(o))'
  BY <1>4, <1>5 DEF WidthAsked, WidthOf
<1>7. /\ WidthOf(Sought(o)) \in Nat
      /\ WidthOf(Sought(o))'
           = IF format[w] >= 0 /\ ~ (\E l \in o + 1..w - 1 : format[l] = Dot)
             THEN WidthOf(Sought(o)) * 10 + format[w] ELSE WidthOf(Sought(o))
  BY OneMoreChar
<1>8. WidthAsked' = WidthOf(Sought(o))
  BY <1>6, <1>7, Zenon
<1>9. Asked'[1] = format[o + 1]
  <2>1. \A k \in 1..w - o : SubSeq(format, o + 1, w)[k] = format[o + k]
    BY <1>1, PartFacts
  <2> QED
    BY <1>1, <1>4, <2>1
<1>10. ZeroAsked' <=> format[o + 1] = 0
  BY <1>9 DEF ZeroAsked
<1> QED
  BY <1>2, <1>3, <1>7, <1>8, <1>10, Zenon

LEMMA NumberKept == PrintInv /\ Number => PrintInv'
<1> SUFFICES ASSUME PrintInv, Number
             PROVE  PrintInv'
  OBVIOUS
<1> DEFINE BaseOf(c) == CASE c = Oh -> 8 [] c = Ex -> 16 [] OTHER -> 10
<1>1. PICK c \in {Dee, You, Oh, Ex} :
        /\ Directive(c)
        /\ printer = "alt_printf" => c = Ex
        /\ fmt' = [fmt EXCEPT !.signed = (c = Dee), !.base = BaseOf(c)]
        /\ state' = "start" /\ printed' = printed
  BY DEF Number
<1>2. PrintTypes /\ fmt \in Fmt /\ printed' \in Seq(Int) /\ from \in 0..Len(printed')
  BY <1>1 DEF PrintInv, PrintTypes
<1>3. /\ state \in {"first", "other"} /\ Takes(state, c)
      /\ state = "other" => printer = "alt_log_private_printf"
      /\ \E o \in 1..w - 1 : Begun(o)
  BY <1>1, DirectiveFacts
<1>4. BaseOf(c) \in {8, 10, 16}
  BY DEF Oh, Ex
<1>5. PICK b \in {8, 10, 16} : b = BaseOf(c)
  BY <1>4
<1>6. PICK s \in BOOLEAN : s <=> c = Dee
  OBVIOUS
<1> HIDE DEF BaseOf
<1>7. fmt' = [fmt EXCEPT !.signed = s, !.base = b]
  <2>1. s = (c = Dee)
    BY <1>6
  <2> QED
    BY <1>1, <1>5, <2>1
<1>8. /\ fmt' \in Fmt /\ fmt'.base = b /\ fmt'.signed = s
      /\ fmt'.leadingZero = fmt.leadingZero
      /\ fmt'.before = fmt.before
  BY <1>2, <1>7 DEF Fmt
<1>9. /\ PrintTypes'
      /\ w \in Nat /\ w >= 1 /\ w <= Len(format) /\ c = format[w]
      /\ w' = w + 1 /\ format' = format /\ printer' = printer
  BY <1>1, <1>2, <1>3, <1>8, TakenTypes
<1>10. PICK o \in 1..w - 1 : Begun(o)
  BY <1>3
<1>11. c # Percent /\ ~ (c >= 0)
  BY DEF Dee, You, Oh, Ex, Percent
<1>12. /\ Letter' = c
       /\ WidthAsked' = WidthOf(Sought(o))
       /\ WidthAsked' \in Nat
       /\ ZeroAsked' <=> format[o + 1] = 0
  BY <1>2, <1>9, <1>10, <1>11, LetterTaken
<1>13. IF fmt.before < 0 THEN WidthOf(Sought(o)) = 0 ELSE fmt.before = WidthOf(Sought(o))
  BY <1>10 DEF Begun
<1>14. fmt.leadingZero <=> format[o + 1] = 0
  <2>1. fmt.leadingZero <=> o < w - 1 /\ format[o + 1] = 0
    BY <1>10 DEF Begun
  <2>2. CASE o = w - 1
    <3>1. format[o + 1] = c /\ ~ (o < w - 1)
      BY <1>9, <2>2
    <3> QED
      BY <1>11, <2>1, <3>1
  <2>3. CASE o # w - 1
    <3>1. o < w - 1
      BY <1>9, <1>10, <2>3
    <3> QED
      BY <2>1, <3>1
  <2> QED
    BY <2>2, <2>3
<1>15. printer = "alt_printf" => WidthOf(Sought(o)) = 0
  <2> SUFFICES ASSUME printer = "alt_printf"
               PROVE  WidthOf(Sought(o)) = 0
    OBVIOUS
  <2>1. o = w - 1
    BY <1>3, <1>10 DEF Begun
  <2>2. format \in Seq(Int) /\ o \in Nat /\ o <= Len(format) /\ o - o = 0 /\ o <= o
    BY <1>2, <1>9, <2>1 DEF PrintTypes
  <2>3. SubSeq(format, o + 1, o) \in Seq(Int) /\ Len(SubSeq(format, o + 1, o)) = 0
    BY <2>2, PartFacts
  <2>4. PICK text \in Seq(Int) : text = SubSeq(format, o + 1, o) /\ Len(text) = 0
    BY <2>3
  <2>5. Sought(o) = text
    BY <2>1, <2>4 DEF Sought
  <2>6. Reads(10, BeforeDot(text)) = 0
    <3>1. BeforeDot(text) \in Seq(Int) /\ Len(BeforeDot(text)) = 0
      BY <2>4, DotMasked
    <3>2. \A k \in 1..Len(BeforeDot(text)) : BeforeDot(text)[k] <= 0
      BY <3>1
    <3> QED
      BY <3>1, <3>2, ReadsNothing
  <2> QED
    BY <2>5, <2>6 DEF WidthOf
<1>16. BaseAsked' = b
  BY <1>5, <1>12 DEF BaseAsked, BaseOf
<1>17. AskedInv'
  <2>1. Letter' \in {Dee, You, Oh, Ex} /\ fmt'.base = BaseAsked' /\ WidthAsked' \in Nat
    BY <1>8, <1>12, <1>16
  <2>2. fmt'.signed <=> Letter' = Dee
    BY <1>6, <1>8, <1>12
  <2>3. fmt'.leadingZero <=> ZeroAsked'
    BY <1>8, <1>12, <1>14
  <2>4. IF fmt'.before < 0 THEN WidthAsked' = 0 ELSE fmt'.before = WidthAsked'
    BY <1>8, <1>12, <1>13
  <2>5. printer' = "alt_printf" => Letter' = Ex /\ WidthAsked' = 0
    BY <1>1, <1>9, <1>12, <1>15
  <2> QED
    BY <2>1, <2>2, <2>3, <2>4, <2>5 DEF AskedInv
<1> QED
  BY <1>1, <1>9, <1>17 DEF PrintInv, DirectiveInv, Printing, CountInv, ShiftInv, DigitsInv

-----------------------------------------------------------------------------
(* Numbers. *)

\* What the directive was does not change while its number is printed.
LEMMA AskedKept ==
    ASSUME AskedInv, Printing, w' = w, format' = format, printer' = printer, value' = value,
           fmt'.base = fmt.base, fmt'.signed = fmt.signed, fmt'.leadingZero = fmt.leadingZero,
           state' \in {"count", "shift", "digits"},
           state' = "count" => state \in {"start", "count"} /\ fmt'.before = fmt.before
    PROVE  /\ AskedInv'
           /\ WidthAsked' = WidthAsked
           /\ Sign' = Sign /\ Shown' = Shown
           /\ BaseAsked' = BaseAsked
<1>1. Letter' = Letter /\ Opened' = Opened
  BY DEF Letter, Opened
<1>2. Asked' = Asked
  BY <1>1 DEF Asked
<1>3. WidthAsked' = WidthAsked /\ ZeroAsked' = ZeroAsked /\ BaseAsked' = BaseAsked
  BY <1>1, <1>2 DEF WidthAsked, ZeroAsked, BaseAsked
<1>4. Sign' = Sign
  BY DEF Sign
<1>5. Shown' = Shown
  BY <1>4 DEF Shown
<1>6. AskedInv'
  BY <1>1, <1>3 DEF AskedInv, Printing
<1> QED
  BY <1>3, <1>4, <1>5, <1>6

LEMMA BaseFacts ==
    ASSUME PrintTypes
    PROVE  /\ fmt.base \in {8, 10, 16} /\ fmt.base \in Nat /\ fmt.base >= 2 /\ fmt.base >= 1
           /\ fmt.leadingZero \in BOOLEAN /\ fmt.signed \in BOOLEAN
           /\ fmt.before \in Int /\ fmt.after \in Int
BY DEF PrintTypes, Fmt

LEMMA StartNumberKept == PrintInv /\ StartNumber => PrintInv'
<1> SUFFICES ASSUME PrintInv, StartNumber
             PROVE  PrintInv'
  OBVIOUS
<1>1. /\ state = "start" /\ printer = "alt_log_private_printf"
      /\ v' = Shown /\ vShrink' = Shown /\ p' = 1 /\ digitCount' = 1 /\ state' = "count"
      /\ printer' = printer /\ format' = format /\ w' = w /\ fmt' = fmt /\ value' = value
      /\ printed' = printed /\ from' = from
  BY DEF StartNumber
<1>2. PrintTypes /\ AskedInv /\ Printing
  BY <1>1 DEF PrintInv, Printing
<1>3. Shown \in Nat
  BY <1>2, ShownFacts
<1>4. PrintTypes'
  BY <1>1, <1>2, <1>3 DEF PrintTypes
<1>5. AskedInv' /\ Shown' = Shown
  BY <1>1, <1>2, AskedKept
<1>6. CountInv'
  <2>1. 0 \in Nat /\ digitCount' = 0 + 1
    BY <1>1
  <2>2. p' = Power(fmt'.base)[0]
    <3>1. Power(fmt.base)[0] = 1
      BY <1>2, BaseFacts, PowerIs
    <3> QED
      BY <1>1, <3>1
  <2>3. vShrink' = v' \div p'
    BY <1>1, <1>3, SmallQuotients
  <2>4. v' = Shown'
    BY <1>1, <1>5
  <2> QED
    BY <1>1, <2>1, <2>2, <2>3, <2>4 DEF CountInv
<1> QED
  BY <1>1, <1>4, <1>5, <1>6 DEF PrintInv, DirectiveInv, ShiftInv, DigitsInv

LEMMA CountDigitKept == PrintInv /\ CountDigit => PrintInv'
<1> SUFFICES ASSUME PrintInv, CountDigit
             PROVE  PrintInv'
  OBVIOUS
<1>1. /\ state = "count" /\ vShrink \div fmt.base > 0
      /\ vShrink' = vShrink \div fmt.base
      /\ digitCount' = digitCount + 1 /\ p' = p * fmt.base
      /\ printer' = printer /\ format' = format /\ w' = w /\ state' = state /\ fmt' = fmt
      /\ v' = v /\ value' = value /\ printed' = printed /\ from' = from
  BY DEF CountDigit
<1>2. PrintTypes /\ AskedInv /\ Printing
  BY <1>1 DEF PrintInv, Printing
<1>3. PICK b \in Nat : b = fmt.base /\ b >= 2 /\ b >= 1
  BY <1>2, BaseFacts
<1>4. /\ v \in Nat /\ p \in Nat /\ vShrink \in Nat /\ digitCount \in Nat
  BY <1>2 DEF PrintTypes
<1>5. PICK k \in Nat : /\ digitCount = k + 1 /\ p = Power(b)[k]
                       /\ vShrink = v \div p
  BY <1>1, <1>3 DEF PrintInv, CountInv
<1>6. printer = "alt_log_private_printf" /\ v = Shown
  BY <1>1 DEF PrintInv, CountInv
<1>7. p >= 1
  BY <1>3, <1>5, Positive
<1>8. PICK pl \in Nat : pl = b * p /\ pl >= 1 /\ p' = pl
  <2>1. b * p \in Nat /\ b * p >= 1 /\ p * b = b * p
    BY <1>3, <1>4, <1>7, SMT
  <2> QED
    BY <1>1, <1>3, <2>1
<1>9. pl = Power(b)[k + 1]
  BY <1>3, <1>5, <1>8, PowerIs
<1>10. vShrink' = v \div pl
  <2>1. (v \div Power(b)[k]) \div b = v \div Power(b)[k + 1]
    <3>1. v \in Nat /\ 1 <= b
      BY <1>3, <1>4
    <3> QED
      BY <3>1, Places, Zenon
  <2> QED
    BY <1>1, <1>3, <1>5, <1>9, <2>1
<1>11. vShrink' \in Nat /\ vShrink' # 0
  <2>1. v \div pl \in Nat
    BY <1>4, <1>8, QuotientBounds
  <2> QED
    BY <1>1, <1>10, <2>1
<1>12. pl <= v
  <2>1. v \div pl = 0 <=> v < pl
    BY <1>4, <1>8, SmallQuotients
  <2> QED
    BY <1>4, <1>10, <1>11, <2>1
<1>13. PrintTypes'
  BY <1>1, <1>2, <1>4, <1>8, <1>11 DEF PrintTypes
<1>14. AskedInv' /\ Shown' = Shown
  BY <1>1, <1>2, AskedKept
<1>15. CountInv'
  <2>1. k + 1 \in Nat /\ digitCount' = (k + 1) + 1
    BY <1>1, <1>5
  <2>2. p' = Power(fmt'.base)[k + 1] /\ vShrink' = v' \div p' /\ p' <= v'
    BY <1>1, <1>3, <1>8, <1>9, <1>10, <1>12
  <2> QED
    BY <1>1, <1>6, <1>14, <2>1, <2>2 DEF CountInv
<1> QED
  BY <1>1, <1>13, <1>14, <1>15 DEF PrintInv, DirectiveInv, ShiftInv, DigitsInv

LEMMA NumberEndsKept == PrintInv /\ NumberEnds => PrintInv'
<1> SUFFICES ASSUME PrintInv, NumberEnds
             PROVE  PrintInv'
  OBVIOUS
<1>1. /\ state' = "chars" /\ printer' = printer /\ format' = format /\ w' = w /\ fmt' = fmt
      /\ v' = v /\ p' = p /\ vShrink' = vShrink /\ digitCount' = digitCount
      /\ value' = value /\ printed' = printed /\ from' = from
  BY DEF NumberEnds, digit_vars
<1>2. PrintTypes'
  BY <1>1 DEF PrintInv, PrintTypes
<1> QED
  BY <1>1, <1>2, Quiet

\* What a text adds to what was sent for a number.
LEMMA SentStarts ==
    ASSUME PrintTypes, NEW text \in Seq(Int), Sends(text), from' = Len(printed)
    PROVE  Sent' = text
<1>1. printed \in Seq(Int) /\ Len(printed) \in Nat /\ Len(text) \in Nat
  BY DEF PrintTypes
<1>2. PICK all \in Seq(Int) : all = printed \o text
  <2>1. printed \o text \in Seq(Int)
    BY <1>1
  <2> QED
    BY <2>1
<1>3. /\ Len(all) = Len(printed) + Len(text)
      /\ \A k \in 1..Len(text) : all[Len(printed) + k] = text[k]
  BY <1>1, <1>2
<1>4. PICK o \in Nat : o = Len(printed)
  BY <1>1
<1>5. PICK n \in Nat : n = Len(all) /\ o <= n /\ n <= Len(all) /\ n - o = Len(text)
  <2>1. PICK m \in Nat : m = Len(text)
    BY <1>1
  <2>2. Len(all) = o + m /\ o + m \in Nat /\ o <= o + m /\ (o + m) - o = m
    BY <1>3, <1>4, <2>1
  <2> QED
    BY <2>1, <2>2
<1>6. PICK part \in Seq(Int) : /\ part = SubSeq(all, o + 1, n)
                               /\ Len(part) = n - o
                               /\ \A k \in 1..n - o : part[k] = all[o + k]
  <2>1. /\ SubSeq(all, o + 1, n) \in Seq(Int)
        /\ Len(SubSeq(all, o + 1, n)) = n - o
        /\ \A k \in 1..n - o : SubSeq(all, o + 1, n)[k] = all[o + k]
    BY <1>5, PartFacts
  <2> QED
    BY <2>1
<1>7. part = text
  <2>1. \A k \in 1..Len(part) : part[k] = text[k]
    BY <1>3, <1>4, <1>5, <1>6
  <2> QED
    BY <1>5, <1>6, <2>1, SeqEqual
<1>8. Sent' = SubSeq(printed', from' + 1, Len(printed'))
  BY DEF Sent
<1>9. printed' = all /\ from' = o
  BY <1>2, <1>4 DEF Sends
<1> QED
  BY <1>5, <1>6, <1>7, <1>8, <1>9

LEMMA SentGrows ==
    ASSUME PrintTypes, NEW c \in Int, Sends(<<c>>), from' = from
    PROVE  Sent \in Seq(Int) /\ Sent' = Append(Sent, c)
<1>1. printed \in Seq(Int) /\ from \in 0..Len(printed) /\ from \in Nat /\ Len(printed) \in Nat
  BY DEF PrintTypes
<1>2. <<c>> \in Seq(Int) /\ Len(<<c>>) = 1 /\ <<c>>[1] = c
  OBVIOUS
<1>3. PICK all \in Seq(Int) : all = printed \o <<c>>
  <2>1. printed \o <<c>> \in Seq(Int)
    BY <1>1, <1>2
  <2> QED
    BY <2>1
<1>4. /\ Len(all) = Len(printed) + 1
      /\ all[Len(printed) + 1] = c
      /\ \A k \in 1..Len(printed) : all[k] = printed[k]
  BY <1>1, <1>2, <1>3
<1>5. PICK n \in Nat : n = Len(printed)
  BY <1>1
<1>6. /\ Sent \in Seq(Int) /\ Len(Sent) = n - from
      /\ \A k \in 1..n - from : Sent[k] = printed[from + k]
  <2>1. from <= n /\ n <= Len(printed)
    BY <1>1, <1>5
  <2>2. /\ SubSeq(printed, from + 1, n) \in Seq(Int)
        /\ Len(SubSeq(printed, from + 1, n)) = n - from
        /\ \A k \in 1..n - from : SubSeq(printed, from + 1, n)[k] = printed[from + k]
    BY <1>1, <2>1, PartFacts
  <2> QED
    BY <1>5, <2>2 DEF Sent
<1>7. PICK part \in Seq(Int) : part = SubSeq(all, from + 1, n)
        /\ Len(part) = n - from /\ \A k \in 1..n - from : part[k] = all[from + k]
  <2>1. from <= n /\ n <= Len(all)
    BY <1>1, <1>4, <1>5
  <2>2. /\ SubSeq(all, from + 1, n) \in Seq(Int)
        /\ Len(SubSeq(all, from + 1, n)) = n - from
        /\ \A k \in 1..n - from : SubSeq(all, from + 1, n)[k] = all[from + k]
    BY <1>1, <2>1, PartFacts
  <2> QED
    BY <2>2
<1>8. part = Sent
  <2>1. ASSUME NEW k \in 1..Len(part)
        PROVE  part[k] = Sent[k]
    <3>1. k \in 1..n - from /\ from + k \in 1..Len(printed)
      BY <1>1, <1>5, <1>7
    <3> QED
      BY <3>1, <1>4, <1>6, <1>7
  <2> QED
    BY <1>6, <1>7, <2>1, SeqEqual
<1>9. SubSeq(all, from + 1, n + 1) = Append(part, all[n + 1])
  <2>1. from <= n /\ n + 1 <= Len(all)
    BY <1>1, <1>4, <1>5
  <2> QED
    BY <1>1, <1>7, <2>1, PartGrows
<1>10. Sent' = SubSeq(all, from + 1, n + 1)
  BY <1>3, <1>4, <1>5 DEF Sent, Sends
<1> QED
  BY <1>4, <1>5, <1>6, <1>8, <1>9, <1>10

\* What stands before the digits.
Leads(text, sign, zero, pad) ==
    /\ text \in Seq(Int)
    /\ Len(text) = (IF pad > 0 THEN pad ELSE 0) + (IF sign THEN 1 ELSE 0)
    /\ \A k \in 1..Len(text) : text[k] \in {Minus, Space, 0}
    /\ sign <=> \E k \in 1..Len(text) : text[k] = Minus
    /\ \A k \in 1..Len(text) : text[k] < 0 => \A l \in 1..k - 1 : text[l] = Space
    /\ \A k \in 1..Len(text) : text[k] = 0 => zero
    /\ zero => \A k \in 1..Len(text) : text[k] # Space
    /\ pad <= 0 => \A k \in 1..Len(text) : text[k] = Minus

LEMMA LeadingFacts ==
    ASSUME NEW sign \in BOOLEAN, NEW zero \in BOOLEAN, NEW pad \in Int
    PROVE  Leads(Leading(sign, zero, pad), sign, zero, pad)
<1>3. PICK text : text = Leading(sign, zero, pad)
  OBVIOUS
<1> SUFFICES Leads(text, sign, zero, pad)
  BY <1>3
<1>1. Minus = -1 /\ Space = -2 /\ <<Minus>> \in Seq(Int) /\ Len(<<Minus>>) = 1
      /\ <<Minus>>[1] = Minus
  BY DEF Minus, Space
<1>2. PICK c \in {0, Space} : c = IF zero THEN 0 ELSE Space
  OBVIOUS
<1>4. PICK row : row = Repeat(c, pad)
  OBVIOUS
<1>5. PICK m \in Nat : m = IF pad > 0 THEN pad ELSE 0
  <2>1. (IF pad > 0 THEN pad ELSE 0) \in Nat
    OBVIOUS
  <2> QED
    BY <2>1
<1>6. row \in Seq(Int) /\ Len(row) = m /\ \A k \in 1..m : row[k] = c
  <2>1. c \in Int
    BY <1>1, <1>2
  <2> QED
    BY <1>4, <1>5, <2>1, RepeatFacts
<1>7. CASE sign /\ zero
  <2>1. text = <<Minus>> \o row
    BY <1>2, <1>3, <1>4, <1>7 DEF Leading
  <2>2. /\ text \in Seq(Int) /\ Len(text) = m + 1 /\ text[1] = Minus
        /\ \A k \in 2..m + 1 : text[k] = c
    BY <2>1, <1>1, <1>6
  <2>3. \A k \in 1..m + 1 : k = 1 \/ k \in 2..m + 1
    OBVIOUS
  <2>4. c = 0 /\ 1 \in 1..m + 1
    BY <1>2, <1>7
  <2>5. \A k \in 1..Len(text) : text[k] \in {Minus, Space, 0}
    BY <2>2, <2>3, <2>4
  <2>6. \A k \in 1..Len(text) : text[k] < 0 => \A l \in 1..k - 1 : text[l] = Space
    BY <2>2, <2>3, <2>4
  <2>7. pad <= 0 => \A k \in 1..Len(text) : text[k] = Minus
    BY <1>5, <2>2
  <2>8. \A k \in 1..Len(text) : text[k] # Space
    BY <1>1, <2>2, <2>3, <2>4
  <2> QED
    BY <1>5, <1>7, <2>2, <2>4, <2>5, <2>6, <2>7, <2>8 DEF Leads
<1>8. CASE sign /\ ~ zero
  <2>1. text = row \o <<Minus>>
    BY <1>2, <1>3, <1>4, <1>8 DEF Leading
  <2>2. /\ text \in Seq(Int) /\ Len(text) = m + 1 /\ text[m + 1] = Minus
        /\ \A k \in 1..m : text[k] = c
    BY <2>1, <1>1, <1>6
  <2>3. \A k \in 1..m + 1 : k = m + 1 \/ k \in 1..m
    OBVIOUS
  <2>4. c = Space /\ m + 1 \in 1..m + 1
    BY <1>2, <1>8
  <2>5. \A k \in 1..Len(text) : text[k] \in {Minus, Space, 0}
    BY <2>2, <2>3, <2>4
  <2>6. ASSUME NEW k \in 1..Len(text), NEW l \in 1..k - 1
        PROVE  text[l] = Space
    <3>1. l \in 1..m
      BY <2>2
    <3> QED
      BY <2>2, <2>4, <3>1
  <2>7. pad <= 0 => \A k \in 1..Len(text) : text[k] = Minus
    BY <1>5, <2>2
  <2>8. \A k \in 1..Len(text) : text[k] # 0
    BY <1>1, <2>2, <2>3, <2>4
  <2> QED
    BY <1>5, <1>8, <2>2, <2>4, <2>5, <2>6, <2>7, <2>8 DEF Leads
<1>9. CASE ~ sign
  <2>1. text = row
    BY <1>2, <1>3, <1>4, <1>9 DEF Leading
  <2>2. text \in Seq(Int) /\ Len(text) = m /\ \A k \in 1..m : text[k] = c
    BY <2>1, <1>6
  <2>3. \A k \in 1..Len(text) : text[k] \in {Minus, Space, 0} /\ text[k] # Minus
    BY <1>1, <1>2, <2>2
  <2>4. ASSUME NEW k \in 1..Len(text), text[k] < 0, NEW l \in 1..k - 1
        PROVE  text[l] = Space
    <3>1. l \in 1..m /\ k \in 1..m
      BY <2>2
    <3>2. text[l] = c /\ text[k] = c
      BY <2>2, <3>1
    <3>3. c # 0
      BY <2>4, <3>2
    <3> QED
      BY <1>2, <3>2, <3>3
  <2>5. pad <= 0 => \A k \in 1..Len(text) : text[k] = Minus
    BY <1>5, <2>2
  <2>6. \A k \in 1..Len(text) : text[k] = 0 => zero
    <3>1. c = 0 => zero
      BY <1>1, <1>2
    <3> QED
      BY <2>2, <3>1
  <2>7. zero => \A k \in 1..Len(text) : text[k] # Space
    <3>1. zero => c # Space
      BY <1>1, <1>2
    <3> QED
      BY <2>2, <3>1
  <2> QED
    BY <1>5, <1>9, <2>2, <2>3, <2>4, <2>5, <2>6, <2>7 DEF Leads
<1> QED
  BY <1>7, <1>8, <1>9

LEMMA LeadDigitsKept == PrintInv /\ LeadDigits => PrintInv'
<1> SUFFICES ASSUME PrintInv, LeadDigits
             PROVE  PrintInv'
  OBVIOUS
<1>1. PICK pad : /\ pad = fmt.before - digitCount - (IF Sign THEN 1 ELSE 0)
                 /\ state = "count" /\ vShrink \div fmt.base = 0
                 /\ vShrink' = 0
                 /\ fmt' = [fmt EXCEPT !.before = pad]
                 /\ Sends(Leading(Sign, fmt.leadingZero, pad))
                 /\ from' = Len(printed)
                 /\ state' = "digits"
                 /\ printer' = printer /\ format' = format /\ w' = w
                 /\ v' = v /\ p' = p /\ digitCount' = digitCount /\ value' = value
  BY DEF LeadDigits
<1>2. PrintTypes /\ AskedInv /\ Printing
  BY <1>1 DEF PrintInv, Printing
<1>3. PICK b \in Nat : b = fmt.base /\ b >= 2 /\ b >= 1
  BY <1>2, BaseFacts
<1>4. /\ v \in Nat /\ p \in Nat /\ digitCount \in Nat /\ fmt \in Fmt
      /\ printed \in Seq(Int) /\ Len(printed) \in Nat
  BY <1>2 DEF PrintTypes
<1>5. Sign \in BOOLEAN /\ Shown \in Nat /\ fmt.leadingZero \in BOOLEAN /\ fmt.before \in Int
  BY <1>2, ShownFacts, BaseFacts
<1>6. PICK s \in 0..1 : s = IF Sign THEN 1 ELSE 0
  OBVIOUS
<1>7. pad \in Int /\ pad = fmt.before - digitCount - s
  BY <1>1, <1>4, <1>5, <1>6
<1>8. /\ fmt' \in Fmt /\ fmt'.base = b /\ fmt'.signed = fmt.signed
      /\ fmt'.leadingZero = fmt.leadingZero
  BY <1>1, <1>3, <1>4, <1>7 DEF Fmt
<1>9. PICK k \in Nat : /\ digitCount = k + 1 /\ p = Power(b)[k]
                       /\ vShrink = v \div p
                       /\ k > 0 => p <= v
  BY <1>1, <1>3 DEF PrintInv, CountInv
<1>10. printer = "alt_log_private_printf" /\ v = Shown
  BY <1>1 DEF PrintInv, CountInv
<1>11. PICK above \in Nat : above = Power(b)[k + 1] /\ above >= 1
  <2>1. k + 1 \in Nat
    OBVIOUS
  <2> QED
    BY <1>3, <2>1, Positive
\* All digits together make the number.
<1>12. v \div above = 0 /\ v < above /\ v % above = v
  <2>1. (v \div Power(b)[k]) \div b = v \div Power(b)[k + 1]
    <3>1. v \in Nat /\ 1 <= b
      BY <1>3, <1>4
    <3> QED
      BY <3>1, Places, Zenon
  <2>2. v \div above = 0
    BY <1>1, <1>3, <1>9, <1>11, <2>1
  <2> QED
    BY <1>4, <1>11, <2>2, SmallQuotients
<1>13. PICK text : text = Leading(Sign, fmt.leadingZero, pad)
  OBVIOUS
<1>14. /\ text \in Seq(Int)
       /\ Len(text) = (IF pad > 0 THEN pad ELSE 0) + (IF Sign THEN 1 ELSE 0)
       /\ \A l \in 1..Len(text) : text[l] \in {Minus, Space, 0}
       /\ Sign <=> \E l \in 1..Len(text) : text[l] = Minus
       /\ \A l \in 1..Len(text) : text[l] < 0 => \A i \in 1..l - 1 : text[i] = Space
       /\ \A l \in 1..Len(text) : text[l] = 0 => fmt.leadingZero
       /\ fmt.leadingZero => \A l \in 1..Len(text) : text[l] # Space
       /\ pad <= 0 => \A l \in 1..Len(text) : text[l] = Minus
  <2>1. Leads(Leading(Sign, fmt.leadingZero, pad), Sign, fmt.leadingZero, pad)
    BY <1>5, <1>7, LeadingFacts, Zenon
  <2>2. Leads(text, Sign, fmt.leadingZero, pad)
    BY <1>13, <2>1, Zenon
  <2> QED
    BY <2>2 DEF Leads
<1>15. Sent' = text
  BY <1>1, <1>2, <1>13, <1>14, SentStarts
<1>16. /\ AskedInv' /\ Shown' = Shown /\ Sign' = Sign /\ WidthAsked' = WidthAsked
  BY <1>1, <1>2, <1>3, <1>8, AskedKept
<1>17. PICK n \in Nat : n = Len(text)
  BY <1>14
<1>18. Reads(b, text) = 0
  <2>1. \A l \in 1..Len(text) : text[l] <= 0
    BY <1>14 DEF Minus, Space
  <2> QED
    BY <1>14, <2>1, ReadsNothing
<1>19. Lead(n)'
  BY <1>8, <1>14, <1>15, <1>16, <1>17 DEF Lead
<1>20. PICK r \in Nat : r = k + 1 /\ r - 1 = k /\ r # 0 /\ r = digitCount
  BY <1>9
<1>21. PICK width \in Nat : /\ width = WidthAsked
                            /\ IF fmt.before < 0 THEN width = 0 ELSE fmt.before = width
  BY <1>1, <1>2 DEF AskedInv
<1>22. n + r >= width /\ (n + r > width => pad <= 0)
  <2>1. n = (IF pad > 0 THEN pad ELSE 0) + s
    BY <1>6, <1>14, <1>17
  <2> QED
    BY <1>5, <1>7, <1>20, <1>21, <2>1
<1>23. Reading(n, r)'
  <2>1. n <= Len(Sent') /\ Len(Sent') = n
    BY <1>15, <1>17
  <2>2. \A l \in n + 1..Len(Sent') : Sent'[l] >= 0
    BY <2>1
  <2>3. p' = IF r = 0 THEN 0 ELSE Power(fmt'.base)[r - 1]
    BY <1>1, <1>8, <1>9, <1>20
  <2>4. Reads(fmt'.base, Sent') = Shown' \div Power(fmt'.base)[r]
    BY <1>8, <1>10, <1>11, <1>12, <1>15, <1>16, <1>18, <1>20
  <2>5. v' = IF printer' = "alt_printf" THEN Shown' ELSE Shown' % Power(fmt'.base)[r]
    BY <1>1, <1>8, <1>10, <1>11, <1>12, <1>16, <1>20
  <2>6. Len(Sent') + r > n
    BY <1>20, <2>1
  <2>7. Len(Sent') + r > n + 1 =>
          IF Len(Sent') = n THEN Power(fmt'.base)[r - 1] <= Shown' ELSE Sent'[n + 1] > 0
    <3>1. Len(Sent') + r > n + 1 => k > 0
      BY <1>20, <2>1
    <3> QED
      BY <1>8, <1>9, <1>10, <1>16, <1>20, <2>1, <3>1
  <2>8. /\ Len(Sent') + r >= WidthAsked'
        /\ Len(Sent') + r > WidthAsked' => \A l \in 1..n : Sent'[l] = Minus
    BY <1>14, <1>15, <1>16, <1>17, <1>21, <1>22, <2>1
  <2> QED
    BY <1>19, <2>1, <2>2, <2>3, <2>4, <2>5, <2>6, <2>7, <2>8 DEF Reading
<1>24. printed' \in Seq(Int) /\ from' \in 0..Len(printed')
  <2>1. printed' = printed \o text
    BY <1>1, <1>13 DEF Sends
  <2>2. PICK all \in Seq(Int) : all = printed \o text
    <3>1. printed \o text \in Seq(Int)
      BY <1>4, <1>14
    <3> QED
      BY <3>1
  <2>3. Len(all) = Len(printed) + n /\ n \in Nat
    <3>1. text \in Seq(Int)
      BY <1>14
    <3> QED
      BY <1>4, <1>17, <2>2, <3>1
  <2> QED
    BY <1>1, <1>4, <2>1, <2>2, <2>3
<1>25. PrintTypes'
  BY <1>1, <1>2, <1>8, <1>24 DEF PrintTypes
<1> QED
  BY <1>1, <1>10, <1>16, <1>23, <1>25 DEF PrintInv, DirectiveInv, CountInv, ShiftInv, DigitsInv

\* The printer and what it reads of the number.
LEMMA HexFacts ==
    ASSUME PrintTypes, AskedInv, Printing, printer = "alt_printf"
    PROVE  fmt.base = 16 /\ Shown = value /\ ~ Sign /\ WidthAsked = 0
<1>1. Letter = Ex /\ WidthAsked = 0 /\ fmt.base = BaseAsked /\ (fmt.signed <=> Letter = Dee)
  BY DEF AskedInv
<1>2. fmt.base = 16 /\ ~ fmt.signed
  BY <1>1, BaseFacts DEF BaseAsked, Ex, Oh, Dee
<1>3. ~ Sign
  BY <1>2 DEF Sign
<1> QED
  BY <1>1, <1>2, <1>3 DEF Shown

\* One digit more, of either printer.
LEMMA DigitKept ==
    ASSUME PrintInv, state = "digits", p > 0,
           NEW n \in Nat, NEW r \in Nat, Reading(n, r),
           NEW digit, digit = (Shown % Power(fmt.base)[r]) \div p, Sends(<<digit>>),
           p' = p \div fmt.base,
           v' = IF printer = "alt_printf" THEN v ELSE v % p,
           printer' = printer, format' = format, w' = w, state' = state, fmt' = fmt,
           vShrink' = vShrink, digitCount' = digitCount, value' = value, from' = from
    PROVE  PrintInv'
<1>1. PrintTypes /\ AskedInv /\ Printing
  BY DEF PrintInv, Printing
<1>2. PICK b \in Nat : b = fmt.base /\ b >= 2 /\ b >= 1
  BY <1>1, BaseFacts
<1>3. PICK a \in Nat : a = Shown
  BY <1>1, ShownFacts
<1>4. r # 0
  BY DEF Reading
<1>5. PICK q \in Nat : q = r - 1 /\ r = q + 1
  BY <1>4
<1>6. PICK pl \in Nat : pl = Power(b)[q] /\ pl >= 1 /\ p = pl
  <2>1. PICK pl \in Nat : pl = Power(b)[q] /\ pl >= 1
    BY <1>2, Positive
  <2>2. p = Power(b)[q]
    BY <1>2, <1>4, <1>5 DEF Reading
  <2> QED
    BY <2>1, <2>2
<1>7. PICK above \in Nat : above = Power(b)[r] /\ above >= 1
  BY <1>2, Positive
<1>8. /\ a \div pl = (a \div above) * b + (a % above) \div pl
      /\ (a % above) \div pl \in 0..b - 1
      /\ (a % above) % pl = a % pl
  <2>1. a \in Nat /\ b \in Nat /\ q \in Nat /\ 1 <= b
    BY <1>2, <1>3, <1>5
  <2>2. a \div Power(b)[q]
          = (a \div Power(b)[q + 1]) * b + (a % Power(b)[q + 1]) \div Power(b)[q]
    BY <2>1, DigitAbove, SMT
  <2>3. (a % Power(b)[q + 1]) \div Power(b)[q] \in 0..b - 1
    BY <2>1, Places, Zenon
  <2>4. (a % Power(b)[q + 1]) % Power(b)[q] = a % Power(b)[q]
    BY <2>1, RestBelow, SMT
  <2> QED
    BY <1>5, <1>6, <1>7, <2>2, <2>3, <2>4, Zenon
<1>9. PICK d \in Nat : d = digit /\ d = (a % above) \div pl
  BY <1>2, <1>3, <1>6, <1>7, <1>8
<1>10. Sent \in Seq(Int) /\ Sent' = Append(Sent, d)
  BY <1>1, <1>9, SentGrows
<1>11. PICK one \in Seq(Int), two \in Seq(Int) :
         /\ one = Sent /\ two = Sent' /\ two = Append(one, d)
  <2>1. Append(Sent, d) \in Seq(Int)
    BY <1>10
  <2> QED
    BY <1>10, <2>1
<1>12. PICK m \in Nat : /\ m = Len(one) /\ Len(two) = m + 1 /\ two[m + 1] = d
                        /\ \A l \in 1..m : two[l] = one[l]
  BY <1>11
<1>13. /\ n <= m
       /\ \A l \in n + 1..m : one[l] >= 0
       /\ Reads(b, one) = a \div above
       /\ v = IF printer = "alt_printf" THEN a ELSE a % above
       /\ m + r > n
       /\ m + r > n + 1 => IF m = n THEN pl <= a ELSE one[n + 1] > 0
       /\ m + r >= WidthAsked
       /\ m + r > WidthAsked => \A k \in 1..n : one[k] = Minus
  BY <1>2, <1>3, <1>4, <1>5, <1>6, <1>7, <1>11, <1>12 DEF Reading
<1>14. /\ \A k \in 1..n : one[k] \in {Minus, Space, 0}
       /\ Sign <=> \E k \in 1..n : one[k] = Minus
       /\ \A k \in 1..n : one[k] < 0 => \A l \in 1..k - 1 : one[l] = Space
       /\ \A k \in 1..n : one[k] = 0 => fmt.leadingZero
       /\ fmt.leadingZero => \A k \in 1..n : one[k] # Space
  BY <1>11 DEF Reading, Lead
<1>15. AskedInv' /\ Shown' = a /\ Sign' = Sign /\ WidthAsked' = WidthAsked
  BY <1>1, <1>3, AskedKept
<1>16. WidthAsked \in Nat
  BY <1>1 DEF AskedInv
<1>17. (m + 1) + q = m + r
  BY <1>5
<1>18. Reads(b, two) = a \div pl
  <2>1. Reads(b, two) = IF d >= 0 THEN Reads(b, one) * b + d ELSE Reads(b, one)
    BY <1>11, ReadsAppend
  <2> QED
    BY <1>8, <1>9, <1>13, <2>1
<1>19. Lead(n)'
  <2>1. ASSUME NEW k \in 1..n
        PROVE  two[k] = one[k] /\ \A l \in 1..k - 1 : two[l] = one[l]
    <3>1. k \in 1..m /\ \A l \in 1..k - 1 : l \in 1..m
      BY <1>13
    <3> QED
      BY <1>12, <3>1
  <2>2. /\ \A k \in 1..n : two[k] \in {Minus, Space, 0}
        /\ \A k \in 1..n : two[k] = 0 => fmt.leadingZero
        /\ fmt.leadingZero => \A k \in 1..n : two[k] # Space
    BY <1>14, <2>1
  <2>3. Sign <=> \E k \in 1..n : two[k] = Minus
    BY <1>14, <2>1
  <2>4. \A k \in 1..n : two[k] < 0 => \A l \in 1..k - 1 : two[l] = Space
    BY <1>14, <2>1
  <2> QED
    BY <1>11, <1>15, <2>2, <2>3, <2>4 DEF Lead
<1>20. m + r > n + 1 => two[n + 1] > 0
  <2>1. CASE m = n
    <3> SUFFICES ASSUME m + r > n + 1
                 PROVE  two[n + 1] > 0
      OBVIOUS
    <3>1. \A l \in 1..m : one[l] <= 0
      <4>1. \A l \in 1..n : one[l] \in {-1, -2, 0}
        BY <1>14 DEF Minus, Space
      <4>2. ASSUME NEW l \in 1..m
            PROVE  one[l] <= 0
        <5>1. l \in 1..n
          BY <2>1
        <5>2. one[l] \in {-1, -2, 0}
          BY <4>1, <5>1
        <5> QED
          BY <5>2
      <4> QED
        BY <4>2
    <3>2. a \div above = 0
      BY <1>11, <1>12, <1>13, <3>1, ReadsNothing
    <3>3. a % above = a
      BY <1>7, <3>2, SmallQuotients
    <3>4. d = a \div pl
      BY <1>9, <3>3
    <3>5. pl <= a
      BY <1>13, <2>1
    <3>6. a \div pl # 0
      BY <1>6, <3>5, SmallQuotients
    <3> QED
      BY <1>12, <2>1, <3>4, <3>6
  <2>2. CASE m # n
    <3>1. n + 1 \in 1..m
      BY <1>13, <2>2
    <3> QED
      BY <1>12, <1>13, <2>2, <3>1
  <2> QED
    BY <2>1, <2>2
<1>21. p' = IF q = 0 THEN 0 ELSE Power(b)[q - 1]
  BY <1>2, <1>6, PlaceBelow
<1>22. v' = IF printer' = "alt_printf" THEN a ELSE a % pl
  BY <1>6, <1>8, <1>13
<1>23. Reading(n, q)'
  <2>1. Sent' = two /\ Len(Sent') = m + 1 /\ n <= m + 1 /\ m + 1 # n
    BY <1>11, <1>12, <1>13
  <2>2. \A l \in n + 1..m + 1 : two[l] >= 0
    <3> SUFFICES ASSUME NEW l \in n + 1..m + 1
                 PROVE  two[l] >= 0
      OBVIOUS
    <3>1. l = m + 1 \/ (l \in n + 1..m /\ l \in 1..m)
      OBVIOUS
    <3> QED
      BY <1>12, <1>13, <3>1
  <2>3. m + r > WidthAsked' => \A k \in 1..n : two[k] = Minus
    <3>1. \A k \in 1..n : two[k] = one[k]
      BY <1>12, <1>13
    <3> QED
      BY <1>13, <1>15, <3>1
  <2>4. fmt'.base = b
    BY <1>2
  <2>5. (m + 1) + q >= WidthAsked' /\ (m + 1) + q > n
    BY <1>13, <1>15, <1>17
  <2>6. (m + 1) + q > n + 1 => two[n + 1] > 0
    BY <1>17, <1>20
  <2>7. (m + 1) + q > WidthAsked' => \A k \in 1..n : two[k] = Minus
    BY <1>17, <2>3
  <2> QED
    BY <1>6, <1>15, <1>18, <1>19, <1>21, <1>22, <2>1, <2>2, <2>4, <2>5, <2>6, <2>7
       DEF Reading
<1>24. printed' \in Seq(Int) /\ from' \in 0..Len(printed')
  <2>1. <<d>> \in Seq(Int) /\ Sends(<<d>>)
    BY <1>9
  <2> QED
    BY <1>1, <2>1, SendFacts
<1>25. p' \in Nat /\ v' \in Nat
  <2>1. p \div b \in Nat
    BY <1>2, <1>6, QuotientBounds
  <2>2. a % pl \in Nat
    <3>1. a % pl \in 0..pl - 1
      BY <1>6, RemainderIs
    <3> QED
      BY <3>1
  <2> QED
    BY <1>2, <1>22, <2>1, <2>2
<1>26. PrintTypes'
  BY <1>1, <1>24, <1>25 DEF PrintTypes
<1>27. printer' \in {"alt_log_private_printf", "alt_printf"}
  BY DEF PrintInv, DigitsInv
<1>28. DigitsInv'
  BY <1>23, <1>27 DEF DigitsInv
<1> QED
  BY <1>15, <1>26, <1>28 DEF PrintInv, DirectiveInv, CountInv, ShiftInv

LEMMA PrintDigitKept == PrintInv /\ PrintDigit => PrintInv'
<1> SUFFICES ASSUME PrintInv, PrintDigit
             PROVE  PrintInv'
  OBVIOUS
<1>1. /\ state = "digits" /\ p > 0 /\ printer = "alt_log_private_printf"
      /\ Sends(<<v \div p>>)
      /\ v' = v % p /\ p' = p \div fmt.base
      /\ printer' = printer /\ format' = format /\ w' = w /\ state' = state /\ fmt' = fmt
      /\ vShrink' = vShrink /\ digitCount' = digitCount /\ value' = value /\ from' = from
  BY DEF PrintDigit
<1>2. PICK n \in Nat, r \in Nat : Reading(n, r)
  BY <1>1 DEF PrintInv, DigitsInv
<1>3. v = Shown % Power(fmt.base)[r]
  BY <1>1, <1>2 DEF Reading
<1>4. PICK digit : digit = v \div p
  OBVIOUS
<1> QED
  BY <1>1, <1>2, <1>3, <1>4, DigitKept

LEMMA PrintHexDigitKept == PrintInv /\ PrintHexDigit => PrintInv'
<1> SUFFICES ASSUME PrintInv, PrintHexDigit
             PROVE  PrintInv'
  OBVIOUS
<1>1. /\ state = "digits" /\ p > 0 /\ printer = "alt_printf"
      /\ Sends(<<HexDigit>>)
      /\ p' = p \div 16
      /\ printer' = printer /\ format' = format /\ w' = w /\ state' = state /\ fmt' = fmt
      /\ v' = v /\ vShrink' = vShrink /\ digitCount' = digitCount
      /\ value' = value /\ from' = from
  BY DEF PrintHexDigit
<1>2. PrintTypes /\ AskedInv /\ Printing
  BY <1>1 DEF PrintInv, Printing
<1>3. fmt.base = 16
  BY <1>1, <1>2, HexFacts
<1>4. PICK n \in Nat, r \in Nat : Reading(n, r)
  BY <1>1 DEF PrintInv, DigitsInv
<1>5. v = Shown /\ Shown \in Nat
  BY <1>1, <1>2, <1>4, ShownFacts DEF Reading
<1>6. PICK a \in Nat : a = Shown
  BY <1>5
<1>7. PICK q \in Nat : q = r - 1 /\ r = q + 1 /\ p = Power(16)[q]
  <2>1. r # 0
    BY <1>1, <1>4 DEF Reading
  <2>2. p = Power(16)[r - 1]
    BY <1>3, <1>4, <2>1 DEF Reading
  <2> QED
    BY <2>1, <2>2
<1>8. (a \div Power(16)[q]) % 16 = (a % Power(16)[q + 1]) \div Power(16)[q]
  <2>1. PICK b \in Nat : b = 16
    OBVIOUS
  <2>3. a \in Nat /\ b \in Nat /\ q \in Nat /\ 1 <= b
    BY <1>6, <1>7, <2>1
  <2>2. (a \div Power(b)[q]) % b = (a % Power(b)[q + 1]) \div Power(b)[q]
    BY <2>3, DigitAt, SMT
  <2> QED
    BY <2>1, <2>2, Zenon
<1>9. PICK digit : digit = HexDigit
  OBVIOUS
<1>10. digit = (Shown % Power(fmt.base)[r]) \div p
  BY <1>3, <1>5, <1>6, <1>7, <1>8, <1>9 DEF HexDigit
<1> QED
  BY <1>1, <1>3, <1>4, <1>9, <1>10, DigitKept

LEMMA StartHexKept == PrintInv /\ StartHex => PrintInv'
<1> SUFFICES ASSUME PrintInv, StartHex
             PROVE  PrintInv'
  OBVIOUS
<1>1. /\ state = "start" /\ printer = "alt_printf" /\ v' = value /\ from' = Len(printed)
      /\ printer' = printer /\ format' = format /\ w' = w /\ fmt' = fmt
      /\ vShrink' = vShrink /\ digitCount' = digitCount /\ value' = value
  BY DEF StartHex
<1>2. PrintTypes /\ AskedInv /\ Printing
  BY <1>1 DEF PrintInv, Printing
<1>3. fmt.base = 16 /\ Shown = value /\ ~ Sign /\ WidthAsked = 0
  BY <1>1, <1>2, HexFacts
<1>4. PICK a \in Nat : a = value /\ a < NUMBER
  <2>1. Shown \in Nat /\ Shown < NUMBER
    BY <1>2, ShownFacts
  <2> QED
    BY <1>3, <2>1
<1>5. printed \in Seq(Int) /\ Len(printed) \in Nat
  BY <1>2 DEF PrintTypes
<1>6. PICK k \in Nat : /\ k = HEX_DIGITS - 1
                       /\ NUMBER \div 16 = Power(16)[k] /\ NUMBER = Power(16)[k + 1]
  BY WordFacts
<1>7. PICK pl \in Nat : pl = Power(16)[k]
  BY Positive
<1>8. CASE value = 0
  <2>1. p' = 0 /\ Sends(<<0>>) /\ state' = "digits"
    BY <1>8 DEF StartHex
  <2>2. PICK text \in Seq(Int) : text = <<0>> /\ Len(text) = 1 /\ text[1] = 0
    <3>1. <<0>> \in Seq(Int) /\ Len(<<0>>) = 1 /\ <<0>>[1] = 0
      OBVIOUS
    <3> QED
      BY <3>1
  <2>3. Sent' = text
    BY <1>1, <1>2, <2>1, <2>2, SentStarts
  <2>4. AskedInv' /\ WidthAsked' = 0 /\ ~ Sign' /\ Shown' = 0
    BY <1>1, <1>2, <1>3, <1>8, <2>1, AskedKept
  <2>5. Reads(16, text) = 0
    <3>1. 16 \in Nat /\ \A l \in 1..Len(text) : text[l] <= 0
      BY <2>2
    <3> QED
      BY <2>2, <3>1, ReadsNothing
  <2>6. PICK one \in Nat : one = Power(16)[0] /\ one = 1
    BY PowerIs
  <2>7. 0 \div one = 0 /\ 0 % one = 0
    BY <2>6, SmallQuotients
  <2>8. Lead(0)'
    BY <2>4 DEF Lead
  <2>9. Reading(0, 0)'
    <3>1. \A l \in 0 + 1..1 : text[l] >= 0
      BY <2>2
    <3>2. Reads(16, Sent') = Shown' \div Power(16)[0]
      BY <2>3, <2>4, <2>5, <2>6, <2>7
    <3>3. v' = Shown' /\ printer' = "alt_printf" /\ fmt'.base = 16 /\ p' = 0
      BY <1>1, <1>3, <1>8, <2>1, <2>4
    <3>4. Len(Sent') = 1 /\ \A l \in 1..0 : Sent'[l] = Minus
      BY <2>2, <2>3
    <3> QED
      BY <2>2, <2>3, <2>4, <2>8, <3>1, <3>2, <3>3, <3>4 DEF Reading
  <2>10. printed' \in Seq(Int) /\ from' \in 0..Len(printed')
    <3>1. printed' \in Seq(Int) /\ Len(printed') = Len(printed) + 1
      BY <1>5, <2>1 DEF Sends
    <3> QED
      BY <1>1, <1>5, <3>1
  <2>11. PrintTypes'
    BY <1>1, <1>2, <1>4, <2>1, <2>10 DEF PrintTypes
  <2> QED
    BY <1>1, <2>1, <2>4, <2>9, <2>11
       DEF PrintInv, DirectiveInv, CountInv, ShiftInv, DigitsInv
<1>9. CASE value # 0
  <2>1. p' = NUMBER \div 16 /\ state' = "shift" /\ printed' = printed
    BY <1>9 DEF StartHex
  <2>2. AskedInv'
    BY <1>1, <1>2, <2>1, AskedKept
  <2>3. from' \in 0..Len(printed')
    BY <1>1, <1>5, <2>1
  <2>4. p' \in Nat
    BY <1>6, <1>7, <2>1
  <2>5. PrintTypes'
    BY <1>1, <1>2, <1>4, <2>1, <2>3, <2>4 DEF PrintTypes
  <2>6. ShiftInv'
    BY <1>1, <1>4, <1>6, <1>9, <2>1 DEF ShiftInv
  <2> QED
    BY <2>1, <2>2, <2>5, <2>6 DEF PrintInv, DirectiveInv, CountInv, DigitsInv
<1> QED
  BY <1>8, <1>9

LEMMA FindDigitKept == PrintInv /\ FindDigit => PrintInv'
<1> SUFFICES ASSUME PrintInv, FindDigit
             PROVE  PrintInv'
  OBVIOUS
<1>1. /\ state = "shift"
      /\ printer' = printer /\ format' = format /\ w' = w /\ fmt' = fmt /\ v' = v
      /\ vShrink' = vShrink /\ digitCount' = digitCount /\ value' = value
      /\ printed' = printed /\ from' = from
  BY DEF FindDigit
<1>2. PrintTypes /\ AskedInv /\ Printing
  BY <1>1 DEF PrintInv, Printing
<1>3. printer = "alt_printf" /\ v = value /\ value # 0 /\ from = Len(printed)
  BY <1>1 DEF PrintInv, ShiftInv
<1>4. fmt.base = 16 /\ Shown = value /\ ~ Sign /\ WidthAsked = 0
  BY <1>2, <1>3, HexFacts
<1>5. PICK k \in Nat : p = Power(16)[k] /\ v < Power(16)[k + 1]
  BY <1>1 DEF PrintInv, ShiftInv
<1>6. PICK a \in Nat : a = v /\ a = value /\ a # 0
  BY <1>2, <1>3 DEF PrintTypes
<1>7. PICK pl \in Nat : pl = Power(16)[k] /\ pl >= 1 /\ p = pl
  BY <1>5, Positive
<1>8. PICK above \in Nat : above = Power(16)[k + 1] /\ above >= 1
  <2>1. k + 1 \in Nat
    OBVIOUS
  <2> QED
    BY <2>1, Positive
\* The digit at p is all that the number has from there up.
<1>9. a % above = a /\ a \div above = 0 /\ a < above
  BY <1>5, <1>6, <1>8, SmallQuotients
<1>10. HexDigit = a \div pl
  <2>1. PICK b \in Nat : b = 16 /\ 1 <= b
    OBVIOUS
  <2>2. (a \div Power(b)[k]) % b = (a % Power(b)[k + 1]) \div Power(b)[k]
    BY <2>1, DigitAt, Zenon
  <2>3. (a \div pl) % 16 = (a % above) \div pl
    BY <1>7, <1>8, <2>1, <2>2, Zenon
  <2> QED
    BY <1>6, <1>7, <1>9, <2>3 DEF HexDigit
<1>11. CASE HexDigit = 0
  <2>1. p' = p \div 16 /\ state' = state
    BY <1>11 DEF FindDigit
  <2>2. a < pl
    BY <1>7, <1>10, <1>11, SmallQuotients
  <2>3. k # 0
    BY <1>6, <1>7, <2>2, PowerIs
  <2>4. PICK q \in Nat : q = k - 1 /\ q + 1 = k
    BY <2>3
  <2>5. p' = Power(16)[q]
    <3>1. Power(16)[k] \div 16 = Power(16)[k - 1]
      BY <2>3, PlaceBelow
    <3> QED
      BY <1>7, <2>1, <2>4, <3>1
  <2>6. p' \in Nat
    BY <2>5, Positive
  <2>7. AskedInv'
    BY <1>1, <1>2, <2>1, AskedKept
  <2>8. PrintTypes'
    BY <1>1, <1>2, <2>1, <2>6 DEF PrintTypes
  <2>9. ShiftInv'
    BY <1>1, <1>3, <1>6, <1>7, <2>1, <2>2, <2>4, <2>5 DEF ShiftInv
  <2> QED
    BY <1>1, <2>1, <2>7, <2>8, <2>9 DEF PrintInv, DirectiveInv, CountInv, DigitsInv
<1>12. CASE HexDigit # 0
  <2>1. p' = p /\ state' = "digits"
    BY <1>12 DEF FindDigit
  <2>2. pl <= a
    BY <1>7, <1>10, <1>12, SmallQuotients
  <2>3. AskedInv' /\ WidthAsked' = 0 /\ ~ Sign' /\ Shown' = a
    BY <1>1, <1>2, <1>4, <1>6, <2>1, AskedKept
  <2>4. PICK text \in Seq(Int) : text = <<>> /\ Len(text) = 0
    <3>1. <<>> \in Seq(Int) /\ Len(<<>>) = 0
      OBVIOUS
    <3> QED
      BY <3>1
  <2>5. Sent' = text
    <3>1. Sent = <<>>
      <4>1. PICK n \in Nat : n = Len(printed) /\ printed \in Seq(Int)
        BY <1>2 DEF PrintTypes
      <4>2. /\ SubSeq(printed, n + 1, n) \in Seq(Int)
            /\ Len(SubSeq(printed, n + 1, n)) = n - n
        BY <4>1, PartFacts
      <4> QED
        BY <1>3, <4>1, <4>2 DEF Sent
    <3>2. Sent' = Sent
      BY <1>1 DEF Sent
    <3> QED
      BY <2>4, <3>1, <3>2
  <2>6. Reads(16, text) = 0
    <3>1. 16 \in Nat /\ \A l \in 1..Len(text) : text[l] <= 0
      BY <2>4
    <3> QED
      BY <2>4, <3>1, ReadsNothing
  <2>7. Lead(0)'
    BY <2>3 DEF Lead
  <2>8. PICK r \in Nat : r = k + 1 /\ r - 1 = k /\ r # 0
    OBVIOUS
  <2>9. Reading(0, r)'
    <3>1. Reads(16, Sent') = Shown' \div Power(16)[r]
      BY <1>8, <1>9, <2>3, <2>5, <2>6, <2>8
    <3>2. v' = Shown' /\ printer' = "alt_printf" /\ fmt'.base = 16 /\ p' = Power(16)[r - 1]
      BY <1>1, <1>3, <1>4, <1>5, <1>6, <2>1, <2>3, <2>8
    <3>3. Len(Sent') = 0 /\ \A l \in 1..0 : Sent'[l] = Minus
      BY <2>4, <2>5
    <3>4. Power(16)[r - 1] <= Shown'
      BY <1>7, <2>2, <2>3, <2>8
    <3> QED
      BY <2>3, <2>7, <2>8, <3>1, <3>2, <3>3, <3>4 DEF Reading
  <2>10. PrintTypes'
    BY <1>1, <1>2, <2>1 DEF PrintTypes
  <2> QED
    BY <1>1, <1>3, <2>1, <2>3, <2>9, <2>10
       DEF PrintInv, DirectiveInv, CountInv, ShiftInv, DigitsInv
<1> QED
  BY <1>11, <1>12

-----------------------------------------------------------------------------
(* The theorem. *)

LEMMA SentIs ==
    ASSUME PrintTypes
    PROVE  Sent \in Seq(Int)
<1>1. PICK n \in Nat : n = Len(printed) /\ printed \in Seq(Int) /\ from \in Nat /\ from <= n
  BY DEF PrintTypes
<1>2. SubSeq(printed, from + 1, n) \in Seq(Int)
  BY <1>1, PartFacts
<1> QED
  BY <1>1, <1>2 DEF Sent

LEMMA PrintStutters == PrintInv /\ UNCHANGED print_vars => PrintInv'
<1> SUFFICES ASSUME PrintInv, UNCHANGED print_vars
             PROVE  PrintInv'
  OBVIOUS
<1>1. /\ printer' = printer /\ format' = format /\ w' = w /\ state' = state /\ fmt' = fmt
      /\ v' = v /\ p' = p /\ vShrink' = vShrink /\ digitCount' = digitCount
      /\ value' = value /\ printed' = printed /\ from' = from
  BY DEF print_vars
<1>2. Letter' = Letter /\ Opened' = Opened /\ Shown' = Shown /\ Sign' = Sign /\ Sent' = Sent
  BY <1>1 DEF Letter, Opened, Shown, Sign, Sent
<1>3. Asked' = Asked
  BY <1>1, <1>2 DEF Asked
<1>4. BaseAsked' = BaseAsked /\ WidthAsked' = WidthAsked /\ ZeroAsked' = ZeroAsked
  BY <1>2, <1>3 DEF BaseAsked, WidthAsked, ZeroAsked
<1>5. PrintTypes'
  BY <1>1 DEF PrintInv, PrintTypes
<1>6. DirectiveInv'
  BY <1>1 DEF PrintInv, DirectiveInv, Begun, Sought
<1>7. AskedInv'
  BY <1>1, <1>2, <1>4 DEF PrintInv, AskedInv, Printing
<1>8. CountInv' /\ ShiftInv'
  BY <1>1, <1>2 DEF PrintInv, CountInv, ShiftInv
<1>9. DigitsInv'
  <2>1. ASSUME NEW n \in Nat, NEW r \in Nat, Reading(n, r)
        PROVE  Reading(n, r)'
    BY <1>1, <1>2, <1>4, <2>1 DEF Reading, Lead
  <2> QED
    BY <1>1, <2>1 DEF PrintInv, DigitsInv
<1> QED
  BY <1>5, <1>6, <1>7, <1>8, <1>9 DEF PrintInv

LEMMA PrintNextKept == PrintInv /\ [PrintNext]_print_vars => PrintInv'
<1> SUFFICES ASSUME PrintInv, [PrintNext]_print_vars
             PROVE  PrintInv'
  OBVIOUS
<1>1. CASE CallPrintf
  BY <1>1, CallPrintfKept
<1>2. CASE OtherChar
  BY <1>2, OtherCharKept
<1>3. CASE PercentChar
  BY <1>3, PercentCharKept
<1>4. CASE PercentAgain
  BY <1>4, PercentAgainKept
<1>5. CASE FirstZero
  BY <1>5, FirstZeroKept
<1>6. CASE Flag
  BY <1>6, FlagKept
<1>7. CASE Number
  BY <1>7, NumberKept
<1>8. CASE Text
  BY <1>8, TextKept
<1>9. CASE Unknown
  BY <1>9, UnknownKept
<1>10. CASE PrintfReturns
  BY <1>10, PrintfReturnsKept
<1>11. CASE StartNumber
  BY <1>11, StartNumberKept
<1>12. CASE CountDigit
  BY <1>12, CountDigitKept
<1>13. CASE LeadDigits
  BY <1>13, LeadDigitsKept
<1>14. CASE PrintDigit
  BY <1>14, PrintDigitKept
<1>15. CASE StartHex
  BY <1>15, StartHexKept
<1>16. CASE FindDigit
  BY <1>16, FindDigitKept
<1>17. CASE PrintHexDigit
  BY <1>17, PrintHexDigitKept
<1>18. CASE NumberEnds
  BY <1>18, NumberEndsKept
<1>19. CASE UNCHANGED print_vars
  BY <1>19, PrintStutters
<1> QED
  BY <1>1, <1>2, <1>3, <1>4, <1>5, <1>6, <1>7, <1>8, <1>9, <1>10, <1>11, <1>12,
     <1>13, <1>14, <1>15, <1>16, <1>17, <1>18, <1>19 DEF PrintNext

\* When the last place is done, what was sent reads as the number.
LEMMA PrintedAtTheEnd == PrintInv => PrintedIsNumber
<1> SUFFICES ASSUME PrintInv, state = "digits", p = 0
             PROVE  /\ NumberRead = NumberMeant
                    /\ \A k \in DOMAIN Sent :
                         Sent[k] < 0 => \A l \in 1..k - 1 : Sent[l] = Space
                    /\ Len(Sent) >= WidthAsked
                    /\ Len(Sent) > WidthAsked =>
                         /\ \A k \in DOMAIN Sent : Sent[k] # Space
                         /\ ~ LeadsWithZero
                    /\ LeadsWithZero => ZeroAsked
                    /\ ZeroAsked => \A k \in DOMAIN Sent : Sent[k] # Space
  BY DEF PrintedIsNumber
<1>1. PrintTypes /\ AskedInv /\ Printing
  BY DEF PrintInv, Printing
<1>2. PICK b \in Nat : b = fmt.base /\ b >= 1
  BY <1>1, BaseFacts
<1>3. PICK a \in Nat : a = Shown
  BY <1>1, ShownFacts
<1>4. PICK n \in Nat, r \in Nat : Reading(n, r)
  BY DEF PrintInv, DigitsInv
<1>5. r = 0
  <2> SUFFICES ASSUME r # 0
               PROVE  FALSE
    OBVIOUS
  <2>1. r - 1 \in Nat
    OBVIOUS
  <2>2. Power(b)[r - 1] >= 1 /\ Power(b)[r - 1] \in Nat
    BY <1>2, <2>1, Positive
  <2>3. p = Power(b)[r - 1]
    BY <1>2, <1>4 DEF Reading
  <2> QED
    BY <2>2, <2>3
<1>6. PICK text \in Seq(Int), m \in Nat : text = Sent /\ m = Len(text)
  <2>1. Sent \in Seq(Int)
    BY <1>1, SentIs
  <2> QED
    BY <2>1
<1>7. PICK width \in Nat : width = WidthAsked
  BY <1>1 DEF AskedInv
<1>8. /\ n <= m
      /\ \A k \in n + 1..m : text[k] >= 0
      /\ Reads(b, text) = a \div Power(b)[r]
      /\ m > n
      /\ m > n + 1 => text[n + 1] > 0
      /\ m >= width
      /\ m > width => \A k \in 1..n : text[k] = Minus
  <2>1. m + r = m
    BY <1>5, <1>6
  <2>2. m + r > n + 1 => m # n
    BY <2>1
  <2> QED
    BY <1>2, <1>3, <1>4, <1>6, <1>7, <2>1, <2>2 DEF Reading
<1>9. /\ \A k \in 1..n : text[k] \in {Minus, Space, 0}
      /\ Sign <=> \E k \in 1..n : text[k] = Minus
      /\ \A k \in 1..n : text[k] < 0 => \A l \in 1..k - 1 : text[l] = Space
      /\ \A k \in 1..n : text[k] = 0 => fmt.leadingZero
      /\ fmt.leadingZero => \A k \in 1..n : text[k] # Space
  BY <1>4, <1>6 DEF Reading, Lead
<1>10. Reads(b, text) = a
  <2>1. Power(b)[0] = 1
    BY <1>2, PowerIs
  <2>2. a \div 1 = a
    BY SmallQuotients
  <2> QED
    BY <1>5, <1>8, <2>1, <2>2
<1>11. BaseAsked = b
  BY <1>1, <1>2 DEF AskedInv
<1>12. \A k \in 1..m : k \in 1..n \/ k \in n + 1..m
  BY <1>8
<1>13. Minus < 0 /\ Space < 0 /\ Minus # Space
  BY DEF Minus, Space
<1>14. Sign <=> \E k \in DOMAIN text : text[k] = Minus
  <2>1. DOMAIN text = 1..m
    BY <1>6
  <2>2. \A k \in n + 1..m : text[k] # Minus
    <3>1. \A k \in n + 1..m : text[k] >= 0
      BY <1>8
    <3> QED
      BY <3>1 DEF Minus
  <2>3. \A k \in 1..n : k \in 1..m
    BY <1>8
  <2> QED
    BY <1>9, <1>12, <2>1, <2>2, <2>3
<1>15. NumberRead = NumberMeant
  <2>1. PICK val \in Int, num \in Nat : val = value /\ num = NUMBER
    BY <1>1, WordFacts DEF PrintTypes
  <2>2. CASE Sign
    <3>1. a = num - val
      BY <1>1, <1>3, <2>1, <2>2, ShownFacts
    <3>2. NumberRead = -1 * a
      BY <1>6, <1>10, <1>11, <1>14, <2>2 DEF NumberRead
    <3>3. Letter = Dee /\ SignBit(value)
      BY <1>1, <2>2 DEF Sign, AskedInv
    <3>4. NumberMeant = val - num
      BY <2>1, <3>3 DEF NumberMeant
    <3> QED
      BY <2>1, <3>1, <3>2, <3>4
  <2>3. CASE ~ Sign
    <3>1. a = val
      BY <1>1, <1>3, <2>1, <2>3, ShownFacts
    <3>2. NumberRead = 1 * a
      BY <1>6, <1>10, <1>11, <1>14, <2>3 DEF NumberRead
    <3>3. ~ (Letter = Dee /\ SignBit(value))
      BY <1>1, <2>3 DEF Sign, AskedInv
    <3>4. NumberMeant = val
      BY <2>1, <3>3 DEF NumberMeant
    <3> QED
      BY <2>1, <3>1, <3>2, <3>4
  <2> QED
    BY <2>2, <2>3
<1>16. \A k \in DOMAIN Sent : Sent[k] < 0 => \A l \in 1..k - 1 : Sent[l] = Space
  <2>1. ASSUME NEW k \in 1..m, text[k] < 0
        PROVE  \A l \in 1..k - 1 : text[l] = Space
    <3>1. text[k] \in Int
      BY <1>6
    <3>2. k \in 1..n
      BY <1>8, <1>12, <2>1, <3>1
    <3> QED
      BY <1>9, <2>1, <3>2
  <2>2. DOMAIN Sent = 1..m
    BY <1>6
  <2> QED
    BY <1>6, <2>1, <2>2
<1>17. Len(Sent) > WidthAsked => \A k \in DOMAIN Sent : Sent[k] # Space
  <2> SUFFICES ASSUME m > width, NEW k \in 1..m
               PROVE  text[k] # Space
    BY <1>6, <1>7
  <2>1. CASE k \in 1..n
    BY <1>8, <1>13, <2>1
  <2>2. CASE k \in n + 1..m
    <3>1. text[k] >= 0
      BY <1>8, <2>2
    <3> QED
      BY <3>1 DEF Space
  <2> QED
    BY <1>12, <2>1, <2>2
\* A zero that is not the last digit stands before the digits.
<1>18. ASSUME LeadsWithZero
       PROVE  \E k \in 1..n : text[k] = 0
  <2>1. PICK k \in 1..m - 1 : text[k] = 0 /\ \A l \in 1..k - 1 : text[l] < 0
    BY <1>6, <1>18 DEF LeadsWithZero
  <2>2. CASE k <= n
    BY <2>1, <2>2
  <2>3. CASE k = n + 1
    <3>1. m > n + 1
      BY <2>3
    <3> QED
      BY <1>8, <2>1, <2>3, <3>1
  <2>4. CASE k > n + 1
    <3>1. n + 1 \in 1..k - 1 /\ n + 1 \in n + 1..m
      BY <2>4
    <3>2. text[n + 1] < 0 /\ text[n + 1] >= 0 /\ text[n + 1] \in Int
      BY <1>6, <1>8, <2>1, <3>1
    <3> QED
      BY <3>2
  <2> QED
    BY <2>2, <2>3, <2>4
<1>19. LeadsWithZero => ZeroAsked
  BY <1>1, <1>9, <1>18 DEF AskedInv
<1>20. Len(Sent) > WidthAsked => ~ LeadsWithZero
  BY <1>6, <1>7, <1>8, <1>13, <1>18
<1>21. ZeroAsked => \A k \in DOMAIN Sent : Sent[k] # Space
  <2> SUFFICES ASSUME ZeroAsked, NEW k \in 1..m
               PROVE  text[k] # Space
    BY <1>6
  <2>1. fmt.leadingZero
    BY <1>1 DEF AskedInv
  <2>2. CASE k \in 1..n
    BY <1>9, <2>1, <2>2
  <2>3. CASE k \in n + 1..m
    <3>1. text[k] >= 0
      BY <1>8, <2>3
    <3> QED
      BY <3>1 DEF Space
  <2> QED
    BY <1>12, <2>2, <2>3
<1> QED
  BY <1>6, <1>7, <1>8, <1>15, <1>16, <1>17, <1>19, <1>20, <1>21

\* The printers keep their invariant: what has been sent of a number is always
\* the number above the places that are left.
THEOREM PrintInvariant == PrintSpec => []PrintInv
<1>1. PrintInit => PrintInv
  BY PrintStart
<1>2. PrintInv /\ [PrintNext]_print_vars => PrintInv'
  BY PrintNextKept
<1> QED
  BY <1>1, <1>2, PTL DEF PrintSpec

\* What a directive prints reads as the number that was meant and fills the
\* width that was asked for: for a word of any number of hexadecimal digits,
\* any values and any formats.
THEOREM PrintsTheNumber == PrintSpec => []PrintedIsNumber
<1>1. PrintInv => PrintedIsNumber
  BY PrintedAtTheEnd
<1> QED
  BY <1>1, PrintInvariant, PTL
-----------------------------------------------------------------------------
(* Words are enough. *)

\* The arithmetic of the printers never leaves the words, the place shifted to
\* is never past the last digit, and what is looked up is always a digit.
FitsWords ==
    /\ v < NUMBER /\ vShrink < NUMBER /\ p < NUMBER
    /\ state = "shift" => p > 0
    /\ state = "digits" /\ p > 0 /\ printer = "alt_log_private_printf"
         => v \div p < fmt.base

\* What the invariant says of it.
FitsByState ==
    /\ state = "count" => v < NUMBER /\ vShrink < NUMBER /\ p < NUMBER
    /\ state = "shift" => p > 0
    /\ state = "digits" /\ p > 0 /\ printer = "alt_log_private_printf"
         => v \div p < fmt.base

LEMMA QuotientBelow ==
    ASSUME NEW n \in Nat, NEW d \in Nat, 1 <= d, NEW b \in Nat, n < b * d
    PROVE  n \div d < b
<1>1. PICK q \in Nat : q = n \div d /\ d * q <= n
  BY QuotientBounds
<1>2. SUFFICES ASSUME b <= q PROVE FALSE
  BY <1>1
<1>3. b * d <= q * d
  BY <1>2, ProductsGrow
<1>4. q * d = d * q /\ q * d \in Nat /\ b * d \in Nat
  BY SMT
<1> QED
  BY <1>1, <1>3, <1>4

LEMMA QuotientAtMost ==
    ASSUME NEW n \in Nat, NEW d \in Nat, 1 <= d
    PROVE  n \div d \in Nat /\ n \div d <= n /\ n % d <= n
BY SMT

LEMMA FitsInState == PrintInv => FitsByState
<1> SUFFICES ASSUME PrintInv
             PROVE  FitsByState
  OBVIOUS
<1>1. PrintTypes /\ CountInv /\ ShiftInv /\ DigitsInv /\ fmt.base \in {8, 10, 16}
  BY DEF PrintInv, PrintTypes, Fmt
<1>2. PICK base \in Nat : base = fmt.base /\ base >= 1
  BY <1>1
<1>3. PICK number \in Nat : number = NUMBER /\ number >= 16
  BY WordFacts
<1>4. ASSUME state = "count"
      PROVE  v < number /\ vShrink < number /\ p < number
  <2>1. PICK shown \in Nat : shown = Shown /\ v = shown /\ shown < number
    BY <1>1, <1>3, <1>4, ShownFacts DEF CountInv
  <2>2. PICK k \in Nat : /\ p = Power(base)[k] /\ vShrink = v \div p
                         /\ k > 0 => p <= v
    BY <1>1, <1>2, <1>4 DEF CountInv
  <2>3. PICK place \in Nat : place = p /\ place >= 1
    BY <1>2, <2>2, Positive
  <2>4. vShrink < number
    <3>1. shown \div place \in Nat /\ shown \div place <= shown
      BY <2>3, QuotientAtMost
    <3>2. vShrink = shown \div place
      BY <2>1, <2>2, <2>3
    <3> QED
      BY <2>1, <3>1, <3>2
  <2>5. CASE k = 0
    <3>1. p = 1
      BY <1>2, <2>2, <2>5, PowerIs
    <3> QED
      BY <1>3, <2>1, <2>4, <3>1
  <2>6. CASE k > 0
    BY <2>1, <2>2, <2>3, <2>4, <2>6
  <2> QED
    BY <2>5, <2>6
<1>5. ASSUME state = "shift"
      PROVE  p > 0
  <2>1. PICK k \in Nat : p = Power(16)[k]
    BY <1>1, <1>5 DEF ShiftInv
  <2>2. PICK place \in Nat : place = p /\ place >= 1
    BY <2>1, Positive
  <2> QED
    BY <2>2
<1>6. ASSUME state = "digits", p > 0, printer = "alt_log_private_printf"
      PROVE  v \div p < base
  <2>1. PICK n, r \in Nat : Reading(n, r)
    BY <1>1, <1>6 DEF DigitsInv
  <2>2. /\ p = IF r = 0 THEN 0 ELSE Power(base)[r - 1]
        /\ v = Shown % Power(base)[r]
    BY <1>2, <1>6, <2>1 DEF Reading
  <2>3. r > 0
    BY <1>6, <2>2
  <2>4. PICK l \in Nat : l = r - 1 /\ l + 1 = r
    BY <2>3
  <2>5. PICK place \in Nat : place = p /\ place >= 1 /\ place = Power(base)[l]
    BY <1>2, <2>2, <2>3, <2>4, Positive
  <2>6. Power(base)[r] = base * place
    <3>1. Power(base)[l + 1] = base * Power(base)[l]
      BY PowerIs
    <3> QED
      BY <2>4, <2>5, <3>1, Zenon
  <2>7. PICK whole \in Nat : whole = base * place /\ whole >= 1
    BY <1>2, <2>6, Positive
  <2>8. PICK shown \in Nat : shown = Shown
    BY <1>1, ShownFacts
  <2>9. shown % whole \in 0..whole - 1
    BY <2>7, RemainderIs
  <2>10. PICK left \in Nat : left = v /\ left < whole
    BY <2>2, <2>6, <2>7, <2>8, <2>9
  <2>11. left < base * place
    BY <2>7, <2>10
  <2>12. left \div place < base
    BY <2>5, <2>11, QuotientBelow
  <2> QED
    BY <2>5, <2>10, <2>12
<1> QED
  BY <1>2, <1>3, <1>4, <1>5, <1>6 DEF FitsByState

LEMMA WordsKept ==
    ASSUME PrintInv, FitsByState', FitsWords, PrintNext
    PROVE  FitsWords'
<1>1. PICK number \in Nat : number = NUMBER /\ number >= 16
  BY WordFacts
<1>2. PICK a, b, c, u \in Nat : a = v /\ b = p /\ c = vShrink /\ u = value
  BY DEF PrintInv, PrintTypes
<1>3. a < number /\ b < number /\ c < number
  BY <1>1, <1>2 DEF FitsWords
<1>4. u < number
  BY <1>1, <1>2 DEF PrintInv, PrintTypes
<1>5. PICK base \in Nat : base = fmt.base /\ base >= 1
  BY DEF PrintInv, PrintTypes, Fmt
<1>6. SUFFICES v' < number /\ vShrink' < number /\ p' < number
  BY <1>1 DEF FitsWords, FitsByState
<1>7. CASE UNCHANGED digit_vars
  BY <1>2, <1>3, <1>7 DEF digit_vars
<1>8. CASE PrintfReturns
  BY <1>1, <1>8 DEF PrintfReturns
<1>9. CASE StartNumber \/ CountDigit
  <2>1. state' = "count"
    BY <1>9 DEF StartNumber, CountDigit
  <2> QED
    BY <1>1, <2>1 DEF FitsByState
<1>10. CASE LeadDigits
  BY <1>1, <1>2, <1>3, <1>10 DEF LeadDigits
<1>11. CASE PrintDigit
  <2>1. v' = v % p /\ p' = p \div fmt.base /\ vShrink' = vShrink /\ p > 0
    BY <1>11 DEF PrintDigit
  <2>2. a % b <= a /\ b \div base <= b /\ a % b \in Int /\ b \div base \in Int
    <3>1. b >= 1
      BY <1>2, <2>1
    <3>2. a % b <= a /\ a % b \in 0..b - 1
      BY <3>1, QuotientAtMost, RemainderIs
    <3>3. b \div base <= b /\ b \div base \in Nat
      BY <1>5, QuotientAtMost
    <3> QED
      BY <3>2, <3>3
  <2>3. v' = a % b /\ p' = b \div base /\ vShrink' = c
    BY <1>2, <1>5, <2>1
  <2> QED
    BY <1>3, <2>2, <2>3
<1>12. CASE StartHex
  <2>1. v' = u /\ vShrink' = c /\ p' \in {0, number \div 16}
    BY <1>1, <1>2, <1>12 DEF StartHex
  <2>2. number \div 16 < number
    BY <1>1, SMT
  <2> QED
    BY <1>1, <1>3, <1>4, <2>1, <2>2
<1>13. CASE FindDigit \/ PrintHexDigit
  <2>1. v' = a /\ vShrink' = c /\ p' \in {b, b \div 16}
    BY <1>2, <1>13 DEF FindDigit, PrintHexDigit
  <2>2. b \div 16 <= b /\ b \div 16 \in Nat
    BY QuotientAtMost
  <2> QED
    BY <1>3, <2>1, <2>2
<1>14. CASE \/ CallPrintf \/ OtherChar \/ PercentChar \/ PercentAgain \/ FirstZero
            \/ Flag \/ Number \/ Text \/ Unknown \/ NumberEnds
  <2>1. UNCHANGED digit_vars
    BY <1>14 DEF CallPrintf, OtherChar, PercentChar, PercentAgain, FirstZero, Flag, Number,
                 Text, Unknown, NumberEnds, Directive, Takes
  <2> QED
    BY <1>7, <2>1
<1> QED
  BY <1>8, <1>9, <1>10, <1>11, <1>12, <1>13, <1>14 DEF PrintNext

(* The numbers that the printers compute with are words, whatever the size of
   a word: the place of the last digit that doIntegerPrint counts does not pass
   its word, so nothing wraps; digit_shift of alt_printf does not go below zero
   while the first digit is looked for; and what doIntegerPrint looks up in the
   table of digits is one. *)
THEOREM WordsSuffice == PrintSpec => []FitsWords
<1>1. PrintInit => FitsWords
  <2>1. NUMBER \in Nat /\ NUMBER >= 16
    BY WordFacts
  <2> QED
    BY <2>1 DEF PrintInit, FitsWords
<1>2. PrintInv /\ FitsByState' /\ FitsWords /\ [PrintNext]_print_vars => FitsWords'
  <2>1. ASSUME PrintInv, FitsByState', FitsWords, PrintNext
        PROVE  FitsWords'
    BY <2>1, WordsKept
  <2>2. ASSUME FitsWords, UNCHANGED print_vars
        PROVE  FitsWords'
    BY <2>2 DEF FitsWords, print_vars
  <2> QED
    BY <2>1, <2>2
<1>3. PrintInv => FitsByState
  BY FitsInState
<1> QED
  BY <1>1, <1>2, <1>3, PrintInvariant, PTL DEF PrintSpec
=============================================================================
