--------------------------- MODULE JtagUartProofs ---------------------------
(***************************************************************************)
(* Proofs about module JtagUart, for rings, FIFOs, thresholds and timeouts *)
(* of every size and for every program: each direction is a pipe, neither  *)
(* side sleeps on work, and "for ever" is never reached.                   *)
(***************************************************************************)
EXTENDS JtagUart, TLAPS

-----------------------------------------------------------------------------
(* Arithmetic of a ring. *)

LEMMA SizeFacts ==
    /\ BUF_LEN \in Int /\ 2 <= BUF_LEN
    /\ FIFO \in Int /\ 1 <= FIFO
    /\ THRESHOLD \in Int /\ 0 <= THRESHOLD /\ THRESHOLD <= FIFO
    /\ INT_MAX \in Int /\ 4 <= INT_MAX
    /\ TIMEOUT \in Int /\ 2 <= TIMEOUT /\ TIMEOUT <= INT_MAX - 1
BY JtagUartAssumption, SMT

\* What a sum or a difference of two indices is modulo the length.
LEMMA Folded ==
    ASSUME NEW n \in Int, NEW length \in Int, 1 <= length,
           0 - length <= n, n < 2 * length
    PROVE  n % length = IF n < 0 THEN n + length
                        ELSE IF n < length THEN n ELSE n - length
<1>1. CASE n < 0
    BY <1>1, SMT
<1>2. CASE 0 <= n /\ n < length
    BY <1>2, SMT
<1>3. CASE length <= n
    BY <1>3, SMT
<1>4. QED
    BY <1>1, <1>2, <1>3, SMT

LEMMA HeldValue ==
    ASSUME NEW in \in Index, NEW out \in Index
    PROVE  /\ Held(in, out) = IF in < out THEN in - out + BUF_LEN ELSE in - out
           /\ Held(in, out) \in Index
<1>1. in - out \in Int /\ 0 - BUF_LEN <= in - out /\ in - out < BUF_LEN
    BY SizeFacts, SMT DEF Index
<1>2. (in - out) % BUF_LEN = IF in - out < 0 THEN in - out + BUF_LEN ELSE in - out
    BY <1>1, SizeFacts, Folded, SMT
<1>3. QED
    BY <1>1, <1>2, SizeFacts, SMT DEF Held, Index

LEMMA AfterValue ==
    ASSUME NEW i \in Index, NEW n \in 0..BUF_LEN
    PROVE  /\ After(i, n) = IF i + n < BUF_LEN THEN i + n ELSE (i + n) - BUF_LEN
           /\ After(i, n) \in Index
<1>1. /\ i \in Int /\ 0 <= i /\ i < BUF_LEN
      /\ n \in Int /\ 0 <= n /\ n <= BUF_LEN
    BY SizeFacts, SMT DEF Index
<1>2. i + n \in Int /\ 0 - BUF_LEN <= i + n /\ i + n < 2 * BUF_LEN /\ ~ (i + n < 0)
    BY <1>1, SizeFacts, SMT
<1>3. (i + n) % BUF_LEN = IF i + n < BUF_LEN THEN i + n ELSE (i + n) - BUF_LEN
  <2>1. 1 <= BUF_LEN /\ BUF_LEN \in Int
    BY SizeFacts, SMT
  <2>2. (i + n) % BUF_LEN = IF i + n < 0 THEN (i + n) + BUF_LEN
                        ELSE IF i + n < BUF_LEN THEN i + n ELSE (i + n) - BUF_LEN
    BY <1>2, <2>1, Folded, Zenon
  <2>3. QED
    BY <1>2, <2>2
<1>4. (IF i + n < BUF_LEN THEN i + n ELSE (i + n) - BUF_LEN) \in Index
    BY <1>1, SizeFacts, SMT DEF Index
<1>5. QED
    BY <1>3, <1>4 DEF After

\* An index is a number below the length.
LEMMA IndexValue ==
    ASSUME NEW i
    PROVE  i \in Index <=> i \in Int /\ 0 <= i /\ i < BUF_LEN
BY SizeFacts, SMT DEF Index

\* Entries taken out: the others come nearer to the front.
LEMMA TakenOut ==
    ASSUME NEW in \in Index, NEW out \in Index, NEW n \in 0..Held(in, out)
    PROVE  /\ After(out, n) \in Index
           /\ Held(in, After(out, n)) = Held(in, out) - n
           /\ \A i \in Index : Held(i, After(out, n)) < Held(in, After(out, n))
                => Held(i, out) = Held(i, After(out, n)) + n
<1> DEFINE next == After(out, n)
<1>1. n \in 0..BUF_LEN /\ n \in Int /\ 0 <= n /\ n <= Held(in, out)
    BY HeldValue, SizeFacts, SMT DEF Index
<1>2. next \in Index
    BY <1>1, AfterValue
<1>3. next = IF out + n < BUF_LEN THEN out + n ELSE (out + n) - BUF_LEN
    BY <1>1, AfterValue
<1> HIDE DEF next
<1>4. /\ in \in Int /\ 0 <= in /\ in < BUF_LEN
      /\ out \in Int /\ 0 <= out /\ out < BUF_LEN
      /\ next \in Int /\ 0 <= next /\ next < BUF_LEN
    BY <1>2, IndexValue
<1>5. /\ Held(in, out) = IF in < out THEN in - out + BUF_LEN ELSE in - out
      /\ Held(in, next) = IF in < next THEN in - next + BUF_LEN ELSE in - next
    BY <1>2, HeldValue
<1>6. Held(in, next) = Held(in, out) - n
    BY <1>1, <1>3, <1>4, <1>5, SizeFacts, SMT
<1>7. ASSUME NEW i \in Index, Held(i, next) < Held(in, next)
      PROVE  Held(i, out) = Held(i, next) + n
  <2>1. /\ Held(i, out) = IF i < out THEN i - out + BUF_LEN ELSE i - out
        /\ Held(i, next) = IF i < next THEN i - next + BUF_LEN ELSE i - next
      BY <1>2, HeldValue
  <2>2. i \in Int /\ 0 <= i /\ i < BUF_LEN
      BY IndexValue
  <2>3. QED
      BY <1>1, <1>3, <1>4, <1>5, <1>7, <2>1, <2>2, SizeFacts, SMT
<1>8. QED
    BY <1>2, <1>6, <1>7 DEF next

\* Entries put in: an entry of the longer ring was there or is one of them.
LEMMA PutIn ==
    ASSUME NEW in \in Index, NEW out \in Index,
           NEW n \in 0..BUF_LEN - 1 - Held(in, out)
    PROVE  /\ After(in, n) \in Index
           /\ Held(After(in, n), out) = Held(in, out) + n
           /\ \A i \in Index : Held(i, out) < Held(After(in, n), out)
                => IF Held(i, in) < n THEN Held(i, out) = Held(in, out) + Held(i, in)
                   ELSE Held(i, out) < Held(in, out)
<1> DEFINE next == After(in, n)
<1>1. /\ n \in 0..BUF_LEN /\ n \in Int /\ 0 <= n
      /\ n <= BUF_LEN - 1 - Held(in, out)
    BY HeldValue, SizeFacts, SMT DEF Index
<1>2. next \in Index
    BY <1>1, AfterValue
<1>3. next = IF in + n < BUF_LEN THEN in + n ELSE (in + n) - BUF_LEN
    BY <1>1, AfterValue
<1> HIDE DEF next
<1>4. /\ in \in Int /\ 0 <= in /\ in < BUF_LEN
      /\ out \in Int /\ 0 <= out /\ out < BUF_LEN
      /\ next \in Int /\ 0 <= next /\ next < BUF_LEN
    BY <1>2, IndexValue
<1>5. /\ Held(in, out) = IF in < out THEN in - out + BUF_LEN ELSE in - out
      /\ Held(next, out) = IF next < out THEN next - out + BUF_LEN ELSE next - out
    BY <1>2, HeldValue
<1>6. Held(next, out) = Held(in, out) + n
    BY <1>1, <1>3, <1>4, <1>5, SizeFacts, SMT
<1>7. ASSUME NEW i \in Index, Held(i, out) < Held(next, out)
      PROVE  IF Held(i, in) < n THEN Held(i, out) = Held(in, out) + Held(i, in)
             ELSE Held(i, out) < Held(in, out)
  <2>1. /\ Held(i, out) = IF i < out THEN i - out + BUF_LEN ELSE i - out
        /\ Held(i, in) = IF i < in THEN i - in + BUF_LEN ELSE i - in
      BY HeldValue
  <2>2. i \in Int /\ 0 <= i /\ i < BUF_LEN
      BY IndexValue
  <2>3. QED
      BY <1>1, <1>3, <1>4, <1>5, <1>7, <2>1, <2>2, SizeFacts, SMT
<1>8. QED
    BY <1>2, <1>6, <1>7 DEF next

\* The entry that is k places behind the front.
LEMMA EntryAt ==
    ASSUME NEW out \in Index, NEW k \in Index
    PROVE  After(out, k) \in Index /\ Held(After(out, k), out) = k
<1> DEFINE entry == After(out, k)
<1>1. k \in 0..BUF_LEN
    BY SizeFacts, SMT DEF Index
<1>2. entry \in Index /\ entry = IF out + k < BUF_LEN THEN out + k ELSE (out + k) - BUF_LEN
    BY <1>1, AfterValue
<1> HIDE DEF entry
<1>3. Held(entry, out) = IF entry < out THEN entry - out + BUF_LEN ELSE entry - out
    BY <1>2, HeldValue
<1>4. Held(entry, out) = k
    BY <1>2, <1>3, IndexValue, SizeFacts, SMT
<1>5. QED
    BY <1>2, <1>4 DEF entry

\* write() and read() look at one stretch of the ring at a time.
LEMMA StretchFits ==
    ASSUME NEW in \in Index, NEW out \in Index
    PROVE  /\ Room(in, out) \in Int /\ 0 <= Room(in, out)
           /\ Room(in, out) <= BUF_LEN - 1 - Held(in, out)
           /\ in + Room(in, out) <= BUF_LEN
           /\ Ready(in, out) \in Int /\ 0 <= Ready(in, out)
           /\ Ready(in, out) <= Held(in, out)
           /\ Ready(in, out) = 0 <=> in = out
<1>1. Held(in, out) = IF in < out THEN in - out + BUF_LEN ELSE in - out
    BY HeldValue
<1>2. /\ in \in Int /\ 0 <= in /\ in < BUF_LEN
      /\ out \in Int /\ 0 <= out /\ out < BUF_LEN
    BY IndexValue
<1>3. QED
    BY <1>1, <1>2, SizeFacts, SMT DEF Room, Ready

LEMMA LeastFacts ==
    ASSUME NEW a \in Int, NEW b \in Int
    PROVE  /\ Least(a, b) \in Int /\ Least(a, b) <= a /\ Least(a, b) <= b
           /\ Least(a, b) = a \/ Least(a, b) = b
BY DEF Least

-----------------------------------------------------------------------------
(* The way out: write(), its ring, the interrupt routine and the FIFO. *)

WriteCall ==
    [at : {"idle", "copy", "fill", "store", "kick", "wait", "check", "exit", "close"},
     count : Nat, copied : Nat, nonblock : BOOLEAN, n : Nat, out : Index,
     gone : BOOLEAN, result : {"none", "count", "EWOULDBLOCK", "EIO", "closed"}]

IsrState == [at : {"off", "top", "rx", "tx"}, wi : BOOLEAN, space : 0..FIFO]

\* What the program can ask for.
LEMMA ProgramFacts ==
    ASSUME program \in PROGRAMS
    PROVE  /\ \A c \in program.counts : c \in Nat /\ c >= 1
           /\ \A c \in program.spaces : c \in Nat /\ c >= 1
           /\ \A b \in program.nonblock : b \in BOOLEAN
           /\ \A a \in program.arguments : a \in Int
BY JtagUartAssumption DEF Program

\* Between the ring's ends, and before it in the FIFO, characters stand in the
\* order of their numbers.
TxData ==
    /\ tx_in \in Index /\ tx_out \in Index
    /\ tx_buf \in [Index -> Int]
    /\ heard \in Nat /\ accepted \in Nat
    /\ tx_fifo \in Seq(Int)
    /\ \A i \in 1..Len(tx_fifo) : tx_fifo[i] = heard + i
    /\ \A i \in Index : Held(i, tx_out) < Held(tx_in, tx_out)
         => tx_buf[i] = (heard + Len(tx_fifo)) + 1 + Held(i, tx_out)
    /\ accepted = (heard + Len(tx_fifo)) + Held(tx_in, tx_out)

\* What write() and the interrupt routine have seen is still free, and what
\* write() has copied there is what it takes next.
TxRoom ==
    /\ w.at \in {"fill", "store"} =>
         /\ 1 <= w.n /\ w.n <= w.count
         /\ w.n <= BUF_LEN - 1 - Held(tx_in, tx_out)
         /\ tx_in + w.n <= BUF_LEN
    /\ w.at = "store" => \A i \in tx_in..tx_in + w.n - 1 :
                           tx_buf[i] = accepted + 1 + i - tx_in
    /\ Len(tx_fifo) + isr.space <= FIFO

TxInv ==
    /\ program \in PROGRAMS
    /\ w \in WriteCall /\ isr \in IsrState
    /\ TxData /\ TxRoom

tx_data == <<tx_buf, tx_in, tx_out, tx_fifo, accepted, heard>>

LEMMA TxFacts ==
    ASSUME TxData
    PROVE  /\ Held(tx_in, tx_out) \in Int /\ 0 <= Held(tx_in, tx_out)
           /\ Held(tx_in, tx_out) <= BUF_LEN - 1
           /\ Len(tx_fifo) \in Nat
           /\ heard + Len(tx_fifo) \in Int
BY HeldValue, IndexValue, SizeFacts, SMT DEF TxData

\* The copy touches no entry that holds a character.
LEMMA TxCopied ==
    ASSUME TxInv, WriteCopies
    PROVE  /\ TxData' /\ TxRoom' /\ w' \in WriteCall
           /\ UNCHANGED <<tx_in, tx_out, accepted, heard, irq_enable>>
<1> DEFINE held == Held(tx_in, tx_out)
<1>1. /\ 1 <= w.n /\ w.n \in Int /\ w.n <= BUF_LEN - 1 - held /\ w.n <= w.count
      /\ tx_in + w.n <= BUF_LEN
    BY SMT DEF TxInv, TxRoom, WriteCopies, WriteCall
<1>2. /\ tx_in \in Index /\ tx_out \in Index /\ tx_buf \in [Index -> Int]
      /\ accepted \in Int /\ held \in Int /\ 0 <= held
    BY TxFacts, SMT DEF TxInv, TxData
<1>3. /\ UNCHANGED <<tx_in, tx_out, tx_fifo, heard, accepted, isr, irq_enable>>
      /\ tx_buf' = Copied(tx_in, w.n) /\ w' = [w EXCEPT !.at = "store"]
    BY DEF WriteCopies, port, numbers
<1>4. ASSUME NEW i \in Index
      PROVE  tx_buf'[i] = IF i \in tx_in..tx_in + w.n - 1
                          THEN accepted + 1 + i - tx_in ELSE tx_buf[i]
    BY <1>3 DEF Copied
<1>5. tx_buf' \in [Index -> Int]
  <2>1. (\A i \in Index : i \in Int) /\ tx_in \in Int
    BY <1>2, IndexValue
  <2>2. QED
    BY <1>2, <1>3, <2>1, SMT DEF Copied
<1>6. ASSUME NEW i \in Index, Held(i, tx_out) < held
      PROVE  tx_buf'[i] = tx_buf[i]
  <2>1. /\ held = IF tx_in < tx_out THEN tx_in - tx_out + BUF_LEN ELSE tx_in - tx_out
        /\ Held(i, tx_out) = IF i < tx_out THEN i - tx_out + BUF_LEN ELSE i - tx_out
        /\ i \in Int /\ 0 <= i /\ i < BUF_LEN
        /\ tx_in \in Int /\ 0 <= tx_in /\ tx_in < BUF_LEN
        /\ tx_out \in Int /\ 0 <= tx_out /\ tx_out < BUF_LEN
    BY <1>2, HeldValue, IndexValue
  <2> HIDE DEF held
  <2>2. i \notin tx_in..tx_in + w.n - 1
    BY <1>1, <1>6, <2>1, SizeFacts, SMT
  <2>3. QED
    BY <1>4, <2>2
<1>7. TxData'
    BY <1>3, <1>5, <1>6 DEF TxInv, TxData, held
<1>8. w' \in WriteCall /\ w'.n = w.n /\ w'.count = w.count
    BY <1>3 DEF TxInv, WriteCall
<1>9. \A i \in tx_in..tx_in + w.n - 1 : i \in Index
    BY <1>1, <1>2, SizeFacts, SMT DEF Index
<1>10. TxRoom'
    BY <1>1, <1>3, <1>4, <1>8, <1>9 DEF TxInv, TxRoom, held
<1>11. QED
    BY <1>3, <1>7, <1>8, <1>10

LEMMA TxStored ==
    ASSUME TxInv, WriteStores
    PROVE  TxData' /\ TxRoom'
<1> DEFINE base == heard + Len(tx_fifo)
           held == Held(tx_in, tx_out)
<1>1. /\ 1 <= w.n /\ w.n \in Int /\ w.n <= BUF_LEN - 1 - held /\ w.n <= w.count
      /\ tx_in + w.n <= BUF_LEN
    BY SMT DEF TxInv, TxRoom, WriteStores, WriteCall
<1>2. held \in Int /\ 0 <= held /\ base \in Int /\ accepted = base + held
    BY TxFacts DEF TxInv, TxData
<1>3. tx_in \in Index /\ tx_out \in Index /\ w.n \in 0..BUF_LEN - 1 - held
    BY <1>1, <1>2, SizeFacts, SMT DEF TxInv, TxData
<1>4. /\ tx_in' \in Index /\ Held(tx_in', tx_out) = held + w.n
      /\ \A i \in Index : Held(i, tx_out) < Held(tx_in', tx_out)
           => IF Held(i, tx_in) < w.n THEN Held(i, tx_out) = held + Held(i, tx_in)
              ELSE Held(i, tx_out) < held
    BY <1>3, PutIn DEF WriteStores
<1>5. /\ tx_out' = tx_out /\ heard' = heard /\ tx_fifo' = tx_fifo /\ isr' = isr
      /\ accepted' = accepted + w.n
    BY DEF WriteStores, port, numbers
<1>6. ASSUME NEW i \in Index
      PROVE  /\ tx_buf'[i] = tx_buf[i]
             /\ i \in tx_in..tx_in + w.n - 1 => tx_buf[i] = accepted + 1 + i - tx_in
    BY <1>6 DEF TxInv, TxRoom, WriteStores
<1>7. ASSUME NEW i \in Index, Held(i, tx_out) < Held(tx_in', tx_out)
      PROVE  tx_buf'[i] = base + 1 + Held(i, tx_out)
  <2>1. /\ Held(i, tx_in) = IF i < tx_in THEN i - tx_in + BUF_LEN ELSE i - tx_in
        /\ i \in Int /\ 0 <= i /\ i < BUF_LEN
        /\ tx_in \in Int /\ 0 <= tx_in /\ tx_in < BUF_LEN
        /\ Held(i, tx_out) \in Int
    BY <1>3, HeldValue, IndexValue
  <2>2. CASE Held(i, tx_in) < w.n
    <3>1. i \in tx_in..tx_in + w.n - 1 /\ Held(i, tx_in) = i - tx_in
      BY <1>1, <2>1, <2>2, SizeFacts, SMT
    <3>2. Held(i, tx_out) = held + (i - tx_in)
      BY <1>4, <1>7, <2>2, <3>1
    <3>3. tx_buf'[i] = accepted + 1 + i - tx_in
      BY <1>6, <3>1
    <3> HIDE DEF held, base
    <3>4. QED
      BY <1>2, <2>1, <3>2, <3>3, SMT
  <2>3. CASE ~ (Held(i, tx_in) < w.n)
    <3>1. i \notin tx_in..tx_in + w.n - 1
      BY <1>1, <2>1, <2>3, SizeFacts, SMT
    <3>2. Held(i, tx_out) < held
      BY <1>4, <1>7, <2>3
    <3>3. QED
      BY <1>6, <3>1, <3>2 DEF TxInv, TxData
  <2>4. QED
    BY <2>2, <2>3
<1>8. tx_buf' \in [Index -> Int]
    BY DEF TxInv, TxData, WriteStores
<1>9. accepted' = base + Held(tx_in', tx_out)
  <2> HIDE DEF base, held
  <2>1. QED
    BY <1>1, <1>2, <1>4, <1>5, SMT
<1>10. accepted' \in Nat
    BY <1>1, <1>5, SMT DEF TxInv, TxData
<1>11. TxData'
  <2>1. (\A i \in 1..Len(tx_fifo) : tx_fifo[i] = heard + i)'
    BY <1>5 DEF TxInv, TxData
  <2>2. tx_out' \in Index /\ heard' \in Nat /\ tx_fifo' \in Seq(Int)
    BY <1>5 DEF TxInv, TxData
  <2>3. QED
    BY <1>4, <1>5, <1>7, <1>8, <1>9, <1>10, <2>1, <2>2 DEF TxData
<1>12. TxRoom'
  <2>1. w'.at \notin {"fill", "store"}
    BY DEF TxInv, WriteCall, WriteStores
  <2>2. QED
    BY <1>5, <2>1 DEF TxInv, TxRoom
<1>13. QED
    BY <1>11, <1>12

\* Characters that go on where others end.
LEMMA Joined ==
    ASSUME NEW s \in Seq(Int), NEW t \in Seq(Int), NEW base \in Int,
           \A i \in 1..Len(s) : s[i] = base + i,
           \A i \in 1..Len(t) : t[i] = (base + Len(s)) + i
    PROVE  /\ s \o t \in Seq(Int) /\ Len(s \o t) = Len(s) + Len(t)
           /\ \A i \in 1..Len(s \o t) : (s \o t)[i] = base + i
<1>1. /\ s \o t \in Seq(Int) /\ Len(s \o t) = Len(s) + Len(t)
      /\ Len(s) \in Nat /\ Len(t) \in Nat
    BY SMT
<1>2. ASSUME NEW i \in 1..Len(s \o t)
      PROVE  (s \o t)[i] = base + i
  <2>1. i \in Int /\ 1 <= i /\ i <= Len(s) + Len(t)
    BY <1>1, SMT
  <2>2. CASE i <= Len(s)
    <3>1. i \in 1..Len(s)
      BY <1>1, <2>1, <2>2, SMT
    <3>2. (s \o t)[i] = s[i]
      BY <1>1, <2>1, <2>2, SMT
    <3>3. QED
      BY <3>1, <3>2
  <2>3. CASE i > Len(s)
    <3>1. i - Len(s) \in 1..Len(t)
      BY <1>1, <2>1, <2>3, SMT
    <3>2. (s \o t)[i] = t[i - Len(s)]
      BY <1>1, <2>1, <2>3, SMT
    <3>3. t[i - Len(s)] = (base + Len(s)) + (i - Len(s))
      BY <3>1
    <3>4. (base + Len(s)) + (i - Len(s)) = base + i
      BY <1>1, <2>1, SMT
    <3>5. QED
      BY <3>2, <3>3, <3>4
  <2>4. QED
    BY <1>1, <2>1, <2>2, <2>3, SMT
<1>3. QED
    BY <1>1, <1>2

LEMMA TxSent ==
    ASSUME TxInv, IsrSends
    PROVE  /\ TxData' /\ TxRoom'
           /\ tx_in' = tx_in
           /\ Held(tx_in, tx_out') =
                Held(tx_in, tx_out) - Least(isr.space, Held(tx_in, tx_out))
<1> DEFINE held == Held(tx_in, tx_out)
           n == Least(isr.space, held)
           more == Entries(tx_buf, tx_out, n)
<1>1. isr.space \in Int /\ 0 <= isr.space /\ isr.space <= FIFO
    BY SizeFacts, SMT DEF TxInv, IsrState
<1>2. held \in Int /\ 0 <= held /\ held <= BUF_LEN - 1 /\ Len(tx_fifo) \in Nat
    BY TxFacts DEF TxInv
<1>3. n \in Int /\ 0 <= n /\ n <= held /\ n <= isr.space
  <2>1. n \in Int /\ n <= isr.space /\ n <= held /\ (n = isr.space \/ n = held)
    BY <1>1, <1>2, LeastFacts, Zenon
  <2> HIDE DEF n, held
  <2>2. QED
    BY <1>1, <1>2, <2>1, SMT
<1>4. tx_in \in Index /\ tx_out \in Index /\ n \in 0..held
    BY <1>2, <1>3, SMT DEF TxInv, TxData
<1>5. /\ tx_out' = After(tx_out, n) /\ tx_fifo' = tx_fifo \o more
      /\ isr' = [NoIsr EXCEPT !.at = "top"]
      /\ tx_buf' = tx_buf /\ tx_in' = tx_in /\ w' = w
      /\ heard' = heard /\ accepted' = accepted
    BY DEF IsrSends, numbers
<1>6. /\ tx_out' \in Index /\ Held(tx_in, tx_out') = held - n
      /\ \A i \in Index : Held(i, tx_out') < Held(tx_in, tx_out')
           => Held(i, tx_out) = Held(i, tx_out') + n
    BY <1>4, <1>5, TakenOut
<1>7. ASSUME NEW i \in 1..n
      PROVE  After(tx_out, i - 1) \in Index /\ Held(After(tx_out, i - 1), tx_out) = i - 1
  <2>1. i - 1 \in Index
    BY <1>2, <1>3, SizeFacts, SMT DEF Index
  <2>2. QED
    BY <1>4, <2>1, EntryAt
<1>8. more \in Seq(Int) /\ Len(more) = n
      /\ \A i \in 1..n : more[i] = tx_buf[After(tx_out, i - 1)]
  <2>1. more = [i \in 1..n |-> tx_buf[After(tx_out, i - 1)]]
    BY DEF Entries
  <2>2. \A i \in 1..n : tx_buf[After(tx_out, i - 1)] \in Int
    BY <1>7 DEF TxInv, TxData
  <2>3. n \in Nat
    BY <1>3, SMT
  <2> HIDE DEF n, more
  <2>4. QED
    BY <2>1, <2>2, <2>3, SMT
<1>9. /\ tx_fifo \in Seq(Int) /\ heard \in Int
      /\ \A i \in 1..Len(tx_fifo) : tx_fifo[i] = heard + i
    BY SMT DEF TxInv, TxData
<1>10. \A i \in 1..n : more[i] = (heard + Len(tx_fifo)) + i
  <2> SUFFICES ASSUME NEW i \in 1..n PROVE more[i] = (heard + Len(tx_fifo)) + i
    OBVIOUS
  <2>1. i \in Int /\ i - 1 < held
    BY <1>2, <1>3, SMT
  <2>2. more[i] = (heard + Len(tx_fifo)) + 1 + (i - 1)
    BY <1>7, <1>8, <2>1 DEF TxInv, TxData
  <2> HIDE DEF more, held
  <2>3. QED
    BY <1>2, <1>9, <2>1, <2>2, SMT
<1> HIDE DEF n, more, held
<1>11. /\ tx_fifo' \in Seq(Int) /\ Len(tx_fifo') = Len(tx_fifo) + n
       /\ \A i \in 1..Len(tx_fifo') : tx_fifo'[i] = heard + i
    BY <1>5, <1>8, <1>9, <1>10, Joined
<1>12. ASSUME NEW i \in Index, Held(i, tx_out') < Held(tx_in, tx_out')
       PROVE  tx_buf[i] = (heard + Len(tx_fifo')) + 1 + Held(i, tx_out')
  <2>1. Held(i, tx_out) = Held(i, tx_out') + n /\ Held(i, tx_out') \in Int
    BY <1>6, <1>12, HeldValue, IndexValue
  <2>2. Held(i, tx_out) < held
    BY <1>2, <1>3, <1>6, <1>12, <2>1, SMT
  <2>3. tx_buf[i] = (heard + Len(tx_fifo)) + 1 + Held(i, tx_out)
    BY <2>2 DEF TxInv, TxData, held
  <2>4. QED
    BY <1>2, <1>3, <1>9, <1>11, <2>1, <2>3, SMT
<1>13. accepted = (heard + Len(tx_fifo')) + Held(tx_in, tx_out')
  <2>1. accepted = (heard + Len(tx_fifo)) + held
    BY DEF TxInv, TxData, held
  <2>2. QED
    BY <1>2, <1>3, <1>6, <1>9, <1>11, <2>1, SMT
<1>14. TxData'
    BY <1>5, <1>6, <1>11, <1>12, <1>13 DEF TxInv, TxData
<1>15. TxRoom'
  <2>1. isr.at = "tx" /\ isr'.space = 0
    BY <1>5 DEF IsrSends, NoIsr
  <2>2. Len(tx_fifo') + isr'.space <= FIFO
    BY <1>1, <1>2, <1>3, <1>11, <2>1, SizeFacts, SMT DEF TxInv, TxRoom
  <2>3. ASSUME w.at \in {"fill", "store"}
        PROVE  w.n <= BUF_LEN - 1 - Held(tx_in, tx_out')
    <3>1. w.n \in Int /\ w.n <= BUF_LEN - 1 - held
      BY <2>3, SMT DEF TxInv, TxRoom, WriteCall, held
    <3>2. QED
      BY <1>2, <1>3, <1>6, <3>1, SizeFacts, SMT
  <2>4. QED
    BY <1>5, <2>2, <2>3 DEF TxInv, TxRoom
<1>16. QED
    BY <1>5, <1>6, <1>14, <1>15 DEF held, n

LEMMA TxTaken ==
    ASSUME TxInv, HostTakes
    PROVE  TxData' /\ TxRoom' /\ heard' = heard + 1
<1>1. /\ tx_fifo \in Seq(Int) /\ tx_fifo # <<>> /\ heard \in Nat
      /\ \A i \in 1..Len(tx_fifo) : tx_fifo[i] = heard + i
    BY DEF TxInv, TxData, HostTakes
<1>2. /\ heard' = tx_fifo[1] /\ tx_fifo' = Tail(tx_fifo)
      /\ UNCHANGED <<ring, accepted, w, isr>>
    BY <1>1, SMT DEF HostTakes
<1>3. Len(tx_fifo) >= 1 /\ Len(tx_fifo) \in Nat
    BY <1>1, SMT
<1>4. heard' = heard + 1
    BY <1>1, <1>2, <1>3, SMT
<1>5. /\ tx_fifo' \in Seq(Int) /\ Len(tx_fifo') = Len(tx_fifo) - 1
      /\ \A i \in 1..Len(tx_fifo') : tx_fifo'[i] = tx_fifo[i + 1]
    BY <1>1, <1>2, <1>3, SMT
<1>6. \A i \in 1..Len(tx_fifo') : tx_fifo'[i] = heard' + i
    BY <1>1, <1>3, <1>4, <1>5, SMT
<1>7. heard' + Len(tx_fifo') = heard + Len(tx_fifo) /\ heard' \in Nat
    BY <1>1, <1>3, <1>4, <1>5, SMT
<1>8. TxData'
    BY <1>2, <1>5, <1>6, <1>7 DEF TxInv, TxData, ring
<1>9. TxRoom'
  <2>1. isr.space \in Int
    BY SizeFacts, SMT DEF TxInv, IsrState
  <2>2. Len(tx_fifo') + isr.space <= FIFO
    BY <1>3, <1>5, <2>1, SizeFacts, SMT DEF TxInv, TxRoom
  <2>3. QED
    BY <1>2, <2>2 DEF TxInv, TxRoom, ring
<1>10. QED
    BY <1>4, <1>8, <1>9

\* The calls and the interrupt routine look before they act.
LEMMA TxLooks ==
    ASSUME TxInv, WriteLooks \/ IsrLooks
    PROVE  TxRoom'
<1>1. CASE WriteLooks
  <2> DEFINE n == Least(Room(tx_in, tx_out), w.count)
  <2>1. tx_in \in Index /\ tx_out \in Index /\ w.count \in Nat
    BY DEF TxInv, TxData, WriteCall
  <2>2. /\ n \in Int /\ 0 <= n /\ n <= w.count
        /\ n <= BUF_LEN - 1 - Held(tx_in, tx_out) /\ tx_in + n <= BUF_LEN
    <3>1. tx_in \in Int /\ Held(tx_in, tx_out) \in Int
      BY <2>1, HeldValue, IndexValue
    <3>2. /\ Room(tx_in, tx_out) \in Int /\ 0 <= Room(tx_in, tx_out)
          /\ Room(tx_in, tx_out) <= BUF_LEN - 1 - Held(tx_in, tx_out)
          /\ tx_in + Room(tx_in, tx_out) <= BUF_LEN
      BY <2>1, StretchFits
    <3>3. n \in Int /\ n <= w.count /\ n <= Room(tx_in, tx_out)
          /\ (n = w.count \/ n = Room(tx_in, tx_out))
      <4>1. w.count \in Int
        BY <2>1, SMT
      <4>2. QED
        BY <3>2, <4>1, LeastFacts, Zenon
    <3> HIDE DEF n
    <3>4. QED
      BY <2>1, <3>1, <3>2, <3>3, SizeFacts, SMT
  <2>3. w' = [w EXCEPT !.at = IF n = 0 THEN "kick" ELSE "fill",
                       !.n = n, !.out = tx_out]
        /\ UNCHANGED <<ring, tx_fifo, isr>>
    BY <1>1 DEF WriteLooks, allButW, port
  <2> HIDE DEF n
  <2>4. /\ w'.n = n /\ w'.count = w.count
        /\ w'.at = "fill" => n # 0
        /\ w'.at # "store"
    BY <2>3 DEF TxInv, WriteCall
  <2>5. w'.at = "fill" => 1 <= w'.n /\ w'.n <= w'.count
    BY <2>2, <2>4, SMT
  <2>6. QED
    BY <2>2, <2>3, <2>4, <2>5 DEF TxInv, TxRoom, ring
<1>2. CASE IsrLooks
  <2>1. Len(tx_fifo) \in Nat
    BY TxFacts DEF TxInv
  <2>2. isr'.space = IF WI THEN FIFO - Len(tx_fifo) ELSE 0
    BY <1>2 DEF IsrLooks
  <2>3. Len(tx_fifo) <= FIFO
    <3>1. isr.space \in Int /\ 0 <= isr.space
      BY SizeFacts, SMT DEF TxInv, IsrState
    <3>2. QED
      BY <2>1, <3>1, SizeFacts, SMT DEF TxInv, TxRoom
  <2>4. Len(tx_fifo) + isr'.space <= FIFO
    BY <2>1, <2>2, <2>3, SizeFacts, SMT
  <2>5. QED
    BY <1>2, <2>4 DEF TxInv, TxRoom, IsrLooks, allButIsr, ring, port, numbers
<1>3. QED
    BY <1>1, <1>2

\* The steps of write() and close() keep the form of a call.
LEMMA WriteCallKept ==
    ASSUME TxInv, Next
    PROVE  w' \in WriteCall
<1>1. w \in WriteCall /\ tx_out \in Index /\ 0 \in Index
  <2>1. 0 \in Index
    BY SizeFacts, IndexValue, SMT
  <2>2. QED
    BY <2>1 DEF TxInv, TxData
<1> USE DEF WriteCall
<1>2. Gone \in BOOLEAN
    BY DEF Gone
<1>3. NoWrite \in WriteCall
    BY <1>1 DEF NoWrite
<1>4. CASE CallWrite
  <2>1. PICK count \in program.counts, nonblock \in program.nonblock :
          w' = [NoWrite EXCEPT !.at = "copy", !.count = count, !.nonblock = nonblock]
    BY <1>4 DEF CallWrite
  <2>2. count \in Nat /\ nonblock \in BOOLEAN
    BY ProgramFacts DEF TxInv
  <2>3. QED
    BY <1>3, <2>1, <2>2
<1>5. CASE WriteLooks
  <2> DEFINE n == Least(Room(tx_in, tx_out), w.count)
  <2>1. Room(tx_in, tx_out) \in Int /\ 0 <= Room(tx_in, tx_out)
    BY StretchFits DEF TxInv, TxData
  <2>2. w.count \in Int /\ 0 <= w.count
    BY <1>1, SMT
  <2>3. n \in Int /\ (n = Room(tx_in, tx_out) \/ n = w.count)
    BY <2>1, <2>2, LeastFacts, Zenon
  <2> HIDE DEF n
  <2>4. n \in Nat
    BY <2>1, <2>2, <2>3, SMT
  <2>5. w' = [w EXCEPT !.at = IF n = 0 THEN "kick" ELSE "fill", !.n = n, !.out = tx_out]
    BY <1>5 DEF WriteLooks, n
  <2>6. QED
    BY <1>1, <2>4, <2>5
<1>6a. CASE WriteCopies
    BY <1>6a, TxCopied DEF WriteCall
<1>6. CASE WriteStores
  <2>1. w.n <= w.count /\ w.n \in Nat /\ w.count \in Nat /\ w.copied \in Nat
    BY <1>1, <1>6 DEF TxInv, TxRoom, WriteStores
  <2>2. w.count - w.n \in Nat /\ w.copied + w.n \in Nat
    BY <2>1, SMT
  <2>3. w' = [w EXCEPT !.at = "copy", !.count = w.count - w.n, !.copied = w.copied + w.n]
    BY <1>1, <1>6 DEF WriteStores
  <2>4. QED
    BY <1>1, <2>2, <2>3
<1>7. CASE WriteKicks
    BY <1>1, <1>2, <1>7 DEF WriteKicks
<1>8. CASE WriteWaits
    BY <1>1, <1>8 DEF WriteWaits
<1>9. CASE WriteChecks
    BY <1>1, <1>9 DEF WriteChecks
<1>10. CASE WriteReturns
    BY <1>3, <1>10 DEF WriteReturns, Result
<1>11. CASE CallClose
  <2>1. PICK nonblock \in program.nonblock :
          w' = [NoWrite EXCEPT !.at = "close", !.nonblock = nonblock, !.gone = Gone]
    BY <1>11 DEF CallClose
  <2>2. nonblock \in BOOLEAN
    BY ProgramFacts DEF TxInv
  <2>3. QED
    BY <1>2, <1>3, <2>1, <2>2
<1>12. CASE CloseReturns
    BY <1>3, <1>12 DEF CloseReturns
<1>13. CASE CallRead \/ Reader
    BY <1>1, <1>13 DEF CallRead, Reader, ReadLooks, ReadTakes, ReadCopies, ReadReleases,
                       ReadWaits, ReadChecks,
                       ReadEnables, ReadReturns, allButR
<1>14. CASE Interrupt
    BY <1>1, <1>14 DEF Interrupt, IsrEnters, IsrLooks, IsrReceives, IsrSends, allButIsr
<1>15. CASE SetTimeout \/ Tick \/ HostTakes \/ HostSends \/ HostPauses \/ Plug
    BY <1>1, <1>15 DEF SetTimeout, Tick, HostTakes, HostSends, HostPauses, Plug
<1>16. QED
    BY <1>4, <1>5, <1>6a, <1>6, <1>7, <1>8, <1>9, <1>10, <1>11, <1>12, <1>13, <1>14,
       <1>15 DEF Next, Writer, WriteFills

LEMMA IsrKept ==
    ASSUME TxInv, Next
    PROVE  isr' \in IsrState
<1> USE DEF IsrState
<1>1. isr \in IsrState /\ 0 \in 0..FIFO
    BY SizeFacts, SMT DEF TxInv
<1>2. CASE IsrLooks
  <2>1. Len(tx_fifo) \in Nat /\ Len(tx_fifo) <= FIFO
    <3>1. Len(tx_fifo) \in Nat /\ isr.space \in Int /\ 0 <= isr.space
      BY <1>1, TxFacts, SizeFacts, SMT DEF TxInv
    <3>2. QED
      BY <3>1, SizeFacts, SMT DEF TxInv, TxRoom
  <2>2. FIFO - Len(tx_fifo) \in 0..FIFO
    BY <2>1, SizeFacts, SMT
  <2>3. WI \in BOOLEAN
    BY DEF WI
  <2>4. QED
    BY <1>1, <1>2, <2>2, <2>3 DEF IsrLooks
<1>3. CASE IsrEnters \/ IsrReceives \/ IsrSends
    BY <1>1, <1>3 DEF IsrEnters, IsrReceives, IsrSends, NoIsr
<1>4. CASE CallRead \/ Reader
    BY <1>1, <1>4 DEF CallRead, Reader, ReadLooks, ReadTakes, ReadCopies, ReadReleases,
                      ReadWaits, ReadChecks,
                      ReadEnables, ReadReturns, allButR
<1>5. CASE CallWrite \/ CallClose \/ Writer
    BY <1>1, <1>5 DEF CallWrite, CallClose, Writer, WriteLooks, WriteFills, WriteCopies,
                      WriteStores, WriteKicks,
                      WriteWaits, WriteChecks, WriteReturns, CloseReturns, allButW
<1>6. CASE SetTimeout \/ Tick \/ HostTakes \/ HostSends \/ HostPauses \/ Plug
    BY <1>1, <1>6 DEF SetTimeout, Tick, HostTakes, HostSends, HostPauses, Plug
<1>7. QED
    BY <1>2, <1>3, <1>4, <1>5, <1>6 DEF Next, Interrupt

\* All other steps leave the way out alone.
TxElsewhere ==
    /\ UNCHANGED tx_data
    /\ w' = w \/ w'.at \notin {"fill", "store"}
    /\ isr'.space = isr.space

LEMMA TxSteps ==
    ASSUME TxInv, Next
    PROVE  WriteFills \/ IsrSends \/ HostTakes \/ WriteLooks \/ IsrLooks \/ TxElsewhere
<1> USE DEF TxElsewhere, tx_data
<1>1. CASE CallRead \/ Reader
    BY <1>1 DEF CallRead, Reader, ReadLooks, ReadTakes, ReadCopies, ReadReleases,
                ReadWaits, ReadChecks,
                ReadEnables, ReadReturns, allButR, ring, port, numbers
<1>2. w \in WriteCall /\ isr \in IsrState
    BY DEF TxInv
<1>3. CASE CallWrite \/ CallClose
  <2>1. w'.at \in {"copy", "close"}
    BY <1>3 DEF CallWrite, CallClose, NoWrite
  <2>2. QED
    BY <1>3, <2>1 DEF CallWrite, CallClose, allButW, ring, port, numbers
<1>4. CASE WriteKicks \/ WriteWaits \/ WriteChecks \/ WriteReturns \/ CloseReturns
  <2>1. w'.at \notin {"fill", "store"}
    BY <1>2, <1>4 DEF WriteKicks, WriteWaits, WriteChecks, WriteReturns, CloseReturns,
                      NoWrite, WriteCall
  <2>2. QED
    BY <1>4, <2>1 DEF WriteKicks, WriteWaits, WriteChecks, WriteReturns, CloseReturns,
                      allButW, ring, port, numbers
<1>5. CASE IsrEnters \/ IsrReceives
    BY <1>2, <1>5 DEF IsrEnters, IsrReceives, allButIsr, ring, port, numbers, IsrState
<1>6. CASE SetTimeout \/ Tick \/ HostSends \/ HostPauses \/ Plug
    BY <1>6 DEF SetTimeout, Tick, HostSends, HostPauses, Plug, ring, port, numbers
<1>7. QED
    BY <1>1, <1>3, <1>4, <1>5, <1>6 DEF Next, Writer, Interrupt

LEMMA TxKept ==
    ASSUME TxInv, Next
    PROVE  TxInv'
<1>1. program' \in PROGRAMS
    BY DEF TxInv, Next, CallWrite, CallClose, Writer, WriteLooks, WriteFills,
           WriteCopies, WriteStores, WriteKicks, WriteWaits, WriteChecks, WriteReturns,
           CloseReturns, allButW, CallRead,
           Reader, ReadLooks, ReadTakes, ReadCopies, ReadReleases, ReadWaits, ReadChecks,
           ReadEnables, ReadReturns,
           allButR, SetTimeout, Interrupt, IsrEnters, IsrLooks, IsrReceives, IsrSends,
           allButIsr, Tick, HostTakes, HostSends, HostPauses, Plug
<1>2. TxData' /\ TxRoom'
  <2>1. CASE WriteFills
    BY <2>1, TxCopied, TxStored DEF WriteFills
  <2>2. CASE IsrSends
    BY <2>2, TxSent
  <2>3. CASE HostTakes
    BY <2>3, TxTaken
  <2>4. CASE WriteLooks \/ IsrLooks
    <3>1. UNCHANGED tx_data
      BY <2>4 DEF WriteLooks, IsrLooks, allButW, allButIsr, tx_data, ring, port, numbers
    <3>2. QED
      BY <2>4, <3>1, TxLooks DEF TxInv, TxData, tx_data
  <2>5. CASE TxElsewhere
    BY <2>5 DEF TxElsewhere, TxInv, TxData, TxRoom, tx_data
  <2>6. QED
    BY <2>1, <2>2, <2>3, <2>4, <2>5, TxSteps
<1>3. QED
    BY <1>1, <1>2, WriteCallKept, IsrKept DEF TxInv

LEMMA TxInvariant == Spec => []TxInv
<1>1. Init => TxInv
  <2> SUFFICES ASSUME Init PROVE TxInv
    OBVIOUS
  <2>1. 0 \in Index /\ 0 \in 0..FIFO
    BY SizeFacts, IndexValue, SMT
  <2>2. w \in WriteCall /\ isr \in IsrState
    BY <2>1 DEF Init, NoWrite, NoIsr, WriteCall, IsrState
  <2>3. Held(tx_in, tx_out) = 0
    BY <2>1, HeldValue, SMT DEF Init
  <2>4. /\ tx_fifo \in Seq(Int) /\ Len(tx_fifo) = 0
        /\ tx_buf \in [Index -> Int]
    BY SMT DEF Init
  <2>5. \A i \in Index : ~ (Held(i, tx_out) < 0)
    BY <2>1, HeldValue, IndexValue, SMT DEF Init
  <2>6. TxData
    BY <2>1, <2>3, <2>4, <2>5, SMT DEF Init, TxData
  <2>7. TxRoom
    BY <2>4, SizeFacts, SMT DEF Init, TxRoom, NoWrite, NoIsr
  <2>8. QED
    BY <2>2, <2>6, <2>7 DEF Init, TxInv
<1>2. TxInv /\ [Next]_vars => TxInv'
  <2>1. ASSUME TxInv, UNCHANGED vars PROVE TxInv'
    BY <2>1 DEF TxInv, TxData, TxRoom, vars, ring, port, numbers
  <2>2. QED
    BY <2>1, TxKept
<1>3. QED
    BY <1>1, <1>2, PTL DEF Spec

(* Every step of the driver is a step of the pipe from write() to the host, or
   no step of it: what write() took arrives, each character once and in
   order, and the pipe holds what ring and FIFO hold. *)
THEOREM WriteIsPipe == Spec => TxIsPipe
<1>1. Init => Tx!Init
    BY DEF Init, Tx!Init
<1>2. TxInv /\ [Next]_vars => [Tx!Next]_<<accepted, heard>>
  <2> SUFFICES ASSUME TxInv, [Next]_vars
               PROVE  [Tx!Next]_<<accepted, heard>>
    OBVIOUS
  <2> DEFINE held == Held(tx_in, tx_out)
  <2>1. /\ held \in Int /\ 0 <= held /\ held <= BUF_LEN - 1
        /\ Len(tx_fifo) \in Nat /\ heard \in Int
        /\ accepted = (heard + Len(tx_fifo)) + held
    BY TxFacts, SMT DEF TxInv, TxData
  <2>2. Len(tx_fifo) <= FIFO
    <3>1. isr.space \in Int /\ 0 <= isr.space
      BY SizeFacts, SMT DEF TxInv, IsrState
    <3>2. QED
      BY <2>1, <3>1, SizeFacts, SMT DEF TxInv, TxRoom
  <2>3a. CASE WriteCopies
    BY <2>3a, TxCopied
  <2>3. CASE WriteStores
    <3>1. w.n \in Int /\ 1 <= w.n /\ w.n <= BUF_LEN - 1 - held
      BY <2>3, SMT DEF TxInv, TxRoom, WriteCall, WriteStores
    <3>2. accepted' = accepted + w.n /\ heard' = heard
      BY <2>3 DEF WriteStores
    <3> HIDE DEF held
    <3>3. accepted' \in accepted + 1 .. heard + (BUF_LEN - 1 + FIFO)
      BY <2>1, <2>2, <3>1, <3>2, SizeFacts, SMT
    <3>4. QED
      BY <3>2, <3>3 DEF Tx!Next, Tx!Send
  <2>4. CASE HostTakes
    <3>1. heard' = heard + 1 /\ accepted' = accepted
      BY <2>4, TxTaken DEF HostTakes
    <3>2. Len(tx_fifo) >= 1
      BY <2>4, SMT DEF HostTakes, TxInv, TxData
    <3> HIDE DEF held
    <3>3. heard < accepted
      BY <2>1, <3>2, SMT
    <3>4. QED
      BY <3>1, <3>3 DEF Tx!Next, Tx!Receive
  <2>5. CASE IsrSends \/ WriteLooks \/ IsrLooks
    BY <2>5 DEF IsrSends, WriteLooks, IsrLooks, allButW, allButIsr, numbers
  <2>6. CASE TxElsewhere
    BY <2>6 DEF TxElsewhere, tx_data
  <2>7. CASE UNCHANGED vars
    BY <2>7 DEF vars, numbers
  <2>8. QED
    BY <2>3a, <2>3, <2>4, <2>5, <2>6, <2>7, TxSteps DEF WriteFills
<1>3. QED
    BY <1>1, <1>2, TxInvariant, PTL DEF Spec, TxIsPipe, Tx!Spec

-----------------------------------------------------------------------------
(* The way in: the FIFO, the interrupt routine, its ring and read(). *)

ReadCall ==
    [at : {"idle", "copy", "take", "wait", "check", "enable", "exit"},
     space : Nat, copied : Nat, nonblock : BOOLEAN, n : Nat, done : Nat, in : Index,
     gone : BOOLEAN, result : {"none", "count", "EWOULDBLOCK", "EIO"}]

\* The last character whose entry read() has given back.
Back == taken - r.done

\* Characters stand in order, those in the ring before those in the FIFO.
RxData ==
    /\ rx_in \in Index /\ rx_out \in Index
    /\ rx_buf \in [Index -> Int]
    /\ taken \in Nat /\ typed \in Nat /\ r.done \in Nat
    /\ rx_fifo \in Seq(Int) /\ Len(rx_fifo) <= FIFO
    /\ \A i \in 1..Len(rx_fifo) : rx_fifo[i] = (Back + Held(rx_in, rx_out)) + i
    /\ \A i \in Index : Held(i, rx_out) < Held(rx_in, rx_out)
         => rx_buf[i] = Back + 1 + Held(i, rx_out)
    /\ typed = (Back + Held(rx_in, rx_out)) + Len(rx_fifo)

\* What read() has seen is still there, and it looks only for want of more.
RxSeen ==
    /\ r.at = "take" => /\ 1 <= r.n /\ r.n <= r.space /\ r.n <= Held(rx_in, rx_out)
                        /\ r.done <= r.n
    /\ r.at # "take" => r.done = 0
    /\ r.at \in {"copy", "wait", "check"} => 1 <= r.space

RxInv ==
    /\ program \in PROGRAMS
    /\ r \in ReadCall
    /\ RxData /\ RxSeen

rx_data == <<rx_buf, rx_in, rx_out, rx_fifo, typed, taken>>

LEMMA RxFacts ==
    ASSUME RxData
    PROVE  /\ Held(rx_in, rx_out) \in Int /\ 0 <= Held(rx_in, rx_out)
           /\ Held(rx_in, rx_out) <= BUF_LEN - 1
           /\ Len(rx_fifo) \in Nat /\ Len(rx_fifo) <= FIFO
           /\ taken \in Int /\ r.done \in Int /\ 0 <= r.done
           /\ Back \in Int /\ Back + Held(rx_in, rx_out) \in Int
<1>1. /\ rx_in \in Index /\ rx_out \in Index /\ Len(rx_fifo) \in Nat
      /\ Len(rx_fifo) <= FIFO /\ taken \in Int /\ r.done \in Int /\ 0 <= r.done
    BY SMT DEF RxData
<1>2. /\ Held(rx_in, rx_out) \in Int /\ 0 <= Held(rx_in, rx_out)
      /\ Held(rx_in, rx_out) <= BUF_LEN - 1
    BY <1>1, HeldValue, IndexValue, SizeFacts, SMT
<1>3. Back \in Int
    BY <1>1, SMT DEF Back
<1>4. Back + Held(rx_in, rx_out) \in Int
    BY <1>2, <1>3, SMT
<1>5. QED
    BY <1>1, <1>2, <1>3, <1>4

LEMMA RxSent ==
    ASSUME RxInv, HostSends
    PROVE  RxData' /\ RxSeen' /\ typed' = typed + 1 /\ taken' = taken
<1> DEFINE base == Back + Held(rx_in, rx_out)
<1>1. base \in Int /\ Len(rx_fifo) \in Nat /\ rx_fifo \in Seq(Int) /\ typed \in Nat
      /\ typed = base + Len(rx_fifo) /\ \A i \in 1..Len(rx_fifo) : rx_fifo[i] = base + i
    BY RxFacts DEF RxInv, RxData
<1>2. /\ rx_fifo' = Append(rx_fifo, typed + 1) /\ typed' = typed + 1 /\ taken' = taken
      /\ UNCHANGED <<rx_buf, rx_in, rx_out, r>> /\ Len(rx_fifo) < FIFO
    BY DEF HostSends, ring
<1> HIDE DEF base
<1>3. /\ rx_fifo' \in Seq(Int) /\ Len(rx_fifo') = Len(rx_fifo) + 1
      /\ \A i \in 1..Len(rx_fifo) : rx_fifo'[i] = rx_fifo[i]
      /\ rx_fifo'[Len(rx_fifo) + 1] = typed + 1
    BY <1>1, <1>2, SMT
<1>4. \A i \in 1..Len(rx_fifo') : rx_fifo'[i] = base + i
  <2> SUFFICES ASSUME NEW i \in 1..Len(rx_fifo') PROVE rx_fifo'[i] = base + i
    OBVIOUS
  <2>1. i \in 1..Len(rx_fifo) \/ i = Len(rx_fifo) + 1
    BY <1>1, <1>3, SMT
  <2>2. typed + 1 = base + (Len(rx_fifo) + 1)
    BY <1>1, SMT
  <2>3. QED
    BY <1>1, <1>3, <2>1, <2>2
<1>5. typed' = base + Len(rx_fifo') /\ typed' \in Nat /\ Len(rx_fifo') <= FIFO
    BY <1>1, <1>2, <1>3, SizeFacts, SMT
<1>6. QED
    BY <1>2, <1>3, <1>4, <1>5 DEF RxInv, RxData, RxSeen, Back, base

LEMMA RxReceived ==
    ASSUME RxInv, IsrReceives
    PROVE  /\ RxData' /\ RxSeen'
           /\ "RE" \in irq_enable /\ "RE" \notin irq_enable' => rx_in' # rx_out'
<1> DEFINE held == Held(rx_in, rx_out)
           n == Least(Len(rx_fifo), RxRoom)
<1>1. /\ held \in Int /\ 0 <= held /\ held <= BUF_LEN - 1
      /\ Len(rx_fifo) \in Int /\ 0 <= Len(rx_fifo) /\ Len(rx_fifo) <= FIFO
      /\ Back \in Int /\ Back + held \in Int
      /\ rx_in \in Index /\ rx_out \in Index
    BY RxFacts, SMT DEF RxInv, RxData
<1>2. RxRoom = BUF_LEN - 1 - held /\ RxRoom \in Int
    BY <1>1, SizeFacts, SMT DEF RxRoom
<1>3. n \in Int /\ n <= RxRoom /\ n <= Len(rx_fifo) /\ (n = RxRoom \/ n = Len(rx_fifo))
    BY <1>1, <1>2, LeastFacts, Zenon
<1> HIDE DEF n, held
<1>4. 0 <= n /\ n \in 0..BUF_LEN - 1 - held
    BY <1>1, <1>2, <1>3, SizeFacts, SMT
<1>5. /\ rx_in' = After(rx_in, n) /\ rx_fifo' = SubSeq(rx_fifo, n + 1, Len(rx_fifo))
      /\ UNCHANGED <<rx_out, r, typed, taken>>
      /\ irq_enable' = IF RxRoom = 0 \/ Len(rx_fifo) > n
                       THEN irq_enable \ {"RE"} ELSE irq_enable
    BY DEF IsrReceives, numbers, n
<1>6. ASSUME NEW i \in Index
      PROVE  rx_buf'[i] = IF Held(i, rx_in) < n THEN rx_fifo[1 + Held(i, rx_in)]
                          ELSE rx_buf[i]
    BY <1>6 DEF IsrReceives, Held, n
<1>7. /\ rx_in' \in Index /\ Held(rx_in', rx_out) = held + n
      /\ \A i \in Index : Held(i, rx_out) < Held(rx_in', rx_out)
           => IF Held(i, rx_in) < n THEN Held(i, rx_out) = held + Held(i, rx_in)
              ELSE Held(i, rx_out) < held
    BY <1>1, <1>4, <1>5, PutIn DEF held
<1>8. \A i \in 1..Len(rx_fifo) : rx_fifo[i] = (Back + held) + i
    BY DEF RxInv, RxData, held
<1>9. ASSUME NEW i \in Index, Held(i, rx_out) < Held(rx_in', rx_out)
      PROVE  rx_buf'[i] = Back + 1 + Held(i, rx_out)
  <2>1. Held(i, rx_in) \in Int /\ 0 <= Held(i, rx_in)
    BY <1>1, HeldValue, IndexValue
  <2>2. CASE Held(i, rx_in) < n
    <3>1. 1 + Held(i, rx_in) \in 1..Len(rx_fifo)
      BY <1>1, <1>3, <2>1, <2>2, SMT
    <3>2. rx_buf'[i] = (Back + held) + (1 + Held(i, rx_in))
      BY <1>6, <1>8, <2>2, <3>1
    <3>3. Held(i, rx_out) = held + Held(i, rx_in)
      BY <1>7, <1>9, <2>2
    <3>4. QED
      BY <1>1, <2>1, <3>2, <3>3, SMT
  <2>3. CASE ~ (Held(i, rx_in) < n)
    <3>1. Held(i, rx_out) < held
      BY <1>7, <1>9, <2>3
    <3>2. QED
      BY <1>6, <2>3, <3>1 DEF RxInv, RxData, held
  <2>4. QED
    BY <2>2, <2>3
<1>10. rx_buf' \in [Index -> Int]
  <2>1. rx_buf' = [i \in Index |-> IF Held(i, rx_in) < n THEN rx_fifo[1 + Held(i, rx_in)]
                                   ELSE rx_buf[i]]
    BY DEF IsrReceives, Held, n
  <2>2. ASSUME NEW i \in Index, Held(i, rx_in) < n
        PROVE  rx_fifo[1 + Held(i, rx_in)] \in Int
    <3>1. Held(i, rx_in) \in Int /\ 0 <= Held(i, rx_in)
      BY <1>1, HeldValue, IndexValue
    <3>2. 1 + Held(i, rx_in) \in 1..Len(rx_fifo)
      BY <1>1, <1>3, <2>2, <3>1, SMT
    <3>3. QED
      BY <3>2, SMT DEF RxInv, RxData
  <2>3. rx_buf \in [Index -> Int]
    BY DEF RxInv, RxData
  <2>4. QED
    BY <2>1, <2>2, <2>3
<1>11. /\ rx_fifo' \in Seq(Int) /\ Len(rx_fifo') = Len(rx_fifo) - n
       /\ \A i \in 1..Len(rx_fifo') : rx_fifo'[i] = rx_fifo[n + i]
  <2>1. rx_fifo \in Seq(Int)
    BY DEF RxInv, RxData
  <2>2. QED
    BY <1>1, <1>3, <1>4, <1>5, <2>1, SMT
<1>12. \A i \in 1..Len(rx_fifo') : rx_fifo'[i] = (Back + (held + n)) + i
  <2> SUFFICES ASSUME NEW i \in 1..Len(rx_fifo')
               PROVE  rx_fifo'[i] = (Back + (held + n)) + i
    OBVIOUS
  <2>1. i \in Int /\ n + i \in 1..Len(rx_fifo)
    BY <1>1, <1>3, <1>4, <1>11, SMT
  <2>2. rx_fifo'[i] = (Back + held) + (n + i)
    BY <1>8, <1>11, <2>1
  <2>3. QED
    BY <1>1, <1>3, <2>1, <2>2, SMT
<1>13. /\ typed = (Back + (held + n)) + Len(rx_fifo')
       /\ Len(rx_fifo') <= FIFO
  <2>1. typed = (Back + held) + Len(rx_fifo)
    BY DEF RxInv, RxData, held
  <2>2. QED
    BY <1>1, <1>3, <1>4, <1>11, <2>1, SizeFacts, SMT
<1>14. RxData'
    BY <1>5, <1>7, <1>9, <1>10, <1>11, <1>12, <1>13 DEF RxInv, RxData, Back
<1>15. RxSeen'
  <2>1. ASSUME r.at = "take"
        PROVE  1 <= r.n /\ r.n <= r.space /\ r.n <= held + n
    <3>1. r.n \in Int /\ 1 <= r.n /\ r.n <= r.space /\ r.n <= held
      BY <2>1, SMT DEF RxInv, RxSeen, ReadCall, held
    <3>2. QED
      BY <1>1, <1>3, <1>4, <3>1, SMT
  <2>2. QED
    BY <1>5, <1>7, <2>1 DEF RxInv, RxSeen
<1>16. ASSUME "RE" \in irq_enable, "RE" \notin irq_enable'
       PROVE  rx_in' # rx_out'
  <2>1. RxRoom = 0 \/ Len(rx_fifo) > n
    BY <1>5, <1>16
  <2>2. held + n # 0
    BY <1>1, <1>2, <1>3, <1>4, <2>1, SizeFacts, SMT
  <2>3. Held(rx_out, rx_out) = 0
    BY <1>1, HeldValue, IndexValue, SMT
  <2>4. QED
    BY <1>5, <1>7, <2>2, <2>3
<1>17. QED
    BY <1>14, <1>15, <1>16

LEMMA RxCopied ==
    ASSUME RxInv, ReadCopies
    PROVE  /\ RxData' /\ RxSeen' /\ r' \in ReadCall /\ taken' = taken + 1
           /\ r'.at = "take"
           /\ UNCHANGED <<rx_in, rx_out, typed, irq_enable>>
           /\ Back < Back + Held(rx_in, rx_out)
           /\ taken < Back + Held(rx_in, rx_out)
<1> DEFINE held == Held(rx_in, rx_out)
<1>1. /\ r.at = "take" /\ r.done < r.n
      /\ taken' = rx_buf[After(rx_out, r.done)] /\ r' = [r EXCEPT !.done = r.done + 1]
      /\ UNCHANGED <<rx_buf, rx_in, rx_out, rx_fifo, typed, irq_enable>>
    BY DEF ReadCopies, ring, port, RxInv, ReadCall
<1>2. /\ r.n \in Int /\ 1 <= r.n /\ r.n <= held /\ r.n <= r.space
      /\ r.done \in Nat /\ r.done \in Int /\ 0 <= r.done
    BY <1>1, SMT DEF RxInv, RxSeen, ReadCall
<1>3. /\ held \in Int /\ held <= BUF_LEN - 1 /\ taken \in Int /\ Back \in Int
      /\ rx_in \in Index /\ rx_out \in Index
    BY RxFacts DEF RxInv, RxData
<1>4. r.done \in Index /\ r.done < held
    BY <1>1, <1>2, <1>3, SizeFacts, SMT DEF Index
<1>5. rx_buf[After(rx_out, r.done)] = Back + 1 + r.done
  <2>1. /\ After(rx_out, r.done) \in Index
        /\ Held(After(rx_out, r.done), rx_out) = r.done
    BY <1>3, <1>4, EntryAt
  <2>2. QED
    BY <1>4, <2>1 DEF RxInv, RxData
<1> HIDE DEF held
<1>6. taken' = taken + 1 /\ taken' \in Nat
  <2>1. Back + 1 + r.done = taken + 1
    BY <1>2, <1>3, SMT DEF Back
  <2>2. taken + 1 \in Nat
    BY SMT DEF RxInv, RxData
  <2>3. QED
    BY <1>1, <1>5, <2>1, <2>2
<1>7. /\ r' \in ReadCall /\ r'.done = r.done + 1 /\ r'.done \in Nat
      /\ r'.at = "take" /\ r'.n = r.n /\ r'.space = r.space
  <2>1. r.done + 1 \in Nat
    BY <1>2, SMT
  <2>2. QED
    BY <1>1, <2>1 DEF RxInv, ReadCall
<1>8. Back' = Back
  <2>1. (taken + 1) - (r.done + 1) = taken - r.done
    BY <1>2, <1>3, SMT
  <2>2. Back' = taken' - r'.done
    BY DEF Back
  <2>3. QED
    BY <1>6, <1>7, <2>1, <2>2 DEF Back
<1>9. RxData'
    BY <1>1, <1>6, <1>7, <1>8 DEF RxInv, RxData
<1>10. RxSeen'
  <2>1. r.done + 1 <= r.n
    BY <1>1, <1>2, SMT
  <2>2. QED
    BY <1>1, <1>7, <2>1 DEF RxInv, RxSeen
<1>11. Back < Back + held /\ taken < Back + held
    BY <1>1, <1>2, <1>3, SMT DEF Back
<1>12. QED
    BY <1>1, <1>6, <1>7, <1>9, <1>10, <1>11 DEF held

LEMMA RxReleased ==
    ASSUME RxInv, ReadReleases
    PROVE  RxData' /\ RxSeen' /\ UNCHANGED <<taken, typed>>
<1> DEFINE held == Held(rx_in, rx_out)
<1>1. /\ r.n \in Int /\ 1 <= r.n /\ r.n <= held /\ r.n <= r.space /\ r.done = r.n
    BY SMT DEF RxInv, RxSeen, ReadReleases, ReadCall
<1>2. /\ held \in Int /\ held <= BUF_LEN - 1 /\ Len(rx_fifo) \in Nat /\ Back \in Int
      /\ taken \in Nat /\ taken \in Int /\ rx_in \in Index /\ rx_out \in Index
    BY RxFacts DEF RxInv, RxData
<1>3. r.n \in 0..held
    BY <1>1, <1>2, SMT
<1> HIDE DEF held
<1>4. /\ rx_out' = After(rx_out, r.n)
      /\ UNCHANGED <<rx_buf, rx_in, rx_fifo, typed, taken>>
    BY DEF ReadReleases, port, numbers
<1>5. /\ r'.at = IF r.space = r.n THEN "enable" ELSE "copy"
      /\ r'.space = r.space - r.n /\ r'.done = 0
    BY DEF ReadReleases, RxInv, ReadCall
<1>6. Back' = Back + r.n
  <2>1. Back' = taken' - r'.done
    BY DEF Back
  <2>2. taken - 0 = (taken - r.n) + r.n
    BY <1>1, <1>2, SMT
  <2>3. QED
    BY <1>1, <1>4, <1>5, <2>1, <2>2 DEF Back
<1>7. /\ rx_out' \in Index /\ Held(rx_in, rx_out') = held - r.n
      /\ \A i \in Index : Held(i, rx_out') < Held(rx_in, rx_out')
           => Held(i, rx_out) = Held(i, rx_out') + r.n
    BY <1>2, <1>3, <1>4, TakenOut DEF held
<1>8. (Back + r.n) + (held - r.n) = Back + held
    BY <1>1, <1>2, SMT
<1>9. ASSUME NEW i \in Index, Held(i, rx_out') < Held(rx_in, rx_out')
      PROVE  rx_buf[i] = (Back + r.n) + 1 + Held(i, rx_out')
  <2>1. Held(i, rx_out) = Held(i, rx_out') + r.n /\ Held(i, rx_out') \in Int
    BY <1>7, <1>9, HeldValue, IndexValue
  <2>2. Held(i, rx_out) < held
    BY <1>1, <1>2, <1>7, <1>9, <2>1, SMT
  <2>3. rx_buf[i] = Back + 1 + Held(i, rx_out)
    BY <2>2 DEF RxInv, RxData, held
  <2>4. QED
    BY <1>1, <1>2, <2>1, <2>3, SMT
<1>10. RxData'
  <2>1. r'.done \in Nat
    BY <1>5
  <2>2. QED
    BY <1>4, <1>6, <1>7, <1>8, <1>9, <2>1 DEF RxInv, RxData, held
<1>11. r'.at # "take"
    BY <1>5
<1>12. r'.at \in {"copy", "wait", "check"} => 1 <= r'.space
  <2>1. r.space \in Int
    BY SMT DEF RxInv, ReadCall
  <2>2. r'.at \in {"copy", "wait", "check"} => r.space # r.n
    BY <1>5
  <2>3. QED
    BY <1>1, <1>5, <2>1, <2>2, SMT
<1>13. QED
    BY <1>4, <1>5, <1>10, <1>11, <1>12 DEF RxSeen

LEMMA RxLooks ==
    ASSUME RxInv, ReadLooks
    PROVE  /\ RxSeen' /\ UNCHANGED rx_data /\ r' \in ReadCall /\ r'.done = r.done
           /\ r'.at \in {"take", "enable", "exit", "wait"}
           /\ r'.at \in {"exit", "wait"} => rx_in = rx_out /\ r.copied = 0
           /\ r'.at = "take" => rx_in # rx_out
<1> DEFINE n == Least(Ready(rx_in, rx_out), r.space)
           to == IF n > 0 THEN "take" ELSE IF r.copied > 0 THEN "enable"
                 ELSE IF r.nonblock THEN "exit" ELSE "wait"
<1>1. /\ rx_in \in Index /\ rx_out \in Index /\ r.space \in Int /\ 1 <= r.space
      /\ r.copied \in Nat /\ r.done = 0
    BY SMT DEF RxInv, RxData, RxSeen, ReadCall, ReadLooks
<1>2. /\ Ready(rx_in, rx_out) \in Int /\ 0 <= Ready(rx_in, rx_out)
      /\ Ready(rx_in, rx_out) <= Held(rx_in, rx_out)
      /\ Ready(rx_in, rx_out) = 0 <=> rx_in = rx_out
    BY <1>1, StretchFits
<1>3. /\ n \in Int /\ n <= r.space /\ n <= Ready(rx_in, rx_out)
      /\ (n = Ready(rx_in, rx_out) \/ n = r.space)
    BY <1>1, <1>2, LeastFacts, Zenon
<1>4. r' = [r EXCEPT !.at = to, !.n = n, !.in = rx_in, !.gone = Gone]
      /\ UNCHANGED rx_data
    BY DEF ReadLooks, allButR, ring, port, numbers, rx_data
<1> HIDE DEF n
<1>5. n \in Nat /\ n <= Held(rx_in, rx_out) /\ (n = 0 <=> rx_in = rx_out)
  <2>1. Held(rx_in, rx_out) \in Int
    BY RxFacts DEF RxInv
  <2>2. QED
    BY <1>1, <1>2, <1>3, <2>1, SMT
<1>6. n > 0 <=> rx_in # rx_out
    BY <1>5, SMT
<1>7. to \in {"take", "enable", "exit", "wait"} /\ Gone \in BOOLEAN
    BY DEF Gone
<1>8. /\ to \in {"exit", "wait"} => rx_in = rx_out /\ r.copied = 0
      /\ to = "take" => rx_in # rx_out /\ n > 0
  <2>1. r.copied > 0 \/ r.copied = 0
    BY <1>1, SMT
  <2>2. QED
    BY <1>6, <2>1
<1> HIDE DEF to
<1>9. r'.at = to /\ r'.n = n /\ r'.space = r.space /\ r'.done = r.done
    BY <1>4 DEF RxInv, ReadCall
<1>10. r' \in ReadCall
    BY <1>1, <1>4, <1>5, <1>7 DEF RxInv, ReadCall
<1>11. RxSeen'
  <2>1. n > 0 => 1 <= n
    BY <1>5, SMT
  <2>2. Held(rx_in', rx_out') = Held(rx_in, rx_out) /\ r'.done = 0
    BY <1>1, <1>4, <1>9 DEF rx_data
  <2>2a. 0 <= n
    BY <1>5, SMT
  <2>3. QED
    BY <1>1, <1>3, <1>5, <1>7, <1>8, <1>9, <2>1, <2>2, <2>2a DEF RxSeen
<1>12. QED
    BY <1>4, <1>7, <1>8, <1>9, <1>10, <1>11

\* All other steps leave the way in alone.
RxElsewhere == UNCHANGED rx_data /\ r' \in ReadCall /\ r'.done = r.done /\ RxSeen'

\* A call that goes on with nothing seen has seen nothing wrong.
LEMMA RxSeenKept ==
    ASSUME RxInv, UNCHANGED <<rx_in, rx_out>>, r'.done = r.done,
           r.at # "take",
           \/ r'.at \in {"idle", "enable", "exit"}
           \/ r'.at \in {"copy", "wait", "check"} /\ 1 <= r'.space
    PROVE  RxSeen'
BY DEF RxInv, RxSeen

LEMMA RxSteps ==
    ASSUME RxInv, Next
    PROVE  HostSends \/ IsrReceives \/ ReadTakes \/ ReadLooks \/ RxElsewhere
<1> USE DEF RxElsewhere
<1>1. r \in ReadCall /\ NoRead \in ReadCall
  <2>1. 0 \in Index
    BY SizeFacts, IndexValue, SMT
  <2>2. NoRead \in ReadCall
    BY <2>1 DEF NoRead, ReadCall
  <2>3. QED
    BY <2>2 DEF RxInv
<1>1a. NoRead.done = 0 /\ (r.at # "take" => r.done = 0)
    BY DEF RxInv, RxSeen, NoRead
<1>2. CASE CallWrite \/ CallClose \/ Writer
  <2>1. r' = r /\ r'.done = r.done /\ UNCHANGED rx_data
    BY <1>2 DEF CallWrite, CallClose, Writer, WriteLooks, WriteFills, WriteCopies,
                WriteStores, WriteKicks,
                WriteWaits, WriteChecks, WriteReturns, CloseReturns, allButW,
                ring, port, numbers, rx_data
  <2>2. QED
    BY <1>1, <2>1 DEF RxInv, RxSeen, rx_data
<1>3. CASE CallRead
  <2>1. PICK space \in program.spaces, nonblock \in program.nonblock :
          r' = [NoRead EXCEPT !.at = "copy", !.space = space, !.nonblock = nonblock]
    BY <1>3 DEF CallRead
  <2>2. space \in Nat /\ space >= 1 /\ nonblock \in BOOLEAN
    BY ProgramFacts DEF RxInv
  <2>3. /\ r' \in ReadCall /\ r'.at = "copy" /\ r'.space = space
        /\ r.at = "idle" /\ r'.done = r.done
    BY <1>1, <1>1a, <1>3, <2>1, <2>2 DEF ReadCall, CallRead
  <2>4. UNCHANGED rx_data /\ 1 <= r'.space
    BY <1>3, <2>2, <2>3, SMT DEF CallRead, allButR, ring, port, numbers, rx_data
  <2>5. QED
    BY <2>3, <2>4, RxSeenKept DEF rx_data
<1>4. CASE ReadWaits \/ ReadChecks
  <2>1. r.at # "take" /\ 1 <= r.space
    BY <1>4 DEF ReadWaits, ReadChecks, RxInv, RxSeen
  <2>2. PICK at \in {"check", "exit", "copy"} : r' = [r EXCEPT !.at = at]
    BY <1>4 DEF ReadWaits, ReadChecks
  <2>3. r' \in ReadCall /\ r'.at = at /\ r'.space = r.space /\ r'.done = r.done
    BY <1>1, <2>2 DEF ReadCall
  <2>4. UNCHANGED rx_data
    BY <1>4 DEF ReadWaits, ReadChecks, allButR, ring, port, numbers, rx_data
  <2>5. QED
    BY <2>1, <2>3, <2>4, RxSeenKept DEF rx_data
<1>5. CASE ReadEnables \/ ReadReturns
  <2>0. r.at # "take" /\ r.done = 0
    BY <1>1a, <1>5 DEF ReadEnables, ReadReturns
  <2>1. r' \in ReadCall /\ r'.at \in {"idle", "exit"} /\ r'.done = 0
    <3>1. CASE ReadEnables
      <4>1. r' = [r EXCEPT !.at = "exit"]
        BY <3>1 DEF ReadEnables
      <4>2. QED
        BY <1>1, <2>0, <4>1 DEF ReadCall
    <3>2. CASE ReadReturns
      <4>1. r' = [NoRead EXCEPT !.result = Result(r)]
        BY <3>2 DEF ReadReturns
      <4>2. Result(r) \in {"count", "EWOULDBLOCK", "EIO"}
        BY DEF Result
      <4>3. NoRead \in ReadCall /\ NoRead.at = "idle" /\ NoRead.done = 0
        BY <1>1 DEF NoRead, ReadCall
      <4>4. QED
        BY <4>1, <4>2, <4>3 DEF ReadCall
    <3>3. QED
      BY <1>5, <3>1, <3>2
  <2>2. UNCHANGED rx_data
    BY <1>5 DEF ReadEnables, ReadReturns, allButR, ring, port, numbers, rx_data
  <2>3. QED
    BY <2>0, <2>1, <2>2, RxSeenKept DEF rx_data
<1>6. CASE IsrEnters \/ IsrLooks \/ IsrSends
  <2>1. r' = r /\ r'.done = r.done /\ UNCHANGED rx_data
    BY <1>6 DEF IsrEnters, IsrLooks, IsrSends, allButIsr, ring, port, numbers, rx_data
  <2>2. QED
    BY <1>1, <2>1 DEF RxInv, RxSeen, rx_data
<1>7. CASE SetTimeout \/ Tick \/ HostTakes \/ HostPauses \/ Plug
  <2>1. r' = r /\ r'.done = r.done /\ UNCHANGED rx_data
    BY <1>7 DEF SetTimeout, Tick, HostTakes, HostPauses, Plug, ring, port, numbers, rx_data
  <2>2. QED
    BY <1>1, <2>1 DEF RxInv, RxSeen, rx_data
<1>8. QED
    BY <1>2, <1>3, <1>4, <1>5, <1>6, <1>7 DEF Next, Reader, Interrupt

LEMMA RxKept ==
    ASSUME RxInv, Next, program' \in PROGRAMS
    PROVE  RxInv'
<1>1. CASE HostSends
    BY <1>1, RxSent DEF RxInv, HostSends
<1>2. CASE IsrReceives
    BY <1>2, RxReceived DEF RxInv, IsrReceives
<1>3a. CASE ReadCopies
    BY <1>3a, RxCopied DEF RxInv
<1>3. CASE ReadReleases
  <2>1. /\ r.n \in Nat /\ r.space \in Nat /\ r.n <= r.space /\ r.copied \in Nat
    BY <1>3 DEF RxInv, RxSeen, ReadCall, ReadReleases
  <2>2. r.space - r.n \in Nat /\ r.copied + r.n \in Nat
    BY <2>1, SMT
  <2>3. r' = [r EXCEPT !.at = IF r.space = r.n THEN "enable" ELSE "copy",
                       !.space = r.space - r.n, !.copied = r.copied + r.n,
                       !.done = 0]
    BY <1>3 DEF ReadReleases, RxInv, ReadCall
  <2>4. r' \in ReadCall
    BY <2>2, <2>3 DEF RxInv, ReadCall
  <2>5. QED
    BY <1>3, <2>4, RxReleased DEF RxInv
<1>4. CASE ReadLooks
    BY <1>4, RxLooks DEF RxInv, RxData, rx_data, Back
<1>5. CASE RxElsewhere
    BY <1>5 DEF RxElsewhere, RxInv, RxData, rx_data, Back
<1>6. QED
    BY <1>1, <1>2, <1>3a, <1>3, <1>4, <1>5, RxSteps DEF ReadTakes

LEMMA RxInvariant == Spec => []RxInv
<1>1. Init => RxInv
  <2> SUFFICES ASSUME Init PROVE RxInv
    OBVIOUS
  <2>1. 0 \in Index
    BY SizeFacts, IndexValue, SMT
  <2>2. r \in ReadCall
    BY <2>1 DEF Init, NoRead, ReadCall
  <2>3. Held(rx_in, rx_out) = 0
    BY <2>1, HeldValue, SMT DEF Init
  <2>4. /\ rx_fifo \in Seq(Int) /\ Len(rx_fifo) = 0
        /\ rx_buf \in [Index -> Int]
    BY SMT DEF Init
  <2>5. \A i \in Index : ~ (Held(i, rx_out) < 0)
    BY <2>1, HeldValue, IndexValue, SMT DEF Init
  <2>6. RxData
    BY <2>1, <2>3, <2>4, <2>5, SizeFacts, SMT DEF Init, RxData, Back, NoRead
  <2>7. RxSeen
    BY DEF Init, RxSeen, NoRead
  <2>8. QED
    BY <2>2, <2>6, <2>7 DEF Init, RxInv
<1>2. TxInv /\ TxInv' /\ RxInv /\ [Next]_vars => RxInv'
  <2>1. ASSUME RxInv, UNCHANGED vars PROVE RxInv'
    BY <2>1 DEF RxInv, RxData, RxSeen, Back, vars, ring, port, numbers
  <2>2. QED
    BY <2>1, RxKept DEF TxInv
<1>3. QED
    BY <1>1, <1>2, TxInvariant, PTL DEF Spec

(* The other way as well: what the host sent is what calls of read() return,
   each character once and in order, whichever routine moves it. *)
THEOREM ReadIsPipe == Spec => RxIsPipe
<1>1. Init => Rx!Init
    BY DEF Init, Rx!Init
<1>2. RxInv /\ [Next]_vars => [Rx!Next]_<<typed, taken>>
  <2> SUFFICES ASSUME RxInv, [Next]_vars
               PROVE  [Rx!Next]_<<typed, taken>>
    OBVIOUS
  <2> DEFINE held == Held(rx_in, rx_out)
  <2>1. /\ held \in Int /\ 0 <= held /\ held <= BUF_LEN - 1
        /\ Len(rx_fifo) \in Nat /\ taken \in Int /\ Back \in Int /\ Back <= taken
        /\ typed = (Back + held) + Len(rx_fifo)
    BY RxFacts, SMT DEF RxInv, RxData, Back
  <2>2. CASE HostSends
    <3>1. typed' = typed + 1 /\ taken' = taken /\ Len(rx_fifo) < FIFO
      BY <2>2, RxSent DEF HostSends
    <3> HIDE DEF held
    <3>2. typed' \in typed + 1 .. taken + (BUF_LEN - 1 + FIFO)
      BY <2>1, <3>1, SizeFacts, SMT
    <3>3. QED
      BY <3>1, <3>2 DEF Rx!Next, Rx!Send
  <2>3. CASE ReadCopies
    <3>1. taken' = taken + 1 /\ typed' = typed /\ taken < Back + held
      BY <2>3, RxCopied
    <3> HIDE DEF held
    <3>2. taken < typed
      BY <2>1, <3>1, SMT
    <3>3. QED
      BY <3>1, <3>2 DEF Rx!Next, Rx!Receive
  <2>3a. CASE ReadReleases
    BY <2>3a, RxReleased
  <2>4. CASE IsrReceives \/ ReadLooks
    BY <2>4 DEF IsrReceives, ReadLooks, allButR, numbers
  <2>5. CASE RxElsewhere
    BY <2>5 DEF RxElsewhere, rx_data
  <2>6. CASE UNCHANGED vars
    BY <2>6 DEF vars, numbers
  <2>7. QED
    BY <2>2, <2>3, <2>3a, <2>4, <2>5, <2>6, RxSteps DEF ReadTakes
<1>3. QED
    BY <1>1, <1>2, RxInvariant, PTL DEF Spec, RxIsPipe, Rx!Spec

-----------------------------------------------------------------------------
(* The requests. *)

\* A call of read() that has taken characters enables the request before it
\* returns; one that has not finds it on, or characters.
MaskInv ==
    /\ isr.at = "rx" => "RE" \in irq_enable
    /\ tx_in # tx_out => "WE" \in irq_enable \/ w.at \in {"copy", "fill", "store", "kick"}
    /\ "RE" \notin irq_enable =>
         rx_in # rx_out \/ r.at = "enable" \/ (r.at = "copy" /\ r.copied > 0)

LEMMA RequestKept ==
    ASSUME MaskInv, TxInv, RxInv, Next
    PROVE  isr'.at = "rx" => "RE" \in irq_enable'
<1>1. isr \in IsrState
    BY DEF TxInv
<1>2. CASE IsrEnters \/ IsrLooks \/ IsrReceives \/ IsrSends
  <2>1. CASE IsrLooks
    BY <2>1 DEF IsrLooks, RI, allButIsr
  <2>2. CASE IsrEnters \/ IsrReceives \/ IsrSends
    BY <1>1, <2>2 DEF IsrEnters, IsrReceives, IsrSends, NoIsr, IsrState
  <2>3. QED
    BY <1>2, <2>1, <2>2
<1>3. CASE CallRead \/ Reader
    BY <1>3 DEF MaskInv, CallRead, Reader, ReadLooks, ReadTakes, ReadCopies,
                ReadReleases, ReadWaits, ReadChecks,
                ReadEnables, ReadReturns, allButR
<1>4. CASE CallWrite \/ CallClose \/ Writer
    BY <1>4 DEF MaskInv, CallWrite, CallClose, Writer, WriteLooks, WriteFills,
                WriteCopies, WriteStores, WriteKicks,
                WriteWaits, WriteChecks, WriteReturns, CloseReturns, allButW
<1>5. CASE SetTimeout \/ Tick \/ HostTakes \/ HostSends \/ HostPauses \/ Plug
    BY <1>5 DEF MaskInv, SetTimeout, Tick, HostTakes, HostSends, HostPauses, Plug
<1>6. QED
    BY <1>2, <1>3, <1>4, <1>5 DEF Next, Interrupt

LEMMA SendingKept ==
    ASSUME MaskInv, TxInv, RxInv, Next
    PROVE  tx_in' # tx_out' => \/ "WE" \in irq_enable'
                               \/ w'.at \in {"copy", "fill", "store", "kick"}
<1>1. w \in WriteCall /\ isr \in IsrState /\ tx_in \in Index /\ tx_out \in Index
    BY DEF TxInv, TxData
<1>2. CASE CallWrite \/ WriteLooks \/ WriteFills
    BY <1>1, <1>2 DEF CallWrite, WriteLooks, WriteFills, WriteCopies, WriteStores,
                      NoWrite, WriteCall
<1>3. CASE WriteKicks
    BY <1>3 DEF WriteKicks
<1>4. CASE CallClose \/ WriteWaits \/ WriteChecks \/ WriteReturns \/ CloseReturns
  <2>1. w.at \notin {"copy", "fill", "store", "kick"}
        /\ UNCHANGED <<tx_in, tx_out, irq_enable>>
    BY <1>4 DEF CallClose, WriteWaits, WriteChecks, WriteReturns, CloseReturns, allButW,
                ring
  <2>2. QED
    BY <2>1 DEF MaskInv
<1>5. CASE CallRead \/ Reader
    BY <1>5 DEF MaskInv, CallRead, Reader, ReadLooks, ReadTakes, ReadCopies,
                ReadReleases, ReadWaits, ReadChecks,
                ReadEnables, ReadReturns, allButR, ring
<1>6. CASE IsrEnters \/ IsrLooks \/ IsrReceives
    BY <1>6 DEF MaskInv, IsrEnters, IsrLooks, IsrReceives, allButIsr, ring
<1>7. CASE IsrSends
  <2> DEFINE held == Held(tx_in, tx_out)
             n == Least(isr.space, held)
  <2>1. /\ held \in Int /\ 0 <= held /\ isr.space \in Int /\ 0 <= isr.space
        /\ held = 0 <=> tx_in = tx_out
    BY <1>1, HeldValue, IndexValue, SizeFacts, SMT DEF IsrState
  <2>2. n \in Int /\ n <= held /\ n <= isr.space /\ (n = held \/ n = isr.space)
    BY <2>1, LeastFacts, Zenon
  <2>3. /\ tx_in' = tx_in /\ w' = w /\ tx_out' \in Index
        /\ Held(tx_in, tx_out') = held - n
        /\ irq_enable' = IF isr.space > n THEN irq_enable \ {"WE"} ELSE irq_enable
    BY <1>7, TxSent DEF IsrSends, TxData
  <2>4. Held(tx_in, tx_out') = 0 <=> tx_in = tx_out'
    BY <1>1, <2>3, HeldValue, IndexValue, SizeFacts, SMT
  <2> HIDE DEF held, n
  <2>5. CASE tx_in = tx_out'
    BY <2>3, <2>5
  <2>6. CASE tx_in # tx_out'
    <3>1. held # 0 /\ ~ (isr.space > n)
      BY <2>1, <2>2, <2>3, <2>4, <2>6, SMT
    <3>2. QED
      BY <2>1, <2>3, <3>1 DEF MaskInv
  <2>7. QED
    BY <2>5, <2>6
<1>8. CASE SetTimeout \/ Tick \/ HostTakes \/ HostSends \/ HostPauses \/ Plug
    BY <1>8 DEF MaskInv, SetTimeout, Tick, HostTakes, HostSends, HostPauses, Plug, ring
<1>9. QED
    BY <1>2, <1>3, <1>4, <1>5, <1>6, <1>7, <1>8 DEF Next, Writer, Interrupt

LEMMA ReceivingKept ==
    ASSUME MaskInv, TxInv, RxInv, Next
    PROVE  "RE" \notin irq_enable' =>
             rx_in' # rx_out' \/ r'.at = "enable" \/ (r'.at = "copy" /\ r'.copied > 0)
<1>1. r \in ReadCall
    BY DEF RxInv
<1>2. CASE CallWrite \/ CallClose \/ Writer
    BY <1>2 DEF MaskInv, CallWrite, CallClose, Writer, WriteLooks, WriteFills,
                WriteCopies, WriteStores, WriteKicks,
                WriteWaits, WriteChecks, WriteReturns, CloseReturns, allButW, ring
<1>3. CASE CallRead \/ ReadWaits \/ ReadChecks \/ ReadReturns
  <2>1. /\ r.at \in {"idle", "wait", "check", "exit"}
        /\ UNCHANGED <<rx_in, rx_out, irq_enable>>
    BY <1>3 DEF CallRead, ReadWaits, ReadChecks, ReadReturns, allButR, ring
  <2>2. QED
    BY <2>1 DEF MaskInv
<1>4. CASE ReadLooks
  <2>1. r.at = "copy" /\ irq_enable' = irq_enable /\ UNCHANGED rx_data
    BY <1>4, RxLooks DEF ReadLooks, allButR
  <2>2. r'.at \in {"exit", "wait"} => rx_in = rx_out /\ ~ (r.copied > 0)
    BY <1>4, RxLooks, SMT
  <2>3. QED
    BY <1>4, <2>1, <2>2, RxLooks DEF MaskInv, rx_data
<1>5a. CASE ReadCopies
  <2>1. rx_in # rx_out
    <3>1. 1 <= Held(rx_in, rx_out) /\ rx_in \in Index /\ Held(rx_in, rx_out) \in Int
      <4>1. /\ r.n \in Int /\ 1 <= r.n /\ r.n <= Held(rx_in, rx_out)
            /\ Held(rx_in, rx_out) \in Int /\ rx_in \in Index
        BY <1>5a, RxFacts, SMT DEF RxInv, RxData, RxSeen, ReadCall, ReadCopies
      <4>2. QED
        BY <4>1, SMT
    <3>2. Held(rx_in, rx_in) = 0
      BY <3>1, HeldValue, IndexValue, SMT
    <3>3. Held(rx_in, rx_out) # 0
      BY <3>1, SMT
    <3>4. QED
      BY <3>2, <3>3
  <2>2. QED
    BY <1>5a, <2>1, RxCopied
<1>5. CASE ReadReleases
  <2>1. r.n \in Int /\ 1 <= r.n /\ r.copied \in Nat
    BY <1>5, SMT DEF RxInv, RxSeen, ReadCall, ReadReleases
  <2>2. /\ r'.at = IF r.space = r.n THEN "enable" ELSE "copy"
        /\ r'.copied = r.copied + r.n
    BY <1>1, <1>5 DEF ReadReleases, ReadCall
  <2>3. r.copied + r.n > 0
    BY <2>1, SMT
  <2>4. QED
    BY <2>2, <2>3
<1>6. CASE ReadEnables
    BY <1>6 DEF ReadEnables
<1>7. CASE IsrReceives
    BY <1>7, RxReceived DEF MaskInv, IsrReceives
<1>8. CASE IsrEnters \/ IsrLooks \/ IsrSends
    BY <1>8 DEF MaskInv, IsrEnters, IsrLooks, IsrSends, allButIsr, ring
<1>9. CASE SetTimeout \/ Tick \/ HostTakes \/ HostSends \/ HostPauses \/ Plug
    BY <1>9 DEF MaskInv, SetTimeout, Tick, HostTakes, HostSends, HostPauses, Plug, ring
<1>10. QED
    BY <1>2, <1>3, <1>4, <1>5a, <1>5, <1>6, <1>7, <1>8, <1>9
       DEF Next, Reader, ReadTakes, Interrupt

(* Neither side of the driver sleeps on work, however the steps of write(),
   read() and the interrupt routine, all of which change the mask, fall. *)
THEOREM RequestsKept == Spec => []MaskSound
<1>1. Init => MaskInv
    BY DEF Init, MaskInv, NoIsr
<1>2. MaskInv /\ TxInv /\ RxInv /\ [Next]_vars => MaskInv'
  <2>1. ASSUME MaskInv, UNCHANGED vars PROVE MaskInv'
    BY <2>1 DEF MaskInv, vars, ring
  <2>2. ASSUME MaskInv, TxInv, RxInv, Next PROVE MaskInv'
    BY <2>2, RequestKept, SendingKept, ReceivingKept DEF MaskInv
  <2>3. QED
    BY <2>1, <2>2
<1>3. MaskInv => MaskSound
    BY DEF MaskInv, MaskSound, NeverForgotten, NeverDeaf
<1>4. QED
    BY <1>1, <1>2, <1>3, TxInvariant, RxInvariant, PTL DEF Spec

-----------------------------------------------------------------------------
(* The timeout. *)

TimeoutInv ==
    /\ host_inactive \in Int /\ host_inactive <= INT_MAX - 2
    /\ timeout \in Int

(* A host that is waited for without end is never given up, in every program
   and for every int. *)
THEOREM NeverGivenUp == Spec => []ForeverIsForever
<1>1. Init => TimeoutInv
    BY SizeFacts, SMT DEF Init, TimeoutInv
<1>2. TxInv /\ TimeoutInv /\ [Next]_vars => TimeoutInv'
  <2> SUFFICES ASSUME TxInv, TimeoutInv, [Next]_vars PROVE TimeoutInv'
    OBVIOUS
  <2>1. CASE Tick
    BY <2>1, SizeFacts, SMT DEF TimeoutInv, Tick
  <2>2. CASE SetTimeout
    <3>1. PICK arg \in program.arguments :
            timeout' = IF arg >= 2 /\ arg < INT_MAX THEN arg ELSE INT_MAX - 1
      BY <2>2 DEF SetTimeout
    <3>2. arg \in Int
      BY ProgramFacts DEF TxInv
    <3>3. timeout' \in Int
      BY <3>1, <3>2, SizeFacts, SMT
    <3>4. QED
      BY <2>2, <3>3 DEF TimeoutInv, SetTimeout
  <2>3. CASE UNCHANGED <<host_inactive, timeout>>
    BY <2>3 DEF TimeoutInv
  <2>4. [Next]_vars => Tick \/ SetTimeout \/ UNCHANGED <<host_inactive, timeout>>
    BY DEF vars, Next, CallWrite, CallClose, Writer, WriteLooks, WriteFills, WriteCopies,
           WriteStores, WriteKicks, WriteWaits, WriteChecks, WriteReturns,
           CloseReturns, allButW, CallRead,
           Reader, ReadLooks, ReadTakes, ReadCopies, ReadReleases, ReadWaits, ReadChecks,
           ReadEnables, ReadReturns,
           allButR, Interrupt, IsrEnters, IsrLooks, IsrReceives, IsrSends, allButIsr,
           HostTakes, HostSends, HostPauses, Plug
  <2>5. QED
    BY <2>1, <2>2, <2>3, <2>4
<1>3. TimeoutInv => ForeverIsForever
    BY SizeFacts, SMT DEF TimeoutInv, ForeverIsForever, Gone
<1>4. QED
    BY <1>1, <1>2, <1>3, TxInvariant, PTL DEF Spec
=============================================================================
