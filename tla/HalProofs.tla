------------------------------ MODULE HalProofs ------------------------------
(***************************************************************************)
(* Proofs about services of the HAL: a busy sleep lacks only what its      *)
(* division cuts off, in however many pieces; the cache functions reach    *)
(* every line they must, for caches, lines and memories of every size; the *)
(* list of alarms stays sound, no alarm is overdue and a stopped one is    *)
(* quiet, for any alarms; the clock tells the time that was set and the    *)
(* time that has passed; the profiler hands out no memory twice and loses  *)
(* no call; and a descriptor is taken exactly while somebody uses it, is   *)
(* that of what it was opened for, and a lock excludes.                    *)
(***************************************************************************)
EXTENDS Alarms, BusySleep, Caches, FileTable, Profiler, WallClock,
        Arithmetic, FiniteSetTheorems, SequenceTheorems, TLAPS

-----------------------------------------------------------------------------
(* The pieces of a sleep. *)

\* A count that fits a word is not cut.
LEMMA FitsWord ==
    ASSUME NEW n \in Nat, NEW w \in Nat, n < w
    PROVE  n % w = n
BY SMT

\* The speed is that of a whole number of loops and a rest.
LEMMA RoundsFacts ==
    /\ WORD \in Nat /\ ROUNDS \in Nat \ {0} /\ WORD \div 2 > ROUNDS
    /\ SPEED \in Nat /\ CYCLES \in Nat /\ SPEED % CYCLES \in Nat
    /\ SPEED = CYCLES * ROUNDS + (SPEED % CYCLES)
<1>1. /\ WORD \in Nat /\ SPEED \in Nat /\ CYCLES \in Nat /\ 1 <= CYCLES
      /\ CYCLES <= SPEED /\ WORD \div 2 > ROUNDS
  BY BusySleepAssumption
<1>2. /\ ROUNDS \in Nat /\ CYCLES * ROUNDS <= SPEED
      /\ SPEED < CYCLES * ROUNDS + CYCLES
  BY <1>1, QuotientBounds DEF ROUNDS
<1>3. /\ SPEED % CYCLES = SPEED - CYCLES * ROUNDS
      /\ SPEED % CYCLES \in 0..CYCLES - 1
  BY <1>1, RemainderIs DEF ROUNDS
<1>4. ROUNDS # 0
  <2>1. ASSUME ROUNDS = 0 PROVE FALSE
    <3>1. CYCLES * ROUNDS = 0
      BY <2>1, <1>1
    <3> QED
      BY <3>1, <1>1, <1>2
  <2> QED
    BY <2>1
<1>5. CYCLES * ROUNDS = ROUNDS * CYCLES /\ CYCLES * ROUNDS \in Nat
  BY <1>1, <1>2
<1>6. SPEED % CYCLES \in Nat
  BY <1>1, <1>3
<1>7. SPEED = CYCLES * ROUNDS + (SPEED % CYCLES)
  <2>1. PICK loops \in Nat, rest \in Nat :
          loops = CYCLES * ROUNDS /\ rest = SPEED % CYCLES
    BY <1>5, <1>6, Zenon
  <2>2. rest = SPEED - loops
    BY <1>3, <2>1, Zenon
  <2>3. SPEED = loops + rest
    BY <2>2, <1>1
  <2> QED
    BY <2>1, <2>3, Zenon
<1>8. ROUNDS \in Nat \ {0}
  BY <1>2, <1>4
<1> QED
  BY <1>1, <1>6, <1>7, <1>8, Zenon

LEMMA PieceFacts ==
    /\ INT_MAX \in Nat /\ INT_MAX < WORD
    /\ Piece \in Nat /\ 1 <= Piece
    /\ Piece * ROUNDS <= INT_MAX
<1>1. INT_MAX \in Nat /\ INT_MAX < WORD /\ ROUNDS <= INT_MAX
  BY RoundsFacts, SMT DEF INT_MAX
<1>2. /\ Piece \in Nat
      /\ ROUNDS * Piece <= INT_MAX
      /\ INT_MAX < ROUNDS * Piece + ROUNDS
  BY <1>1, RoundsFacts, QuotientBounds DEF Piece
<1>3. 1 <= Piece
  <2>1. ASSUME Piece = 0 PROVE FALSE
    <3>1. ROUNDS * Piece = 0
      BY <2>1, RoundsFacts
    <3> QED
      BY <3>1, <1>1, <1>2, RoundsFacts
  <2> QED
    BY <2>1, <1>2
<1> QED
  BY <1>1, <1>2, <1>3, RoundsFacts

(* The rest after i pieces is what the loops since then must still go round
   for: so many rounds have been made that only the rest is missing. *)
LoopsInv ==
    /\ asked \in 0..WORD - 1
    /\ i \in Nat /\ i <= big_loops
    /\ us = asked - i * Piece
    /\ rounds \in Nat /\ i * INT_MAX <= rounds

EnoughRounds ==
    /\ asked \in Nat /\ rounds \in Nat
    /\ asked * ROUNDS <= rounds

SleepInv ==
    /\ sleep_at \in {"awake", "loops"}
    /\ sleep_at = "awake" => EnoughRounds
    /\ sleep_at = "loops" => LoopsInv

\* What is left after all pieces is less than a piece, and its count fits.
LEMMA RestFits ==
    ASSUME LoopsInv, i = big_loops
    PROVE  /\ us \in Nat
           /\ Count = us * ROUNDS
           /\ asked * ROUNDS <= i * INT_MAX + us * ROUNDS
<1>1. asked \in Nat /\ i \in Nat /\ us = asked - i * Piece
  BY RoundsFacts DEF LoopsInv
<1>2. Piece * i <= asked /\ asked < Piece * i + Piece
  BY <1>1, PieceFacts, QuotientBounds DEF big_loops
<1>3. Piece * i = i * Piece /\ i * Piece \in Nat
  BY <1>1, PieceFacts
<1>4. us \in Nat /\ us <= Piece /\ asked = i * Piece + us
  BY <1>1, <1>2, <1>3, PieceFacts
<1>5. us * ROUNDS \in Nat /\ us * ROUNDS <= Piece * ROUNDS
  BY <1>4, ProductsGrow, PieceFacts, RoundsFacts
<1>6. Count = us * ROUNDS
  BY <1>5, PieceFacts, FitsWord, RoundsFacts DEF Count
<1>7. (i * Piece) * ROUNDS <= i * INT_MAX
  <2>1. (i * Piece) * ROUNDS = (Piece * ROUNDS) * i
    BY <1>1, PieceFacts, Exchange, RoundsFacts
  <2>2. Piece * ROUNDS \in Int
    BY PieceFacts, RoundsFacts
  <2>3. (Piece * ROUNDS) * i <= INT_MAX * i
    BY <2>2, <1>1, PieceFacts, ProductsGrow
  <2> QED
    BY <2>1, <2>3, <1>1, PieceFacts
<1>8. asked * ROUNDS = (i * Piece) * ROUNDS + us * ROUNDS
  BY <1>3, <1>4, Distributes, RoundsFacts
<1>9. (i * Piece) * ROUNDS \in Nat /\ i * INT_MAX \in Nat
  BY <1>3, <1>1, PieceFacts, RoundsFacts
<1> QED
  BY <1>4, <1>5, <1>6, <1>7, <1>8, <1>9

-----------------------------------------------------------------------------
(* When usleep() (alt_usleep.c, alt_busy_sleep.c) returns, the loops have gone
   round as often as alt_busy_sleep() means them to: what a sleep lacks of the
   cycles that the microseconds take is what its division cuts off, for every
   width of a word and every speed of the processor that is slow enough for
   the loops of a microsecond to fit an int. *)
THEOREM SleepsShortOnlyByDivision == SleepSpec => []ShortOnlyByDivision
<1>1. SleepInit => SleepInv
  BY RoundsFacts DEF SleepInit, SleepInv, EnoughRounds
<1>2. SleepInv /\ [SleepNext]_sleep_vars => SleepInv'
  <2> SUFFICES ASSUME SleepInv, [SleepNext]_sleep_vars
               PROVE  SleepInv'
    OBVIOUS
  <2>1. CASE ALT_USLEEP
    <3>1. /\ sleep_at' = "loops" /\ asked' \in 0..WORD - 1
          /\ us' = asked' /\ i' = 0 /\ rounds' = 0
      BY <2>1 DEF ALT_USLEEP
    <3>2. big_loops' \in Nat
      <4>1. asked' \in Nat
        BY <3>1, RoundsFacts
      <4>2. asked' \div Piece \in Nat
        BY <4>1, PieceFacts, QuotientBounds
      <4> QED
        BY <4>2 DEF big_loops
    <3>3. i' * Piece = 0 /\ i' * INT_MAX = 0
      BY <3>1, PieceFacts
    <3>4. LoopsInv'
      <4>1. us' = asked' - i' * Piece
        BY <3>1, <3>3, RoundsFacts
      <4>2. i' \in Nat /\ i' <= big_loops'
        BY <3>1, <3>2
      <4>3. rounds' \in Nat /\ i' * INT_MAX <= rounds'
        BY <3>1, <3>3
      <4> QED
        BY <3>1, <4>1, <4>2, <4>3 DEF LoopsInv
    <3> QED
      BY <3>1, <3>4 DEF SleepInv
  <2>2. CASE BigLoop
    <3>1. /\ sleep_at = "loops" /\ i < big_loops
          /\ i' = i + 1 /\ us' = us - Piece
          /\ rounds' = rounds + INT_MAX \/ rounds' = rounds + WORD
          /\ asked' = asked /\ sleep_at' = "loops"
      BY <2>2 DEF BigLoop
    <3>2. LoopsInv
      BY <3>1 DEF SleepInv
    <3>3. /\ i \in Nat /\ rounds \in Nat /\ asked \in Nat
          /\ i * Piece \in Nat /\ i * INT_MAX \in Nat
      BY <3>2, PieceFacts, RoundsFacts DEF LoopsInv
    <3>4. big_loops \in Nat
      BY <3>3, PieceFacts, QuotientBounds DEF big_loops
    <3>5. i' * Piece = i * Piece + Piece /\ i' * INT_MAX = i * INT_MAX + INT_MAX
      BY <3>1, <3>3, PieceFacts, Distributes
    <3>6. us' = asked' - i' * Piece
      BY <3>1, <3>2, <3>3, <3>5, PieceFacts DEF LoopsInv
    <3>7. rounds' \in Nat /\ i' * INT_MAX <= rounds'
      <4>1. i * INT_MAX <= rounds
        BY <3>2 DEF LoopsInv
      <4> QED
        BY <4>1, <3>1, <3>3, <3>5, PieceFacts, RoundsFacts
    <3>8. i' \in Nat /\ i' <= big_loops
      BY <3>1, <3>3, <3>4
    <3>9. LoopsInv'
      BY <3>1, <3>2, <3>6, <3>7, <3>8 DEF LoopsInv, big_loops, Piece, INT_MAX
    <3> QED
      BY <3>1, <3>9 DEF SleepInv
  <2>3. CASE LastLoop \/ OnlyLoop
    <3>1. /\ sleep_at = "loops" /\ sleep_at' = "awake"
          /\ asked' = asked
          /\ rounds' >= rounds + Count
      <4>1. CASE LastLoop
        <5>1. /\ sleep_at = "loops" /\ sleep_at' = "awake" /\ asked' = asked
              /\ i = big_loops
              /\ rounds' = rounds + IF Count = 0 THEN WORD ELSE Count
          BY <4>1 DEF LastLoop
        <5>2. LoopsInv
          BY <5>1 DEF SleepInv
        <5>3. us \in Nat /\ Count = us * ROUNDS /\ rounds \in Nat
          BY <5>1, <5>2, RestFits DEF LoopsInv
        <5>4. Count \in Nat
          BY <5>3, RoundsFacts
        <5> QED
          BY <5>1, <5>3, <5>4, RoundsFacts
      <4>2. CASE OnlyLoop
        <5>1. /\ sleep_at = "loops" /\ sleep_at' = "awake" /\ asked' = asked
              /\ big_loops = 0
              /\ rounds' = rounds + IF Count = 0 THEN 1 ELSE Count
          BY <4>2 DEF OnlyLoop
        <5>2. LoopsInv
          BY <5>1 DEF SleepInv
        <5>3. i = big_loops
          BY <5>1, <5>2 DEF LoopsInv
        <5>4. us \in Nat /\ Count = us * ROUNDS /\ rounds \in Nat
          BY <5>2, <5>3, RestFits DEF LoopsInv
        <5>5. Count \in Nat
          BY <5>4, RoundsFacts
        <5> QED
          BY <5>1, <5>4, <5>5
      <4> QED
        BY <2>3, <4>1, <4>2
    <3>2. LoopsInv
      BY <3>1 DEF SleepInv
    <3>3. i = big_loops
      BY <2>3, <3>2 DEF LastLoop, OnlyLoop, LoopsInv
    <3>4. /\ us \in Nat /\ Count = us * ROUNDS
          /\ asked * ROUNDS <= i * INT_MAX + us * ROUNDS
      BY <3>2, <3>3, RestFits
    <3>5. /\ i * INT_MAX <= rounds /\ rounds \in Nat /\ i * INT_MAX \in Int
          /\ us * ROUNDS \in Int /\ asked * ROUNDS \in Int
      BY <3>2, <3>4, PieceFacts, RoundsFacts DEF LoopsInv
    <3>6. rounds' >= asked * ROUNDS /\ rounds' \in Nat
      <4>1. rounds' \in Nat
        BY <2>3, <3>4, <3>5, RoundsFacts DEF LastLoop, OnlyLoop
      <4> QED
        BY <4>1, <3>1, <3>4, <3>5
    <3>7. asked \in Nat
      BY <3>2, RoundsFacts DEF LoopsInv
    <3> QED
      BY <3>1, <3>6, <3>7 DEF SleepInv, EnoughRounds
  <2>4. CASE UNCHANGED sleep_vars
    BY <2>4 DEF sleep_vars, SleepInv, LoopsInv, EnoughRounds, big_loops
  <2> QED
    BY <2>1, <2>2, <2>3, <2>4 DEF SleepNext
<1>3. SleepInv => ShortOnlyByDivision
  <2> SUFFICES ASSUME SleepInv, sleep_at = "awake"
               PROVE  asked * SPEED - rounds * CYCLES <= asked * (SPEED % CYCLES)
    BY DEF ShortOnlyByDivision
  <2>1. asked \in Nat /\ rounds \in Nat /\ asked * ROUNDS <= rounds
    BY Zenon DEF SleepInv, EnoughRounds
  <2>2. PICK rest \in Nat : rest = SPEED % CYCLES
    BY RoundsFacts, Zenon
  <2>3. /\ ROUNDS \in Nat /\ CYCLES \in Nat /\ SPEED \in Nat
        /\ SPEED = CYCLES * ROUNDS + rest
    BY <2>2, RoundsFacts, Zenon
  <2>4. CYCLES * ROUNDS \in Nat /\ asked * ROUNDS \in Nat
    BY <2>1, <2>3
  <2>5. (CYCLES * ROUNDS + rest) * asked = (CYCLES * ROUNDS) * asked + rest * asked
    BY <2>1, <2>2, <2>4, Distributes
  <2>6. (CYCLES * ROUNDS) * asked = (asked * ROUNDS) * CYCLES
    BY <2>1, <2>3
  <2>7. (asked * ROUNDS) * CYCLES <= rounds * CYCLES
    BY <2>1, <2>3, <2>4, ProductsGrow
  <2>8. SPEED * asked = (asked * ROUNDS) * CYCLES + rest * asked
    BY <2>3, <2>5, <2>6, Zenon
  <2>9. PICK a \in Int, b \in Int, c \in Int, d \in Int :
          /\ a = SPEED * asked /\ b = rest * asked
          /\ c = (asked * ROUNDS) * CYCLES /\ d = rounds * CYCLES
    BY <2>1, <2>2, <2>3, <2>4
  <2>10. a = c + b /\ c <= d
    BY <2>7, <2>8, <2>9, Zenon
  <2>11. a - d <= b
    BY <2>10
  <2>12. SPEED * asked - rounds * CYCLES <= rest * asked
    BY <2>9, <2>11, Zenon
  <2>13. SPEED * asked = asked * SPEED /\ rest * asked = asked * rest
    BY <2>1, <2>2, <2>3
  <2> QED
    BY <2>2, <2>12, <2>13, Zenon
<1> QED
  BY <1>1, <1>2, <1>3, PTL DEF SleepSpec

-----------------------------------------------------------------------------
(* Quotients and remainders. *)

\* Among d numbers in a row one has the remainder of c.
LEMMA SomeRemainder ==
    ASSUME NEW a \in Nat, NEW c \in Nat, NEW d \in Nat, 1 <= d
    PROVE  \E m \in a..a + d - 1 : m % d = c % d
<1> DEFINE r == c % d
           k == a \div d
<1>1. r \in 0..d - 1
  BY RemainderIs
<1>2. k \in Nat /\ d * k <= a /\ a < d * k + d
  BY QuotientBounds
<1> HIDE DEF r, k
<1>3. /\ d * k \in Int /\ d * k = k * d
      /\ d * (k + 1) = d * k + d /\ (k + 1) * d = d * k + d
  BY <1>2, Distributes, SMT
<1>4. ASSUME NEW q \in Nat, d * q = q * d, d * q \in Nat, d * q + r \in a..a + d - 1
      PROVE  (d * q + r) % d = r
  <2>1. d * q + r \in Nat /\ q * d <= d * q + r /\ d * q + r < q * d + d
    BY <1>1, <1>4
  <2>2. (d * q + r) \div d = q
    BY <2>1, QuotientIs
  <2>3. (d * q + r) % d = (d * q + r) - d * q
    BY <2>1, <2>2, RemainderIs
  <2> QED
    BY <1>1, <1>4, <2>3
<1>5. CASE a <= d * k + r
  <2>1. d * k + r \in a..a + d - 1 /\ d * k \in Nat
    BY <1>1, <1>2, <1>3, <1>5, SMT
  <2>2. (d * k + r) % d = r
    BY <1>2, <1>3, <1>4, <2>1
  <2> QED
    BY <2>1, <2>2 DEF r
<1>6. CASE d * k + r < a
  <2>1. d * (k + 1) + r \in a..a + d - 1 /\ d * (k + 1) \in Nat /\ k + 1 \in Nat
    BY <1>1, <1>2, <1>3, <1>6, SMT
  <2>2. (d * (k + 1) + r) % d = r
    BY <1>3, <1>4, <2>1
  <2> QED
    BY <2>1, <2>2 DEF r
<1> QED
  BY <1>1, <1>2, <1>3, <1>5, <1>6

-----------------------------------------------------------------------------
(* The lines of the memory. *)

LEMMA LineNumber ==
    ASSUME NEW b \in Nat
    PROVE  /\ LineOf(b) \in Nat /\ LineOf(b + LINE) = LineOf(b) + 1
           /\ (b + LINE) % LINE = b % LINE
           /\ \A l \in Int : b \in Bytes(l) <=> LineOf(b) = l
           /\ \A c \in Nat : b <= c => LineOf(b) <= LineOf(c)
<1>1. LINE \in Nat /\ 1 <= LINE
  BY CachesAssumption
<1>2. LineOf(b) \in Nat /\ LINE * LineOf(b) <= b /\ b < LINE * LineOf(b) + LINE
  BY <1>1, QuotientBounds DEF LineOf
<1>3. LineOf(b + LINE) = LineOf(b) + 1 /\ (b + LINE) % LINE = b % LINE
  BY <1>1, NextQuotient DEF LineOf
<1>4. \A c \in Nat : b <= c => LineOf(b) <= LineOf(c)
  BY <1>1, QuotientsGrow DEF LineOf
<1>5. ASSUME NEW l \in Int PROVE b \in Bytes(l) <=> LineOf(b) = l
  <2>1. l * LINE \in Int /\ LINE * LineOf(b) = LineOf(b) * LINE
    BY <1>1, <1>2, SMT
  <2>2. b \in Bytes(l) <=> l * LINE <= b /\ b < l * LINE + LINE
    BY <1>1, <2>1 DEF Bytes
  <2>3. ASSUME LineOf(b) = l PROVE b \in Bytes(l)
    BY <1>2, <2>1, <2>2, <2>3
  <2>4. ASSUME b \in Bytes(l) PROVE LineOf(b) = l
    BY <1>1, <2>2, <2>4, QuotientIs DEF LineOf
  <2> QED
    BY <2>3, <2>4
<1> QED
  BY <1>2, <1>3, <1>4, <1>5

LEMMA ByteFacts ==
    ASSUME NEW b \in Byte
    PROVE  b \in Nat /\ LineOf(b) \in Nat
BY LineNumber, CachesAssumption DEF Byte

LEMMA InLine ==
    ASSUME NEW b \in Byte, NEW l \in Int
    PROVE  b \in Bytes(l) <=> LineOf(b) = l
<1>1. b \in Nat
  BY ByteFacts
<1> QED
  BY <1>1, LineNumber

LEMMA InLines ==
    ASSUME NEW b \in Byte, NEW lines, lines \subseteq Int
    PROVE  b \in BytesOf(lines) <=> LineOf(b) \in lines
BY InLine DEF BytesOf

\* The last line of a region is passed, also when it begins inside a line.
LEMMA RegionPassed ==
    ASSUME NEW b \in Nat, NEW start \in Nat, NEW end \in Nat, NEW at \in Nat,
           start % LINE = 0 => at % LINE = 0,
           end + (IF start % LINE = 0 THEN 0 ELSE LINE) <= at, b < end
    PROVE  LineOf(b) < LineOf(at)
<1>1. LINE \in Nat /\ 1 <= LINE
  BY CachesAssumption
<1>2. CASE start % LINE = 0
  <2>1. at % LINE = 0 /\ b < at
    BY <1>2
  <2>2. /\ LineOf(b) \in Nat /\ LINE * LineOf(b) <= b
        /\ LineOf(at) \in Nat /\ LINE * LineOf(at) <= at
        /\ at < LINE * LineOf(at) + LINE
    BY <1>1, QuotientBounds DEF LineOf
  <2>3. LINE * LineOf(at) = at
    <3>1. \A n, d \in Nat : 1 <= d /\ n % d = 0 => d * (n \div d) = n
      BY SMT
    <3> QED
      BY <1>1, <2>1, <3>1 DEF LineOf
  <2>4. LineOf(b) <= LineOf(at)
    BY <2>1, LineNumber
  <2>5. LineOf(b) # LineOf(at)
    <3>1. ASSUME LineOf(b) = LineOf(at) PROVE FALSE
      BY <2>1, <2>2, <2>3, <3>1
    <3> QED
      BY <3>1
  <2> QED
    BY <2>2, <2>4, <2>5
<1>3. CASE start % LINE # 0
  <2>1. b + LINE <= at /\ b + LINE \in Nat
    BY <1>1, <1>3
  <2>2. LineOf(b + LINE) <= LineOf(at)
    BY <2>1, LineNumber
  <2> QED
    BY <2>2, LineNumber
<1> QED
  BY <1>2, <1>3

LEMMA AheadByLines ==
    ASSUME NEW b \in Nat, NEW n \in Nat
    PROVE  n * LINE \in Nat /\ LineOf(b + n * LINE) = LineOf(b) + n
<1>1. LINE \in Nat /\ 1 <= LINE
  BY CachesAssumption
<1>2. LineOf(b) \in Nat /\ LINE * LineOf(b) <= b /\ b < LINE * LineOf(b) + LINE
  BY <1>1, QuotientBounds DEF LineOf
<1>3. /\ n * LINE \in Nat /\ LINE * LineOf(b) = LineOf(b) * LINE
      /\ LineOf(b) * LINE \in Int
  BY <1>1, <1>2, SMT
<1>4. (LineOf(b) + n) * LINE = LineOf(b) * LINE + n * LINE
  BY <1>1, <1>2, Distributes
<1>5. /\ (LineOf(b) + n) * LINE <= b + n * LINE
      /\ b + n * LINE < (LineOf(b) + n) * LINE + LINE
      /\ b + n * LINE \in Nat /\ LineOf(b) + n \in Int
  BY <1>1, <1>2, <1>3, <1>4
<1> QED
  BY <1>1, <1>3, <1>5, QuotientIs DEF LineOf

-----------------------------------------------------------------------------
(* Flushes of the caches. *)

CacheTypes ==
    /\ \A b \in behind : LineOf(b) \in dcached
    /\ \A b \in outdated : LineOf(b) \in icached
    /\ dcached \subseteq Int /\ icached \subseteq Int
    /\ behind \subseteq Byte /\ outdated \subseteq Byte
    /\ fresh \subseteq Byte /\ uncached \subseteq Byte

\* The flush goes on by whole lines from where it began.
FlushTypes ==
    /\ flush \in [do : {"none", "publish", "discard", "all", "malloc", "icache"},
                  start : Nat, end : Nat, i : Nat]
    /\ flush.start <= flush.i
    /\ flush.start % LINE = 0 => flush.i % LINE = 0
    /\ flush.do = "none" => fresh = {}
    /\ flush.do \in {"publish", "discard"} => fresh \subseteq flush.start..flush.end - 1
    /\ flush.do = "all" => flush.start = 0 /\ flush.end = DLINES * LINE
    /\ flush.do = "malloc" => flush.start % LINE = 0 /\ flush.start < flush.end
    /\ flush.do = "icache" => \/ flush.end = flush.start + ILINES * LINE
                              \/ fresh \subseteq flush.start..flush.end - 1

\* What was written is in the memory as far as the data cache was flushed.
Published ==
    /\ flush.do = "publish" =>
         \A b \in fresh : LineOf(b) < LineOf(flush.i) => b \notin behind
    /\ flush.do = "all" =>
         \A b \in fresh : LineOf(b) % DLINES < LineOf(flush.i) => b \notin behind
    /\ flush.do = "icache" => \A b \in fresh : b \notin behind

\* What is discarded is out of the data cache as far as that came.
Discarded ==
    flush.do = "discard" =>
        \A b \in fresh : LineOf(b) < LineOf(flush.i) => LineOf(b) \notin dcached

\* The flush of the instruction cache has come to the index of a byte.
Reached(b) == \E l \in LineOf(flush.start)..LineOf(flush.i) - 1 :
                 l % ILINES = LineOf(b) % ILINES

\* And what is fetched is what is in the memory, as far as the instruction cache was.
Fetched ==
    flush.do = "icache" => \A b \in fresh : Reached(b) => b \notin outdated

\* Uncached blocks are whole lines, out of the data cache but for the one that
\* is being made.
Uncached ==
    /\ \A b \in uncached, c \in Byte : LineOf(c) = LineOf(b) => c \in uncached
    /\ \A b \in uncached :
         LineOf(b) \in dcached =>
            /\ flush.do = "malloc" /\ flush.i = flush.start
            /\ LineOf(b) = LineOf(flush.start)

CachesInv == CacheTypes /\ FlushTypes /\ Published /\ Discarded /\ Fetched /\ Uncached

\* A step that leaves the flush alone: it writes no fresh byte, makes no byte
\* old in the instruction cache that was not old in the memory, and brings no
\* line of an uncached block or of a discarded byte into the data cache.
LEMMA SteadyKept ==
    ASSUME CachesInv, CacheTypes',
           flush' = flush, uncached' = uncached, fresh' \subseteq fresh,
           \A b \in behind' : b \in fresh' => b \in behind,
           \A b \in outdated' : b \in outdated \/ b \in behind,
           \A b \in uncached : LineOf(b) \in dcached' => LineOf(b) \in dcached,
           flush.do = "discard" =>
             \A b \in fresh' : LineOf(b) \in dcached' => LineOf(b) \in dcached
    PROVE  CachesInv'
<1>1. FlushTypes'
  BY DEF CachesInv, FlushTypes
<1>2. Published'
  BY DEF CachesInv, Published
<1>3. Fetched'
  <2>1. ASSUME flush.do = "icache", NEW b \in fresh', Reached(b), b \in outdated'
        PROVE  FALSE
    BY <2>1 DEF CachesInv, Published, Fetched
  <2>2. \A b : Reached(b)' <=> Reached(b)
    BY DEF Reached
  <2> QED
    BY <2>1, <2>2 DEF Fetched
<1>4. Uncached'
  BY DEF CachesInv, Uncached
<1>5. Discarded'
  BY DEF CachesInv, Discarded
<1> QED
  BY <1>1, <1>2, <1>3, <1>4, <1>5 DEF CachesInv

LEMMA AccessKept ==
    ASSUME CachesInv, Access
    PROVE  CachesInv'
<1>1. PICK b \in Byte \ uncached, write \in BOOLEAN :
         LET l == LineOf(b)
             others == {k \in dcached : k # l /\ k % DLINES = l % DLINES}
         IN
         /\ dcached' = (dcached \ others) \union {l}
         /\ behind' = (behind \ BytesOf(others)) \union (IF write THEN {b} ELSE {})
         /\ outdated' = outdated \union
                           (behind \intersect BytesOf(others) \intersect BytesOf(icached))
         /\ fresh' = CASE flush.do = "discard"          -> fresh \ Bytes(l)
                       [] flush.do # "discard" /\ write -> fresh \ {b}
                       [] OTHER                         -> fresh
         /\ UNCHANGED <<icached, flush, uncached>>
  BY DEF Access
<1> DEFINE others == {k \in dcached : k # LineOf(b) /\ k % DLINES = LineOf(b) % DLINES}
<1>2. /\ dcached' = (dcached \ others) \union {LineOf(b)}
      /\ behind' = (behind \ BytesOf(others)) \union (IF write THEN {b} ELSE {})
      /\ outdated' = outdated \union
                        (behind \intersect BytesOf(others) \intersect BytesOf(icached))
      /\ icached' = icached /\ flush' = flush /\ uncached' = uncached
      /\ fresh' \subseteq fresh
      /\ flush.do = "discard" => fresh' = fresh \ Bytes(LineOf(b))
      /\ flush.do # "discard" /\ write => fresh' = fresh \ {b}
  BY <1>1
<1>3. others \subseteq dcached
  OBVIOUS
<1> HIDE DEF others
<1>4. CacheTypes'
  <2>1. ASSUME NEW c \in behind' PROVE LineOf(c) \in dcached'
    BY <1>2, <1>3, <2>1, InLines DEF CachesInv, CacheTypes
  <2>2. ASSUME NEW c \in outdated' PROVE LineOf(c) \in icached'
    BY <1>2, <2>2, InLines DEF CachesInv, CacheTypes
  <2>3. dcached' \subseteq Int /\ icached' \subseteq Int
    <3>1. LineOf(b) \in Int
      BY ByteFacts, SMT
    <3> QED
      BY <1>2, <3>1 DEF CachesInv, CacheTypes
  <2>4. behind' \subseteq Byte /\ outdated' \subseteq Byte
    BY <1>2 DEF CachesInv, CacheTypes
  <2>5. fresh' \subseteq Byte /\ uncached' \subseteq Byte
    BY <1>2 DEF CachesInv, CacheTypes
  <2> QED
    BY <2>1, <2>2, <2>3, <2>4, <2>5 DEF CacheTypes
<1>5. ASSUME flush.do = "discard", NEW c \in fresh', LineOf(c) \in dcached'
      PROVE  LineOf(c) \in dcached
  <2>1. c \in Byte /\ c \notin Bytes(LineOf(b)) /\ LineOf(b) \in Int
    BY <1>2, <1>5, ByteFacts DEF CachesInv, CacheTypes
  <2>2. LineOf(c) # LineOf(b)
    BY <2>1, InLine
  <2> QED
    BY <1>2, <1>5, <2>2
<1>7. \A c \in behind' : c \in fresh' => c \in behind
  <2>1. CASE flush.do = "discard"
    <3>1. b \in Bytes(LineOf(b))
      BY ByteFacts, InLine
    <3> QED
      BY <1>2, <2>1, <3>1
  <2>2. CASE flush.do # "discard"
    BY <1>2, <2>2
  <2> QED
    BY <2>1, <2>2
<1>6. ASSUME NEW c \in uncached, LineOf(c) \in dcached' PROVE LineOf(c) \in dcached
  <2>1. LineOf(c) # LineOf(b)
    BY <1>1 DEF CachesInv, Uncached
  <2> QED
    BY <1>2, <1>6, <2>1
<1> QED
  BY <1>2, <1>4, <1>5, <1>6, <1>7, SteadyKept

LEMMA FetchKept ==
    ASSUME CachesInv, Fetch
    PROVE  CachesInv'
<1>1. PICK l \in Line \ icached :
         LET others == {k \in icached : k % ILINES = l % ILINES} IN
         /\ icached' = (icached \ others) \union {l}
         /\ outdated' = outdated \ BytesOf(others)
  BY DEF Fetch
<1>2. UNCHANGED <<dcached, behind, flush, fresh, uncached>>
  BY DEF Fetch
<1> DEFINE others == {k \in icached : k % ILINES = l % ILINES}
<1>3. /\ icached' = (icached \ others) \union {l}
      /\ outdated' = outdated \ BytesOf(others)
      /\ others \subseteq icached
  BY <1>1
<1> HIDE DEF others
<1>4. CacheTypes'
  <2>1. ASSUME NEW c \in outdated' PROVE LineOf(c) \in icached'
    BY <1>3, <2>1, InLines DEF CachesInv, CacheTypes
  <2>2. icached' \subseteq Int
    BY <1>3, CachesAssumption DEF CachesInv, CacheTypes, Line
  <2> QED
    BY <1>2, <1>3, <2>1, <2>2 DEF CachesInv, CacheTypes
<1> QED
  BY <1>2, <1>3, <1>4, SteadyKept

LEMMA CallsKept ==
    ASSUME CachesInv, CallFlush \/ CallFlushAll
    PROVE  CachesInv'
<1> USE CachesAssumption
<1>1. /\ UNCHANGED <<dcached, behind, icached, outdated, uncached>>
      /\ flush = NoFlush
  BY DEF CallFlush, CallFlushAll
<1>2. Uncached'
  BY <1>1 DEF CachesInv, Uncached, NoFlush
<1>3. CASE CallFlush
  <2>1. PICK start \in Byte, len \in 1..MEMORY * LINE, do \in {"publish", "discard"} :
           /\ start + len <= MEMORY * LINE
           /\ Begins(do, start, len)
           /\ fresh' = start..start + len - 1
    BY <1>3 DEF CallFlush
  <2>2. start \in Nat /\ len \in Nat /\ MEMORY * LINE \in Nat
    BY <2>1, ByteFacts
  <2>3. flush' = [do |-> do, start |-> start, end |-> start + len, i |-> start]
    BY <2>1 DEF Begins
  <2>4. fresh' \subseteq Byte /\ fresh' \subseteq start..(start + len) - 1
    BY <2>1, <2>2 DEF Byte
  <2>5. CacheTypes'
    BY <1>1, <2>4 DEF CachesInv, CacheTypes
  <2>6. FlushTypes'
    BY <2>2, <2>3, <2>4 DEF FlushTypes
  <2>7. ASSUME NEW b \in fresh' PROVE ~ LineOf(b) < LineOf(start)
    <3>1. b \in Nat /\ start <= b
      BY <2>2, <2>4
    <3>2. LineOf(start) \in Nat /\ LineOf(b) \in Nat /\ LineOf(start) <= LineOf(b)
      BY <2>2, <3>1, LineNumber
    <3> QED
      BY <3>2
  <2>8. Published' /\ Discarded' /\ Fetched'
    BY <2>3, <2>7 DEF Published, Discarded, Fetched
  <2> QED
    BY <1>2, <2>5, <2>6, <2>8 DEF CachesInv
<1>4. CASE CallFlushAll
  <2>1. /\ flush' = [do |-> "all", start |-> 0, end |-> 0 + DLINES * LINE, i |-> 0]
        /\ fresh' = Byte
    BY <1>4 DEF CallFlushAll, Begins
  <2>2. CacheTypes'
    BY <1>1, <2>1 DEF CachesInv, CacheTypes
  <2>3. DLINES * LINE \in Nat
    BY SMT
  <2>4. FlushTypes'
    BY <2>1, <2>3 DEF FlushTypes
  <2>5. LineOf(0) = 0
    BY QuotientIs DEF LineOf
  <2>6. ASSUME NEW b \in Byte PROVE ~ LineOf(b) % DLINES < 0
    <3>1. LineOf(b) \in Nat /\ DLINES \in Nat /\ 1 <= DLINES
      BY ByteFacts
    <3>2. LineOf(b) % DLINES \in 0..DLINES - 1
      BY <3>1, RemainderIs
    <3> QED
      BY <3>1, <3>2
  <2>7. Published' /\ Discarded' /\ Fetched'
    BY <2>1, <2>5, <2>6 DEF Published, Discarded, Fetched
  <2> QED
    BY <1>2, <2>2, <2>4, <2>7 DEF CachesInv
<1> QED
  BY <1>3, <1>4

LEMMA MallocKept ==
    ASSUME CachesInv, CallMalloc
    PROVE  CachesInv'
<1> USE CachesAssumption
<1>1. PICK l \in Line, size \in 1..LINE :
         /\ Block(l, size) \intersect uncached = {}
         /\ uncached' = uncached \union Block(l, size)
         /\ Begins("malloc", l * LINE, Cardinality(Block(l, size)))
  BY DEF CallMalloc
<1>2. /\ flush = NoFlush /\ fresh' = {}
      /\ UNCHANGED <<dcached, behind, icached, outdated>>
  BY DEF CallMalloc
<1>3. l \in Nat /\ size \in Nat /\ LINE \in Nat /\ 1 <= LINE /\ l + 1 <= MEMORY
  BY <1>1 DEF Line
<1>4. /\ l * LINE \in Nat /\ (l + 1) * LINE = l * LINE + LINE
      /\ (l + 1) * LINE <= MEMORY * LINE
  BY <1>3, Distributes, ProductsGrow, SMT
<1>5. Block(l, size) = Bytes(l)
  <2>1. (size + LINE - 1) \div LINE = 1
    <3>1. /\ size + LINE - 1 \in Nat
          /\ 1 * LINE <= size + LINE - 1
          /\ size + LINE - 1 < 1 * LINE + LINE
      BY <1>1, <1>3
    <3> QED
      BY <1>3, <3>1, QuotientIs
  <2> QED
    BY <1>3, <1>4, <2>1 DEF Block, Bytes
<1>6. Bytes(l) \subseteq Byte
  BY <1>3, <1>4 DEF Bytes, Byte
<1>7. Cardinality(Bytes(l)) = LINE
  <2>1. /\ l * LINE \in Int /\ l * LINE + LINE - 1 \in Int
        /\ l * LINE <= l * LINE + LINE - 1
        /\ (l * LINE + LINE - 1) - l * LINE + 1 = LINE
    BY <1>3, <1>4
  <2> QED
    BY <2>1, FS_Interval DEF Bytes
<1>8. flush' = [do |-> "malloc", start |-> l * LINE, end |-> l * LINE + LINE,
                i |-> l * LINE]
  BY <1>1, <1>5, <1>7 DEF Begins
<1>9. \A b \in Byte : b \in Bytes(l) <=> LineOf(b) = l
  <2>1. l \in Int
    BY <1>3
  <2> QED
    BY <2>1, InLine
<1>10. LineOf(l * LINE) = l /\ (l * LINE) % LINE = 0
  <2>1. l * LINE \in Bytes(l)
    BY <1>3, <1>4 DEF Bytes
  <2>2. LineOf(l * LINE) = l
    BY <1>3, <1>4, <2>1, LineNumber
  <2>3. (l * LINE) % LINE = l * LINE - LINE * l
    BY <1>3, <1>4, <2>2, RemainderIs DEF LineOf
  <2>4. LINE * l = l * LINE
    BY <1>3, SMT
  <2> QED
    BY <1>4, <2>2, <2>3, <2>4
<1>11. CacheTypes'
  BY <1>1, <1>2, <1>5, <1>6 DEF CachesInv, CacheTypes
<1>12. FlushTypes'
  BY <1>2, <1>3, <1>4, <1>8, <1>10 DEF FlushTypes
<1>13. Published' /\ Discarded' /\ Fetched'
  BY <1>2 DEF Published, Discarded, Fetched
<1>14. Uncached'
  <2>1. \A b \in uncached : LineOf(b) \notin dcached
    BY <1>2 DEF CachesInv, Uncached, NoFlush
  <2>2. uncached' = uncached \union Bytes(l) /\ uncached \subseteq Byte
    BY <1>1, <1>5 DEF CachesInv, CacheTypes
  <2>3. ASSUME NEW b \in uncached', NEW c \in Byte, LineOf(c) = LineOf(b)
        PROVE  c \in uncached'
    BY <1>6, <1>9, <2>2, <2>3 DEF CachesInv, Uncached
  <2>4. ASSUME NEW b \in uncached', LineOf(b) \in dcached'
        PROVE  LineOf(b) = l
    BY <1>2, <1>6, <1>9, <2>1, <2>2, <2>4
  <2> QED
    BY <1>8, <1>10, <2>3, <2>4 DEF Uncached
<1> QED
  BY <1>11, <1>12, <1>13, <1>14 DEF CachesInv

LEMMA FreeKept ==
    ASSUME CachesInv, CallFree
    PROVE  CachesInv'
<1>1. PICK l \in Line : uncached' = uncached \ Bytes(l)
  BY DEF CallFree
<1>2. /\ UNCHANGED <<dcached, behind, icached, outdated, flush, fresh>>
      /\ flush = NoFlush
  BY DEF CallFree
<1>3. CacheTypes' /\ FlushTypes' /\ Published' /\ Discarded'
  BY <1>1, <1>2 DEF CachesInv, CacheTypes, FlushTypes, Published, Discarded
<1>4. Fetched'
  BY <1>2 DEF Fetched, NoFlush
<1>5. \A b \in Byte : b \in Bytes(l) <=> LineOf(b) = l
  <2>1. l \in Int
    BY CachesAssumption DEF Line
  <2> QED
    BY <2>1, InLine
<1>6. Uncached'
  BY <1>1, <1>2, <1>5 DEF CachesInv, CacheTypes, Uncached, NoFlush
<1> QED
  BY <1>3, <1>4, <1>6 DEF CachesInv

\* The step from line to line.
LEMMA NextLine ==
    ASSUME FlushTypes, flush' = [flush EXCEPT !.i = @ + LINE], fresh' = fresh
    PROVE  /\ FlushTypes'
           /\ LineOf(flush.i) \in Nat /\ LineOf(flush'.i) = LineOf(flush.i) + 1
           /\ flush'.do = flush.do /\ flush'.start = flush.start
           /\ flush'.end = flush.end /\ flush'.i = flush.i + LINE
<1>1. /\ flush'.do = flush.do /\ flush'.start = flush.start
      /\ flush'.end = flush.end /\ flush'.i = flush.i + LINE
      /\ flush.i \in Nat /\ flush.start \in Nat
  BY DEF FlushTypes
<1>2. /\ LineOf(flush.i) \in Nat /\ LineOf(flush.i + LINE) = LineOf(flush.i) + 1
      /\ (flush.i + LINE) % LINE = flush.i % LINE
  BY <1>1, LineNumber
<1>3. /\ flush' \in [do : {"none", "publish", "discard", "all", "malloc", "icache"},
                     start : Nat, end : Nat, i : Nat]
      /\ flush'.start <= flush'.i
  BY <1>1, CachesAssumption DEF FlushTypes
<1>4. FlushTypes'
  BY <1>1, <1>2, <1>3 DEF FlushTypes
<1> QED
  BY <1>1, <1>2, <1>4

LEMMA FlushDataKept ==
    ASSUME CachesInv, FlushDataLine
    PROVE  CachesInv'
<1> DEFINE lines == {l \in dcached : IF flush.do = "all"
                                     THEN l % DLINES = LineOf(flush.i)
                                     ELSE l = LineOf(flush.i)}
<1>1. /\ flush.do \in {"publish", "all", "malloc"}
      /\ dcached' = dcached \ lines
      /\ behind' = behind \ BytesOf(lines)
      /\ outdated' = outdated \union
                        (behind \intersect BytesOf(lines) \intersect BytesOf(icached))
      /\ flush' = [flush EXCEPT !.i = @ + LINE]
      /\ icached' = icached /\ fresh' = fresh /\ uncached' = uncached
  BY DEF FlushDataLine, Leave
<1>2. /\ lines \subseteq dcached
      /\ \A l \in dcached : flush.do = "all" /\ l % DLINES = LineOf(flush.i) => l \in lines
      /\ \A l \in dcached : flush.do # "all" /\ l = LineOf(flush.i) => l \in lines
  OBVIOUS
<1> HIDE DEF lines
<1>3. /\ FlushTypes'
      /\ LineOf(flush.i) \in Nat /\ LineOf(flush'.i) = LineOf(flush.i) + 1
      /\ flush'.do = flush.do /\ flush'.start = flush.start
  BY <1>1, NextLine DEF CachesInv
<1>4. CacheTypes'
  <2>1. ASSUME NEW c \in behind' PROVE LineOf(c) \in dcached'
    BY <1>1, <1>2, <2>1, InLines DEF CachesInv, CacheTypes
  <2>2. ASSUME NEW c \in outdated' PROVE LineOf(c) \in icached'
    BY <1>1, <2>2, InLines DEF CachesInv, CacheTypes
  <2>3. dcached' \subseteq Int /\ behind' \subseteq Byte /\ outdated' \subseteq Byte
    BY <1>1 DEF CachesInv, CacheTypes
  <2> QED
    BY <1>1, <2>1, <2>2, <2>3 DEF CachesInv, CacheTypes
<1>5. ASSUME NEW b \in fresh, b \in behind'
      PROVE  /\ b \in behind /\ b \in Byte /\ LineOf(b) \in Nat
             /\ LineOf(b) \in dcached /\ LineOf(b) \notin lines
  BY <1>1, <1>2, <1>5, InLines, ByteFacts DEF CachesInv, CacheTypes
<1>6. Published'
  <2>1. ASSUME flush.do = "publish", NEW b \in fresh, b \in behind'
        PROVE  ~ LineOf(b) < LineOf(flush.i) + 1
    <3>1. ~ LineOf(b) < LineOf(flush.i) /\ LineOf(b) # LineOf(flush.i)
      BY <1>2, <1>5, <2>1 DEF CachesInv, Published
    <3> QED
      BY <1>3, <1>5, <2>1, <3>1
  <2>2. ASSUME flush.do = "all", NEW b \in fresh, b \in behind'
        PROVE  ~ LineOf(b) % DLINES < LineOf(flush.i) + 1
    <3>1. /\ ~ LineOf(b) % DLINES < LineOf(flush.i)
          /\ LineOf(b) % DLINES # LineOf(flush.i)
      BY <1>2, <1>5, <2>2 DEF CachesInv, Published
    <3>2. LineOf(b) % DLINES \in Nat
      <4>1. LineOf(b) \in Nat /\ DLINES \in Nat /\ 1 <= DLINES
        BY <1>5, <2>2, CachesAssumption
      <4> QED
        BY <4>1, RemainderIs
    <3> QED
      BY <1>3, <3>1, <3>2
  <2> QED
    BY <1>1, <1>3, <2>1, <2>2 DEF Published
<1>7. Fetched' /\ Discarded'
  BY <1>1, <1>3 DEF Fetched, Discarded
<1>8. Uncached'
  <2>1. ASSUME NEW b \in uncached PROVE LineOf(b) \notin dcached'
    BY <1>1, <1>2 DEF CachesInv, Uncached
  <2> QED
    BY <1>1, <2>1 DEF CachesInv, Uncached
<1> QED
  BY <1>3, <1>4, <1>6, <1>7, <1>8 DEF CachesInv

LEMMA DiscardKept ==
    ASSUME CachesInv, DiscardDataLine
    PROVE  CachesInv'
<1>1. /\ flush.do = "discard"
      /\ dcached' = dcached \ {LineOf(flush.i)}
      /\ behind' = behind \ Bytes(LineOf(flush.i))
      /\ flush' = [flush EXCEPT !.i = @ + LINE]
      /\ icached' = icached /\ outdated' = outdated
      /\ fresh' = fresh /\ uncached' = uncached
  BY DEF DiscardDataLine
<1>2. /\ FlushTypes' /\ LineOf(flush.i) \in Nat /\ flush'.do = "discard"
      /\ LineOf(flush'.i) = LineOf(flush.i) + 1
  BY <1>1, NextLine DEF CachesInv
<1>3. CacheTypes'
  <2>1. ASSUME NEW c \in behind' PROVE LineOf(c) \in dcached'
    <3>1. LineOf(flush.i) \in Int /\ c \in Byte
      BY <1>1, <1>2, <2>1 DEF CachesInv, CacheTypes
    <3>2. LineOf(c) # LineOf(flush.i)
      BY <1>1, <2>1, <3>1, InLine
    <3> QED
      BY <1>1, <2>1, <3>2 DEF CachesInv, CacheTypes
  <2> QED
    BY <1>1, <2>1 DEF CachesInv, CacheTypes
<1>4. Published' /\ Fetched'
  BY <1>2 DEF Published, Fetched
<1>5. Uncached'
  BY <1>1 DEF CachesInv, Uncached
<1>6. Discarded'
  <2>1. ASSUME NEW b \in fresh, LineOf(b) < LineOf(flush.i) + 1, LineOf(b) \in dcached'
        PROVE  FALSE
    <3>1. LineOf(b) \in Nat
      BY ByteFacts DEF CachesInv, CacheTypes
    <3>2. LineOf(b) < LineOf(flush.i) \/ LineOf(b) = LineOf(flush.i)
      BY <1>2, <2>1, <3>1
    <3> QED
      BY <1>1, <2>1, <3>2 DEF CachesInv, Discarded
  <2> QED
    BY <1>1, <1>2, <2>1 DEF Discarded
<1> QED
  BY <1>2, <1>3, <1>4, <1>5, <1>6 DEF CachesInv

\* A flush of the data cache that has come to its end has met every byte.
LEMMA AllPublished ==
    ASSUME CachesInv, flush.do \in {"publish", "all"}, flush.i >= Limit,
           NEW b \in fresh
    PROVE  b \notin behind
<1>1. /\ flush.start \in Nat /\ flush.end \in Nat /\ flush.i \in Nat
      /\ flush.start % LINE = 0 => flush.i % LINE = 0
      /\ b \in Byte
  BY DEF CachesInv, FlushTypes, CacheTypes
<1>2. CASE flush.do = "publish"
  <2>1. b < flush.end /\ b \in Nat
    BY <1>1, <1>2, ByteFacts DEF CachesInv, FlushTypes
  <2>2. flush.end + (IF flush.start % LINE = 0 THEN 0 ELSE LINE) <= flush.i
    BY <1>1, CachesAssumption DEF Limit
  <2>3. LineOf(b) < LineOf(flush.i)
    BY <1>1, <2>1, <2>2, RegionPassed
  <2> QED
    BY <1>2, <2>3 DEF CachesInv, Published
<1>3. CASE flush.do = "all"
  <2>1. flush.start = 0 /\ flush.end = 0 + DLINES * LINE
    BY <1>1, <1>3 DEF CachesInv, FlushTypes
  <2>2. 0 % LINE = 0 /\ LineOf(0) = 0
    BY CachesAssumption, QuotientIs DEF LineOf
  <2>3. flush.end <= flush.i
    BY <1>1, <2>1, <2>2 DEF Limit
  <2>4. LineOf(0 + DLINES * LINE) = 0 + DLINES /\ DLINES \in Nat /\ 1 <= DLINES
    BY <2>2, CachesAssumption, AheadByLines
  <2>5. DLINES <= LineOf(flush.i) /\ LineOf(flush.i) \in Nat
    BY <1>1, <2>1, <2>3, <2>4, LineNumber
  <2>6. LineOf(b) % DLINES \in 0..DLINES - 1
    BY <1>1, <2>4, ByteFacts, RemainderIs
  <2> QED
    BY <1>3, <2>4, <2>5, <2>6 DEF CachesInv, Published
<1> QED
  BY <1>2, <1>3

LEMMA GoOnKept ==
    ASSUME CachesInv, GoOn
    PROVE  CachesInv'
<1>1. /\ flush.do \in {"publish", "all"} /\ flush.i >= Limit
      /\ flush' = [do |-> "icache", start |-> flush.start,
                   end |-> flush.start + ILength, i |-> flush.start]
      /\ UNCHANGED <<dcached, behind, icached, outdated, fresh, uncached>>
  BY DEF GoOn, Begins
<1>2. /\ flush.start \in Nat /\ flush.end \in Nat
      /\ LineOf(flush.start) \in Nat
  BY LineNumber DEF CachesInv, FlushTypes
<1>3. CacheTypes'
  BY <1>1 DEF CachesInv, CacheTypes
<1>4. FlushTypes'
  <2>1. ILINES * LINE \in Nat
    BY CachesAssumption, SMT
  <2>2. CASE ILength = ILINES * LINE
    BY <1>1, <1>2, <2>1, <2>2 DEF FlushTypes
  <2>3. CASE ILength # ILINES * LINE
    <3>1. flush.do = "publish" /\ ILength = flush.end - flush.start
      BY <1>1, <2>3 DEF ILength
    <3>2. fresh \subseteq flush.start..flush.end - 1
      BY <3>1 DEF CachesInv, FlushTypes
    <3>3. flush.start + ILength = flush.end
      BY <1>2, <3>1
    <3> QED
      BY <1>1, <1>2, <3>2, <3>3 DEF FlushTypes
  <2> QED
    BY <2>2, <2>3
<1>5. Published'
  BY <1>1, AllPublished DEF Published
<1>6. Fetched' /\ Discarded'
  <2>1. LineOf(flush'.start)..LineOf(flush'.i) - 1 = {}
    BY <1>1, <1>2
  <2> QED
    BY <1>1, <2>1 DEF Fetched, Reached, Discarded
<1>7. Uncached'
  BY <1>1 DEF CachesInv, Uncached
<1> QED
  BY <1>3, <1>4, <1>5, <1>6, <1>7 DEF CachesInv

LEMMA FlushCodeKept ==
    ASSUME CachesInv, FlushCodeLine
    PROVE  CachesInv'
<1> DEFINE lines == {l \in icached : l % ILINES = LineOf(flush.i) % ILINES}
<1>1. /\ flush.do = "icache"
      /\ icached' = icached \ lines
      /\ outdated' = outdated \ BytesOf(lines)
      /\ flush' = [flush EXCEPT !.i = @ + LINE]
      /\ dcached' = dcached /\ behind' = behind
      /\ fresh' = fresh /\ uncached' = uncached
  BY DEF FlushCodeLine
<1>2. /\ lines \subseteq icached
      /\ \A l \in icached : l % ILINES = LineOf(flush.i) % ILINES => l \in lines
  OBVIOUS
<1> HIDE DEF lines
<1>3. /\ FlushTypes'
      /\ LineOf(flush.i) \in Nat /\ LineOf(flush'.i) = LineOf(flush.i) + 1
      /\ flush'.do = flush.do /\ flush'.start = flush.start
  BY <1>1, NextLine DEF CachesInv
<1>4. CacheTypes'
  <2>1. ASSUME NEW c \in outdated' PROVE LineOf(c) \in icached'
    BY <1>1, <1>2, <2>1, InLines DEF CachesInv, CacheTypes
  <2> QED
    BY <1>1, <2>1 DEF CachesInv, CacheTypes
<1>5. Published' /\ Discarded'
  BY <1>1, <1>3 DEF CachesInv, Published, Discarded
<1>6. Fetched'
  <2>1. ASSUME NEW b \in fresh, Reached(b)', b \in outdated' PROVE FALSE
    <3>1. /\ b \in outdated /\ b \in Byte /\ LineOf(b) \in icached
          /\ b \notin BytesOf(lines)
      BY <1>1, <2>1 DEF CachesInv, CacheTypes
    <3>2. LineOf(b) \notin lines
      BY <1>2, <3>1, InLines DEF CachesInv, CacheTypes
    <3>3. LineOf(b) % ILINES # LineOf(flush.i) % ILINES
      BY <1>2, <3>1, <3>2
    <3>4. PICK l \in LineOf(flush'.start)..LineOf(flush'.i) - 1 :
             l % ILINES = LineOf(b) % ILINES
      BY <2>1 DEF Reached
    <3>5. LineOf(flush.start) \in Nat
      BY LineNumber DEF CachesInv, FlushTypes
    <3>6. l \in LineOf(flush.start)..LineOf(flush.i) - 1
      BY <1>3, <3>3, <3>4, <3>5
    <3>7. Reached(b)
      BY <3>4, <3>6 DEF Reached
    <3> QED
      BY <1>1, <3>1, <3>7 DEF CachesInv, Fetched
  <2> QED
    BY <1>1, <2>1 DEF Fetched
<1>7. Uncached'
  BY <1>1 DEF CachesInv, Uncached
<1> QED
  BY <1>3, <1>4, <1>5, <1>6, <1>7 DEF CachesInv

LEMMA ReturnKept ==
    ASSUME CachesInv, FlushReturns
    PROVE  CachesInv'
<1>1. /\ flush.do \in {"icache", "discard", "malloc"} /\ flush.i >= Limit
      /\ flush' = NoFlush /\ fresh' = {}
      /\ UNCHANGED <<dcached, behind, icached, outdated, uncached>>
  BY DEF FlushReturns
<1>2. CacheTypes'
  BY <1>1 DEF CachesInv, CacheTypes
<1>3. FlushTypes' /\ Published' /\ Discarded' /\ Fetched'
  BY <1>1 DEF FlushTypes, Published, Discarded, Fetched, NoFlush
<1>4. ASSUME flush.do = "malloc" PROVE flush.i # flush.start
  <2>1. /\ flush.i \in Nat /\ flush.start \in Nat /\ flush.end \in Nat
        /\ flush.start % LINE = 0 /\ flush.start < flush.end
    BY <1>4 DEF CachesInv, FlushTypes
  <2>2. flush.i >= flush.end
    BY <1>1, <2>1 DEF Limit
  <2> QED
    BY <2>1, <2>2
<1>5. Uncached'
  BY <1>1, <1>4 DEF CachesInv, Uncached
<1> QED
  BY <1>2, <1>3, <1>5 DEF CachesInv

LEMMA CachesInvariant == CachesSpec => []CachesInv
<1>1. CachesInit => CachesInv
  <2> SUFFICES ASSUME CachesInit PROVE CachesInv
    OBVIOUS
  <2>1. CacheTypes /\ Published /\ Discarded /\ Fetched /\ Uncached
    BY DEF CachesInit, CacheTypes, Published, Discarded, Fetched, Uncached, NoFlush
  <2>2. FlushTypes
    BY DEF CachesInit, FlushTypes, NoFlush
  <2> QED
    BY <2>1, <2>2 DEF CachesInv
<1>2. CachesInv /\ [CachesNext]_cache_vars => CachesInv'
  <2> SUFFICES ASSUME CachesInv, [CachesNext]_cache_vars PROVE CachesInv'
    OBVIOUS
  <2>1. CASE UNCHANGED cache_vars
    BY <2>1 DEF cache_vars, CachesInv, CacheTypes, FlushTypes, Published, Discarded,
                Fetched, Reached, Uncached
  <2> QED
    BY <2>1, AccessKept, FetchKept, CallsKept, MallocKept, FreeKept, FlushDataKept,
       DiscardKept, GoOnKept, FlushCodeKept, ReturnKept DEF CachesNext
<1> QED
  BY <1>1, <1>2, PTL DEF CachesSpec

(* For caches and lines of every size: code that was written and flushed is
   what is fetched, and what was discarded, and uncached blocks, are not in the
   data cache. *)
THEOREM CachesAreSound == CachesSpec => []CachesSound
<1>1. CachesInv => CachesSound
  <2> SUFFICES ASSUME CachesInv PROVE CachesSound
    OBVIOUS
  <2>1. ASSUME flush.do = "icache", flush.i >= Limit, NEW b \in fresh
        PROVE  Reached(b)
    <3>1. /\ flush.start \in Nat /\ flush.end \in Nat /\ flush.i \in Nat
          /\ flush.start % LINE = 0 => flush.i % LINE = 0
          /\ b \in Byte
      BY DEF CachesInv, FlushTypes, CacheTypes
    <3>2. /\ LineOf(flush.start) \in Nat /\ LineOf(flush.i) \in Nat
          /\ b \in Nat /\ LineOf(b) \in Nat
      BY <3>1, ByteFacts, LineNumber
    <3>3. flush.end + (IF flush.start % LINE = 0 THEN 0 ELSE LINE) <= flush.i
      BY <2>1, <3>1, CachesAssumption DEF Limit
    <3>4. CASE flush.end = flush.start + ILINES * LINE
      <4>1. ILINES \in Nat /\ 1 <= ILINES /\ LINE \in Nat
        BY CachesAssumption
      <4>2. LineOf(flush.end) = LineOf(flush.start) + ILINES
        BY <3>1, <3>4, <4>1, AheadByLines
      <4>3. flush.end <= flush.i
        BY <3>1, <3>3, <4>1
      <4>4. LineOf(flush.end) <= LineOf(flush.i)
        BY <3>1, <4>3, LineNumber
      <4>5. PICK l \in LineOf(flush.start)..LineOf(flush.start) + ILINES - 1 :
               l % ILINES = LineOf(b) % ILINES
        <5>1. PICK m \in Nat, c \in Nat : m = LineOf(flush.start) /\ c = LineOf(b)
          BY <3>2, Zenon
        <5>2. \E l \in m..m + ILINES - 1 : l % ILINES = c % ILINES
          BY <4>1, SomeRemainder
        <5> QED
          BY <5>1, <5>2, Zenon
      <4>6. l \in LineOf(flush.start)..LineOf(flush.i) - 1
        BY <3>2, <4>1, <4>2, <4>4, <4>5
      <4> QED
        BY <4>5, <4>6 DEF Reached
    <3>5. CASE fresh \subseteq flush.start..flush.end - 1
      <4>1. flush.start <= b /\ b < flush.end
        BY <2>1, <3>1, <3>2, <3>5
      <4>2. LineOf(b) < LineOf(flush.i)
        BY <3>1, <3>2, <3>3, <4>1, RegionPassed
      <4>3. LineOf(flush.start) <= LineOf(b)
        BY <3>1, <3>2, <4>1, LineNumber
      <4>4. LineOf(b) \in LineOf(flush.start)..LineOf(flush.i) - 1
        BY <3>2, <4>2, <4>3
      <4> QED
        BY <4>4 DEF Reached
    <3> QED
      BY <2>1, <3>4, <3>5 DEF CachesInv, FlushTypes
  <2>2. flush.do = "icache" /\ flush.i >= Limit =>
          fresh \intersect (behind \union outdated) = {}
    BY <2>1 DEF CachesInv, Published, Fetched
  <2>3. flush.do # "malloc" => \A b \in uncached : LineOf(b) \notin dcached
    BY DEF CachesInv, Uncached
  <2>4. ASSUME flush.do = "discard", flush.i >= Limit, NEW b \in fresh
        PROVE  LineOf(b) \notin dcached
    <3>1. /\ flush.start \in Nat /\ flush.end \in Nat /\ flush.i \in Nat
          /\ flush.start % LINE = 0 => flush.i % LINE = 0
          /\ b \in Nat /\ b < flush.end
      BY <2>4, ByteFacts DEF CachesInv, FlushTypes, CacheTypes
    <3>2. flush.end + (IF flush.start % LINE = 0 THEN 0 ELSE LINE) <= flush.i
      BY <2>4, <3>1, CachesAssumption DEF Limit
    <3>3. LineOf(b) < LineOf(flush.i)
      BY <3>1, <3>2, RegionPassed
    <3> QED
      BY <2>4, <3>3 DEF CachesInv, Discarded
  <2> QED
    BY <2>2, <2>3, <2>4 DEF CachesSound
<1> QED
  BY <1>1, CachesInvariant, PTL

-----------------------------------------------------------------------------
(* The list of alarms. *)

LinkTypes ==
    /\ next \in [Entries -> Entries] /\ previous \in [Entries -> Entries]
    /\ time \in [Alarms -> Nat] /\ nticks \in Nat
    /\ cursor \in Entries \union {none} /\ following \in Entries \union {none}
    /\ stopped \subseteq Alarms

\* The list is one ring: the links are inverse, and nobody is in the list who
\* cannot be reached from its head.
Ring ==
    /\ \A e \in Entries : previous[next[e]] = e /\ next[previous[e]] = e
    /\ \A ring \in SUBSET Entries :
         ListHead \in ring /\ (\A e \in ring : next[e] \in ring) => Listed \subseteq ring

LinksInv == LinkTypes /\ Ring /\ Listed \intersect stopped = {}

LEMMA EntryFacts ==
    /\ ListHead \in Entries /\ ListHead \notin Alarms /\ none \notin Entries
    /\ Alarms \subseteq Entries
    /\ \A e \in Entries : e # ListHead => e \in Alarms
BY AlarmsAssumption DEF Entries

LEMMA Successor ==
    ASSUME LinkTypes, Ring, NEW e \in Entries, e \in Listed \/ e = ListHead
    PROVE  next[e] \in Listed \union {ListHead}
<1>1. next[e] \in Entries /\ previous[next[e]] = e
  BY DEF LinkTypes, Ring
<1>2. ASSUME next[e] # ListHead PROVE next[next[e]] # next[e]
  <2>1. ASSUME next[next[e]] = next[e] PROVE FALSE
    <3>1. previous[next[e]] = next[e]
      BY <1>1, <2>1 DEF Ring
    <3> QED
      BY <1>1, <1>2, <3>1 DEF Listed
  <2> QED
    BY <2>1
<1> QED
  BY <1>1, <1>2, EntryFacts DEF Listed

LEMMA Inserted ==
    ASSUME LinkTypes, Ring, NEW a \in Alarms, next[a] = a, Insert(a)
    PROVE  /\ next' \in [Entries -> Entries] /\ previous' \in [Entries -> Entries]
           /\ next'[a] = next[ListHead] /\ next'[ListHead] = a
           /\ \A e \in Entries : e # a /\ e # ListHead => next'[e] = next[e]
           /\ Listed' = Listed \union {a}
           /\ Ring'
<1> USE EntryFacts
<1>1. /\ next' = [next EXCEPT ![a] = next[ListHead], ![ListHead] = a]
      /\ previous' = [previous EXCEPT ![a] = ListHead, ![next[ListHead]] = a]
      /\ next \in [Entries -> Entries] /\ previous \in [Entries -> Entries]
  BY DEF Insert, LinkTypes
<1>2. next' \in [Entries -> Entries] /\ previous' \in [Entries -> Entries]
  BY <1>1
<1>3. /\ next'[a] = next[ListHead] /\ next'[ListHead] = a
      /\ \A e \in Entries : e # a /\ e # ListHead => next'[e] = next[e]
  BY <1>1
<1>4. previous[a] = a /\ next[ListHead] # a
  BY <1>1 DEF Ring
<1>5. /\ previous'[a] = ListHead /\ previous'[next[ListHead]] = a
      /\ \A e \in Entries : e # a /\ e # next[ListHead] => previous'[e] = previous[e]
  BY <1>1, <1>4
<1>6. Listed' = Listed \union {a}
  <2>1. \A e \in Alarms : next'[e] # e <=> next[e] # e \/ e = a
    BY <1>3, <1>4
  <2> QED
    BY <2>1 DEF Listed
<1>7. ASSUME NEW e \in Entries PROVE previous'[next'[e]] = e
  <2>1. CASE e = a
    BY <1>3, <1>5, <2>1
  <2>2. CASE e = ListHead
    BY <1>3, <1>5, <2>2
  <2>3. CASE e # a /\ e # ListHead
    <3>1. previous[next[e]] = e /\ previous[next[ListHead]] = ListHead
      BY DEF Ring
    <3>2. next[e] # a /\ next[e] # next[ListHead] /\ next[e] \in Entries
      BY <1>1, <1>4, <2>3, <3>1
    <3> QED
      BY <1>3, <1>5, <2>3, <3>1, <3>2
  <2> QED
    BY <2>1, <2>2, <2>3
<1>8. ASSUME NEW e \in Entries PROVE next'[previous'[e]] = e
  <2>1. CASE e = a
    BY <1>3, <1>5, <2>1
  <2>2. CASE e = next[ListHead]
    BY <1>3, <1>5, <2>2
  <2>3. CASE e # a /\ e # next[ListHead]
    <3>1. next[previous[e]] = e /\ previous[e] \in Entries
      BY <1>1 DEF Ring
    <3>2. previous[e] # a /\ previous[e] # ListHead
      BY <2>3, <3>1
    <3> QED
      BY <1>3, <1>5, <2>3, <3>1, <3>2
  <2> QED
    BY <2>1, <2>2, <2>3
<1>9. ASSUME NEW ring \in SUBSET Entries, ListHead \in ring,
             \A e \in ring : next'[e] \in ring
      PROVE  Listed' \subseteq ring
  <2>1. a \in ring /\ next[ListHead] \in ring
    BY <1>3, <1>9
  <2>2. \A e \in ring : next[e] \in ring
    BY <1>3, <1>9, <2>1
  <2>3. Listed \subseteq ring
    BY <1>9, <2>2 DEF Ring
  <2> QED
    BY <1>6, <2>1, <2>3
<1>10. Ring'
  BY <1>7, <1>8, <1>9 DEF Ring
<1> QED
  BY <1>2, <1>3, <1>6, <1>10

LEMMA Removed ==
    ASSUME LinkTypes, Ring, NEW a \in Alarms, Remove(a)
    PROVE  /\ next' \in [Entries -> Entries] /\ previous' \in [Entries -> Entries]
           /\ next'[a] = a
           /\ previous[a] # a => next'[previous[a]] = next[a]
           /\ \A e \in Entries : e # a /\ e # previous[a] => next'[e] = next[e]
           /\ Listed' = Listed \ {a}
           /\ Ring'
<1> USE EntryFacts
<1>1. /\ next' = [next EXCEPT ![previous[a]] = next[a], ![a] = a]
      /\ previous' = [previous EXCEPT ![next[a]] = previous[a], ![a] = a]
      /\ next \in [Entries -> Entries] /\ previous \in [Entries -> Entries]
  BY DEF Remove, LinkTypes
<1>2. next' \in [Entries -> Entries] /\ previous' \in [Entries -> Entries]
  BY <1>1
<1>3. /\ next'[a] = a
      /\ previous[a] # a => next'[previous[a]] = next[a]
      /\ \A e \in Entries : e # a /\ e # previous[a] => next'[e] = next[e]
  BY <1>1
<1>4. /\ previous'[a] = a
      /\ next[a] # a => previous'[next[a]] = previous[a]
      /\ \A e \in Entries : e # a /\ e # next[a] => previous'[e] = previous[e]
  BY <1>1
<1>5. /\ next[previous[a]] = a /\ previous[next[a]] = a
      /\ next[a] \in Entries /\ previous[a] \in Entries
      /\ next[a] = a <=> previous[a] = a
  BY <1>1 DEF Ring
<1>6. Listed' = Listed \ {a}
  <2>1. ASSUME NEW e \in Alarms, e # a PROVE next'[e] # e <=> next[e] # e
    <3>1. CASE e # previous[a]
      BY <1>3, <2>1, <3>1
    <3>2. CASE e = previous[a]
      <4>1. next'[e] = next[a] /\ next[e] = a
        BY <1>3, <1>5, <2>1, <3>2
      <4>2. ASSUME next[a] = e PROVE FALSE
        <5>1. previous[e] = a /\ next[e] = a
          BY <1>5, <3>2, <4>2
        <5> DEFINE rest == Entries \ {e, a}
        <5>2. \A f \in rest : next[f] \in rest
          <6>1. ASSUME NEW f \in rest, next[f] = a \/ next[f] = e PROVE FALSE
            <7>1. previous[next[f]] = f
              BY DEF Ring
            <7>2. f = previous[a] \/ f = previous[e]
              BY <6>1, <7>1
            <7> QED
              BY <3>2, <5>1, <6>1, <7>2
          <6> QED
            BY <1>1, <6>1
        <5>3. ListHead \in rest
          BY <2>1
        <5>4. Listed \subseteq rest
          BY <5>2, <5>3 DEF Ring
        <5> QED
          BY <2>1, <4>1, <5>4 DEF Listed
      <4> QED
        BY <2>1, <4>1, <4>2
    <3> QED
      BY <3>1, <3>2
  <2> QED
    BY <1>3, <2>1 DEF Listed
<1>7. ASSUME NEW e \in Entries PROVE previous'[next'[e]] = e
  <2>1. CASE e = a
    BY <1>3, <1>4, <2>1
  <2>2. CASE e # a /\ e = previous[a]
    BY <1>3, <1>4, <1>5, <2>2
  <2>3. CASE e # a /\ e # previous[a]
    <3>1. previous[next[e]] = e /\ next[e] \in Entries
      BY <1>1 DEF Ring
    <3>2. next[e] # a /\ next[e] # next[a]
      BY <1>5, <2>3, <3>1
    <3> QED
      BY <1>3, <1>4, <2>3, <3>1, <3>2
  <2> QED
    BY <2>1, <2>2, <2>3
<1>8. ASSUME NEW e \in Entries PROVE next'[previous'[e]] = e
  <2>1. CASE e = a
    BY <1>3, <1>4, <2>1
  <2>2. CASE e # a /\ e = next[a]
    BY <1>3, <1>4, <1>5, <2>2
  <2>3. CASE e # a /\ e # next[a]
    <3>1. next[previous[e]] = e /\ previous[e] \in Entries
      BY <1>1 DEF Ring
    <3>2. previous[e] # a /\ previous[e] # previous[a]
      BY <1>5, <2>3, <3>1
    <3> QED
      BY <1>3, <1>4, <2>3, <3>1, <3>2
  <2> QED
    BY <2>1, <2>2, <2>3
<1>9. ASSUME NEW ring \in SUBSET Entries, ListHead \in ring,
             \A e \in ring : next'[e] \in ring
      PROVE  Listed' \subseteq ring
  <2>1. CASE previous[a] \in ring /\ previous[a] # a
    <3> DEFINE more == ring \union {a}
    <3>1. next[a] \in ring
      BY <1>3, <1>9, <2>1
    <3>2. \A e \in more : next[e] \in more
      BY <1>3, <1>5, <1>9, <3>1
    <3>3. Listed \subseteq more
      <4>1. ListHead \in more /\ more \in SUBSET Entries
        BY <1>9
      <4> QED
        BY <3>2, <4>1 DEF Ring
    <3> QED
      BY <1>6, <3>3
  <2>2. CASE previous[a] \notin ring \/ previous[a] = a
    <3> DEFINE less == ring \ {a}
    <3>1. ASSUME NEW e \in less PROVE next[e] \in less
      <4>1. e # a /\ e # previous[a] /\ e \in Entries /\ e \in ring
        BY <1>9, <2>2, <3>1
      <4>2. next[e] # a
        BY <4>1 DEF Ring
      <4> QED
        BY <1>3, <1>9, <4>1, <4>2
    <3>2. Listed \subseteq less
      <4>1. ListHead \in less /\ less \in SUBSET Entries
        BY <1>9
      <4> QED
        BY <3>1, <4>1 DEF Ring
    <3> QED
      BY <1>6, <3>2
  <2> QED
    BY <2>1, <2>2
<1>10. Ring'
  BY <1>7, <1>8, <1>9 DEF Ring
<1> QED
  BY <1>2, <1>3, <1>6, <1>10

LEMMA StartKeepsList ==
    ASSUME LinksInv, NEW a \in Alarms, Start(a), nticks' = nticks,
           cursor' = cursor, following' = following
    PROVE  /\ LinksInv'
           /\ next'[a] = next[ListHead] /\ next'[ListHead] = a
           /\ \A e \in Entries : e # a /\ e # ListHead => next'[e] = next[e]
           /\ Listed' = Listed \union {a} /\ a \notin Listed
           /\ time'[a] > nticks
           /\ \A e \in Alarms : e # a => time'[e] = time[e]
<1>1. PICK n \in DELAYS : time' = [time EXCEPT ![a] = n + nticks + 1]
  BY DEF Start, Due
<1>2. n \in Nat /\ nticks \in Nat /\ time \in [Alarms -> Nat]
  BY AlarmsAssumption DEF LinksInv, LinkTypes
<1>3. /\ time' \in [Alarms -> Nat] /\ time'[a] > nticks
      /\ \A e \in Alarms : e # a => time'[e] = time[e]
  BY <1>1, <1>2
<1>4. /\ next' \in [Entries -> Entries] /\ previous' \in [Entries -> Entries]
      /\ next'[a] = next[ListHead] /\ next'[ListHead] = a
      /\ \A e \in Entries : e # a /\ e # ListHead => next'[e] = next[e]
      /\ Listed' = Listed \union {a}
      /\ Ring'
  BY Inserted DEF LinksInv, Start
<1>5. LinkTypes'
  BY <1>3, <1>4 DEF LinksInv, LinkTypes, Start
<1>6. Listed' \intersect stopped' = {} /\ a \notin Listed
  BY <1>4 DEF LinksInv, Start, Listed
<1> QED
  BY <1>3, <1>4, <1>5, <1>6 DEF LinksInv

LEMMA StopKeepsList ==
    ASSUME LinksInv, NEW a \in Alarms, Stop(a), nticks' = nticks,
           cursor' \in Entries \union {none}, following' \in Entries \union {none}
    PROVE  /\ LinksInv'
           /\ next'[a] = a
           /\ previous[a] # a => next'[previous[a]] = next[a]
           /\ \A e \in Entries : e # a /\ e # previous[a] => next'[e] = next[e]
           /\ Listed' = Listed \ {a} /\ time' = time
<1>1. /\ next' \in [Entries -> Entries] /\ previous' \in [Entries -> Entries]
      /\ next'[a] = a
      /\ previous[a] # a => next'[previous[a]] = next[a]
      /\ \A e \in Entries : e # a /\ e # previous[a] => next'[e] = next[e]
      /\ Listed' = Listed \ {a}
      /\ Ring'
  BY Removed DEF LinksInv, Stop
<1>2. LinkTypes' /\ time' = time
  BY <1>1 DEF LinksInv, LinkTypes, Stop
<1>3. Listed' \intersect stopped' = {}
  BY <1>1 DEF LinksInv, Stop
<1> QED
  BY <1>1, <1>2, <1>3 DEF LinksInv

\* The steps that change no link and stop or start nothing.
LEMMA SameList ==
    ASSUME LinksInv, next' = next, previous' = previous, stopped' = stopped, LinkTypes'
    PROVE  LinksInv' /\ Listed' = Listed
BY DEF LinksInv, Ring, Listed

LEMMA LinksKept ==
    ASSUME LinksInv, [AlarmsNext]_alarm_vars
    PROVE  LinksInv'
<1> USE EntryFacts
<1>1. CASE SysclkInit \/ TickEnds
  BY <1>1, SameList DEF SysclkInit, TickEnds, LinksInv, LinkTypes
<1>2. CASE ProgramStarts \/ CallbackStarts
  BY <1>2, StartKeepsList DEF ProgramStarts, CallbackStarts
<1>3. CASE ProgramStops \/ CallbackStops
  <2>1. PICK a \in Alarms : Stop(a)
    BY <1>3 DEF ProgramStops, CallbackStops, Listed, LinksInv, LinkTypes
  <2> QED
    BY <1>3, <2>1, StopKeepsList DEF ProgramStops, CallbackStops, LinksInv, LinkTypes
<1>4. CASE Tick
  <2>1. LinkTypes'
    BY <1>4 DEF Tick, LinksInv, LinkTypes
  <2> QED
    BY <1>4, <2>1, SameList DEF Tick
<1>5. CASE Visit
  <2>1. LinkTypes'
    BY <1>5 DEF Visit, LinksInv, LinkTypes
  <2> QED
    BY <1>5, <2>1, SameList DEF Visit
<1>6. CASE ReturnsZero
  BY <1>6, StopKeepsList DEF ReturnsZero, InCallback, LinksInv, LinkTypes
<1>7. CASE ReturnsDelay
  <2>1. PICK n \in DELAYS \ {0} : time' = [time EXCEPT ![cursor] = @ + n]
    BY <1>7 DEF ReturnsDelay
  <2>2. time' \in [Alarms -> Nat]
    BY <1>7, <2>1, AlarmsAssumption DEF ReturnsDelay, InCallback, LinksInv, LinkTypes
  <2>3. LinkTypes'
    BY <1>7, <2>2 DEF ReturnsDelay, LinksInv, LinkTypes
  <2> QED
    BY <1>7, <2>3, SameList DEF ReturnsDelay
<1>8. CASE UNCHANGED alarm_vars
  <2>1. LinkTypes'
    BY <1>8 DEF alarm_vars, LinksInv, LinkTypes
  <2> QED
    BY <1>8, <2>1, SameList DEF alarm_vars
<1> QED
  BY <1>1, <1>2, <1>3, <1>4, <1>5, <1>6, <1>7, <1>8 DEF AlarmsNext, InTick

LEMMA LinksInit == AlarmsInit => LinksInv
<1> SUFFICES ASSUME AlarmsInit PROVE LinksInv
  OBVIOUS
<1>1. LinkTypes
  BY DEF AlarmsInit, LinkTypes
<1>2. Listed = {}
  BY EntryFacts DEF AlarmsInit, Listed
<1>3. Ring
  BY <1>2 DEF AlarmsInit, Ring
<1> QED
  BY <1>1, <1>2, <1>3 DEF LinksInv

LEMMA LinksInvariant == AlarmsSpec => []LinksInv
BY LinksInit, LinksKept, PTL DEF AlarmsSpec

\* Whoever changes the list of alarms, it stays one ring through its head.
THEOREM ListIsSound == AlarmsSpec => []ListSound
<1>1. LinksInv => ListSound
  BY DEF LinksInv, Ring, ListSound
<1> QED
  BY <1>1, LinksInvariant, PTL

-----------------------------------------------------------------------------
(* The walk of alt_tick(). *)

\* Where the walk goes on, and the alarms it has still to call.
Place == IF following = none THEN cursor ELSE following
Late == {a \in Listed : time[a] <= nticks}
Waiting == Late \ (IF following = none THEN {} ELSE {cursor})

\* A set that the walk does not leave before it comes to the head of the list.
ClosedTail(tail) == \A e \in tail : e # ListHead => next[e] \in tail

\* The walk is on its way to the head, or stands at an alarm that was cut out in
\* front of it.
WalkInv ==
    /\ cut \subseteq stopped
    /\ cursor = none => following = none /\ Late = {}
    /\ following # none => /\ cursor \in Alarms
                           /\ following \in Listed \union {ListHead} \union cut
    /\ following = none /\ cursor # none =>
         cursor \in Listed \union {ListHead} \union cut
    /\ \A a \in Listed : time[a] >= nticks
    /\ cursor # none /\ Place \notin cut =>
         \A tail \in SUBSET Entries :
           Place \in tail /\ ClosedTail(tail) => Waiting \subseteq tail

LEMMA CutFacts ==
    ASSUME LinksInv, WalkInv
    PROVE  /\ cut \subseteq Alarms /\ ListHead \notin cut /\ none \notin cut
           /\ \A a \in cut : a \notin Listed /\ next[a] = a
BY EntryFacts DEF LinksInv, LinkTypes, WalkInv, Listed

LEMMA WalkInit == AlarmsInit => WalkInv
<1> SUFFICES ASSUME AlarmsInit PROVE WalkInv
  OBVIOUS
<1>1. Listed = {}
  BY EntryFacts DEF AlarmsInit, Listed
<1> QED
  BY <1>1 DEF AlarmsInit, WalkInv, Late

LEMMA StartKeepsWalk ==
    ASSUME LinksInv, WalkInv, NEW a \in Alarms, Start(a), nticks' = nticks,
           cursor' = cursor, following' = following
    PROVE  WalkInv'
<1> USE EntryFacts
<1>1. /\ next'[a] = next[ListHead] /\ next'[ListHead] = a
      /\ \A e \in Entries : e # a /\ e # ListHead => next'[e] = next[e]
      /\ Listed' = Listed \union {a} /\ a \notin Listed
      /\ time'[a] > nticks
      /\ \A e \in Alarms : e # a => time'[e] = time[e]
      /\ next[a] = a
  BY StartKeepsList DEF Start
<1>2. /\ nticks \in Nat /\ Listed \subseteq Alarms
      /\ LinkTypes'
  BY StartKeepsList DEF LinksInv, LinkTypes, Listed
<1>3. time'[a] \in Nat
  BY <1>2 DEF LinkTypes
<1>4. Late' \subseteq Late
  <2>1. ~ time'[a] <= nticks
    BY <1>1, <1>2, <1>3
  <2> QED
    BY <1>1, <1>2, <2>1 DEF Late
<1>5. \A e \in Listed' : time'[e] >= nticks'
  <2>1. time'[a] >= nticks
    BY <1>1, <1>2, <1>3
  <2> QED
    BY <1>1, <1>2, <2>1 DEF WalkInv
<1>6. ASSUME cursor # none, Place \notin cut', NEW tail \in SUBSET Entries, Place \in tail,
             \A e \in tail : e # ListHead => next'[e] \in tail
      PROVE  Waiting' \subseteq tail
  <2>1. CASE Place \notin cut
    <3>1. ClosedTail(tail)
      BY <1>1, <1>6 DEF ClosedTail
    <3>2. Waiting \subseteq tail
      BY <1>6, <2>1, <3>1 DEF WalkInv
    <3> QED
      BY <1>4, <3>2 DEF Waiting
  <2>2. CASE Place \in cut            \* started again, it stands in front
    <3> DEFINE ring == tail \union {ListHead}
    <3>1. Place = a
      BY <1>6, <2>2 DEF Start
    <3>2. /\ \A e \in ring : next'[e] \in ring
          /\ ring \in SUBSET Entries /\ ListHead \in ring
      BY <1>1, <1>6, <3>1
    <3>3. Listed' \subseteq ring
      BY <3>2, StartKeepsList DEF LinksInv, Ring
    <3>4. ListHead \notin Listed'
      BY DEF Listed
    <3>5. Waiting' \subseteq Listed'
      BY DEF Waiting, Late
    <3> QED
      BY <3>3, <3>4, <3>5
  <2> QED
    BY <2>1, <2>2
<1>7. Place' = Place
  BY DEF Place
<1>8. cut' = cut \ {a} /\ stopped' = stopped \ {a}
  BY DEF Start
<1>9. cut' \subseteq stopped' /\ Listed \union cut \subseteq Listed' \union cut'
  BY <1>1, <1>8 DEF WalkInv
<1> QED
  BY <1>1, <1>4, <1>5, <1>6, <1>7, <1>9 DEF WalkInv, ClosedTail

\* What stopping an alarm that is not next does to the rest of the walk.
LEMMA StopKeepsTails ==
    ASSUME LinksInv, WalkInv, cursor # none, NEW a \in Alarms, Stop(a), nticks' = nticks,
           cursor' \in Entries \union {none}, following' \in Entries \union {none},
           a # Place, Place \notin cut,
           NEW tail \in SUBSET Entries, Place \in tail,
           \A e \in tail : e # ListHead => next'[e] \in tail
    PROVE  Waiting \subseteq tail \union {a}
<1> USE EntryFacts
<1>1. /\ next'[a] = a
      /\ previous[a] # a => next'[previous[a]] = next[a]
      /\ \A e \in Entries : e # a /\ e # previous[a] => next'[e] = next[e]
  BY StopKeepsList
<1>2. next[previous[a]] = a /\ previous[a] \in Entries
  BY DEF LinksInv, LinkTypes, Ring
<1>3. CASE previous[a] \in tail /\ previous[a] # a /\ previous[a] # ListHead
  <2> DEFINE more == tail \union {a}
  <2>1. next[a] \in tail
    BY <1>1, <1>3
  <2>2. ClosedTail(more)
    BY <1>1, <1>2, <2>1 DEF ClosedTail
  <2>3. more \in SUBSET Entries /\ Place \in more
    OBVIOUS
  <2> QED
    BY <2>2, <2>3 DEF WalkInv
<1>4. CASE previous[a] \notin tail \/ previous[a] = a \/ previous[a] = ListHead
  <2> DEFINE less == tail \ {a}
  <2>1. ASSUME NEW e \in less, e # ListHead PROVE next[e] \in less
    <3>1. e # a /\ e # previous[a] /\ e \in Entries /\ e \in tail
      BY <1>4, <2>1
    <3>2. next[e] # a
      BY <3>1 DEF LinksInv, Ring
    <3> QED
      BY <1>1, <2>1, <3>1, <3>2
  <2>2. less \in SUBSET Entries /\ Place \in less
    OBVIOUS
  <2>3. ClosedTail(less)
    BY <2>1 DEF ClosedTail
  <2> QED
    BY <2>2, <2>3 DEF WalkInv
<1> QED
  BY <1>3, <1>4

LEMMA WalkKept ==
    ASSUME LinksInv, WalkInv, [AlarmsNext]_alarm_vars
    PROVE  WalkInv'
<1> USE EntryFacts
<1>1. CASE SysclkInit
  <2>1. Late' = Late /\ Listed' = Listed /\ Place' = Place
    BY <1>1 DEF SysclkInit, Late, Listed, Place
  <2> QED
    BY <1>1, <2>1 DEF SysclkInit, WalkInv, Waiting, ClosedTail
<1>2. CASE UNCHANGED alarm_vars
  <2>1. Late' = Late /\ Listed' = Listed /\ Place' = Place
    BY <1>2 DEF alarm_vars, Late, Listed, Place
  <2> QED
    BY <1>2, <2>1 DEF alarm_vars, WalkInv, Waiting, ClosedTail
<1>3. CASE ProgramStarts \/ CallbackStarts
  BY <1>3, StartKeepsWalk DEF ProgramStarts, CallbackStarts
<1>4. CASE ProgramStops
  <2>1. PICK a \in Alarms : Stop(a)
    BY <1>4 DEF ProgramStops, Listed, LinksInv, LinkTypes
  <2>2. Listed' = Listed \ {a} /\ time' = time
    BY <1>4, <2>1, StopKeepsList DEF ProgramStops, LinksInv, LinkTypes
  <2>3. Late' = {}
    BY <1>4, <2>2 DEF ProgramStops, WalkInv, Late
  <2>4. cut' \subseteq stopped' /\ cursor' = none /\ following' = none
    BY <1>4, <2>1 DEF ProgramStops, WalkInv, Stop
  <2> QED
    BY <1>4, <2>2, <2>3, <2>4 DEF ProgramStops, WalkInv
<1>5. CASE Tick
  <2>1. /\ cursor = none /\ following' = none /\ nticks' = nticks + 1
        /\ cursor' = next[ListHead] /\ next' = next /\ time' = time
        /\ nticks \in Nat /\ time \in [Alarms -> Nat]
    BY <1>5 DEF Tick, LinksInv, LinkTypes
  <2>2. Listed' = Listed /\ Listed \subseteq Alarms
    BY <2>1 DEF Listed
  <2>3. cursor' \in Listed \union {ListHead}
    BY <2>1, Successor DEF LinksInv
  <2>4. ASSUME NEW a \in Listed PROVE time[a] >= nticks + 1
    <3>1. ~ time[a] <= nticks
      BY <2>1 DEF WalkInv, Late
    <3> QED
      BY <2>1, <2>2, <3>1
  <2>5. ASSUME NEW tail \in SUBSET Entries, cursor' \in tail, ClosedTail(tail)
        PROVE  Listed \subseteq tail
    <3> DEFINE ring == tail \union {ListHead}
    <3>1. \A e \in ring : next[e] \in ring
      BY <2>1, <2>5 DEF ClosedTail
    <3>2. ring \in SUBSET Entries /\ ListHead \in ring
      OBVIOUS
    <3>3. Listed \subseteq ring
      BY <3>1, <3>2 DEF LinksInv, Ring
    <3> QED
      BY <2>2, <3>3
  <2>6. Place' = cursor' /\ Waiting' \subseteq Listed
    BY <2>1, <2>2 DEF Place, Waiting, Late
  <2>7. \A tail : ClosedTail(tail)' <=> ClosedTail(tail)
    BY <2>1 DEF ClosedTail
  <2> QED
    BY <1>5, <2>1, <2>2, <2>3, <2>4, <2>5, <2>6, <2>7 DEF WalkInv, Tick
<1>6a. CASE Visit /\ cursor \in cut
  <2>1. /\ cursor \in Alarms /\ following = none /\ next[cursor] = cursor
        /\ next' = next /\ time' = time /\ nticks' = nticks
        /\ cut' = cut /\ stopped' = stopped
    BY <1>6a, CutFacts DEF Visit
  <2>2. Listed' = Listed /\ cursor' = cursor /\ following' \in {none, cursor}
    BY <1>6a, <2>1 DEF Visit, Listed
  <2>3. Place' = cursor /\ cursor # none
    BY <2>1, <2>2 DEF Place
  <2> QED
    BY <1>6a, <2>1, <2>2, <2>3 DEF WalkInv
<1>6. CASE Visit /\ cursor \notin cut
  <2>1. /\ cursor \in Alarms /\ following = none /\ cursor \in Listed
        /\ cut' = cut /\ stopped' = stopped
        /\ next' = next /\ time' = time /\ nticks' = nticks
    BY <1>6 DEF Visit, WalkInv
  <2>2. Listed' = Listed /\ Late' = Late
    BY <2>1 DEF Listed, Late
  <2>3. /\ next[cursor] \in Listed \union {ListHead} /\ next[cursor] # cursor
        /\ next[cursor] # none
    BY <2>1, Successor DEF LinksInv, Listed
  <2>4. \A tail : ClosedTail(tail)' <=> ClosedTail(tail)
    BY <2>1 DEF ClosedTail
  <2>5. ASSUME NEW tail \in SUBSET Entries, next[cursor] \in tail, ClosedTail(tail)
        PROVE  Late \subseteq tail \union {cursor}
    <3> DEFINE more == tail \union {cursor}
    <3>1. ClosedTail(more)
      BY <2>5 DEF ClosedTail
    <3>2. more \in SUBSET Entries /\ Place \in more /\ Place \notin cut
      BY <1>6, <2>1 DEF Place
    <3>3. Waiting = Late
      BY <2>1 DEF Waiting
    <3> QED
      BY <2>1, <3>1, <3>2, <3>3 DEF WalkInv
  <2>6. CASE time[cursor] <= nticks
    <3>1. following' = next[cursor] /\ cursor' = cursor
      BY <1>6, <2>6 DEF Visit
    <3>2. Place' = next[cursor] /\ Waiting' = Late \ {cursor}
      BY <2>2, <2>3, <3>1 DEF Place, Waiting
    <3>3. \A tail \in SUBSET Entries :
             Place' \in tail /\ ClosedTail(tail)' => Waiting' \subseteq tail
      BY <2>4, <2>5, <3>2
    <3> QED
      BY <2>1, <2>2, <2>3, <3>1, <3>3 DEF WalkInv
  <2>7. CASE ~ time[cursor] <= nticks
    <3>1. following' = none /\ cursor' = next[cursor]
      BY <1>6, <2>1, <2>7 DEF Visit
    <3>2. Place' = next[cursor] /\ Waiting' = Late
      BY <2>2, <3>1 DEF Place, Waiting
    <3>3. cursor \notin Late
      BY <2>7 DEF Late
    <3>4. \A tail \in SUBSET Entries :
             Place' \in tail /\ ClosedTail(tail)' => Waiting' \subseteq tail
      BY <2>4, <2>5, <3>2, <3>3
    <3> QED
      BY <2>1, <2>2, <2>3, <3>1, <3>4 DEF WalkInv
  <2> QED
    BY <2>6, <2>7
<1>7. CASE CallbackStops
  <2>1. PICK a \in Listed : Stop(a)
    BY <1>7 DEF CallbackStops
  <2>2. /\ cursor \in Alarms /\ following # none /\ a \in Alarms
        /\ nticks' = nticks /\ cursor' = cursor /\ following' = following
    BY <1>7 DEF CallbackStops, InCallback, Listed
  <2>3. /\ cursor' \in Entries \union {none} /\ following' \in Entries \union {none}
        /\ Place = following /\ Place' = Place
    BY <2>2 DEF LinksInv, LinkTypes, Place
  <2>4. Listed' = Listed \ {a} /\ time' = time
    BY <2>1, <2>2, <2>3, StopKeepsList
  <2>5. /\ cut \subseteq cut' /\ cut' \subseteq stopped'
        /\ a = following => following \in cut'
    BY <2>1 DEF Stop, WalkInv
  <2>6. ASSUME Place \notin cut', NEW tail \in SUBSET Entries, Place \in tail,
               \A e \in tail : e # ListHead => next'[e] \in tail
        PROVE  Waiting' \subseteq tail
    <3>1. Waiting \subseteq tail \union {a}
      BY <2>1, <2>2, <2>3, <2>5, <2>6, StopKeepsTails
    <3> QED
      BY <2>2, <2>4, <3>1 DEF Waiting, Late
  <2>7. following \in Listed' \union {ListHead} \union cut'
    BY <2>2, <2>4, <2>5 DEF WalkInv
  <2> QED
    BY <2>1, <2>2, <2>3, <2>4, <2>5, <2>6, <2>7 DEF WalkInv, ClosedTail, Late
<1>8. CASE ReturnsZero
  <2>1. /\ Stop(cursor) /\ cursor \in Alarms /\ following # none
        /\ cursor' = following /\ following' = none /\ nticks' = nticks
    BY <1>8 DEF ReturnsZero, InCallback
  <2>2. /\ cursor' \in Entries \union {none} /\ following' \in Entries \union {none}
        /\ Place = following /\ Place' = Place
        /\ following \in Listed \union {ListHead} \union cut
    BY <2>1 DEF LinksInv, LinkTypes, Place, WalkInv
  <2>3. Listed' = Listed \ {cursor} /\ time' = time
    BY <2>1, <2>2, StopKeepsList
  <2>4. /\ cut \subseteq cut' /\ cut' \subseteq stopped'
        /\ cursor = following => following \in cut'
    BY <2>1 DEF Stop, WalkInv
  <2>5. ASSUME Place \notin cut', NEW tail \in SUBSET Entries, Place \in tail,
               \A e \in tail : e # ListHead => next'[e] \in tail
        PROVE  Waiting' \subseteq tail
    <3>1. Waiting \subseteq tail \union {cursor}
      BY <2>1, <2>2, <2>4, <2>5, StopKeepsTails
    <3> QED
      BY <2>1, <2>3, <3>1 DEF Waiting, Late
  <2>6. cursor' # none /\ cursor' \in Listed' \union {ListHead} \union cut'
    BY <2>1, <2>2, <2>3, <2>4
  <2> QED
    BY <2>1, <2>2, <2>3, <2>4, <2>5, <2>6 DEF WalkInv, ClosedTail, Late
<1>9. CASE ReturnsDelay
  <2>1. PICK n \in DELAYS \ {0} : time' = [time EXCEPT ![cursor] = @ + n]
    BY <1>9 DEF ReturnsDelay
  <2>2. /\ cursor \in Alarms /\ following # none /\ next' = next
        /\ cursor' = following /\ following' = none /\ nticks' = nticks
        /\ cut' = cut /\ stopped' = stopped
        /\ nticks \in Nat /\ time \in [Alarms -> Nat] /\ n \in Nat /\ n >= 1
    BY <1>9, AlarmsAssumption DEF ReturnsDelay, InCallback, LinksInv, LinkTypes
  <2>3. /\ Listed' = Listed /\ Listed \subseteq Alarms
        /\ time'[cursor] = time[cursor] + n /\ time[cursor] \in Nat
        /\ \A a \in Alarms : a # cursor => time'[a] = time[a]
    BY <2>1, <2>2 DEF Listed
  <2>4. cursor \in Listed => time[cursor] >= nticks
    BY DEF WalkInv
  <2>5. cursor \in Listed => time'[cursor] >= nticks /\ ~ time'[cursor] <= nticks
    BY <2>2, <2>3, <2>4
  <2>6. Late' \subseteq Late \ {cursor} /\ \A a \in Listed' : time'[a] >= nticks'
    <3>1. \A a \in Listed' : a # cursor => time'[a] = time[a] /\ time[a] >= nticks
      BY <2>3 DEF WalkInv
    <3> QED
      BY <2>2, <2>3, <2>5, <3>1 DEF Late
  <2>7. Place' = Place /\ Waiting' \subseteq Waiting
    BY <2>2, <2>6, EntryFacts DEF Place, Waiting
  <2>8. \A tail : ClosedTail(tail)' <=> ClosedTail(tail)
    BY <2>2 DEF ClosedTail
  <2>9. following \in Listed' \union {ListHead} \union cut'
    BY <2>2, <2>3 DEF WalkInv
  <2>10. Place' \notin cut' => \A tail \in SUBSET Entries :
            Place' \in tail /\ ClosedTail(tail)' => Waiting' \subseteq tail
    BY <2>2, <2>7, <2>8, EntryFacts DEF WalkInv
  <2> QED
    BY <2>2, <2>6, <2>9, <2>10 DEF WalkInv
<1>10. CASE TickEnds
  <2>1. /\ cursor = ListHead /\ cursor' = none /\ following' = following
        /\ next' = next /\ time' = time /\ nticks' = nticks
    BY <1>10 DEF TickEnds
  <2>2. following = none
    BY <2>1 DEF WalkInv
  <2>3. Late \subseteq {ListHead}
    <3>1. /\ ClosedTail({ListHead}) /\ Place = ListHead /\ Waiting = Late
          /\ Place \notin cut
      BY <2>1, <2>2, CutFacts DEF ClosedTail, Place, Waiting
    <3> QED
      BY <2>1, <3>1 DEF WalkInv
  <2>4. Listed' = Listed /\ Late' = Late /\ Late = {}
    BY <2>1, <2>3 DEF Listed, Late
  <2> QED
    BY <1>10, <2>1, <2>2, <2>4 DEF WalkInv, TickEnds
<1> QED
  BY <1>1, <1>2, <1>3, <1>4, <1>5, <1>6a, <1>6, <1>7, <1>8, <1>9, <1>10 DEF AlarmsNext, InTick

\* Between ticks no alarm is overdue, whichever alarms the callbacks start and stop.
THEOREM NoneOverdue == AlarmsSpec => []NeverOverdue
<1>1. LinksInv /\ WalkInv /\ [AlarmsNext]_alarm_vars => (LinksInv /\ WalkInv)'
  BY LinksKept, WalkKept
<1>2. LinksInv /\ WalkInv => NeverOverdue
  <2> SUFFICES ASSUME LinksInv, WalkInv, cursor = none, NEW a \in Listed
               PROVE  time[a] > nticks
    BY DEF NeverOverdue
  <2>1. ~ time[a] <= nticks
    BY DEF WalkInv, Late
  <2>2. time[a] \in Nat /\ nticks \in Nat
    BY DEF LinksInv, LinkTypes, Listed
  <2> QED
    BY <2>1, <2>2
<1> QED
  BY <1>1, <1>2, LinksInit, WalkInit, PTL DEF AlarmsSpec

\* A stopped alarm is not called before it is started, but for the one that a
\* callback stopped in front of alt_tick().
THEOREM StoppedAreQuiet == AlarmsSpec => StoppedStaysQuiet
<1>1. LinksInv /\ WalkInv /\ [AlarmsNext]_alarm_vars => (LinksInv /\ WalkInv)'
  BY LinksKept, WalkKept
<1>2. LinksInv /\ WalkInv /\ [AlarmsNext]_alarm_vars =>
        [following = none /\ following' # none => cursor \notin stopped \ cut]_alarm_vars
  <2> SUFFICES ASSUME LinksInv, WalkInv, [AlarmsNext]_alarm_vars,
                      following = none, following' # none
               PROVE  cursor \notin stopped \ cut
    OBVIOUS
  <2>1. Visit
    BY DEF AlarmsNext, InTick, SysclkInit, ProgramStarts, ProgramStops, Tick,
           ReturnsZero, ReturnsDelay, TickEnds, CallbackStarts, CallbackStops, alarm_vars
  <2>2. cursor \in Alarms /\ cursor \in Listed \union cut
    BY <2>1, EntryFacts DEF Visit, WalkInv
  <2> QED
    BY <2>2 DEF LinksInv
<1> QED
  BY <1>1, <1>2, LinksInit, WalkInit, PTL DEF AlarmsSpec, StoppedStaysQuiet

-----------------------------------------------------------------------------
(* The time of day. *)

TickUs == US \div RATE       \* the parts of a second in a tick

\* What has been read of the count is what it was at the first or the last read.
OpInv ==
    /\ op \in [do : {"none", "get", "set"}, t : Times \union {[sec |-> 0, usec |-> 0]},
               low : Nat \union {Unread}, high : Nat \union {Unread}, from : Nat, to : Nat]
    /\ op.do = "set" => op.t \in Times
    /\ op.from <= op.to /\ op.to <= count
    /\ op.low # Unread /\ op.high = Unread =>
         op.from = op.to /\ op.low = op.from % HALF
    /\ op.low = Unread /\ op.high # Unread =>
         op.from = op.to /\ op.high = op.from \div HALF
    /\ op.low # Unread /\ op.high # Unread =>
         \/ op.low = op.from % HALF /\ op.high = op.to \div HALF
         \/ op.low = op.to % HALF /\ op.high = op.from \div HALF

\* The time of the reset is the time that was set less the ticks up to then.
ResetInv ==
    /\ alt_resettime \in [sec : Int, usec : Int]
    /\ set \in [at : Nat, total : Nat, torn : BOOLEAN]
    /\ 0 - US < alt_resettime.usec /\ alt_resettime.usec < US
    /\ ~ set.torn => /\ set.at <= count
                     /\ alt_resettime.sec * US + alt_resettime.usec =
                          set.total - set.at * TickUs

\* The clock was not set while the call under way reads the count.
SetBefore ==
    ~ set.torn /\ (op.low # Unread \/ op.high # Unread) => set.at <= op.from

ClockInv ==
    /\ count \in Nat /\ OpInv /\ ResetInv /\ SetBefore
    /\ told.torn \in BOOLEAN
    /\ op.do = "set" => told.torn
    /\ TimeTold

LEMMA TickFacts ==
    /\ RATE \in Nat /\ 1 <= RATE /\ US \in Nat /\ 1 <= US
    /\ TickUs \in Nat /\ 1 <= TickUs /\ RATE * TickUs = US
<1>1. /\ RATE \in Nat /\ 1 <= RATE /\ US \in Nat /\ 1 <= US /\ US % RATE = 0
  BY WallClockAssumption
<1>2. US % RATE = US - RATE * (US \div RATE) /\ US \div RATE \in Nat
  BY <1>1, RemainderIs, QuotientBounds
<1>3. TickUs \in Nat /\ US % RATE = US - RATE * TickUs
  BY <1>2 DEF TickUs
<1>4. RATE * TickUs \in Nat
  BY <1>1, <1>3, SMT
<1>5. RATE * TickUs = US
  BY <1>1, <1>3, <1>4
<1>6. TickUs # 0
  <2>1. ASSUME TickUs = 0 PROVE FALSE
    <3>1. RATE * TickUs = 0
      BY <1>1, <2>1
    <3> QED
      BY <1>1, <1>5, <3>1
  <2> QED
    BY <2>1
<1> QED
  BY <1>1, <1>3, <1>5, <1>6

LEMMA ProductsNat ==
    ASSUME NEW m \in Nat, NEW n \in Nat
    PROVE  m * n \in Nat /\ m * n = n * m
BY SMT

\* The ticks of a count in seconds and parts of a second.
LEMMA Elapsed ==
    ASSUME NEW n \in Nat
    PROVE  /\ Parts(n) \in 0..US - 1 /\ n \div RATE \in Nat
           /\ (n \div RATE) * US + Parts(n) = n * TickUs
           /\ (n \div RATE) * US \in Nat /\ n * TickUs \in Nat
<1> USE TickFacts
<1> DEFINE q == n \div RATE
           r == n % RATE
<1>1. q \in Nat /\ r \in 0..RATE - 1 /\ r = n - RATE * q
  BY QuotientBounds, RemainderIs
<1> HIDE DEF q, r
<1>2. /\ q * US \in Nat /\ r \in Nat /\ r * TickUs \in Nat /\ n * TickUs \in Nat
      /\ RATE * q \in Nat /\ RATE * q = q * RATE
  BY <1>1, ProductsNat
<1>3. q * US + r * TickUs = n * TickUs
  <2>1. n = q * RATE + r
    BY <1>1, <1>2
  <2>2. (q * RATE + r) * TickUs = (q * RATE) * TickUs + r * TickUs
    BY <1>1, <1>2, Distributes
  <2>3. (q * RATE) * TickUs = q * (RATE * TickUs)
    BY <1>1, SMT
  <2>4. (q * RATE) * TickUs = q * US
    BY <2>3
  <2> QED
    BY <2>1, <2>2, <2>4
<1>4. r * TickUs < US
  <2>1. (r + 1) * TickUs <= RATE * TickUs
    BY <1>1, ProductsGrow
  <2>2. (r + 1) * TickUs = r * TickUs + TickUs
    BY <1>1, Distributes
  <2> QED
    BY <1>2, <2>1, <2>2
<1>5. (n * TickUs) \div US = q
  BY <1>1, <1>2, <1>3, <1>4, QuotientIs
<1>6. (n * TickUs) % US = n * TickUs - US * q /\ US * q = q * US
  BY <1>1, <1>2, <1>5, RemainderIs, ProductsNat
<1>7. Parts(n) = r * TickUs
  <2>1. Parts(n) = (n * TickUs) % US
    BY DEF Parts, TickUs
  <2> QED
    BY <1>2, <1>3, <1>6, <2>1
<1> QED
  BY <1>1, <1>2, <1>3, <1>4, <1>7 DEF q

\* A count that was read while its lower word did not wrap.
LEMMA CountRead ==
    ASSUME OpInv, count \in Nat, Complete
    PROVE  /\ count_read \in Nat
           /\ ~ Torn => count_read \in op.from..op.to
<1>1. /\ HALF \in Nat /\ 1 <= HALF
      /\ op.from \in Nat /\ op.to \in Nat /\ op.from <= op.to
      /\ op.low \in Nat /\ op.high \in Nat
      /\ \/ op.low = op.from % HALF /\ op.high = op.to \div HALF
         \/ op.low = op.to % HALF /\ op.high = op.from \div HALF
  BY WallClockAssumption DEF OpInv, Complete
<1>2. op.high * HALF \in Nat /\ op.high * HALF = HALF * op.high
  BY <1>1, ProductsNat
<1>3. /\ op.from % HALF = op.from - HALF * (op.from \div HALF)
      /\ op.to % HALF = op.to - HALF * (op.to \div HALF)
  BY <1>1, RemainderIs
<1>4. ASSUME ~ Torn PROVE count_read \in {op.from, op.to}
  <2>1. op.from \div HALF = op.high /\ op.to \div HALF = op.high
    BY <1>1, <1>4 DEF Torn
  <2>2. op.low = op.from - HALF * op.high \/ op.low = op.to - HALF * op.high
    BY <1>1, <1>3, <2>1
  <2> QED
    BY <1>1, <1>2, <2>2 DEF count_read
<1> QED
  BY <1>1, <1>2, <1>4 DEF count_read

\* The loops of gettimeofday() find the seconds and parts of a total.
LEMMA Normalised ==
    ASSUME NEW s \in Int, NEW u \in Int, NEW total \in Nat,
           0 - US < u, u < US + US, s * US + u = total
    PROVE  Normal([sec |-> s, usec |-> u]) = [sec |-> total \div US, usec |-> total % US]
<1> USE TickFacts
<1>1. s * US \in Int /\ (s - 1) * US = s * US - US /\ (s + 1) * US = s * US + US
  BY SMT
<1> DEFINE t == [sec |-> s, usec |-> u]
<1>2. ASSUME NEW q \in Int, NEW p \in Int, 0 <= p, p < US, q * US + p = total,
             q * US \in Int
      PROVE  total \div US = q /\ total % US = p
  <2>1. total \div US = q
    BY <1>2, QuotientIs
  <2>2. total % US = total - US * q
    BY <2>1, RemainderIs
  <2>3. US * q = q * US
    BY <1>2, SMT
  <2> QED
    BY <1>2, <2>1, <2>2, <2>3
<1>3. CASE u < 0
  <2>1. ASSUME s <= 0 PROVE FALSE
    <3>1. s * US <= 0 * US /\ 0 * US = 0
      BY <2>1, ProductsGrow, SMT
    <3> QED
      BY <1>1, <1>3, <3>1
  <2>2. Normal(t) = [sec |-> s - 1, usec |-> u + US]
    BY <1>3, <2>1 DEF Normal
  <2>3. /\ s - 1 \in Int /\ u + US \in Int /\ 0 <= u + US /\ u + US < US
        /\ (s - 1) * US + (u + US) = total /\ (s - 1) * US \in Int
    BY <1>1, <1>3
  <2>4. total \div US = s - 1 /\ total % US = u + US
    BY <1>2, <2>3
  <2> QED
    BY <2>2, <2>4
<1>4. CASE u >= US
  <2>1. Normal(t) = [sec |-> s + 1, usec |-> u - US]
    BY <1>4 DEF Normal
  <2>2. /\ s + 1 \in Int /\ u - US \in Int /\ 0 <= u - US /\ u - US < US
        /\ (s + 1) * US + (u - US) = total /\ (s + 1) * US \in Int
    BY <1>1, <1>4
  <2>3. total \div US = s + 1 /\ total % US = u - US
    BY <1>2, <2>2
  <2> QED
    BY <2>1, <2>3
<1>5. CASE 0 <= u /\ u < US
  <2>1. Normal(t) = t
    BY <1>5 DEF Normal
  <2>2. total \div US = s /\ total % US = u
    BY <1>1, <1>2, <1>5
  <2> QED
    BY <2>1, <2>2
<1> QED
  BY <1>3, <1>4, <1>5

\* What the parts of a total come to.
LEMMA TotalKept ==
    ASSUME NEW s \in Int, NEW u \in Int, NEW q \in Nat, NEW p \in Int, NEW n \in Nat,
           NEW at \in Nat, at <= n, NEW start \in Nat,
           s * US + u = start - at * TickUs, q * US + p = n * TickUs
    PROVE  /\ start + (n - at) * TickUs \in Nat
           /\ (s + q) * US + (u + p) = start + (n - at) * TickUs
<1> USE TickFacts
<1>1. (s + q) * US = s * US + q * US /\ s * US \in Int /\ q * US \in Int
  BY Distributes, SMT
<1>2. n - at \in Nat /\ n = (n - at) + at
  BY SMT
<1>3. ((n - at) + at) * TickUs = (n - at) * TickUs + at * TickUs
  BY <1>2, Distributes
<1>4. (n - at) * TickUs \in Nat /\ at * TickUs \in Nat
  BY <1>2, ProductsNat
<1>5. n * TickUs = (n - at) * TickUs + at * TickUs
  BY <1>2, <1>3
<1> QED
  BY <1>1, <1>4, <1>5

LEMMA CallKept ==
    ASSUME ClockInv, ClockCall \/ ReadWord
    PROVE  ClockInv'
<1>1. /\ UNCHANGED <<count, alt_resettime, set>> /\ count \in Nat /\ OpInv
  BY DEF ClockCall, ReadWord, ClockInv
<1>2. ResetInv'
  BY <1>1 DEF ClockInv, ResetInv
<1>3. CASE ClockCall
  <2>1. PICK t \in Times \union {[sec |-> 0, usec |-> 0]}, do \in {"get", "set"} :
           /\ do = "set" => t \in Times
           /\ op' = [do |-> do, t |-> t, low |-> Unread, high |-> Unread,
                     from |-> 0, to |-> 0]
    <3>1. CASE op' = [NoCall EXCEPT !.do = "get"]
      BY <3>1 DEF NoCall
    <3>2. ASSUME NEW t \in Times, op' = [NoCall EXCEPT !.do = "set", !.t = t]
          PROVE  op' = [do |-> "set", t |-> t, low |-> Unread, high |-> Unread,
                        from |-> 0, to |-> 0]
      BY <3>2 DEF NoCall
    <3> QED
      BY <1>3, <3>1, <3>2 DEF ClockCall
  <2>2. OpInv' /\ SetBefore'
    BY <1>1, <2>1 DEF OpInv, Unread, SetBefore
  <2>3. told'.torn = TRUE
    BY <1>3 DEF ClockCall, NotTold
  <2> QED
    BY <1>1, <1>2, <2>2, <2>3 DEF ClockInv, TimeTold
<1>4. CASE ReadWord
  <2>1. told' = told /\ op.do # "none"
    BY <1>4 DEF ReadWord
  <2>2. /\ HALF \in Nat /\ 1 <= HALF
        /\ count % HALF \in Nat /\ count \div HALF \in Nat
        /\ count % HALF # Unread /\ count \div HALF # Unread
    <3>1. HALF \in Nat /\ 1 <= HALF
      BY WallClockAssumption
    <3>2. count % HALF \in Nat /\ count \div HALF \in Nat
      BY <1>1, <3>1, RemainderIs, QuotientBounds
    <3> QED
      BY <3>1, <3>2 DEF Unread
  <2>3. CASE /\ op.low = Unread
             /\ op' = [op EXCEPT !.low = count % HALF, !.to = count,
                                 !.from = IF op.high = Unread THEN count ELSE @]
    <3>1. /\ op'.do = op.do /\ op'.t = op.t /\ op'.high = op.high
          /\ op'.low = count % HALF /\ op'.to = count
          /\ op'.from = IF op.high = Unread THEN count ELSE op.from
      BY <2>3 DEF OpInv, ClockInv
    <3>2. op' \in [do : {"none", "get", "set"}, t : Times \union {[sec |-> 0, usec |-> 0]},
                   low : Nat \union {Unread}, high : Nat \union {Unread}, from : Nat, to : Nat]
      BY <1>1, <2>2, <2>3 DEF OpInv
    <3>3. op'.from <= op'.to
      BY <1>1, <3>1 DEF OpInv
    <3>4. op'.high = Unread => op'.from = op'.to /\ op'.low = op'.from % HALF
      BY <3>1
    <3>5. op'.high # Unread => /\ op'.low = op'.to % HALF
                               /\ op'.high = op'.from \div HALF
      BY <1>1, <2>3, <3>1 DEF OpInv
    <3>6. OpInv'
      BY <1>1, <2>2, <3>1, <3>2, <3>3, <3>4, <3>5 DEF OpInv
    <3>7. SetBefore'
      BY <1>1, <3>1 DEF ClockInv, SetBefore, ResetInv
    <3> QED
      BY <1>1, <1>2, <2>1, <3>1, <3>6, <3>7 DEF ClockInv, TimeTold
  <2>4. CASE /\ op.high = Unread
             /\ op' = [op EXCEPT !.high = count \div HALF, !.to = count,
                                 !.from = IF op.low = Unread THEN count ELSE @]
    <3>1. /\ op'.do = op.do /\ op'.t = op.t /\ op'.low = op.low
          /\ op'.high = count \div HALF /\ op'.to = count
          /\ op'.from = IF op.low = Unread THEN count ELSE op.from
      BY <2>4 DEF OpInv, ClockInv
    <3>2. op' \in [do : {"none", "get", "set"}, t : Times \union {[sec |-> 0, usec |-> 0]},
                   low : Nat \union {Unread}, high : Nat \union {Unread}, from : Nat, to : Nat]
      BY <1>1, <2>2, <2>4 DEF OpInv
    <3>3. op'.from <= op'.to
      BY <1>1, <3>1 DEF OpInv
    <3>4. op'.low = Unread => op'.from = op'.to /\ op'.high = op'.from \div HALF
      BY <3>1
    <3>5. op'.low # Unread => /\ op'.low = op'.from % HALF
                              /\ op'.high = op'.to \div HALF
      BY <1>1, <2>4, <3>1 DEF OpInv
    <3>6. OpInv'
      BY <1>1, <2>2, <3>1, <3>2, <3>3, <3>4, <3>5 DEF OpInv
    <3>7. SetBefore'
      BY <1>1, <3>1 DEF ClockInv, SetBefore, ResetInv
    <3> QED
      BY <1>1, <1>2, <2>1, <3>1, <3>6, <3>7 DEF ClockInv, TimeTold
  <2> QED
    BY <1>4, <2>3, <2>4 DEF ReadWord
<1> QED
  BY <1>3, <1>4

LEMMA NoCallKept ==
    ASSUME count' \in Nat, op' = NoCall
    PROVE  OpInv' /\ SetBefore' /\ op'.do = "none"
BY DEF OpInv, SetBefore, NoCall, Unread

LEMMA GetKept ==
    ASSUME ClockInv, ALT_GETTIMEOFDAY
    PROVE  ClockInv'
<1> USE TickFacts
<1>1. /\ OpInv /\ ResetInv /\ SetBefore /\ count \in Nat /\ Complete
      /\ op' = NoCall /\ UNCHANGED <<count, alt_resettime, set>>
      /\ told' = [time |-> Normal([sec |-> alt_resettime.sec + count_read \div RATE,
                                   usec |-> alt_resettime.usec + Parts(count_read)]),
                  from |-> op.from, to |-> op.to, torn |-> Torn \/ set.torn]
  BY DEF ClockInv, ALT_GETTIMEOFDAY
<1>2. count_read \in Nat /\ (~ Torn => count_read \in op.from..op.to)
  BY <1>1, CountRead
<1>3. OpInv' /\ SetBefore' /\ ResetInv' /\ op'.do = "none" /\ count' \in Nat
  BY <1>1, NoCallKept DEF ResetInv
<1>4. told'.torn \in BOOLEAN /\ (told'.torn <=> Torn \/ set.torn)
  BY <1>1 DEF ResetInv, Torn
<1>5. ASSUME ~ Torn, ~ set.torn PROVE TimeTold'
  <2> DEFINE n == count_read
             s == alt_resettime.sec
             u == alt_resettime.usec
  <2>1. /\ n \in op.from..op.to /\ op.from \in Nat /\ op.to \in Nat
        /\ set.at \in Nat /\ set.total \in Nat
        /\ s \in Int /\ u \in Int /\ 0 - US < u /\ u < US
        /\ s * US + u = set.total - set.at * TickUs
    BY <1>1, <1>2, <1>5 DEF OpInv, ResetInv
  <2>2. set.at <= n
    <3>1. set.at <= op.from
      BY <1>1, <1>5 DEF SetBefore, Complete
    <3> QED
      BY <2>1, <3>1
  <2>3. /\ Parts(n) \in 0..US - 1 /\ n \div RATE \in Nat
        /\ (n \div RATE) * US + Parts(n) = n * TickUs
    BY <1>2, Elapsed
  <2>4. told'.time = Normal([sec |-> s + n \div RATE, usec |-> u + Parts(n)])
    BY <1>1
  <2> DEFINE q == n \div RATE
             p == Parts(n)
             total == set.total + (n - set.at) * TickUs
  <2> HIDE DEF n, s, u, q, p
  <2>5. q \in Nat /\ p \in Int /\ q * US + p = n * TickUs /\ n \in Nat
    BY <1>2, <2>3 DEF q, p, n
  <2>6. total \in Nat /\ (s + q) * US + (u + p) = total
    BY <2>1, <2>2, <2>5, TotalKept
  <2>7. s + q \in Int /\ u + p \in Int /\ 0 - US < u + p /\ u + p < US + US
    BY <2>1, <2>3, <2>5 DEF p
  <2> HIDE DEF total
  <2>8. told'.time = [sec |-> total \div US, usec |-> total % US]
    BY <2>4, <2>6, <2>7, Normalised DEF q, p
  <2>9. /\ told'.from = op.from /\ told'.to = op.to /\ set' = set
        /\ n \in told'.from..told'.to
    BY <1>1, <2>1
  <2> QED
    BY <2>8, <2>9 DEF TimeTold, total, TickUs
<1> QED
  BY <1>3, <1>4, <1>5 DEF ClockInv, TimeTold

LEMMA SetKept ==
    ASSUME ClockInv, ALT_SETTIMEOFDAY
    PROVE  ClockInv'
<1> USE TickFacts
<1>1. /\ OpInv /\ ResetInv /\ count \in Nat /\ Complete /\ op.do = "set"
      /\ told.torn \in BOOLEAN /\ told.torn
      /\ op' = NoCall /\ count' = count /\ told' = told
      /\ alt_resettime' = [sec |-> op.t.sec - count_read \div RATE,
                           usec |-> op.t.usec - Parts(count_read)]
      /\ set' = [at |-> count_read, total |-> Total(op.t), torn |-> Torn]
  BY DEF ClockInv, ALT_SETTIMEOFDAY
<1>2. count_read \in Nat /\ (~ Torn => count_read \in op.from..op.to)
  BY <1>1, CountRead
<1>3. OpInv' /\ SetBefore' /\ op'.do = "none" /\ count' \in Nat
  BY <1>1, NoCallKept
<1>4. op.t.sec \in Nat /\ op.t.usec \in 0..US - 1
  BY <1>1, WallClockAssumption DEF OpInv
<1> DEFINE n == count_read
           q == n \div RATE
           p == Parts(n)
           s == op.t.sec
           u == op.t.usec
<1>5. p \in 0..US - 1 /\ q \in Nat /\ q * US + p = n * TickUs /\ n * TickUs \in Nat
  BY <1>2, Elapsed
<1>6. Total(op.t) = s * US + u /\ s * US \in Nat
  BY <1>4, ProductsNat DEF Total
<1>7. /\ alt_resettime'.sec = s - q /\ alt_resettime'.usec = u - p
      /\ alt_resettime' \in [sec : Int, usec : Int]
  BY <1>1, <1>4, <1>5
<1>8. (s - q) * US = s * US - q * US /\ q * US \in Int
  BY <1>4, <1>5, SMT
<1>9. ~ Torn => n <= count
  BY <1>1, <1>2 DEF OpInv
<1> HIDE DEF n, q, p, s, u
<1>10. (s - q) * US + (u - p) = (s * US + u) - n * TickUs
  BY <1>4, <1>5, <1>6, <1>8 DEF s, u
<1>11. 0 - US < u - p /\ u - p < US
  BY <1>4, <1>5 DEF s, u
<1>12. /\ set'.at = n /\ set'.total = s * US + u /\ (set'.torn <=> Torn)
       /\ set' \in [at : Nat, total : Nat, torn : BOOLEAN]
  <2>1. s * US + u \in Nat
    BY <1>4, <1>6 DEF s, u
  <2>2. Torn \in BOOLEAN
    BY DEF Torn
  <2> QED
    BY <1>1, <1>2, <1>6, <2>1, <2>2 DEF n
<1>13. ResetInv'
  BY <1>1, <1>7, <1>9, <1>10, <1>11, <1>12 DEF ResetInv
<1> QED
  BY <1>1, <1>3, <1>13 DEF ClockInv, TimeTold

\* The time told is the time that was set and the ticks since, for every speed of
\* the clock that divides a second and wherever the count wraps.
THEOREM ClockTellsTime == ClockSpec => []TimeTold
<1>1. ClockInit => ClockInv
  <2> SUFFICES ASSUME ClockInit PROVE ClockInv
    OBVIOUS
  <2>1. OpInv /\ SetBefore
    BY DEF ClockInit, OpInv, SetBefore, NoCall, Unread
  <2>2. 0 * US = 0 /\ 0 * TickUs = 0
    BY TickFacts
  <2>3. ResetInv
    BY <2>2, TickFacts DEF ClockInit, ResetInv, NeverSet
  <2> QED
    BY <2>1, <2>3 DEF ClockInit, ClockInv, NotTold, NoCall, TimeTold
<1>2. ClockInv /\ [ClockNext]_clock_vars => ClockInv'
  <2> SUFFICES ASSUME ClockInv, [ClockNext]_clock_vars PROVE ClockInv'
    OBVIOUS
  <2>1. CASE CountTick
    <3>1. /\ count \in Nat /\ count' = count + 1
          /\ UNCHANGED <<alt_resettime, op, set, told>>
      BY <2>1 DEF CountTick, ClockInv
    <3>2. OpInv'
      BY <3>1 DEF ClockInv, OpInv
    <3>3. ResetInv'
      BY <3>1 DEF ClockInv, ResetInv
    <3> QED
      BY <3>1, <3>2, <3>3 DEF ClockInv, SetBefore, TimeTold
  <2>2. CASE UNCHANGED clock_vars
    BY <2>2 DEF clock_vars, ClockInv, OpInv, ResetInv, SetBefore, TimeTold
  <2> QED
    BY <2>1, <2>2, CallKept, GetKept, SetKept DEF ClockNext
<1>3. ClockInv => TimeTold
  BY DEF ClockInv
<1> QED
  BY <1>1, <1>2, <1>3, PTL DEF ClockSpec

-----------------------------------------------------------------------------
(* The profiler. *)

Fns == Functions \union {"none"}
Froms == Callers \union {"none"}
Records == [fn : Fns, from : Froms, entry : Nat, at : Int]
Slabs == [ptr : Int, size : 0..SLAB]
Steps == {"away", "function", "arc", "count", "record", "clear", "init", "start", "add"}

\* A slab is inside of the heap, or computed from a failure and below zero.
SlabFits(s, end) ==
    /\ s.ptr >= 0 => s.ptr + s.size <= end
    /\ s.ptr < 0 => s.ptr + s.size < 0

\* An address that is in use is not in the rest of the slab.
Used(s, end, at) == at >= 0 => at < end /\ (at < s.ptr \/ s.ptr + s.size <= at)

\* The rest of the slab and a histogram at h have no address in common.
Beside(s, end, h) ==
    h >= 0 => /\ h + HISTOGRAM <= end
              /\ s.ptr >= 0 => s.ptr + s.size <= h \/ h + HISTOGRAM <= s.ptr

ProfileTypes ==
    /\ heap_end \in Nat
    /\ slab \in Slabs
    /\ records \in Seq(Records)
    /\ histogram \in Int
    /\ mcount \in [Context -> [at : Steps, fn : Fns, from : Froms, entry : Nat, seen : Nat]]

\* Memory in use is not handed out again.
Handed ==
    /\ SlabFits(slab, heap_end)
    /\ Beside(slab, heap_end, histogram)
    /\ \A k \in 1..Len(records) : Used(slab, heap_end, records[k].at)

\* A record that is entered under another, or found by a call, is of its function.
Entered(entry, fn) == entry # 0 => /\ entry \in 1..Len(records)
                                   /\ records[entry].fn = fn

Filed ==
    /\ \A k \in 1..Len(records) : Entered(records[k].entry, records[k].fn)
    /\ \A c \in Context :
         LET m == mcount[c] IN
         /\ Entered(m.entry, m.fn)
         /\ m.at = "arc" => m.entry # 0
         /\ m.at = "count" => /\ m.seen \in 1..Len(records)
                              /\ records[m.seen].fn = m.fn
                              /\ records[m.seen].from = m.from

ProfileInv == ProfileTypes /\ Handed /\ Filed /\ ProfileSound

\* What mcount_allocate answers: the slab there is, or a new one.
LEMMA SlabForFacts ==
    ASSUME NEW s \in Slabs, NEW end \in Nat, SlabFits(s, end)
    PROVE  /\ SlabFor(s, end).slab \in Slabs /\ SlabFor(s, end).slab.size >= 1
           /\ SlabFor(s, end).end \in Nat /\ SlabFor(s, end).end >= end
           /\ SlabFits(SlabFor(s, end).slab, SlabFor(s, end).end)
           /\ \/ SlabFor(s, end).slab = s
              \/ SlabFor(s, end).slab.ptr < 0
              \/ SlabFor(s, end).slab.ptr >= end
<1>1. /\ SLAB \in Nat /\ SLAB >= 1 /\ HEAP \in Nat
  BY ProfilerAssumption
<1>2. s.ptr \in Int /\ s.size \in 0..SLAB
  BY DEF Slabs
<1>3. CASE s.size # 0
  <2>1. SlabFor(s, end) = [slab |-> s, end |-> end]
    BY <1>3 DEF SlabFor
  <2> QED
    BY <2>1, <1>1, <1>2, <1>3
<1>4. CASE s.size = 0 /\ end + SLAB > HEAP
  <2>1. SlabFor(s, end) = [slab |-> [ptr |-> - SLAB - 1, size |-> SLAB], end |-> end]
    BY <1>4 DEF SlabFor, Sbrk, Failed
  <2> QED
    BY <2>1, <1>1 DEF Slabs, SlabFits
<1>5. CASE s.size = 0 /\ ~ (end + SLAB > HEAP)
  <2>1. SlabFor(s, end) = [slab |-> [ptr |-> end, size |-> SLAB], end |-> end + SLAB]
    BY <1>5 DEF SlabFor, Sbrk
  <2> QED
    BY <2>1, <1>1 DEF Slabs, SlabFits
<1> QED
  BY <1>3, <1>4, <1>5

Rest(s) == [ptr |-> s.ptr + 1, size |-> s.size - 1]

\* A record taken from a slab: the address is new, and what was in use is not in
\* the rest of the slab, and neither is the new record.
LEMMA Taking ==
    ASSUME NEW s \in Slabs, NEW end \in Nat, SlabFits(s, end),
           NEW t, t = SlabFor(s, end)
    PROVE  /\ t.slab.ptr \in Int /\ t.end \in Nat /\ Rest(t.slab) \in Slabs
           /\ SlabFits(Rest(t.slab), t.end)
           /\ Used(Rest(t.slab), t.end, t.slab.ptr)
           /\ \A at \in Int : Used(s, end, at) =>
                /\ Used(Rest(t.slab), t.end, at)
                /\ at >= 0 => at # t.slab.ptr
           /\ \A h \in Int : Beside(s, end, h) =>
                /\ Beside(Rest(t.slab), t.end, h)
                /\ h >= 0 => t.slab.ptr \notin h..(h + HISTOGRAM - 1)
<1>1. /\ SLAB \in Nat /\ HISTOGRAM \in Nat
  BY ProfilerAssumption
<1>2. /\ s.ptr \in Int /\ s.size \in 0..SLAB
  BY DEF Slabs
<1>3. PICK p \in Int, n \in 0..SLAB : t.slab = [ptr |-> p, size |-> n]
  BY SlabForFacts DEF Slabs
<1>4. /\ n >= 1 /\ t.end \in Nat /\ t.end >= end
      /\ p >= 0 => p + n <= t.end
      /\ p < 0 => p + n < 0
      /\ \/ s.ptr = p /\ s.size = n
         \/ p < 0
         \/ p >= end
  BY SlabForFacts, <1>3 DEF SlabFits
<1>5. Rest(t.slab) = [ptr |-> p + 1, size |-> n - 1]
  BY <1>3 DEF Rest
<1>6. /\ t.slab.ptr \in Int /\ Rest(t.slab) \in Slabs
      /\ SlabFits(Rest(t.slab), t.end)
      /\ Used(Rest(t.slab), t.end, t.slab.ptr)
  BY <1>1, <1>3, <1>4, <1>5 DEF Slabs, SlabFits, Used
<1>7. ASSUME NEW at \in Int, Used(s, end, at)
      PROVE  /\ Used(Rest(t.slab), t.end, at)
             /\ at >= 0 => at # t.slab.ptr
  BY <1>1, <1>2, <1>3, <1>4, <1>5, <1>7 DEF Used
<1>8. ASSUME NEW h \in Int, Beside(s, end, h)
      PROVE  /\ Beside(Rest(t.slab), t.end, h)
             /\ h >= 0 => t.slab.ptr \notin h..(h + HISTOGRAM - 1)
  BY <1>1, <1>2, <1>3, <1>4, <1>5, <1>8 DEF Beside
<1> QED
  BY <1>4, <1>6, <1>7, <1>8

LEMMA ProfileStart == ProfileInit => ProfileInv
<1> SUFFICES ASSUME ProfileInit PROVE ProfileInv
  OBVIOUS
<1>1. SLAB \in Nat /\ SLAB >= 1 /\ HISTOGRAM \in Nat
  BY ProfilerAssumption
<1>2. ProfileTypes
  <2>1. Away \in [at : Steps, fn : Fns, from : Froms, entry : Nat, seen : Nat]
    BY DEF Away, Steps, Fns, Froms
  <2>2. histogram \in Int
    BY <1>1 DEF ProfileInit, NoHistogram, Failed
  <2> QED
    BY <1>1, <2>1, <2>2 DEF ProfileInit, ProfileTypes, Slabs
<1>3. Handed
  BY <1>1 DEF ProfileInit, Handed, SlabFits, Beside, NoHistogram, Failed
<1>4. Filed
  BY DEF ProfileInit, Filed, Entered, Away
<1>5. ProfileSound
  BY <1>1 DEF ProfileInit, ProfileSound, NoHistogram, Failed
<1> QED
  BY <1>2, <1>3, <1>4, <1>5 DEF ProfileInv

\* A step of one call that leaves memory alone and returns from no call, except
\* after it has found a record.
LEMMA CallStepKept ==
    ASSUME ProfileInv, NEW c \in Context, UNCHANGED memory_vars,
           NEW m, mcount' = [mcount EXCEPT ![c] = m],
           m \in [at : Steps, fn : Fns, from : Froms, entry : Nat, seen : Nat],
           Entered(m.entry, m.fn), m.at = "arc" => m.entry # 0,
           m.at = "count" => /\ m.seen \in 1..Len(records)
                             /\ records[m.seen].fn = m.fn
                             /\ records[m.seen].from = m.from,
           \/ counted' = counted
           \/ /\ mcount[c].at = "count"
              /\ counted' = counted \union {<<mcount[c].fn, mcount[c].from>>}
    PROVE  ProfileInv'
<1>1. ProfileTypes'
  BY DEF ProfileInv, ProfileTypes, memory_vars
<1>2. Handed'
  BY DEF ProfileInv, Handed, memory_vars
<1>3. Filed'
  <2>1. \A k \in 1..Len(records) : Entered(records[k].entry, records[k].fn)'
    BY DEF ProfileInv, Filed, Entered, memory_vars
  <2>2. ASSUME NEW d \in Context
        PROVE  /\ Entered(mcount[d].entry, mcount[d].fn)'
               /\ mcount'[d].at = "arc" => mcount'[d].entry # 0
               /\ mcount'[d].at = "count" =>
                    /\ mcount'[d].seen \in 1..Len(records')
                    /\ records'[mcount'[d].seen].fn = mcount'[d].fn
                    /\ records'[mcount'[d].seen].from = mcount'[d].from
    <3>1. mcount'[d] = IF d = c THEN m ELSE mcount[d]
      BY DEF ProfileInv, ProfileTypes
    <3> QED
      BY <3>1 DEF ProfileInv, Filed, Entered, memory_vars
  <2> QED
    BY <2>1, <2>2 DEF Filed, memory_vars
<1>4. ProfileSound'
  <2>1. \A pair \in counted' : \E k \in DOMAIN records :
           <<records[k].fn, records[k].from>> = pair
    BY DEF ProfileInv, ProfileTypes, ProfileSound, Filed
  <2> QED
    BY <2>1 DEF ProfileInv, ProfileSound, memory_vars
<1> QED
  BY <1>1, <1>2, <1>3, <1>4 DEF ProfileInv

LEMMA LatestFound ==
    ASSUME NEW n \in Nat, NEW S, S \subseteq 1..n
    PROVE  Latest(S) = 0 \/ Latest(S) \in S
<1> SUFFICES ASSUME S # {} PROVE Latest(S) \in S
  BY DEF Latest
<1> DEFINE D == {n - s : s \in S}
<1>1. PICK d \in D : \A e \in D : d <= e
  <2>1. \A s \in S : n - s \in Nat
    OBVIOUS
  <2>2. D \subseteq Nat
    BY <2>1
  <2>3. D # {}
    OBVIOUS
  <2> HIDE DEF D
  <2> QED
    BY <2>2, <2>3, Least
<1>2. PICK k \in S : d = n - k
  BY <1>1
<1>3. ASSUME NEW l \in S PROVE l <= k
  <2>1. n - l \in D
    OBVIOUS
  <2>2. n - k <= n - l
    BY <1>1, <1>2, <2>1
  <2>3. k \in Nat /\ l \in Nat
    OBVIOUS
  <2> QED
    BY <2>2, <2>3
<1> QED
  BY <1>3 DEF Latest

Calls == [at : Steps, fn : Fns, from : Froms, entry : Nat, seen : Nat]

\* A call that goes on to another step with what it has found.
LEMMA StepKept ==
    ASSUME ProfileInv, NEW c \in Context, UNCHANGED <<memory_vars, counted>>,
           NEW at \in Steps \ {"arc", "count"}, McountGoes(c, at)
    PROVE  ProfileInv'
<1> DEFINE m == [mcount[c] EXCEPT !.at = at]
<1>1. mcount[c] \in Calls
  BY DEF ProfileInv, ProfileTypes, Calls
<1>2. /\ m \in Calls /\ m.at = at /\ m.entry = mcount[c].entry /\ m.fn = mcount[c].fn
      /\ mcount' = [mcount EXCEPT ![c] = m]
  BY <1>1 DEF McountGoes, Calls
<1>3. Entered(m.entry, m.fn)
  BY <1>2 DEF ProfileInv, Filed
<1> HIDE DEF m
<1> QED
  BY <1>2, <1>3, CallStepKept DEF Calls

LEMMA CallMcountKept ==
    ASSUME ProfileInv, NEW c \in Context, CallMcount(c)
    PROVE  ProfileInv'
<1>1. PICK fn \in Functions, from \in Callers :
        mcount' = [mcount EXCEPT ![c] = [Away EXCEPT !.at = "function", !.fn = fn,
                                                     !.from = from]]
  BY DEF CallMcount
<1> DEFINE m == [Away EXCEPT !.at = "function", !.fn = fn, !.from = from]
<1>2. m \in Calls /\ m.at = "function" /\ m.entry = 0
  BY DEF Away, Calls, Steps, Fns, Froms
<1>3. Entered(m.entry, m.fn)
  BY <1>2 DEF Entered
<1>4. mcount' = [mcount EXCEPT ![c] = m]
  BY <1>1
<1>5. UNCHANGED memory_vars /\ counted' = counted
  BY DEF CallMcount
<1> HIDE DEF m
<1> QED
  BY <1>2, <1>3, <1>4, <1>5, CallStepKept DEF Calls

LEMMA FindFunctionKept ==
    ASSUME ProfileInv, NEW c \in Context, FindFunction(c)
    PROVE  ProfileInv'
<1> DEFINE found == {k \in DOMAIN records : /\ records[k].fn = mcount[c].fn
                                            /\ records[k].from = "none"}
           entry == Latest(found)
           m == [mcount[c] EXCEPT !.entry = entry,
                                  !.at = IF entry = 0 THEN "record" ELSE "arc"]
<1>1. mcount[c] \in Calls /\ records \in Seq(Records)
  BY DEF ProfileInv, ProfileTypes, Calls
<1>2. Len(records) \in Nat /\ DOMAIN records = 1..Len(records)
  BY <1>1
<1>3. entry = 0 \/ entry \in found
  <2>1. found \subseteq 1..Len(records)
    BY <1>2
  <2> HIDE DEF found
  <2> QED
    BY <1>2, <2>1, LatestFound
<1>4. entry \in Nat /\ Entered(entry, mcount[c].fn)
  <2> HIDE DEF entry
  <2> QED
    BY <1>2, <1>3 DEF Entered
<1>5. /\ mcount' = [mcount EXCEPT ![c] = m]
      /\ UNCHANGED memory_vars /\ counted' = counted
  BY <1>1 DEF FindFunction, ProfileInv, ProfileTypes
<1> HIDE DEF entry
<1>6. /\ m \in Calls /\ m.entry = entry /\ m.fn = mcount[c].fn
      /\ m.at = "arc" => entry # 0
      /\ m.at # "count"
  BY <1>1, <1>4 DEF Calls, Steps
<1>7. Entered(m.entry, m.fn)
  BY <1>4, <1>6
<1> HIDE DEF m
<1> QED
  BY <1>5, <1>6, <1>7, CallStepKept DEF Calls

LEMMA FindArcKept ==
    ASSUME ProfileInv, NEW c \in Context, FindArc(c)
    PROVE  ProfileInv'
<1> DEFINE found == {k \in DOMAIN records : /\ records[k].from = mcount[c].from
                                            /\ records[k].entry = mcount[c].entry}
           arc == Latest(found)
           m == [mcount[c] EXCEPT !.seen = arc,
                                  !.at = IF arc = 0 THEN "record" ELSE "count"]
<1>1. mcount[c] \in Calls /\ records \in Seq(Records)
  BY DEF ProfileInv, ProfileTypes, Calls
<1>2. Len(records) \in Nat /\ DOMAIN records = 1..Len(records)
  BY <1>1
<1>3. arc = 0 \/ arc \in found
  <2>1. found \subseteq 1..Len(records)
    BY <1>2
  <2> HIDE DEF found
  <2> QED
    BY <1>2, <2>1, LatestFound
<1>4. mcount[c].entry # 0 /\ Entered(mcount[c].entry, mcount[c].fn)
  BY DEF FindArc, ProfileInv, Filed
<1> HIDE DEF arc
<1>5. arc \in Nat
  BY <1>2, <1>3
<1>6. arc # 0 => /\ arc \in 1..Len(records)
                 /\ records[arc].fn = mcount[c].fn
                 /\ records[arc].from = mcount[c].from
  <2> SUFFICES ASSUME arc # 0
               PROVE  /\ arc \in 1..Len(records)
                      /\ records[arc].fn = mcount[c].fn
                      /\ records[arc].from = mcount[c].from
    OBVIOUS
  <2>1. /\ arc \in 1..Len(records)
        /\ records[arc].from = mcount[c].from
        /\ records[arc].entry = mcount[c].entry
    BY <1>2, <1>3
  <2>2. Entered(records[arc].entry, records[arc].fn)
    BY <2>1 DEF ProfileInv, Filed
  <2> QED
    BY <1>4, <2>1, <2>2 DEF Entered
<1>7. /\ mcount' = [mcount EXCEPT ![c] = m]
      /\ UNCHANGED memory_vars /\ counted' = counted
  BY <1>1 DEF FindArc, ProfileInv, ProfileTypes, arc
<1>8. /\ m \in Calls /\ m.entry = mcount[c].entry /\ m.fn = mcount[c].fn
      /\ m.from = mcount[c].from /\ m.seen = arc
      /\ m.at # "arc"
      /\ m.at = "count" => arc # 0
  BY <1>1, <1>5 DEF Calls, Steps
<1>9. /\ Entered(m.entry, m.fn)
      /\ m.at = "count" => /\ m.seen \in 1..Len(records)
                           /\ records[m.seen].fn = m.fn
                           /\ records[m.seen].from = m.from
  BY <1>4, <1>6, <1>8
<1> HIDE DEF m
<1> QED
  BY <1>7, <1>8, <1>9, CallStepKept DEF Calls

LEMMA CountCallKept ==
    ASSUME ProfileInv, NEW c \in Context, CountCall(c)
    PROVE  ProfileInv'
<1>1. Away \in Calls /\ Away.at = "away" /\ Away.entry = 0
  BY DEF Away, Calls, Steps, Fns, Froms
<1>2. Entered(Away.entry, Away.fn)
  BY <1>1 DEF Entered
<1>3. /\ mcount[c].at = "count" /\ UNCHANGED memory_vars
      /\ mcount' = [mcount EXCEPT ![c] = Away]
      /\ counted' = counted \union {<<mcount[c].fn, mcount[c].from>>}
  BY DEF CountCall, Returns
<1> QED
  BY <1>1, <1>2, <1>3, CallStepKept DEF Calls

\* A step that touches neither memory nor calls.
LEMMA ElsewhereKept ==
    ProfileInv /\ UNCHANGED <<memory_vars, mcount, counted>> => ProfileInv'
<1> SUFFICES ASSUME ProfileInv, UNCHANGED <<memory_vars, mcount, counted>>
             PROVE  ProfileInv'
  OBVIOUS
<1>1. ProfileTypes'
  BY DEF ProfileInv, ProfileTypes, memory_vars
<1>2. Handed'
  BY DEF ProfileInv, Handed, memory_vars
<1>3. Filed'
  BY DEF ProfileInv, Filed, Entered, memory_vars
<1>4. ProfileSound'
  BY DEF ProfileInv, ProfileSound, memory_vars
<1> QED
  BY <1>1, <1>2, <1>3, <1>4 DEF ProfileInv

LEMMA MakeHistogramKept ==
    ASSUME ProfileInv, NEW c \in Context, MakeHistogram(c)
    PROVE  ProfileInv'
<1>1. /\ SLAB \in Nat /\ HISTOGRAM \in Nat /\ HEAP \in Nat
  BY ProfilerAssumption
<1>2. /\ UNCHANGED <<slab, records, counted>>
      /\ mcount' = [mcount EXCEPT ![c].at = "start"]
  BY DEF MakeHistogram, McountGoes
<1>3. /\ heap_end \in Nat /\ slab \in Slabs /\ records \in Seq(Records)
      /\ mcount \in [Context -> Calls]
  BY DEF ProfileInv, ProfileTypes, Calls
<1>4. /\ slab.ptr \in Int /\ slab.size \in Nat
      /\ \A k \in 1..Len(records) : records[k].at \in Int
      /\ DOMAIN records = 1..Len(records)
  <2>1. \A k \in 1..Len(records) : records[k] \in Records
    BY <1>3
  <2> QED
    BY <1>1, <1>3, <2>1 DEF Slabs, Records
<1>5. \/ histogram' = - SLAB - 1 /\ heap_end' = heap_end
      \/ histogram' = heap_end /\ heap_end' = heap_end + HISTOGRAM
  BY DEF MakeHistogram, Sbrk, Failed
<1>6. histogram' \in Int /\ heap_end' \in Nat /\ heap_end' >= heap_end
  BY <1>1, <1>3, <1>5
<1>7. /\ SlabFits(slab, heap_end)
      /\ \A k \in 1..Len(records) : Used(slab, heap_end, records[k].at)
  BY DEF ProfileInv, Handed
<1>8. SlabFits(slab, heap_end') /\ Beside(slab, heap_end', histogram')
  <2>1. /\ slab.ptr >= 0 => slab.ptr + slab.size <= heap_end
        /\ slab.ptr < 0 => slab.ptr + slab.size < 0
    BY <1>7 DEF SlabFits
  <2>2. SlabFits(slab, heap_end')
    BY <1>3, <1>4, <1>6, <2>1 DEF SlabFits
  <2>3. histogram' >= 0 => histogram' = heap_end /\ heap_end' = heap_end + HISTOGRAM
    BY <1>1, <1>5
  <2>4. Beside(slab, heap_end', histogram')
    BY <1>1, <1>3, <2>1, <2>3 DEF Beside
  <2> QED
    BY <2>2, <2>4
<1>9. \A k \in 1..Len(records) :
        /\ Used(slab, heap_end', records[k].at)
        /\ histogram' >= 0 =>
             records[k].at \notin histogram'..(histogram' + HISTOGRAM - 1)
  <2> SUFFICES ASSUME NEW k \in 1..Len(records)
               PROVE  /\ Used(slab, heap_end', records[k].at)
                      /\ histogram' >= 0 =>
                           records[k].at \notin histogram'..(histogram' + HISTOGRAM - 1)
    OBVIOUS
  <2>1. Used(slab, heap_end, records[k].at) /\ records[k].at \in Int
    BY <1>4, <1>7
  <2> QED
    BY <1>1, <1>3, <1>4, <1>5, <1>6, <2>1 DEF Used
<1>10. ProfileTypes'
  <2>1. mcount' \in [Context -> Calls]
    BY <1>2, <1>3 DEF Calls, Steps
  <2> QED
    BY <1>2, <1>3, <1>6, <2>1 DEF ProfileTypes, Calls
<1>11. Handed'
  BY <1>2, <1>8, <1>9 DEF Handed
<1>12. Filed'
  <2>1. ASSUME NEW d \in Context
        PROVE  /\ mcount'[d].entry = mcount[d].entry /\ mcount'[d].fn = mcount[d].fn
               /\ mcount'[d].from = mcount[d].from /\ mcount'[d].seen = mcount[d].seen
               /\ mcount'[d].at \in {mcount[d].at, "start"}
    BY <1>2, <1>3 DEF Calls
  <2> QED
    BY <1>2, <2>1 DEF ProfileInv, Filed, Entered
<1>13. ProfileSound'
  BY <1>2, <1>4, <1>9 DEF ProfileInv, ProfileSound
<1> QED
  BY <1>10, <1>11, <1>12, <1>13 DEF ProfileInv

LEMMA OneMore ==
    ASSUME NEW s \in Seq(Records), NEW a \in Records
    PROVE  /\ s \o <<a>> \in Seq(Records)
           /\ Len(s \o <<a>>) = Len(s) + 1
           /\ \A k \in 1..Len(s) : (s \o <<a>>)[k] = s[k]
           /\ (s \o <<a>>)[Len(s) + 1] = a
<1>1. <<a>> \in Seq(Records) /\ Len(<<a>>) = 1 /\ Len(s) \in Nat
  OBVIOUS
<1> QED
  BY <1>1, ConcatProperties

LEMMA TwoMore ==
    ASSUME NEW s \in Seq(Records), NEW a \in Records, NEW b \in Records
    PROVE  /\ s \o <<a, b>> \in Seq(Records)
           /\ Len(s \o <<a, b>>) = Len(s) + 2
           /\ \A k \in 1..Len(s) : (s \o <<a, b>>)[k] = s[k]
           /\ (s \o <<a, b>>)[Len(s) + 1] = a
           /\ (s \o <<a, b>>)[Len(s) + 2] = b
<1>1. <<a, b>> \in Seq(Records) /\ Len(<<a, b>>) = 2 /\ Len(s) \in Nat
  OBVIOUS
<1> QED
  BY <1>1, ConcatProperties

\* What a call has added keeps the invariant when the new records are apart from
\* the old ones, from one another and from the histogram, and filed as they must.
LEMMA AddedKept ==
    ASSUME ProfileInv, NEW c \in Context, histogram' = histogram, Returns(c),
           slab' \in Slabs, heap_end' \in Nat, records' \in Seq(Records),
           SlabFits(slab', heap_end'), Beside(slab', heap_end', histogram),
           Len(records') >= Len(records),
           \A k \in 1..Len(records) : records'[k] = records[k],
           \A k \in 1..Len(records') : Used(slab', heap_end', records'[k].at),
           \A k \in (Len(records) + 1)..Len(records') :
             /\ histogram >= 0 =>
                  records'[k].at \notin histogram..(histogram + HISTOGRAM - 1)
             /\ \A l \in 1..Len(records') :
                  records'[k].at >= 0 /\ records'[l].at = records'[k].at => k = l
             /\ Entered(records[k].entry, records[k].fn)',
           \E k \in 1..Len(records') :
             <<records'[k].fn, records'[k].from>> = <<mcount[c].fn, mcount[c].from>>
    PROVE  ProfileInv'
<1>1. /\ records \in Seq(Records) /\ mcount \in [Context -> Calls]
      /\ Len(records) \in Nat /\ Len(records') \in Nat
      /\ DOMAIN records = 1..Len(records) /\ DOMAIN records' = 1..Len(records')
  BY DEF ProfileInv, ProfileTypes, Calls
<1>2. \A k \in 1..Len(records') :
        k \in 1..Len(records) \/ k \in (Len(records) + 1)..Len(records')
  BY <1>1
<1>3. \A k \in 1..Len(records) : k \in 1..Len(records')
  BY <1>1
<1>4. ProfileTypes'
  <2>1. Away \in Calls
    BY DEF Away, Calls, Steps, Fns, Froms
  <2>2. mcount' \in [Context -> Calls]
    BY <1>1, <2>1 DEF Returns
  <2> QED
    BY <1>1, <2>2 DEF ProfileInv, ProfileTypes, Calls
<1>5. Handed'
  BY DEF Handed
<1>6. \A entry, fn : Entered(entry, fn) => Entered(entry, fn)'
  BY <1>3 DEF Entered
<1>7. Filed'
  <2>1. ASSUME NEW k \in 1..Len(records')
        PROVE  Entered(records[k].entry, records[k].fn)'
    BY <1>2, <1>6 DEF ProfileInv, Filed
  <2>2. ASSUME NEW d \in Context
        PROVE  /\ Entered(mcount[d].entry, mcount[d].fn)'
               /\ mcount'[d].at = "arc" => mcount'[d].entry # 0
               /\ mcount'[d].at = "count" =>
                    /\ mcount'[d].seen \in 1..Len(records')
                    /\ records'[mcount'[d].seen].fn = mcount'[d].fn
                    /\ records'[mcount'[d].seen].from = mcount'[d].from
    <3>1. CASE d = c
      <4>1. mcount'[d] = Away
        BY <1>1, <3>1 DEF Returns
      <4> QED
        BY <4>1 DEF Away, Entered
    <3>2. CASE d # c
      <4>1. mcount'[d] = mcount[d]
        BY <1>1, <3>2 DEF Returns
      <4> QED
        BY <1>3, <1>6, <4>1 DEF ProfileInv, Filed
    <3> QED
      BY <3>1, <3>2
  <2> QED
    BY <2>1, <2>2 DEF Filed, Entered
<1>8. ProfileSound'
  <2>1. ASSUME NEW k \in 1..Len(records'), NEW l \in 1..Len(records'),
               records'[k].at >= 0, records'[l].at = records'[k].at
        PROVE  k = l
    <3>1. CASE k \in 1..Len(records) /\ l \in 1..Len(records)
      BY <1>1, <2>1, <3>1 DEF ProfileInv, ProfileSound
    <3>2. CASE k \in (Len(records) + 1)..Len(records')
      BY <2>1, <3>2
    <3>3. CASE l \in (Len(records) + 1)..Len(records')
      BY <2>1, <3>3
    <3> QED
      BY <1>2, <3>1, <3>2, <3>3
  <2>2. ASSUME NEW k \in 1..Len(records'), histogram >= 0
        PROVE  records'[k].at \notin histogram..(histogram + HISTOGRAM - 1)
    BY <1>1, <1>2, <2>2 DEF ProfileInv, ProfileSound
  <2>3. ASSUME NEW pair \in counted'
        PROVE  \E k \in 1..Len(records') : <<records'[k].fn, records'[k].from>> = pair
    BY <1>1, <1>3, <2>3 DEF Returns, ProfileInv, ProfileSound
  <2> QED
    BY <1>1, <2>1, <2>2, <2>3 DEF ProfileSound
<1> QED
  BY <1>4, <1>5, <1>7, <1>8 DEF ProfileInv

LEMMA AddRecordKept ==
    ASSUME ProfileInv, NEW c \in Context, AddRecord(c)
    PROVE  ProfileInv'
<1> DEFINE m == mcount[c]
           first == SlabFor(slab, heap_end)
           p == first.slab.ptr
<1>0. PICK n \in Nat : n = Len(records)
  BY DEF ProfileInv, ProfileTypes
<1>1. /\ heap_end \in Nat /\ slab \in Slabs /\ records \in Seq(Records)
      /\ histogram \in Int /\ m \in Calls /\ n = Len(records)
  BY <1>0 DEF ProfileInv, ProfileTypes, Calls
<1>2. \A k \in 1..n : records[k].at \in Int
  <2>1. \A k \in 1..n : records[k] \in Records
    BY <1>1
  <2> QED
    BY <2>1 DEF Records
<1>3. /\ SlabFits(slab, heap_end) /\ Beside(slab, heap_end, histogram)
      /\ \A k \in 1..n : Used(slab, heap_end, records[k].at)
  BY <1>0 DEF ProfileInv, Handed
<1>4. /\ p \in Int /\ first.end \in Nat /\ Rest(first.slab) \in Slabs
      /\ SlabFits(Rest(first.slab), first.end)
      /\ Used(Rest(first.slab), first.end, p)
      /\ \A k \in 1..n : /\ Used(Rest(first.slab), first.end, records[k].at)
                         /\ records[k].at >= 0 => records[k].at # p
      /\ Beside(Rest(first.slab), first.end, histogram)
      /\ histogram >= 0 => p \notin histogram..(histogram + HISTOGRAM - 1)
  <2> HIDE DEF first
  <2>1. first = SlabFor(slab, heap_end)
    BY DEF first
  <2> QED
    BY <1>1, <1>2, <1>3, <2>1, Taking
<1>5. /\ histogram' = histogram /\ Returns(c)
  BY DEF AddRecord
<1>6. Entered(m.entry, m.fn)
  BY DEF ProfileInv, Filed
<1>7. CASE m.entry # 0
  <2> DEFINE a == [fn |-> m.fn, from |-> m.from, entry |-> m.entry, at |-> p]
  <2>1. /\ records' = records \o <<a>>
        /\ slab' = Rest(first.slab) /\ heap_end' = first.end
    BY <1>7 DEF AddRecord, Rest
  <2>2. a \in Records
    BY <1>1, <1>4 DEF Records, Calls
  <2>3. /\ a.fn = m.fn /\ a.from = m.from /\ a.entry = m.entry /\ a.at = p
    OBVIOUS
  <2> HIDE DEF a, m, first
  <2>4. /\ records' \in Seq(Records) /\ Len(records') = n + 1
        /\ \A k \in 1..n : records'[k] = records[k]
        /\ records'[n + 1] = a
    BY <1>1, <2>1, <2>2, OneMore
  <2>5. /\ \A k \in 1..n : k \in 1..Len(records')
        /\ \A k \in 1..Len(records') : k \in 1..n \/ k = n + 1
        /\ \A k \in (n + 1)..Len(records') : k = n + 1
        /\ n + 1 \in 1..Len(records') /\ Len(records') >= n
    BY <1>1, <2>4
  <2>6. \A k \in 1..Len(records') : Used(slab', heap_end', records'[k].at)
    BY <1>4, <2>1, <2>3, <2>4, <2>5
  <2>7. Entered(records[n + 1].entry, records[n + 1].fn)'
    <3>1. m.entry \in 1..n /\ records[m.entry].fn = m.fn
      BY <1>1, <1>6, <1>7 DEF Entered
    <3>2. m.entry \in 1..Len(records') /\ records'[m.entry].fn = m.fn
      BY <2>4, <2>5, <3>1
    <3> QED
      BY <2>3, <2>4, <3>2 DEF Entered
  <2>8. ASSUME NEW l \in 1..Len(records'), records'[n + 1].at >= 0,
               records'[l].at = records'[n + 1].at
        PROVE  n + 1 = l
    BY <1>4, <2>3, <2>4, <2>5, <2>8
  <2>9. \E k \in 1..Len(records') :
          <<records'[k].fn, records'[k].from>> = <<m.fn, m.from>>
    BY <2>3, <2>4, <2>5
  <2>10. Beside(slab', heap_end', histogram) /\ SlabFits(slab', heap_end')
         /\ slab' \in Slabs /\ heap_end' \in Nat
    BY <1>4, <2>1
  <2>11. histogram >= 0 =>
           records'[n + 1].at \notin histogram..(histogram + HISTOGRAM - 1)
    BY <1>4, <2>3, <2>4
  <2> QED
    BY <1>1, <1>5, <2>4, <2>5, <2>6, <2>7, <2>8, <2>9, <2>10, <2>11, AddedKept DEF m
<1>8. CASE m.entry = 0
  <2> DEFINE second == SlabFor(Rest(first.slab), first.end)
             q == second.slab.ptr
             a == [fn |-> m.fn, from |-> "none", entry |-> 0, at |-> p]
             b == [fn |-> m.fn, from |-> m.from, entry |-> n + 1, at |-> q]
  <2>1. /\ records' = records \o <<a, b>>
        /\ slab' = Rest(second.slab) /\ heap_end' = second.end
    BY <1>1, <1>8 DEF AddRecord, Rest
  <2>2. /\ q \in Int /\ second.end \in Nat /\ Rest(second.slab) \in Slabs
        /\ SlabFits(Rest(second.slab), second.end)
        /\ Used(Rest(second.slab), second.end, q)
        /\ \A k \in 1..n : /\ Used(Rest(second.slab), second.end, records[k].at)
                           /\ records[k].at >= 0 => records[k].at # q
        /\ Used(Rest(second.slab), second.end, p)
        /\ p >= 0 => p # q
        /\ Beside(Rest(second.slab), second.end, histogram)
        /\ histogram >= 0 => q \notin histogram..(histogram + HISTOGRAM - 1)
    <3>1. second = SlabFor(Rest(first.slab), first.end)
      OBVIOUS
    <3> HIDE DEF second, first, p
    <3>2. /\ p \in Int /\ first.end \in Nat /\ Rest(first.slab) \in Slabs
          /\ SlabFits(Rest(first.slab), first.end)
          /\ Used(Rest(first.slab), first.end, p)
          /\ Beside(Rest(first.slab), first.end, histogram)
      BY <1>4
    <3>3. \A k \in 1..n : /\ records[k].at \in Int
                          /\ Used(Rest(first.slab), first.end, records[k].at)
      BY <1>2, <1>4
    <3> QED
      BY <1>1, <3>1, <3>2, <3>3, Taking
  <2>3. a \in Records /\ b \in Records
    BY <1>1, <1>4, <2>2 DEF Records, Calls, Froms
  <2>4. /\ a.fn = m.fn /\ a.entry = 0 /\ a.at = p
        /\ b.fn = m.fn /\ b.from = m.from /\ b.entry = n + 1 /\ b.at = q
    OBVIOUS
  <2> HIDE DEF a, b, m, first, second, p, q
  <2>5. /\ records' \in Seq(Records) /\ Len(records') = n + 2
        /\ \A k \in 1..n : records'[k] = records[k]
        /\ records'[n + 1] = a /\ records'[n + 2] = b
    BY <1>1, <2>1, <2>3, TwoMore
  <2>6. /\ \A k \in 1..n : k \in 1..Len(records')
        /\ \A k \in 1..Len(records') : k \in 1..n \/ k = n + 1 \/ k = n + 2
        /\ \A k \in (n + 1)..Len(records') : k = n + 1 \/ k = n + 2
        /\ n + 1 \in 1..Len(records') /\ n + 2 \in 1..Len(records')
        /\ Len(records') >= n
    BY <1>0, <2>5
  <2>7. \A k \in 1..Len(records') : Used(slab', heap_end', records'[k].at)
    BY <2>1, <2>2, <2>4, <2>5, <2>6
  <2>8. \A k \in (n + 1)..Len(records') : Entered(records[k].entry, records[k].fn)'
    <3>1. Entered(records[n + 1].entry, records[n + 1].fn)'
      BY <2>4, <2>5 DEF Entered
    <3>2. Entered(records[n + 2].entry, records[n + 2].fn)'
      BY <2>4, <2>5, <2>6 DEF Entered
    <3> QED
      BY <2>6, <3>1, <3>2
  <2>9. ASSUME NEW k \in (n + 1)..Len(records'), NEW l \in 1..Len(records'),
               records'[k].at >= 0, records'[l].at = records'[k].at
        PROVE  k = l
    <3>1. CASE k = n + 1
      BY <1>4, <2>2, <2>4, <2>5, <2>6, <2>9, <3>1
    <3>2. CASE k = n + 2
      BY <2>2, <2>4, <2>5, <2>6, <2>9, <3>2
    <3> QED
      BY <2>6, <3>1, <3>2
  <2>10. \E k \in 1..Len(records') :
           <<records'[k].fn, records'[k].from>> = <<m.fn, m.from>>
    BY <2>4, <2>5, <2>6
  <2>11. Beside(slab', heap_end', histogram) /\ SlabFits(slab', heap_end')
         /\ slab' \in Slabs /\ heap_end' \in Nat
    BY <2>1, <2>2
  <2>12. \A k \in (n + 1)..Len(records') : histogram >= 0 =>
           records'[k].at \notin histogram..(histogram + HISTOGRAM - 1)
    BY <1>4, <2>2, <2>4, <2>5, <2>6
  <2> QED
    BY <1>1, <1>5, <2>5, <2>6, <2>7, <2>8, <2>9, <2>10, <2>11, <2>12, AddedKept DEF m
<1> QED
  BY <1>1, <1>7, <1>8 DEF Calls

LEMMA ProfileInvariant == ProfileSpec => []ProfileInv
<1>1. ProfileInv /\ [ProfileNext]_profile_vars => ProfileInv'
  <2> SUFFICES ASSUME ProfileInv, [ProfileNext]_profile_vars PROVE ProfileInv'
    OBVIOUS
  <2>1. CASE UNCHANGED profile_vars
    BY <2>1, ElsewhereKept DEF profile_vars, memory_vars
  <2>2. CASE StartTimer
    BY <2>2, ElsewhereKept DEF StartTimer
  <2>3. ASSUME NEW c \in Context,
               TestInit(c) \/ ClearInit(c) \/ TooEarly(c) \/ StartSampler(c)
        PROVE  ProfileInv'
    <3>1. UNCHANGED <<memory_vars, counted>>
      BY <2>3 DEF TestInit, ClearInit, TooEarly, StartSampler
    <3>2. PICK at \in {"clear", "add", "init"} : McountGoes(c, at)
      BY <2>3 DEF TestInit, ClearInit, TooEarly, StartSampler
    <3>3. at \in Steps \ {"arc", "count"}
      BY DEF Steps
    <3> QED
      BY <3>1, <3>2, <3>3, StepKept
  <2>4. ASSUME NEW c \in Context, CallMcount(c) PROVE ProfileInv'
    BY <2>4, CallMcountKept
  <2>5. ASSUME NEW c \in Context, FindFunction(c) PROVE ProfileInv'
    BY <2>5, FindFunctionKept
  <2>6. ASSUME NEW c \in Context, FindArc(c) PROVE ProfileInv'
    BY <2>6, FindArcKept
  <2>7. ASSUME NEW c \in Context, CountCall(c) PROVE ProfileInv'
    BY <2>7, CountCallKept
  <2>8. ASSUME NEW c \in Context, MakeHistogram(c) PROVE ProfileInv'
    BY <2>8, MakeHistogramKept
  <2>9. ASSUME NEW c \in Context, AddRecord(c) PROVE ProfileInv'
    BY <2>9, AddRecordKept
  <2> QED
    BY <2>1, <2>2, <2>3, <2>4, <2>5, <2>6, <2>7, <2>8, <2>9 DEF ProfileNext
<1> QED
  BY <1>1, ProfileStart, PTL DEF ProfileSpec

(* While the heap lasts, no record shares memory with another or with the
   histogram, and a call that has returned is recorded: for slabs, heaps and
   histograms of every size, and any number of functions. *)
THEOREM ProfileIsSound == ProfileSpec => []ProfileSound
<1>1. ProfileInv => ProfileSound
  BY DEF ProfileInv
<1> QED
  BY <1>1, ProfileInvariant, PTL


-----------------------------------------------------------------------------
(* Descriptors, and the facts about one that hold between any two steps of *)
(* the threads.                                                            *)

Ats == {"idle", "get", "flags", "scan", "driver", "release", "clear", "setfl"}
FileCalls == [at : Ats, path : Paths \union {<<>>}, fd : Int, i : Int, excl : BOOLEAN]
AllNames == DeviceNames \union FsNames \union {DevNull}
Devices == Names(alt_dev_list)

FileTypes ==
    /\ phase \in {"register", "stdout", "stdin", "stderr", "main"}
    /\ alt_dev_list \in Seq(DeviceNames \union {DevNull})
    /\ alt_fs_list \in Seq(FsNames)
    /\ dev \in [Fd -> AllNames \union {NoDev}]
    /\ flags \in [Fd -> [excl : BOOLEAN, isdev : BOOLEAN,
                         access : {"RDONLY", "WRONLY", "RDWR"}]]
    /\ alt_max_fd \in Int
    /\ call \in [Threads -> FileCalls]
    /\ owner \in [Fd -> Threads \union {"all", "none"}]

\* Before main() nothing is open but the standard descriptors.
BeforeMain ==
    phase # "main" =>
        /\ \A t \in Threads : call[t].at = "idle"
        /\ \A f \in Fd \ Std : dev[f] = NoDev /\ ~ Held(f)
        /\ \A f \in Fd : ~ flags[f].excl

StdInv ==
    /\ \A f \in Std : /\ dev[f] # NoDev /\ owner[f] = "all"
                      /\ flags[f].isdev => alt_max_fd >= 3 /\ dev[f] \in Devices
    /\ dev[0] = StdName => CanRead(0)
    /\ \A f \in {1, 2} : dev[f] = StdName => CanWrite(f)

Uses(c, f) == c.at \notin {"idle", "setfl"} /\ c.fd = f

\* A descriptor that is taken is used by one call or held by the program.
PoolInv ==
    /\ \A f \in Fd \ Std :
         /\ dev[f] # NoDev => Held(f) \/ \E t \in Threads : Uses(call[t], f)
         /\ dev[f] # NoDev => f <= alt_max_fd
         /\ dev[f] = NoDev => flags[f] = NoFlags
         /\ owner[f] # "all"
         /\ Held(f) => /\ dev[f] # NoDev /\ flags[f].access = "RDWR"
                       /\ (flags[f].isdev <=> dev[f] \in Devices)
    /\ \A f \in Fd : flags[f].excl => dev[f] \in Devices
    /\ \A t, u \in Threads : \A f \in Fd \ Std :
         Uses(call[t], f) => ~ Held(f) /\ dev[f] # NoDev /\ (Uses(call[u], f) => t = u)

CallSound(c) ==
    LET f == c.fd IN
    /\ c.at = "get" => f = -1 /\ c.i = 0 /\ Find(c.path) # NoDev
    /\ c.at \in {"flags", "scan", "driver"} => f \in Fd \ Std /\ dev[f] = Find(c.path)
    /\ c.at = "flags" => c.i = 0
    /\ c.at \in {"scan", "driver"} => /\ flags[f].access = "RDWR"
                                      /\ (flags[f].isdev <=> dev[f] \in Devices)
    /\ c.at \in {"release", "clear"} => f \in Fd
    /\ c.at = "clear" /\ f \notin Std => flags[f] = NoFlags
    /\ c.at = "setfl" =>
         /\ f \in Std
         /\ c.excl => dev[f] \in Devices /\ \A g \in Std : g # f => dev[g] # dev[f]

CallInv == \A t \in Threads : CallSound(call[t])

\* A call that opens or closes f and has still to look at g, or need not.
Before(c, g, f) == /\ c.fd = f
                   /\ \/ c.at \in {"flags", "release", "clear"}
                      \/ c.at = "scan" /\ c.i <= g

\* Who shares a locked device is missed, or in a call that is not past its lock.
LockInv ==
    /\ \A f \in Std : \A g \in Fd : ~ Locks(g, f)
    /\ \A f \in Fd \ Std : \A g \in Fd :
         Locks(g, f) /\ dev[f] # NoDev =>
             f \in missed \/ \E t \in Threads : Before(call[t], g, f)

FilesInv == FileTypes /\ BeforeMain /\ StdInv /\ PoolInv /\ CallInv /\ LockInv

LEMMA FdFacts ==
    /\ Fd \subseteq Nat /\ Std \subseteq Fd /\ 0 \in Std /\ 1 \in Std /\ 2 \in Std
    /\ -1 \notin Fd
    /\ \A f \in Fd : f \in Std <=> ~ (f > 2)
    /\ \A f \in Fd : f \in Nat /\ (f \notin Std => f >= 3)
BY FileTableAssumption DEF Fd, Std

LEMMA NameFacts ==
    /\ NoDev \notin AllNames /\ DevNull \in AllNames
    /\ FsNames \intersect (DeviceNames \union {DevNull}) = {}
    /\ DeviceNames \union {DevNull} \subseteq AllNames /\ FsNames \subseteq AllNames
<1>1. NoDev # DevNull
  BY DEF NoDev, DevNull
<1> QED
  BY <1>1, FileTableAssumption DEF AllNames

\* What is found is a device by its name, or a file system.
LEMMA FindFacts ==
    ASSUME FileTypes, NEW path
    PROVE  /\ Devices \subseteq DeviceNames \union {DevNull}
           /\ Find(path) \in AllNames \union {NoDev}
           /\ ~ IsAfs(path) => Find(path) = path /\ path \in Devices
           /\ IsAfs(path) /\ Find(path) # NoDev => Find(path) \in FsNames
           /\ Find(path) # NoDev => (~ IsAfs(path) <=> Find(path) \in Devices)
<1> DEFINE above == {k \in DOMAIN alt_fs_list : Under(alt_fs_list[k], path)}
<1>1. Devices \subseteq DeviceNames \union {DevNull}
  BY DEF FileTypes, Devices, Names
<1>2. ~ IsAfs(path) => Find(path) = path /\ path \in Devices
  BY DEF IsAfs, Find, FindDev, Devices
<1>3. FindFile(path) = NoDev \/ FindFile(path) \in FsNames
  <2>1. CASE above = {}
    BY <2>1 DEF FindFile
  <2>2. CASE above # {}
    <3>1. DOMAIN alt_fs_list = 1..Len(alt_fs_list) /\ Len(alt_fs_list) \in Nat
      BY DEF FileTypes
    <3>2. above \subseteq Nat
      BY <3>1
    <3>3. \E k \in above : \A l \in above : k <= l
      <4> HIDE DEF above
      <4> QED
        BY <2>2, <3>2, Least
    <3>4. (CHOOSE k \in above : \A l \in above : k <= l) \in above
      <4> HIDE DEF above
      <4> QED
        BY <3>3
    <3>5. FindFile(path) = alt_fs_list[CHOOSE k \in above : \A l \in above : k <= l]
      BY <2>2 DEF FindFile
    <3>6. \A k \in above : alt_fs_list[k] \in FsNames
      BY <3>1 DEF FileTypes
    <3> HIDE DEF above
    <3> QED
      BY <3>4, <3>5, <3>6
  <2> QED
    BY <2>1, <2>2
<1>4. IsAfs(path) => Find(path) = FindFile(path)
  BY DEF Find
<1> QED
  BY <1>1, <1>2, <1>3, <1>4, NameFacts

LEMMA LowestIsFree ==
    ASSUME Free # {}
    PROVE  Lowest \in Fd /\ dev[Lowest] = NoDev
<1>1. Free \subseteq Nat
  BY FdFacts DEF Free
<1>2. \E f \in Free : \A g \in Free : f <= g
  BY <1>1, Least
<1>3. Lowest \in Free
  BY <1>2 DEF Lowest
<1> QED
  BY <1>3 DEF Free

LEMMA FilesStart == FilesInit => FilesInv
<1> SUFFICES ASSUME FilesInit PROVE FilesInv
  OBVIOUS
<1> USE FdFacts, NameFacts
<1>1. /\ \A t \in Threads : call[t].at = "idle" /\ call[t].fd = -1
      /\ \A f \in Fd : /\ dev[f] = IF f \in Std THEN DevNull ELSE NoDev
                       /\ flags[f] = NoFlags
                       /\ owner[f] = IF f \in Std THEN "all" ELSE "none"
      /\ phase = "register"
  BY DEF FilesInit, Idle
<1>2. FileTypes
  BY DEF FilesInit, FileTypes, FileCalls, Ats, AllNames, NoFlags, Idle
<1>3. \A f \in Fd : ~ Held(f) /\ ~ flags[f].excl /\ ~ flags[f].isdev
  <2>1. ~ NoFlags.excl /\ ~ NoFlags.isdev
    BY DEF NoFlags
  <2>2. \A f \in Fd : owner[f] \notin Threads
    BY <1>1, FileTableAssumption
  <2> QED
    BY <1>1, <2>1, <2>2 DEF Held
<1>4. BeforeMain
  BY <1>1, <1>3 DEF BeforeMain
<1>5. StdInv
  BY <1>1, <1>3, FileTableAssumption DEF StdInv
<1>6. PoolInv
  BY <1>1, <1>3 DEF PoolInv, Uses
<1>7. CallInv
  BY <1>1 DEF CallInv, CallSound
<1>8. LockInv
  BY <1>1, <1>3 DEF LockInv, Locks
<1> QED
  BY <1>2, <1>4, <1>5, <1>6, <1>7, <1>8 DEF FilesInv

\* No call is made before main().
LEMMA EarlyFacts ==
    ASSUME FilesInv, phase # "main"
    PROVE  /\ \A t \in Threads : call[t].at = "idle"
           /\ \A f \in Fd \ Std : dev[f] = NoDev /\ ~ Held(f)
           /\ \A f \in Fd : ~ flags[f].excl
           /\ \A t \in Threads : \A f \in Fd : ~ Uses(call[t], f)
BY DEF FilesInv, BeforeMain, Uses

LEMMA RegisterKept == FilesInv /\ Register => FilesInv'
<1> SUFFICES ASSUME FilesInv, Register PROVE FilesInv'
  OBVIOUS
<1> USE FdFacts, NameFacts
<1>1. /\ phase = "register"
      /\ UNCHANGED <<phase, dev, flags, alt_max_fd, call, owner, missed>>
  BY DEF Register
<1>2. phase # "main"
  BY <1>1
<1>3. FileTypes'
  <2>1. /\ alt_dev_list \in Seq(DeviceNames \union {DevNull})
        /\ alt_fs_list \in Seq(FsNames)
    BY DEF FilesInv, FileTypes
  <2>2. \A n \in DeviceNames :
           <<n>> \o alt_dev_list \in Seq(DeviceNames \union {DevNull})
    <3> TAKE n \in DeviceNames
    <3>1. <<n>> \in Seq(DeviceNames \union {DevNull})
      OBVIOUS
    <3> QED
      BY <3>1, ConcatProperties DEF FilesInv, FileTypes
  <2>3. \A n \in FsNames : <<n>> \o alt_fs_list \in Seq(FsNames)
    <3> TAKE n \in FsNames
    <3>1. <<n>> \in Seq(FsNames)
      OBVIOUS
    <3> QED
      BY <3>1, ConcatProperties DEF FilesInv, FileTypes
  <2>4. alt_dev_list' \in Seq(DeviceNames \union {DevNull})
    BY <2>1, <2>2 DEF Register
  <2>5. alt_fs_list' \in Seq(FsNames)
    BY <2>1, <2>3 DEF Register
  <2> QED
    BY <1>1, <2>4, <2>5 DEF FilesInv, FileTypes
<1>4. BeforeMain'
  BY <1>1 DEF FilesInv, BeforeMain, Held
<1>5. Devices \subseteq Devices'
  <2>1. CASE UNCHANGED alt_dev_list
    BY <2>1 DEF Devices, Names
  <2>2. ASSUME NEW n \in DeviceNames, alt_dev_list' = <<n>> \o alt_dev_list
        PROVE  Devices \subseteq Devices'
    <3>1. /\ alt_dev_list \in Seq(DeviceNames \union {DevNull})
          /\ <<n>> \in Seq(DeviceNames \union {DevNull}) /\ Len(<<n>>) = 1
      BY DEF FilesInv, FileTypes
    <3>2. /\ Len(alt_dev_list) \in Nat /\ DOMAIN alt_dev_list = 1..Len(alt_dev_list)
          /\ DOMAIN alt_dev_list' = 1..Len(alt_dev_list')
          /\ Len(alt_dev_list') = 1 + Len(alt_dev_list)
          /\ \A j \in 1..1 + Len(alt_dev_list) :
               alt_dev_list'[j] = IF j <= 1 THEN <<n>>[j] ELSE alt_dev_list[j - 1]
      BY <2>2, <3>1, ConcatProperties
    <3>3. \A k \in 1..Len(alt_dev_list) :
             k + 1 \in 1..Len(alt_dev_list') /\ alt_dev_list'[k + 1] = alt_dev_list[k]
      BY <3>2
    <3> QED
      BY <3>2, <3>3 DEF Devices, Names
  <2> QED
    BY <2>1, <2>2 DEF Register
<1>6. StdInv'
  BY <1>1, <1>5 DEF FilesInv, StdInv, CanRead, CanWrite
<1>7. PoolInv'
  BY <1>1, <1>2, EarlyFacts DEF FilesInv, PoolInv, Uses, Held
<1>8. CallInv'
  BY <1>1, <1>2, EarlyFacts DEF CallInv, CallSound
<1>9. LockInv'
  BY <1>1, <1>2, EarlyFacts DEF LockInv, Locks
<1> QED
  BY <1>3, <1>4, <1>6, <1>7, <1>8, <1>9 DEF FilesInv

LEMMA RegisteredKept == FilesInv /\ Registered => FilesInv'
<1> SUFFICES ASSUME FilesInv, Registered PROVE FilesInv'
  OBVIOUS
<1>1. /\ phase = "register" /\ phase' = "stdout"
      /\ UNCHANGED <<alt_dev_list, alt_fs_list, dev, flags, alt_max_fd, call, owner, missed>>
  BY DEF Registered
<1>2. FileTypes' /\ BeforeMain' /\ StdInv'
  BY <1>1 DEF FilesInv, FileTypes, BeforeMain, StdInv, Held, Devices, CanRead, CanWrite
<1>3. PoolInv'
  BY <1>1 DEF FilesInv, PoolInv, Uses, Held, Devices
<1>4. CallInv'
  BY <1>1, EarlyFacts DEF CallInv, CallSound
<1>5. LockInv'
  BY <1>1 DEF FilesInv, LockInv, Locks, Before
<1> QED
  BY <1>2, <1>3, <1>4, <1>5 DEF FilesInv

LEMMA RedirectKept ==
    ASSUME FilesInv, phase # "main", NEW f \in Std,
           NEW access \in {"RDONLY", "WRONLY"},
           f = 0 <=> access = "RDONLY",
           NEW after \in {"stdin", "stderr", "main"}, Redirect(f, access, after)
    PROVE  FilesInv'
<1> USE FdFacts, NameFacts
<1> DEFINE new == [NoFlags EXCEPT !.isdev = TRUE, !.access = access]
<1>1. /\ phase' = after
      /\ UNCHANGED <<alt_dev_list, alt_fs_list, call, owner, missed>>
      /\ FileTypes /\ StdInv
  BY DEF Redirect, FilesInv
<1>2. /\ new \in [excl : BOOLEAN, isdev : BOOLEAN, access : {"RDONLY", "WRONLY", "RDWR"}]
      /\ ~ new.excl /\ new.access = access /\ new.isdev
  BY DEF NoFlags
<1>3. \/ UNCHANGED <<dev, flags>>
      \/ /\ dev' = [dev EXCEPT ![f] = StdName] /\ flags' = [flags EXCEPT ![f] = new]
         /\ ~ IsAfs(StdName)
  BY DEF Redirect
<1>4. /\ alt_max_fd' \in Int /\ alt_max_fd' >= alt_max_fd
      /\ ~ IsAfs(StdName) => alt_max_fd' >= 3
  <2>1. CASE IsAfs(StdName)
    BY <1>1, <2>1 DEF Redirect, FileTypes
  <2>2. CASE ~ IsAfs(StdName)
    <3>1. 3 \in Fd /\ 3 \notin Std
      BY FileTableAssumption DEF Fd, Std
    <3>2. Free # {}
      BY <3>1, EarlyFacts DEF Free
    <3>3. Lowest \in Fd /\ Lowest \notin Std
      BY <3>2, LowestIsFree, <1>1 DEF StdInv
    <3>4. alt_max_fd' = IF Lowest > alt_max_fd THEN Lowest ELSE alt_max_fd
      BY <2>2 DEF Redirect, Raised
    <3>5. Lowest \in Nat /\ Lowest >= 3 /\ alt_max_fd \in Int
      BY <1>1, <3>3 DEF FileTypes
    <3> QED
      BY <3>4, <3>5
  <2> QED
    BY <2>1, <2>2
<1>5. ~ IsAfs(StdName) => StdName \in Devices /\ StdName # NoDev /\ StdName \in AllNames
  BY <1>1, FindFacts, FileTableAssumption DEF Find, IsAfs, FindDev
<1> HIDE DEF new
<1>6. \A g \in Fd : \/ dev'[g] = dev[g] /\ flags'[g] = flags[g]
                    \/ /\ g = f /\ dev'[g] = StdName /\ flags'[g] = new
                       /\ ~ IsAfs(StdName)
  BY <1>1, <1>3 DEF FileTypes
<1>7. FileTypes'
  <2>1. dev' \in [Fd -> AllNames \union {NoDev}]
    BY <1>1, <1>3, <1>5 DEF FileTypes
  <2>2. flags' \in [Fd -> [excl : BOOLEAN, isdev : BOOLEAN,
                          access : {"RDONLY", "WRONLY", "RDWR"}]]
    BY <1>1, <1>2, <1>3 DEF FileTypes
  <2> QED
    BY <1>1, <1>4, <2>1, <2>2 DEF FileTypes
<1>8. Devices' = Devices
  BY <1>1 DEF Devices
<1>9. \A g \in Fd : ~ flags'[g].excl
  BY <1>2, <1>6, EarlyFacts
<1>10. \A g \in Fd \ Std : dev'[g] = NoDev /\ flags'[g] = flags[g] /\ ~ Held(g)' /\ ~ Held(g)
  BY <1>1, <1>6, EarlyFacts DEF Held
<1>11. BeforeMain'
  BY <1>1, <1>9, <1>10, EarlyFacts DEF BeforeMain
<1>12. StdInv'
  <2>1. ASSUME NEW g \in Std
        PROVE  /\ dev'[g] # NoDev /\ owner'[g] = "all"
               /\ flags'[g].isdev => alt_max_fd' >= 3 /\ dev'[g] \in Devices'
    <3>1. g \in Fd
      OBVIOUS
    <3>2. CASE dev'[g] = dev[g] /\ flags'[g] = flags[g]
      <4>1. /\ dev[g] # NoDev /\ owner[g] = "all"
            /\ flags[g].isdev => alt_max_fd >= 3 /\ dev[g] \in Devices
        BY <1>1 DEF StdInv
      <4>2. flags[g].isdev => alt_max_fd' >= 3
        BY <1>1, <1>4, <4>1 DEF FileTypes
      <4> QED
        BY <1>1, <1>8, <3>2, <4>1, <4>2
    <3>3. CASE dev'[g] = StdName /\ ~ IsAfs(StdName)
      BY <1>1, <1>4, <1>5, <1>8, <3>3 DEF StdInv
    <3> QED
      BY <1>6, <3>1, <3>2, <3>3
  <2>2. dev'[0] = StdName => CanRead(0)'
    BY <1>1, <1>2, <1>5, <1>6 DEF StdInv, CanRead
  <2>3. ASSUME NEW g \in {1, 2}, dev'[g] = StdName PROVE CanWrite(g)'
    <3>1. g \in Fd /\ g # 0
      OBVIOUS
    <3> QED
      BY <1>1, <1>2, <1>5, <1>6, <2>3, <3>1 DEF StdInv, CanWrite
  <2> QED
    BY <2>1, <2>2, <2>3 DEF StdInv
<1>13. PoolInv'
  <2>1. \A t \in Threads : \A g \in Fd : ~ Uses(call[t], g)'
    BY <1>1, EarlyFacts DEF Uses
  <2>2. \A g \in Fd \ Std : flags[g] = NoFlags /\ owner[g] # "all"
    BY EarlyFacts DEF FilesInv, PoolInv
  <2> QED
    BY <1>1, <1>9, <1>10, <2>1, <2>2 DEF PoolInv
<1>14. CallInv'
  BY <1>1, EarlyFacts DEF CallInv, CallSound
<1>15. LockInv'
  BY <1>9 DEF LockInv, Locks
<1> QED
  BY <1>7, <1>11, <1>12, <1>13, <1>14, <1>15 DEF FilesInv

LEMMA IoRedirectKept == FilesInv /\ IoRedirect => FilesInv'
<1> SUFFICES ASSUME FilesInv, IoRedirect PROVE FilesInv'
  OBVIOUS
<1>1. CASE phase = "stdout" /\ Redirect(1, "WRONLY", "stdin")
  BY <1>1, RedirectKept, FdFacts
<1>2. CASE phase = "stdin" /\ Redirect(0, "RDONLY", "stderr")
  BY <1>2, RedirectKept, FdFacts
<1>3. CASE phase = "stderr" /\ Redirect(2, "WRONLY", "main")
  BY <1>3, RedirectKept, FdFacts
<1> QED
  BY <1>1, <1>2, <1>3 DEF IoRedirect

LEMMA MainFacts ==
    /\ \A t \in Threads : FilesInv /\ call[t].at # "idle" => phase = "main"
    /\ UNCHANGED lists => /\ phase' = phase /\ Devices' = Devices
                          /\ \A path : Find(path)' = Find(path)
                          /\ \A path : IsAfs(path)' = IsAfs(path)
<1>1. \A t \in Threads : FilesInv /\ call[t].at # "idle" => phase = "main"
  BY DEF FilesInv, BeforeMain
<1>2. UNCHANGED lists =>
        /\ phase' = phase /\ alt_dev_list' = alt_dev_list /\ alt_fs_list' = alt_fs_list
  BY DEF lists
<1>3. UNCHANGED lists => Devices' = Devices
  BY <1>2 DEF Devices
<1>4. ASSUME UNCHANGED lists, NEW path
      PROVE  Find(path)' = Find(path) /\ IsAfs(path)' = IsAfs(path)
  BY <1>2, <1>4 DEF Find, IsAfs, FindDev, FindFile
<1> QED
  BY <1>1, <1>2, <1>3, <1>4

\* A step of a call that leaves the table alone.
LEMMA OneCallKept ==
    ASSUME FilesInv, phase = "main", UNCHANGED <<lists, table>>,
           NEW t \in Threads, NEW c \in FileCalls, call' = [call EXCEPT ![t] = c],
           \A f \in Fd \ Std : Uses(c, f) <=> Uses(call[t], f),
           CallSound(c),
           \A f \in Fd \ Std : \A g \in Fd :
             Locks(g, f) /\ Before(call[t], g, f) => f \in missed \/ Before(c, g, f)
    PROVE  FilesInv'
<1>1. /\ UNCHANGED <<dev, flags, alt_max_fd, owner, missed>> /\ UNCHANGED lists
      /\ phase' = phase /\ Devices' = Devices
      /\ \A path : Find(path)' = Find(path)
  BY MainFacts DEF table
<1>2. /\ \A u \in Threads : call'[u] = IF u = t THEN c ELSE call[u]
      /\ call' \in [Threads -> FileCalls]
  BY DEF FilesInv, FileTypes
<1>3. FileTypes' /\ BeforeMain' /\ StdInv'
  BY <1>1, <1>2 DEF FilesInv, FileTypes, BeforeMain, StdInv, CanRead, CanWrite, lists
<1>4. PoolInv'
  <2>1. \A u \in Threads : \A f \in Fd \ Std : Uses(call'[u], f) <=> Uses(call[u], f)
    BY <1>2
  <2>2. \A u \in Threads : \A f : Uses(call[u], f)' = Uses(call'[u], f)
    BY DEF Uses
  <2>3. \A f \in Fd : Held(f)' = Held(f)
    BY <1>1 DEF Held
  <2> QED
    BY <1>1, <2>1, <2>2, <2>3 DEF FilesInv, PoolInv
<1>5. CallInv'
  <2>1. \A x : CallSound(x)' = CallSound(x)
    BY <1>1 DEF CallSound
  <2>2. \A u \in Threads : CallSound(call'[u])
    BY <1>2 DEF FilesInv, CallInv
  <2> QED
    BY <1>1, <2>2 DEF CallInv, CallSound
<1>6. LockInv'
  <2>1. \A f, g : Locks(g, f)' = Locks(g, f)
    BY <1>1 DEF Locks
  <2>2. \A f \in Std : \A g \in Fd : ~ Locks(g, f)'
    BY <2>1 DEF FilesInv, LockInv
  <2>3. ASSUME NEW f \in Fd \ Std, NEW g \in Fd, Locks(g, f), dev[f] # NoDev
        PROVE  f \in missed \/ \E u \in Threads : Before(call'[u], g, f)
    <3>1. f \in missed \/ \E u \in Threads : Before(call[u], g, f)
      BY <2>3 DEF FilesInv, LockInv
    <3> QED
      BY <1>2, <2>3, <3>1
  <2>4. \A u \in Threads : \A f, g : Before(call[u], g, f)' = Before(call'[u], g, f)
    BY DEF Before
  <2> QED
    BY <1>1, <2>1, <2>2, <2>3, <2>4 DEF LockInv
<1> QED
  BY <1>3, <1>4, <1>5, <1>6 DEF FilesInv

LEMMA CallTypes ==
    ASSUME FilesInv, NEW t \in Threads
    PROVE  /\ call[t] \in FileCalls /\ CallSound(call[t])
           /\ call[t].at \in Ats /\ call[t].fd \in Int /\ call[t].i \in Int
           /\ call[t].excl \in BOOLEAN
<1>1. call[t] \in FileCalls /\ CallSound(call[t])
  BY DEF FilesInv, FileTypes, CallInv
<1> QED
  BY <1>1 DEF FileCalls

LEMMA IdleFacts ==
    /\ Idle \in FileCalls /\ Idle.at = "idle" /\ Idle.path = <<>> /\ Idle.fd = -1
    /\ Idle.i = 0 /\ Idle.excl = FALSE
BY DEF Idle, FileCalls, Ats

LEMMA OpenKept ==
    ASSUME FilesInv, NEW t \in Threads, Open(t)
    PROVE  FilesInv'
<1>1. PICK path \in Paths :
        /\ Find(path) # NoDev
        /\ call' = [call EXCEPT ![t] = [Idle EXCEPT !.at = "get", !.path = path]]
  BY Zenon DEF Open
<1> DEFINE c == [Idle EXCEPT !.at = "get", !.path = path]
<1>2. /\ c \in FileCalls /\ c.at = "get" /\ c.fd = -1 /\ c.i = 0 /\ c.path = path
  BY IdleFacts DEF FileCalls, Ats
<1>3. CallSound(c)
  BY <1>1, <1>2 DEF CallSound
<1>4. phase = "main" /\ call[t].at = "idle" /\ UNCHANGED <<lists, table>>
      /\ call' = [call EXCEPT ![t] = c]
  BY <1>1 DEF Open
<1> HIDE DEF c
<1>5. \A f \in Fd : ~ Uses(c, f) /\ ~ Uses(call[t], f)
  BY <1>2, <1>4, FdFacts DEF Uses
<1>6. \A f, g : ~ Before(call[t], g, f)
  BY <1>4 DEF Before
<1> QED
  BY <1>2, <1>3, <1>4, <1>5, <1>6, OneCallKept

LEMMA OpenFailsKept ==
    ASSUME FilesInv, NEW t \in Threads, OpenFails(t)
    PROVE  FilesInv'
<1> DEFINE c == [call[t] EXCEPT !.at = "release"]
<1>1. /\ call[t].at = "driver" /\ UNCHANGED <<lists, table>>
      /\ call' = [call EXCEPT ![t] = c]
  BY DEF OpenFails, Goes
<1>2. c \in FileCalls /\ c.at = "release" /\ c.fd = call[t].fd
  BY CallTypes DEF FileCalls, Ats
<1>3. c.fd \in Fd
  BY <1>1, <1>2, CallTypes DEF CallSound
<1> HIDE DEF c
<1>4. CallSound(c)
  BY <1>2, <1>3 DEF CallSound
<1>5. \A f : Uses(c, f) <=> Uses(call[t], f)
  BY <1>1, <1>2 DEF Uses
<1>6. \A f, g : ~ Before(call[t], g, f)
  BY <1>1 DEF Before
<1>7. phase = "main"
  BY <1>1, MainFacts
<1> QED
  BY <1>1, <1>2, <1>4, <1>5, <1>6, <1>7, OneCallKept

\* The scan has seen that descriptor i is not locked against f, or ends.
LEMMA FileLockedKept ==
    ASSUME FilesInv, NEW t \in Threads, FileLocked(t)
    PROVE  FilesInv'
<1> DEFINE m == call[t]
           at == IF m.i > alt_max_fd THEN "driver"
                 ELSE IF Locks(m.i, m.fd) THEN "release" ELSE "scan"
           c == [m EXCEPT !.at = at, !.i = IF m.i > alt_max_fd THEN m.i ELSE m.i + 1]
<1>1. /\ m \in FileCalls /\ m.at = "scan" /\ UNCHANGED <<lists, table>>
      /\ m.fd \in Fd \ Std /\ m.i \in Int /\ m.fd \in Nat
      /\ m.fd >= 3 /\ CallSound(m)
  BY CallTypes, FdFacts DEF FileLocked, CallSound
<1>2. call' = [call EXCEPT ![t] = c]
  BY <1>1 DEF FileLocked, FilesInv, FileTypes
<1>3. phase = "main"
  BY <1>1, MainFacts
<1>4. /\ c \in FileCalls /\ c.at = at /\ c.fd = m.fd /\ c.path = m.path
      /\ c.i = IF m.i > alt_max_fd THEN m.i ELSE m.i + 1
  <2> DEFINE after == IF m.i > alt_max_fd THEN m.i ELSE m.i + 1
  <2>1. at \in Ats /\ after \in Int
    BY <1>1 DEF Ats
  <2>2. c = [m EXCEPT !.at = at, !.i = after]
    OBVIOUS
  <2> HIDE DEF at, after, c, m
  <2>3. /\ c \in FileCalls /\ c.at = at /\ c.fd = m.fd /\ c.path = m.path
        /\ c.i = after
    BY <1>1, <2>1, <2>2 DEF FileCalls
  <2> QED
    BY <2>3 DEF after
<1>5. at \in {"driver", "release", "scan"}
  OBVIOUS
<1>6. CallSound(c)
  BY <1>1, <1>4, <1>5 DEF CallSound
<1>7. \A f : Uses(c, f) <=> Uses(m, f)
  BY <1>1, <1>4, <1>5 DEF Uses
<1>8. ASSUME NEW f \in Fd \ Std, NEW g \in Fd, Locks(g, f), Before(m, g, f)
      PROVE  Before(c, g, f)
  <2>1. f = m.fd /\ m.i <= g /\ g \in Nat
    BY <1>1, <1>8, FdFacts DEF Before
  <2>2. dev[f] # NoDev
    BY <1>1, <2>1 DEF FilesInv, PoolInv, Uses
  <2>3. g <= alt_max_fd
    <3>1. dev[g] # NoDev
      BY <1>8, <2>2 DEF Locks
    <3>2. CASE g \notin Std
      BY <3>1, <3>2 DEF FilesInv, PoolInv
    <3>3. CASE g \in Std
      <4>1. f <= alt_max_fd /\ alt_max_fd \in Int /\ f >= 3 /\ f \in Nat
        BY <1>1, <2>1, <2>2 DEF FilesInv, PoolInv, FileTypes
      <4>2. g <= 2
        BY <3>3 DEF Std
      <4> QED
        BY <2>1, <4>1, <4>2
    <3> QED
      BY <3>2, <3>3
  <2>4. ~ (m.i > alt_max_fd) /\ alt_max_fd \in Int
    BY <1>1, <2>1, <2>3 DEF FilesInv, FileTypes
  <2>5. CASE Locks(m.i, m.fd)
    BY <1>4, <2>1, <2>4, <2>5 DEF Before
  <2>6. CASE ~ Locks(m.i, m.fd)
    <3>1. m.i # g
      BY <1>8, <2>1, <2>6
    <3>2. m.i + 1 <= g
      BY <1>1, <2>1, <3>1
    <3> QED
      BY <1>4, <2>1, <2>4, <2>6, <3>2 DEF Before
  <2> QED
    BY <2>5, <2>6
<1> HIDE DEF c
<1> QED
  BY <1>1, <1>2, <1>3, <1>4, <1>6, <1>7, <1>8, OneCallKept

LEMMA FcntlKept ==
    ASSUME FilesInv, NEW t \in Threads, Fcntl(t)
    PROVE  FilesInv'
<1>1. PICK f \in Std :
        call' = [call EXCEPT ![t] = [Idle EXCEPT !.at = "setfl", !.fd = f,
                                                 !.excl = flags[f].excl]]
  BY Zenon DEF Fcntl
<1> DEFINE c == [Idle EXCEPT !.at = "setfl", !.fd = f, !.excl = flags[f].excl]
<1>2. /\ phase = "main" /\ call[t].at = "idle" /\ UNCHANGED <<lists, table>>
      /\ call' = [call EXCEPT ![t] = c]
  BY <1>1 DEF Fcntl
<1>3. f \in Fd /\ f \in Int /\ flags[f].excl \in BOOLEAN
  BY FdFacts DEF FilesInv, FileTypes
<1>4. c \in FileCalls /\ c.at = "setfl" /\ c.fd = f /\ c.excl = flags[f].excl
  BY <1>3, IdleFacts DEF FileCalls, Ats
<1>5. flags[f].excl => dev[f] \in Devices /\ \A g \in Std : g # f => dev[g] # dev[f]
  BY <1>3, FdFacts DEF FilesInv, PoolInv, LockInv, Locks
<1> HIDE DEF c
<1>6. CallSound(c)
  BY <1>4, <1>5 DEF CallSound
<1>7. \A g : ~ Uses(c, g) /\ ~ Uses(call[t], g)
  BY <1>2, <1>4 DEF Uses
<1>8. \A g, h : ~ Before(call[t], g, h)
  BY <1>2 DEF Before
<1> QED
  BY <1>2, <1>4, <1>6, <1>7, <1>8, OneCallKept

\* What a step of a call makes of the calls.
LEMMA CallChanged ==
    ASSUME FilesInv, NEW t \in Threads, NEW c \in FileCalls,
           call' = [call EXCEPT ![t] = c]
    PROVE  /\ call' \in [Threads -> FileCalls]
           /\ \A u \in Threads : call'[u] = IF u = t THEN c ELSE call[u]
           /\ \A u \in Threads : \A f : Uses(call[u], f)' = Uses(call'[u], f)
           /\ \A u \in Threads : \A f, g : Before(call[u], g, f)' = Before(call'[u], g, f)
<1>1. call \in [Threads -> FileCalls]
  BY DEF FilesInv, FileTypes
<1> QED
  BY <1>1 DEF Uses, Before

\* A call that uses a descriptor of the pool uses it alone.
LEMMA UsesFacts ==
    ASSUME FilesInv, NEW t \in Threads
    PROVE  /\ \A f \in Fd \ Std : Uses(call[t], f) =>
                /\ ~ Held(f) /\ dev[f] # NoDev
                /\ \A u \in Threads : Uses(call[u], f) => u = t
           /\ call[t].at \in {"flags", "scan", "driver", "release", "clear"} =>
                Uses(call[t], call[t].fd) /\ call[t].fd \in Fd
           /\ call[t].at \in {"idle", "get", "setfl"} =>
                \A f \in Fd : ~ Uses(call[t], f)
<1>1. CallSound(call[t])
  BY CallTypes
<1>2. call[t].at \in {"flags", "scan", "driver", "release", "clear"} => call[t].fd \in Fd
  BY <1>1 DEF CallSound
<1>3. call[t].at = "get" => call[t].fd \notin Fd
  BY <1>1, FdFacts DEF CallSound
<1> QED
  BY <1>2, <1>3 DEF FilesInv, PoolInv, Uses

LEMMA GetFdKept ==
    ASSUME FilesInv, NEW t \in Threads, GetFd(t)
    PROVE  FilesInv'
<1>1. /\ phase = "main" /\ call[t].at = "get" /\ UNCHANGED <<lists, flags, owner, opened, missed>>
      /\ CallSound(call[t]) /\ call[t] \in FileCalls
  BY CallTypes, MainFacts DEF GetFd
<1>2. /\ phase' = "main" /\ Devices' = Devices /\ \A path : Find(path)' = Find(path)
      /\ alt_dev_list' = alt_dev_list /\ alt_fs_list' = alt_fs_list
  BY <1>1, MainFacts DEF lists
<1>3. CASE /\ Free = {} /\ call' = [call EXCEPT ![t] = Idle]
           /\ UNCHANGED <<dev, alt_max_fd>>
  <2>1. UNCHANGED <<lists, table>>
    BY <1>1, <1>3 DEF table
  <2>2. CallSound(Idle)
    BY IdleFacts DEF CallSound
  <2>3. \A f \in Fd : ~ Uses(Idle, f) /\ ~ Uses(call[t], f)
    BY <1>1, UsesFacts, IdleFacts DEF Uses
  <2>4. \A f, g : ~ Before(call[t], g, f)
    BY <1>1 DEF Before
  <2> QED
    BY <1>1, <1>3, <2>1, <2>2, <2>3, <2>4, IdleFacts, OneCallKept
<1>4. CASE /\ Free # {}
           /\ dev' = [dev EXCEPT ![Lowest] = Find(call[t].path)]
           /\ alt_max_fd' = Raised(Lowest)
           /\ call' = [call EXCEPT ![t].at = "flags", ![t].fd = Lowest]
  <2>1. PICK f : f = Lowest
    OBVIOUS
  <2>2. PICK n : n = Find(call[t].path)
    OBVIOUS
  <2>3. PICK c : c = [call[t] EXCEPT !.at = "flags", !.fd = f]
    OBVIOUS
  <2>4. f \in Fd /\ dev[f] = NoDev /\ f \notin Std /\ f \in Nat /\ flags[f] = NoFlags
    BY <1>4, <2>1, LowestIsFree, FdFacts DEF FilesInv, StdInv, PoolInv
  <2>5. n \in AllNames /\ n # NoDev
    BY <1>1, <2>2, FindFacts DEF CallSound, FilesInv
  <2>6. /\ c \in FileCalls /\ c.at = "flags" /\ c.fd = f /\ c.i = 0
        /\ c.path = call[t].path
    <3>1. call[t].i = 0
      BY <1>1 DEF CallSound
    <3>2. f \in Int
      BY <2>4
    <3> QED
      BY <1>1, <2>3, <3>1, <3>2 DEF FileCalls, Ats
  <2>7. call' = [call EXCEPT ![t] = c]
    BY <1>4, <2>1, <2>3 DEF FilesInv, FileTypes
  <2>8. /\ call' \in [Threads -> FileCalls]
        /\ \A u \in Threads : call'[u] = IF u = t THEN c ELSE call[u]
        /\ \A u \in Threads : \A h : Uses(call[u], h)' = Uses(call'[u], h)
        /\ \A u \in Threads : \A h, g : Before(call[u], g, h)' = Before(call'[u], g, h)
    BY <2>6, <2>7, CallChanged
  <2>9. /\ \A g \in Fd : dev'[g] = IF g = f THEN n ELSE dev[g]
        /\ dev' \in [Fd -> AllNames \union {NoDev}]
    BY <1>4, <2>1, <2>2, <2>4, <2>5 DEF FilesInv, FileTypes
  <2>10. /\ alt_max_fd' \in Int /\ alt_max_fd \in Int
         /\ alt_max_fd' >= alt_max_fd /\ alt_max_fd' >= f
    BY <1>4, <2>1, <2>4 DEF Raised, FilesInv, FileTypes
  <2>11. ~ flags[f].excl
    BY <2>4 DEF NoFlags
  <2>12. FileTypes'
    BY <1>1, <1>2, <2>8, <2>9, <2>10 DEF FilesInv, FileTypes
  <2>13. StdInv'
    BY <1>1, <1>2, <2>4, <2>9, <2>10, FdFacts DEF FilesInv, StdInv, CanRead, CanWrite
  <2>14. \A g \in Fd : Held(g)' = Held(g)
    BY <1>1 DEF Held
  <2>15. ~ Held(f) /\ \A u \in Threads : ~ Uses(call[u], f)
    BY <2>4, UsesFacts DEF FilesInv, PoolInv
  <2>16. /\ \A g \in Fd : g # f => ~ Uses(c, g) /\ ~ Uses(call[t], g)
         /\ Uses(c, f)
    BY <1>1, <2>6, UsesFacts DEF Uses
  <2>17. PoolInv'
    <3>1. ASSUME NEW g \in Fd \ Std
          PROVE  /\ dev'[g] # NoDev => Held(g) \/ \E u \in Threads : Uses(call'[u], g)
                 /\ dev'[g] # NoDev => g <= alt_max_fd'
                 /\ dev'[g] = NoDev => flags[g] = NoFlags
                 /\ owner[g] # "all"
                 /\ Held(g) => /\ dev'[g] # NoDev /\ flags[g].access = "RDWR"
                               /\ (flags[g].isdev <=> dev'[g] \in Devices)
      <4>1. CASE g = f
        BY <2>4, <2>5, <2>8, <2>9, <2>10, <2>15, <2>16, <4>1 DEF FilesInv, PoolInv
      <4>2. CASE g # f
        <5>1. dev'[g] = dev[g]
          BY <2>9, <4>2
        <5>2. \A u \in Threads : Uses(call[u], g) => Uses(call'[u], g)
          BY <2>8, <2>16, <4>2
        <5>3. dev[g] # NoDev => g <= alt_max_fd'
          BY <2>10, FdFacts DEF FilesInv, PoolInv
        <5> QED
          BY <5>1, <5>2, <5>3 DEF FilesInv, PoolInv
      <4> QED
        BY <4>1, <4>2
    <3>2. \A g \in Fd : flags[g].excl => dev'[g] \in Devices
      BY <2>9, <2>11 DEF FilesInv, PoolInv
    <3>3. ASSUME NEW u \in Threads, NEW v \in Threads, NEW g \in Fd \ Std,
                 Uses(call'[u], g)
          PROVE  ~ Held(g) /\ dev'[g] # NoDev /\ (Uses(call'[v], g) => u = v)
      <4>1. CASE g = f
        BY <2>5, <2>8, <2>9, <2>15, <3>3, <4>1
      <4>2. CASE g # f
        BY <2>8, <2>9, <2>16, <3>3, <4>2, UsesFacts
      <4> QED
        BY <4>1, <4>2
    <3> QED
      BY <1>1, <1>2, <2>8, <2>14, <3>1, <3>2, <3>3 DEF PoolInv
  <2>18. CallInv'
    <3>1. \A u \in Threads : u # t => CallSound(call[u])'
      <4>1. ASSUME NEW u \in Threads, u # t
            PROVE  CallSound(call[u])'
        <5>1. CallSound(call[u]) /\ call'[u] = call[u]
          BY <2>8, <4>1, CallTypes
        <5>2. call[u].at \in {"flags", "scan", "driver"} => dev'[call[u].fd] = dev[call[u].fd]
          BY <2>9, <2>15, <5>1, UsesFacts
        <5>3. \A g \in Std : dev'[g] = dev[g]
          BY <2>4, <2>9, FdFacts
        <5> QED
          BY <1>1, <1>2, <5>1, <5>2, <5>3 DEF CallSound
      <4> QED
        BY <4>1
    <3>2. CallSound(call[t])'
      BY <1>2, <2>2, <2>4, <2>6, <2>8, <2>9 DEF CallSound
    <3> QED
      BY <3>1, <3>2 DEF CallInv
  <2>19. LockInv'
    <3>1. ASSUME NEW g \in Fd, NEW h \in Fd, h # f, Locks(g, h)'
          PROVE  Locks(g, h) /\ dev'[h] = dev[h]
      BY <1>1, <2>9, <2>11, <3>1 DEF Locks
    <3>2. \A h \in Std : \A g \in Fd : ~ Locks(g, h)'
      BY <2>4, <3>1, FdFacts DEF FilesInv, LockInv
    <3>3. ASSUME NEW h \in Fd \ Std, NEW g \in Fd, Locks(g, h)', dev'[h] # NoDev
          PROVE  h \in missed \/ \E u \in Threads : Before(call'[u], g, h)
      <4>1. CASE h = f
        <5>1. Before(c, g, h)
          BY <2>6, <4>1 DEF Before
        <5> QED
          BY <2>8, <5>1
      <4>2. CASE h # f
        <5>1. h \in missed \/ \E u \in Threads : Before(call[u], g, h)
          BY <3>1, <3>3, <4>2 DEF FilesInv, LockInv
        <5>2. ~ Before(call[t], g, h)
          BY <1>1 DEF Before
        <5> QED
          BY <2>8, <5>1, <5>2
      <4> QED
        BY <4>1, <4>2
    <3> QED
      BY <1>1, <2>8, <3>2, <3>3 DEF LockInv
  <2> QED
    BY <1>2, <2>12, <2>13, <2>17, <2>18, <2>19 DEF FilesInv, BeforeMain
<1> QED
  BY <1>3, <1>4 DEF GetFd

\* A step in main that changes no device of a descriptor, adds no lock and
\* leaves the calls and the owners as they are: unlock.
LEMMA UnlockKept ==
    ASSUME FilesInv, NEW t \in Threads, Unlock(t)
    PROVE  FilesInv'
<1>1. /\ phase = "main" /\ UNCHANGED <<lists, dev, alt_max_fd, call, owner, missed>>
  BY DEF Unlock
<1>2. PICK f \in Mine(t) \union Std : flags' = [flags EXCEPT ![f].excl = FALSE]
  BY DEF Unlock
<1>3. f \in Fd /\ (f \notin Std => Held(f))
  BY FdFacts DEF Mine, Held
<1>4. /\ phase' = "main" /\ Devices' = Devices /\ \A path : Find(path)' = Find(path)
      /\ alt_dev_list' = alt_dev_list /\ alt_fs_list' = alt_fs_list
  BY <1>1, MainFacts DEF lists
<1>5. /\ flags' \in [Fd -> [excl : BOOLEAN, isdev : BOOLEAN,
                            access : {"RDONLY", "WRONLY", "RDWR"}]]
      /\ \A g \in Fd : /\ flags'[g].excl => flags[g].excl
                       /\ flags'[g].isdev = flags[g].isdev
                       /\ flags'[g].access = flags[g].access
                       /\ g # f => flags'[g] = flags[g]
  BY <1>2, <1>3 DEF FilesInv, FileTypes
<1>6. FileTypes' /\ BeforeMain'
  BY <1>1, <1>4, <1>5 DEF FilesInv, FileTypes, BeforeMain
<1>7. StdInv'
  BY <1>1, <1>4, <1>5, FdFacts DEF FilesInv, StdInv, CanRead, CanWrite
<1>8. /\ \A g \in Fd : Held(g)' = Held(g)
      /\ \A u \in Threads : \A g : Uses(call[u], g)' = Uses(call[u], g)
      /\ \A u \in Threads : \A g, h : Before(call[u], g, h)' = Before(call[u], g, h)
  BY <1>1 DEF Held, Uses, Before
<1>9. PoolInv'
  <2>1. \A g \in Fd \ Std : dev[g] = NoDev => flags'[g] = NoFlags
    BY <1>3, <1>5 DEF FilesInv, PoolInv
  <2> QED
    BY <1>1, <1>4, <1>5, <1>8, <2>1 DEF FilesInv, PoolInv
<1>10. CallInv'
  <2>1. ASSUME NEW u \in Threads
        PROVE  CallSound(call[u])'
    <3>1. CallSound(call[u])
      BY CallTypes
    <3>2. call[u].at = "clear" /\ call[u].fd \notin Std => call[u].fd # f
      BY <1>3, UsesFacts
    <3> QED
      BY <1>1, <1>4, <1>5, <3>1, <3>2 DEF CallSound
  <2> QED
    BY <2>1 DEF CallInv
<1>11. LockInv'
  <2>1. \A g, h \in Fd : Locks(g, h)' => Locks(g, h)
    BY <1>1, <1>5 DEF Locks
  <2> QED
    BY <1>1, <1>8, <2>1, FdFacts DEF FilesInv, LockInv
<1> QED
  BY <1>6, <1>7, <1>9, <1>10, <1>11 DEF FilesInv

\* The lock: the standard descriptors are all among those looked at, so that
\* only a descriptor of the pool is missed.
LEMMA LockKept ==
    ASSUME FilesInv, NEW t \in Threads, Lock(t)
    PROVE  FilesInv'
<1>1. /\ phase = "main" /\ UNCHANGED <<lists, dev, alt_max_fd, call, owner>>
  BY DEF Lock
<1>2. PICK f \in Mine(t) \union Std :
         /\ flags[f].isdev
         /\ \A g \in SeenByLock : g # f => dev[g] # dev[f]
         /\ flags' = [flags EXCEPT ![f].excl = TRUE]
         /\ missed' = missed \union {g \in Fd \ {f} : dev[g] = dev[f]}
  BY DEF Lock
<1>3. f \in Fd /\ (f \notin Std => Held(f))
  BY FdFacts DEF Mine, Held
<1>4. /\ phase' = "main" /\ Devices' = Devices /\ \A path : Find(path)' = Find(path)
      /\ alt_dev_list' = alt_dev_list /\ alt_fs_list' = alt_fs_list
  BY <1>1, MainFacts DEF lists
<1>5. /\ flags' \in [Fd -> [excl : BOOLEAN, isdev : BOOLEAN,
                            access : {"RDONLY", "WRONLY", "RDWR"}]]
      /\ \A g \in Fd : /\ flags'[g].excl => flags[g].excl \/ g = f
                       /\ flags'[g].isdev = flags[g].isdev
                       /\ flags'[g].access = flags[g].access
                       /\ g # f => flags'[g] = flags[g]
  BY <1>2, <1>3 DEF FilesInv, FileTypes
<1>6. /\ dev[f] \in Devices /\ dev[f] # NoDev
      /\ alt_max_fd \in Int /\ alt_max_fd >= 3
  <2>1. alt_max_fd \in Int
    BY DEF FilesInv, FileTypes
  <2>2. CASE f \in Std
    BY <1>2, <2>1, <2>2 DEF FilesInv, StdInv
  <2>3. CASE f \notin Std
    <3>1. dev[f] # NoDev /\ f <= alt_max_fd /\ dev[f] \in Devices
      BY <1>2, <1>3, <2>3 DEF FilesInv, PoolInv
    <3>2. f >= 3 /\ f \in Nat
      BY <1>3, <2>3, FdFacts
    <3> QED
      BY <2>1, <3>1, <3>2
  <2> QED
    BY <2>2, <2>3
<1>7. \A g \in Std : g # f => dev[g] # dev[f]
  <2>1. Std \subseteq SeenByLock
    BY <1>6 DEF Std, SeenByLock
  <2> QED
    BY <1>2, <2>1
<1>8. FileTypes' /\ BeforeMain'
  BY <1>1, <1>4, <1>5 DEF FilesInv, FileTypes, BeforeMain
<1>9. StdInv'
  BY <1>1, <1>4, <1>5, FdFacts DEF FilesInv, StdInv, CanRead, CanWrite
<1>10. /\ \A g \in Fd : Held(g)' = Held(g)
       /\ \A u \in Threads : \A g : Uses(call[u], g)' = Uses(call[u], g)
       /\ \A u \in Threads : \A g, h : Before(call[u], g, h)' = Before(call[u], g, h)
  BY <1>1 DEF Held, Uses, Before
<1>11. PoolInv'
  <2>1. \A g \in Fd : flags'[g].excl => dev[g] \in Devices
    BY <1>5, <1>6 DEF FilesInv, PoolInv
  <2>2. \A g \in Fd \ Std : dev[g] = NoDev => flags'[g] = NoFlags
    BY <1>5, <1>6 DEF FilesInv, PoolInv
  <2> QED
    BY <1>1, <1>4, <1>5, <1>10, <2>1, <2>2 DEF FilesInv, PoolInv
<1>12. CallInv'
  <2>1. ASSUME NEW u \in Threads
        PROVE  CallSound(call[u])'
    <3>1. CallSound(call[u])
      BY CallTypes
    <3>2. call[u].at = "clear" /\ call[u].fd \notin Std => call[u].fd # f
      BY <1>3, UsesFacts
    <3> QED
      BY <1>1, <1>4, <1>5, <3>1, <3>2 DEF CallSound
  <2> QED
    BY <2>1 DEF CallInv
<1>13. LockInv'
  <2>1. \A g, h \in Fd : Locks(g, h)' => Locks(g, h) \/ (g = f /\ h # f /\ dev[h] = dev[f])
    BY <1>1, <1>5 DEF Locks
  <2>2. \A h \in Std : \A g \in Fd : ~ Locks(g, h)'
    BY <1>7, <2>1, FdFacts DEF FilesInv, LockInv
  <2>3. ASSUME NEW h \in Fd \ Std, NEW g \in Fd, Locks(g, h)', dev[h] # NoDev
        PROVE  h \in missed' \/ \E u \in Threads : Before(call[u], g, h)
    <3>1. CASE Locks(g, h)
      BY <1>2, <2>3, <3>1 DEF FilesInv, LockInv
    <3>2. CASE h # f /\ dev[h] = dev[f]
      BY <1>2, <3>2
    <3> QED
      BY <2>1, <2>3, <3>1, <3>2
  <2> QED
    BY <1>1, <1>10, <2>2, <2>3 DEF LockInv
<1> QED
  BY <1>8, <1>9, <1>11, <1>12, <1>13 DEF FilesInv

\* A stale flag: what it locks again is a standard descriptor's device, which
\* no other standard one has.
LEMMA FcntlStoresKept ==
    ASSUME FilesInv, NEW t \in Threads, FcntlStores(t)
    PROVE  FilesInv'
<1>1. PICK f : f = call[t].fd
  OBVIOUS
<1>2. PICK e : e = call[t].excl
  OBVIOUS
<1>3. /\ call[t].at = "setfl" /\ UNCHANGED <<lists, dev, alt_max_fd, owner>>
      /\ flags' = [flags EXCEPT ![f].excl = e]
      /\ missed' = missed \union {g \in Fd \ {f} : e /\ ~ flags[f].excl /\ dev[g] = dev[f]}
      /\ call' = [call EXCEPT ![t] = Idle]
  BY <1>1, <1>2 DEF FcntlStores
<1>4. /\ phase = "main" /\ f \in Std /\ f \in Fd /\ e \in BOOLEAN
      /\ e => dev[f] \in Devices /\ \A g \in Std : g # f => dev[g] # dev[f]
  BY <1>1, <1>2, <1>3, CallTypes, MainFacts, FdFacts DEF CallSound
<1>5. /\ phase' = "main" /\ Devices' = Devices /\ \A path : Find(path)' = Find(path)
      /\ alt_dev_list' = alt_dev_list /\ alt_fs_list' = alt_fs_list
  BY <1>3, <1>4, MainFacts DEF lists
<1>6. /\ flags' \in [Fd -> [excl : BOOLEAN, isdev : BOOLEAN,
                            access : {"RDONLY", "WRONLY", "RDWR"}]]
      /\ \A g \in Fd : /\ flags'[g].excl => flags[g].excl \/ (g = f /\ e)
                       /\ flags'[g].isdev = flags[g].isdev
                       /\ flags'[g].access = flags[g].access
                       /\ g # f => flags'[g] = flags[g]
  BY <1>3, <1>4 DEF FilesInv, FileTypes
<1>7. /\ call' \in [Threads -> FileCalls]
      /\ \A u \in Threads : call'[u] = IF u = t THEN Idle ELSE call[u]
      /\ \A u \in Threads : \A h : Uses(call[u], h)' = Uses(call'[u], h)
      /\ \A u \in Threads : \A h, g : Before(call[u], g, h)' = Before(call'[u], g, h)
  BY <1>3, IdleFacts, CallChanged
<1>8. FileTypes' /\ BeforeMain'
  BY <1>3, <1>5, <1>6, <1>7 DEF FilesInv, FileTypes, BeforeMain
<1>9. StdInv'
  BY <1>3, <1>5, <1>6, FdFacts DEF FilesInv, StdInv, CanRead, CanWrite
<1>10. /\ \A g \in Fd : Held(g)' = Held(g)
       /\ \A u \in Threads : \A g \in Fd : Uses(call'[u], g) <=> Uses(call[u], g)
       /\ \A g, h : ~ Before(call[t], g, h)
  BY <1>3, <1>7, IdleFacts DEF Held, Uses, Before
<1>11. PoolInv'
  <2>1. \A g \in Fd : flags'[g].excl => dev[g] \in Devices
    BY <1>4, <1>6 DEF FilesInv, PoolInv
  <2>2. \A g \in Fd \ Std : flags'[g] = flags[g]
    BY <1>4, <1>6
  <2> QED
    BY <1>3, <1>5, <1>6, <1>7, <1>10, <2>1, <2>2 DEF FilesInv, PoolInv
<1>12. CallInv'
  <2>1. ASSUME NEW u \in Threads, u # t
        PROVE  CallSound(call[u])'
    <3>1. CallSound(call[u]) /\ call'[u] = call[u]
      BY <1>7, <2>1, CallTypes
    <3> QED
      BY <1>3, <1>4, <1>5, <1>6, <3>1 DEF CallSound
  <2>2. CallSound(call[t])'
    BY <1>7, IdleFacts DEF CallSound
  <2> QED
    BY <2>1, <2>2 DEF CallInv
<1>13. LockInv'
  <2>1. \A g, h \in Fd : Locks(g, h)' =>
          \/ Locks(g, h)
          \/ g = f /\ h # f /\ dev[h] = dev[f] /\ e /\ ~ flags[f].excl
    BY <1>3, <1>6 DEF Locks
  <2>2. \A h \in Std : \A g \in Fd : ~ Locks(g, h)'
    BY <1>4, <2>1, FdFacts DEF FilesInv, LockInv
  <2>3. ASSUME NEW h \in Fd \ Std, NEW g \in Fd, Locks(g, h)', dev[h] # NoDev
        PROVE  h \in missed' \/ \E u \in Threads : Before(call'[u], g, h)
    <3>1. CASE Locks(g, h)
      <4>1. h \in missed \/ \E u \in Threads : Before(call[u], g, h)
        BY <2>3, <3>1 DEF FilesInv, LockInv
      <4> QED
        BY <1>3, <1>7, <1>10, <4>1
    <3>2. CASE h # f /\ dev[h] = dev[f] /\ e /\ ~ flags[f].excl
      BY <1>3, <3>2
    <3> QED
      BY <2>1, <2>3, <3>1, <3>2
  <2> QED
    BY <1>3, <1>7, <2>2, <2>3 DEF LockInv
<1> QED
  BY <1>8, <1>9, <1>11, <1>12, <1>13 DEF FilesInv

\* The flags are set, and with them the lock that was left: what the flags say
\* of the device is what its list says.
LEMMA SetFlagsKept ==
    ASSUME FilesInv, NEW t \in Threads, SetFlags(t)
    PROVE  FilesInv'
<1>1. PICK f : f = call[t].fd
  OBVIOUS
<1>2. PICK path : path = call[t].path
  OBVIOUS
<1>3. PICK at : at = IF IsAfs(path) THEN "driver" ELSE "scan"
  OBVIOUS
<1>4. PICK c : c = [call[t] EXCEPT !.at = at]
  OBVIOUS
<1>5. PICK new : new = [NoFlags EXCEPT !.isdev = ~ IsAfs(path), !.access = "RDWR"]
  OBVIOUS
<1>6. /\ call[t].at = "flags" /\ UNCHANGED <<lists, dev, alt_max_fd, owner, missed>>
      /\ flags' = [flags EXCEPT ![f] = new] /\ call' = [call EXCEPT ![t] = c]
  BY <1>1, <1>2, <1>3, <1>4, <1>5 DEF SetFlags, Goes
<1>7. /\ phase = "main" /\ f \in Fd \ Std /\ dev[f] = Find(path) /\ call[t].i = 0
      /\ ~ Held(f) /\ dev[f] # NoDev
      /\ \A u \in Threads : Uses(call[u], f) => u = t
  BY <1>1, <1>2, <1>6, CallTypes, MainFacts, UsesFacts, FdFacts DEF CallSound
<1>8. /\ phase' = "main" /\ Devices' = Devices /\ \A p : Find(p)' = Find(p)
      /\ alt_dev_list' = alt_dev_list /\ alt_fs_list' = alt_fs_list
  BY <1>6, <1>7, MainFacts DEF lists
<1>9. /\ c \in FileCalls /\ c.at = at /\ c.fd = f /\ c.i = 0 /\ c.path = path
      /\ at \in {"driver", "scan"}
  <2>1. call[t] \in FileCalls /\ at \in {"driver", "scan"}
    BY <1>3, CallTypes
  <2> QED
    BY <1>1, <1>2, <1>4, <1>7, <2>1 DEF FileCalls, Ats
<1>10. /\ new \in [excl : BOOLEAN, isdev : BOOLEAN, access : {"RDONLY", "WRONLY", "RDWR"}]
       /\ ~ new.excl /\ new.access = "RDWR"
  BY <1>5 DEF NoFlags
<1>11. new.isdev <=> dev[f] \in Devices
  <2>1. new.isdev <=> ~ IsAfs(path)
    BY <1>5 DEF NoFlags
  <2> QED
    BY <1>7, <2>1, FindFacts DEF FilesInv
<1>12. /\ flags' \in [Fd -> [excl : BOOLEAN, isdev : BOOLEAN,
                             access : {"RDONLY", "WRONLY", "RDWR"}]]
       /\ \A g \in Fd : flags'[g] = IF g = f THEN new ELSE flags[g]
  BY <1>6, <1>10 DEF FilesInv, FileTypes
<1>13. /\ call' \in [Threads -> FileCalls]
       /\ \A u \in Threads : call'[u] = IF u = t THEN c ELSE call[u]
       /\ \A u \in Threads : \A h : Uses(call[u], h)' = Uses(call'[u], h)
       /\ \A u \in Threads : \A h, g : Before(call[u], g, h)' = Before(call'[u], g, h)
  BY <1>6, <1>9, CallChanged
<1>14. FileTypes' /\ BeforeMain'
  BY <1>6, <1>8, <1>12, <1>13 DEF FilesInv, FileTypes, BeforeMain
<1>15. StdInv'
  BY <1>6, <1>7, <1>8, <1>12, FdFacts DEF FilesInv, StdInv, CanRead, CanWrite
<1>16. /\ \A g \in Fd : Held(g)' = Held(g)
       /\ \A u \in Threads : \A g : Uses(call'[u], g) <=> Uses(call[u], g)
  BY <1>1, <1>6, <1>9, <1>13 DEF Held, Uses
<1>17. PoolInv'
  <2>1. \A g \in Fd : flags'[g].excl => dev[g] \in Devices
    BY <1>10, <1>12 DEF FilesInv, PoolInv
  <2>2. ASSUME NEW g \in Fd \ Std
        PROVE  /\ dev[g] = NoDev => flags'[g] = NoFlags
               /\ Held(g) => /\ flags'[g].access = "RDWR"
                             /\ (flags'[g].isdev <=> dev[g] \in Devices)
    BY <1>7, <1>12 DEF FilesInv, PoolInv
  <2> QED
    BY <1>6, <1>8, <1>13, <1>16, <2>1, <2>2 DEF FilesInv, PoolInv
<1>18. CallInv'
  <2>1. ASSUME NEW u \in Threads, u # t
        PROVE  CallSound(call[u])'
    <3>1. CallSound(call[u]) /\ call'[u] = call[u]
      BY <1>13, <2>1, CallTypes
    <3>2. call[u].at \in {"scan", "driver", "release", "clear"} => call[u].fd # f
      BY <1>7, <2>1, UsesFacts
    <3> QED
      BY <1>6, <1>7, <1>8, <1>12, <3>1, <3>2 DEF CallSound
  <2>2. CallSound(call[t])'
    BY <1>6, <1>7, <1>8, <1>9, <1>10, <1>11, <1>12, <1>13 DEF CallSound
  <2> QED
    BY <2>1, <2>2 DEF CallInv
<1>19. LockInv'
  <2>1. \A g, h \in Fd : Locks(g, h)' => Locks(g, h)
    BY <1>6, <1>10, <1>12 DEF Locks
  <2>2. \A h \in Std : \A g \in Fd : ~ Locks(g, h)'
    BY <2>1, FdFacts DEF FilesInv, LockInv
  <2>3. ASSUME NEW h \in Fd \ Std, NEW g \in Fd, Locks(g, h)', dev[h] # NoDev
        PROVE  h \in missed \/ \E u \in Threads : Before(call'[u], g, h)
    <3>1. h \in missed \/ \E u \in Threads : Before(call[u], g, h)
      BY <2>1, <2>3 DEF FilesInv, LockInv
    <3>2. ASSUME Before(call[t], g, h)
          PROVE  Before(c, g, h)
      <4>1. h = f
        BY <1>1, <3>2 DEF Before
      <4>2. dev[f] \in Devices
        BY <2>1, <2>3, <4>1 DEF Locks, FilesInv, PoolInv
      <4>3. c.at = "scan"
        BY <1>3, <1>7, <1>9, <4>2, FindFacts DEF FilesInv
      <4>4. c.i <= g
        BY <1>9, FdFacts
      <4> QED
        BY <1>9, <4>1, <4>3, <4>4 DEF Before
    <3> QED
      BY <1>13, <3>1, <3>2
  <2> QED
    BY <1>6, <1>13, <2>2, <2>3 DEF LockInv
<1> QED
  BY <1>14, <1>15, <1>17, <1>18, <1>19 DEF FilesInv

LEMMA OpenReturnsKept ==
    ASSUME FilesInv, NEW t \in Threads, OpenReturns(t)
    PROVE  FilesInv'
<1>1. PICK f : f = call[t].fd
  OBVIOUS
<1>2. /\ call[t].at = "driver" /\ UNCHANGED <<lists, dev, flags, alt_max_fd, missed>>
      /\ owner' = [owner EXCEPT ![f] = t] /\ call' = [call EXCEPT ![t] = Idle]
  BY <1>1 DEF OpenReturns
<1>3. /\ phase = "main" /\ f \in Fd \ Std /\ ~ Held(f) /\ dev[f] # NoDev
      /\ \A u \in Threads : Uses(call[u], f) => u = t
      /\ flags[f].access = "RDWR" /\ (flags[f].isdev <=> dev[f] \in Devices)
  BY <1>1, <1>2, CallTypes, MainFacts, UsesFacts DEF CallSound
<1>4. /\ phase' = "main" /\ Devices' = Devices /\ \A p : Find(p)' = Find(p)
      /\ alt_dev_list' = alt_dev_list /\ alt_fs_list' = alt_fs_list
  BY <1>2, <1>3, MainFacts DEF lists
<1>5. /\ call' \in [Threads -> FileCalls]
      /\ \A u \in Threads : call'[u] = IF u = t THEN Idle ELSE call[u]
      /\ \A u \in Threads : \A h : Uses(call[u], h)' = Uses(call'[u], h)
      /\ \A u \in Threads : \A h, g : Before(call[u], g, h)' = Before(call'[u], g, h)
  BY <1>2, IdleFacts, CallChanged
<1>6. /\ owner' \in [Fd -> Threads \union {"all", "none"}]
      /\ \A g \in Fd : owner'[g] = IF g = f THEN t ELSE owner[g]
      /\ t # "all"
  BY <1>2, FileTableAssumption DEF FilesInv, FileTypes
<1>7. FileTypes' /\ BeforeMain'
  BY <1>2, <1>4, <1>5, <1>6 DEF FilesInv, FileTypes, BeforeMain
<1>8. StdInv'
  BY <1>2, <1>3, <1>4, <1>6, FdFacts DEF FilesInv, StdInv, CanRead, CanWrite
<1>9. /\ \A g \in Fd : Held(g)' <=> Held(g) \/ g = f
      /\ \A u \in Threads : \A g : Uses(call'[u], g) <=> Uses(call[u], g) /\ u # t
      /\ \A g : Uses(call[t], g) => g = f
  BY <1>1, <1>2, <1>5, <1>6, IdleFacts DEF Held, Uses
<1>10. PoolInv'
  <2>1. ASSUME NEW g \in Fd \ Std
        PROVE  /\ dev[g] # NoDev => Held(g)' \/ \E u \in Threads : Uses(call'[u], g)
               /\ owner'[g] # "all"
               /\ Held(g)' => /\ dev[g] # NoDev /\ flags[g].access = "RDWR"
                              /\ (flags[g].isdev <=> dev[g] \in Devices)
    BY <1>3, <1>6, <1>9 DEF FilesInv, PoolInv
  <2>2. ASSUME NEW u \in Threads, NEW v \in Threads, NEW g \in Fd \ Std,
               Uses(call'[u], g)
        PROVE  ~ Held(g)' /\ dev[g] # NoDev /\ (Uses(call'[v], g) => u = v)
    BY <1>3, <1>9, <2>2, UsesFacts
  <2> QED
    BY <1>2, <1>4, <1>5, <2>1, <2>2 DEF FilesInv, PoolInv
<1>11. CallInv'
  <2>1. ASSUME NEW u \in Threads, u # t
        PROVE  CallSound(call[u])'
    <3>1. CallSound(call[u]) /\ call'[u] = call[u]
      BY <1>5, <2>1, CallTypes
    <3> QED
      BY <1>2, <1>4, <3>1 DEF CallSound
  <2>2. CallSound(call[t])'
    BY <1>5, IdleFacts DEF CallSound
  <2> QED
    BY <2>1, <2>2 DEF CallInv
<1>12. LockInv'
  <2>1. \A g, h : Locks(g, h)' = Locks(g, h)
    BY <1>2 DEF Locks
  <2>2. \A g, h : ~ Before(call[t], g, h)
    BY <1>2 DEF Before
  <2>3. ASSUME NEW h \in Fd \ Std, NEW g \in Fd, Locks(g, h), dev[h] # NoDev
        PROVE  h \in missed \/ \E u \in Threads : Before(call'[u], g, h)
    <3>1. h \in missed \/ \E u \in Threads : Before(call[u], g, h)
      BY <2>3 DEF FilesInv, LockInv
    <3> QED
      BY <1>5, <2>2, <3>1
  <2> QED
    BY <1>2, <1>5, <2>1, <2>3 DEF FilesInv, LockInv
<1> QED
  BY <1>7, <1>8, <1>10, <1>11, <1>12 DEF FilesInv

LEMMA CloseKept ==
    ASSUME FilesInv, NEW t \in Threads, Close(t)
    PROVE  FilesInv'
<1>1. PICK f \in Mine(t) \union Std :
         /\ call' = [call EXCEPT ![t] = [Idle EXCEPT !.at = "release", !.fd = f]]
         /\ owner' = [owner EXCEPT ![f] = IF f \in Std THEN "all" ELSE "none"]
  BY Zenon DEF Close
<1>2. PICK c : c = [Idle EXCEPT !.at = "release", !.fd = f]
  OBVIOUS
<1>3. /\ phase = "main" /\ call[t].at = "idle"
      /\ UNCHANGED <<lists, dev, flags, alt_max_fd, missed>>
      /\ call' = [call EXCEPT ![t] = c]
  BY <1>1, <1>2 DEF Close
<1>4. f \in Fd /\ f \in Int /\ (f \notin Std => Held(f) /\ dev[f] # NoDev)
  <2>1. f \in Fd /\ f \in Int
    BY FdFacts DEF Mine
  <2>2. f \notin Std => Held(f)
    BY DEF Mine, Held
  <2> QED
    BY <2>1, <2>2 DEF FilesInv, PoolInv
<1>5. c \in FileCalls /\ c.at = "release" /\ c.fd = f
  BY <1>2, <1>4, IdleFacts DEF FileCalls, Ats
<1>6. /\ phase' = "main" /\ Devices' = Devices /\ \A p : Find(p)' = Find(p)
      /\ alt_dev_list' = alt_dev_list /\ alt_fs_list' = alt_fs_list
  BY <1>3, MainFacts DEF lists
<1>7. /\ call' \in [Threads -> FileCalls]
      /\ \A u \in Threads : call'[u] = IF u = t THEN c ELSE call[u]
      /\ \A u \in Threads : \A h : Uses(call[u], h)' = Uses(call'[u], h)
      /\ \A u \in Threads : \A h, g : Before(call[u], g, h)' = Before(call'[u], g, h)
  BY <1>3, <1>5, CallChanged
<1>8. /\ owner' \in [Fd -> Threads \union {"all", "none"}]
      /\ \A g \in Fd : owner'[g] = IF g # f THEN owner[g]
                                   ELSE IF f \in Std THEN "all" ELSE "none"
  BY <1>1, <1>4 DEF FilesInv, FileTypes
<1>9. FileTypes' /\ BeforeMain'
  BY <1>3, <1>6, <1>7, <1>8 DEF FilesInv, FileTypes, BeforeMain
<1>10. StdInv'
  BY <1>3, <1>6, <1>8, FdFacts DEF FilesInv, StdInv, CanRead, CanWrite
<1>11. /\ \A g \in Fd \ Std : Held(g)' <=> Held(g) /\ g # f
       /\ \A u \in Threads : \A g :
            Uses(call'[u], g) <=> Uses(call[u], g) \/ (u = t /\ g = f)
       /\ \A g : ~ Uses(call[t], g)
  <2>1. "none" \notin Threads
    BY FileTableAssumption
  <2>2. \A g \in Fd \ Std : Held(g)' <=> Held(g) /\ g # f
    BY <1>8, <2>1 DEF Held
  <2> QED
    BY <1>3, <1>5, <1>7, <2>2 DEF Uses
<1>12. PoolInv'
  <2>1. ASSUME NEW g \in Fd \ Std
        PROVE  /\ dev[g] # NoDev => Held(g)' \/ \E u \in Threads : Uses(call'[u], g)
               /\ owner'[g] # "all"
               /\ Held(g)' => /\ dev[g] # NoDev /\ flags[g].access = "RDWR"
                              /\ (flags[g].isdev <=> dev[g] \in Devices)
    BY <1>8, <1>11 DEF FilesInv, PoolInv
  <2>2. ASSUME NEW u \in Threads, NEW v \in Threads, NEW g \in Fd \ Std,
               Uses(call'[u], g)
        PROVE  ~ Held(g)' /\ dev[g] # NoDev /\ (Uses(call'[v], g) => u = v)
    BY <1>4, <1>11, <2>2, UsesFacts
  <2> QED
    BY <1>3, <1>6, <1>7, <2>1, <2>2 DEF FilesInv, PoolInv
<1>13. CallInv'
  <2>1. ASSUME NEW u \in Threads, u # t
        PROVE  CallSound(call[u])'
    <3>1. CallSound(call[u]) /\ call'[u] = call[u]
      BY <1>7, <2>1, CallTypes
    <3> QED
      BY <1>3, <1>6, <3>1 DEF CallSound
  <2>2. CallSound(call[t])'
    BY <1>4, <1>5, <1>7 DEF CallSound
  <2> QED
    BY <2>1, <2>2 DEF CallInv
<1>14. LockInv'
  <2>1. \A g, h : Locks(g, h)' = Locks(g, h)
    BY <1>3 DEF Locks
  <2>2. \A g, h : ~ Before(call[t], g, h)
    BY <1>3 DEF Before
  <2>3. ASSUME NEW h \in Fd \ Std, NEW g \in Fd, Locks(g, h), dev[h] # NoDev
        PROVE  h \in missed \/ \E u \in Threads : Before(call'[u], g, h)
    <3>1. h \in missed \/ \E u \in Threads : Before(call[u], g, h)
      BY <2>3 DEF FilesInv, LockInv
    <3> QED
      BY <1>7, <2>2, <3>1
  <2> QED
    BY <1>3, <1>7, <2>1, <2>3 DEF FilesInv, LockInv
<1> QED
  BY <1>9, <1>10, <1>12, <1>13, <1>14 DEF FilesInv

LEMMA ReleaseKept ==
    ASSUME FilesInv, NEW t \in Threads, Release(t)
    PROVE  FilesInv'
<1>1. PICK f : f = call[t].fd
  OBVIOUS
<1>2. PICK c : c = [call[t] EXCEPT !.at = "clear"]
  OBVIOUS
<1>3. /\ call[t].at = "release" /\ UNCHANGED <<lists, dev, alt_max_fd, owner, missed>>
      /\ flags' = [flags EXCEPT ![f] = IF f > 2 THEN NoFlags ELSE @]
      /\ call' = [call EXCEPT ![t] = c]
  BY <1>1, <1>2 DEF Release, Goes
<1>4. /\ phase = "main" /\ f \in Fd
      /\ f \notin Std => ~ Held(f) /\ dev[f] # NoDev
                         /\ \A u \in Threads : Uses(call[u], f) => u = t
  BY <1>1, <1>3, MainFacts, UsesFacts
<1>5. /\ phase' = "main" /\ Devices' = Devices /\ \A p : Find(p)' = Find(p)
      /\ alt_dev_list' = alt_dev_list /\ alt_fs_list' = alt_fs_list
  BY <1>3, <1>4, MainFacts DEF lists
<1>6. c \in FileCalls /\ c.at = "clear" /\ c.fd = f
  <2>1. call[t] \in FileCalls
    BY CallTypes
  <2> QED
    BY <1>1, <1>2, <2>1 DEF FileCalls, Ats
<1>7. /\ call' \in [Threads -> FileCalls]
      /\ \A u \in Threads : call'[u] = IF u = t THEN c ELSE call[u]
      /\ \A u \in Threads : \A h : Uses(call[u], h)' = Uses(call'[u], h)
      /\ \A u \in Threads : \A h, g : Before(call[u], g, h)' = Before(call'[u], g, h)
  BY <1>3, <1>6, CallChanged
<1>8. /\ NoFlags \in [excl : BOOLEAN, isdev : BOOLEAN, access : {"RDONLY", "WRONLY", "RDWR"}]
      /\ ~ NoFlags.excl
  BY DEF NoFlags
<1>9. /\ flags' \in [Fd -> [excl : BOOLEAN, isdev : BOOLEAN,
                            access : {"RDONLY", "WRONLY", "RDWR"}]]
      /\ \A g \in Fd : flags'[g] = IF g = f /\ f \notin Std THEN NoFlags ELSE flags[g]
  BY <1>3, <1>4, <1>8, FdFacts DEF FilesInv, FileTypes
<1>10. FileTypes' /\ BeforeMain'
  BY <1>3, <1>5, <1>7, <1>9 DEF FilesInv, FileTypes, BeforeMain
<1>11. StdInv'
  <2>1. \A g \in Std : flags'[g] = flags[g]
    BY <1>9, FdFacts
  <2> QED
    BY <1>3, <1>5, <2>1, FdFacts DEF FilesInv, StdInv, CanRead, CanWrite
<1>12. /\ \A g \in Fd : Held(g)' = Held(g)
       /\ \A u \in Threads : \A g : Uses(call'[u], g) <=> Uses(call[u], g)
  BY <1>1, <1>3, <1>6, <1>7 DEF Held, Uses
<1>13. PoolInv'
  <2>1. \A g \in Fd : flags'[g].excl => dev[g] \in Devices
    BY <1>8, <1>9 DEF FilesInv, PoolInv
  <2>2. ASSUME NEW g \in Fd \ Std
        PROVE  /\ dev[g] = NoDev => flags'[g] = NoFlags
               /\ Held(g) => /\ flags'[g].access = "RDWR"
                             /\ (flags'[g].isdev <=> dev[g] \in Devices)
    BY <1>4, <1>9 DEF FilesInv, PoolInv
  <2> QED
    BY <1>3, <1>5, <1>7, <1>12, <2>1, <2>2 DEF FilesInv, PoolInv
<1>14. CallInv'
  <2>1. ASSUME NEW u \in Threads, u # t
        PROVE  CallSound(call[u])'
    <3>1. CallSound(call[u]) /\ call'[u] = call[u]
      BY <1>7, <2>1, CallTypes
    <3>2. call[u].at \in {"scan", "driver"} => call[u].fd \in Fd \ Std /\ call[u].fd # f
      BY <1>4, <2>1, <3>1, UsesFacts DEF CallSound
    <3> QED
      BY <1>3, <1>5, <1>9, <3>1, <3>2 DEF CallSound
  <2>2. CallSound(call[t])'
    BY <1>4, <1>6, <1>7, <1>9 DEF CallSound
  <2> QED
    BY <2>1, <2>2 DEF CallInv
<1>15. LockInv'
  <2>1. \A g, h \in Fd : Locks(g, h)' => Locks(g, h)
    BY <1>3, <1>8, <1>9 DEF Locks
  <2>2. \A h \in Std : \A g \in Fd : ~ Locks(g, h)'
    BY <2>1, FdFacts DEF FilesInv, LockInv
  <2>3. ASSUME NEW h \in Fd \ Std, NEW g \in Fd, Locks(g, h)', dev[h] # NoDev
        PROVE  h \in missed \/ \E u \in Threads : Before(call'[u], g, h)
    <3>1. h \in missed \/ \E u \in Threads : Before(call[u], g, h)
      BY <2>1, <2>3 DEF FilesInv, LockInv
    <3>2. Before(call[t], g, h) => Before(c, g, h)
      BY <1>1, <1>6 DEF Before
    <3> QED
      BY <1>7, <3>1, <3>2
  <2> QED
    BY <1>3, <1>7, <2>2, <2>3 DEF LockInv
<1> QED
  BY <1>10, <1>11, <1>13, <1>14, <1>15 DEF FilesInv

LEMMA ClearDevKept ==
    ASSUME FilesInv, NEW t \in Threads, ClearDev(t)
    PROVE  FilesInv'
<1>1. PICK f : f = call[t].fd
  OBVIOUS
<1>2. /\ call[t].at = "clear" /\ UNCHANGED <<lists, flags, alt_max_fd, owner>>
      /\ dev' = [dev EXCEPT ![f] = IF f > 2 THEN NoDev ELSE @]
      /\ missed' = missed \ {f} /\ call' = [call EXCEPT ![t] = Idle]
  BY <1>1 DEF ClearDev
<1>3. /\ phase = "main" /\ f \in Fd
      /\ f \notin Std => /\ ~ Held(f) /\ flags[f] = NoFlags
                         /\ \A u \in Threads : Uses(call[u], f) => u = t
  BY <1>1, <1>2, CallTypes, MainFacts, UsesFacts DEF CallSound
<1>4. /\ phase' = "main" /\ Devices' = Devices /\ \A p : Find(p)' = Find(p)
      /\ alt_dev_list' = alt_dev_list /\ alt_fs_list' = alt_fs_list
  BY <1>2, <1>3, MainFacts DEF lists
<1>5. /\ call' \in [Threads -> FileCalls]
      /\ \A u \in Threads : call'[u] = IF u = t THEN Idle ELSE call[u]
      /\ \A u \in Threads : \A h : Uses(call[u], h)' = Uses(call'[u], h)
      /\ \A u \in Threads : \A h, g : Before(call[u], g, h)' = Before(call'[u], g, h)
  BY <1>2, IdleFacts, CallChanged
<1>6. /\ dev' \in [Fd -> AllNames \union {NoDev}]
      /\ \A g \in Fd : dev'[g] = IF g = f /\ f \notin Std THEN NoDev ELSE dev[g]
  BY <1>2, <1>3, FdFacts DEF FilesInv, FileTypes
<1>7. FileTypes' /\ BeforeMain'
  BY <1>2, <1>4, <1>5, <1>6 DEF FilesInv, FileTypes, BeforeMain
<1>8. \A g \in Std : dev'[g] = dev[g]
  BY <1>6, FdFacts
<1>9. StdInv'
  BY <1>2, <1>4, <1>8, FdFacts DEF FilesInv, StdInv, CanRead, CanWrite
<1>10. /\ \A g \in Fd : Held(g)' = Held(g)
       /\ \A u \in Threads : \A g : Uses(call'[u], g) <=> Uses(call[u], g) /\ u # t
       /\ \A g : Uses(call[t], g) => g = f
  BY <1>1, <1>2, <1>5, IdleFacts DEF Held, Uses
<1>11. f \notin Std => ~ flags[f].excl
  BY <1>3 DEF NoFlags
<1>12. PoolInv'
  <2>1. ASSUME NEW g \in Fd \ Std
        PROVE  /\ dev'[g] # NoDev => Held(g) \/ \E u \in Threads : Uses(call'[u], g)
               /\ dev'[g] # NoDev => g <= alt_max_fd
               /\ dev'[g] = NoDev => flags[g] = NoFlags
               /\ Held(g) => /\ dev'[g] # NoDev /\ flags[g].access = "RDWR"
                             /\ (flags[g].isdev <=> dev'[g] \in Devices)
    BY <1>3, <1>6, <1>10 DEF FilesInv, PoolInv
  <2>2. \A g \in Fd : flags[g].excl => dev'[g] \in Devices
    BY <1>6, <1>11 DEF FilesInv, PoolInv
  <2>3. ASSUME NEW u \in Threads, NEW v \in Threads, NEW g \in Fd \ Std,
               Uses(call'[u], g)
        PROVE  ~ Held(g) /\ dev'[g] # NoDev /\ (Uses(call'[v], g) => u = v)
    BY <1>3, <1>6, <1>10, <2>3, UsesFacts
  <2> QED
    BY <1>2, <1>4, <1>5, <1>10, <2>1, <2>2, <2>3 DEF FilesInv, PoolInv
<1>13. CallInv'
  <2>1. ASSUME NEW u \in Threads, u # t
        PROVE  CallSound(call[u])'
    <3>1. CallSound(call[u]) /\ call'[u] = call[u]
      BY <1>5, <2>1, CallTypes
    <3>2. call[u].at \in {"flags", "scan", "driver"} =>
            dev'[call[u].fd] = dev[call[u].fd]
      BY <1>3, <1>6, <2>1, UsesFacts
    <3> QED
      BY <1>2, <1>4, <1>8, <3>1, <3>2 DEF CallSound
  <2>2. CallSound(call[t])'
    BY <1>5, IdleFacts DEF CallSound
  <2> QED
    BY <2>1, <2>2 DEF CallInv
<1>14. LockInv'
  <2>1. ASSUME NEW g \in Fd, NEW h \in Fd, Locks(g, h)', h # f \/ h \in Std
        PROVE  Locks(g, h) /\ dev'[h] = dev[h]
    <3>1. g # h /\ dev'[g] = dev'[h] /\ flags[g].excl
      BY <1>2, <2>1 DEF Locks
    <3> QED
      BY <1>6, <1>8, <1>11, <2>1, <3>1 DEF Locks
  <2>2. \A h \in Std : \A g \in Fd : ~ Locks(g, h)'
    BY <2>1, FdFacts DEF FilesInv, LockInv
  <2>3. ASSUME NEW h \in Fd \ Std, NEW g \in Fd, Locks(g, h)', dev'[h] # NoDev
        PROVE  h \in missed' \/ \E u \in Threads : Before(call'[u], g, h)
    <3>1. h # f
      BY <1>6, <2>3
    <3>2. h \in missed \/ \E u \in Threads : Before(call[u], g, h)
      BY <2>1, <2>3, <3>1 DEF FilesInv, LockInv
    <3>3. ~ Before(call[t], g, h)
      BY <1>1, <3>1 DEF Before
    <3> QED
      BY <1>2, <1>5, <3>1, <3>2, <3>3
  <2> QED
    BY <1>5, <2>2, <2>3 DEF LockInv
<1> QED
  BY <1>7, <1>9, <1>12, <1>13, <1>14 DEF FilesInv

THEOREM FilesInvariant == FilesSpec => []FilesInv
<1>1. FilesInit => FilesInv
  BY FilesStart
<1>2. FilesInv /\ [FilesNext]_files => FilesInv'
  <2> SUFFICES ASSUME FilesInv, [FilesNext]_files
               PROVE  FilesInv'
    OBVIOUS
  <2>1. CASE UNCHANGED files
    <3>1. /\ phase' = phase /\ alt_dev_list' = alt_dev_list /\ alt_fs_list' = alt_fs_list
          /\ dev' = dev /\ flags' = flags /\ alt_max_fd' = alt_max_fd /\ call' = call
          /\ owner' = owner /\ missed' = missed /\ opened' = opened
      BY <2>1 DEF files
    <3>2. UNCHANGED lists
      BY <3>1 DEF lists
    <3>3. FileTypes' /\ BeforeMain' /\ StdInv' /\ PoolInv'
      BY <3>1, <3>2, MainFacts
         DEF FilesInv, FileTypes, BeforeMain, StdInv, PoolInv, Held, Uses, CanRead, CanWrite
    <3>4. CallInv'
      BY <3>1, <3>2, MainFacts DEF FilesInv, CallInv, CallSound
    <3>5. LockInv'
      BY <3>1 DEF FilesInv, LockInv, Locks, Before
    <3> QED
      BY <3>3, <3>4, <3>5 DEF FilesInv
  <2>2. CASE FilesNext
    BY <2>2, RegisterKept, RegisteredKept, IoRedirectKept, OpenKept, GetFdKept,
       SetFlagsKept, FileLockedKept, OpenFailsKept, OpenReturnsKept, CloseKept,
       ReleaseKept, ClearDevKept, LockKept, UnlockKept, FcntlKept, FcntlStoresKept
       DEF FilesNext
  <2> QED
    BY <2>1, <2>2
<1> QED
  BY <1>1, <1>2, PTL DEF FilesSpec

-----------------------------------------------------------------------------
\* What a descriptor was opened for.
OpenedInv ==
    /\ opened \in [Fd -> Paths \union {NoDev, DevNull, StdName}]
    /\ \A f \in Fd \ Std : Held(f) => dev[f] = Find(opened[f])
    /\ \A f \in Std : /\ opened[f] \in {DevNull, StdName} /\ dev[f] = opened[f]
                      /\ opened[f] = StdName => flags[f].isdev

LEMMA OpenedPrimed ==
    ASSUME opened' \in [Fd -> Paths \union {NoDev, DevNull, StdName}],
           \A f \in Fd \ Std : Held(f)' => dev'[f] = Find(opened[f])',
           \A f \in Std : /\ opened'[f] \in {DevNull, StdName} /\ dev'[f] = opened'[f]
                          /\ opened'[f] = StdName => flags'[f].isdev
    PROVE  OpenedInv'
BY DEF OpenedInv

\* A step after which nothing more is held, and what is held stays.
LEMMA OpenedStays ==
    ASSUME FilesInv, OpenedInv, UNCHANGED opened,
           \A g \in Fd \ Std : Held(g)' => /\ Held(g) /\ dev'[g] = dev[g]
                                           /\ Find(opened[g])' = Find(opened[g]),
           \A g \in Std : dev'[g] = dev[g] /\ flags'[g].isdev = flags[g].isdev
    PROVE  OpenedInv'
<1>1. \A f \in Fd \ Std : Held(f)' => dev'[f] = Find(opened[f])'
  BY DEF OpenedInv
<1>2. \A f \in Std : /\ opened'[f] \in {DevNull, StdName} /\ dev'[f] = opened'[f]
                     /\ opened'[f] = StdName => flags'[f].isdev
  BY DEF OpenedInv
<1> QED
  BY <1>1, <1>2 DEF OpenedInv

\* Before main() only a standard descriptor is opened.
LEMMA OpenedEarly ==
    ASSUME FilesInv, FilesInv', OpenedInv, Register \/ Registered \/ IoRedirect
    PROVE  OpenedInv'
<1>1. phase # "main" /\ owner' = owner
  BY DEF Register, Registered, IoRedirect, Redirect
<1>2. \A g \in Fd \ Std : ~ Held(g)'
  BY <1>1, EarlyFacts DEF Held
<1>3. CASE UNCHANGED <<dev, flags, opened>>
  BY <1>2, <1>3, OpenedStays
<1>4. ASSUME NEW f \in Std, NEW access, ~ IsAfs(StdName),
             dev' = [dev EXCEPT ![f] = StdName],
             flags' = [flags EXCEPT ![f] = [NoFlags EXCEPT !.isdev = TRUE,
                                                           !.access = access]],
             opened' = [opened EXCEPT ![f] = StdName]
      PROVE  OpenedInv'
  <2>1. PICK new : new = [NoFlags EXCEPT !.isdev = TRUE, !.access = access]
    OBVIOUS
  <2>2. new.isdev
    BY <2>1 DEF NoFlags
  <2>3. /\ \A g \in Fd : dev'[g] = IF g = f THEN StdName ELSE dev[g]
        /\ \A g \in Fd : flags'[g] = IF g = f THEN new ELSE flags[g]
    BY <1>4, <2>1, FdFacts DEF FilesInv, FileTypes
  <2>4. /\ opened' \in [Fd -> Paths \union {NoDev, DevNull, StdName}]
        /\ \A g \in Fd : opened'[g] = IF g = f THEN StdName ELSE opened[g]
    BY <1>4, FdFacts DEF OpenedInv
  <2>5. \A g \in Std : /\ opened'[g] \in {DevNull, StdName} /\ dev'[g] = opened'[g]
                       /\ opened'[g] = StdName => flags'[g].isdev
    BY <2>2, <2>3, <2>4, FdFacts DEF OpenedInv
  <2>6. \A g \in Fd \ Std : Held(g)' => dev'[g] = Find(opened[g])'
    BY <1>2
  <2> QED
    BY <2>4, <2>5, <2>6, OpenedPrimed
<1>5. CASE Register \/ Registered
  BY <1>3, <1>5 DEF Register, Registered
<1>6. ASSUME NEW f \in Std, NEW access, NEW after, Redirect(f, access, after)
      PROVE  OpenedInv'
  <2>1. \/ UNCHANGED <<dev, flags, opened>>
        \/ /\ ~ IsAfs(StdName)
           /\ dev' = [dev EXCEPT ![f] = StdName]
           /\ flags' = [flags EXCEPT ![f] = [NoFlags EXCEPT !.isdev = TRUE,
                                                            !.access = access]]
           /\ opened' = [opened EXCEPT ![f] = StdName]
    BY <1>6, Zenon DEF Redirect
  <2> QED
    BY <1>3, <1>4, <2>1, Zenon
<1>7. CASE IoRedirect
  BY <1>6, <1>7, FdFacts DEF IoRedirect
<1> QED
  BY <1>5, <1>7

\* In main(): what open() returns is the device that its path names, and
\* nobody else clears or takes a descriptor that is held.
LEMMA OpenedKept ==
    ASSUME FilesInv, FilesInv', OpenedInv, FilesNext
    PROVE  OpenedInv'
<1>1. CASE Register \/ Registered \/ IoRedirect
  BY <1>1, OpenedEarly
<1>2. ASSUME NEW t \in Threads, OpenReturns(t)
      PROVE  OpenedInv'
  <2>1. PICK f : f = call[t].fd
    OBVIOUS
  <2>2. PICK path : path = call[t].path
    OBVIOUS
  <2>3. /\ call[t].at = "driver" /\ UNCHANGED lists /\ dev' = dev /\ flags' = flags
        /\ owner' = [owner EXCEPT ![f] = t]
        /\ opened' = [opened EXCEPT ![f] = path]
    BY <1>2, <2>1, <2>2 DEF OpenReturns
  <2>4. f \in Fd \ Std /\ dev[f] = Find(path) /\ path \in Paths \union {NoDev}
    BY <2>1, <2>2, <2>3, CallTypes DEF CallSound, FileCalls, NoDev
  <2>5. \A p : Find(p)' = Find(p)
    BY <2>3, MainFacts
  <2>6. /\ opened' \in [Fd -> Paths \union {NoDev, DevNull, StdName}]
        /\ \A g \in Fd : opened'[g] = IF g = f THEN path ELSE opened[g]
    BY <2>3, <2>4 DEF OpenedInv
  <2>7. \A g \in Fd : g # f => (Held(g)' <=> Held(g))
    BY <2>3, <2>4 DEF Held, FilesInv, FileTypes
  <2>8. ASSUME NEW g \in Fd \ Std, Held(g)'
        PROVE  dev'[g] = Find(opened[g])'
    <3>1. CASE g = f
      <4>1. opened'[g] = path
        BY <2>6, <3>1
      <4>2. Find(opened[g])' = Find(path)'
        BY <4>1 DEF Find, IsAfs, FindDev, FindFile
      <4> QED
        BY <2>3, <2>4, <2>5, <3>1, <4>2
    <3>2. CASE g # f
      <4>1. opened'[g] = opened[g] /\ Held(g)
        BY <2>6, <2>7, <2>8, <3>2
      <4>2. PICK p : p = opened[g]
        OBVIOUS
      <4>3. Find(opened[g])' = Find(p)'
        BY <4>1, <4>2 DEF Find, IsAfs, FindDev, FindFile
      <4> QED
        BY <2>3, <2>5, <4>1, <4>2, <4>3 DEF OpenedInv
    <3> QED
      BY <3>1, <3>2
  <2>9. \A g \in Std : /\ opened'[g] \in {DevNull, StdName} /\ dev'[g] = opened'[g]
                       /\ opened'[g] = StdName => flags'[g].isdev
    BY <2>3, <2>4, <2>6, FdFacts DEF OpenedInv
  <2>10. \A g \in Fd \ Std : Held(g)' => dev'[g] = Find(opened[g])'
    BY <2>8
  <2> QED
    BY <2>6, <2>9, <2>10, OpenedPrimed
<1>3. ASSUME UNCHANGED lists,
             opened' \in [Fd -> Paths \union {NoDev, DevNull, StdName}],
             \A g \in Std : /\ opened'[g] = opened[g] /\ dev'[g] = dev[g]
                            /\ flags'[g].isdev = flags[g].isdev,
             \A g \in Fd \ Std : Held(g)' => /\ Held(g) /\ dev'[g] = dev[g]
                                             /\ opened'[g] = opened[g]
      PROVE  OpenedInv'
  <2>1. ASSUME NEW g \in Fd \ Std, Held(g)'
        PROVE  dev'[g] = Find(opened[g])'
    <3>1. PICK p : p = opened[g]
      OBVIOUS
    <3>2. Find(opened[g])' = Find(p)'
      <4>1. opened'[g] = p
        BY <1>3, <2>1, <3>1
      <4> QED
        BY <4>1 DEF Find, IsAfs, FindDev, FindFile
    <3>3. Find(p)' = Find(p)
      BY <1>3, MainFacts
    <3> QED
      BY <1>3, <2>1, <3>1, <3>2, <3>3 DEF OpenedInv
  <2>2. \A g \in Std : /\ opened'[g] \in {DevNull, StdName} /\ dev'[g] = opened'[g]
                       /\ opened'[g] = StdName => flags'[g].isdev
    BY <1>3 DEF OpenedInv
  <2> QED
    BY <1>3, <2>1, <2>2 DEF OpenedInv
<1>4. ASSUME UNCHANGED <<lists, opened, owner>>,
             \A g \in Std : dev'[g] = dev[g] /\ flags'[g].isdev = flags[g].isdev,
             \A g \in Fd \ Std : Held(g) => dev'[g] = dev[g]
      PROVE  OpenedInv'
  BY <1>3, <1>4 DEF Held, OpenedInv
<1>5. ASSUME NEW t \in Threads, Close(t)
      PROVE  OpenedInv'
  <2>1. PICK f \in Mine(t) \union Std :
           /\ owner' = [owner EXCEPT ![f] = IF f \in Std THEN "all" ELSE "none"]
           /\ opened' = [opened EXCEPT ![f] = IF f \in Std THEN @ ELSE NoDev]
    BY <1>5 DEF Close
  <2>2. f \in Fd /\ UNCHANGED <<lists, dev, flags>>
    BY <1>5, FdFacts DEF Close, Mine
  <2>3. /\ opened' \in [Fd -> Paths \union {NoDev, DevNull, StdName}]
        /\ \A g \in Fd : g # f \/ f \in Std => opened'[g] = opened[g]
    BY <2>1, <2>2 DEF OpenedInv
  <2>4. \A g \in Fd \ Std : Held(g)' => Held(g) /\ g # f
    BY <2>1, <2>2, FileTableAssumption DEF Held, FilesInv, FileTypes
  <2> QED
    BY <1>3, <2>2, <2>3, <2>4, FdFacts
<1>6. ASSUME NEW t \in Threads,
             Open(t) \/ FileLocked(t) \/ OpenFails(t) \/ Fcntl(t)
      PROVE  OpenedInv'
  <2>1. UNCHANGED <<lists, table>>
    BY <1>6, Zenon DEF Open, FileLocked, OpenFails, Fcntl
  <2>2. UNCHANGED <<lists, dev, flags, opened, owner>>
    BY <2>1 DEF table
  <2> QED
    BY <1>4, <2>2
<1>7. ASSUME NEW t \in Threads, GetFd(t)
      PROVE  OpenedInv'
  <2>1. UNCHANGED <<lists, flags, opened, owner>>
    BY <1>7 DEF GetFd
  <2>2. ASSUME NEW g \in Fd, Held(g) \/ g \in Std
        PROVE  dev'[g] = dev[g]
    <3>1. dev[g] # NoDev
      BY <2>2 DEF FilesInv, StdInv, PoolInv
    <3>2. Free # {} => g # Lowest
      BY <3>1, LowestIsFree
    <3> QED
      BY <1>7, <3>2 DEF GetFd, FilesInv, FileTypes
  <2> QED
    BY <1>4, <2>1, <2>2, FdFacts
<1>8. ASSUME NEW t \in Threads, ClearDev(t)
      PROVE  OpenedInv'
  <2>1. PICK f : f = call[t].fd
    OBVIOUS
  <2>2. /\ call[t].at = "clear" /\ UNCHANGED <<lists, flags, opened, owner>>
        /\ dev' = [dev EXCEPT ![f] = IF f > 2 THEN NoDev ELSE @]
    BY <1>8, <2>1 DEF ClearDev
  <2>3. f \in Fd /\ (f \notin Std => ~ Held(f))
    BY <2>1, <2>2, UsesFacts
  <2>4. \A g \in Fd : g # f \/ f \in Std => dev'[g] = dev[g]
    BY <2>2, <2>3, FdFacts DEF FilesInv, FileTypes
  <2> QED
    BY <1>4, <2>2, <2>3, <2>4, FdFacts
<1>9. ASSUME NEW t \in Threads, SetFlags(t) \/ Release(t)
      PROVE  OpenedInv'
  <2>1. PICK f : f = call[t].fd
    OBVIOUS
  <2>2. UNCHANGED <<lists, dev, opened, owner>>
    BY <1>9 DEF SetFlags, Release
  <2>3. \A g \in Std : flags'[g] = flags[g]
    <3>1. CASE SetFlags(t)
      <4>1. f \notin Std
        BY <2>1, <3>1, CallTypes DEF SetFlags, CallSound
      <4>2. PICK new : flags' = [flags EXCEPT ![f] = new]
        BY <2>1, <3>1 DEF SetFlags
      <4> QED
        BY <4>1, <4>2, FdFacts DEF FilesInv, FileTypes
    <3>2. CASE Release(t)
      <4>1. flags' = [flags EXCEPT ![f] = IF f > 2 THEN NoFlags ELSE @]
        BY <2>1, <3>2 DEF Release
      <4> QED
        BY <4>1, FdFacts DEF FilesInv, FileTypes
    <3> QED
      BY <1>9, <3>1, <3>2
  <2> QED
    BY <1>4, <2>2, <2>3
<1>10. ASSUME NEW t \in Threads, Lock(t) \/ Unlock(t) \/ FcntlStores(t)
       PROVE  OpenedInv'
  <2>1. UNCHANGED <<lists, dev, opened, owner>>
    BY <1>10 DEF Lock, Unlock, FcntlStores
  <2>2. PICK f, e : flags' = [flags EXCEPT ![f].excl = e]
    BY <1>10 DEF Lock, Unlock, FcntlStores
  <2>3. \A g \in Fd : flags'[g].isdev = flags[g].isdev
    BY <2>2 DEF FilesInv, FileTypes
  <2> QED
    BY <1>4, <2>1, <2>3, FdFacts
<1> QED
  BY <1>1, <1>2, <1>5, <1>6, <1>7, <1>8, <1>9, <1>10 DEF FilesNext

(* DescriptorsSound for any devices, paths, threads and size of the pool. *)
THEOREM DescriptorsAreSound == FilesSpec => []DescriptorsSound
<1>1. ASSUME FilesInv, OpenedInv
      PROVE  DescriptorsSound
  <2>1. ASSUME NEW f \in Fd \ Std
        PROVE  /\ dev[f] # NoDev <=> Held(f) \/ InUse(f)
               /\ Held(f) => /\ ~ InUse(f) /\ CanRead(f) /\ CanWrite(f)
                             /\ dev[f] = Find(opened[f])
                             /\ (flags[f].isdev <=> ~ IsAfs(opened[f]))
               /\ dev[f] = NoDev => flags[f] = NoFlags
    <3>1. InUse(f) <=> \E t \in Threads : Uses(call[t], f)
      BY DEF InUse, Uses
    <3>2. InUse(f) => ~ Held(f) /\ dev[f] # NoDev
      BY <1>1, <3>1 DEF FilesInv, PoolInv
    <3>3. ASSUME Held(f)
          PROVE  dev[f] = Find(opened[f]) /\ (flags[f].isdev <=> ~ IsAfs(opened[f]))
      <4>1. /\ dev[f] = Find(opened[f]) /\ dev[f] # NoDev
            /\ (flags[f].isdev <=> dev[f] \in Devices)
        BY <1>1, <3>3 DEF OpenedInv, FilesInv, PoolInv
      <4>2. Find(opened[f]) # NoDev => (~ IsAfs(opened[f]) <=> Find(opened[f]) \in Devices)
        BY <1>1, FindFacts DEF FilesInv
      <4> QED
        BY <4>1, <4>2
    <3> QED
      BY <1>1, <3>1, <3>2, <3>3 DEF FilesInv, PoolInv, CanRead, CanWrite
  <2>2. ASSUME NEW f \in Std
        PROVE  /\ opened[f] \in {DevNull, StdName} /\ dev[f] = opened[f]
               /\ opened[f] = StdName =>
                    /\ flags[f].isdev
                    /\ IF f = 0 THEN CanRead(f) ELSE CanWrite(f)
    <3>1. f = 0 \/ f \in {1, 2}
      BY DEF Std
    <3> QED
      BY <1>1, <3>1 DEF OpenedInv, FilesInv, StdInv
  <2> QED
    BY <2>1, <2>2 DEF DescriptorsSound
<1>2. FilesInit => OpenedInv
  <2> SUFFICES ASSUME FilesInit PROVE OpenedInv
    OBVIOUS
  <2>1. \A f \in Fd \ Std : ~ Held(f)
    BY FileTableAssumption DEF FilesInit, Held
  <2>2. DevNull # StdName
    BY FileTableAssumption
  <2> QED
    BY <2>1, <2>2, FdFacts DEF FilesInit, OpenedInv
<1>3. FilesInv /\ FilesInv' /\ OpenedInv /\ [FilesNext]_files => OpenedInv'
  <2> SUFFICES ASSUME FilesInv, FilesInv', OpenedInv, [FilesNext]_files
               PROVE  OpenedInv'
    OBVIOUS
  <2>1. CASE UNCHANGED files
    <3>1. UNCHANGED <<lists, dev, flags, owner, opened>>
      BY <2>1 DEF files, lists
    <3>2. \A g \in Fd \ Std : Held(g)' => Held(g)
      BY <3>1 DEF Held
    <3>3. \A g : Find(opened[g])' = Find(opened[g])
      BY <3>1 DEF Find, IsAfs, FindDev, FindFile, lists
    <3> QED
      BY <3>1, <3>2, <3>3, OpenedStays
  <2>2. CASE FilesNext
    BY <2>2, OpenedKept
  <2> QED
    BY <2>1, <2>2
<1> QED
  BY <1>1, <1>2, <1>3, FilesInvariant, PTL DEF FilesSpec

\* ExclusiveOtherwise for any devices, threads and size of the pool.
THEOREM LocksExclude == FilesSpec => []ExclusiveOtherwise
<1>1. ASSUME FilesInv
      PROVE  ExclusiveOtherwise
  <2>1. ASSUME NEW f \in Fd, NEW g \in Fd, Locks(g, f), Held(f) \/ f \in Std
        PROVE  f \in missed
    <3>1. f \notin Std /\ Held(f) /\ dev[f] # NoDev
      BY <1>1, <2>1 DEF FilesInv, LockInv, PoolInv
    <3>2. ASSUME NEW t \in Threads, Before(call[t], g, f)
          PROVE  FALSE
      <4>1. Uses(call[t], f)
        BY <3>2 DEF Before, Uses
      <4> QED
        BY <1>1, <3>1, <4>1 DEF FilesInv, PoolInv
    <3> QED
      BY <1>1, <2>1, <3>1, <3>2 DEF FilesInv, LockInv
  <2> QED
    BY <2>1 DEF ExclusiveOtherwise
<1> QED
  BY <1>1, FilesInvariant, PTL
=============================================================================
