--------------------------- MODULE OutputsProofs ---------------------------
(***************************************************************************)
(* Proofs about what leaves the processor.  FrameGeometry: its numbers are *)
(* fixed; the proofs hold for every point and row without enumerating      *)
(* them, and show from which facts of the arithmetic the properties        *)
(* follow.  Console: for every depth of the FIFO and every length of the   *)
(* lines.  ScoreDisplay: for every byte.  VgaScan: for every size of the   *)
(* screen and of the window that the assumption allows, the sizes of the   *)
(* board among them.                                                       *)
(***************************************************************************)
EXTENDS FrameGeometry, Console, ScoreDisplay, VgaScan, TLAPS

-----------------------------------------------------------------------------
(* Squares. *)

LEMMA Sizes == resolution = 512 /\ square_size = 16 /\ square_diameter = 8
BY DEF resolution, square_size, square_diameter

\* The row being written, counted from the first.
GeometryInv ==
    /\ location \in point_t
    /\ i \in 0..16
    /\ start = 8192 * location.x + 16 * location.y - 8 + 512 * i

LEMMA PointFields ==
    ASSUME NEW p \in point_t
    PROVE  /\ p.x \in 0..32 /\ p.y \in 0..32
           /\ p # Origin => p.x \in 1..32 /\ p.y \in 1..32 /\ p \in Tile
           /\ p = Origin => p.x = 0 /\ p.y = 0
BY GeometryAssumption DEF point_t, Tile, Coord, Origin

LEMMA OffsetValue ==
    ASSUME NEW p \in point_t
    PROVE  Offset(p) = 8192 * p.x + 16 * p.y - 8
<1>1. 512 * p.x * 16 - 8 + p.y * 16 = 8192 * p.x + 16 * p.y - 8
    BY PointFields
<1>2. QED
    BY <1>1, Sizes DEF Offset

LEMMA GeometryInvariant == Spec => []GeometryInv
<1>1. Init => GeometryInv
    BY OffsetValue, PointFields DEF Init, GeometryInv
<1>2. GeometryInv /\ [Next]_vars => GeometryInv'
  <2> SUFFICES ASSUME GeometryInv, [Next]_vars
               PROVE  GeometryInv'
    OBVIOUS
  <2>1. CASE NextRow
    BY <2>1, Sizes, PointFields DEF GeometryInv, NextRow
  <2>2. ASSUME NEW p \in point_t, draw_square(p)
        PROVE  GeometryInv'
    BY <2>2, Sizes, PointFields, OffsetValue DEF GeometryInv, draw_square
  <2>3. CASE UNCHANGED vars
    BY <2>3 DEF GeometryInv, vars
  <2>4. QED
    BY <2>1, <2>2, <2>3 DEF Next
<1>3. QED
    BY <1>1, <1>2, PTL DEF Spec

\* Quotients and remainders of a number in mixed radix.
LEMMA Quotient8192 ==
    ASSUME NEW n \in Int, NEW q \in Int, NEW r \in Int,
           0 <= r, r < 8192, n = 8192 * q + r
    PROVE  n \div 8192 = q
BY SMT

LEMMA Remainder512 ==
    ASSUME NEW n \in Int, NEW q \in Int, NEW r \in Int,
           0 <= r, r < 512, n = 512 * q + r
    PROVE  n % 512 = r
BY SMT

LEMMA Quotient16 ==
    ASSUME NEW n \in Int, NEW q \in Int, NEW r \in Int,
           0 <= r, r < 16, n = 16 * q + r
    PROVE  n \div 16 = q
BY SMT

\* The arithmetic behind SquaresDisjoint: the offset of a byte, less half a
\* square, is a number in mixed radix with the digits x, row, y - 1 and byte.
LEMMA OwnerOfByte ==
    ASSUME NEW p \in point_t, NEW r \in 0..15, NEW j \in 0..15,
           NEW byte \in Int,
           byte = 8192 * p.x + 16 * p.y - 8 + 512 * r + j
    PROVE  IF p = Origin THEN Owner(byte) \notin Tile ELSE Owner(byte) = p
<1> DEFINE b == byte - 8
<1>1. Owner(byte) = [x |-> b \div 8192, y |-> (b % 512) \div 16 + 1]
    BY Sizes DEF Owner
<1>2. p.x \in 0..32 /\ p.y \in 0..32
    BY PointFields
<1>3. CASE p = Origin
  <2>1. b \in Int /\ b = 512 * r + j - 16
    BY <1>3, PointFields, SMT
  <2>2. CASE b < 0
    <3>1. b = 8192 * (-1) + (b + 8192) /\ 0 <= b + 8192 /\ b + 8192 < 8192
      BY <2>1, <2>2, SMT
    <3>2. b \div 8192 = -1
      BY <2>1, <3>1, Quotient8192, SMT
    <3>3. QED
      BY <1>1, <1>3, <3>2, GeometryAssumption, SMT DEF Tile, Coord
  <2>3. CASE b >= 0
    <3>1. b = 8192 * 0 + b /\ b < 8192
      BY <2>1, SMT
    <3>2. b \div 8192 = 0
      BY <2>1, <2>3, <3>1, Quotient8192, SMT
    <3>3. QED
      BY <1>1, <1>3, <3>2, GeometryAssumption, SMT DEF Tile, Coord
  <2>4. QED
    BY <2>1, <2>2, <2>3, SMT
<1>4. CASE p # Origin
  <2> DEFINE rest == 16 * (p.y - 1) + j
  <2>1. p.x \in 1..32 /\ p.y \in 1..32 /\ p \in Tile
    BY <1>4, PointFields
  <2>2. /\ rest \in Int /\ 0 <= rest /\ rest < 512
        /\ b = 8192 * p.x + (512 * r + rest)
    <3>1. p.x \in Int /\ p.y \in Int /\ 1 <= p.y /\ p.y <= 32
      BY <2>1, SMT
    <3>2. r \in Int /\ j \in Int /\ 0 <= j /\ j <= 15
      BY SMT
    <3>3. QED
      BY <3>1, <3>2, SMT
  <2>3. b \div 8192 = p.x
    <3>1. /\ 512 * r + rest \in Int /\ 0 <= 512 * r + rest
          /\ 512 * r + rest < 8192
      <4>1. r \in Int /\ 0 <= r /\ r <= 15
        BY SMT
      <4> HIDE DEF rest
      <4>2. QED
        BY <2>2, <4>1, SMT
    <3>2. p.x \in Int /\ b \in Int
      BY <2>1, SMT
    <3> HIDE DEF b, rest
    <3>3. QED
      BY <2>2, <3>1, <3>2, Quotient8192, SMT
  <2>4. b % 512 = rest
    <3>1. 16 * p.x + r \in Int /\ b \in Int
      BY <2>1, SMT
    <3>2. b = 512 * (16 * p.x + r) + rest
      <4>1. p.x \in Int /\ r \in Int /\ b \in Int
        BY <2>1, SMT
      <4> HIDE DEF b, rest
      <4>2. QED
        BY <2>2, <4>1, SMT
    <3> HIDE DEF b, rest
    <3>3. rest \in Int /\ 0 <= rest /\ rest < 512
      BY <2>2, SMT
    <3>4. QED
      BY <3>1, <3>2, <3>3, Remainder512
  <2>5. rest \div 16 = p.y - 1
    <3>1. p.y - 1 \in Int /\ rest = 16 * (p.y - 1) + j
      BY <2>1, SMT
    <3>2. rest \in Int
      BY <2>2, SMT
    <3> HIDE DEF rest
    <3>3. QED
      BY <3>1, <3>2, Quotient16, SMT
  <2> HIDE DEF b, rest
  <2>6. Owner(byte) = [x |-> p.x, y |-> p.y]
    <3>1. (b % 512) \div 16 + 1 = p.y
      BY <2>1, <2>4, <2>5, SMT
    <3>2. QED
      BY <1>1, <2>3, <3>1
  <2>7. p = [x |-> p.x, y |-> p.y]
    BY <2>1, SMT DEF Tile
  <2>8. QED
    BY <1>4, <2>6, <2>7
<1>5. QED
    BY <1>3, <1>4

(* No byte is written for two tiles: module Snake may keep a colour for each
   tile. *)
THEOREM OneTileEachByte == Spec => []SquaresDisjoint
<1>1. GeometryInv => SquaresDisjoint
  <2> SUFFICES ASSUME GeometryInv, NEW byte \in Written
               PROVE  IF location = Origin THEN Owner(byte) \notin Tile
                                           ELSE Owner(byte) = location
    BY DEF SquaresDisjoint
  <2>1. /\ i \in 0..15
        /\ byte \in start .. (start + 15)
    BY Sizes DEF Written, GeometryInv
  <2>2. start \in Int
    BY PointFields DEF GeometryInv
  <2>3. PICK j \in 0..15 : byte = start + j
    <3>1. byte - start \in 0..15 /\ byte = start + (byte - start)
      BY <2>1, <2>2
    <3>2. QED
      BY <3>1
  <2>4. byte = 8192 * location.x + 16 * location.y - 8 + 512 * i + j
    BY <2>1, <2>3, PointFields DEF GeometryInv
  <2>5. byte \in Int
    BY <2>1, <2>2
  <2>6. QED
    BY <2>1, <2>3, <2>4, <2>5, OwnerOfByte DEF GeometryInv
<1>2. QED
    BY <1>1, GeometryInvariant, PTL

(* Only the point (0, 0) is drawn in part outside the memory. *)
THEOREM DrawsInsideMemory == Spec => []InsideMemory
<1>1. GeometryInv => InsideMemory
  <2> SUFFICES ASSUME GeometryInv, NEW byte \in Written
               PROVE  \/ byte \in 0..(FRAME_BUFFER_SPAN - 1)
                      \/ /\ location = Origin /\ i = 0
                         /\ byte \in (- square_diameter)..(-1)
    BY DEF InsideMemory
  <2>1. /\ i \in 0..15
        /\ byte \in start .. (start + 15)
    BY Sizes DEF Written, GeometryInv
  <2>2. /\ location.x \in 0..32 /\ location.y \in 0..32
        /\ start = 8192 * location.x + 16 * location.y - 8 + 512 * i
    BY PointFields DEF GeometryInv
  <2>3. byte \in Int /\ byte < 282144
    BY <2>1, <2>2, SMT
  <2>4. FRAME_BUFFER_SPAN = 282144
    BY SMT DEF FRAME_BUFFER_SPAN
  <2>5. FRAME_BUFFER_SPAN \in Int /\ byte < FRAME_BUFFER_SPAN
    BY <2>3, <2>4, SMT
  <2>6. CASE location # Origin \/ i # 0
    <3>1. byte >= 0
      BY <2>1, <2>2, <2>6, PointFields, SMT DEF GeometryInv
    <3>2. QED
      BY <2>3, <2>5, <3>1, SMT
  <2>7. CASE location = Origin /\ i = 0
    <3>1. byte >= -8
      BY <2>1, <2>2, SMT
    <3>2. CASE byte >= 0
      BY <2>3, <2>5, <3>2, SMT
    <3>3. CASE byte < 0
      BY <2>3, <2>7, <3>1, <3>3, Sizes, SMT
    <3>4. QED
      BY <2>3, <3>2, <3>3, SMT
  <2>8. QED
    BY <2>6, <2>7
<1>2. QED
    BY <1>1, GeometryInvariant, PTL

(* The tiles that module Snake leaves out of its screen are behind the
   picture. *)
THEOREM LastColumnIsHidden == Spec => []LastColumnHidden
<1>1. GeometryInv => LastColumnHidden
  <2> SUFFICES ASSUME GeometryInv, i < square_size, location # Origin
               PROVE  start < resolution * resolution <=> location.x # SIZE
    BY DEF LastColumnHidden
  <2>1. /\ i \in 0..15
        /\ location.x \in 1..32 /\ location.y \in 1..32
        /\ start = 8192 * location.x + 16 * location.y - 8 + 512 * i
    BY Sizes, PointFields DEF GeometryInv
  <2>2. location.x = 32 => start >= 262144
    BY <2>1, SMT
  <2>3. location.x # 32 => start < 262144
    BY <2>1, SMT
  <2>4. resolution * resolution = 262144
    BY Sizes, SMT
  <2>5. start \in Int
    BY <2>1, SMT
  <2>6. QED
    BY <2>1, <2>2, <2>3, <2>4, <2>5, GeometryAssumption, SMT
<1>2. QED
    BY <1>1, GeometryInvariant, PTL

-----------------------------------------------------------------------------
(* The console. *)

\* Types, and the space that a successful poll leaves for the write.
LEMMA SpaceInvariant == ConsoleSpec => [](ConsoleTypeOK /\ SpaceStands)
<1> USE ConsoleAssumption DEF ConsoleTypeOK, SpaceStands, NoCharacterLost
<1>1. ConsoleInit => ConsoleTypeOK /\ SpaceStands
  <2> SUFFICES ASSUME ConsoleInit
               PROVE  ConsoleTypeOK /\ SpaceStands
    OBVIOUS
  <2>1. woverflow \in BOOLEAN /\ ~ woverflow
    BY ZenonT(20) DEF ConsoleInit
  <2>2. fifo \in 0..FIFO_DEPTH /\ games \in 0..GAMES_MAX /\ left \in Nat
    BY DEF ConsoleInit
  <2>3. /\ pc = "poll"
        /\ message \in {"start", "lost", "won"}
    BY DEF ConsoleInit
  <2>4. host \in BOOLEAN
    BY DEF ConsoleInit
  <2>5. QED
    BY <2>1, <2>2, <2>3, <2>4
<1>2. ConsoleTypeOK /\ SpaceStands /\ [ConsoleNext]_console_vars
        => (ConsoleTypeOK /\ SpaceStands)'
  <2> SUFFICES ASSUME ConsoleTypeOK, SpaceStands, [ConsoleNext]_console_vars
               PROVE  (ConsoleTypeOK /\ SpaceStands)'
    OBVIOUS
  <2>1. CASE Poll
    BY <2>1 DEF Poll
  <2>2. CASE Put
    BY <2>2 DEF Put
  <2>3. CASE CallSnakePlay
    BY <2>3 DEF CallSnakePlay
  <2>4. CASE GoRound
    BY <2>4 DEF GoRound
  <2>5. CASE SnakePlayReturns
    BY <2>5 DEF SnakePlayReturns
  <2>6. CASE HostReads
    BY <2>6 DEF HostReads
  <2>7. CASE UNCHANGED console_vars
    BY <2>7 DEF console_vars
  <2>8. QED
    BY <2>1, <2>2, <2>3, <2>4, <2>5, <2>6, <2>7 DEF ConsoleNext, Processor
<1>3. QED
    BY <1>1, <1>2, PTL DEF ConsoleSpec

(* The polling driver never loses a character. *)
THEOREM DriverLosesNothing == ConsoleSpec => []NoCharacterLost
<1>1. ConsoleTypeOK /\ SpaceStands => NoCharacterLost
    BY DEF SpaceStands
<1>2. QED
    BY <1>1, SpaceInvariant, PTL

(* If the FIFO cannot take the lines around two games, a console without a
   terminal plays at most two. *)
THEOREM AtMostTwoGames ==
    ASSUME NEW m \in Nat, m <= LOST_LEN, m <= WON_LEN,
           FIFO_DEPTH < 2 * START_LEN + 2 * m
    PROVE  ConsoleSpec => []TwoGamesWithoutHost
<1> USE ConsoleAssumption
<1>1. ConsoleInit => FifoKeepsAll(m)
    BY DEF ConsoleInit, FifoKeepsAll
<1>2. ConsoleTypeOK /\ SpaceStands /\ FifoKeepsAll(m) /\ [ConsoleNext]_console_vars
        => FifoKeepsAll(m)'
  <2> SUFFICES ASSUME ConsoleTypeOK, SpaceStands, FifoKeepsAll(m), [ConsoleNext]_console_vars,
                      ~ host'
               PROVE  FifoKeepsAll(m)'
    BY DEF FifoKeepsAll
  <2>0. ~ host
    BY DEF ConsoleNext, Processor, Poll, Put, CallSnakePlay, GoRound,
           SnakePlayReturns, HostReads, console_vars
  <2> USE <2>0 DEF ConsoleTypeOK, FifoKeepsAll
  <2>1. CASE Poll
    BY <2>1 DEF Poll
  <2>2. CASE Put
    BY <2>2 DEF Put, SpaceStands
  <2>3. CASE CallSnakePlay
    BY <2>3 DEF CallSnakePlay
  <2>4. CASE GoRound
    BY <2>4 DEF GoRound
  <2>5. CASE SnakePlayReturns
    BY <2>5 DEF SnakePlayReturns
  <2>6. CASE HostReads
    BY <2>6 DEF HostReads
  <2>7. CASE UNCHANGED console_vars
    BY <2>7 DEF console_vars
  <2>8. QED
    BY <2>1, <2>2, <2>3, <2>4, <2>5, <2>6, <2>7 DEF ConsoleNext, Processor
<1>3. FifoKeepsAll(m) => TwoGamesWithoutHost
    BY DEF FifoKeepsAll, TwoGamesWithoutHost
<1>4. QED
    BY <1>1, <1>2, <1>3, SpaceInvariant, PTL DEF ConsoleSpec

-----------------------------------------------------------------------------
(* The score. *)

ScoreInv == written \in 0..255 /\ data_out = written % 64

LEMMA TwoDigits ==
    ASSUME NEW n \in Int, NEW q \in Int, NEW r \in Int,
           0 <= r, r < 10, n = 10 * q + r
    PROVE  n \div 10 = q /\ n % 10 = r
BY SMT

(* Every score of a game that is not yet won, except 28, is shown as the
   number it is (display_score, seven_seg_encoder.vhd). *)
THEOREM ScoresShown == ScoreSpec => []SmallScoresShown
<1>1. ScoreInit => ScoreInv
    BY SMT DEF ScoreInit, ScoreInv
<1>2. ScoreInv /\ [ScoreNext]_score_vars => ScoreInv'
    BY SMT DEF ScoreInv, ScoreNext, display_score, score_vars
<1>3. ScoreInv => SmallScoresShown
  <2> SUFFICES ASSUME ScoreInv, written \in 0..33 \ {28}
               PROVE  Shown = written
    BY DEF SmallScoresShown
  <2>1. data_out = written /\ written \in 0..33
    BY SMT DEF ScoreInv
  <2>2. seven_seg = <<written \div 10, written % 10>>
    BY <2>1, SMT DEF seven_seg, encode
  <2>3. ((written \div 10) * 10) + (written % 10) = written
    <3> DEFINE q == IF written < 10 THEN 0 ELSE IF written < 20 THEN 1
                    ELSE IF written < 30 THEN 2 ELSE 3
               r == written - 10 * q
    <3>1. q \in Int /\ r \in Int /\ 0 <= r /\ r < 10 /\ written = 10 * q + r
          /\ written \in Int /\ q * 10 + r = written
      BY <2>1, SMT
    <3> HIDE DEF q, r
    <3>2. written \div 10 = q /\ written % 10 = r
      BY <3>1, TwoDigits
    <3>3. QED
      BY <3>1, <3>2
  <2>4. QED
    BY <2>2, <2>3 DEF Shown
<1>4. QED
    BY <1>1, <1>2, <1>3, PTL DEF ScoreSpec

-----------------------------------------------------------------------------
(* The scan: the counters and the position. *)

Clip(n, end) == IF n < end THEN n ELSE end - 1

\* What the counters say about the position.  The first clock after reset has
\* no enable yet, long before the first row of the window.
BeamInv ==
    /\ h_count \in 0..h_period - 1
    /\ v_count \in 0..v_period - 1
    /\ column = Clip(h_count, h_pixels)
    /\ row = Clip(v_count, v_pixels)
    /\ disp_ena \in BOOLEAN
    /\ disp_ena => h_count < h_pixels /\ v_count < v_pixels
    /\ v_count >= FIRST_ROW =>
         (h_count < h_pixels /\ v_count < v_pixels => disp_ena)

\* The row of the window that is scanned, and the pixels of it drawn so far.
InRows == v_count \in FIRST_ROW..FIRST_ROW + ROWS - 1
RowOfWindow == v_count - FIRST_ROW
PixelsOfRow == IF h_count < FIRST_COLUMN THEN 0
               ELSE IF h_count < FIRST_COLUMN + COLUMNS
               THEN h_count - FIRST_COLUMN ELSE COLUMNS
Drawn == RowOfWindow * COLUMNS + PixelsOfRow

\* While a row of the window is scanned the lane and the address are those of
\* the pixels drawn, from the first one, which starts them over.
AddressInv ==
    /\ count \in 0..3
    /\ frame_buf_addr \in Int
    /\ InRows /\ Drawn > 0 =>
         count = Drawn % 4 /\ frame_buf_addr = (Drawn + 1) \div 4

ScanInv == BeamInv /\ AddressInv

LEMMA SizeFacts ==
    /\ h_pixels \in Int /\ h_period \in Int /\ h_pixels < h_period
    /\ v_pixels \in Int /\ v_period \in Int /\ v_pixels < v_period
    /\ FIRST_ROW \in Int /\ 1 <= FIRST_ROW
    /\ FIRST_COLUMN \in Int /\ 1 <= FIRST_COLUMN
    /\ ROWS \in Int /\ 1 <= ROWS /\ FIRST_ROW + ROWS <= v_pixels
    /\ COLUMNS \in Int /\ 4 <= COLUMNS /\ FIRST_COLUMN + COLUMNS <= h_pixels
BY ScanAssumption, SMT

\* A counter modulo its period.
LEMMA NextCount ==
    ASSUME NEW n \in Int, NEW period \in Int, 0 <= n, n < period
    PROVE  (n + 1) % period = IF n + 1 < period THEN n + 1 ELSE 0
<1>1. CASE n + 1 < period
    BY <1>1, SMT
<1>2. CASE n + 1 = period
    BY <1>2, SMT
<1>3. QED
    BY <1>1, <1>2, SMT

LEMMA Counters ==
    ASSUME BeamInv, Advance
    PROVE  /\ h_count' = IF h_count + 1 < h_period THEN h_count + 1 ELSE 0
           /\ v_count' = IF h_count + 1 < h_period THEN v_count
                         ELSE IF v_count + 1 < v_period THEN v_count + 1 ELSE 0
<1>1. /\ h_count \in Int /\ 0 <= h_count /\ h_count < h_period
      /\ v_count \in Int /\ 0 <= v_count /\ v_count < v_period
    BY SizeFacts, SMT DEF BeamInv
<1>2. h_count' = IF h_count + 1 < h_period THEN h_count + 1 ELSE 0
    BY <1>1, SizeFacts, NextCount DEF Advance
<1>3. (v_count + 1) % v_period = IF v_count + 1 < v_period THEN v_count + 1 ELSE 0
    BY <1>1, SizeFacts, NextCount
<1>4. QED
    BY <1>1, <1>2, <1>3, SizeFacts, SMT DEF Advance

LEMMA BeamKept ==
    ASSUME BeamInv, Advance
    PROVE  BeamInv'
<1> USE SizeFacts
<1>1. h_count' \in 0..h_period - 1 /\ v_count' \in 0..v_period - 1
    BY Counters, SMT DEF BeamInv
<1>2. column' = Clip(h_count', h_pixels)
    BY Counters, SMT DEF BeamInv, Advance, Clip
<1>3. row' = Clip(v_count', v_pixels)
    BY Counters, SMT DEF BeamInv, Advance, Clip
<1>4. disp_ena' = (h_count' < h_pixels /\ v_count' < v_pixels)
    BY DEF Advance
<1>5. QED
    BY <1>1, <1>2, <1>3, <1>4 DEF BeamInv, Clip

\* Where in a row the window is, in terms of the counters.
LEMMA WindowByCounters ==
    ASSUME BeamInv
    PROVE  /\ InWindow => InRows /\ column = h_count /\ row = v_count
           /\ InRows => (InWindow <=> h_count \in FIRST_COLUMN..FIRST_COLUMN + COLUMNS - 1)
           /\ InRows => (ResetPixel <=> v_count = FIRST_ROW /\ h_count = FIRST_COLUMN)
<1> USE SizeFacts
<1>1. InWindow => InRows /\ column = h_count /\ row = v_count
    BY SMT DEF BeamInv, Clip, InWindow, InRows
<1>2. ASSUME InRows
      PROVE  InWindow <=> h_count \in FIRST_COLUMN..FIRST_COLUMN + COLUMNS - 1
    BY <1>2, SMT DEF BeamInv, Clip, InWindow, InRows
<1>3. ASSUME InRows
      PROVE  ResetPixel <=> v_count = FIRST_ROW /\ h_count = FIRST_COLUMN
    BY <1>3, SMT DEF BeamInv, Clip, ResetPixel, InRows
<1>4. QED
    BY <1>1, <1>2, <1>3

-----------------------------------------------------------------------------
(* The address. *)

LEMMA RowsOfPixels ==
    ASSUME NEW n \in Int, 0 <= n
    PROVE  /\ n * COLUMNS \in Int /\ 0 <= n * COLUMNS
           /\ (n + 1) * COLUMNS = n * COLUMNS + COLUMNS
           /\ n >= 1 => n * COLUMNS >= COLUMNS
           /\ n = 0 => n * COLUMNS = 0
BY SizeFacts, SMT

LEMMA DrawnFacts ==
    ASSUME BeamInv, InRows
    PROVE  /\ RowOfWindow \in Int /\ 0 <= RowOfWindow
           /\ PixelsOfRow \in 0..COLUMNS
           /\ Drawn \in Int /\ 0 <= Drawn
           /\ Drawn = 0 <=> v_count = FIRST_ROW /\ h_count <= FIRST_COLUMN
<1>1. RowOfWindow \in Int /\ 0 <= RowOfWindow
    BY SizeFacts, SMT DEF BeamInv, InRows, RowOfWindow
<1>2. PixelsOfRow \in 0..COLUMNS
    BY SizeFacts, SMT DEF BeamInv, PixelsOfRow
<1>3. PixelsOfRow = 0 <=> h_count <= FIRST_COLUMN
    BY SizeFacts, SMT DEF BeamInv, PixelsOfRow
<1>4. RowOfWindow = 0 <=> v_count = FIRST_ROW
    BY SizeFacts, SMT DEF BeamInv, InRows, RowOfWindow
<1> HIDE DEF RowOfWindow, PixelsOfRow
<1>5. Drawn \in Int /\ 0 <= Drawn
    BY <1>1, <1>2, RowsOfPixels, SizeFacts, SMT DEF Drawn
<1>6. Drawn = 0 <=> RowOfWindow = 0 /\ PixelsOfRow = 0
    BY <1>1, <1>2, RowsOfPixels, SizeFacts, SMT DEF Drawn
<1>7. QED
    BY <1>1, <1>2, <1>3, <1>4, <1>5, <1>6

\* A clock in the same row draws one pixel in the window and none beside it;
\* the first clock of the next row changes nothing either.
LEMMA DrawnByClock ==
    ASSUME BeamInv, Advance, InRows', ~ (v_count' = FIRST_ROW /\ h_count' = 0)
    PROVE  /\ InRows
           /\ Drawn' = IF h_count \in FIRST_COLUMN..FIRST_COLUMN + COLUMNS - 1
                       THEN Drawn + 1 ELSE Drawn
<1> USE SizeFacts
<1>1. CASE h_count + 1 < h_period
  <2>1. InRows /\ RowOfWindow' = RowOfWindow
    BY <1>1, Counters, SMT DEF InRows, RowOfWindow
  <2>2. PixelsOfRow' = IF h_count \in FIRST_COLUMN..FIRST_COLUMN + COLUMNS - 1
                       THEN PixelsOfRow + 1 ELSE PixelsOfRow
    BY <1>1, Counters, SMT DEF BeamInv, PixelsOfRow
  <2>3. PixelsOfRow \in Int /\ RowOfWindow * COLUMNS \in Int
    BY <2>1, DrawnFacts, RowsOfPixels, SMT
  <2> HIDE DEF RowOfWindow, PixelsOfRow
  <2>4. QED
    BY <2>1, <2>2, <2>3, SMT DEF Drawn
<1>2. CASE h_count + 1 = h_period
  <2>1. InRows /\ RowOfWindow' = RowOfWindow + 1
    <3>1. /\ v_count \in Int /\ 0 <= v_count
          /\ h_count' = 0
          /\ v_count' = IF v_count + 1 < v_period THEN v_count + 1 ELSE 0
      BY <1>2, Counters, SMT DEF BeamInv
    <3>2. v_count' = v_count + 1 /\ v_count' # FIRST_ROW
      BY <3>1, SMT DEF InRows
    <3>3. QED
      BY <3>1, <3>2, SMT DEF InRows, RowOfWindow
  <2>2. PixelsOfRow' = 0 /\ PixelsOfRow = COLUMNS
        /\ h_count \notin FIRST_COLUMN..FIRST_COLUMN + COLUMNS - 1
    BY <1>2, Counters, SMT DEF BeamInv, PixelsOfRow
  <2>3. RowOfWindow \in Int /\ 0 <= RowOfWindow
    BY <2>1, DrawnFacts
  <2> HIDE DEF RowOfWindow, PixelsOfRow
  <2>4. (RowOfWindow + 1) * COLUMNS = RowOfWindow * COLUMNS + COLUMNS
    BY <2>3, RowsOfPixels
  <2>5. Drawn' = (RowOfWindow + 1) * COLUMNS + 0
    BY <2>1, <2>2 DEF Drawn
  <2>6. RowOfWindow * COLUMNS \in Int
    BY <2>3, RowsOfPixels
  <2>7. QED
    BY <2>1, <2>2, <2>4, <2>5, <2>6, SMT DEF Drawn
<1>3. QED
    BY <1>1, <1>2, SMT DEF BeamInv

\* Counting pixels in fours.
LEMMA NextPixel ==
    ASSUME NEW n \in Int, 0 <= n
    PROVE  /\ ((n % 4) + 1) % 4 = (n + 1) % 4
           /\ n % 4 = 2 => (n + 2) \div 4 = (n + 1) \div 4 + 1
           /\ n % 4 # 2 => (n + 2) \div 4 = (n + 1) \div 4
           /\ n % 4 \in 0..3 /\ (n + 1) \div 4 \in Int
BY SMT

LEMMA AddressKept ==
    ASSUME ScanInv, ScanNext
    PROVE  AddressInv'
<1> USE SizeFacts
<1>1. BeamInv /\ Advance /\ Fetch /\ AddressInv
    BY DEF ScanInv, ScanNext, DrawPixel, DrawBoundary
<1>2. count' \in 0..3
    BY <1>1, SMT DEF AddressInv, ScanNext, DrawPixel, DrawBoundary, Lane
<1>3. frame_buf_addr' \in Int
    BY <1>1, SMT DEF AddressInv, Fetch
<1>4. ASSUME InRows', Drawn' > 0
      PROVE  count' = Drawn' % 4 /\ frame_buf_addr' = (Drawn' + 1) \div 4
  <2>1. ~ (v_count' = FIRST_ROW /\ h_count' = 0)
    <3> SUFFICES ASSUME v_count' = FIRST_ROW, h_count' = 0 PROVE FALSE
      OBVIOUS
    <3>1. RowOfWindow' = 0 /\ PixelsOfRow' = 0
      BY SMT DEF RowOfWindow, PixelsOfRow
    <3>2. 0 * COLUMNS + 0 = 0
      BY RowsOfPixels, SMT
    <3>3. QED
      BY <1>4, <3>1, <3>2, SMT DEF Drawn
  <2>2. InRows /\ Drawn' = IF h_count \in FIRST_COLUMN..FIRST_COLUMN + COLUMNS - 1
                           THEN Drawn + 1 ELSE Drawn
    BY <1>1, <1>4, <2>1, DrawnByClock
  <2>3. /\ Drawn \in Int /\ 0 <= Drawn
        /\ Drawn = 0 <=> v_count = FIRST_ROW /\ h_count <= FIRST_COLUMN
    BY <1>1, <2>2, DrawnFacts
  <2> HIDE DEF Drawn
  <2>4. CASE InWindow /\ ResetPixel
    <3>1. v_count = FIRST_ROW /\ h_count = FIRST_COLUMN
      BY <1>1, <2>2, <2>4, WindowByCounters
    <3>2. Drawn = 0 /\ Drawn' = 1
      BY <3>1, <2>2, <2>3, SMT
    <3>3. count' = 1 /\ frame_buf_addr' = 0
      BY <1>1, <2>4, SMT DEF ScanNext, DrawPixel, DrawBoundary, Lane, Fetch
    <3>4. QED
      BY <3>2, <3>3, SMT
  <2>5. CASE InWindow /\ ~ ResetPixel
    <3>1. h_count \in FIRST_COLUMN..FIRST_COLUMN + COLUMNS - 1
          /\ ~ (v_count = FIRST_ROW /\ h_count = FIRST_COLUMN)
      BY <1>1, <2>2, <2>5, WindowByCounters
    <3>2. Drawn' = Drawn + 1 /\ Drawn > 0
      BY <3>1, <2>2, <2>3, SMT
    <3>3. count = Drawn % 4 /\ frame_buf_addr = (Drawn + 1) \div 4
      BY <1>1, <2>2, <3>2 DEF AddressInv
    <3>4. /\ count' = (count + 1) % 4
          /\ frame_buf_addr' = IF count = 2 THEN frame_buf_addr + 1 ELSE frame_buf_addr
      BY <2>5, <1>1 DEF ScanNext, DrawPixel, DrawBoundary, Lane, Fetch
    <3>5. count' = (Drawn + 1) % 4
      BY <2>3, <3>3, <3>4, NextPixel
    <3>6. frame_buf_addr' = (Drawn + 2) \div 4
      BY <2>3, <3>3, <3>4, NextPixel
    <3>7. Drawn' + 1 = Drawn + 2
      BY <2>3, <3>2, SMT
    <3>8. QED
      BY <3>2, <3>5, <3>6, <3>7
  <2>6. CASE ~ InWindow
    <3>1. h_count \notin FIRST_COLUMN..FIRST_COLUMN + COLUMNS - 1
      BY <1>1, <2>2, <2>6, WindowByCounters
    <3>2. ~ ResetPixel
      BY <1>1, <2>2, <3>1, WindowByCounters, SMT
    <3>3. Drawn' = Drawn /\ Drawn > 0
      BY <1>4, <2>2, <3>1
    <3>4. count' = count /\ frame_buf_addr' = frame_buf_addr
      BY <2>6, <3>2, <1>1 DEF ScanNext, DrawPixel, DrawBoundary, Fetch
    <3>5. QED
      BY <1>1, <2>2, <3>3, <3>4 DEF AddressInv
  <2>7. QED
    BY <2>4, <2>5, <2>6
<1>5. QED
    BY <1>2, <1>3, <1>4 DEF AddressInv

LEMMA ScanInvariant == ScanSpec => []ScanInv
<1>1. ScanInit => ScanInv
  <2> SUFFICES ASSUME ScanInit PROVE ScanInv
    OBVIOUS
  <2>1. BeamInv
    <3>1. h_count = 0 /\ v_count = 0 /\ column = 0 /\ row = 0 /\ disp_ena = FALSE
      BY DEF ScanInit
    <3>2. 0 \in 0..h_period - 1 /\ 0 \in 0..v_period - 1
          /\ 0 < h_pixels /\ 0 < v_pixels /\ ~ (0 >= FIRST_ROW)
      BY SizeFacts, SMT
    <3>3. QED
      BY <3>1, <3>2 DEF BeamInv, Clip
  <2>2. ~ InRows
    BY SizeFacts, SMT DEF ScanInit, InRows
  <2>3. count \in 0..3 /\ frame_buf_addr \in Int
    BY SMT DEF ScanInit
  <2>4. QED
    BY <2>1, <2>2, <2>3 DEF ScanInv, AddressInv
<1>2. ScanInv /\ [ScanNext]_scan_vars => ScanInv'
  <2>1. ASSUME ScanInv, ScanNext PROVE ScanInv'
    BY <2>1, BeamKept, AddressKept DEF ScanInv, ScanNext, DrawPixel, DrawBoundary
  <2>2. ASSUME ScanInv, UNCHANGED scan_vars PROVE ScanInv'
    BY <2>2 DEF ScanInv, BeamInv, Clip, AddressInv, InRows, Drawn, RowOfWindow,
                PixelsOfRow, scan_vars, controller
  <2>3. QED
    BY <2>1, <2>2
<1>3. QED
    BY <1>1, <1>2, PTL DEF ScanSpec

(* For every screen and window: at each pixel the process draw_pixel has asked
   for as many words as the pixels before it take, though it only counts and
   never looks at the position again after the first pixel. *)
THEOREM AddressesFollow == ScanSpec => []AddressFollowsBeam
<1>1. ScanInv => AddressFollowsBeam
  <2> SUFFICES ASSUME ScanInv, InWindow, ~ ResetPixel
               PROVE  count = Beam % 4 /\ frame_buf_addr = (Beam + 1) \div 4
    BY DEF AddressFollowsBeam
  <2>1. BeamInv
    BY DEF ScanInv
  <2>2. InRows /\ column = h_count /\ row = v_count
    BY <2>1, WindowByCounters
  <2>3. /\ h_count \in FIRST_COLUMN..FIRST_COLUMN + COLUMNS - 1
        /\ ~ (v_count = FIRST_ROW /\ h_count = FIRST_COLUMN)
    BY <2>1, <2>2, WindowByCounters
  <2>4. Drawn > 0
    BY <2>1, <2>2, <2>3, DrawnFacts, SizeFacts, SMT
  <2>5. PixelsOfRow = h_count - FIRST_COLUMN
    BY <2>3, SizeFacts, SMT DEF PixelsOfRow
  <2>6. RowOfWindow * COLUMNS \in Int
    BY <2>1, <2>2, DrawnFacts, RowsOfPixels
  <2>7. Beam = Drawn
    BY <2>2, <2>3, <2>5, <2>6, SizeFacts, SMT DEF Beam, Drawn, RowOfWindow
  <2>8. QED
    BY <2>2, <2>4, <2>7 DEF ScanInv, AddressInv
<1>2. QED
    BY <1>1, ScanInvariant, PTL

-----------------------------------------------------------------------------
(* The words. *)

\* The screen goes on below the first row of the window.  Were that row the
\* last of the screen, its number would stand in row until the next picture,
\* and the address would be started over in between.
GoesOnBelow == FIRST_ROW + 1 < v_pixels

\* Some word has been asked for since the reset.
Asks == ~ (frame_buf_addr = 0 /\ frame_buf_addr_vec = 0)

\* The address that the memory is given is one behind the one that is counted,
\* except at the first pixels of a picture, where it is that behind the last
\* picture's last word.
WordInv ==
    /\ GoesOnBelow
    /\ InRows /\ Drawn >= 3 =>
         /\ frame_buf_addr = (Drawn + 1) \div 4
         /\ frame_buf_addr_vec = (Drawn + 1) \div 4 - 1
    /\ InRows /\ Drawn \in 1..2 => frame_buf_addr = 0 /\ frame_buf_addr_vec \in {0, WORDS}
    /\ ~ InRows \/ Drawn <= 0 =>
         \/ frame_buf_addr = 0 /\ frame_buf_addr_vec = 0
         \/ frame_buf_addr = WORDS /\ frame_buf_addr_vec = WORDS - 1

\* A step starts the address over, draws another pixel, or draws none.
StartsOver ==
    /\ InWindow /\ InRows /\ InRows'
    /\ Drawn = 0 /\ Drawn' = 1
    /\ frame_buf_addr' = 0 /\ frame_buf_addr_vec' = frame_buf_addr

Draws ==
    /\ InWindow /\ InRows /\ InRows'
    /\ Drawn >= 1 /\ Drawn < 4 * WORDS /\ Drawn' = Drawn + 1
    /\ frame_buf_addr = (Drawn + 1) \div 4
    /\ IF Drawn % 4 = 2
       THEN frame_buf_addr' = frame_buf_addr + 1 /\ frame_buf_addr_vec' = frame_buf_addr
       ELSE frame_buf_addr' = frame_buf_addr /\ frame_buf_addr_vec' = frame_buf_addr_vec

Waits ==
    /\ ~ InWindow
    /\ frame_buf_addr' = frame_buf_addr /\ frame_buf_addr_vec' = frame_buf_addr_vec
    /\ InRows => IF InRows' THEN Drawn' = Drawn ELSE Drawn = 4 * WORDS
    /\ ~ InRows /\ InRows' => Drawn' = 0

\* The picture has whole words.
LEMMA WholeWords ==
    /\ WORDS \in Int /\ WORDS >= 1
    /\ ROWS * COLUMNS = 4 * WORDS
    /\ \A n \in Int : n >= 0 => n * COLUMNS \in Int /\ (n * COLUMNS) % 4 = 0
<1>1. PICK fours \in Int : COLUMNS = 4 * fours /\ fours >= 1
  <2>1. COLUMNS \in Int /\ COLUMNS % 4 = 0 /\ COLUMNS >= 4
    BY ScanAssumption, SizeFacts
  <2>2. COLUMNS \div 4 \in Int /\ COLUMNS = 4 * (COLUMNS \div 4) /\ COLUMNS \div 4 >= 1
    BY <2>1, SMT
  <2> QED
    BY <2>2
<1>2. ASSUME NEW n \in Int, n >= 0
      PROVE  \E k \in Int : n * COLUMNS = 4 * k /\ (n >= 1 => k >= 1)
  <2>1. n * fours \in Int /\ n * (4 * fours) = 4 * (n * fours)
    BY <1>1, SMT
  <2>2. n >= 1 => n * fours >= 1
    BY <1>1, SMT
  <2> QED
    BY <1>1, <2>1, <2>2
<1>3. PICK words \in Int : ROWS * COLUMNS = 4 * words /\ words >= 1
  BY <1>2, SizeFacts
<1>4. (4 * words) \div 4 = words
  BY <1>3, SMT
<1>5. WORDS = words
  BY <1>3, <1>4 DEF WORDS
<1>6. ASSUME NEW n \in Int, n >= 0
      PROVE  n * COLUMNS \in Int /\ (n * COLUMNS) % 4 = 0
  <2>1. PICK k \in Int : n * COLUMNS = 4 * k
    BY <1>2, <1>6
  <2>2. 4 * k \in Int /\ (4 * k) % 4 = 0
    BY <2>1, SMT
  <2> QED
    BY <2>1, <2>2
<1> QED
  BY <1>3, <1>5, <1>6

\* In the rows of the window no more pixels are drawn than the picture has, and
\* all of them when the beam leaves the last row.
LEMMA DrawnBounds ==
    ASSUME BeamInv, InRows
    PROVE  /\ h_count \in FIRST_COLUMN..FIRST_COLUMN + COLUMNS - 1 => Drawn < 4 * WORDS
           /\ Advance /\ ~ InRows' => Drawn = 4 * WORDS
           /\ Drawn <= 4 * WORDS
<1> USE SizeFacts
<1>1. /\ RowOfWindow \in Int /\ 0 <= RowOfWindow /\ RowOfWindow <= ROWS - 1
      /\ PixelsOfRow \in 0..COLUMNS
  <2>1. RowOfWindow <= ROWS - 1
    BY SMT DEF BeamInv, InRows, RowOfWindow
  <2> QED
    BY <2>1, DrawnFacts
<1>2. PICK n \in Int, p \in 0..COLUMNS :
        n = RowOfWindow /\ p = PixelsOfRow /\ 0 <= n /\ n <= ROWS - 1
  BY <1>1
<1>3. PICK full \in Int, all \in Int :
        /\ full = n * COLUMNS /\ all = (ROWS - 1) * COLUMNS
        /\ n < ROWS - 1 => full + COLUMNS <= all
        /\ n = ROWS - 1 => full = all
        /\ all + COLUMNS = 4 * WORDS
  <2>1. n * COLUMNS \in Int /\ (ROWS - 1) * COLUMNS \in Int
    BY <1>2, RowsOfPixels, SMT
  <2>2. n < ROWS - 1 => n * COLUMNS + COLUMNS <= (ROWS - 1) * COLUMNS
    <3>1. ASSUME n + 1 <= ROWS - 1
          PROVE  (n + 1) * COLUMNS <= (ROWS - 1) * COLUMNS
      BY <1>2, <3>1, SMT
    <3>2. (n + 1) * COLUMNS = n * COLUMNS + COLUMNS
      BY <1>2, RowsOfPixels
    <3> QED
      BY <1>2, <2>1, <3>1, <3>2
  <2>3. (ROWS - 1) * COLUMNS + COLUMNS = ROWS * COLUMNS
    BY SMT
  <2> QED
    BY <2>1, <2>2, <2>3, WholeWords
<1>4. Drawn = full + p
  BY <1>2, <1>3 DEF Drawn
<1>5. ASSUME h_count \in FIRST_COLUMN..FIRST_COLUMN + COLUMNS - 1
      PROVE  Drawn < 4 * WORDS
  <2>1. p < COLUMNS
    BY <1>2, <1>5, SMT DEF PixelsOfRow
  <2> QED
    BY <1>2, <1>3, <1>4, <2>1, WholeWords
<1>6. ASSUME Advance, ~ InRows'
      PROVE  Drawn = 4 * WORDS
  <2>1. h_count + 1 = h_period /\ v_count = FIRST_ROW + ROWS - 1
    BY <1>6, Counters, SMT DEF BeamInv, InRows
  <2>2. p = COLUMNS
    <3>1. ~ (h_count < FIRST_COLUMN) /\ ~ (h_count < FIRST_COLUMN + COLUMNS)
      BY <2>1, SMT DEF BeamInv
    <3> QED
      BY <1>2, <3>1 DEF PixelsOfRow
  <2>3. n = ROWS - 1
    BY <1>2, <2>1, SMT DEF RowOfWindow
  <2> QED
    BY <1>2, <1>3, <1>4, <2>2, <2>3, WholeWords
<1>7. Drawn <= 4 * WORDS
  BY <1>2, <1>3, <1>4, WholeWords
<1> QED
  BY <1>5, <1>6, <1>7

LEMMA StepsOfScan ==
    ASSUME ScanInv, ScanNext, GoesOnBelow
    PROVE  StartsOver \/ Draws \/ Waits
<1> USE SizeFacts
<1>1. BeamInv /\ Advance /\ Fetch /\ AddressInv
  BY DEF ScanInv, ScanNext, DrawPixel, DrawBoundary
<1>2. ResetPixel => InRows /\ InWindow
  <2> SUFFICES ASSUME ResetPixel
               PROVE  InRows /\ InWindow
    OBVIOUS
  <2>1. v_count = FIRST_ROW /\ h_count = FIRST_COLUMN
    BY <1>1, SMT DEF ResetPixel, BeamInv, Clip, GoesOnBelow
  <2>2. InRows
    BY <2>1, SMT DEF InRows
  <2>3. h_count \in FIRST_COLUMN..FIRST_COLUMN + COLUMNS - 1
    BY <2>1
  <2> QED
    BY <1>1, <2>2, <2>3, WindowByCounters
<1>3. ASSUME InWindow
      PROVE  /\ InRows /\ InRows' /\ Drawn' = Drawn + 1 /\ Drawn < 4 * WORDS
             /\ Drawn \in Int /\ 0 <= Drawn
             /\ Drawn = 0 <=> ResetPixel
  <2>1. InRows /\ h_count \in FIRST_COLUMN..FIRST_COLUMN + COLUMNS - 1
    BY <1>1, <1>3, WindowByCounters
  <2>2. h_count' = h_count + 1 /\ v_count' = v_count
    BY <1>1, <2>1, Counters, SMT DEF BeamInv
  <2>3. InRows' /\ ~ (v_count' = FIRST_ROW /\ h_count' = 0)
    BY <1>1, <2>1, <2>2, SMT DEF InRows, BeamInv
  <2>4. Drawn' = Drawn + 1
    BY <1>1, <2>1, <2>3, DrawnByClock
  <2>5. Drawn < 4 * WORDS
    BY <1>1, <2>1, DrawnBounds
  <2>6. /\ Drawn \in Int /\ 0 <= Drawn
        /\ Drawn = 0 <=> v_count = FIRST_ROW /\ h_count <= FIRST_COLUMN
    BY <1>1, <2>1, DrawnFacts
  <2>7. ResetPixel <=> v_count = FIRST_ROW /\ h_count = FIRST_COLUMN
    BY <1>1, <2>1, WindowByCounters
  <2>8. Drawn = 0 <=> ResetPixel
    BY <1>1, <2>1, <2>6, <2>7, SMT DEF BeamInv
  <2> QED
    BY <2>1, <2>3, <2>4, <2>5, <2>6, <2>8
<1>4. CASE InWindow /\ ResetPixel
  <2>1. frame_buf_addr' = 0 /\ frame_buf_addr_vec' = frame_buf_addr
    BY <1>1, <1>4 DEF Fetch
  <2>2. InRows /\ InRows' /\ Drawn = 0 /\ Drawn' = 1
    <3>1. InRows /\ InRows' /\ Drawn = 0 /\ Drawn' = Drawn + 1
      BY <1>3, <1>4
    <3> QED
      BY <3>1
  <2> QED
    BY <1>4, <2>1, <2>2 DEF StartsOver
<1>5. CASE InWindow /\ ~ ResetPixel
  <2>1. /\ InRows /\ InRows' /\ Drawn' = Drawn + 1 /\ Drawn < 4 * WORDS
        /\ Drawn \in Int /\ Drawn >= 1
    <3>1. Drawn # 0 /\ Drawn \in Int /\ 0 <= Drawn
      BY <1>3, <1>5
    <3>2. Drawn >= 1
      <4>1. PICK d \in Int : d = Drawn /\ d # 0 /\ 0 <= d
        BY <3>1
      <4> QED
        BY <4>1
    <3> QED
      BY <1>3, <1>5, <3>1, <3>2
  <2>2. count = Drawn % 4 /\ frame_buf_addr = (Drawn + 1) \div 4
    <3>1. Drawn > 0
      <4>1. PICK d \in Int : d = Drawn /\ d >= 1
        BY <2>1
      <4> QED
        BY <4>1
    <3> QED
      BY <1>1, <2>1, <3>1 DEF AddressInv
  <2>3. Lane = count
    BY <1>5 DEF Lane
  <2>4. CASE Drawn % 4 = 2
    <3>1. frame_buf_addr' = frame_buf_addr + 1 /\ frame_buf_addr_vec' = frame_buf_addr
      BY <1>1, <1>5, <2>2, <2>3, <2>4 DEF Fetch
    <3> QED
      BY <1>5, <2>1, <2>2, <2>4, <3>1 DEF Draws
  <2>5. CASE Drawn % 4 # 2
    <3>1. frame_buf_addr' = frame_buf_addr /\ frame_buf_addr_vec' = frame_buf_addr_vec
      BY <1>1, <1>5, <2>2, <2>3, <2>5 DEF Fetch
    <3> QED
      BY <1>5, <2>1, <2>2, <2>5, <3>1 DEF Draws
  <2> QED
    BY <2>4, <2>5
<1>6. CASE ~ InWindow
  <2>1. frame_buf_addr' = frame_buf_addr /\ frame_buf_addr_vec' = frame_buf_addr_vec
    BY <1>1, <1>2, <1>6 DEF Fetch
  <2>2. ASSUME InRows, InRows'
        PROVE  Drawn' = Drawn
    <3>1. h_count \notin FIRST_COLUMN..FIRST_COLUMN + COLUMNS - 1
      BY <1>1, <1>6, <2>2, WindowByCounters
    <3>2. ~ (v_count' = FIRST_ROW /\ h_count' = 0)
      BY <1>1, <2>2, Counters, SMT DEF BeamInv, InRows
    <3> QED
      BY <1>1, <2>2, <3>1, <3>2, DrawnByClock
  <2>3. ASSUME InRows, ~ InRows'
        PROVE  Drawn = 4 * WORDS
    BY <1>1, <2>3, DrawnBounds
  <2>4. ASSUME ~ InRows, InRows'
        PROVE  Drawn' = 0
    <3>1. v_count' = FIRST_ROW /\ h_count' = 0
      BY <1>1, <2>4, DrawnByClock
    <3>2. RowOfWindow' = 0 /\ PixelsOfRow' = 0
      BY <3>1, SMT DEF RowOfWindow, PixelsOfRow
    <3>3. 0 * COLUMNS + 0 = 0
      BY RowsOfPixels, SMT
    <3> QED
      BY <3>2, <3>3 DEF Drawn
  <2> QED
    BY <1>6, <2>1, <2>2, <2>3, <2>4 DEF Waits
<1> QED
  BY <1>4, <1>5, <1>6

LEMMA WordKept ==
    ASSUME WordInv, BeamInv, BeamInv', StartsOver \/ Draws \/ Waits
    PROVE  WordInv'
<1>1. PICK w \in Int : w = WORDS /\ w >= 1
  BY WholeWords
<1>2. GoesOnBelow'
  BY DEF WordInv, GoesOnBelow
<1>3. CASE StartsOver
  <2>1. /\ InRows' /\ Drawn = 0 /\ Drawn' = 1
        /\ frame_buf_addr' = 0 /\ frame_buf_addr_vec' = frame_buf_addr
    BY <1>3 DEF StartsOver
  <2>2. frame_buf_addr \in {0, w}
    BY <1>1, <2>1 DEF WordInv
  <2> QED
    BY <1>1, <1>2, <2>1, <2>2 DEF WordInv
<1>4. CASE Draws
  <2>1. InRows /\ InRows'
    BY <1>4 DEF Draws
  <2>2. PICK d \in Int : d = Drawn /\ d >= 1 /\ d < 4 * w
    BY <1>1, <1>4, <2>1, DrawnFacts DEF Draws
  <2>3. PICK a \in Int : a = frame_buf_addr /\ a = (d + 1) \div 4
    <3>1. (d + 1) \div 4 \in Int
      BY <2>2, SMT
    <3> QED
      BY <1>4, <2>2, <3>1 DEF Draws
  <2>4. Drawn' = d + 1
    BY <1>4, <2>2 DEF Draws
  <2>5. CASE d % 4 = 2
    <3>1. frame_buf_addr' = a + 1 /\ frame_buf_addr_vec' = a
      BY <1>4, <2>2, <2>3, <2>5 DEF Draws
    <3>2. ((d + 1) + 1) \div 4 = a + 1 /\ d + 1 >= 3
      BY <2>2, <2>3, <2>5, SMT
    <3>3. (a + 1) - 1 = a
      OBVIOUS
    <3> QED
      BY <1>2, <2>1, <2>4, <3>1, <3>2, <3>3 DEF WordInv
  <2>6. CASE d % 4 # 2
    <3>1. frame_buf_addr' = a /\ frame_buf_addr_vec' = frame_buf_addr_vec
      BY <1>4, <2>2, <2>3, <2>6 DEF Draws
    <3>2. ((d + 1) + 1) \div 4 = a /\ d # 2
      BY <2>2, <2>3, <2>6, SMT
    <3>3. CASE d = 1
      <4>1. a = 0 /\ frame_buf_addr_vec \in {0, WORDS}
        BY <2>1, <2>2, <2>3, <3>3 DEF WordInv
      <4> QED
        BY <1>2, <2>1, <2>4, <3>1, <3>3, <4>1 DEF WordInv
    <3>4. CASE d >= 3
      <4>1. frame_buf_addr_vec = a - 1
        BY <2>1, <2>2, <2>3, <3>4 DEF WordInv
      <4> QED
        BY <1>2, <2>1, <2>4, <3>1, <3>2, <3>4, <4>1 DEF WordInv
    <3> QED
      BY <2>2, <3>2, <3>3, <3>4
  <2> QED
    BY <2>5, <2>6
<1>5. CASE Waits
  <2>1. frame_buf_addr' = frame_buf_addr /\ frame_buf_addr_vec' = frame_buf_addr_vec
    BY <1>5 DEF Waits
  <2>2. CASE InRows /\ InRows'
    <3>1. Drawn' = Drawn
      BY <1>5, <2>2 DEF Waits
    <3> QED
      BY <1>2, <2>1, <2>2, <3>1 DEF WordInv
  <2>3. CASE InRows /\ ~ InRows'
    <3>1. PICK d \in Int : d = Drawn /\ d = 4 * w
      BY <1>1, <1>5, <2>3 DEF Waits
    <3>2. d >= 3 /\ (d + 1) \div 4 = w
      BY <1>1, <3>1, SMT
    <3>3. frame_buf_addr = w /\ frame_buf_addr_vec = w - 1
      BY <2>3, <3>1, <3>2 DEF WordInv
    <3> QED
      BY <1>1, <1>2, <2>1, <2>3, <3>3 DEF WordInv
  <2>4. CASE ~ InRows /\ InRows'
    <3>1. Drawn' = 0
      BY <1>5, <2>4 DEF Waits
    <3> QED
      BY <1>2, <2>1, <2>4, <3>1 DEF WordInv
  <2>5. CASE ~ InRows /\ ~ InRows'
    BY <1>2, <2>1, <2>5 DEF WordInv
  <2> QED
    BY <2>2, <2>3, <2>4, <2>5
<1> QED
  BY <1>3, <1>4, <1>5

LEMMA WordInvariant == GoesOnBelow /\ ScanSpec => [](ScanInv /\ WordInv)
<1>1. GoesOnBelow /\ ScanInit => WordInv
  <2> SUFFICES ASSUME GoesOnBelow, ScanInit
               PROVE  WordInv
    OBVIOUS
  <2>1. ~ InRows /\ frame_buf_addr = 0 /\ frame_buf_addr_vec = 0
    BY SizeFacts, SMT DEF ScanInit, InRows
  <2> QED
    BY <2>1 DEF WordInv
<1>2. ScanInv /\ ScanInv' /\ WordInv /\ [ScanNext]_scan_vars => WordInv'
  <2>1. ASSUME ScanInv, ScanInv', WordInv, ScanNext
        PROVE  WordInv'
    <3>1. StartsOver \/ Draws \/ Waits
      BY <2>1, StepsOfScan DEF WordInv
    <3> QED
      BY <2>1, <3>1, WordKept DEF ScanInv
  <2>2. ASSUME WordInv, UNCHANGED scan_vars
        PROVE  WordInv'
    BY <2>2 DEF WordInv, GoesOnBelow, InRows, Drawn, RowOfWindow, PixelsOfRow,
                scan_vars, controller
  <2> QED
    BY <2>1, <2>2
<1> QED
  BY <1>1, <1>2, ScanInvariant, PTL DEF ScanSpec

(* draw_pixel never asks the frame buffer for a word outside of the picture but
   the one that follows it (niosdisplay.vhd), for every screen and window. *)
THEOREM AsksInsideMemory == GoesOnBelow /\ ScanSpec => [](frame_buf_addr_vec \in Address)
<1>1. ScanInv /\ WordInv => frame_buf_addr_vec \in Address
  <2> SUFFICES ASSUME ScanInv, WordInv
               PROVE  frame_buf_addr_vec \in Address
    OBVIOUS
  <2>1. PICK w \in Int : w = WORDS /\ w >= 1
    BY WholeWords
  <2>2. 0 \in 0..w /\ w \in 0..w /\ w - 1 \in 0..w
    BY <2>1
  <2>3. CASE ~ InRows \/ Drawn <= 0 \/ Drawn \in 1..2
    BY <2>1, <2>2, <2>3 DEF WordInv, Address
  <2>4. CASE InRows /\ ~ (Drawn <= 0) /\ Drawn \notin 1..2
    <3>1. PICK d \in Int : d = Drawn /\ d >= 3 /\ d <= 4 * w
      <4>1. Drawn \in Int
        BY <2>4, DrawnFacts DEF ScanInv
      <4>2. Drawn <= 4 * WORDS
        BY <2>4, DrawnBounds DEF ScanInv
      <4> QED
        BY <2>1, <2>4, <4>1, <4>2
    <3>2. frame_buf_addr_vec = (d + 1) \div 4 - 1
      BY <2>4, <3>1 DEF WordInv
    <3>3. (d + 1) \div 4 - 1 \in 0..w
      BY <2>1, <3>1, SMT
    <3> QED
      BY <2>1, <3>2, <3>3 DEF Address
  <2> QED
    BY <2>3, <2>4
<1> QED
  BY <1>1, WordInvariant, PTL

\* In the window the beam is at the pixel to be drawn next.
LEMMA BeamIsDrawn ==
    ASSUME BeamInv, InWindow
    PROVE  /\ InRows /\ Beam = Drawn /\ Drawn \in Int /\ 0 <= Drawn /\ Drawn < 4 * WORDS
           /\ row - FIRST_ROW \in 0..ROWS - 1 /\ column - FIRST_COLUMN \in 0..COLUMNS - 1
           /\ Drawn % 4 = (column - FIRST_COLUMN) % 4
           /\ Drawn = 0 <=> ResetPixel
<1>1. InRows /\ column = h_count /\ row = v_count
  BY WindowByCounters
<1>2. h_count \in FIRST_COLUMN..FIRST_COLUMN + COLUMNS - 1
  BY <1>1, WindowByCounters
<1>3. /\ RowOfWindow \in Int /\ 0 <= RowOfWindow /\ Drawn \in Int /\ 0 <= Drawn
      /\ Drawn = 0 <=> v_count = FIRST_ROW /\ h_count <= FIRST_COLUMN
  BY <1>1, DrawnFacts
<1>4. PixelsOfRow = h_count - FIRST_COLUMN
  BY <1>2, SizeFacts, SMT DEF PixelsOfRow
<1>5. PICK full \in Int : full = RowOfWindow * COLUMNS /\ full % 4 = 0
  BY <1>3, WholeWords
<1>6. PICK c \in Int : c = column - FIRST_COLUMN /\ c \in 0..COLUMNS - 1
  BY <1>1, <1>2, SizeFacts
<1>7. Drawn = full + c
  BY <1>1, <1>4, <1>5, <1>6 DEF Drawn
<1>8. Beam = full + c
  BY <1>1, <1>5, <1>6, SizeFacts DEF Beam, RowOfWindow
<1>9. (full + c) % 4 = c % 4
  BY <1>5, <1>6, SMT
<1>10. Drawn < 4 * WORDS
  BY <1>1, <1>2, DrawnBounds
<1>11. row - FIRST_ROW \in 0..ROWS - 1
  BY <1>1, SizeFacts, SMT DEF InRows, BeamInv
<1>12. ResetPixel <=> v_count = FIRST_ROW /\ h_count = FIRST_COLUMN
  BY <1>1, WindowByCounters
<1>13. Drawn = 0 <=> ResetPixel
  BY <1>2, <1>3, <1>12, SizeFacts
<1> QED
  BY <1>1, <1>3, <1>6, <1>7, <1>8, <1>9, <1>10, <1>11, <1>13

\* The same, as a fact of a state, for the next one too.
BeamFacts ==
    InWindow => /\ InRows /\ column = h_count
                /\ h_count \in FIRST_COLUMN..FIRST_COLUMN + COLUMNS - 1
                /\ Beam = Drawn /\ Drawn \in Int /\ 0 <= Drawn /\ Drawn < 4 * WORDS
                /\ Drawn % 4 = (column - FIRST_COLUMN) % 4

LEMMA FactsOfBeam == ASSUME BeamInv PROVE BeamFacts
<1> SUFFICES ASSUME InWindow
             PROVE  /\ InRows /\ column = h_count
                    /\ h_count \in FIRST_COLUMN..FIRST_COLUMN + COLUMNS - 1
                    /\ Beam = Drawn /\ Drawn \in Int /\ 0 <= Drawn /\ Drawn < 4 * WORDS
                    /\ Drawn % 4 = (column - FIRST_COLUMN) % 4
  BY DEF BeamFacts
<1>1. InRows /\ column = h_count
  BY WindowByCounters
<1>2. h_count \in FIRST_COLUMN..FIRST_COLUMN + COLUMNS - 1
  BY <1>1, WindowByCounters
<1> QED
  BY <1>1, <1>2, BeamIsDrawn

LEMMA FirstOfRow ==
    ASSUME BeamInv, BeamFacts', Advance, InRows, ~ InWindow, InWindow'
    PROVE  column' = FIRST_COLUMN
<1> USE SizeFacts
<1>1. h_count \notin FIRST_COLUMN..FIRST_COLUMN + COLUMNS - 1
  BY WindowByCounters
<1>2. InRows' /\ column' = h_count'
  BY DEF BeamFacts
<1>3. h_count' \in FIRST_COLUMN..FIRST_COLUMN + COLUMNS - 1
  BY DEF BeamFacts
<1>4. h_count' = h_count + 1 \/ h_count' = 0
  BY Counters
<1> QED
  BY <1>1, <1>2, <1>3, <1>4, SMT DEF BeamInv


\* What the memory delivers for the pixel that is drawn next.
WordInTime == InWindow' /\ Asks => mem_data' = memory[SourceOf(Beam')]

LEMMA WholeQuarters ==
    ASSUME NEW n \in Int, 0 <= n, n % 4 = 0, n # 0
    PROVE  n >= 4 /\ (n + 1) \div 4 = n \div 4
<1>1. PICK q \in Int : n = 4 * q
  BY SMT
<1>2. n >= 4
  BY <1>1
<1>3. (n + 1) \div 4 = n \div 4
  BY <1>1, SMT
<1> QED
  BY <1>2, <1>3

LEMMA WordsComeInTime ==
    ASSUME ScanInv, BeamFacts', WordInv, ScanNext
    PROVE  WordInTime
<1> SUFFICES ASSUME InWindow', Asks
             PROVE  mem_data' = memory[SourceOf(Beam')]
  BY DEF WordInTime
<1>1. PICK w \in Int : w = WORDS /\ w >= 1
  BY WholeWords
<1>2. StartsOver \/ Draws \/ Waits
  BY StepsOfScan DEF WordInv
<1>3. PICK n \in Int : n = Beam' /\ n = Drawn' /\ 0 <= n /\ n < 4 * w /\ InRows'
  BY <1>1 DEF BeamFacts
<1>4. mem_data' = memory[frame_buf_addr_vec]
  BY DEF ScanNext, DrawPixel, DrawBoundary, Memory, Read
<1>5. frame_buf_addr_vec = SourceOf(n)
  <2>1. CASE StartsOver
    <3>1. InRows /\ Drawn = 0 /\ n = 1
      BY <1>3, <2>1 DEF StartsOver
    <3>2. frame_buf_addr_vec = WORDS - 1
      BY <3>1 DEF WordInv, Asks
    <3> QED
      BY <3>1, <3>2 DEF SourceOf
  <2>2. CASE Draws
    <3>1. PICK d \in Int : d = Drawn /\ d >= 1 /\ n = d + 1 /\ InRows
      <4>1. InRows
        BY <2>2 DEF Draws
      <4>2. Drawn \in Int
        BY <4>1, DrawnFacts DEF ScanInv
      <4> QED
        BY <1>3, <2>2, <4>1, <4>2 DEF Draws
    <3>2. CASE d <= 2
      <4>1. frame_buf_addr = 0 /\ frame_buf_addr_vec = WORDS
        BY <3>1, <3>2 DEF WordInv, Asks
      <4>2. n \in {2, 3}
        BY <3>1, <3>2
      <4> QED
        BY <4>1, <4>2 DEF SourceOf
    <3>3. CASE d >= 3
      <4>1. frame_buf_addr_vec = (d + 1) \div 4 - 1
        BY <3>1, <3>3 DEF WordInv
      <4>2. n >= 4
        BY <3>1, <3>3
      <4> QED
        BY <3>1, <4>1, <4>2 DEF SourceOf
    <3> QED
      BY <3>1, <3>2, <3>3
  <2>3. CASE Waits
    <3>1. CASE InRows
      <4>1. PICK d \in Int : d = Drawn /\ n = d
        <5>1. Drawn' = Drawn
          BY <1>3, <2>3, <3>1 DEF Waits
        <5> QED
          BY <1>3, <5>1
      \* Nothing is drawn between two rows: the pixel is the first of its row.
      <4>2. n % 4 = 0
        <5>1. BeamInv /\ Advance /\ ~ InWindow
          BY <2>3 DEF ScanInv, ScanNext, DrawPixel, DrawBoundary, Waits
        <5>2. column' = FIRST_COLUMN
          BY <3>1, <5>1, FirstOfRow
        <5>3. Drawn' % 4 = (column' - FIRST_COLUMN) % 4
          BY DEF BeamFacts
        <5>4. (FIRST_COLUMN - FIRST_COLUMN) % 4 = 0
          BY SizeFacts, SMT
        <5> QED
          BY <1>3, <5>2, <5>3, <5>4
      <4>3. CASE n = 0
        <5>1. frame_buf_addr_vec = WORDS - 1
          BY <3>1, <4>1, <4>3 DEF WordInv, Asks
        <5> QED
          BY <4>3, <5>1 DEF SourceOf
      <4>4. CASE n # 0
        <5>1. n >= 4 /\ (n + 1) \div 4 = n \div 4
          BY <1>3, <4>2, <4>4, WholeQuarters
        <5>2. frame_buf_addr_vec = (n + 1) \div 4 - 1
          BY <3>1, <4>1, <5>1 DEF WordInv
        <5> QED
          BY <5>1, <5>2 DEF SourceOf
      <4> QED
        BY <4>3, <4>4
    <3>2. CASE ~ InRows
      <4>1. n = 0
        BY <1>3, <2>3, <3>2 DEF Waits
      <4>2. frame_buf_addr_vec = WORDS - 1
        BY <3>2 DEF WordInv, Asks
      <4> QED
        BY <4>1, <4>2 DEF SourceOf
    <3> QED
      BY <3>1, <3>2
  <2> QED
    BY <1>2, <2>1, <2>2, <2>3
<1> QED
  BY <1>3, <1>4, <1>5

(* For every screen and window: for each pixel the memory delivers, one clock
   ahead, the word that the pixel belongs to, moved right by one word, and for
   the first four pixels the last word and the one behind it; only before the
   first picture no word has been asked for (niosdisplay.vhd, draw_pixel). *)
THEOREM WordsInTime == GoesOnBelow /\ ScanSpec => [][WordInTime]_scan_vars
<1>1. ScanInv /\ WordInv /\ BeamFacts' /\ ScanNext => WordInTime
  BY WordsComeInTime
<1>2. ScanInv => BeamFacts
  BY FactsOfBeam DEF ScanInv
<1> QED
  BY <1>1, <1>2, WordInvariant, PTL DEF ScanSpec

-----------------------------------------------------------------------------
(* The picture. *)

\* The pixel under the beam gets the byte of the word that the picture has for
\* it there.
LEMMA PixelShown ==
    ASSUME ScanInv, InWindow, mem_data = memory[SourceOf(Beam)]
    PROVE  /\ <<row - FIRST_ROW, column - FIRST_COLUMN>> \in Pixel
           /\ mem_data[3 - Lane]
                = SettledPicture[<<row - FIRST_ROW, column - FIRST_COLUMN>>]
<1>1. /\ row - FIRST_ROW \in 0..ROWS - 1 /\ column - FIRST_COLUMN \in 0..COLUMNS - 1
      /\ InRows /\ Beam = Drawn /\ Drawn \in Int /\ 0 <= Drawn
      /\ Drawn = 0 <=> ResetPixel
  BY BeamIsDrawn DEF ScanInv
<1>2. PICK y \in 0..ROWS - 1, x \in 0..COLUMNS - 1 :
        y = row - FIRST_ROW /\ x = column - FIRST_COLUMN
  BY <1>1
<1>3. PICK pixel \in Pixel : pixel = <<y, x>> /\ pixel[1] = y /\ pixel[2] = x
  <2>1. <<y, x>> \in Pixel
    BY DEF Pixel
  <2>2. <<y, x>>[1] = y /\ <<y, x>>[2] = x
    OBVIOUS
  <2> QED
    BY <2>1, <2>2
<1>4. PICK n \in Int : n = Beam /\ 0 <= n
  BY <1>1
<1>5. y * COLUMNS + x = n
  <2>1. PICK full \in Int : full = y * COLUMNS
    BY <1>2, RowsOfPixels
  <2>2. column \in Int
    BY SizeFacts, SMT DEF ScanInv, BeamInv, Clip
  <2>3. Beam = full + column - FIRST_COLUMN
    BY <1>2, <2>1 DEF Beam
  <2> QED
    BY <1>2, <1>4, <2>1, <2>2, <2>3, SizeFacts
<1>6. Lane = n % 4
  <2>1. CASE ResetPixel
    <3>1. n = 0
      BY <1>1, <1>4, <2>1
    <3>2. 0 % 4 = 0
      BY SMT
    <3> QED
      BY <2>1, <3>1, <3>2 DEF Lane
  <2>2. CASE ~ ResetPixel
    <3>1. n > 0
      BY <1>1, <1>4, <2>2
    <3>2. count = n % 4
      BY <1>1, <1>4, <3>1 DEF ScanInv, AddressInv
    <3> QED
      BY <2>2, <3>2 DEF Lane
  <2> QED
    BY <2>1, <2>2
<1>7. SettledPicture[pixel] = memory[SourceOf(n)][3 - (n % 4)]
  <2>1. SettledPicture[pixel] = memory[SourceOf(pixel[1] * COLUMNS + pixel[2])]
                                      [3 - ((pixel[1] * COLUMNS + pixel[2]) % 4)]
    BY DEF SettledPicture
  <2> QED
    BY <1>3, <1>5, <2>1
<1> QED
  BY <1>2, <1>3, <1>4, <1>6, <1>7

\* What the screen shows is the picture, and the word for the pixel under the
\* beam is there.
Settled ==
    /\ Asks
    /\ screen = SettledPicture
    /\ InWindow => mem_data = memory[SourceOf(Beam)]

(* The second half of PictureSettles, for every screen and window: a screen
   that shows what is in the frame buffer, moved right by one word, stays so as
   long as the processor does not write; the scan never spoils it. *)
THEOREM PictureStays ==
    GoesOnBelow /\ ScanSpec => [][Settled /\ memory' = memory => Settled']_scan_vars
<1>1. ASSUME ScanInv, BeamFacts', WordInv, ScanNext, Settled, memory' = memory
      PROVE  Settled'
  <2>1. StartsOver \/ Draws \/ Waits
    BY <1>1, StepsOfScan DEF WordInv
  <2>2. Asks'
    <3>1. CASE StartsOver
      <4>1. frame_buf_addr = WORDS
        BY <1>1, <3>1 DEF StartsOver, WordInv, Settled, Asks
      <4>2. WORDS # 0
        BY WholeWords
      <4> QED
        BY <3>1, <4>1, <4>2 DEF StartsOver, Asks
    <3>2. CASE Draws
      <4>1. PICK d \in Int : /\ d = Drawn /\ d >= 1
                             /\ frame_buf_addr = (d + 1) \div 4
                             /\ InRows
        BY <1>1, <3>2, DrawnFacts DEF ScanInv, Draws
      <4>2. CASE d % 4 = 2
        <5>1. frame_buf_addr' = (d + 1) \div 4 + 1
          BY <3>2, <4>1, <4>2 DEF Draws
        <5>2. (d + 1) \div 4 + 1 # 0
          BY <4>1, SMT
        <5> QED
          BY <5>1, <5>2 DEF Asks
      <4>3. CASE d % 4 # 2
        BY <1>1, <3>2, <4>1, <4>3 DEF Draws, Settled, Asks
      <4> QED
        BY <4>2, <4>3
    <3>3. CASE Waits
      BY <1>1, <3>3 DEF Waits, Settled, Asks
    <3> QED
      BY <2>1, <3>1, <3>2, <3>3
  <2>3. SettledPicture' = SettledPicture
    BY <1>1 DEF SettledPicture
  <2>4. screen' = SettledPicture
    <3>1. CASE InWindow
      <4>1. PICK pixel : pixel = <<row - FIRST_ROW, column - FIRST_COLUMN>>
        OBVIOUS
      <4>2. screen' = [screen EXCEPT ![pixel] = mem_data[3 - Lane]]
        BY <1>1, <3>1, <4>1 DEF ScanNext, DrawPixel, DrawBoundary, Show
      <4>3. pixel \in Pixel /\ mem_data[3 - Lane] = SettledPicture[pixel]
        BY <1>1, <3>1, <4>1, PixelShown DEF Settled
      <4>4. PICK picture : picture = SettledPicture /\ screen = picture
                           /\ picture = [q \in Pixel |-> picture[q]]
        BY <1>1 DEF Settled, SettledPicture
      <4>5. [picture EXCEPT ![pixel] = picture[pixel]] = picture
        BY <4>3, <4>4
      <4> QED
        BY <4>2, <4>3, <4>4, <4>5
    <3>2. CASE ~ InWindow
      BY <1>1, <3>2 DEF ScanNext, DrawPixel, DrawBoundary, Settled
    <3> QED
      BY <3>1, <3>2
  <2>5. InWindow' => mem_data' = memory'[SourceOf(Beam')]
    BY <1>1, WordsComeInTime DEF WordInTime, Settled
  <2>6. SourceOf(Beam)' = SourceOf(Beam')
    BY DEF SourceOf, WORDS
  <2> QED
    BY <2>2, <2>3, <2>4, <2>5, <2>6 DEF Settled
<1>2. ScanInv /\ WordInv /\ BeamFacts' /\ ScanNext
        => (Settled /\ memory' = memory => Settled')
  BY <1>1
<1>3. ScanInv => BeamFacts
  BY FactsOfBeam DEF ScanInv
<1> QED
  BY <1>2, <1>3, WordInvariant, PTL DEF ScanSpec
============================================================================
