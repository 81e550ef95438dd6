------------------------------ MODULE VgaScan ------------------------------
(***************************************************************************)
(* The scan of the screen, one step per edge of the pixel clock:           *)
(*                                                                         *)
(*   - vga_controller.vhd counts pixels and rows, and registers the        *)
(*     position one clock later;                                           *)
(*   - the process draw_pixel of niosdisplay.vhd fetches a word of the     *)
(*     frame buffer for every four pixels of a window on the screen;       *)
(*   - the second port of the frame buffer registers the address and       *)
(*     delivers the word one clock later;                                  *)
(*   - meanwhile the processor may write words through the first port.     *)
(*                                                                         *)
(* All signals take their new value after the edge: an unprimed name is    *)
(* what a process reads at the edge.                                       *)
(***************************************************************************)
EXTENDS Integers

CONSTANTS
    h_pixels, h_period,     \* visible and all pixels of a row (1280, 1688)
    v_pixels, v_period,     \* visible and all rows (1024, 1066)
    FIRST_ROW, FIRST_COLUMN,    \* of the window (256, 320)
    ROWS, COLUMNS,          \* size of the window (513 - 1 each)
    Word,           \* values of a word: the colours of bytes 0..3
    Blank,          \* the word of the memory's initial content
    WRITES_MAX      \* words the processor writes, at most

ASSUME ScanAssumption ==
    /\ h_pixels \in Nat /\ h_period \in Nat /\ h_pixels < h_period
    /\ v_pixels \in Nat /\ v_period \in Nat /\ v_pixels < v_period
    /\ FIRST_ROW \in Nat \ {0} /\ FIRST_COLUMN \in Nat \ {0}
    /\ ROWS \in Nat \ {0} /\ FIRST_ROW + ROWS <= v_pixels
    /\ COLUMNS \in Nat \ {0} /\ FIRST_COLUMN + COLUMNS <= h_pixels
    /\ COLUMNS % 4 = 0
    /\ Blank \in Word
    /\ WRITES_MAX \in Nat

WORDS == (ROWS * COLUMNS) \div 4

\* The memory goes on behind the picture; the scan reaches the word there.
Address == 0..WORDS

Pixel == (0..(ROWS - 1)) \X (0..(COLUMNS - 1))

VARIABLES
    h_count, v_count, column, row, disp_ena,    \* vga_controller
    count, frame_buf_addr, frame_buf_addr_vec,  \* draw_pixel
    screen,     \* the colour each pixel of the window was last given
    mem_data,   \* the word that the memory delivers
    memory,     \* the frame buffer
    writes      \* words written by the processor so far

controller == <<h_count, v_count, column, row, disp_ena>>
scan_vars == <<controller, count, frame_buf_addr, frame_buf_addr_vec, screen,
          mem_data, memory, writes>>

-----------------------------------------------------------------------------
ScanInit ==
    /\ h_count = 0 /\ v_count = 0
    /\ column = 0 /\ row = 0
    /\ disp_ena = FALSE
    /\ count = 0
    /\ frame_buf_addr = 0
    /\ frame_buf_addr_vec = 0
    /\ memory = [a \in Address |-> Blank]
    /\ mem_data = Blank
    /\ screen = [p \in Pixel |-> Blank[0]]
    /\ writes = 0

\* The counters of vga_controller, and the position they give.
Advance ==
    /\ h_count' = (h_count + 1) % h_period
    /\ v_count' = IF h_count' = 0 THEN (v_count + 1) % v_period ELSE v_count
    /\ column' = IF h_count' < h_pixels THEN h_count' ELSE column
    /\ row' = IF v_count' < v_pixels THEN v_count' ELSE row
    /\ disp_ena' = (h_count' < h_pixels /\ v_count' < v_pixels)

WindowNarrow ==                   \* slip: one column short
    /\ disp_ena
    /\ row >= FIRST_ROW /\ row < FIRST_ROW + ROWS
    /\ column >= FIRST_COLUMN /\ column < FIRST_COLUMN + COLUMNS - 1

InWindow ==
    /\ disp_ena
    /\ row >= FIRST_ROW /\ row < FIRST_ROW + ROWS
    /\ column >= FIRST_COLUMN /\ column < FIRST_COLUMN + COLUMNS

ResetPixel == row = FIRST_ROW /\ column = FIRST_COLUMN

\* What the case statement finds in count, which is a variable.
Lane == IF ResetPixel THEN 0 ELSE count

ShowUpsideDown ==                 \* slip: the lowest byte first
    screen' = [screen EXCEPT ![<<row - FIRST_ROW, column - FIRST_COLUMN>>] =
                                 mem_data[Lane]]

\* The highest byte first.
Show ==
    screen' = [screen EXCEPT ![<<row - FIRST_ROW, column - FIRST_COLUMN>>] =
                                 mem_data[3 - Lane]]

\* The address is started over and advanced; the memory is given the address
\* it had before.
Fetch ==
    CASE ResetPixel ->
             frame_buf_addr' = 0 /\ frame_buf_addr_vec' = frame_buf_addr
      [] ~ ResetPixel /\ InWindow /\ Lane = 2 ->
             /\ frame_buf_addr' = frame_buf_addr + 1
             /\ frame_buf_addr_vec' = frame_buf_addr
      [] OTHER -> UNCHANGED <<frame_buf_addr, frame_buf_addr_vec>>

\* A read while the other port writes the same word delivers the old one.
Read == mem_data' = memory[frame_buf_addr_vec]

CpuWrites(a, w) ==
    /\ writes < WRITES_MAX
    /\ writes' = writes + 1
    /\ memory' = [memory EXCEPT ![a] = w]

Memory ==
    /\ Read
    /\ \/ \E a \in Address, w \in Word : CpuWrites(a, w)
       \/ UNCHANGED <<memory, writes>>

DrawPixel ==
    /\ InWindow
    /\ Show
    /\ Fetch
    /\ count' = (Lane + 1) % 4
    /\ Advance /\ Memory

\* The boundary, and the time between rows and pictures.
DrawBoundary ==
    /\ ~ InWindow
    /\ UNCHANGED <<screen, count>>
    /\ Fetch
    /\ Advance /\ Memory

ScanNext == DrawPixel \/ DrawBoundary

ScanSpec == ScanInit /\ [][ScanNext]_scan_vars /\ WF_scan_vars(ScanNext)

-----------------------------------------------------------------------------
\* The place of the beam in the window, counted in pixels.
Beam == (row - FIRST_ROW) * COLUMNS + column - FIRST_COLUMN

(* The address, which is only ever counted up, and the position, which starts
   again at every row, stay in step from the first pixel of the window to the
   last: after each group of four pixels one more word has been asked for. *)
AddressFollowsBeam ==
    InWindow /\ ~ ResetPixel
        => count = Beam % 4 /\ frame_buf_addr = (Beam + 1) \div 4

\* Every group shows the word before its own, and the first group, of which
\* two pixels are sent before the address that starts the picture arrives,
\* shows the last word and the word behind it.
SourceOf(beam) ==
    IF beam \in {0, 1} THEN WORDS - 1
    ELSE IF beam \in {2, 3} THEN WORDS
    ELSE beam \div 4 - 1

SettledPicture ==
    [p \in Pixel |->
        LET beam == p[1] * COLUMNS + p[2]
        IN  memory[SourceOf(beam)][3 - (beam % 4)]]

(* When the processor stops writing, the screen comes to show what is in the
   frame buffer, moved to the right by one word, and stays so. *)
PictureSettles == <>[](screen = SettledPicture)
=============================================================================
