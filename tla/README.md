# TLA+ specifications of the FPGA snake

The repository is a game of snake on a DE1-SoC board: a C program on a Nios II soft
processor with the vendor's hardware abstraction layer (HAL), a few memory-mapped
peripherals, and VHDL that scans a frame buffer to a VGA screen. This directory holds TLA+
modules of its parts, TLC configurations that check them on small instances, and proofs for
TLAPS. Line numbers refer to files of the repository: `snake.c`, `main.c`, `types.h` are in
`NiosDisplay_App/`, `alt_*` in `NiosDisplay_Bsp/HAL/`, the JTAG UART's driver in
`NiosDisplay_Bsp/drivers/`.

## 1. The system

| Part | State it keeps | Operations |
|---|---|---|
| Snake driver (`snake.c`, `types.*`) | direction, length, history of head positions (33 points), food; the picture in the frame buffer | `snake_play`: one pass of its loop reads a direction, filters it, moves, tests for collision and food, redraws, writes the score, waits |
| Drawing of squares (`snake.c:47`) | addresses inside one call | `draw_square`: 16 rows of 16 bytes |
| Buttons (`system_btn_pio.v`, `main.c:33`) | two samples of the keys, `edge_capture`, `irq_mask`; variable `direction` | clock edge of the port, register accesses, interrupt routine |
| Main loop and console (`main.c:56`, `..._jtag_uart_write.c`, small driver) | the line being printed, the UART's FIFO | print, play, print; poll for space, write a character |
| Score display (`system_score_pio.v`, `seven_seg_encoder.vhd`) | six-bit register | write; encode |
| Screen scan (`vga_controller.vhd`, `niosdisplay.vhd`) | position of the beam, address and word being shown | one step per pixel clock |
| HAL: interrupts (`alt_irq_handler.c`, `alt_legacy_irq.h`) | table of routines, enable bit and mask of the processor, two variables the mask is computed from | register, dispatch, enable and disable, let others interrupt |
| HAL: clock and alarms (`alt_tick.c`, `alt_alarm_start.c`, `alt_llist.h`) | count of ticks, doubly linked list of alarms | tick, start, stop, callback |
| HAL: JTAG UART, interrupt-driven (`altera_avalon_jtag_uart_*.c`) | two rings, the enabled requests, seconds of silence, timeout | write, read, close, ioctl, interrupt routine, alarm |
| HAL: descriptors (`alt_open.c`, `alt_get_fd.c`, `alt_fd_lock.c`, ...) | table of descriptors, its high-water mark, lists of devices and file systems | open, close, lock, unlock, set flags, redirect |
| HAL: time (`alt_busy_sleep.c`, `alt_gettod.c`, `alt_settod.c`) | time of the reset | usleep, gettimeofday, settimeofday |
| HAL: profiler and heap (`alt_gmon.c`, `alt_mcount.S`, `alt_sbrk.c`) | records of calls, slab, histogram, end of the heap | mcount, start of the sampler, sbrk |
| HAL: caches, loading (`alt_*cache_flush*.c`, `alt_load.c`, `alt_uncached_*.c`) | what the two caches hold | flush, load, allocate uncached |
| HAL: printing (`alt_log_printf.c`, `alt_printf.c`) | place in a format, flags of a directive | print |

How they interact. `main()` calls the driver, and the driver calls back into `main.c`. One
of the callbacks reads `direction`, which the interrupt routine writes: there is no lock, no
queue and no acknowledgement, only the latest value. The driver writes the frame buffer
while the scan reads it through a second port. The score register is written by the driver
and read by the encoder all the time. The timer shares the dispatcher with the keys, and
calls the alarms, one of which is the UART driver's and one the profiler's. The console is
the only part that can stop the program from outside.

What this build uses. `public.mk` and `system.h` select direct calls of small drivers, no
operating system and a processor without caches. The interrupt-driven UART driver, the table
of descriptors, the profiler and the real cache loops are in the repository but not in this
program's image; they are modelled as the repository has them. Threads that interleave in
the table of descriptors exist only with µC/OS-II, which the code asks for with its
semaphores.

What is hard. The order of the draw calls inside a pass and the cell behind the tail; the
wrap at the edges, which is not symmetric; bounds of the history, of the collision loop and
of the score; interrupts during start-up and in the dispatcher; a console that blocks; an
address counter that is never computed from the position of the beam; rings without a lock
between a caller and an interrupt routine; a list that is changed while it is walked;
bookkeeping that is interrupted by itself; loops that count down past zero. `PROJECT.json`
lists these hazards line by line, with the properties that would notice.

## 2. The modules

| Module | Models | Proofs | TLC |
|---|---|---|---|
| `SnakeMoves` | tiles, `move_snake`'s four cases, `filter_direction` | | |
| `Snake` (extends `SnakeMoves`) | the driver, one action per way a pass can end | `SnakeProofs` | `MCSnake` |
| `SnakeRules` (extends `SnakeMoves`) | abstract game; `Snake` refines it | `SnakeProofs` | `MCSnake` |
| `Buttons` | port, interrupt routine, dispatcher, start of `main` | `ButtonsProofs` | `MCButtons` |
| `FrameGeometry` (extends `SnakeMoves`) | addresses of `draw_square` | `OutputsProofs` | `MCOutputs` |
| `Console` | main loop and polling UART driver | `OutputsProofs` | `MCOutputs` |
| `ScoreDisplay` | register and encoder | `OutputsProofs` | `MCOutputs`, `MCScoreDisplay` |
| `VgaScan` | controller, `draw_pixel`, memory port | `OutputsProofs` | `MCOutputs` |
| `JtagUart` | interrupt-driven UART driver, its port and its host | `JtagUartProofs` | `MCJtagUart` |
| `BytePipe` | abstract pipe; each direction of `JtagUart` refines it | `JtagUartProofs` | `MCJtagUart` |
| `Alarms` | `alt_tick`, alarms and their list | `HalProofs` | `MCHal` |
| `FileTable` | descriptors, devices, locks | `HalProofs` | `MCHal` |
| `BusySleep` | `usleep` | `HalProofs` | `MCHal` |
| `WallClock` | time of day | `HalProofs` | `MCHal` |
| `Profiler` | `mcount`, sampler, heap | `HalProofs` | `MCHal` |
| `IrqMask` | critical sections, single interrupts, nesting | `IrqMaskProofs` | `MCHal` |
| `Caches` | cache loops, `alt_load`, uncached blocks | `HalProofs` | `MCHal` |
| `PrintNumber` | the two small `printf` | `PrintNumberProofs` | `MCHal` |

`MCOutputs` and `MCHal` put modules that share no state into one run; a variable `part`
chooses which of them moves, so the run is the sum of the parts and not their product.
`Arithmetic` has lemmas only: quotients and products of numbers, the least member of a set,
and the existence of functions that are defined by recursion. `HalProofs` and
`PrintNumberProofs` use them.

Operators marked "slip" are wrong on purpose. Each is a small mistake in the definition that
follows it, and replaces that definition when a property is tested for its power to notice
(`mutants` in `PROJECT.json`). They are used nowhere else.

### Snake and SnakeRules

A step of `Snake` is one pass of the loop of `snake_play`, or the code before the loop
(`Begin`). A pass has no intermediate state that anyone but the screen can see: the
interrupt routine writes only `direction`, which is read once per pass. So the pass is one
action, in four variants for its four outcomes: `Collide` (161-165), `Win` (171-176), `Eat`
(168-201) and `Glide`. The direction and the random numbers are chosen freely.

`point_history` has the indices of the array; `current_location` is always entry 0 and is
not a variable. `respawn` is what the loop at 180-190 does: `valid` is set in every round,
so the loop runs once, and a second draw is not checked. `frame_buffer` has a colour for
each tile of the screen. That this is enough is the subject of `FrameGeometry`: squares
share no byte, and tiles with `x = SIZE` are behind the picture.

`SnakeRules` has only the sequence of cells and the food. `Snake` implements it under the
mapping that takes the first `length` entries of the history as the cells and calls the
snake empty before the first game. The abstract game does not know how a turn back is
prevented (a direction and a filter); it says that the head may not enter the second cell.

### Buttons

Every step is one clock edge: the port samples the keys, whose level may be anything, while
the processor makes one access or does nothing that matters. A write to `edge_capture`
clears all bits, and the edges of that very clock, as the Verilog gives the write priority
(90-94). The interrupt routine is three actions: read, acknowledge, steer. The start of
`main` is split at the accesses an interrupt may fall between; the body of
`alt_iic_isr_register` runs with interrupts disabled and is one action after the one that
disables them. The state at `Init` is the one `alt_main` leaves: interrupts on, the timer's
routine installed.

### Console, FrameGeometry, ScoreDisplay, VgaScan

`Console`: a game only ends (lost or won) or does not. A line is its length in characters.
`Poll` is the read of the control register when it shows space, `Put` the write; without
space the processor reads again, which changes nothing. What takes characters out of the
FIFO is outside the repository (`HostReads`).

`FrameGeometry` has the real numbers: 512 bytes a row, squares of 16, memory of 282144
bytes. Its state is one call of `draw_square` in progress.

`ScoreDisplay` names a segment pattern by its digit. The table of the encoder is one row for
each score up to 33; the row of 28 has the segments of 27.

`VgaScan` makes signals and variables of the VHDL keep their meaning: a signal read at an
edge has the value from before the edge, a variable has the value just assigned (`Lane` is
`count` after the assignment in the reset branch). The memory registers the address at an
edge and delivers its word after it. Chip select and byte enables do not influence a read.

### JtagUart and BytePipe

Characters are numbered in the order they enter, so that a lost, repeated, spoilt or
misplaced one is seen. Writer and reader are split where the interrupt routine may come in
between: the read of the other side's index (`WriteLooks`, `ReadLooks`), the copy
(`WriteCopies`, `..._write.c:122`; `ReadCopies`, one character of `..._read.c:136` a step),
the store of the own index (`WriteStores`, `..._write.c:126`; `ReadReleases`,
`..._read.c:140`), and the change of the shared mask, which is made with interrupts disabled
and is one step. The routine takes one look at the control register per round, as the code
does. `HostTakes`, `HostSends`, `HostPauses` and `Plug` are a host that may be there or not;
`ac` is the port's bit for activity, which the alarm reads and clears once a second. What
the host sends and its pauses set it, what it takes does not (`system_jtag.v:439`). A thread
writes and another reads: more are kept out by `write_lock` and `read_lock`. `BytePipe` says
that what comes out is what went in: each output is the successor of the one before, so that
a character left out is no step of it. `program` fixes which calls a behaviour contains.

### The other services of the HAL

`Alarms`: `alt_tick` is split at every entry of the list and around the callback, which may
start and stop alarms, its own included. The program changes the list with interrupts
disabled, so that `ProgramStarts` and `ProgramStops` are one step between ticks. A callback
may stop any alarm, also the one whose address `alt_tick` has read as the next to look at;
`cut` is the set of alarms that were stopped so and not started since, see section 5.

`FileTable`: under `alt_fd_list_lock` are the search for a free descriptor and the grant of
a lock, one step each. The look for a lock at the end of `open` goes from descriptor to
descriptor, `close` and `fcntl` take several steps, and threads interleave between them. The
flags that `fcntl` itself sets are left out; that it writes back a whole word which it read
before is not. `opened` remembers the path each descriptor was opened for, or was redirected
to, for the properties.

`BusySleep`: the assembler loops are told by the rounds they make. `SPEED` and `CYCLES` are
the cycles in a microsecond and in a round that the code reckons with (138 and 9, as this
core is "tiny"), and `ROUNDS` is their quotient, truncated as the code's is (15, not 15.33).
The loop for a whole piece counts down a register that the compiler believes unchanged, so
that the second piece begins with the same register or with a reloaded one (`BigLoop` has
both).

`WallClock`: the count of ticks has two words, read one after the other in either order,
with ticks in between. `Profiler`: two contexts, the program and an interrupt routine, which
runs to its end between any two steps of the program. `IrqMask`: a stack of what runs, with
the steps of `alt_irq_enable` and `alt_irq_disable` apart, and the nesting of
`alt_irq_interruptible`. `Caches`: which bytes the memory does not have yet and which of an
instruction line are old; every step of a flush is one line, and the caches forget and fetch
between the steps.

`PrintNumber`: a format is read character by character, with the flags the code keeps from
one directive to the next. `doIntegerPrint` counts the digits in a loop that finds the place
of the first one as well (`CountDigit`), sends what leads (`LeadDigits`) and then a digit
per step; `alt_printf` looks for its first digit from the left (`FindDigit`). A word has
`HEX_DIGITS` hexadecimal digits, and only the negation of a signed number wraps; that no
other step needs to is a theorem (`WordsSuffice`). A field width is a number of any size: it
is not cut to an `int`, so that a format with a width beyond one is outside of the model.

## 3. What the runs check

| Run | Instance | Distinct states | Result |
|---|---|---|---|
| `snake` | 5 x 5 tiles, length 6 wins, food on 2 x 2 tiles | 269,167 | eight properties hold |
| `snake_off_board` | length 4, food on 3 x 3 | | `DrawsOnlyTiles` violated: (0, 0) is erased |
| `snake_wrap` | same | | `WrapsToFarSide` violated |
| `buttons` | two keys | 10,384 | four properties hold |
| `outputs` | squares, score, console with real numbers; a small screen | 43,222 | ten properties hold |
| `score_six_bits` | all bytes | | `SixBitsShown` violated: 28 shows 27, 34 and more show 88 |
| `jtag` | ring of 3, FIFO of 1, timeout of 2, three programs | 82,032 | six properties hold |
| `jtag_eio` | same, writes only | | `EioMeansNoHost` violated |
| `hal` | eight services, see bounds | 448,667 | twelve properties hold |
| `files_lock` | same | | `LockMeansAlone` violated |
| `sleep` | same | | `SleepsAsAsked` violated |
| `sampler` | same | | `SamplerOnce` violated |

What they show, beyond types:

* **The driver** plays the abstract game (`PlaysByTheRules`): the shift of the history and
  the bounds of the loops are right. The head never re-enters the cell it left
  (`NoInstantReversal`); a game is never lost with fewer than five cells (`LossNeedsFive`),
  also across the uneven edges. Cells come to coincide only by eating a food that lay on the
  snake (`OverlapOnlyByFoodOnSnake`). Nothing that has left a tile stays visible
  (`NoGhosts`). The picture stays exact, except that a food on the trail is erased and that
  eating while the snake covers the cell behind its tail erases that cell under it
  (`PictureSpoiltOnlyOnTrail`). After a loss the score register holds the length, after a
  win one less (`FinalScore`).
* **Buttons**: the endless search in the dispatcher always ends (`HandlerFindsWork`), and
  the interrupt routine never finds an empty register (`IsrReadsAnEdge`). A key pressed
  alone is obeyed (`LonePressObeyed`), and the game is not starved once the keys are quiet
  (`GameGoesOn`).
* **Console**: no character is lost (`NoCharacterLost`); with a terminal games follow one
  another (`NextGameStarts`); without one the room in the FIFO decides, the real lengths
  allow two games (`TwoGamesWithoutHost`), and the program then waits inside a line for ever
  (`FreezesWithoutHost`).
* **Picture**: squares are disjoint and inside the memory (`SquaresDisjoint`,
  `InsideMemory`, `LastColumnHidden`). The scan's address stays in step with the beam
  (`AddressFollowsBeam`), and the screen settles on the contents of the frame buffer, moved
  right by one word; the first four pixels of the window show the last word of the picture
  and the word behind it (`PictureSettles`).
* **Score display**: right for every number it has a row for but 28 (`SmallScoresShown`).
* **UART driver**: each direction is a pipe that leaves no character out (`TxIsPipe`,
  `RxIsPipe`); characters in the transmit ring never wait without a request, and the receive
  request is off only while `read` has work (`MaskSound`); a timeout that means "never"
  never expires (`ForeverIsForever`); with any other, `write` and `close` return
  (`CallsReturn`); and a host that keeps coming back gets everything, as do calls of `read`
  (`NothingStuck`).
* **Alarms**: whatever callbacks do to the list, it stays one ring (`ListSound`), no alarm
  is overdue after a tick (`NeverOverdue`), a stopped alarm is not called
  (`StoppedStaysQuiet`) and `alt_tick` comes to the end (`TickReturns`). The last two have
  one exception, an alarm that was stopped when it was the next to be looked at (section 5).
* **Descriptors**: a descriptor is in use exactly while somebody holds it or is in a call
  that will give it back, whatever fails; one that is held is that of the device or file
  system its path names, and the standard ones stay those of the device they were redirected
  to (`DescriptorsSound`); a locked device has one descriptor, with the exceptions of
  section 5 (`ExclusiveOtherwise`).
* **Time**: by the code's own reckoning a sleep lacks nothing but what the truncated
  division leaves out, however many pieces it has (`ShortOnlyByDivision`); the time
  told is right up to the tick for some instant of the call, unless the low word of the
  count wrapped during it (`TimeTold`).
* **Profiler**: while the heap lasts, records share no memory and no call goes unrecorded,
  at either level (`ProfileSound`). **Interrupt masks**: after any nesting of routines and
  critical sections exactly the interrupts asked for are on, and routines are interrupted by
  higher priorities only, with the exception of section 5 (`IrqSound`). **Caches**: code
  that was written and flushed is what is fetched, the data cache holds nothing of a region
  that was discarded, and uncached blocks are not in the data cache (`CachesSound`).
  **Printing**: what is printed reads as the number, in the width asked for, filled with
  spaces or zeros as asked, whatever was printed before it in the format
  (`PrintedIsNumber`).

The seven violated properties state what a comment or the project's `README.md` says;
section 5 explains them.

### Bounds

* `snake`: five tiles a side is the smallest board `SizeAssumption` allows: upwards or to
  the left a walk around the board takes `SIZE` - 1 steps, so that on a smaller one a snake
  of four cells could hit itself and `LossNeedsFive` would fail. Length 6 is one more than
  the shortest snake that can collide, so collisions, wins and foods under the snake all
  occur. The food is kept to a corner, where the wrap and the snake's own trail are close.
* `buttons`: one key to press and one to disturb. The port treats its bits alike.
* `outputs`: squares, digits, lines and FIFO have the sizes of the code. `GAMES_MAX` = 3
  caps a counter and is one more than the number of games to be excluded. The window of the
  scan has two words in a row and two rows, so that the end of a row is both inside and at
  the end of a picture; `WRITES_MAX` = 2 is enough for words on both sides of the beam. One
  value of a word has a byte that differs, so that the order of bytes counts.
* `jtag`: a ring of three holds two characters and wraps in the middle of a write of three;
  the FIFO of one makes the request come and go with each; `INT_MAX` = 4 leaves a finite
  timeout of two and the two values that mean "never". Writes and reads run apart, with
  numbers up to four, and together with numbers up to one; they share only the mask and the
  routine, and the mask is also the subject of a proof for all sizes.
* `hal`: three alarms, so that an alarm has a neighbour on each side, delays from zero to
  two and two ticks. Two threads and two descriptors beside the standard three. Words of 64
  values, eleven cycles in a microsecond and three in a round: `ROUNDS` is 3 with a rest of
  2, as it is 15 with a rest of 3 on the board, and a piece is ten microseconds, so that
  sleeps have up to six pieces. A second of six microseconds and two ticks, and a half word
  of four, which wraps twice (`CLOCK_MAX` = 9); `RATE` must divide `US`, as 1000 divides a
  million. Two functions of one caller, slabs of three records, a heap for two slabs and the
  histogram; five calls. Two interrupts, nested in one another and in the program. A memory
  of four bytes in lines of two, regions of any place and length, one line of data cache, so
  that every access evicts, and two of instruction cache, so that a flush has to reach the
  right one. Words of two hexadecimal digits, and numbers at the edges of the three bases
  and of the sign, under eleven kinds of flags, and formats of two directives.

`CHECK_DEADLOCK FALSE` is set where a part comes to an end: a board without a terminal stops
for good (which is the point of `FreezesWithoutHost`), a square is drawn once, and the parts
of `MCHal` stop at their bounds.

### Fairness

* `Buttons`: weak fairness of `Processor`, the disjunction of all instructions of start-up
  and handler. A processor executes instructions while it has a clock, and a level-sensitive
  request that stays pending is taken. No fairness is assumed of the keys, the timer or the
  game.
* `Console`: weak fairness of `Processor` for the same reason, and of `HostReads`, which is
  enabled only when a terminal is attached: an attached terminal drains the FIFO. Games need
  not end.
* `VgaScan`: weak fairness of the clock.
* `JtagUart`: the processor executes a call that was made (strong, since the routine may
  disturb each of its steps) and the routine (weak); the clock ticks; a host that is
  attached again and again takes characters and pauses. No call needs to be made and no host
  needs to come: where a property needs them, it says so.
* `Alarms`: `alt_tick` goes on, and callbacks return after finitely many changes to the
  list.
* The other modules have safety properties only and state none.

## 4. What is proved

All proofs are for every value of the constants that the named assumptions allow.

**`SnakeProofs`**, from `SizeAssumption` (5 to 255 tiles) and `SnakeAssumption` (the winning
length fits the history; food and start avoid the last row and column). `TypeOK` is
inductive as it stands, as its last conjunct bounds `length` during a game. `LossNeedsFive`
is not: it needs `SteeringInv`. That invariant knows the last two moves: entry 1 of the
history leads to entry 0 by the current direction, entry 2 to entry 1 by a direction that is
not its opposite, and an entry that was never a cell is followed only by such entries. From
it, no closed walk of up to four steps exists on a board of five tiles, although stepping
over an edge and back is not the identity (`NoShortLoss`). `NeverReverses` follows from the
same invariant. `PictureHasNoGhosts` is proved inductively with `TypeOK`;
`PictureStaysExact` and `OverlapNeedsFoodOnSnake` are proved from the types for single
steps. `ScoreAtTheEnd` needs that the register follows the length during a game
(`RegisterFollows`), and that a game is not won by its first food (a winning length other
than 2). `DriverPlaysByTheRules` maps each action of `Snake` to the corresponding action of
`SnakeRules`; it needs `NeverReverses`' argument to show that the tile entered is in
`Reach`.

**`ButtonsProofs`**. `HandlerInv` says for each place in the handler which request stands
and that an enabled line has its routine. A request stands because bits of `edge_capture`
are cleared only by the acknowledging write, the timer's only by its routine, and both
happen in the handler itself. `HandlerAlwaysFindsWork` and `NoSpuriousIsr` are its
consequences.

**`OutputsProofs`**, a part for each of four modules.

`Console`. `SpaceStands`: between poll and write characters only leave the FIFO.
`FifoKeepsAll(m)`: without a terminal the FIFO holds what has been printed, stated for each
position of the main loop. For every FIFO depth below twice the lines around a game at most
two games are played.

`FrameGeometry`. `GeometryInv` gives the address of a row in closed form; the proofs then
read the offset of a byte as a number in mixed radix.

`ScoreDisplay`. `ScoresShown` for every byte, by division with remainder.

`VgaScan`, for screens and windows of every size whose rows are whole words.
`AddressesFollow`: `ScanInv` says where the beam is (`BeamInv`) and that the address is the
number of pixels drawn so far in this picture, counted in fours from one ahead
(`AddressInv`). Three further theorems are about what the address is good for. They assume
that the screen goes on below the first row of the window (`GoesOnBelow`): in a window of
one row at the foot of the screen the position that resets the address would last through
the blanking, as the row number stands still there. `WordInv` follows the word that is asked
for from pixel to pixel, and the intervals between rows and pictures. `AsksInsideMemory`:
the memory is never asked for a word outside of the picture but the one behind it.
`WordsInTime`: once a word has been asked for, the memory delivers at every pixel of the
window the word that belongs there. `PictureStays` is the second half of
`PictureSettles`: a screen that shows the contents of the frame buffer, moved right by one
word, is not spoilt by the scan as long as nobody writes. That the screen comes to show it
is liveness and is only model-checked.

**`JtagUartProofs`**, for rings, FIFOs, thresholds and timeouts of every size and every
program. `TxInv` says that ring and FIFO together hold exactly the characters between the
last one `write` took and the last one the host received, in order, whatever the routine and
the writer have in hand, and that between copy and store the entries behind the index
already hold the next ones; from it, every step is a step of `BytePipe` or a stutter
(`WriteIsPipe`). `RxInv` is its mirror image, with the reader in the midst of a copy
(`ReadIsPipe`). `MaskInv` adds where each of the three parties is when a request is off
(`RequestsKept`), `TimeoutInv` that the count of silent seconds stops in time
(`NeverGivenUp`).

**`IrqMaskProofs`**, for every number of interrupts and depth of nesting. `IrqInv` says that
at each level of the stack the mask, the two variables and what was asked for agree up to
the step of `alt_irq_enable` that is under way (`Agree`, `Enabling`), that every saved
priority mask is the one of the routine below (`Below`, `Priorities`), and that levels are
ordered (`Ordered`).

**`HalProofs`**. `SleepsShortOnlyByDivision`, for every word size, speed and cost of a loop:
`SleepInv` says in each loop that the rounds made and those that remain are at least
`ROUNDS` for each microsecond asked for, and the rest is division with remainder.
`CachesAreSound`, for memories, lines and caches of every size: `CachesInv` says that what
was written is in memory for the data lines the loop has visited, by address in a region and
by index in a whole cache, that the lines a discard has visited are not in the data cache
unless they were accessed since, that the instruction lines visited are not outdated, and
that an uncached block consists of whole lines outside the data cache. `ListIsSound`, for
any set of alarms: `LinksInv` says that `next` and `previous` are inverse to each other and
that a set closed under `next` which contains the head contains every listed alarm, so the
list is one ring. `NoneOverdue` and `StoppedAreQuiet`, whatever callbacks stop: `WalkInv`
says that a set closed under `next` which contains the place of the walk contains every
alarm that is still due, unless the walk has come to an entry that was stopped in front of
it (`cut`), which it leaves only when that is started again. So `alt_tick` cannot end and
have passed one by. `ClockTellsTime`, for every rate that divides a second and every width
of a word: `ClockInv` says that the halves of the count read so far are halves of the count
at the first or at the last read, and that the stored time is the time set less the ticks up
to then. `ProfileIsSound`, for slabs, heaps and histograms of every size: `ProfileInv` says
that the rest of the slab is inside of the heap and apart from every record and from the
histogram (`Handed`), and that a record, and what a call under way has found, is of the
function it is filed under (`Filed`).

`DescriptorsAreSound` and `LocksExclude`, for pools of every size, any devices and paths and
any number of threads: `FilesInv` says that a descriptor of the pool that is taken is in one
call or held (`PoolInv`), what each step of a call may rely on (`CallInv`), that device and
path belong together, as the lists no longer change when files are opened (`OpenedInv`),
that the lock is never granted in spite of a standard descriptor (`LockInv`: the redirection
leaves the high-water mark above them), and that a descriptor which shares a locked device
is missed or in a call that has still to look at the lock, or gives the descriptor back.

**`PrintNumberProofs`**, for words of any number of hexadecimal digits, any numbers and any
formats over the characters of the model. `PrintsTheNumber` states `PrintedIsNumber`.
`PrintInv` says of each part of a call what it has established: which directive has been
read so far and what it has set (`Begun`), that a finished directive is the one the format
asks for (`AskedInv`), that the digits counted reach the number (`CountInv`), that the
number is below the place after the one looked at (`ShiftInv`), and, while digits are sent,
`Reading(n, r)`: n characters lead, the digits sent read as the number divided by the base
to the power of r, the places still to come, and the whole will fill the width and have a
zero in front only when zeros were asked for, and then no space. `PrintedIsNumber` is the
case of no place left. `Power` and `Reads` are defined by recursion; that they satisfy their
equations rests on `Recursion` in `Arithmetic`, which builds such a function from its finite
parts. Induction itself is the lemma that a set with 0 and all successors has all numbers
(`AllNaturals`), from the least member of its complement. `WordsSuffice`: the place of the
last digit counted stays in a word, the search for the first digit of `alt_printf` stops in
time, and what `doIntegerPrint` looks up in its table is a digit of the base.

**Model-checked only.** All liveness (`LonePressObeyed`, `GameGoesOn`, `NextGameStarts`,
`FreezesWithoutHost`, `PictureSettles`, `CallsReturn`, `NothingStuck`, `TickReturns`), which
is out of the reach of the proof system. Every invariant and every action property of the
runs that hold is stated by a theorem.

## 5. Findings

Violated, or stated as they are, and listed under `findings`:

1. A snake that eats at every pass from the first erases (0, 0), eight bytes before the
   frame buffer (`snake.c:194` against "Location is valid", `snake.c:48`).
2. The wrap to the left and upwards skips a tile (`snake.c:94,102` against `snake.h:4`).
3. The winning length is never shown (`snake.c:171-175` against `README.md:28`):
   `FinalScore` says what is.
4. Six-bit numbers from 34 on show 88 (`seven_seg_encoder.vhd:85` against `README.md:28`).
5. 28 shows 27 (`seven_seg_encoder.vhd:74`).
6. A blocking write answers `-EIO`, "Host not connected", one second after the last activity
   of an attached host, even when the ring has just made room
   (`altera_avalon_jtag_uart_write.c:187` against `:214`): it does not ask whether the
   timeout has passed.
7. `alt_fd_lock` grants a lock in spite of the highest descriptor, as its loop takes an
   index for a count (`alt_fd_lock.c:61` against `:43`).
8. A sleep of whole pieces ends with a loop from zero through all values of a word, nearly
   five minutes at this clock (`alt_busy_sleep.c:112` against `:36-38`).
9. The start of the sampler is not protected against itself (`alt_gmon.c:167` against
   `:153-154`): its alarm is inserted twice.

Met while modelling, and bounded by the models instead of run as findings:

* `fcntl` writes back the flags it read and so may bring back a lock that another thread has
  taken off meanwhile (`alt_fcntl.c:89`). `ExclusiveOtherwise` counts these descriptors
  among its exceptions (`missed`). In the same way it may take off a lock that another
  thread was granted meanwhile, although `alt_fcntl.c:60-61` says that "all other flags
  remain unchanged". The model has this step, but no property says that a lock lasts.
* A callback that stops the alarm after its own leaves `alt_tick` with the address of an
  entry that points to itself (`alt_tick.c:102`). If that alarm is due its callback is made,
  although it is stopped, and again if it returns zero; in every case the loop of
  `alt_tick.c:100-121` goes round in this one entry and never reaches the head: the
  processor hangs inside of the timer's interrupt, unless a callback of this very alarm
  starts it again. Nothing in the repository forbids such a callback. The model has all of
  this; `StoppedStaysQuiet` and `TickReturns` name it as their exception (`cut`).
* A loop of `usleep` counts 15 rounds a microsecond, where by the code's own figures 15.33
  fit (138 cycles, 9 a round, `alt_busy_sleep.c:64-75`): a sleep is up to two hundredths
  shorter than asked for. `ShortOnlyByDivision` says that it lacks no more than this.
* The count of ticks is read in two halves, and a tick may come between (`alt_alarm.h:112`).
  `TimeTold` excepts a call during which the low word wrapped (`told.torn`).
* `alt_irq_enable` and `alt_irq_disable` write the whole mask, also inside a routine that
  has opened itself to higher priorities only (`alt_legacy_irq.h:94` against `:103-104`).
  `IrqSound` makes the exception (`spoilt`).
* `alt_dcache_flush_no_writeback` drops whole lines and with them bytes beside its region.
* `alt_gmon.c:229` takes every answer of `sbrk` but 0 for memory, though failure is -1;
  `ProfileSound` stops there.
* The three standard descriptors keep a lock when they are closed (`alt_file.h:99-100`).

## 6. Running

    tlc -config MCSnake.cfg MCSnake
    tlapm SnakeProofs.tla

Each `.cfg` belongs to the `MC` module in the `runs` of `PROJECT.json`.

## 7. Not modelled

* **Start-up, and the stubs of the C library.** `crt0.S` and `alt_main` run once; what they
  leave is `Init` of the other modules. The stubs answer with a constant; `fstat`, `isatty`
  and `lseek` ask a driver and change nothing; `alt_times` reads the count of ticks.
* **Instruction exceptions and emulation.** The processor is a "tiny" core without
  instructions for multiplication and division (`system.h`: `HARDWARE_MULTIPLY_PRESENT` and
  `HARDWARE_DIVIDE_PRESENT` are 0). The compiler is told so (`-mno-hw-mul`, `-mno-hw-div`,
  `public.mk:122-126`) and calls library routines, so that no emulation is linked
  (`hal.enable_mul_div_emulation` is false, `public.mk:202`). The program registers no
  handler, and there is no ECC.
* **Timestamp timer, DMA and flash.** The system has no second timer, and of the other two
  the repository has headers only. (The timestamp driver and its comment disagree about a
  roll-over: `altera_avalon_timer_ts.c:57-58` promises 0, `:92-94` returns -1.)
* **Vendor hardware**: processor, interconnect, PLLs. Their effect is that an access to a
  port is one step. **Project databases, waveforms, memory images**: nothing to check.
* **Within modelled parts**: the guards of `snake_play` against missing callbacks; sync
  pulses of the controller; the external interrupt controller and shadow register sets; the
  µC/OS-II waits of the UART driver, and its build that ignores a full FIFO; the counts of
  the profiler and its histogram; time zones; the helpers of `alt_log_printf.c` that print
  registers.

How much of the code is mapped. About a fifth of the lines of C: the programs' functions and
the HAL's functions that change state. Most of the rest is not code to translate: the
licence text at the head of every file, the macros and constants of headers, declarations,
and functions that pass a call on to a driver which the build selects.

What could come next: the draw calls of a pass as steps of their own, with the scan in
between.
