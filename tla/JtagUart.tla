------------------------------ MODULE JtagUart ------------------------------
(***************************************************************************)
(* The interrupt-driven JTAG UART driver.  write() copies characters into  *)
(* a ring and turns the transmit interrupt on, the interrupt routine moves *)
(* them into the FIFO of the port; the other way the interrupt routine     *)
(* fills a ring that read() empties.  The rings have no lock: each index   *)
(* is moved by one side only.  A routine called once a second counts how   *)
(* long the host has been silent, and calls that wait give up on it.       *)
(*                                                                         *)
(* One thread writes and one reads (write_lock and read_lock admit no      *)
(* more); the interrupt routine runs between any two of their steps and    *)
(* is itself watched by the hardware only.                                 *)
(***************************************************************************)
EXTENDS Integers, Sequences

CONSTANTS
    BUF_LEN,        \* entries of a ring (2048)
    FIFO,           \* characters in each FIFO of the port (64)
    THRESHOLD,      \* level of the port's two requests (8)
    INT_MAX,        \* the largest int
    TIMEOUT,        \* seconds of silence until the host is given up (10)
    ALARM,          \* the system has a clock, so that the alarm starts
    HOISTED,        \* the compiler reads host_inactive once per waiting loop
    PROGRAMS        \* the calls that threads make, see Program

\* Lengths of writes and reads, whether the device is closed, values of
\* O_NONBLOCK, arguments of TIOCSTIMEOUT, and the bounds up to which
\* characters are numbered in the two directions.
Program == [counts : SUBSET (Nat \ {0}), spaces : SUBSET (Nat \ {0}),
            closes : BOOLEAN, nonblock : SUBSET BOOLEAN,
            arguments : SUBSET Int, out : Nat, in : Nat]

ASSUME JtagUartAssumption ==
    /\ BUF_LEN \in Nat /\ BUF_LEN >= 2
    /\ FIFO \in Nat \ {0} /\ THRESHOLD \in 0..FIFO
    /\ INT_MAX \in Nat /\ INT_MAX >= 4
    /\ TIMEOUT \in 2..INT_MAX - 1
    /\ ALARM \in BOOLEAN /\ HOISTED \in BOOLEAN
    /\ PROGRAMS \subseteq Program

VARIABLES
    program,        \* the one of PROGRAMS that runs
    \* altera_avalon_jtag_uart_state
    tx_buf, tx_in, tx_out, rx_buf, rx_in, rx_out,
    irq_enable,     \* subset of {"RE", "WE"}
    host_inactive, timeout,
    \* the port
    tx_fifo, rx_fifo,
    pause,          \* the host stopped sending with characters in the FIFO
    ac,             \* the host was active since this bit was cleared
    \* the interrupt routine
    isr,            \* [at, wi, space]: where it is, and what control showed
    \* the two callers
    w,              \* [at, count, copied, nonblock, n, out, gone, result]
    r,              \* [at, space, copied, nonblock, n, done, in, gone, result]
    \* the host
    attached,
    accepted, heard,    \* last character write() took, the host received
    typed, taken        \* last character the host sent, read() returned

ring == <<tx_buf, tx_in, tx_out, rx_buf, rx_in, rx_out>>
port == <<tx_fifo, rx_fifo, pause, ac>>
numbers == <<accepted, heard, typed, taken>>
vars == <<program, ring, irq_enable, host_inactive, timeout, port, isr, w, r,
          attached, numbers>>
allButW == <<program, ring, irq_enable, host_inactive, timeout, port, isr, r,
             attached, numbers>>
allButR == <<program, ring, irq_enable, host_inactive, timeout, port, isr, w,
             attached, numbers>>
allButIsr == <<program, ring, irq_enable, host_inactive, timeout, port, w, r,
               attached, numbers>>

Index == 0..BUF_LEN - 1
Least(a, b) == IF a <= b THEN a ELSE b
After(i, n) == (i + n) % BUF_LEN
Held(in, out) == (in - out) % BUF_LEN
Entries(buf, out, n) == [i \in 1..n |-> buf[After(out, i - 1)]]

Quiet == isr.at = "off"
Gone == host_inactive >= timeout
\* The second half of the condition of a waiting loop.
GivesUp(call) == IF HOISTED THEN call.gone ELSE Gone

NoIsr == [at |-> "off", wi |-> FALSE, space |-> 0]
NoWrite == [at |-> "idle", count |-> 0, copied |-> 0, nonblock |-> FALSE,
            n |-> 0, out |-> 0, gone |-> FALSE, result |-> "none"]
NoRead == [at |-> "idle", space |-> 0, copied |-> 0, nonblock |-> FALSE,
           n |-> 0, done |-> 0, in |-> 0, gone |-> FALSE, result |-> "none"]

-----------------------------------------------------------------------------
Init ==
    /\ program \in PROGRAMS
    /\ tx_buf = [i \in Index |-> 0] /\ tx_in = 0 /\ tx_out = 0
    /\ rx_buf = [i \in Index |-> 0] /\ rx_in = 0 /\ rx_out = 0
    /\ irq_enable = {"RE"}
    /\ host_inactive = 0
    /\ timeout = IF ALARM THEN TIMEOUT ELSE INT_MAX
    /\ tx_fifo = <<>> /\ rx_fifo = <<>>
    /\ pause = FALSE /\ ac = FALSE
    /\ isr = NoIsr
    /\ w = NoWrite /\ r = NoRead
    /\ attached \in BOOLEAN
    /\ accepted = 0 /\ heard = 0 /\ typed = 0 /\ taken = 0

-----------------------------------------------------------------------------
\* altera_avalon_jtag_uart_write
CallWrite ==
    /\ Quiet /\ w.at = "idle"
    /\ \E count \in program.counts, nonblock \in program.nonblock :
         /\ accepted + count <= program.out
         /\ w' = [NoWrite EXCEPT !.at = "copy", !.count = count,
                                 !.nonblock = nonblock]
    /\ UNCHANGED allButW

RoomToTheBrim(in, out) ==             \* slip: no entry stays free
    IF in < out THEN out - in ELSE BUF_LEN - in

\* Room up to the end of the ring; one entry always stays free.
Room(in, out) == IF in < out THEN out - 1 - in
                 ELSE IF out > 0 THEN BUF_LEN - in ELSE BUF_LEN - 1 - in

WriteLooks ==
    /\ Quiet /\ w.at = "copy"
    /\ LET n == Least(Room(tx_in, tx_out), w.count) IN
         w' = [w EXCEPT !.at = IF n = 0 THEN "kick" ELSE "fill",
                        !.n = n, !.out = tx_out]
    /\ UNCHANGED allButW

Copied(in, n) == [i \in Index |-> IF i \in in..in + n - 1
                                  THEN accepted + 1 + i - in ELSE tx_buf[i]]

\* The characters first, then the index that shows them to the interrupt
\* routine.
WriteCopies ==
    /\ Quiet /\ w.at = "fill"
    /\ tx_buf' = Copied(tx_in, w.n)
    /\ w' = [w EXCEPT !.at = "store"]
    /\ UNCHANGED <<program, tx_in, tx_out, rx_buf, rx_in, rx_out, irq_enable,
                   host_inactive, timeout, port, isr, r, attached, numbers>>

WriteStores ==
    /\ Quiet /\ w.at = "store"
    /\ tx_in' = After(tx_in, w.n)
    /\ accepted' = accepted + w.n
    /\ w' = [w EXCEPT !.at = "copy", !.count = @ - w.n, !.copied = @ + w.n]
    /\ UNCHANGED <<program, tx_buf, tx_out, rx_buf, rx_in, rx_out, irq_enable,
                   host_inactive, timeout, port, isr, r, attached, heard,
                   typed, taken>>

WriteShowsFirst ==          \* slip: the index moves before the characters
    /\ Quiet
    /\ \/ /\ w.at = "fill"
          /\ tx_in' = After(tx_in, w.n)
          /\ w' = [w EXCEPT !.at = "store", !.out = tx_in]
          /\ UNCHANGED <<tx_buf, accepted>>
       \/ /\ w.at = "store"
          /\ tx_buf' = Copied(w.out, w.n)
          /\ accepted' = accepted + w.n
          /\ w' = [w EXCEPT !.at = "copy", !.count = @ - w.n,
                            !.copied = @ + w.n]
          /\ UNCHANGED tx_in
    /\ UNCHANGED <<program, tx_out, rx_buf, rx_in, rx_out, irq_enable,
                   host_inactive, timeout, port, isr, r, attached, heard,
                   typed, taken>>

WriteFills == WriteCopies \/ WriteStores

WriteKicksWhenFull ==                 \* slip: only a full ring is pushed
    /\ Quiet /\ w.at = "kick"
    /\ irq_enable' = IF w.count = 0 THEN irq_enable
                     ELSE irq_enable \union {"WE"}
    /\ w' = [w EXCEPT !.at = IF w.count = 0 \/ w.nonblock THEN "exit"
                             ELSE "wait",
                      !.gone = Gone]
    /\ UNCHANGED <<program, ring, host_inactive, timeout, port, isr, r,
                   attached, numbers>>

\* With interrupts disabled.
WriteKicks ==
    /\ Quiet /\ w.at = "kick"
    /\ irq_enable' = irq_enable \union {"WE"}
    /\ w' = [w EXCEPT !.at = IF w.count = 0 \/ w.nonblock THEN "exit"
                             ELSE "wait",
                      !.gone = Gone]
    /\ UNCHANGED <<program, ring, host_inactive, timeout, port, isr, r,
                   attached, numbers>>

WriteWaits ==
    /\ Quiet /\ w.at = "wait"
    /\ w.out # tx_out \/ GivesUp(w)
    /\ w' = [w EXCEPT !.at = "check"]
    /\ UNCHANGED allButW

WriteChecks ==
    /\ Quiet /\ w.at = "check"
    /\ w' = [w EXCEPT !.at = IF host_inactive > 0 THEN "exit" ELSE "copy"]
    /\ UNCHANGED allButW

Result(call) == IF call.copied > 0 THEN "count"
                ELSE IF call.nonblock THEN "EWOULDBLOCK" ELSE "EIO"

WriteReturns ==
    /\ Quiet /\ w.at = "exit"
    /\ w' = [NoWrite EXCEPT !.result = Result(w)]
    /\ UNCHANGED allButW

\* altera_avalon_jtag_uart_close
CallClose ==
    /\ Quiet /\ w.at = "idle" /\ program.closes
    /\ \E nonblock \in program.nonblock :
         w' = [NoWrite EXCEPT !.at = "close", !.nonblock = nonblock,
                              !.gone = Gone]
    /\ UNCHANGED allButW

CloseReturns ==
    /\ Quiet /\ w.at = "close"
    /\ \/ /\ tx_out = tx_in \/ GivesUp(w)
          /\ w' = [NoWrite EXCEPT !.result = "closed"]
       \/ /\ ~ (tx_out = tx_in \/ GivesUp(w)) /\ w.nonblock
          /\ w' = [NoWrite EXCEPT !.result = "EWOULDBLOCK"]
    /\ UNCHANGED allButW

Writer == WriteLooks \/ WriteFills \/ WriteKicks \/ WriteWaits \/ WriteChecks
            \/ WriteReturns \/ CloseReturns

-----------------------------------------------------------------------------
\* altera_avalon_jtag_uart_read
CallRead ==
    /\ Quiet /\ r.at = "idle"
    /\ \E space \in program.spaces, nonblock \in program.nonblock :
         r' = [NoRead EXCEPT !.at = "copy", !.space = space,
                             !.nonblock = nonblock]
    /\ UNCHANGED allButR

\* Characters up to the end of the ring.
Ready(in, out) == IF in >= out THEN in - out ELSE BUF_LEN - out

ReadLooks ==
    /\ Quiet /\ r.at = "copy"
    /\ LET n == Least(Ready(rx_in, rx_out), r.space)
           to == IF n > 0 THEN "take"
                 ELSE IF r.copied > 0 THEN "enable"
                 ELSE IF r.nonblock THEN "exit" ELSE "wait" IN
         r' = [r EXCEPT !.at = to, !.n = n, !.in = rx_in, !.gone = Gone]
    /\ UNCHANGED allButR

\* One character of the copy to the caller.
ReadCopies ==
    /\ Quiet /\ r.at = "take" /\ r.done < r.n
    /\ taken' = rx_buf[After(rx_out, r.done)]
    /\ r' = [r EXCEPT !.done = @ + 1]
    /\ UNCHANGED <<program, ring, irq_enable, host_inactive, timeout, port,
                   isr, w, attached, accepted, heard, typed>>

\* The index gives the entries back to the interrupt routine.
ReadReleases ==
    /\ Quiet /\ r.at = "take" /\ r.done = r.n
    /\ rx_out' = After(rx_out, r.n)
    /\ r' = [r EXCEPT !.at = IF r.space = r.n THEN "enable" ELSE "copy",
                      !.space = @ - r.n, !.copied = @ + r.n, !.done = 0]
    /\ UNCHANGED <<program, tx_buf, tx_in, tx_out, rx_buf, rx_in, irq_enable,
                   host_inactive, timeout, port, isr, w, attached, numbers>>

ReadReleasesFirst ==        \* slip: entries are given back before the copy
    /\ Quiet
    /\ \/ /\ r.at = "take"
          /\ rx_out' = After(rx_out, r.n)
          /\ r' = [r EXCEPT !.at = "late"]
          /\ UNCHANGED taken
       \/ /\ r.at = "late"
          /\ taken' = rx_buf[(rx_out - r.n + r.done) % BUF_LEN]
          /\ r' = IF r.done + 1 < r.n THEN [r EXCEPT !.done = @ + 1]
                  ELSE [r EXCEPT !.at = IF r.space = r.n THEN "enable"
                                        ELSE "copy",
                                 !.space = @ - r.n, !.copied = @ + r.n,
                                 !.done = 0]
          /\ UNCHANGED rx_out
    /\ UNCHANGED <<program, tx_buf, tx_in, tx_out, rx_buf, rx_in, irq_enable,
                   host_inactive, timeout, port, isr, w, attached, accepted,
                   heard, typed>>

ReadTakes == ReadCopies \/ ReadReleases

ReadWaits ==
    /\ Quiet /\ r.at = "wait"
    /\ r.in # rx_in \/ GivesUp(r)
    /\ r' = [r EXCEPT !.at = "check"]
    /\ UNCHANGED allButR

ReadChecks ==
    /\ Quiet /\ r.at = "check"
    /\ r' = [r EXCEPT !.at = IF r.in = rx_in THEN "exit" ELSE "copy"]
    /\ UNCHANGED allButR

ReadForgetsToEnable ==                \* slip: a full ring stays closed
    /\ Quiet /\ r.at = "enable"
    /\ r' = [r EXCEPT !.at = "exit"]
    /\ UNCHANGED allButR

\* With interrupts disabled: there is space in the ring now.
ReadEnables ==
    /\ Quiet /\ r.at = "enable"
    /\ irq_enable' = irq_enable \union {"RE"}
    /\ r' = [r EXCEPT !.at = "exit"]
    /\ UNCHANGED <<program, ring, host_inactive, timeout, port, isr, w,
                   attached, numbers>>

ReadReturns ==
    /\ Quiet /\ r.at = "exit"
    /\ r' = [NoRead EXCEPT !.result = Result(r)]
    /\ UNCHANGED allButR

Reader == ReadLooks \/ ReadTakes \/ ReadWaits \/ ReadChecks \/ ReadEnables
            \/ ReadReturns

\* altera_avalon_jtag_uart_ioctl.  A timeout of INT_MAX stands for "no
\* clock" and is left alone.
SetTimeout ==
    /\ Quiet /\ r.at = "idle"
    /\ timeout # INT_MAX
    /\ \E arg \in program.arguments :
         timeout' = IF arg >= 2 /\ arg < INT_MAX THEN arg ELSE INT_MAX - 1
    /\ UNCHANGED <<program, ring, irq_enable, host_inactive, port, isr, w, r,
                   attached, numbers>>

-----------------------------------------------------------------------------
\* The port: its two requests.
RI == "RE" \in irq_enable /\ (pause \/ FIFO - Len(rx_fifo) <= THRESHOLD)
WI == "WE" \in irq_enable /\ Len(tx_fifo) <= THRESHOLD

\* altera_avalon_jtag_uart_irq
IsrEnters ==
    /\ Quiet /\ (RI \/ WI)
    /\ isr' = [isr EXCEPT !.at = "top"]
    /\ UNCHANGED allButIsr

\* The read of the control register: return once nothing more to do.
IsrLooks ==
    /\ isr.at = "top"
    /\ isr' = [at |-> IF RI THEN "rx" ELSE IF WI THEN "tx" ELSE "off",
               wi |-> WI, space |-> IF WI THEN FIFO - Len(tx_fifo) ELSE 0]
    /\ UNCHANGED allButIsr

RxRoomToTheBrim ==                    \* slip: full and empty look alike
    BUF_LEN - Held(rx_in, rx_out)

RxRoom == BUF_LEN - 1 - Held(rx_in, rx_out)

\* What fits is read.  If more remains the ring is full, and the request is
\* turned off until read() makes room.
IsrReceives ==
    /\ isr.at = "rx"
    /\ LET n == Least(Len(rx_fifo), RxRoom) IN
         /\ rx_buf' = [i \in Index |->
                         IF (i - rx_in) % BUF_LEN < n
                         THEN rx_fifo[1 + ((i - rx_in) % BUF_LEN)]
                         ELSE rx_buf[i]]
         /\ rx_in' = After(rx_in, n)
         /\ rx_fifo' = SubSeq(rx_fifo, n + 1, Len(rx_fifo))
         /\ pause' = (pause /\ RxRoom = 0)
         /\ irq_enable' = IF RxRoom = 0 \/ Len(rx_fifo) > n
                          THEN irq_enable \ {"RE"} ELSE irq_enable
    /\ isr' = [isr EXCEPT !.at = IF isr.wi THEN "tx" ELSE "top"]
    /\ UNCHANGED <<program, tx_buf, tx_in, tx_out, rx_out, host_inactive,
                   timeout, tx_fifo, ac, w, r, attached, numbers>>

\* What was free when control was read is filled.  With nothing left to
\* send the request is turned off.
IsrSends ==
    /\ isr.at = "tx"
    /\ LET n == Least(isr.space, Held(tx_in, tx_out)) IN
         /\ tx_fifo' = tx_fifo \o Entries(tx_buf, tx_out, n)
         /\ tx_out' = After(tx_out, n)
         /\ irq_enable' = IF isr.space > n THEN irq_enable \ {"WE"}
                          ELSE irq_enable
    /\ isr' = [NoIsr EXCEPT !.at = "top"]
    /\ UNCHANGED <<program, tx_buf, tx_in, rx_buf, rx_in, rx_out,
                   host_inactive, timeout, rx_fifo, pause, ac, w, r, attached,
                   numbers>>

Interrupt == IsrEnters \/ IsrLooks \/ IsrReceives \/ IsrSends

TickUncapped ==                       \* slip: the count is not kept below
    /\ Quiet /\ ALARM
    /\ ac' = FALSE
    /\ host_inactive' = IF ac THEN 0
                        ELSE IF host_inactive < INT_MAX THEN host_inactive + 1
                        ELSE host_inactive
    /\ UNCHANGED <<program, ring, irq_enable, timeout, tx_fifo, rx_fifo,
                   pause, isr, w, r, attached, numbers>>

TickDeaf ==                           \* slip: silence is not counted
    /\ Quiet /\ ALARM /\ ac
    /\ ac' = FALSE
    /\ host_inactive' = 0
    /\ UNCHANGED <<program, ring, irq_enable, timeout, tx_fifo, rx_fifo,
                   pause, isr, w, r, attached, numbers>>

\* altera_avalon_jtag_uart_timeout, once a second.
Tick ==
    /\ Quiet /\ ALARM
    /\ ac' = FALSE
    /\ host_inactive' = IF ac THEN 0
                        ELSE IF host_inactive < INT_MAX - 2
                        THEN host_inactive + 1 ELSE host_inactive
    /\ UNCHANGED <<program, ring, irq_enable, timeout, tx_fifo, rx_fifo,
                   pause, isr, w, r, attached, numbers>>

-----------------------------------------------------------------------------
\* The host takes, sends and pauses.  The last two are activity: the port
\* does not count what the host takes.
HostTakes ==
    /\ attached /\ tx_fifo # <<>>
    /\ heard' = Head(tx_fifo)
    /\ tx_fifo' = Tail(tx_fifo)
    /\ UNCHANGED <<program, ring, irq_enable, host_inactive, timeout, rx_fifo,
                   pause, ac, isr, w, r, attached, accepted, typed, taken>>

HostSends ==
    /\ attached /\ Len(rx_fifo) < FIFO /\ typed < program.in
    /\ typed' = typed + 1
    /\ rx_fifo' = Append(rx_fifo, typed + 1)
    /\ ac' = TRUE
    /\ UNCHANGED <<program, ring, irq_enable, host_inactive, timeout, tx_fifo,
                   pause, isr, w, r, attached, accepted, heard, taken>>

HostPauses ==
    /\ attached
    /\ pause' = (pause \/ rx_fifo # <<>>)
    /\ ac' = TRUE
    /\ UNCHANGED <<program, ring, irq_enable, host_inactive, timeout, tx_fifo,
                   rx_fifo, isr, w, r, attached, numbers>>

Plug ==
    /\ attached' = ~ attached
    /\ UNCHANGED <<program, ring, irq_enable, host_inactive, timeout, port,
                   isr, w, r, numbers>>

Next ==
    \/ CallWrite \/ CallClose \/ CallRead \/ SetTimeout
    \/ Writer \/ Reader \/ Interrupt \/ Tick
    \/ HostTakes \/ HostSends \/ HostPauses \/ Plug

\* The processor runs, the clock ticks, and a host that is attached again
\* and again takes what there is.  Calls need not be made.
Fairness ==
    /\ SF_vars(Writer) /\ SF_vars(Reader) /\ WF_vars(Interrupt)
    /\ SF_vars(Tick) /\ SF_vars(HostTakes) /\ SF_vars(HostPauses)

Spec == Init /\ [][Next]_vars /\ Fairness

-----------------------------------------------------------------------------
TypeOK ==
    /\ tx_buf \in [Index -> 0..program.out]
    /\ rx_buf \in [Index -> 0..program.in]
    /\ {tx_in, tx_out, rx_in, rx_out} \subseteq Index
    /\ irq_enable \subseteq {"RE", "WE"}
    /\ host_inactive \in 0..INT_MAX - 2
    /\ timeout \in 2..INT_MAX
    /\ Len(tx_fifo) <= FIFO /\ Len(rx_fifo) <= FIFO
    /\ isr.at \in {"off", "top", "rx", "tx"} /\ isr.space \in 0..FIFO
    /\ w.n \in 0..BUF_LEN - 1 /\ r.n \in 0..BUF_LEN - 1
    /\ w.at \in {"fill", "store"} => tx_in + w.n <= BUF_LEN
    /\ r.done \in 0..r.n

(* Nothing is lost, doubled or overtaken between write() and the host, nor
   between the host and read(): each direction is a pipe as large as its
   ring and its FIFO, and the characters come out of it one by one.  The
   interrupt routine may run between a copy and the store of the index that
   hands it over. *)
Tx == INSTANCE BytePipe WITH CAPACITY <- BUF_LEN - 1 + FIFO,
                             sent <- accepted, received <- heard
Rx == INSTANCE BytePipe WITH CAPACITY <- BUF_LEN - 1 + FIFO,
                             sent <- typed, received <- taken
TxIsPipe == Tx!Spec
RxIsPipe == Rx!Spec

(* Neither side of the driver sleeps on work.  Characters in the transmit
   ring never wait without a request, or write() is about to make it; and the
   receive request is off only while the ring has characters to give, or
   read() is about to turn it on.  The mask that says so is changed by three
   parties. *)
NeverForgotten ==
    tx_in # tx_out => \/ "WE" \in irq_enable
                      \/ w.at \in {"copy", "fill", "store", "kick"}
NeverDeaf ==
    "RE" \notin irq_enable => rx_in # rx_out \/ r.at \in {"copy", "enable"}
MaskSound == NeverForgotten /\ NeverDeaf

(* A timeout that stands for "wait for ever", set by ioctl or because there
   is no clock, is never reached by the count of silent seconds. *)
ForeverIsForever == timeout >= INT_MAX - 1 => ~ Gone

(* With a finite timeout every write and close returns, whether the host
   takes characters, is absent, or comes and goes. *)
CallsReturn ==
    ALARM /\ [](timeout < INT_MAX - 1) => (w.at # "idle" ~> w.at = "idle")

(* A host that keeps coming back receives every character write() took, and
   calls of read() get every character the host sent: no character stays in a
   ring or in the port for ever. *)
NothingStuck ==
    []<>attached /\ (program.in > 0 => []<>(r.at = "copy" /\ r.copied = 0))
      => <>[](heard = accepted /\ taken = typed)

(* "-EIO: host not connected" is not the answer while a host is attached,
   counts as connected (TIOCGCONNECTED) and the ring has made room. *)
EioMeansNoHost ==
    [][w.at = "check" /\ w'.at = "exit" /\ w.copied = 0
         => Gone \/ w.out = tx_out \/ ~ attached]_vars
=============================================================================
