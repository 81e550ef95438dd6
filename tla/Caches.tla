------------------------------- MODULE Caches -------------------------------
(***************************************************************************)
(* The cache functions of the HAL, on a processor that has caches: the     *)
(* data cache holds the latest bytes until a line is written back, and the *)
(* instruction cache goes on holding old ones.  Both are direct-mapped.    *)
(* Values are left out: what counts is which bytes of the memory are       *)
(* behind the data cache, and which of the instruction cache behind the    *)
(* memory.  A flush goes from line to line, and an interrupt routine       *)
(* writes and runs code meanwhile.                                         *)
(***************************************************************************)
EXTENDS Integers, FiniteSets

CONSTANTS
    LINE,           \* bytes of a line, a power of two
    MEMORY,         \* lines of the memory
    DLINES, ILINES  \* lines of the data and of the instruction cache

ASSUME CachesAssumption == /\ LINE \in Nat \ {0} /\ MEMORY \in Nat
                           /\ DLINES \in Nat \ {0} /\ ILINES \in Nat \ {0}

Line == 0..MEMORY - 1
Byte == 0..MEMORY * LINE - 1
LineOf(b) == b \div LINE
Bytes(l) == l * LINE..l * LINE + LINE - 1

VARIABLES
    dcached, behind,    \* lines in the data cache; bytes of the memory that
                        \* are older than there
    icached, outdated,  \* lines in the instruction cache; bytes that are
                        \* older there than in the memory
    flush,              \* the flush under way: [do, start, end, i]
    fresh,              \* bytes of its region that nothing wrote since, or
                        \* when it discards, whose line nothing accessed
    uncached            \* bytes of the blocks of alt_uncached_malloc()

cache_vars == <<dcached, behind, icached, outdated, flush, fresh, uncached>>
NoFlush == [do |-> "none", start |-> 0, end |-> 0, i |-> 0]

CachesInit ==
    /\ dcached = {} /\ behind = {}
    /\ icached = {} /\ outdated = {}
    /\ flush = NoFlush /\ fresh = {}
    /\ uncached = {}

-----------------------------------------------------------------------------
BytesOf(lines) == UNION {Bytes(l) : l \in lines}

\* Lines leave the data cache and are written back.
Leave(lines) ==
    /\ dcached' = dcached \ lines
    /\ behind' = behind \ BytesOf(lines)
    /\ outdated' = outdated \union
                      (behind \intersect BytesOf(lines) \intersect BytesOf(icached))

\* The processor reads or writes a byte of cached memory, and its line takes
\* the place of another.
Access ==
    \E b \in Byte \ uncached, write \in BOOLEAN :
      LET l == LineOf(b)
          others == {k \in dcached : k # l /\ k % DLINES = l % DLINES}
      IN
      /\ dcached' = (dcached \ others) \union {l}
      /\ behind' = (behind \ BytesOf(others)) \union (IF write THEN {b} ELSE {})
      /\ outdated' = outdated \union
                        (behind \intersect BytesOf(others) \intersect BytesOf(icached))
      /\ fresh' = CASE flush.do = "discard"          -> fresh \ Bytes(l)
                    [] flush.do # "discard" /\ write -> fresh \ {b}
                    [] OTHER                         -> fresh
      /\ UNCHANGED <<icached, flush, uncached>>

\* The processor fetches code from a line it has not cached.
Fetch ==
    /\ \E l \in Line \ icached :
         LET others == {k \in icached : k % ILINES = l % ILINES} IN
         /\ icached' = (icached \ others) \union {l}
         /\ outdated' = outdated \ BytesOf(others)
    /\ UNCHANGED <<dcached, behind, flush, fresh, uncached>>

-----------------------------------------------------------------------------
Begins(do, start, len) ==
    flush' = [do |-> do, start |-> start, end |-> start + len, i |-> start]

\* alt_dcache_flush, which is followed by alt_icache_flush when it was code
\* that was written, and alt_dcache_flush_no_writeback.
CallFlush ==
    /\ flush = NoFlush
    /\ \E start \in Byte, len \in 1..MEMORY * LINE, do \in {"publish", "discard"} :
         /\ start + len <= MEMORY * LINE
         /\ Begins(do, start, len)
         /\ fresh' = start..start + len - 1
    /\ UNCHANGED <<dcached, behind, icached, outdated, uncached>>

\* alt_load, and alt_dcache_flush_all and alt_icache_flush_all at its end.
CallFlushAll ==
    /\ flush = NoFlush
    /\ Begins("all", 0, DLINES * LINE)
    /\ fresh' = Byte
    /\ UNCHANGED <<dcached, behind, icached, outdated, uncached>>

\* The size is rounded up to whole lines.
Block(l, size) ==
    LET num_lines == (size + LINE - 1) \div LINE
    IN  l * LINE..(l + num_lines) * LINE - 1

\* alt_uncached_malloc, with what memalign() finds.
CallMalloc ==
    /\ flush = NoFlush
    /\ \E l \in Line, size \in 1..LINE :
         /\ Block(l, size) \intersect uncached = {}
         /\ uncached' = uncached \union Block(l, size)
         /\ Begins("malloc", l * LINE, Cardinality(Block(l, size)))
    /\ fresh' = {}
    /\ UNCHANGED <<dcached, behind, icached, outdated>>

\* alt_uncached_free
CallFree ==
    /\ flush = NoFlush
    /\ \E l \in Line : Bytes(l) \intersect uncached # {}
                     /\ uncached' = uncached \ Bytes(l)
    /\ UNCHANGED <<dcached, behind, icached, outdated, flush, fresh>>

LimitOfLoop == flush.end              \* slip: the last line left out

\* "For an unaligned flush request, we've got one more line left."
Limit == flush.end + IF flush.start % LINE = 0 THEN 0 ELSE LINE

\* flushda writes back the line at an address, flushd that at an index.
FlushDataLine ==
    LET lines == {l \in dcached : IF flush.do = "all"
                                  THEN l % DLINES = LineOf(flush.i)
                                  ELSE l = LineOf(flush.i)} IN
    /\ flush.do \in {"publish", "all", "malloc"} /\ flush.i < Limit
    /\ Leave(lines)
    /\ flush' = [flush EXCEPT !.i = @ + LINE]
    /\ UNCHANGED <<icached, fresh, uncached>>

\* initda drops the line.
DiscardDataLine ==
    /\ flush.do = "discard" /\ flush.i < Limit
    /\ dcached' = dcached \ {LineOf(flush.i)}
    /\ behind' = behind \ Bytes(LineOf(flush.i))
    /\ flush' = [flush EXCEPT !.i = @ + LINE]
    /\ UNCHANGED <<icached, outdated, fresh, uncached>>

\* "This is the most we would ever need to flush."
ILength == IF flush.do = "all" \/ flush.end - flush.start > ILINES * LINE
           THEN ILINES * LINE ELSE flush.end - flush.start

GoOn ==
    /\ flush.do \in {"publish", "all"} /\ flush.i >= Limit
    /\ Begins("icache", flush.start, ILength)
    /\ UNCHANGED <<dcached, behind, icached, outdated, fresh, uncached>>

\* flushi drops the line at an index.
FlushCodeLine ==
    LET lines == {l \in icached : l % ILINES = LineOf(flush.i) % ILINES} IN
    /\ flush.do = "icache" /\ flush.i < Limit
    /\ icached' = icached \ lines
    /\ outdated' = outdated \ BytesOf(lines)
    /\ flush' = [flush EXCEPT !.i = @ + LINE]
    /\ UNCHANGED <<dcached, behind, fresh, uncached>>

FlushReturns ==
    /\ flush.do \in {"icache", "discard", "malloc"} /\ flush.i >= Limit
    /\ flush' = NoFlush
    /\ fresh' = {}
    /\ UNCHANGED <<dcached, behind, icached, outdated, uncached>>

CachesNext == Access \/ Fetch \/ CallFlush \/ CallFlushAll \/ CallMalloc \/ CallFree
                \/ FlushDataLine \/ DiscardDataLine \/ GoOn \/ FlushCodeLine
                \/ FlushReturns

CachesSpec == CachesInit /\ [][CachesNext]_cache_vars

-----------------------------------------------------------------------------
(* When code has been written, by the program or by alt_load(), and the data
   and then the instruction cache flushed, what the processor fetches from the
   region is what was written, wherever it begins and ends and whatever was
   accessed meanwhile.  When a region has been discarded, the data cache holds
   nothing of it, but for lines that were accessed meanwhile.  And uncached
   blocks stay out of the data cache, whose lines would overwrite them,
   whatever is accessed beside them. *)
CachesSound ==
    /\ flush.do = "icache" /\ flush.i >= Limit =>
         fresh \intersect (behind \union outdated) = {}
    /\ flush.do = "discard" /\ flush.i >= Limit =>
         \A b \in fresh : LineOf(b) \notin dcached
    /\ flush.do # "malloc" => \A b \in uncached : LineOf(b) \notin dcached
=============================================================================
