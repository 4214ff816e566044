----------------------------- MODULE CacheProbe -----------------------------
(***************************************************************************)
(* The timing half of header/cache_utils.h: whether a page of mem is       *)
(* cached is told by how long an access to it takes, against CACHE_MISS.   *)
(* A program calls cache_init, cache_encode, cache_decode_pretty,          *)
(* cache_flush_shared_memory and detect_flush_reload_threshold in any      *)
(* order.  On aarch64 with ARM_CLOCK_SOURCE set to ARM_PERF the clock is   *)
(* the counter behind perf_fd, which PerfFd describes.                     *)
(*                                                                         *)
(* The 256 pages are scaled to Pages, the clock from 64 (i386: 32) bits to *)
(* Wide (Narrow) values.  rdtsc_begin and rdtsc_end, which                 *)
(* USE_RDTSC_BEGIN_END does not select, read as rdtsc does.                *)
(***************************************************************************)
EXTENDS PerfFd

CONSTANTS
  Pages,              \* the number of pages of mem
  Letters,            \* those of them that stand for a letter, 'A' to 'Z'
  Narrow, Wide,       \* how many values 32 and 64 bits have
  Starts,             \* what the clock may be at when an access begins
  HitTime, MissTime,  \* how long an access takes
  DefaultMiss,        \* what CACHE_MISS is to begin with
  Count               \* how often detect_flush_reload_threshold measures

PageSet == 0 .. Pages - 1

\* Letters are in the lower half of a byte; CACHE_MISS is between the times
\* of the machine; the sum of Count times fits 32 bits.
ASSUME ProbeAssumption ==
  /\ Pages \in Nat \ {0} /\ \A p \in Letters : p \in Nat /\ 2 * p < Pages
  /\ Narrow \in Nat \ {0} /\ Wide \in Nat \ {0} /\ Wide % Narrow = 0
  /\ Starts \subseteq 0 .. Wide - 1
  /\ HitTime \in Nat /\ MissTime \in Nat /\ DefaultMiss \in Nat
  /\ HitTime < DefaultMiss /\ DefaultMiss <= MissTime
  /\ Count \in Nat \ {0} /\ 2 * Count * MissTime < Narrow

VARIABLES
  arch,      \* what the header is compiled for; "arm_perf" is aarch64 with
             \* ARM_CLOCK_SOURCE ARM_PERF
  fence,     \* riscv64: on this machine fence.i also cleans the data cache
  cached,    \* the pages of mem in the cache
  missTime,  \* CACHE_MISS
  i,         \* the next turn of cache_decode_pretty's loop; Pages: none
  hit,       \* what the last flush_reload returned
  leaked,    \* leaked[index]: a letter, or -1 for the space it starts with
  touched,   \* history: the pages accessed since they were last flushed
  misled     \* history: CACHE_MISS was measured without a clock or a flush

vars == <<fdVars, arch, fence, cached, missTime, i, hit, leaked, touched, misled>>

Archs == {"x86_64", "i386", "aarch64", "arm_perf", "riscv64", "ppc64"}

TypeOK ==
  /\ FdTypeOK
  /\ arch \in Archs /\ fence \in BOOLEAN
  /\ cached \subseteq PageSet /\ touched \subseteq PageSet
  /\ missTime \in 0 .. Wide - 1
  /\ i \in 0 .. Pages /\ hit \in BOOLEAN /\ leaked \in Letters \cup {-1}
  /\ misled \in BOOLEAN

Init ==
  /\ FdInit
  /\ arch \in (IF library = "header" THEN Archs ELSE {"x86_64"})
  /\ fence \in (IF arch = "riscv64" THEN BOOLEAN ELSE {FALSE})
  /\ cached = {} /\ touched = {} /\ missTime = DefaultMiss
  /\ i = Pages /\ hit = FALSE /\ leaked = -1 /\ misled = FALSE

-----------------------------------------------------------------------------
(* The clock: what rdtsc may return at the time t *)

X86Rdtsc(t)   == {t % Wide}
I386Rdtsc(t)  == {t % Narrow}  \* the upper half is dropped
RiscvRdtsc(t) == {t % Wide}
PpcRdtsc(t)   == {t % Wide}

\* clock_gettime, or read(perf_fd, ...): the counter, zero for a descriptor
\* that is not open, and for a file of the program's what it has, or zero at
\* its end.
ArmRdtsc(t) ==
  IF arch = "aarch64" \/ Counting THEN {t % Wide}
  ELSE IF IsForeign THEN {0, MissTime} ELSE {0}

Rdtsc(t) ==
  CASE arch = "x86_64"  -> X86Rdtsc(t)
    [] arch = "i386"    -> I386Rdtsc(t)
    [] arch = "riscv64" -> RiscvRdtsc(t)
    [] arch = "ppc64"   -> PpcRdtsc(t)
    [] arch \in {"aarch64", "arm_perf"} -> ArmRdtsc(t)

ClockRuns == arch = "arm_perf" => Counting

-----------------------------------------------------------------------------
(* flush: what it leaves of the pages c in the cache *)

X86Flush(c, p)  == c \ {p}
I386Flush(c, p) == c \ {p}
PpcFlush(c, p)  == c \ {p}

\* Mutant: DC CVAC, which cleans the line and keeps it.
ArmFlushCleans(c, p) == c

\* DC CIVAC
ArmFlush(c, p) == c \ {p}

\* fence.i is about instructions.
RiscvFlush(c, p) == IF fence THEN c \ {p} ELSE c

Flush(c, p) ==
  CASE arch = "x86_64"  -> X86Flush(c, p)
    [] arch = "i386"    -> I386Flush(c, p)
    [] arch = "riscv64" -> RiscvFlush(c, p)
    [] arch = "ppc64"   -> PpcFlush(c, p)
    [] arch \in {"aarch64", "arm_perf"} -> ArmFlush(c, p)

FlushWorks == arch = "riscv64" => fence

-----------------------------------------------------------------------------
(* flush_reload and its relatives *)

\* The pairs of readings that an access which takes d can be between.
Readings(d) == UNION {Rdtsc(t) \X Rdtsc(t + d) : t \in Starts}

Time(p) == IF p \in cached THEN HitTime ELSE MissTime

SizeMod == IF arch = "i386" THEN Narrow ELSE Wide

\* Mutant: end - start in uint64_t on i386 too, where the clock wraps at 32
\* bits.
HitsWide(p) == {(se[2] - se[1]) % Wide < missTime : se \in Readings(Time(p))}

\* end - start < CACHE_MISS, in unsigned numbers of the clock's width.
Hits(p) == {(se[2] - se[1]) % SizeMod < missTime : se \in Readings(Time(p))}

\* An int keeps 32 bits of a difference.
AsInt(n) ==
  LET low == n % Narrow IN IF 2 * low < Narrow THEN low ELSE low - Narrow

\* flush_reload_t and reload_t; the former has uint64_t on i386 too.
FlushReloadTimes(d) == {AsInt((se[2] - se[1]) % Wide)    : se \in Readings(d)}
ReloadTimes(d)      == {AsInt((se[2] - se[1]) % SizeMod) : se \in Readings(d)}

\* A size_t sum of the measurements, divided by their number; the first of
\* flush_reload_t still finds in the cache what reload_t has left there.
ReloadTime(t)         == ((Count * t) % SizeMod) \div Count
FlushReloadTime(t, u) == ((t + (Count - 1) * u) % SizeMod) \div Count

Threshold(reload, flush) == ((flush + 2 * reload) % SizeMod) \div 3

\* What detect_flush_reload_threshold may return.
Thresholds ==
  LET flushed == IF FlushWorks THEN MissTime ELSE HitTime
  IN  {Threshold(ReloadTime(r), FlushReloadTime(f, g)) :
         r \in ReloadTimes(HitTime), f \in FlushReloadTimes(HitTime),
         g \in FlushReloadTimes(flushed)}

-----------------------------------------------------------------------------
(* The operations *)

\* Mutant: the loop goes on for i <= 256.
IdleLate == i > Pages

Idle == i = Pages

\* memset writes to every page of mem.
CacheInit ==
  /\ Idle
  /\ cached' = PageSet /\ touched' = PageSet
  /\ UNCHANGED <<fdVars, arch, fence, missTime, i, hit, leaked, misled>>

\* A byte as a char, which is signed on two of the architectures.
Char(data) ==
  IF arch \in {"x86_64", "i386"} /\ 2 * data >= Pages THEN data - Pages ELSE data

\* A negative one leads to memory before mem: what happens there, if the
\* program lives, is not about these pages.
CacheEncode(data) ==
  /\ Idle
  /\ cached' = cached \cup ({Char(data)} \cap PageSet)
  /\ touched' = touched \cup ({Char(data)} \cap PageSet)
  /\ UNCHANGED <<fdVars, arch, fence, missTime, i, hit, leaked, misled>>

CacheFlushSharedMemory ==
  /\ Idle
  /\ cached' = {p \in cached : p \in Flush(cached, p)} /\ touched' = {}
  /\ UNCHANGED <<fdVars, arch, fence, missTime, i, hit, leaked, misled>>

\* The program takes what is measured for CACHE_MISS.
Calibrate ==
  /\ Idle
  /\ missTime' \in Thresholds
  /\ misled' = ~ (ClockRuns /\ FlushWorks)
  /\ UNCHANGED <<fdVars, arch, fence, cached, i, hit, leaked, touched>>

\* cache_decode_pretty is called for a place that holds a space.
DecodeStarts ==
  /\ Idle /\ i' = 0 /\ leaked' = -1
  /\ UNCHANGED <<fdVars, arch, fence, cached, missTime, hit, touched, misled>>

\* Mutant: an even factor.
MixEven(n) == (n * 166 + 13) % Pages

\* All pages, but not one after the other.
Mix(n) == (n * 167 + 13) % Pages

\* A turn of its loop: flush_reload reads the clock, accesses the page, reads
\* the clock and flushes the page; the first letter found is kept.
DecodeTurn ==
  LET p == Mix(i)
  IN  /\ ~Idle /\ i' = i + 1
      /\ hit' \in Hits(p)
      /\ leaked' = IF hit' /\ p \in Letters /\ leaked = -1 THEN p ELSE leaked
      /\ cached' = Flush(cached \cup {p}, p) /\ touched' = touched \ {p}
      /\ UNCHANGED <<fdVars, arch, fence, missTime, misled>>

\* The cache makes room for something else.
Evict(p) ==
  /\ p \in cached /\ cached' = cached \ {p}
  /\ UNCHANGED <<fdVars, arch, fence, missTime, i, hit, leaked, touched, misled>>

\* The descriptors: where nobody reads perf_fd, only libpmu's are followed.
UsesFds ==
  /\ Idle /\ (arch = "arm_perf" \/ library = "libpmu") /\ FdNext
  /\ UNCHANGED <<arch, fence, cached, missTime, i, hit, leaked, touched, misled>>

Next ==
  \/ CacheInit \/ CacheFlushSharedMemory \/ Calibrate
  \/ DecodeStarts \/ DecodeTurn
  \/ \E p \in PageSet : CacheEncode(p) \/ Evict(p)
  \/ UsesFds

Spec == Init /\ [][Next]_vars

-----------------------------------------------------------------------------
(* Properties *)

\* flush_reload says hit if and only if the page was cached, wherever the
\* clock wraps and whether CACHE_MISS is the default or measured, unless the
\* clock does not run (perf_fd is not a counter) or did not when CACHE_MISS
\* was measured (header/cache_utils.h: flush_reload, flush_reload_t, reload_t,
\* detect_flush_reload_threshold, rdtsc).
HitIsReal ==
  [][DecodeTurn /\ ClockRuns /\ ~misled => (hit' <=> Mix(i) \in cached)]_vars

\* A letter decoded was encoded, or written by cache_init, after its page was
\* last flushed or probed: nothing is left over from before a pass or a
\* cache_flush_shared_memory (header/cache_utils.h: cache_decode_pretty).
DecodedWasEncoded ==
  [][leaked' \notin {leaked, -1} /\ ClockRuns /\ FlushWorks /\ ~misled
       => leaked' \in touched]_vars

\* A pass of cache_decode_pretty visits every page in its shuffled order, and
\* so leaves none of them cached.
PassLeavesNothing == [][DecodeTurn /\ i' = Pages /\ FlushWorks => cached' = {}]_vars

=============================================================================
