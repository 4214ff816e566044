-------------------------- MODULE CacheProbeProofs --------------------------
(***************************************************************************)
(* Proofs about PerfFd and CacheProbe, for any number of descriptors, any  *)
(* widths of the clock and any times of the machine.                       *)
(***************************************************************************)
EXTENDS CacheProbe, TLAPS

-----------------------------------------------------------------------------
(* Division and remainder *)

\* The remainder is in range.
LEMMA ModRange == ASSUME NEW m \in Nat \ {0}, NEW a \in Int PROVE (a % m) \in 0 .. m - 1
OBVIOUS

\* A quotient and a remainder in range are the quotient and the remainder.
LEMMA ModUnique ==
  ASSUME NEW m \in Nat \ {0}, NEW k \in Int, NEW r \in 0 .. m - 1, NEW a \in Int,
         a = m * k + r
  PROVE  (a % m) = r
OBVIOUS

\* There are such.
LEMMA ModExists ==
  ASSUME NEW m \in Nat \ {0}, NEW a \in Int
  PROVE  \E k \in Int : a = m * k + (a % m)
<1> DEFINE k == a \div m   r == a - m * k
<1>1. k \in Int
  OBVIOUS
<1>2. k * m <= a /\ a < k * m + m
  OBVIOUS
<1> HIDE DEF k
<1>3. r \in 0 .. m - 1 /\ a = m * k + r
  BY <1>1, <1>2
<1> HIDE DEF r
<1>4. (a % m) = r
  BY <1>1, <1>3, ModUnique
<1>5. QED
  BY <1>1, <1>3, <1>4

\* A number in range is its own remainder, and the remainder after adding to
\* one goes round at most once.
LEMMA ModSmall == ASSUME NEW m \in Nat \ {0}, NEW a \in 0 .. m - 1 PROVE (a % m) = a
OBVIOUS

LEMMA ModPlus ==
  ASSUME NEW m \in Nat \ {0}, NEW a \in Int, NEW d \in 0 .. m - 1
  PROVE  ((a + d) % m) \in {(a % m) + d, (a % m) + d - m}
<1>1. PICK k \in Int : a = m * k + (a % m)
  BY ModExists
<1>2. (a % m) \in 0 .. m - 1
  BY ModRange
<1> DEFINE r == (a % m)
<1> HIDE DEF r
<1>3. r \in 0 .. m - 1 /\ a = m * k + r
  BY <1>1, <1>2 DEF r
<1>4. CASE r + d < m
  <2> DEFINE s == r + d   b == a + d
  <2>1. s \in 0 .. m - 1 /\ b \in Int /\ b = m * k + s
    BY <1>3, <1>4
  <2> HIDE DEF s, b
  <2>2. (b % m) = s
    BY <2>1, ModUnique
  <2>3. QED
    BY <2>2 DEF r, s, b
<1>5. CASE r + d >= m
  <2> DEFINE s == r + d - m   b == a + d   j == k + 1
  <2>1. s \in 0 .. m - 1 /\ b \in Int /\ j \in Int /\ b = m * j + s
    BY <1>3, <1>5
  <2> HIDE DEF s, b, j
  <2>2. (b % m) = s
    BY <2>1, ModUnique
  <2>3. QED
    BY <2>2 DEF r, s, b
<1>6. QED
  BY <1>3, <1>4, <1>5

\* The difference of two readings of a clock that wraps, in its own width.
LEMMA DifferenceIsTime ==
  ASSUME NEW m \in Nat \ {0}, NEW a \in Int, NEW d \in 0 .. m - 1
  PROVE  (((a + d) % m) - (a % m)) % m = d
<1> DEFINE x == ((a + d) % m) - (a % m)
<1>1. x = d \/ x = d - m
  <2>1. (a % m) \in Int
    OBVIOUS
  <2>2. ((a + d) % m) \in {(a % m) + d, (a % m) + d - m}
    BY ModPlus
  <2> DEFINE r == a % m   e == (a + d) % m
  <2> HIDE DEF r, e
  <2>3. r \in Int /\ e \in {r + d, r + d - m}
    BY <2>1, <2>2 DEF r, e
  <2>4. e - r = d \/ e - r = d - m
    BY <2>3
  <2>5. QED
    BY <2>4 DEF r, e
<1> HIDE DEF x
<1>2. x \in Int /\ (x = m * 0 + d \/ x = m * (-1) + d)
  BY <1>1
<1>3. x % m = d
  BY <1>2, ModUnique
<1>4. QED
  BY <1>3 DEF x

\* Times Count, and then divided by it.
LEMMA MeanOfEqual ==
  ASSUME NEW c \in Nat \ {0}, NEW a \in Nat PROVE (c * a) \div c = a
OBVIOUS

\* One short of a multiple, but by less than one multiple.
LEMMA MeanOfAlmost ==
  ASSUME NEW c \in Nat \ {0}, NEW n \in Nat, NEW q \in Nat, c * q <= n, n < c * (q + 1)
  PROVE  n \div c = q
<1>1. q <= n \div c
  OBVIOUS
<1>2. n \div c <= q
  OBVIOUS
<1>3. QED
  BY <1>1, <1>2

-----------------------------------------------------------------------------
(* Descriptors *)

\* Where no counter is behind perf_fd, perf_deinit was the last call or, in
\* libpmu, none has been made: the number of a failed call is no descriptor.
NotOurs ==
  perf_fd # -1 /\ fds[perf_fd] # "perf" => released \/ (library = "libpmu" /\ perf_fd = 0)

FdInv == FdTypeOK /\ NotOurs /\ LeakExplained

LEMMA FdStep == ASSUME FdInv, FdNext PROVE FdInv'
<1> USE DEF FdInv, FdTypeOK, NotOurs, LeakExplained, Fds
<1>o. ASSUME NEW f \in Fds, NEW kind \in {"app", "perf"}, Opens(f, kind)
      PROVE  fds' \in [Fds -> {"free", "app", "perf"}] /\ fds[f] = "free" /\ fds'[f] = kind
             /\ \A g \in Fds : g # f => fds'[g] = fds[g]
  BY <1>o DEF Opens, Free
<1>1. ASSUME EventOpens, released' = FALSE, doubled' = (doubled \/ Counting), library' = library
      PROVE  FdInv'
  <2>1. ASSUME NEW f \in Fds, Opens(f, "perf"), perf_fd' = f PROVE FdInv'
    <3>1. fds' \in [Fds -> {"free", "app", "perf"}] /\ fds'[f] = "perf"
          /\ \A g \in Fds : g # f => fds'[g] = fds[g]
      BY <1>o, <2>1
    <3>2. FdTypeOK'
      BY <1>1, <2>1, <3>1
    <3>3. NotOurs'
      BY <2>1, <3>1
    <3>4. ASSUME NEW g \in Fds, fds'[g] = "perf", g # f PROVE doubled'
      <4>1. g = perf_fd \/ doubled
        BY <3>1, <3>4
      <4>2. g = perf_fd => Counting
        BY <3>1, <3>4 DEF Counting
      <4>3. QED
        BY <1>1, <4>1, <4>2
    <3>5. LeakExplained'
      BY <2>1, <3>4
    <3>6. QED
      BY <3>2, <3>3, <3>5
  <2>2. ASSUME perf_fd' = -1, UNCHANGED fds PROVE FdInv'
    BY <1>1, <2>2 DEF Counting
  <2>3. QED
    BY <1>1, <2>1, <2>2 DEF EventOpens
<1>2. CASE PerfInit \/ PerfInitLib
  BY <1>1, <1>2 DEF PerfInit, PerfInitLib
<1>3. CASE PerfDeinit
  BY <1>3 DEF PerfDeinit
<1>4. CASE AppOpens
  <2>1. PICK f \in Fds : Opens(f, "app")
    BY <1>4 DEF AppOpens
  <2>2. QED
    BY <1>4, <1>o, <2>1 DEF AppOpens
<1>5. ASSUME NEW f \in Fds, AppCloses(f) PROVE FdInv'
  BY <1>5 DEF AppCloses
<1>6. QED
  BY <1>2, <1>3, <1>4, <1>5 DEF FdNext

\* The descriptors of a program that uses the probe.
LEMMA FdsKept == ASSUME FdInv, [Next]_vars PROVE FdInv'
<1>1. CASE UsesFds
  BY <1>1, FdStep DEF UsesFds
<1>2. CASE UNCHANGED fdVars
  BY <1>2 DEF fdVars, FdInv, FdTypeOK, NotOurs, LeakExplained, Fds
<1>3. ASSUME [Next]_vars, ~UsesFds PROVE UNCHANGED fdVars
  BY <1>3 DEF Next, vars, CacheInit, CacheFlushSharedMemory, Calibrate, DecodeStarts,
              DecodeTurn, CacheEncode, Evict
<1>4. QED
  BY <1>1, <1>2, <1>3

LEMMA FdStart == ASSUME FdInit PROVE FdInv
<1>1. 0 \in Fds /\ perf_fd \in Fds \cup {-1} /\ (perf_fd # -1 => library = "libpmu" /\ perf_fd = 0)
  BY FdAssumption DEF FdInit, Fds
<1>2. FdTypeOK
  BY <1>1 DEF FdInit, FdTypeOK
<1>3. NotOurs /\ LeakExplained
  BY <1>1 DEF FdInit, NotOurs, LeakExplained
<1>4. QED
  BY <1>2, <1>3 DEF FdInv

\* The descriptors stay explained, in any order of calls.
LEMMA FdInvariant == Spec => []FdInv
<1>1. Init => FdInv
  BY FdStart DEF Init
<1>2. FdInv /\ [Next]_vars => FdInv'
  BY FdsKept
<1>3. QED
  BY <1>1, <1>2, PTL DEF Spec

\* A file of the program is read or closed in place of the counter only after
\* a perf_deinit (header/pmu_utils.h: perf_init, perf_deinit).
THEOREM DescriptorsExplained == Spec => []ForeignExplained
<1>1. FdInv => ForeignExplained
  BY DEF FdInv, FdTypeOK, NotOurs, ForeignExplained, IsForeign
<1>2. QED
  BY <1>1, FdInvariant, PTL

\* A counter is lost only to a second perf_init (header/pmu_utils.h:
\* perf_init).
THEOREM LeaksExplained == Spec => []LeakExplained
<1>1. FdInv => LeakExplained
  BY DEF FdInv
<1>2. QED
  BY <1>1, FdInvariant, PTL

-----------------------------------------------------------------------------
(* Passes *)

\* All but the pass, which is by turns, happens between passes.
PassInv ==
  /\ arch \in Archs /\ cached \subseteq PageSet /\ i \in 0 .. Pages
  /\ FlushWorks => /\ cached \subseteq touched
                   /\ i # Pages => \A n \in 0 .. i - 1 : Mix(n) \notin cached

LEMMA FlushDrops ==
  ASSUME arch \in Archs, FlushWorks, NEW c, NEW p
  PROVE  Flush(c, p) = c \ {p}
BY DEF Archs, FlushWorks, Flush, X86Flush, I386Flush, ArmFlush, PpcFlush, RiscvFlush

LEMMA FlushWithin ==
  ASSUME arch \in Archs, NEW c, NEW p PROVE Flush(c, p) \subseteq c
BY DEF Archs, Flush, X86Flush, I386Flush, ArmFlush, PpcFlush, RiscvFlush

LEMMA MixInRange == \A n \in Nat : Mix(n) \in PageSet
BY ProbeAssumption DEF Mix, PageSet

LEMMA PassKept == ASSUME PassInv, [Next]_vars PROVE PassInv'
<1> USE DEF PassInv
<1>1. CASE DecodeTurn
  <2> DEFINE p == Mix(i)
  <2>0. i \in 0 .. Pages /\ i # Pages /\ i' = i + 1 /\ arch' = arch /\ fence' = fence
    BY <1>1 DEF DecodeTurn, Idle
  <2>i. i \in 0 .. Pages - 1
    BY <2>0, ProbeAssumption
  <2>p. p \in PageSet
    BY <2>i, MixInRange
  <2>1. i \in 0 .. Pages - 1 /\ i' = i + 1 /\ arch' = arch /\ fence' = fence /\ p \in PageSet
    BY <2>0, <2>i, <2>p
  <2>2. cached' = Flush(cached \cup {p}, p) /\ touched' = touched \ {p}
    BY <1>1 DEF DecodeTurn
  <2>3. cached' \subseteq PageSet
    BY <2>1, <2>2, FlushWithin
  <2>4. FlushWorks => cached' = cached \ {p}
    <3>1. FlushWorks => Flush(cached \cup {p}, p) = (cached \cup {p}) \ {p}
      BY FlushDrops
    <3>2. QED
      BY <2>2, <3>1
  <2>5. FlushWorks' => FlushWorks
    BY <2>1 DEF FlushWorks
  <2>6. FlushWorks => \A n \in 0 .. i : Mix(n) \notin cached'
    BY <2>1, <2>4
  <2>7. (FlushWorks => \A n \in 0 .. i - 1 : Mix(n) \notin cached)'
    BY <2>1, <2>5, <2>6 DEF Mix
  <2>8. FlushWorks => cached' \subseteq touched'
    BY <2>2, <2>4
  <2>9. i' \in 0 .. Pages
    BY <2>1, ProbeAssumption
  <2>10. QED
    BY <2>1, <2>3, <2>5, <2>7, <2>8, <2>9
<1>2. CASE CacheInit \/ CacheFlushSharedMemory \/ \E p \in PageSet : CacheEncode(p)
  <2>1. i' = i /\ i = Pages /\ arch' = arch /\ fence' = fence
    BY <1>2 DEF CacheInit, CacheFlushSharedMemory, CacheEncode, Idle
  <2>2. cached' \subseteq PageSet
    BY <1>2 DEF CacheInit, CacheFlushSharedMemory, CacheEncode
  <2>3. FlushWorks => cached' \subseteq touched'
    <3>1. CASE CacheFlushSharedMemory
      BY <3>1, FlushDrops DEF CacheFlushSharedMemory
    <3>2. CASE CacheInit \/ \E p \in PageSet : CacheEncode(p)
      BY <3>2 DEF CacheInit, CacheEncode
    <3>3. QED
      BY <1>2, <3>1, <3>2
  <2>4. QED
    BY <2>1, <2>2, <2>3 DEF FlushWorks
<1>3. CASE Calibrate \/ UsesFds \/ UNCHANGED vars
  BY <1>3 DEF Calibrate, UsesFds, vars, FlushWorks, Mix
<1>4. CASE DecodeStarts
  <2>1. i' = 0 /\ UNCHANGED <<arch, fence, cached, touched>>
    BY <1>4 DEF DecodeStarts
  <2>2. 0 \in 0 .. Pages
    BY ProbeAssumption
  <2>3. QED
    BY <2>1, <2>2 DEF FlushWorks
<1>5. ASSUME NEW p \in PageSet, Evict(p) PROVE PassInv'
  BY <1>5 DEF Evict, FlushWorks, Mix
<1>6. QED
  BY <1>1, <1>2, <1>3, <1>4, <1>5 DEF Next

LEMMA PassStart == ASSUME Init PROVE PassInv
BY ProbeAssumption DEF Init, PassInv, FdInit, Archs

\* The shuffled order of 256 pages leaves no page out.
LEMMA MixCovers ==
  ASSUME Pages = 256, NEW q \in PageSet PROVE \E n \in PageSet : Mix(n) = q
<1> DEFINE n == ((q + 243) * 23) % 256
<1>1. n \in 0 .. 255 /\ (n * 167 + 13) % 256 = q
  BY DEF PageSet
<1>2. QED
  BY <1>1 DEF Mix, PageSet

\* With the 256 pages of the code a pass of cache_decode_pretty leaves none of
\* them cached, on every machine whose flush works.
THEOREM PassesClean == Pages = 256 => (Spec => PassLeavesNothing)
<1>1. Init => PassInv
  BY PassStart
<1>2. PassInv /\ [Next]_vars => PassInv'
  BY PassKept
<1>3. Pages = 256 /\ PassInv /\ [Next]_vars =>
        [DecodeTurn /\ i' = Pages /\ FlushWorks => cached' = {}]_vars
  <2> SUFFICES ASSUME Pages = 256, PassInv, DecodeTurn, i' = Pages, FlushWorks
               PROVE  cached' = {}
    OBVIOUS
  <2> DEFINE p == Mix(i)
  <2>i. i \in 0 .. 256 /\ i # 256 /\ i' = i + 1 /\ i' = 256
    BY DEF DecodeTurn, PassInv, Idle
  <2>1. i = 255 /\ \A n \in 0 .. 254 : Mix(n) \notin cached
    BY <2>i DEF PassInv
  <2>2. cached' = cached \ {p}
    <3>1. Flush(cached \cup {p}, p) = (cached \cup {p}) \ {p}
      BY FlushDrops DEF PassInv
    <3>2. QED
      BY <3>1 DEF DecodeTurn
  <2>3. \A n \in 0 .. 255 : Mix(n) \notin cached'
    BY <2>1, <2>2
  <2>4. cached' \subseteq PageSet
    BY <2>2 DEF PassInv
  <2>5. ASSUME NEW q \in cached' PROVE FALSE
    <3>1. PICK n \in PageSet : Mix(n) = q
      BY <2>4, MixCovers
    <3>2. n \in 0 .. 255
      BY DEF PageSet
    <3>3. QED
      BY <2>3, <3>1, <3>2
  <2>6. QED
    BY <2>5
<1>4. CASE Pages = 256
  <2>1. PassInv /\ [Next]_vars =>
          [DecodeTurn /\ i' = Pages /\ FlushWorks => cached' = {}]_vars
    BY <1>3, <1>4
  <2>2. QED
    BY <1>1, <1>2, <2>1, PTL DEF Spec, PassLeavesNothing
<1>5. QED
  BY <1>4

-----------------------------------------------------------------------------
(* Hits *)

\* A machine and a number of measurements that let a threshold between the
\* two times be found: the first of the flushed accesses is not one yet, and
\* both divisions round down.
Separable == MissTime >= HitTime + 4 /\ Count >= MissTime - HitTime

Between(n) == n \in Nat /\ HitTime < n /\ n <= MissTime

ThresholdInv == arch \in Archs /\ (~misled => Between(missTime))

\* What the assumptions say of the widths.
LEMMA Widths ==
  /\ Narrow \in Nat \ {0} /\ Wide \in Nat \ {0} /\ Narrow <= Wide
  /\ SizeMod \in {Narrow, Wide}
  /\ HitTime \in Nat /\ MissTime \in Nat /\ HitTime < MissTime
  /\ 2 * MissTime < Narrow
<1>1. Narrow <= Wide
  <2>1. SUFFICES ASSUME Wide < Narrow PROVE FALSE
    BY ProbeAssumption
  <2>2. Wide \in 0 .. Narrow - 1
    BY <2>1, ProbeAssumption
  <2>3. Wide % Narrow = Wide
    BY <2>2, ModSmall, ProbeAssumption
  <2>4. QED
    BY <2>3, ProbeAssumption
<1>2. 2 * MissTime < Narrow
  <2>1. Count * MissTime >= MissTime
    BY ProbeAssumption
  <2>2. QED
    BY <2>1, ProbeAssumption
<1>3. QED
  BY <1>1, <1>2, ProbeAssumption DEF SizeMod

\* Readings of a running clock differ by the time between them.
LEMMA ReadingsDiffer ==
  ASSUME arch \in Archs, ClockRuns, NEW d \in {HitTime, MissTime}, NEW se \in Readings(d)
  PROVE  /\ (se[2] - se[1]) % SizeMod = d
         /\ AsInt((se[2] - se[1]) % Wide) = d
<1>1. PICK t \in Starts : se \in Rdtsc(t) \X Rdtsc(t + d)
  BY DEF Readings
<1>2. t \in Int /\ d \in 0 .. Narrow - 1 /\ d \in 0 .. Wide - 1 /\ d \in 0 .. SizeMod - 1
      /\ SizeMod \in Nat \ {0}
  BY ProbeAssumption, Widths
<1>3. ASSUME NEW u PROVE Rdtsc(u) = {u % SizeMod}
  BY DEF Rdtsc, Archs, ClockRuns, X86Rdtsc, I386Rdtsc, RiscvRdtsc, PpcRdtsc, ArmRdtsc, SizeMod
<1>4. se[1] = t % SizeMod /\ se[2] = (t + d) % SizeMod
  BY <1>1, <1>3
<1>5. (se[2] - se[1]) % SizeMod = d
  BY <1>2, <1>4, DifferenceIsTime
<1>6. (se[2] - se[1]) \in {d, d - SizeMod}
  <2> DEFINE r == t % SizeMod   e == (t + d) % SizeMod
  <2>1. r \in Int
    BY <1>2
  <2>2. e \in {r + d, r + d - SizeMod}
    BY <1>2, ModPlus
  <2> HIDE DEF r, e
  <2>3. e - r \in {d, d - SizeMod}
    BY <1>2, <2>1, <2>2
  <2>4. QED
    BY <1>4, <2>3 DEF r, e
<1>7. ((se[2] - se[1]) % Wide) % Narrow = d
  <2> DEFINE x == se[2] - se[1]
  <2>1. d % Narrow = d /\ d % Wide = d
    BY <1>2, ModSmall, Widths
  <2>2. CASE x % Wide = d
    BY <2>1, <2>2
  <2>3. CASE SizeMod = Narrow /\ x = d - Narrow
    <3>0. Narrow \in Nat \ {0} /\ Wide \in Int
      BY Widths
    <3>1. PICK k \in Int : Wide = Narrow * k + (Wide % Narrow)
      BY <3>0, ModExists
    <3>2. Wide = Narrow * k + 0
      BY <3>1, ProbeAssumption
    <3> HIDE DEF x
    <3> DEFINE y == d - Narrow + Wide   j == k - 1
    <3>3. y \in 0 .. Wide - 1 /\ x = Wide * (-1) + y /\ x \in Int
      BY <1>2, <2>3, Widths
    <3>4. y \in Int /\ j \in Int /\ y = Narrow * j + d
      BY <1>2, <3>2, Widths
    <3> HIDE DEF y, j
    <3>5. x % Wide = y
      BY <3>3, ModUnique, Widths
    <3>6. y % Narrow = d
      BY <1>2, <3>4, ModUnique, Widths
    <3>7. QED
      BY <3>5, <3>6 DEF x
  <2>4. CASE x = d
    BY <2>1, <2>4
  <2>5. CASE SizeMod = Wide
    BY <1>5, <2>1, <2>5
  <2>6. QED
    BY <1>6, <2>3, <2>4, <2>5, Widths
<1>8. AsInt((se[2] - se[1]) % Wide) = d
  BY <1>2, <1>7, Widths DEF AsInt
<1>9. QED
  BY <1>5, <1>8

\* What is measured with a clock that runs and a flush that works.
LEMMA Measurements ==
  ASSUME arch \in Archs, ClockRuns
  PROVE  /\ \A r \in ReloadTimes(HitTime) : r = HitTime
         /\ \A d \in {HitTime, MissTime} : \A f \in FlushReloadTimes(d) : f = d
<1>1. ASSUME NEW r \in ReloadTimes(HitTime) PROVE r = HitTime
  <2>1. PICK se \in Readings(HitTime) : r = AsInt((se[2] - se[1]) % SizeMod)
    BY DEF ReloadTimes
  <2>2. (se[2] - se[1]) % SizeMod = HitTime
    BY ReadingsDiffer
  <2>3. HitTime % Narrow = HitTime
    BY ModSmall, Widths
  <2>4. QED
    BY <2>1, <2>2, <2>3, Widths DEF AsInt
<1>2. ASSUME NEW d \in {HitTime, MissTime}, NEW f \in FlushReloadTimes(d) PROVE f = d
  <2>1. PICK se \in Readings(d) : f = AsInt((se[2] - se[1]) % Wide)
    BY DEF FlushReloadTimes
  <2>2. QED
    BY <2>1, ReadingsDiffer
<1>3. QED
  BY <1>1, <1>2

\* detect_flush_reload_threshold finds a number between the two times.
LEMMA ThresholdBetween ==
  ASSUME Separable, arch \in Archs, ClockRuns, FlushWorks, NEW n \in Thresholds
  PROVE  Between(n)
<1> USE Widths
<1>c. Count \in Nat \ {0} /\ Count >= 4 /\ 2 * Count * MissTime < Narrow
  BY ProbeAssumption DEF Separable
<1>s. SizeMod \in Nat \ {0} /\ Narrow <= SizeMod
  OBVIOUS
<1>1. n = Threshold(ReloadTime(HitTime), FlushReloadTime(HitTime, MissTime))
  BY Measurements DEF Thresholds
<1>2. ReloadTime(HitTime) = HitTime
  <2> DEFINE sum == Count * HitTime
  <2>1. sum \in 0 .. SizeMod - 1
    BY <1>c, <1>s
  <2>2. sum % SizeMod = sum
    BY <2>1, <1>s, ModSmall
  <2>3. sum \div Count = HitTime
    BY <1>c, MeanOfEqual
  <2>4. QED
    BY <2>2, <2>3 DEF ReloadTime
<1>3. FlushReloadTime(HitTime, MissTime) = MissTime - 1
  <2> DEFINE sum == HitTime + (Count - 1) * MissTime
  <2>1. sum \in Nat /\ sum < Count * MissTime /\ Count * (MissTime - 1) <= sum
    BY <1>c DEF Separable
  <2>2. MissTime - 1 \in Nat /\ sum < Count * ((MissTime - 1) + 1)
    BY <1>c, <2>1
  <2>3. sum \in 0 .. SizeMod - 1
    BY <1>c, <1>s, <2>1
  <2> HIDE DEF sum
  <2>4. sum % SizeMod = sum
    BY <2>3, <1>s, ModSmall
  <2>5. sum \div Count = MissTime - 1
    BY <1>c, <2>1, <2>2, MeanOfAlmost
  <2>6. QED
    BY <2>4, <2>5 DEF FlushReloadTime, sum
<1>4. n = (((MissTime - 1) + 2 * HitTime) % SizeMod) \div 3
  BY <1>1, <1>2, <1>3 DEF Threshold
<1>5. (MissTime - 1) + 2 * HitTime \in 0 .. SizeMod - 1
  <2>1. 4 * MissTime <= Count * MissTime
    BY <1>c
  <2>2. QED
    BY <1>c, <1>s, <2>1
<1>6. n = ((MissTime - 1) + 2 * HitTime) \div 3
  <2>1. ((MissTime - 1) + 2 * HitTime) % SizeMod = (MissTime - 1) + 2 * HitTime
    BY <1>5, <1>s, ModSmall
  <2>2. QED
    BY <1>4, <2>1
<1>7. QED
  BY <1>6 DEF Separable, Between

LEMMA ThresholdKept ==
  ASSUME Separable, ThresholdInv, [Next]_vars PROVE ThresholdInv'
<1> USE DEF ThresholdInv
<1>1. CASE Calibrate
  <2>1. missTime' \in Thresholds /\ arch' = arch /\ misled' = ~ (ClockRuns /\ FlushWorks)
    BY <1>1 DEF Calibrate
  <2>2. CASE ClockRuns /\ FlushWorks
    BY <2>1, <2>2, ThresholdBetween DEF Between
  <2>3. CASE ~ (ClockRuns /\ FlushWorks)
    BY <2>1, <2>3
  <2>4. QED
    BY <2>2, <2>3
<1>2. CASE ~ Calibrate
  <2>1. UNCHANGED <<missTime, arch, misled>>
    BY <1>2 DEF Next, vars, CacheInit, CacheFlushSharedMemory, DecodeStarts, DecodeTurn,
                CacheEncode, Evict, UsesFds
  <2>2. QED
    BY <2>1 DEF Between
<1>3. QED
  BY <1>1, <1>2

\* A turn of a pass, with such a clock.
LEMMA HitMeansCached ==
  ASSUME ThresholdInv, DecodeTurn, ClockRuns, ~misled
  PROVE  hit' <=> Mix(i) \in cached
<1>1. hit' \in Hits(Mix(i))
  BY DEF DecodeTurn
<1>2. PICK se \in Readings(Time(Mix(i))) : hit' = ((se[2] - se[1]) % SizeMod < missTime)
  BY <1>1 DEF Hits
<1>3. Time(Mix(i)) \in {HitTime, MissTime}
  BY DEF Time
<1>4. (se[2] - se[1]) % SizeMod = Time(Mix(i))
  BY <1>3, ReadingsDiffer DEF ThresholdInv
<1>5. hit' <=> Time(Mix(i)) < missTime
  BY <1>2, <1>4
<1>6. missTime \in Nat /\ HitTime < missTime /\ missTime <= MissTime
  BY DEF ThresholdInv, Between
<1>7. CASE Mix(i) \in cached
  <2>1. Time(Mix(i)) < missTime
    BY <1>6, <1>7 DEF Time
  <2>2. QED
    BY <1>5, <1>7, <2>1
<1>8. CASE Mix(i) \notin cached
  <2>1. ~ (Time(Mix(i)) < missTime)
    BY <1>6, <1>8, Widths DEF Time
  <2>2. QED
    BY <1>5, <1>8, <2>1
<1>9. QED
  BY <1>7, <1>8

LEMMA ThresholdStart == ASSUME Init PROVE ThresholdInv
BY ProbeAssumption DEF Init, ThresholdInv, Between, Archs

\* With a clock that runs, now and when CACHE_MISS was measured, flush_reload
\* says hit if and only if the page is cached (header/cache_utils.h:
\* flush_reload, detect_flush_reload_threshold), on every machine whose times
\* are far enough apart to be told from one another by the arithmetic.
THEOREM HitsAreReal == Separable => (Spec => HitIsReal)
<1>1. CASE Separable
  <2>1. Init => ThresholdInv
    BY ThresholdStart
  <2>2. ThresholdInv /\ [Next]_vars => ThresholdInv'
    BY <1>1, ThresholdKept
  <2>3. ThresholdInv /\ [Next]_vars =>
          [DecodeTurn /\ ClockRuns /\ ~misled => (hit' <=> Mix(i) \in cached)]_vars
    BY HitMeansCached
  <2>4. QED
    BY <2>1, <2>2, <2>3, PTL DEF Spec, HitIsReal
<1>2. QED
  BY <1>1

\* What a pass decodes was accessed after it was last flushed or probed
\* (header/cache_utils.h: cache_decode_pretty), on the same machines.
THEOREM LettersWereEncoded == Separable => (Spec => DecodedWasEncoded)
<1> DEFINE Decoded == leaked' \notin {leaked, -1} /\ ClockRuns /\ FlushWorks /\ ~misled
                        => leaked' \in touched
<1>1. CASE Separable
  <2>1. Init => ThresholdInv /\ PassInv
    BY ThresholdStart, PassStart
  <2>2. ThresholdInv /\ PassInv /\ [Next]_vars => ThresholdInv' /\ PassInv'
    BY <1>1, ThresholdKept, PassKept
  <2>3. ThresholdInv /\ PassInv /\ [Next]_vars => [Decoded]_vars
    <3> SUFFICES ASSUME ThresholdInv, PassInv, Next, leaked' \notin {leaked, -1},
                        ClockRuns, FlushWorks, ~misled
                 PROVE  leaked' \in touched
      OBVIOUS
    <3>1. DecodeTurn
      BY DEF Next, CacheInit, CacheFlushSharedMemory, Calibrate, DecodeStarts,
             CacheEncode, Evict, UsesFds
    <3>2. hit' /\ leaked' = Mix(i)
      BY <3>1 DEF DecodeTurn
    <3>3. Mix(i) \in cached
      BY <3>1, <3>2, HitMeansCached
    <3>4. QED
      BY <3>2, <3>3 DEF PassInv
  <2>4. QED
    BY <2>1, <2>2, <2>3, PTL DEF Spec, DecodedWasEncoded
<1>2. QED
  BY <1>1

-----------------------------------------------------------------------------
(* Types *)

LEMMA AsIntInInt == \A n \in Int : AsInt(n) \in Int
BY ProbeAssumption DEF AsInt

\* Whatever the clock does, a threshold is a size_t.
LEMMA ThresholdInRange ==
  ASSUME arch \in Archs, NEW n \in Thresholds PROVE n \in 0 .. Wide - 1
<1> USE Widths
<1>s. SizeMod \in Nat \ {0} /\ SizeMod <= Wide /\ Count \in Nat \ {0}
  BY ProbeAssumption
<1>1. ASSUME NEW t \in Nat, NEW s \in Rdtsc(t) PROVE s \in Int
  BY <1>1 DEF Rdtsc, Archs, X86Rdtsc, I386Rdtsc, RiscvRdtsc, PpcRdtsc, ArmRdtsc
<1>2. ASSUME NEW d \in Nat, NEW se \in Readings(d) PROVE se[2] - se[1] \in Int
  <2>1. PICK t \in Starts : se \in Rdtsc(t) \X Rdtsc(t + d)
    BY DEF Readings
  <2>2. t \in Nat /\ t + d \in Nat
    BY ProbeAssumption
  <2>3. se[1] \in Rdtsc(t) /\ se[2] \in Rdtsc(t + d)
    BY <2>1
  <2>4. se[1] \in Int /\ se[2] \in Int
    BY <1>1, <2>2, <2>3
  <2>5. QED
    BY <2>4
<1>3. ASSUME NEW d \in Nat, NEW f \in FlushReloadTimes(d) \cup ReloadTimes(d)
      PROVE  f \in Int
  <2>1. PICK se \in Readings(d) : f = AsInt((se[2] - se[1]) % Wide)
                                  \/ f = AsInt((se[2] - se[1]) % SizeMod)
    BY DEF FlushReloadTimes, ReloadTimes
  <2> DEFINE x == se[2] - se[1]
  <2>2. x \in Int
    BY <1>2
  <2> HIDE DEF x
  <2>3. x % Wide \in Int /\ x % SizeMod \in Int
    BY <2>2, <1>s, ModRange
  <2>4. QED
    BY <2>1, <2>3, AsIntInInt DEF x
<1>4. PICK r \in Int, f \in Int, g \in Int : n = Threshold(ReloadTime(r), FlushReloadTime(f, g))
  <2>1. PICK r \in ReloadTimes(HitTime), f \in FlushReloadTimes(HitTime),
             g \in FlushReloadTimes(IF FlushWorks THEN MissTime ELSE HitTime) :
               n = Threshold(ReloadTime(r), FlushReloadTime(f, g))
    BY DEF Thresholds
  <2>2. r \in Int /\ f \in Int /\ g \in Int
    BY <1>3
  <2>3. QED
    BY <2>1, <2>2
<1>5. ASSUME NEW x \in Int PROVE (x % SizeMod) \div Count \in Int
  BY <1>s
<1>6. ReloadTime(r) \in Int
  <2>1. Count * r \in Int
    BY <1>s
  <2>2. QED
    BY <1>5, <2>1 DEF ReloadTime
<1>7. FlushReloadTime(f, g) \in Int
  <2>1. f + (Count - 1) * g \in Int
    BY <1>s
  <2>2. QED
    BY <1>5, <2>1 DEF FlushReloadTime
<1> DEFINE x == (FlushReloadTime(f, g) + 2 * ReloadTime(r)) % SizeMod
<1>8. x \in 0 .. SizeMod - 1
  BY <1>6, <1>7, <1>s
<1>9. n = x \div 3
  BY <1>4 DEF Threshold
<1> HIDE DEF x
<1>10. QED
  BY <1>8, <1>9, <1>s

\* Every variable keeps its type (header/cache_utils.h, the timing half;
\* header/pmu_utils.h, perf_init and perf_deinit).
THEOREM TypeCorrect == Spec => []TypeOK
<1> DEFINE T == /\ fence \in BOOLEAN /\ touched \subseteq PageSet
                /\ missTime \in 0 .. Wide - 1 /\ hit \in BOOLEAN
                /\ leaked \in Letters \cup {-1} /\ misled \in BOOLEAN
<1>1. Init => FdInv /\ PassInv /\ T
  <2> SUFFICES ASSUME Init PROVE FdInv /\ PassInv /\ T
    OBVIOUS
  <2>1. DefaultMiss \in 0 .. Wide - 1
    BY ProbeAssumption, Widths
  <2>2. FdInv /\ PassInv
    BY FdStart, PassStart DEF Init
  <2>3. QED
    BY <2>1, <2>2 DEF Init
<1>2. FdInv /\ PassInv /\ T /\ [Next]_vars => FdInv' /\ PassInv' /\ T'
  <2> SUFFICES ASSUME PassInv, T, [Next]_vars PROVE T'
    BY FdsKept, PassKept
  <2>1. CASE CacheInit \/ CacheFlushSharedMemory \/ DecodeStarts \/ UsesFds
             \/ (\E p \in PageSet : CacheEncode(p) \/ Evict(p)) \/ UNCHANGED vars
    BY <2>1 DEF CacheInit, CacheFlushSharedMemory, DecodeStarts, UsesFds, CacheEncode,
                Evict, vars
  <2>2. CASE Calibrate
    <3>1. missTime' \in 0 .. Wide - 1
      BY <2>2, ThresholdInRange DEF Calibrate, PassInv
    <3>2. misled' \in BOOLEAN
      BY <2>2 DEF Calibrate
    <3>3. QED
      BY <2>2, <3>1, <3>2 DEF Calibrate
  <2>3. CASE DecodeTurn
    <3>1. hit' \in BOOLEAN
      <4>1. hit' \in Hits(Mix(i))
        BY <2>3 DEF DecodeTurn
      <4>2. PICK se \in Readings(Time(Mix(i))) :
              hit' = ((se[2] - se[1]) % SizeMod < missTime)
        BY <4>1 DEF Hits
      <4>3. QED
        BY <4>2
    <3>2. leaked' \in Letters \cup {-1}
      BY <2>3 DEF DecodeTurn
    <3>3. QED
      BY <2>3, <3>1, <3>2 DEF DecodeTurn
  <2>4. QED
    BY <2>1, <2>2, <2>3 DEF Next
<1>3. FdInv /\ PassInv /\ T => TypeOK
  BY DEF FdInv, PassInv, TypeOK
<1>4. QED
  BY <1>1, <1>2, <1>3, PTL DEF Spec

=============================================================================
