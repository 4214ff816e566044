----------------------------- MODULE MsrSession -----------------------------
(***************************************************************************)
(* Processes that measure events with the x86_64 library (libpmu/pmu.c,    *)
(* header/pmu_utils.h) in the order of calls of tests/src/x86_64/basic.c:  *)
(*                                                                         *)
(*   pmu_open_msr, pmu_set_event, pmu_set_msr_event, pmu_set_pmc,          *)
(*   pmu_record_start, two pairs of reads, pmu_record_stop                 *)
(*                                                                         *)
(* where pmu_set_event or pmu_set_msr_event may be left out or repeated.   *)
(* An action is one system call or rdpmc (the lseek goes with the write    *)
(* before it): between any two of them other processes make theirs, on the *)
(* same registers, and the core counts.                                    *)
(*                                                                         *)
(* A core's general counters are modelled, its fixed ones are not.  The    *)
(* event code a program selects has the enable bit 22 set, as the codes of *)
(* the tests have.  rdpmc is not refused: pmu_utils.ko is loaded.          *)
(***************************************************************************)
EXTENDS MsrMap

CONSTANTS
  Procs,      \* the processes
  Pinned,     \* those that run on the core they measure (taskset -c)
  Requests,   \* the core numbers programs ask for
  Cores,      \* the cores of the machine
  CoreMod,    \* the library takes core numbers modulo this: 512
  Ids,        \* the counters programs use: numbers that are announced
  Events,     \* the event codes programs select
  MaxFds,     \* how many files a process may have open
  MaxCount    \* bound: no counter counts further than this

ASSUME SessionAssumption ==
  /\ Pinned \subseteq Procs
  /\ Requests \subseteq Nat /\ Cores \subseteq Nat
  /\ CoreMod \in Nat \ {0}
  /\ Ids \subseteq 0 .. MsrsNum(Vendor) - 1 /\ Ids # {}
  /\ "off" \notin Events
  /\ MaxFds \in Nat /\ MaxCount \in Nat

VARIABLES
  sel,      \* sel[c][i]: the event that counter i of core c selects
  pmc,      \* pmc[c][i]: the value of that counter
  ctrl,     \* ctrl[c]: the counters enabled in the global control register
  pc,       \* pc[p]: the system call process p makes next
  core,     \* core[p]: the core p measures
  id,       \* id[p]: the counter it uses
  event,    \* event[p]: the event it counts
  cpu,      \* cpu[p]: the core p runs on
  fd,       \* fd[p]: is p's msr_fd a file or -1?
  off,      \* off[p]: the file offset of msr_fd
  open,     \* open[p]: how many files p has open
  vendor,   \* vendor[p]: pmu_vender
  msr,      \* msr[p]: what p has read with pmu_get_MSR_pmc, first and last
  rdpmc,    \* rdpmc[p]: what it last read with pmu_get_rdpmc, if it is pinned
  seen,     \* seen[p]: history; p's events on p's core between its MSR reads
  touched   \* touched[p]: history; the counters for which other processes
            \* wrote registers of p's core since p last disabled its counters

hwVars   == <<sel, pmc, ctrl>>
argVars  == <<core, id, event, cpu>>
fileVars == <<fd, off, open>>
readVars == <<msr, rdpmc, seen>>
vars     == <<hwVars, pc, argVars, fileVars, vendor, readVars, touched>>

Steps == {"start", "open", "disable", "select", "clear", "record",
          "msr1", "rdpmc1", "msr2", "rdpmc2", "stop", "done"}

\* The steps of a session at which the events p means to count go by.
Window == {"rdpmc1", "msr2"}

Readings == -1 .. MaxCount

TypeOK ==
  /\ sel \in [Cores -> [Counters -> Events \cup {"off"}]]
  /\ pmc \in [Cores -> [Counters -> 0..MaxCount]]
  /\ ctrl \in [Cores -> SUBSET Counters]
  /\ pc \in [Procs -> Steps]
  /\ core \in [Procs -> 0 .. CoreMod - 1]
  /\ id \in [Procs -> Ids]
  /\ event \in [Procs -> Events \cup {"off"}]
  /\ cpu \in [Procs -> Cores]
  /\ fd \in [Procs -> {"bad", "ok"}]
  /\ off \in [Procs -> {<<"0000", 0>>, GlobalCtrlAddr}]
  /\ open \in [Procs -> 0..MaxFds]
  /\ vendor \in [Procs -> {"UNCHECK", "INTEL", "AMD"}]
  /\ msr \in [Procs -> Readings \X Readings]
  /\ rdpmc \in [Procs -> 0..MaxCount]
  /\ seen \in [Procs -> 0..MaxCount]
  /\ touched \in [Procs -> SUBSET Ids]

\* The counter of a process that has chosen none.
AnId == CHOOSE i \in Ids : TRUE

Init ==
  /\ sel = [c \in Cores |-> [i \in Counters |-> "off"]]
  /\ pmc = [c \in Cores |-> [i \in Counters |-> 0]]
  /\ ctrl = [c \in Cores |-> {}]
  /\ pc = [p \in Procs |-> "start"]
  /\ core = [p \in Procs |-> 0]
  /\ id = [p \in Procs |-> AnId] /\ event = [p \in Procs |-> "off"]
  /\ cpu \in [Procs -> Cores]
  /\ fd = [p \in Procs |-> "bad"]
  /\ off = [p \in Procs |-> <<"0000", 0>>]
  /\ open = [p \in Procs |-> 0]
  /\ vendor = [p \in Procs |-> "UNCHECK"]
  /\ msr = [p \in Procs |-> <<0, 0>>]
  /\ rdpmc = [p \in Procs |-> 0]
  /\ seen = [p \in Procs |-> 0]
  /\ touched = [p \in Procs |-> {}]

-----------------------------------------------------------------------------
(* System calls on the MSR device *)

\* The register of core[p] that an access of p at an address reaches.  Where
\* it reaches none the call returns -1, and nobody is told: the library puts
\* the result into a size_t and tests it for being zero.
Reaches(p, a) == IF fd[p] = "ok" THEN RegisterAt(a) ELSE NoReg

\* p writes a register of its core: to the others that are in a session
\* there it has been touched for p's counter.  A new session of p, or the end
\* of one, forgets what others have touched.
Touch(p, a) ==
  touched' = [q \in Procs |->
    IF q = p /\ pc[p] \in {"disable", "stop"} THEN {}
    ELSE IF /\ q # p /\ core[q] = core[p] /\ Reaches(p, a) # NoReg
            /\ pc[q] \notin {"start", "open", "disable", "done"}
    THEN touched[q] \cup {id[p]} ELSE touched[q]]

\* A write of p at address a: a code into an event select register, a number
\* into a counter, a mask into the control register.  A code that lands in a
\* counter leaves a large number there.  A mask with a counter that there is
\* not is refused, and the control register stays as it is.
Write(p, a, code, number, mask) ==
  LET r == Reaches(p, a)
      c == core[p]
  IN  /\ sel' = IF r.kind = "sel" THEN [sel EXCEPT ![c][r.i] = code] ELSE sel
      /\ pmc' = IF r.kind = "pmc" THEN [pmc EXCEPT ![c][r.i] = number] ELSE pmc
      /\ ctrl' = IF r.kind = "ctrl" /\ mask \subseteq Counters
                 THEN [ctrl EXCEPT ![c] = mask] ELSE ctrl

Goto(p, step) == pc' = [pc EXCEPT ![p] = step]

\* pmu_get_cpu_vendor detects the vendor once and remembers it.
GetCpuVendor(p, v) ==
  /\ v \in IF vendor[p] = "UNCHECK" THEN Detectable ELSE {vendor[p]}
  /\ vendor' = [vendor EXCEPT ![p] = v]

\* Mutant: without core %= 512.
OpenMsrUnreduced(p, request) ==
  /\ core' = [core EXCEPT ![p] = request]
  /\ IF request \in Cores /\ open[p] < MaxFds
     THEN /\ fd' = [fd EXCEPT ![p] = "ok"]
          /\ open' = [open EXCEPT ![p] = @ + 1]
     ELSE /\ fd' = [fd EXCEPT ![p] = "bad"]
          /\ UNCHANGED open
  /\ off' = [off EXCEPT ![p] = <<"0000", 0>>]

\* Mutant: always /dev/cpu/0/msr.
OpenMsrFirst(p, request) ==
  /\ core' = [core EXCEPT ![p] = 0]
  /\ IF 0 \in Cores /\ open[p] < MaxFds
     THEN /\ fd' = [fd EXCEPT ![p] = "ok"]
          /\ open' = [open EXCEPT ![p] = @ + 1]
     ELSE /\ fd' = [fd EXCEPT ![p] = "bad"]
          /\ UNCHANGED open
  /\ off' = [off EXCEPT ![p] = <<"0000", 0>>]

\* open of /dev/cpu/N/msr, N < 512: there must be such a core and a free
\* descriptor.  The file offset is 0.
OpenMsr(p, request) ==
  LET c == request % CoreMod
  IN  /\ core' = [core EXCEPT ![p] = c]
      /\ IF c \in Cores /\ open[p] < MaxFds
         THEN /\ fd' = [fd EXCEPT ![p] = "ok"]
              /\ open' = [open EXCEPT ![p] = @ + 1]
         ELSE /\ fd' = [fd EXCEPT ![p] = "bad"]
              /\ UNCHANGED open
      /\ off' = [off EXCEPT ![p] = <<"0000", 0>>]

-----------------------------------------------------------------------------
(* The calls of a program *)

\* pmu_open_msr.
PmuOpenMsr(p, request) ==
  /\ pc[p] \in {"start", "done"}
  /\ p \in Pinned => request % CoreMod = cpu[p]
  /\ OpenMsr(p, request)
  /\ Goto(p, "open")
  /\ UNCHANGED <<hwVars, id, event, cpu, vendor, readVars, touched>>

\* The program decides which counter is to count what.
Choose(p, i, e) ==
  /\ id' = [id EXCEPT ![p] = i] /\ event' = [event EXCEPT ![p] = e]
  /\ Goto(p, "disable")
  /\ UNCHANGED <<hwVars, cpu, vendor, readVars, touched>>

\* pmu_set_event begins with an open of its own, and leaves the file that
\* msr_fd named before open.
PmuSetEvent(p, request, i, e) ==
  /\ pc[p] \in {"start", "open", "done"}
  /\ p \in Pinned => request % CoreMod = cpu[p]
  /\ OpenMsr(p, request)
  /\ Choose(p, i, e)

\* pmu_set_msr_event on the file already open.
PmuSetMsrEvent(p, i, e) ==
  /\ pc[p] \in {"open", "clear", "done"}
  /\ Choose(p, i, e)
  /\ UNCHANGED <<core, fileVars>>

\* Mutant: the counters are left running.
DisableNothing(p) ==
  /\ pc[p] = "disable" /\ Goto(p, "select") /\ Touch(p, GlobalCtrlAddr)
  /\ UNCHANGED <<hwVars, argVars, fileVars, vendor, readVars>>

\* Both disable all counters, ...
Disable(p) ==
  /\ pc[p] = "disable"
  /\ Write(p, GlobalCtrlAddr, "off", 0, {})
  /\ Touch(p, GlobalCtrlAddr)
  /\ Goto(p, "select")
  /\ UNCHANGED <<argVars, fileVars, vendor, readVars>>

\* Mutant: without the lseek.
SeekForgotten(p) == UNCHANGED off

\* lseek to IA32_PERF_GLOBAL_CTRL; on descriptor -1 it fails.
Seek(p) == off' = IF fd[p] = "ok" THEN [off EXCEPT ![p] = GlobalCtrlAddr] ELSE off

\* ... select the event, and move the file offset, which concerns nobody else.
Select(p) ==
  /\ pc[p] = "select"
  /\ \E v \in {"INTEL", "AMD"} :
       LET a == EventSelAddr(v, id[p])
       IN  /\ GetCpuVendor(p, v)
           /\ Write(p, a, event[p], MaxCount, {}) /\ Touch(p, a)
  /\ Seek(p)
  /\ Goto(p, "clear")
  /\ UNCHANGED <<argVars, fd, open, readVars>>

\* pmu_set_pmc(fd, id, 0).
Clear(p) ==
  /\ pc[p] = "clear"
  /\ \E v \in {"INTEL", "AMD"} :
       LET a == CounterAddr(v, id[p])
       IN  /\ GetCpuVendor(p, v)
           /\ Write(p, a, "off", 0, {}) /\ Touch(p, a)
  /\ Goto(p, "record")
  /\ UNCHANGED <<argVars, fileVars, readVars>>

\* pmu_record_start and pmu_record_stop write eight bytes at the file offset,
\* which the MSR device does not advance, and look at no result.
RawWrite(p, mask) ==
  /\ Write(p, off[p], "off", 0, mask) /\ Touch(p, off[p])
  /\ UNCHANGED <<core, cpu, fileVars, vendor>>

\* Mutant: start writes the value of stop.
RecordStartStops(p) ==
  /\ pc[p] = "record" /\ RawWrite(p, {}) /\ Goto(p, "msr1")
  /\ UNCHANGED <<id, event, readVars>>

RecordStart(p) ==
  /\ pc[p] = "record" /\ RawWrite(p, RecordMask) /\ Goto(p, "msr1")
  /\ UNCHANGED <<id, event, readVars>>

\* The session is over; the program has printed what it measured, and chooses
\* a counter and an event anew in the next.
Forget(p) ==
  /\ id' = [id EXCEPT ![p] = AnId] /\ event' = [event EXCEPT ![p] = "off"]
  /\ msr' = [msr EXCEPT ![p] = <<0, 0>>] /\ rdpmc' = [rdpmc EXCEPT ![p] = 0]
  /\ seen' = [seen EXCEPT ![p] = 0]

RecordStop(p) == pc[p] = "stop" /\ RawWrite(p, {}) /\ Goto(p, "done") /\ Forget(p)

\* pmu_get_MSR_pmc: a failed pread leaves the initial -1.
ReadPmc(p, k) ==
  /\ \E v \in {"INTEL", "AMD"} :
       LET a == CounterAddr(v, id[p])
           r == Reaches(p, a)
       IN  /\ GetCpuVendor(p, v)
           /\ msr' = [msr EXCEPT ![p][k] = IF r.kind = "pmc" THEN pmc[core[p]][r.i] ELSE -1]
  /\ UNCHANGED <<hwVars, argVars, fileVars, rdpmc, seen, touched>>

GetMsrPmc1(p) == pc[p] = "msr1" /\ ReadPmc(p, 1) /\ Goto(p, "rdpmc1")

GetMsrPmc2(p) == pc[p] = "msr2" /\ ReadPmc(p, 2) /\ Goto(p, "rdpmc2")

\* pmu_get_rdpmc reads the counter of the core the process is on: what one
\* that is not pinned reads there is not kept.  There is no way on for a
\* process that reads a counter that does not exist: it ends.
Rdpmc(p) ==
  /\ id[p] \in Counters
  /\ rdpmc' = IF p \in Pinned THEN [rdpmc EXCEPT ![p] = pmc[cpu[p]][id[p]]] ELSE rdpmc
  /\ UNCHANGED <<hwVars, argVars, fileVars, vendor, msr, seen, touched>>

GetRdpmc1(p) == pc[p] = "rdpmc1" /\ Rdpmc(p) /\ Goto(p, "msr2")

GetRdpmc2(p) == pc[p] = "rdpmc2" /\ Rdpmc(p) /\ Goto(p, "stop")

\* A process ends, at any point: its files are closed, the registers stay
\* as they are, and a new process starts with nothing detected.
ProcEnds(p) ==
  /\ pc[p] # "start"
  /\ Goto(p, "start")
  /\ core' = [core EXCEPT ![p] = 0]
  /\ fd' = [fd EXCEPT ![p] = "bad"] /\ open' = [open EXCEPT ![p] = 0]
  /\ off' = [off EXCEPT ![p] = <<"0000", 0>>]
  /\ vendor' = [vendor EXCEPT ![p] = "UNCHECK"]
  /\ Forget(p)
  /\ touched' = [touched EXCEPT ![p] = {}]
  /\ UNCHANGED <<hwVars, cpu>>

-----------------------------------------------------------------------------
(* The machine *)

\* Counter i of core c is running: it has an event selected and, on Intel,
\* the control register enables it.
Running(c, i) == sel[c][i] # "off" /\ (Vendor = "INTEL" => i \in ctrl[c])

\* An event happens on core c, and the counters that count it advance.
Happens(c, e) ==
  LET hit(i) == Running(c, i) /\ sel[c][i] = e
      sees(p) == pc[p] \in Window /\ core[p] = c /\ event[p] = e
  IN  /\ \A i \in Counters : hit(i) => pmc[c][i] < MaxCount
      /\ \A p \in Procs : sees(p) => seen[p] < MaxCount
      /\ pmc' = [pmc EXCEPT ![c] =
                   [i \in Counters |-> IF hit(i) THEN @[i] + 1 ELSE @[i]]]
      /\ seen' = [p \in Procs |-> IF sees(p) THEN seen[p] + 1 ELSE seen[p]]
      /\ UNCHANGED <<sel, ctrl, pc, argVars, fileVars, vendor, msr, rdpmc, touched>>

Migrate(p, c) ==
  /\ p \notin Pinned /\ c # cpu[p]
  /\ cpu' = [cpu EXCEPT ![p] = c]
  /\ UNCHANGED <<hwVars, pc, core, id, event, fileVars, vendor, readVars, touched>>

-----------------------------------------------------------------------------

Call(p) ==
  \/ \E r \in Requests, i \in Ids, e \in Events :
       PmuOpenMsr(p, r) \/ PmuSetEvent(p, r, i, e)
  \/ \E i \in Ids, e \in Events : PmuSetMsrEvent(p, i, e)
  \/ Disable(p) \/ Select(p) \/ Clear(p)
  \/ RecordStart(p) \/ GetMsrPmc1(p) \/ GetRdpmc1(p)
  \/ GetMsrPmc2(p) \/ GetRdpmc2(p) \/ RecordStop(p)

Next ==
  \/ \E p \in Procs : Call(p) \/ ProcEnds(p) \/ (\E c \in Cores : Migrate(p, c))
  \/ \E c \in Cores, e \in Events : Happens(c, e)

Spec == Init /\ [][Next]_vars

-----------------------------------------------------------------------------
(* Properties *)

\* What a session has measured once it has read twice.
Measured(p) == msr[p][2] - msr[p][1]

HasMeasured(p) == pc[p] \in {"rdpmc2", "stop"}

\* The library works with p's session: the file is open, and the machine is
\* what pmu_get_cpu_vendor took it for.
Served(p) == fd[p] = "ok" /\ vendor[p] = Vendor

\* The counters that pmu_record_start enables: 0 to 3, on Intel if the
\* machine has all four, as it refuses to enable any otherwise.
Recorded(i) == i < 4 /\ (Vendor = "INTEL" => NumCounters >= 4)

\* A session on whose core nobody else wrote a register since it disabled
\* the counters measures exactly its events, whatever earlier sessions left
\* in the registers, on the counters that pmu_record_start enables
\* (header/pmu_utils.h); on the others, which pmu_get_MSRs_num may announce,
\* it measures nothing.
MeasuredIsActual ==
  \A p \in Procs : HasMeasured(p) /\ Served(p) /\ touched[p] = {} =>
    Measured(p) = IF Recorded(id[p]) THEN seen[p] ELSE 0

\* The counters whose registers p's counter shares an address with: itself,
\* and one whose event select is where the library expects p's counter.
Neighbours(p) ==
  {i \in Ids : i = id[p] \/ EventSelAddr(Vendor, i) = CounterAddr(Vendor, id[p])}

\* Sessions that share a core but no counter can lose events to each other's
\* writes of the control register, but never count one that did not happen.
NeverOvercounts ==
  \A p \in Procs : HasMeasured(p) /\ Neighbours(p) \cap touched[p] = {} =>
    Measured(p) <= seen[p]

\* On AMD they do not even lose any: each counter has its own enable bit.
\* But the counter 4 that pmu_get_MSRs_num announces has its event select
\* where counter 0 is: who selects an event for it writes into counter 0.
CountersAreIndependent ==
  \A p \in Procs : HasMeasured(p) /\ Served(p) /\ Neighbours(p) \cap touched[p] = {} =>
    Measured(p) = seen[p]

\* pmu_record_start and pmu_record_stop write no register but
\* IA32_PERF_GLOBAL_CTRL, although neither names it: they rely on where the
\* calls before them left the offset of the file.
RawWritesHitControl ==
  \A p \in Procs : pc[p] \in {"record", "stop"} /\ fd[p] = "ok" =>
    off[p] = GlobalCtrlAddr

\* "DISABLE ALL COUNTERS" (pmu_set_event, pmu_set_msr_event): when the event
\* is selected no counter of the core runs, unless someone else started one.
DisabledWhenSelected ==
  \A p \in Procs : pc[p] = "select" /\ fd[p] = "ok" /\ touched[p] = {} =>
    \A i \in Counters : ~Running(core[p], i)

\* A process that stays on the core it measures reads with rdpmc the counter
\* it reads through the MSR device: values that never fall from one read to
\* the next (the assertions of tests/src/x86_64/basic.c), unless another
\* session uses its counter.
ReadsAgree ==
  \A p \in Pinned : Served(p) /\ id[p] \notin touched[p] =>
    /\ pc[p] = "msr2" => msr[p][1] <= rdpmc[p]
    /\ pc[p] = "rdpmc2" => rdpmc[p] <= msr[p][2]
    /\ pc[p] = "stop" => msr[p][2] <= rdpmc[p]

-----------------------------------------------------------------------------
(* Sessions as Measurement has them *)

\* p reads a counter of the machine with pmu_get_MSR_pmc.
Dev(p) == Served(p) /\ id[p] \in Counters

\* Nobody has written a register of p's counter; nobody has written one that
\* matters to whether it counts.
Quiet(p) == Neighbours(p) \cap touched[p] = {}
Calm(p)  == IF Vendor = "AMD" THEN Quiet(p) ELSE touched[p] = {}

\* Without a counter both reads fail alike.
Trust(p) ==
  IF Dev(p) /\ Calm(p) /\ Recorded(id[p]) THEN "exact"
  ELSE IF Dev(p) /\ ~Quiet(p) THEN "none" ELSE "atmost"

Phase(p) ==
  IF pc[p] \in Window THEN "counting" ELSE IF HasMeasured(p) THEN "done" ELSE "out"

SessionOf(p) ==
  [phase |-> Phase(p),
   trust |-> IF Phase(p) = "out" THEN "none" ELSE Trust(p),
   count |-> seen[p],
   value |-> IF HasMeasured(p) THEN Measured(p) ELSE 0]

Promise ==
  INSTANCE Measurement WITH session <- [p \in Procs |-> SessionOf(p)], Wrap <- 0

\* Every session begins, counts and ends as Measurement says: it may be
\* disturbed between any two calls, and comes to trust less each time, but
\* ends with a result that is as good as the trust that is left
\* (header/pmu_utils.h: pmu_set_event, pmu_record_start, pmu_get_MSR_pmc).
ImplementsMeasurement == Promise!Spec

=============================================================================
