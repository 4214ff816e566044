# A TLA+ model of pmu-utils

pmu-utils lets user programs count processor events: a kernel module opens the
counters to user code, a C library sets them up, starts, stops and reads them
on x86_64, aarch64 and riscv, and a set of Python scripts turns the vendors'
event files into a C header of event codes. This directory holds a model of it
in TLA+, the configurations that TLC checks it with, and theorems about it that
TLAPS proves. `PROJECT.json` lists the components, runs, mutants, findings,
hazards and theorems, and maps every definition to the source lines it models.
All source paths below are relative to `src/`.

    tlc -workers 2 -config X.cfg M      checks one run (the table of runs below)
    tlapm M.tla                         checks the proofs of module M

## The system

| component | state it keeps | operations | talks to |
|---|---|---|---|
| kernel module, `module/pmu_utils.c` | control bits of every CPU (CR4.PCE; PMUSERENR, PMCNTENSET, PMCR, ...; SCOUNTEREN); the misc device | `pmu_driver_init`, `pmu_driver_exit`, `enable_pmu`, `disable_pmu`, `device_open`, `device_ioctl`, `device_release` | kernel: `on_each_cpu`, misc layer, module references |
| `pmu_init`, `pmu_deinit`, `header/pmu_utils.h` | `pmu_fd` | open, ioctl, close | the device |
| x86_64 counter library, `header/pmu_utils.h`, `libpmu/pmu.c` | `pmu_vender`; the caller's `msr_fd` and its file offset; the counters of a core | `pmu_open_msr`, `pmu_set_event`, `pmu_set_msr_event`, `pmu_set_pmc`, `pmu_record_start`, `pmu_record_stop`, `pmu_get_MSR_pmc`, `pmu_get_rdpmc` | `/dev/cpu/N/msr`, `rdpmc`; other processes through the registers |
| event codes, `header/pmu_utils.h`, `scripts/pmu_*_utils.py` | none | packing the fields of an event, once in C and once in Python | each other, through the generated header |
| aarch64 counter library, `header/pmu_utils.h` | event types, PMCNTENSET, counters of a core | `pmu_set_event`, `pmu_record_stop`, `pmu_get_rdpmc`, with the reset that `pmu_init` causes, in the order of `tests/src/aarch64/set_pmu.c` | the registers; other processes through them |
| perf_event counter, `header/pmu_utils.h`, `libpmu/pmu.c` | `perf_fd` | `perf_init` (two of them), `perf_deinit`, the reads of `rdtsc` | `perf_event_open`; the program's own files through the descriptor table |
| timing and thresholds, `header/cache_utils.h` | `mem`, `CACHE_MISS` | `rdtsc`, `flush`, `flush_reload`, `flush_reload_t`, `reload_t`, `detect_flush_reload_threshold`, `cache_init`, `cache_encode`, `cache_decode_pretty`, `cache_flush_shared_memory` | the cache; the perf_event counter as a clock |
| fault handling, `header/cache_utils.h` | one jump buffer, the signal dispositions and mask; with TSX a transaction | `try_start`, `try_end`, `try_abort`, the handler | signals, the program's own handlers |
| event download, `scripts/*_event_download.py`, `program_utils.py` | files: map file, event files, `this-cpu-pmu-events.json` | `getfile`, `parse_map_file`, `eventlist_name`, the `main`s | the network, the file system, earlier runs |
| header generation, `scripts/pmu_init.py`, `pmu_*_utils.py` | a dictionary from codes to events; the header | `get_doc_pmu_dict`, `export_c_header`, `export_header` | the event file |
| CPU detection, `scripts/cpuinfo.py` | none | parsing `/proc/cpuinfo` | header generation |

What is hard about it, and what must hold:

- **Kernel module.** Handlers run on each CPU at a time of its own, while
  processes run them too (through the ioctl, preemptibly), migrate, die and are
  replaced, and CPUs are plugged in and out. A process that has called
  `pmu_init` holds nothing of the module afterwards. Loading must reach every
  CPU; an rmmod must leave none readable, whoever was inside `device_ioctl` when
  it began; a pinned process must keep what it was granted until then; insmod,
  rmmod and the open device must come to an end.
- **x86_64 library.** There is one set of registers per core and no lock. Every
  session disables all counters of its core, `pmu_record_start` and
  `pmu_record_stop` write at a file offset that an earlier call left behind, no
  error is reported, and a process may be on another core than the one whose MSR
  file it has open. An undisturbed session must be exact, a disturbed one must at
  least not invent events.
- **Event codes and header generation.** Fields are or-ed in C, without masks
  and in 32 bits on Intel, and added in Python in integers of any width; events
  are told apart by spelling and again by value, and by less than tells them
  apart. The two packings must agree, and an event may only be lost where that
  shows in the files.
- **Event download.** Files are written in place and later trusted because they
  exist; requests are retried and given up, or never return; failures are
  swallowed and tried in another way; the header is emptied before it is written.
  No header may be made of a broken file, a header that is lost must be one that
  can be made again, a run must end unless a request hangs, and once nothing
  fails a run should succeed.
- **aarch64 library.** Write-one-to-set registers read, changed and written back
  as if they were plain, from user code that may be migrated between the two
  accesses; counters of 32 bits said to be 64; a `pmu_init` of anybody clears
  everybody's counters. Nobody may be stopped by somebody else's session, and a
  difference of readings must be exact unless one of these came between.
- **perf_event.** A descriptor kept in an unsigned variable, overwritten by the
  next `perf_init`, closed whether or not it was opened and kept after that: it
  must not come to be a file of the program's own without the program having
  asked for it.
- **Timing.** Clocks of different widths and sources, subtractions in unsigned
  and signed types of other widths, a threshold from integer averages, a flush
  that does not flush everywhere, a loop in a shuffled order. A probe must tell
  cached from not cached, also where the clock wraps.
- **Fault handling.** Handlers installed one by one before the jump buffer is
  set, one buffer for nested and repeated blocks, a `setjmp` in a function that
  has returned, dispositions reset to the default and not restored, a handler
  left by a jump with its signal blocked, and a second implementation with TSX
  whose `try_end` does nothing. Faults must be caught again and again, and
  control may only return to a block that is open.

## Modules

| module | models | kind |
|---|---|---|
| `CpuPmu` | the control bits of a CPU; `enable_pmu` and `disable_pmu` as sequences of register accesses, per architecture | operators |
| `PmuDriver` | the module's life on a multiprocessor, with the processes that call `pmu_init` | state machine, extends `CpuPmu` |
| `AccessGate` | what the module promises, in four states and one set | abstract specification, implemented by `PmuDriver` |
| `PmuDriverProofs` | theorems about `PmuDriver` | proofs |
| `MsrMap` | the addresses the library computes, and the registers behind them | operators |
| `MsrSession`, `MCMsrSession` | several processes measuring with the x86_64 library | state machine, extends `MsrMap` |
| `MsrSessionProofs` | theorems about `MsrMap` and `MsrSession` | proofs |
| `ArmPmu`, `MCArmPmu` | several processes measuring with the aarch64 library | state machine |
| `ArmPmuProofs` | theorems about `ArmPmu` | proofs |
| `Measurement` | what the library promises of a session on both architectures | abstract specification, implemented by `MsrSession` and `ArmPmu` |
| `PerfFd` | `perf_fd` in a program's descriptor table | state machine, without a specification of its own |
| `CacheProbe` | clocks, flushes, probes and thresholds of `cache_utils.h` | state machine, extends and composes `PerfFd` |
| `CacheProbeProofs` | theorems about `PerfFd` and `CacheProbe` | proofs |
| `TryCatch` | `try_start`, `try_end`, `try_abort` and the handler | state machine |
| `TryCatchProofs` | theorems about `TryCatch` | proofs |
| `EventCode` | event codes as sets of bit positions; C and Python packing | operators |
| `EventTable`, `MCEventTable` | from event file to header rows, per vendor | state machine, extends `EventCode` |
| `EventTableProofs` | theorems about `EventCode` and `EventTable` | proofs |
| `EventFiles` | files, downloads, retries, kills and repeated runs | state machine |
| `EventFilesProofs` | theorems about `EventFiles` | proofs |

Definitions carry the names of the source where TLA+ allows; those marked
"Mutant" are not used by the specifications. They are the bugs each
property is shown to notice (`PROJECT.json`, "mutants").

### PmuDriver and CpuPmu

The control registers of a CPU are the set of those of their bits that are set.
A handler is a sequence of steps, each turning bits on and off, with the
semantics of the register it writes: a zero to PMCNTENSET_EL0 does nothing,
`csrsi` only sets. `on_each_cpu` takes the CPUs online at the call (`pending`)
and runs the whole handler on each by an interrupt (`EnableOn`, `DisableOn`);
the module goes on when all are done. In the ioctl the steps are single actions
(`IoctlStep`), with `Migrate` and everything else in between.

    Insmod, EnableOn, MiscRegister(Fails), InitReturns   pmu_driver_init
    Rmmod, DisableOn, MiscDeregister                     pmu_driver_exit
    PmuOpen, IoctlStep, IoctlBadFd, PmuClose             pmu_init, with device_ioctl
    ReadCounter                                          the reads of the test programs
    ProcEnds, Migrate, CpuUp, CpuDown                    the kernel's part

When a process has ended another may start in its place on any CPU, so a pinned
one may come to a CPU that `on_each_cpu` did not reach. A CPU that goes offline
loses its bits, and the kernel moves the processes on it to others, pinned ones
too, which are then no longer bound: `pinned` is the set of those that still are.

`ModuleRefs` is `.owner = THIS_MODULE`: the loader refuses rmmod while a file is
open, and an open once rmmod has begun. `SizeT` is the width of `pmu_fd`.
`grant` is a history variable: has an ioctl of this `pmu_init` run, and has no
rmmod begun since? `AccessGate` sees `module` as `gate` and the readable CPUs as
`access`.

External assumptions: CR4, PMUSERENR and SCOUNTEREN bits are written by nobody
else (the kernel keeps a copy of CR4 per CPU that the module writes behind; a
later write of the copy would undo the module's); the bits are clear when a CPU
comes online; `on_each_cpu` and hotplug exclude one another for a CPU.

### MsrMap and MsrSession

One action is one system call or one `rdpmc`, in the order of calls of
`tests/src/x86_64/basic.c` with the orders that the other test programs use.
`sel`, `pmc` and `ctrl` are the machine's registers; `fd`, `off` and `open` are
the file the process has (or -1), its offset, and how many descriptors it has
used up: `pmu_set_event` overwrites `msr_fd` without closing it. An access goes
to the register that the computed address names on the real vendor
(`RegisterAt`), or fails, silently. `Happens` is an event on a core; `seen`
counts the events between the two MSR reads of a session and `touched` says for
which counters other processes have written since it disabled the counters; both
are history. When a session is over its counter, event and readings are forgotten.

`pmu_get_cpu_vendor` compares a buffer without terminator, so `Detectable` is a
choice: on an AMD machine either comparison may fail, and the last branch says
Intel. AMD has no register 0x38F. The value that `pmu_record_start` writes is
taken from memory by an asm statement that does not say so, and that names
neither rcx nor r11, which `syscall` overwrites; the repository's build does not
optimise, and the models take the value as written.

A program uses the counters that `pmu_get_MSRs_num` announces (`MsrsNum`), from a
byte of cpuid on Intel and from two feature bits on AMD, one of which is tested as
`(reg >> 24) && 0x1`, that is, as any of bits 24 to 31. Two boundaries follow.
`pmu_record_start` enables the counters 0 to 3: a session on a later one measures
nothing, and `MeasuredIsActual` says just that. On an Intel machine with fewer
than four counters the mask has bits the machine does not have, the write is
refused and no counter is enabled at all (`Write`, `Recorded`). And AMD has four event selects
before the four counters, so the fifth announced counter's event select is the
first one's count: `Neighbours` are the counters whose registers the library
addresses alike.

### ArmPmu

One action is one access to a register of the core the process runs on; it is
preempted, and migrated unless it is pinned, between any two. There is no file
that would hold it to a core, as the MSR device does.

    PmuInit, EnableCounters, ResetCounters    pmu_init: what enable_pmu writes that a session notices
    SetType, ReadEnset, EnableCounter         pmu_set_event: PMEVTYPERn, then PMCNTENSET read and written
    ReadFirst, ReadLast                       pmu_get_rdpmc (zero for a counter without a case)
    StopReads, StopWrites                     pmu_record_stop
    Happens, Migrate, ProcEnds                the machine and the kernel

`WriteEnset` is the register's semantics: ones enable, zeros do nothing. Event
counters wrap at `CounterMod`. `seen` counts the process's events on its core
between the readings and `spoiled` says what has come between the process and its
counter: a move, another event type put into it, a reset. Both are history.

### Measurement

Both halves of the library promise the same: the difference of two readings is
the number of events in between, and how far that can be relied on depends on
who else uses the registers. `Measurement` says this with one variable: a session
is out, counting or done, has counted so many events, and has a trust that may
fall at any time and never rises. `exact` is the number itself, up to one wrap of
the counter where it wraps; `atmost` is a number that is not too large; `none`
promises nothing. A session that ends must have a result that is as good as the
trust it has left.

| | `MsrSession` | `ArmPmu` |
|---|---|---|
| counting | between the two MSR reads | between the two readings of PMEVCNTRn_EL0 |
| `exact` | an MSR file and a counter 0 to 3, and on Intel nobody has written a register of the core, on AMD none of the counter's | nothing has come in between |
| `atmost` | another counter of the core was written, or there is no counter to read, or it is one that `pmu_record_start` does not enable | only resets have come in between, or the library has no case for the counter and reads zero |
| `none` | the counter's own registers were written | the process moved, or another type was put into the counter |
| `Wrap` | 0: the counters do not wrap | `CounterMod` |

`SessionOf` is the refinement mapping of each. `ImplementsMeasurement` says more
than the invariants about readings do: it is about every step, so that a
session may not regain trust after a disturbance, may not count
before the first reading or after the last, and keeps its result once it has one.
`NeverOvercounts` is its `atmost` at the end of an x86_64 session; like
`OpenFileKeepsModule`, a step on the way to `UnloadRevokes`, and
`LoaderAdvances`, the safety half of `LoaderComesToRest`, it is proved and no
run of its own checks it.

### PerfFd and CacheProbe

`PerfFd` is a descriptor table in which numbers that are closed are given out
again, lowest first, and a program that opens and closes files while it calls
`perf_init` and `perf_deinit` in any order. `perf_init` overwrites `perf_fd`,
`perf_deinit` closes whatever it holds and keeps it; libpmu's own `perf_init`
has no `perf_deinit`, and its `perf_fd` starts as 0. `released` and `doubled`
are history.

`CacheProbe` extends it by the timing of `cache_utils.h`. `Rdtsc(t)` and
`Flush(c, p)` are what the architecture's clock returns and what its flush
leaves; with ARM_PERF the clock is `read(perf_fd, ...)`, and returns zero, or
what a file of the program's holds, when `perf_fd` is not a counter. On riscv64
`flush` is `fence.i`, which is about instructions: `fence` says whether the
machine cleans its data cache all the same. `Hits`, `ReloadTimes`,
`FlushReloadTimes` and `Threshold` do the arithmetic of the code in its widths:
unsigned differences, differences cut to an `int`, sums in `size_t`, two
divisions that round down.

    CacheInit, CacheEncode, CacheFlushSharedMemory    the functions of these names
    Calibrate                                         CACHE_MISS = detect_flush_reload_threshold()
    DecodeStarts, DecodeTurn                          cache_decode_pretty, a turn of its loop at a time
    UsesFds                                           a step of PerfFd
    Evict                                             the cache makes room

`Char` is the conversion of a byte to the `char` that `cache_encode` indexes
with, which is negative for half the bytes on x86. `touched` (the pages accessed
since they were last flushed or probed) and `misled` (CACHE_MISS was measured
without a running clock or a working flush) are history.

### TryCatch

The program opens blocks, nests them, faults in them, aborts and ends them; a
signal may arrive at any point, also in the loops of `try_start`, `try_end` and
the handler, which take one signal at a time (`Install`, `Restore`, `Unblock`).
`buf` is the level of the block that called `setjmp` last. `setjmp` is called in
`try_start`, which has returned when the handler jumps; C says nothing about
this, and the model has the two outcomes that builds show: `try_start` of that
block returns 0 (`ReturnsZero`), or the call that was interrupted returns in its
place (`InterruptedReturns`). A buffer that was never set, or whose block is
over, may lead anywhere (`LongjmpDies`).

With TSX (`HasTsx`) a block is a transaction: `Xbegin` opens it, `TxAborts`
takes everything back to the outermost `try_start` at any point, `TryAbort`
executes XEND and so commits, and `TxTryEnd` does nothing. `bare`, `aborted`,
`loose` and `appMask` are history; their comments say what they remember.

### EventCode and EventTable

A 64-bit value is the set of its one bits, so no width is lost: or is union, a
mask an intersection, `<<` a shift of positions, `Field32` cuts off at 32, and
`Plus` is binary addition with carries. `IntelHexcode` and `AmdHexcode` are the
C functions, `IntelHex` and `AmdHex` the scripts'. `EventTable` is the scripts:
`Collect` (the AMD download, which skips an entry spelled like an earlier one),
`Tabulate` (the dictionary, in which a later event replaces an earlier one of
the same code), `ExportHeader`. What a row must mean is stated by `Selection`:
the fields a program would set to ask for what an entry describes. `rest` stands
for the fields of an entry that no script looks at and the library's event
structures have no place for, though the vendor's entries differ in them: the
unit of an AMD event, AnyThread and MSRIndex with MSRValue of an Intel one.

`Spelled` is the concatenation of two strings, either of which may be missing:
a unit mask `"0x81"` without a code reads like a code `"0x81"` without a unit
mask. So the scripts do lose events, and `LossesAreExplained` says which: those
for which the files have another event of the same code that differs in `rest`
(`Ambiguous`), and on AMD those whose spelling is that of an earlier entry with
its unit mask where this one has its code (`Mistaken`). Every other event of the
files has a row of its code.

The one assumption, `TableAssumption`, is that the fields of the vendors' files
fit the register (8 bits of code and unit mask on Intel, 12 of code on AMD, 16 on
Arm; one-bit flags); names within a file are distinct.

### EventFiles

`disk` says of each file whether it is absent, a part, or whole, and then whose
data it holds. `job`, `tries` are `getfile`; `rows`, `attempt` and `found` are
`parse_map_file` and `eventlist_name`; `pc` walks through the vendor's way to
`this-cpu-pmu-events.json` and from there to the header. Opening a file for
writing empties it (an action) and closing it completes it (another). What goes
wrong in between, `calm` being the moment from which nothing does:

    FetchFails        a request raises IOError: it is retried, then given up
    FetchBreaksOff    a request raises something else, which nobody catches
    Hang              a request neither returns nor raises: there is no timeout
    FileFails         an operation on files raises OSError, at any step; what was
                      being written, the header included, stays a part
    Kill              the run is killed, at any step; a hanging one also when calm

`parse_map_file` swallows an OSError and the run goes on; elsewhere it ends the
run. The next `Run` finds what is left.

The beginning of a JSON file does not load. The beginning of a map file is read
as any beginning of its rows, where a row cut off within its type may pass the
test `typ not in key`, which is one for a substring, for a row of the key: then
its file, under a name of its own (`cut.json`), is what the events are taken
from. `Misnamed` is this case, and the exception in `HeaderIsWhole`.

The Intel download copies its file to `"./"` followed by a name that is absolute
(`Copy`). The target exists only if the working directory is the root, so `dir`
tells the two apart: `RecoversUnlessCutOff` is about runs in the root directory
for Intel machines, and `intel_scripts` shows what happens in the directory that
the repository's README names.

Links, README and LICENSE of the Intel cache and the copy of the cache are read
by nobody and left out. An Intel CPU is one whose name has no stepping (the two
lookups of `eventlist_name` then have one file name), and an AMD CPU one whose
microarchitecture `pmu_files` lists; for another the script ends with a KeyError
after the map file, every time.

## Runs

| run | module, cfg | shows |
|---|---|---|
| `loader_x86` | `PmuDriver`, `PmuDriver_x86` | type correctness, `UnloadRevokes`, `LoadReachesEveryCpu`, `FaultsAreExplained`, `ImplementsGate`, `LoaderComesToRest`, `DeviceIsReleased` |
| `loader_arm` | `PmuDriver`, `PmuDriver_arm` | `PinnedKeepsAccess` where the ioctl is five accesses |
| `arm_access_stays` | `PmuDriver`, `PmuDriver_arm_revoke` | violation of `UnloadRevokes`: `disable_pmu` leaves PMUSERENR.CR and ER set |
| `intel_shared_core` | `MCMsrSession`, `MsrSession_intel_shared` | `MeasuredIsActual`, `DisabledWhenSelected`, `ImplementsMeasurement`, two processes on one core |
| `intel_two_cores` | `MCMsrSession`, `MsrSession_intel_cores` | type correctness, `ReadsAgree`, `RawWritesHitControl`, with core numbers that wrap or do not exist and leaked descriptors |
| `amd_shared_core` | `MCMsrSession`, `MsrSession_amd_shared` | `CountersAreIndependent`, `ImplementsMeasurement`, with the vendor detected or mistaken |
| `event_table` | `MCEventTable`, `EventTable_all` | type correctness, `RowsMatchLibrary`, `LossesAreExplained` |
| `event_files` | `EventFiles`, `EventFiles_all` | type correctness, `HeaderIsWhole`, `HeaderCanBeRemade`, `RunsShorten`, `RunsEndOrHang`, `RecoversUnlessCutOff` |
| `intel_scripts` | `EventFiles`, `EventFiles_scripts` | violation of `HeaderIsSeen`: run in `scripts`, the Intel download copies to a directory that does not exist |
| `arm_sessions` | `MCArmPmu`, `ArmPmu_sessions` | type correctness, `DeltaIsExact`, `ResetNeverAdds`, `NobodyIsStopped`, `ImplementsMeasurement`, with migration between any two register accesses |
| `cache_probe` | `CacheProbe`, `CacheProbe_all` | type correctness, `ForeignExplained`, `LeakExplained`, `HitIsReal`, `DecodedWasEncoded`, `PassLeavesNothing`, on every architecture |
| `try_catch` | `TryCatch`, `TryCatch_all` | type correctness, `JumpIsLive`, `NothingStaysBlocked`, `FaultsAreCaught`, with signals and with transactions |

**Bounds.** `PmuDriver`: two CPUs of which one is hot-pluggable, two processes
of which one is pinned; the properties relate one CPU or one process to the
loader, and a second of each is what may get in between. The theorems below lift
the bound. `SizeBits = 8`: only the sign matters. `MsrSession`: two processes on
one core, on Intel with the counters 3 and 4 of five, which lie on both sides of
`pmu_record_start`'s mask, and two events; on AMD with four counters and the
numbers 0, 1 and 4, the last of which is announced and has its event select
where counter 0 is; on two Intel cores with four counters, of which one is
used, and one event. A counter
counts one event until it is cleared (`MaxCount`; a second one does not happen),
which may fall before, in or after the window of a session: what the properties
tell apart is whether the counter and `seen` advance together. `MaxFds` lets a
session run out of descriptors; the requested cores include one that wraps (513)
and one that does not exist. `ArmPmu`: two processes, one of them pinned, two
cores, two events; both use counter 0, the pinned one counter 1 as well;
`CounterMod = 2`, so that every second event wraps, and a session sees at most
one (one less than a counter can tell apart). Counters without a case in the
library read as zero, and the properties about readings leave them out.
`CacheProbe`: four pages, of which two stand for letters; clocks of 64 and 256
values that start at 0 and just before either wraps; times 1 and 6 with the
default threshold 4 in between, measured five times, which is close to the least
difference that the divisions allow; three descriptors, so that one may be
closed, given out again and closed again. `TryCatch`: three signals, the fault
in the middle, so that the loops have one before and one after it; three blocks
within one another, so that there is one between the outermost and the
innermost. `EventTable`: files of up to two entries, enough for two that collide
in any way, with field values that hold the lowest and the highest bit of each
field, entries that differ in `rest` alone, and a unit mask and a code that are
spelled alike; the theorems lift both. `EventFiles`: `NumTries` is the code's own 3;
every other variable is finite by itself. `SYMMETRY` is declared only in runs
of safety properties, over processes, cores and events that no definition tells
apart. The deadlock check is off in `EventTable_all`, where the script ends, and
`TryCatch_all`, where the program does.

**Fairness.** `MsrSession`, `ArmPmu`, `CacheProbe` and `TryCatch` promise
nothing that needs any. `PmuDriver`: an interrupt that was sent is taken, init
and exit continue when `on_each_cpu` returns, and a process inside `pmu_init` is
scheduled: all the kernel's guarantees. Nobody is forced to start anything, and
CPUs may come and go for ever. `EventFiles`: a run continues (weak fairness of
the program as a whole), but a request may hang, which no fairness excludes; for
the recovery properties the network and the disk work some day and the user tries
again. `RunsEndOrHang` needs no more than that a run continues until it is
killed. A run that hangs before that day may hang on, and `RecoversUnlessCutOff`
and `HeaderIsSeen` say so.

**Findings.** `PROJECT.json` gives the lines. Seen while modelling, with no
sentence in the repository to hold them against: the riscv `disable_pmu` uses
`csrsi` and so sets bits where it means to clear them; a zero is written to
PMCNTENSET_EL0, so the counters stay enabled after rmmod; the write to 0x38F that is to disable all
counters (`header/pmu_utils.h:286`) fails on AMD, where there is no such register,
so the event is reselected while its counter runs; `if (!ret)` tests a
`size_t` that is -1 on failure, so no failed MSR access is ever reported; bits 8
to 11 of an AMD event number go to bits 40 to 43 (in C and in Python alike)
where `hg_only` is too; an Intel event with two codes gives two macros of one
name; `pmu_init` tests a `size_t` for being negative and so returns 0 after a
failed open; the vendor string that `pmu_get_cpu_vendor` compares has no
terminator, so an AMD machine may be taken for an Intel one; an event file that
a killed run left cut off is trusted by every later run; a map file that was cut
off may make the Intel scripts take the uncore events for the core's; the old
header is lost when a run fails while it writes the new one; requests have no
timeout; the AMD scripts lose events of different units with one code, and those
whose code is spelled like another's unit mask, and the Intel scripts those that
differ in AnyThread or the additional MSR; `flush` on riscv64 need
not flush; `cache_encode` indexes with a `char`.

## Proofs

All theorems are for every value of the constants, from the assumptions of their
modules: `ArchAssumption` (the three architectures), `DriverAssumption` (a
finite set of CPUs, some of them hot-pluggable, some processes pinned),
`TableAssumption`, `MachineAssumption` (at most 197 counters, as many as fit
between Intel's two banks of registers), `SessionAssumption` (programs use
announced counters), `ArmAssumption`, `FdAssumption`, `ProbeAssumption` (letters
are in the lower half of a byte, the default threshold lies between the times, a
sum of measurements fits 32 bits), `TryAssumption` and `FilesAssumption`. A few
theorems have a hypothesis of their own, named below.

**The kernel module** (`PmuDriverProofs`). The safety properties are not
inductive. The strengthening is in layers, each proved with the ones before it:

1. `TypeCorrect`: `TypeOK`. `EnableStepsShape`, `EnableEffect` and
   `DisableEffect` say once what handlers do on each architecture.
2. `Ownership`: `LoaderInv` (the loader's state, the progress of init and exit,
   `pending` and the device go together), `OpenFileKeepsModule` and `IoctlInv`
   (a process between two steps of `enable_pmu` has the device open). It is what
   makes the ioctl and `disable_pmu` exclude each other.
3. `Loading`: a CPU that cannot be unplugged, once reached, keeps all that
   `enable_pmu` granted. Hence `LoadReachesAll`.
4. `Granting`: a pinned process has on its CPU what the steps done so far
   granted, in whatever order other processes' steps on that CPU come between.
   Hence `PinnedAccess`.
5. `Unloading` (x86_64): offline CPUs are clear, and while the module goes the
   CPUs no longer pending are unreadable; layer 2 is why nobody enables one
   again. Hence `UnloadRevokesAll`. It is stated for x86_64 because on the others
   the run `arm_access_stays` refutes it.
6. `GateRefinement` (x86_64): every step is one of `AccessGate` or a stutter.

`FaultsExplained` needs one more invariant, `HeldInv`: a grant that is held dates
from a time at which `on_each_cpu` had been everywhere, since no ioctl runs before
the device is registered, and no rmmod has begun since. With layer 3 a CPU that
cannot be unplugged is then usable, with layer 4 a pinned process's CPU is, and
`OnlyReadsFault` says that nothing else makes a process fault.

`LoaderComesNearer` is the safety half of `LoaderComesToRest`. `StepsLeft` counts
what insmod or rmmod has still to do: each handler that has run takes one CPU
out of a finite set, `Ownership` excludes a second insmod or rmmod meanwhile, and
nothing else, CPUs that come and go included, touches `call` and `pending`.

**Event codes** (`EventTableProofs`). `PlusOfDisjoint`: without a common bit
there is no carry and addition is union, so `IntelCodesAgree` and
`AmdCodesAgree`. The fields occupy disjoint ranges of bits, so each can be read
back: `IntelCodeDetermines`, `AmdCodeDetermines`. With these, `TableInv` is
inductive: every row has the value the library packs for what it names
(`RowsAgree`), every entry looked at has an event that is spelled alike, and every
event looked at has a row of the same code, because replacing happens only under
an equal key, and equal keys select the same. Two entries that are spelled alike
select the same unless one has its unit mask where the other has its code, and
two events of one code are the same but for `rest`: hence `LossesExplained`.

**Sessions on x86_64** (`MsrSessionProofs`). `MeasuredIsActual` and its like
speak of the end of a session only; `IInv` follows it. Per process it says where
the file, its offset and the vendor are in the order of calls (`Local`), what an
undisturbed Intel session knows of the control register (`Controlled`), what its
event select holds (`Selected`), how far the counter is ahead of the first
reading (`Counted`), what the readings are worth (`Concluded`) and that they do
not fall (`Rising`). A process's own calls are shown one by one. A step of
another process, or of the machine, is shown once (`Foreign`) to be of one of
three kinds: it leaves the session and its registers alone (`Unmoved`), it
writes a register of the core that is not the session's (`Spared`), or it
touches the session's counter and is recorded as such (`Disturbed`); each part
survives all three. `DisabledOnIntel` is for Intel: on AMD
the disabling write has no register to go to; `IndependentOnAmd` is for AMD with at most four counters at
these addresses.

`MeasurementKept` is the refinement. A process's own calls are shown to begin,
end or leave its session or to let it be (`OwnMoves`); that a session ends well
(`EndsWell`) is where `Counted` is used. The calls of others only let its trust
fall (`OthersMove`, from `Foreign`), and an event counts in every session that is
counting on the core (`EventMoves`). One step may move several sessions, and each
of them by one move of `Measurement` (`SessionsMove`).

**Sessions on aarch64** (`ArmPmuProofs`). Every write of PMCNTENSET_EL0 adds
(`OnlyEnables`, `NothingStops`), so what `enable_pmu` enabled stays enabled.
With that, the invariant says of each session that, unless spoiled, its counter
counts its event (`Typed`) and is ahead of the first reading by what has been
seen, up to one wrap (`Following`); `SessionsMeasure` and `ResetsNeverAdd` follow.
`MeasurementKept` has the same steps as on x86_64. What differs is who disturbs:
the process itself, by migrating, and any `pmu_init`; and an invariant of its own,
`ReadNothing` (`NothingRead`), says that a counter without a case in the library
has read zero.

**Probes** (`CacheProbeProofs`). `DescriptorsExplained` and `LeaksExplained`: one
invariant on `perf_fd` and the table, kept by every order of calls
(`FdInvariant`). `PassesClean`, for the
code's 256 pages: a factor that is odd visits every page, so the pages not yet
visited are the only ones that may be cached. `HitsAreReal`: from arithmetic
modulo the clock's width, the difference of two readings is the time that
passed, wherever the clock wraps (`DifferenceIsTime`); the threshold measured by
integer averages lies between the two times (`ThresholdBetween`). It, and
`LettersWereEncoded`, assume `Separable`: the times differ by at least 4, and
there are at least as many measurements as their difference, because the first
measurement still finds the page cached and both divisions round down.

**Fault handling** (`TryCatchProofs`). `IInv` has the loops' progress
(`Looping`), what the handler has still to unblock (`Waiting`), that a body
which nobody has disarmed has all handlers (`Armed`), that an installed handler
leads to an open block (`Live`), and, for TSX, that a transaction within the
outermost one has an open block that has not been aborted, counted with
`Cardinality` (`Transaction`). Each property follows from one or two of these.

**Downloads** (`EventFilesProofs`). The invariant says of every file what it may
hold if it is whole (`OnDisk`), of every download that it is of a file's own
data and goes on to a step of this machine's kind (`Downloading`), and what a
step relies on that an earlier one has looked up (`LookedUp`): a kill, or an
operation that fails, is then harmless, since a cut-off file is never among what
a file may hold when it is loaded. A file of the wrong name is used only if one
is there (`HeadersAreWhole`). Nothing touches the events file once it is whole,
and no header is opened before it is: hence `HeadersCanBeRemade`. `RunsGetShorter`
is the safety half of `RunsEndOrHang`: `Remaining` is four numbers (calls of
`parse_map_file`, the steps to the end, rows, tries) and every step lowers it in
the lexicographic order, a retry by the tries, a row passed over by the rows, a
file found by the steps, a failure by the steps or, when it is swallowed, by the
steps too. A download counts as part of the step that it returns to, which lies
before the one that asked for it (`Returning`), and so does a request that hangs.

**Only model-checked:** liveness (`LoaderComesToRest`, `DeviceIsReleased`,
`RunsEndOrHang`, `RecoversUnlessCutOff`). It rests on fairness, hence on ENABLED, which
is out of the prover's reach. Of the first and the third, `LoaderComesNearer` and
`RunsGetShorter` prove the part that a step could break; that a step is always
possible until the end is for TLC.

## Not modelled

- **CPU detection of the scripts** (`scripts/cpuinfo.py`): it parses the text of
  `/proc/cpuinfo` and `lscpu` and keeps no state. What it reports is the vendor
  and the machine that `EventTable` and `EventFiles` are given.
- **Parts of the libraries that change no state**: `pmu_get_PMC_bit_width` (a
  number read from cpuid), `print_msr` (logging), `get_physical_address` (a read
  of `/proc/self/pagemap`), `pmu_record_start` on aarch64 (empty).
- **Single instructions**: the fences, `maccess_tsx`, `maccess_speculative`, and
  `rdtsc_begin` and `rdtsc_end`, which `USE_RDTSC_BEGIN_END` does not select.
  What they do is the processor's business; the clock that is selected is
  modelled.
- **What is read by nobody**: the links, README and LICENSE that the Intel
  download makes, and its copy of the cache; its command line but for
  `--hybridcore`.
- **Text**: the layout of the generated header, what the test programs print,
  and the build files. The test programs' orders of calls are what the models'
  processes do.
- **Outside the repository**: the copy of CR4 that the kernel keeps per CPU and
  the module writes behind; what an optimising compiler makes of the asm
  statement without a memory clobber, and of a jump into a function that has
  returned beyond the two outcomes above; a cache of event files carried to a
  machine of another microarchitecture, whose names do not say for which they
  are.

What could be added: the composition of `MsrSession` with the access that
`PmuDriver` grants to `rdpmc`, which is taken for granted here.
