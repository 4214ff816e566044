------------------------------ MODULE PmuDriver ------------------------------
(***************************************************************************)
(* The life of the kernel module (module/pmu_utils.c) on a multiprocessor, *)
(* and the user processes that call pmu_init (header/pmu_utils.h) and then *)
(* read the cycle counter twice, as the programs under tests/src do.       *)
(*                                                                         *)
(* Loading runs enable_pmu on every online CPU and registers the device;   *)
(* unloading runs disable_pmu on every online CPU and deregisters it.  The *)
(* handlers run on each CPU at a time of its own (on_each_cpu sends an     *)
(* interrupt to each), while processes run, migrate and die, and CPUs come *)
(* and go.  A process opens the device, has enable_pmu run on the CPU it   *)
(* is on, preemptibly, by an ioctl, closes the device again, and keeps     *)
(* what it was granted without holding anything of the module.             *)
(*                                                                         *)
(* print_msr, which only logs, is left out.  The module loader, the misc   *)
(* device layer, the scheduler and CPU hotplug are external: they are      *)
(* modelled as far as the code relies on them.                             *)
(***************************************************************************)
EXTENDS CpuPmu, FiniteSets

CONSTANTS
  Cpus,     \* the CPUs of the machine
  HotCpus,  \* those of them that may go offline and come back
  Procs,    \* the user processes
  Pinned,   \* those of them that are to run on one CPU only (taskset -c)
  SizeBits  \* width of size_t; any width shows the same wrap-around

ASSUME DriverAssumption ==
  /\ IsFiniteSet(Cpus)
  /\ HotCpus \subseteq Cpus
  /\ Pinned \subseteq Procs
  /\ SizeBits \in Nat \ {0}

VARIABLES
  module,   \* the loader's state of the module
  call,     \* how far module_init or module_exit has got
  pending,  \* the CPUs on_each_cpu still waits for
  device,   \* is /dev/pmu_utils registered?
  outcome,  \* what the last insmod or rmmod that did something came to
  online,   \* the online CPUs
  bits,     \* bits[c]: the PMU control bits set on CPU c
  pc,       \* pc[p]: where process p is
  cpu,      \* cpu[p]: the CPU p runs on
  pinned,   \* the processes that still are bound to their CPU
  file,     \* file[p]: has p the device open?
  hstep,    \* hstep[p]: the step of enable_pmu that p's ioctl runs next
  ret,      \* ret[p]: what pmu_init returned to p
  grant     \* grant[p]: history; has an ioctl of p's pmu_init run, and
            \* has no rmmod begun since?

modVars  == <<module, call, pending, device, outcome>>
procVars == <<pc, cpu, pinned, file, hstep, ret, grant>>
vars     == <<modVars, procVars, online, bits>>

Locations == {"idle", "ioctl", "close", "ready", "sampled", "faulted"}

TypeOK ==
  /\ module \in {"absent", "coming", "live", "going"}
  /\ call \in {"none", "enable", "registered", "disable"}
  /\ pending \subseteq Cpus
  /\ device \in BOOLEAN
  /\ outcome \in {"none", "loaded", "failed", "unloaded"}
  /\ online \subseteq Cpus
  /\ bits \in [Cpus -> SUBSET Bits]
  /\ pc \in [Procs -> Locations]
  /\ cpu \in [Procs -> Cpus] /\ pinned \subseteq Pinned
  /\ file \in [Procs -> BOOLEAN]
  /\ hstep \in [Procs -> 1..Len(EnableSteps)]
  /\ ret \in [Procs -> {0, -1}]
  /\ grant \in [Procs -> {"none", "held", "revoked"}]

Init ==
  /\ module = "absent" /\ call = "none" /\ pending = {}
  /\ device = FALSE /\ outcome = "none"
  /\ online \in SUBSET Cpus /\ Cpus \ HotCpus \subseteq online
  /\ bits = [c \in Cpus |-> {}]
  /\ pc = [p \in Procs |-> "idle"]
  /\ cpu \in [Procs -> online] /\ pinned = Pinned
  /\ file = [p \in Procs |-> FALSE]
  /\ hstep = [p \in Procs |-> 1]
  /\ ret = [p \in Procs |-> 0]
  /\ grant = [p \in Procs |-> "none"]

-----------------------------------------------------------------------------
(* The module: insmod and pmu_driver_init, rmmod and pmu_driver_exit.      *)

\* insmod begins: the loader calls pmu_driver_init, whose first call is
\* on_each_cpu(enable_pmu, NULL, 1).
Insmod ==
  /\ module = "absent"
  /\ module' = "coming" /\ call' = "enable" /\ pending' = online
  /\ UNCHANGED <<device, outcome, procVars, online, bits>>

\* The interrupt of on_each_cpu runs a handler on CPU c, to its end.
OnEachCpu(c, steps) ==
  /\ c \in pending
  /\ pending' = pending \ {c}
  /\ bits' = [bits EXCEPT ![c] = RunHandler(steps, @)]
  /\ UNCHANGED <<module, call, device, outcome, procVars, online>>

\* Mutant: enable_pmu does not return on a CPU.
EnableHangs(c) ==
  /\ call = "enable" /\ c \in pending
  /\ bits' = [bits EXCEPT ![c] = RunHandler(EnableSteps, @)]
  /\ UNCHANGED <<modVars, procVars, online>>

EnableOn(c) == call = "enable" /\ OnEachCpu(c, EnableSteps)

\* Mutant: on_each_cpu(enable_pmu, NULL, 0), which does not wait.
MiscRegisterEarly ==
  /\ call = "enable"
  /\ call' = "registered" /\ device' = TRUE
  /\ UNCHANGED <<module, pending, outcome, procVars, online, bits>>

\* misc_register, once every CPU has run its handler.
MiscRegister ==
  /\ call = "enable" /\ pending = {}
  /\ call' = "registered" /\ device' = TRUE
  /\ UNCHANGED <<module, pending, outcome, procVars, online, bits>>

\* misc_register fails: pmu_driver_init returns -ENXIO, the loader drops the
\* module, and nothing is undone on the CPUs.
MiscRegisterFails ==
  /\ call = "enable" /\ pending = {}
  /\ module' = "absent" /\ call' = "none" /\ outcome' = "failed"
  /\ UNCHANGED <<pending, device, procVars, online, bits>>

\* pmu_driver_init returns 0.
InitReturns ==
  /\ call = "registered"
  /\ module' = "live" /\ call' = "none" /\ outcome' = "loaded"
  /\ UNCHANGED <<pending, device, procVars, online, bits>>

\* Mutant: f_ops without .owner.
NoOwnerRefs == {}

\* The references that keep the module in: .owner = THIS_MODULE makes every
\* open file of the device hold one.
ModuleRefs == {p \in Procs : file[p]}

\* rmmod begins: it is refused while the module is referenced; from here on
\* no open succeeds, and pmu_driver_exit runs on_each_cpu(disable_pmu).
Rmmod ==
  /\ module = "live" /\ ModuleRefs = {}
  /\ module' = "going" /\ call' = "disable" /\ pending' = online
  /\ grant' = [p \in Procs |-> IF grant[p] = "held" THEN "revoked" ELSE grant[p]]
  /\ UNCHANGED <<device, outcome, pc, cpu, pinned, file, hstep, ret, online, bits>>

DisableOn(c) == call = "disable" /\ OnEachCpu(c, DisableSteps)

\* Mutant: on_each_cpu(disable_pmu, NULL, 0), which does not wait.
MiscDeregisterEarly ==
  /\ call = "disable"
  /\ module' = "absent" /\ call' = "none" /\ device' = FALSE
  /\ outcome' = "unloaded" /\ pending' = {}
  /\ UNCHANGED <<procVars, online, bits>>

\* misc_deregister, the last call of pmu_driver_exit.
MiscDeregister ==
  /\ call = "disable" /\ pending = {}
  /\ module' = "absent" /\ call' = "none" /\ device' = FALSE
  /\ outcome' = "unloaded"
  /\ UNCHANGED <<pending, procVars, online, bits>>

-----------------------------------------------------------------------------
(* A user process: pmu_init, two reads of the counter, pmu_deinit.         *)

\* pmu_fd is a size_t.
SizeT(n) == n % (2^SizeBits)

\* The misc layer opens the device: it is registered, and a reference to
\* its owner can be taken, which the loader refuses once rmmod has begun.
DeviceOpens == device /\ module \in {"coming", "live"}

\* pmu_init: open, which may also fail for want of a descriptor, and the
\* test pmu_fd < 0.
PmuOpen(p) ==
  /\ pc[p] = "idle"
  /\ \E opened \in {DeviceOpens, FALSE} :
       LET fd == IF opened THEN 0 ELSE SizeT(-1)
       IN  /\ file' = [file EXCEPT ![p] = opened]
           /\ IF fd < 0
              THEN /\ pc' = [pc EXCEPT ![p] = "ready"]
                   /\ ret' = [ret EXCEPT ![p] = -1]
              ELSE /\ pc' = [pc EXCEPT ![p] = "ioctl"]
                   /\ UNCHANGED ret
  /\ grant' = [grant EXCEPT ![p] = "none"]
  /\ UNCHANGED <<modVars, cpu, pinned, hstep, online, bits>>

\* Mutant: a device_ioctl that ignores the command it is given.
IoctlIgnored(p) ==
  /\ pc[p] = "ioctl" /\ file[p]
  /\ pc' = [pc EXCEPT ![p] = "close"]
  /\ grant' = [grant EXCEPT ![p] = "held"]
  /\ UNCHANGED <<modVars, cpu, pinned, file, hstep, ret, online, bits>>

\* Mutant: the handler's position is not reset for the next call.
IoctlRunsOn(p) ==
  /\ pc[p] = "ioctl" /\ file[p]
  /\ bits' = [bits EXCEPT ![cpu[p]] = RunStep(EnableSteps[hstep[p]], @)]
  /\ hstep' = [hstep EXCEPT ![p] = @ + 1]
  /\ IF hstep[p] = Len(EnableSteps)
     THEN /\ pc' = [pc EXCEPT ![p] = "close"]
          /\ grant' = [grant EXCEPT ![p] = "held"]
     ELSE UNCHANGED <<pc, grant>>
  /\ UNCHANGED <<modVars, cpu, pinned, file, ret, online>>

\* device_ioctl: one step of enable_pmu on the CPU the process is on now.
\* The process may be preempted, and unless it is pinned migrated, between
\* two steps.
IoctlStep(p) ==
  /\ pc[p] = "ioctl" /\ file[p]
  /\ bits' = [bits EXCEPT ![cpu[p]] = RunStep(EnableSteps[hstep[p]], @)]
  /\ IF hstep[p] = Len(EnableSteps)
     THEN /\ hstep' = [hstep EXCEPT ![p] = 1]
          /\ pc' = [pc EXCEPT ![p] = "close"]
          /\ grant' = [grant EXCEPT ![p] = "held"]
     ELSE /\ hstep' = [hstep EXCEPT ![p] = @ + 1]
          /\ UNCHANGED <<pc, grant>>
  /\ UNCHANGED <<modVars, cpu, pinned, file, ret, online>>

\* ioctl on descriptor -1 fails with EBADF, which pmu_init ignores.
IoctlBadFd(p) ==
  /\ pc[p] = "ioctl" /\ ~file[p]
  /\ pc' = [pc EXCEPT ![p] = "close"]
  /\ UNCHANGED <<modVars, cpu, pinned, file, hstep, ret, grant, online, bits>>

\* Mutant: pmu_init without its close.
PmuCloseForgotten(p) ==
  /\ pc[p] = "close"
  /\ ret' = [ret EXCEPT ![p] = 0]
  /\ pc' = [pc EXCEPT ![p] = "ready"]
  /\ UNCHANGED <<modVars, cpu, pinned, file, hstep, grant, online, bits>>

\* Mutant: a device_release that disables the CPU it runs on.
PmuCloseDisables(p) ==
  /\ pc[p] = "close"
  /\ file' = [file EXCEPT ![p] = FALSE]
  /\ ret' = [ret EXCEPT ![p] = 0]
  /\ pc' = [pc EXCEPT ![p] = "ready"]
  /\ bits' = [bits EXCEPT ![cpu[p]] = RunHandler(DisableSteps, @)]
  /\ UNCHANGED <<modVars, cpu, pinned, hstep, grant, online>>

\* pmu_init closes the device and returns 0.
PmuClose(p) ==
  /\ pc[p] = "close"
  /\ file' = [file EXCEPT ![p] = FALSE]
  /\ ret' = [ret EXCEPT ![p] = 0]
  /\ pc' = [pc EXCEPT ![p] = "ready"]
  /\ UNCHANGED <<modVars, cpu, pinned, hstep, grant, online, bits>>

\* The process reads the counter on the CPU it is on, and faults if no bit
\* of that CPU lets it.  After the second read it calls pmu_deinit, which
\* does nothing, and may start over.  Callers ignore what pmu_init returns.
ReadCounter(p) ==
  /\ pc[p] \in {"ready", "sampled"}
  /\ pc' = [pc EXCEPT ![p] = IF ~Readable(bits[cpu[p]]) THEN "faulted"
                             ELSE IF @ = "ready" THEN "sampled" ELSE "idle"]
  /\ UNCHANGED <<modVars, cpu, pinned, file, hstep, ret, grant, online, bits>>

\* A process ends, by itself, by a fault or killed: the kernel closes its
\* files, and another process may take its place, on any CPU.  A process
\* inside the ioctl first leaves the kernel.
ProcEnds(p) ==
  /\ pc[p] # "idle" /\ hstep[p] = 1
  /\ pc' = [pc EXCEPT ![p] = "idle"]
  /\ file' = [file EXCEPT ![p] = FALSE]
  /\ grant' = [grant EXCEPT ![p] = "none"]
  /\ \E c \in online : cpu' = [cpu EXCEPT ![p] = c]
  /\ pinned' = pinned \cup ({p} \cap Pinned)
  /\ UNCHANGED <<modVars, hstep, ret, online, bits>>

-----------------------------------------------------------------------------
(* The machine: the scheduler and CPU hotplug.                             *)

Migrate(p, c) ==
  /\ p \notin pinned /\ c \in online /\ c # cpu[p]
  /\ cpu' = [cpu EXCEPT ![p] = c]
  /\ UNCHANGED <<modVars, pc, pinned, file, hstep, ret, grant, online, bits>>

\* A CPU comes online with its control bits as at boot; on_each_cpu, if it
\* is running, does not reach it.
CpuUp(c) ==
  /\ c \in HotCpus \ online
  /\ online' = online \cup {c}
  /\ UNCHANGED <<modVars, procVars, bits>>

\* A CPU goes offline; on_each_cpu, if it is to run there, comes first.  The
\* processes on it are moved to others, those that are bound to it, too, which
\* are not bound any longer.
CpuDown(c) ==
  /\ c \in (HotCpus \cap online) \ pending
  /\ online # {c}
  /\ \E to \in [Procs -> online \ {c}] :
       cpu' = [p \in Procs |-> IF cpu[p] = c THEN to[p] ELSE cpu[p]]
  /\ pinned' = {p \in pinned : cpu[p] # c}
  /\ online' = online \ {c}
  /\ bits' = [bits EXCEPT ![c] = {}]
  /\ UNCHANGED <<modVars, pc, file, hstep, ret, grant>>

-----------------------------------------------------------------------------

ModuleStep ==
  \/ Insmod
  \/ \E c \in Cpus : EnableOn(c) \/ DisableOn(c)
  \/ MiscRegister \/ MiscRegisterFails \/ InitReturns
  \/ Rmmod
  \/ MiscDeregister

ProcStep(p) ==
  PmuOpen(p) \/ IoctlStep(p) \/ IoctlBadFd(p) \/ PmuClose(p) \/ ReadCounter(p)

Next ==
  \/ ModuleStep
  \/ \E p \in Procs : ProcStep(p) \/ ProcEnds(p) \/ (\E c \in Cpus : Migrate(p, c))
  \/ \E c \in Cpus : CpuUp(c) \/ CpuDown(c)

Spec == Init /\ [][Next]_vars

\* What the kernel guarantees: an interrupt sent is taken, init and exit run
\* on once their CPUs are done, and a process inside pmu_init is scheduled.
Fairness ==
  /\ \A c \in Cpus : WF_vars(EnableOn(c)) /\ WF_vars(DisableOn(c))
  /\ WF_vars(MiscRegister \/ MiscRegisterFails)
  /\ WF_vars(InitReturns) /\ WF_vars(MiscDeregister)
  /\ \A p \in Procs : WF_vars(IoctlStep(p)) /\ WF_vars(PmuClose(p))

FairSpec == Spec /\ Fairness

-----------------------------------------------------------------------------
(* Safety *)

\* After rmmod has completed, whatever processes did while it ran, no CPU,
\* not even one that came online meanwhile, lets user code read the counter.
\* A load that failed in misc_register is the one way to be left without
\* the module and with access (module/pmu_utils.c: pmu_driver_exit, f_ops).
UnloadRevokes ==
  module = "absent" /\ outcome # "failed" => \A c \in Cpus : ~Readable(bits[c])

\* insmod succeeds only after the whole of enable_pmu has run on every CPU
\* that cannot be hot-plugged, and nothing takes that back while the module
\* stays loaded.
LoadReachesEveryCpu ==
  module = "live" => \A c \in Cpus \ HotCpus : Usable(bits[c])

\* Once the ioctl of its pmu_init has run, a pinned process can read a
\* counter that counts until an rmmod begins, although pmu_init has closed
\* the device, although the steps of the ioctl were preempted and although
\* its CPU may have come online after the module was loaded; unless its CPU
\* goes offline, and it is moved.
PinnedKeepsAccess ==
  \A p \in pinned : grant[p] = "held" => Usable(bits[cpu[p]])

\* While a process has the device open the device is registered, rmmod has
\* not begun, and so no CPU is being disabled under device_ioctl.
OpenFileKeepsModule ==
  \A p \in Procs : file[p] => device /\ module \in {"coming", "live"} /\ call # "disable"

\* A read of the counter faults only if pmu_init ran no ioctl, or an rmmod
\* has begun since, or the process migrated, or was moved, to a CPU that can
\* be plugged in.
FaultsAreExplained ==
  [][\A p \in Procs :
       pc[p] # "faulted" /\ pc'[p] = "faulted" =>
         \/ grant[p] # "held"
         \/ p \notin pinned /\ cpu[p] \in HotCpus]_vars

\* The steps that module_init or module_exit has still to take.
StepsLeft ==
  CASE call = "none"       -> 0
    [] call = "registered" -> 1
    [] call = "disable"    -> 1 + Cardinality(pending)
    [] call = "enable"     -> 2 + Cardinality(pending)

\* While insmod or rmmod runs, each of its steps brings it nearer to its end
\* and no process, no migration and no CPU that comes or goes puts that end
\* off (pmu_driver_init, pmu_driver_exit: on_each_cpu visits each CPU once).
LoaderAdvances ==
  [][call # "none" =>
       /\ StepsLeft' <= StepsLeft
       /\ ModuleStep => StepsLeft' < StepsLeft]_vars

-----------------------------------------------------------------------------
(* What loading and unloading promise, as a refinement *)

GateState ==
  IF module = "going" THEN "closing"
  ELSE IF module # "absent" THEN "open"
  ELSE IF outcome = "failed" THEN "left" ELSE "shut"

ReadableCpus == {c \in Cpus : Readable(bits[c])}

Gate == INSTANCE AccessGate WITH gate <- GateState, access <- ReadableCpus

\* Step by step, and not only once it is over, loading grants and unloading
\* revokes what AccessGate says: no CPU gains access once rmmod has begun,
\* none that cannot be unplugged loses it before (module/pmu_utils.c).
ImplementsGate == Gate!Spec

-----------------------------------------------------------------------------
(* Liveness *)

\* insmod and rmmod come to an end, however CPUs come and go meanwhile.
LoaderComesToRest == (module \in {"coming", "going"}) ~> (module \in {"absent", "live"})

\* No process blocks rmmod for ever: pmu_init closes what it opened.
DeviceIsReleased == \A p \in Procs : file[p] ~> ~file[p]

=============================================================================
