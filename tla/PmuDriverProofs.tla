--------------------------- MODULE PmuDriverProofs ---------------------------
(***************************************************************************)
(* Invariants of PmuDriver, proved for any number of CPUs and processes.   *)
(* What the loading side promises holds on every architecture; what        *)
(* unloading promises holds on x86_64 only, where disable_pmu undoes       *)
(* enable_pmu.                                                             *)
(***************************************************************************)
EXTENDS PmuDriver, FiniteSetTheorems, TLAPS

-----------------------------------------------------------------------------
(* The handlers.                                                           *)

\* The bits a complete enable_pmu leaves set.
Granted == UNION {EnableSteps[i].on : i \in DOMAIN EnableSteps}

\* The bits the first k - 1 steps of enable_pmu leave set.
GrantedBefore(k) == UNION {EnableSteps[i].on : i \in {j \in DOMAIN EnableSteps : j < k}}

\* What the proofs need of enable_pmu: it has a first step, its steps set
\* and clear bits of the CPU, and no step clears what another one sets.
LEMMA EnableStepsShape ==
  /\ Len(EnableSteps) \in Nat \ {0}
  /\ DOMAIN EnableSteps = 1..Len(EnableSteps)
  /\ \A i \in DOMAIN EnableSteps :
       /\ EnableSteps[i].on \subseteq Bits
       /\ EnableSteps[i].off \cap Granted = {}
<1>1. CASE Arch = "x86_64"
  <2>1. EnableSteps = << Step({"CR4.PCE"}, {}) >> /\ Bits = {"CR4.PCE"}
    BY <1>1 DEF EnableSteps, Bits
  <2>2. DOMAIN EnableSteps = {1} /\ Len(EnableSteps) = 1
    BY <2>1
  <2>3. EnableSteps[1].on = {"CR4.PCE"} /\ EnableSteps[1].off = {}
    BY <2>1 DEF Step
  <2> QED
    BY <2>1, <2>2, <2>3
<1>2. CASE Arch = "aarch64"
  <2>1. /\ EnableSteps = << Step({}, {"PMINTEN"}),
                            Step({"PMCNTEN"}, {}),
                            Step({"PMUSERENR.EN", "PMUSERENR.CR", "PMUSERENR.ER"},
                                 {"PMUSERENR.SW"}),
                            Step({"PMCR.E"}, {}),
                            Step({"PMCCFILTR.NSH"}, {}) >>
        /\ Bits = {"PMINTEN", "PMCNTEN", "PMCR.E", "PMCCFILTR.NSH",
                   "PMUSERENR.EN", "PMUSERENR.SW", "PMUSERENR.CR", "PMUSERENR.ER"}
    BY <1>2 DEF EnableSteps, Bits
  <2>2. DOMAIN EnableSteps = 1..5 /\ Len(EnableSteps) = 5
    BY <2>1
  <2>3. /\ EnableSteps[1] = Step({}, {"PMINTEN"})
        /\ EnableSteps[2] = Step({"PMCNTEN"}, {})
        /\ EnableSteps[3] = Step({"PMUSERENR.EN", "PMUSERENR.CR", "PMUSERENR.ER"},
                                 {"PMUSERENR.SW"})
        /\ EnableSteps[4] = Step({"PMCR.E"}, {})
        /\ EnableSteps[5] = Step({"PMCCFILTR.NSH"}, {})
    BY <2>1
  <2>4. \A i \in DOMAIN EnableSteps : i = 1 \/ i = 2 \/ i = 3 \/ i = 4 \/ i = 5
    BY <2>2
  <2>5. \A i \in DOMAIN EnableSteps :
          /\ EnableSteps[i].on \subseteq Bits \ {"PMINTEN", "PMUSERENR.SW"}
          /\ EnableSteps[i].off \subseteq {"PMINTEN", "PMUSERENR.SW"}
    BY <2>1, <2>3, <2>4 DEF Step
  <2> QED
    BY <2>2, <2>5 DEF Granted
<1>3. CASE Arch = "riscv"
  <2>1. /\ EnableSteps = << Step({"SBI.started"}, {}),
                            Step({"SCOUNTEREN.CY", "SCOUNTEREN.TM",
                                  "SCOUNTEREN.IR"}, {}) >>
        /\ Bits = {"SBI.started", "SCOUNTEREN.CY", "SCOUNTEREN.TM", "SCOUNTEREN.IR"}
    BY <1>3 DEF EnableSteps, Bits
  <2>2. DOMAIN EnableSteps = {1, 2} /\ Len(EnableSteps) = 2
    BY <2>1
  <2>3. /\ EnableSteps[1] = Step({"SBI.started"}, {})
        /\ EnableSteps[2] = Step({"SCOUNTEREN.CY", "SCOUNTEREN.TM",
                                  "SCOUNTEREN.IR"}, {})
    BY <2>1
  <2> QED
    BY <2>1, <2>2, <2>3 DEF Step
<1> QED
  BY <1>1, <1>2, <1>3, ArchAssumption

\* A CPU on which all of enable_pmu has run is usable from user code.
LEMMA GrantedIsUsable ==
  ASSUME NEW b, Granted \subseteq b
  PROVE  Usable(b)
<1>1. CASE Arch = "x86_64"
  <2>1. EnableSteps = << Step({"CR4.PCE"}, {}) >>
    BY <1>1 DEF EnableSteps
  <2>2. 1 \in DOMAIN EnableSteps /\ EnableSteps[1].on = {"CR4.PCE"}
    BY <2>1 DEF Step
  <2>3. "CR4.PCE" \in Granted
    BY <2>2 DEF Granted
  <2> QED
    BY <1>1, <2>3 DEF Usable, Readable, CycleReadBits, CountBits
<1>2. CASE Arch = "aarch64"
  <2>1. EnableSteps = << Step({}, {"PMINTEN"}),
                         Step({"PMCNTEN"}, {}),
                         Step({"PMUSERENR.EN", "PMUSERENR.CR", "PMUSERENR.ER"},
                              {"PMUSERENR.SW"}),
                         Step({"PMCR.E"}, {}),
                         Step({"PMCCFILTR.NSH"}, {}) >>
    BY <1>2 DEF EnableSteps
  <2>2. 2 \in DOMAIN EnableSteps /\ 3 \in DOMAIN EnableSteps /\ 4 \in DOMAIN EnableSteps
    BY <2>1
  <2>3. /\ "PMCNTEN" \in EnableSteps[2].on
        /\ "PMUSERENR.EN" \in EnableSteps[3].on
        /\ "PMCR.E" \in EnableSteps[4].on
    BY <2>1 DEF Step
  <2>4. {"PMCNTEN", "PMUSERENR.EN", "PMCR.E"} \subseteq Granted
    BY <2>2, <2>3 DEF Granted
  <2> QED
    BY <1>2, <2>4 DEF Usable, Readable, CycleReadBits, CountBits
<1>3. CASE Arch = "riscv"
  <2>1. EnableSteps = << Step({"SBI.started"}, {}),
                         Step({"SCOUNTEREN.CY", "SCOUNTEREN.TM",
                               "SCOUNTEREN.IR"}, {}) >>
    BY <1>3 DEF EnableSteps
  <2>2. 1 \in DOMAIN EnableSteps /\ 2 \in DOMAIN EnableSteps
    BY <2>1
  <2>3. "SBI.started" \in EnableSteps[1].on /\ "SCOUNTEREN.CY" \in EnableSteps[2].on
    BY <2>1 DEF Step
  <2>4. {"SBI.started", "SCOUNTEREN.CY"} \subseteq Granted
    BY <2>2, <2>3 DEF Granted
  <2> QED
    BY <1>3, <2>4 DEF Usable, Readable, CycleReadBits, CountBits
<1> QED
  BY <1>1, <1>2, <1>3, ArchAssumption

\* enable_pmu run to its end sets all it grants; a single step of it sets
\* its own bits and takes none away that enable_pmu grants.
LEMMA EnableEffect ==
  ASSUME NEW b \in SUBSET Bits
  PROVE  /\ RunHandler(EnableSteps, b) \in SUBSET Bits
         /\ Granted \subseteq RunHandler(EnableSteps, b)
         /\ \A i \in DOMAIN EnableSteps :
              /\ RunStep(EnableSteps[i], b) \in SUBSET Bits
              /\ EnableSteps[i].on \subseteq RunStep(EnableSteps[i], b)
              /\ b \cap Granted \subseteq RunStep(EnableSteps[i], b)
<1>1. Granted \subseteq Bits
  BY EnableStepsShape DEF Granted
<1>2. RunHandler(EnableSteps, b) =
        (b \ UNION {EnableSteps[i].off : i \in DOMAIN EnableSteps}) \cup Granted
  BY DEF RunHandler, Granted
<1>3. ASSUME NEW i \in DOMAIN EnableSteps
      PROVE  /\ RunStep(EnableSteps[i], b) \in SUBSET Bits
             /\ EnableSteps[i].on \subseteq RunStep(EnableSteps[i], b)
             /\ b \cap Granted \subseteq RunStep(EnableSteps[i], b)
  BY EnableStepsShape, <1>3 DEF RunStep
<1> QED
  BY <1>1, <1>2, <1>3

\* disable_pmu stays within the bits of the CPU, and on x86_64 it leaves
\* nothing readable.
LEMMA DisableEffect ==
  ASSUME NEW b \in SUBSET Bits
  PROVE  /\ RunHandler(DisableSteps, b) \in SUBSET Bits
         /\ Arch = "x86_64" => ~Readable(RunHandler(DisableSteps, b))
<1>1. CASE Arch = "x86_64"
  <2>1. DisableSteps = << Step({}, {"CR4.PCE"}) >> /\ Bits = {"CR4.PCE"}
    BY <1>1 DEF DisableSteps, Bits
  <2>2. DOMAIN DisableSteps = {1}
    BY <2>1
  <2>3. DisableSteps[1].on = {} /\ DisableSteps[1].off = {"CR4.PCE"}
    BY <2>1 DEF Step
  <2>4. RunHandler(DisableSteps, b) = b \ {"CR4.PCE"}
    BY <2>2, <2>3 DEF RunHandler
  <2> QED
    BY <1>1, <2>1, <2>4 DEF Readable, CycleReadBits
<1>2. CASE Arch = "aarch64"
  <2>1. DisableSteps = << Step({}, {}), Step({}, {"PMUSERENR.EN"}) >>
    BY <1>2 DEF DisableSteps
  <2>2. DOMAIN DisableSteps = {1, 2}
    BY <2>1
  <2>3. DisableSteps[1].on = {} /\ DisableSteps[2].on = {}
    BY <2>1 DEF Step
  <2> QED
    BY <1>2, <2>2, <2>3 DEF RunHandler
<1>3. CASE Arch = "riscv"
  <2>1. /\ DisableSteps = << Step({}, {}),
                             Step({"SCOUNTEREN.CY", "SCOUNTEREN.TM",
                                   "SCOUNTEREN.IR"}, {}) >>
        /\ {"SCOUNTEREN.CY", "SCOUNTEREN.TM", "SCOUNTEREN.IR"} \subseteq Bits
    BY <1>3 DEF DisableSteps, Bits
  <2>2. DOMAIN DisableSteps = {1, 2}
    BY <2>1
  <2>3. DisableSteps[1].on \subseteq Bits /\ DisableSteps[2].on \subseteq Bits
    BY <2>1 DEF Step
  <2> QED
    BY <1>3, <2>2, <2>3 DEF RunHandler
<1> QED
  BY <1>1, <1>2, <1>3, ArchAssumption

-----------------------------------------------------------------------------
(* The inductive invariants.                                               *)

\* Where the loader is and where module_init or module_exit is go together.
LoaderInv ==
  /\ call = "none" <=> module \in {"absent", "live"}
  /\ call \in {"enable", "registered"} <=> module = "coming"
  /\ call \in {"none", "registered"} => pending = {}
  /\ device <=> module \in {"live", "going"} \/ call = "registered"

\* A process in the middle of enable_pmu is in an ioctl of a file it has open.
IoctlInv == \A p \in Procs : hstep[p] > 1 => pc[p] = "ioctl" /\ file[p]

\* CPUs that cannot be hot-plugged are online, and from the moment
\* on_each_cpu(enable_pmu) has reached one they keep all that it granted
\* until pmu_driver_exit begins.
LoadInv ==
  /\ Cpus \ HotCpus \subseteq online
  /\ module \in {"coming", "live"} =>
       \A c \in (Cpus \ HotCpus) \ pending : Granted \subseteq bits[c]

\* A pinned process has, on its CPU, all that the steps of its ioctl have
\* granted so far; rmmod takes a completed grant away before it disables.
GrantInv ==
  /\ \A p \in Procs : grant[p] = "held" => module # "going"
  /\ \A p \in pinned : GrantedBefore(hstep[p]) \subseteq bits[cpu[p]]
  /\ \A p \in pinned : grant[p] = "held" => Granted \subseteq bits[cpu[p]]

\* Handlers and processes run on online CPUs only, an offline CPU has its
\* bits clear, while the module goes a CPU that disable_pmu has not still to
\* visit is unreadable, and so is every CPU once it is gone.
UnloadInv ==
  /\ pending \subseteq online /\ \A p \in Procs : cpu[p] \in online
  /\ module = "absent" /\ outcome # "failed" => \A c \in Cpus : ~Readable(bits[c])
  /\ \A c \in Cpus \ online : bits[c] = {}
  /\ module = "going" => \A c \in Cpus \ pending : ~Readable(bits[c])

-----------------------------------------------------------------------------
(* Type correctness.                                                       *)

\* Every variable keeps its type, on every architecture.
THEOREM TypeCorrect == Spec => []TypeOK
<1>1. Init => TypeOK
  <2> SUFFICES ASSUME Init
               PROVE  TypeOK
    OBVIOUS
  <2>1. 1 \in 1..Len(EnableSteps)
    BY EnableStepsShape
  <2>2. hstep \in [Procs -> 1..Len(EnableSteps)]
    BY <2>1 DEF Init
  <2>3. cpu \in [Procs -> Cpus] /\ bits \in [Cpus -> SUBSET Bits]
    BY DEF Init
  <2> QED
    BY <2>2, <2>3 DEF Init, TypeOK, Locations
<1>2. TypeOK /\ [Next]_vars => TypeOK'
  <2> SUFFICES ASSUME TypeOK, [Next]_vars
               PROVE  TypeOK'
    OBVIOUS
  <2> USE DEF TypeOK, Locations, modVars, procVars
  <2>1. CASE Insmod
    BY <2>1 DEF Insmod
  <2>2. ASSUME NEW c \in Cpus, EnableOn(c)
        PROVE  TypeOK'
    <3>1. RunHandler(EnableSteps, bits[c]) \in SUBSET Bits
      BY EnableEffect
    <3> QED
      BY <2>2, <3>1 DEF EnableOn, OnEachCpu
  <2>3. ASSUME NEW c \in Cpus, DisableOn(c)
        PROVE  TypeOK'
    <3>1. RunHandler(DisableSteps, bits[c]) \in SUBSET Bits
      BY DisableEffect
    <3> QED
      BY <2>3, <3>1 DEF DisableOn, OnEachCpu
  <2>4. CASE MiscRegister
    BY <2>4 DEF MiscRegister
  <2>5. CASE MiscRegisterFails
    BY <2>5 DEF MiscRegisterFails
  <2>6. CASE InitReturns
    BY <2>6 DEF InitReturns
  <2>7. CASE Rmmod
    BY <2>7 DEF Rmmod
  <2>8. CASE MiscDeregister
    BY <2>8 DEF MiscDeregister
  <2>9. ASSUME NEW p \in Procs, PmuOpen(p)
        PROVE  TypeOK'
    <3>1. PICK opened \in {DeviceOpens, FALSE} :
            /\ file' = [file EXCEPT ![p] = opened]
            /\ pc' \in {[pc EXCEPT ![p] = "ready"], [pc EXCEPT ![p] = "ioctl"]}
            /\ ret' \in {[ret EXCEPT ![p] = -1], ret}
      BY <2>9 DEF PmuOpen
    <3>2. opened \in BOOLEAN
      BY <3>1 DEF DeviceOpens
    <3> QED
      BY <2>9, <3>1, <3>2 DEF PmuOpen
  <2>10. ASSUME NEW p \in Procs, IoctlStep(p)
         PROVE  TypeOK'
    <3>1. hstep[p] \in DOMAIN EnableSteps /\ hstep[p] \in 1..Len(EnableSteps)
      BY EnableStepsShape
    <3>2. RunStep(EnableSteps[hstep[p]], bits[cpu[p]]) \in SUBSET Bits
      BY <3>1, EnableEffect
    <3>3. PICK i \in 1..Len(EnableSteps) : hstep' = [hstep EXCEPT ![p] = i]
      <4>1. 1 \in 1..Len(EnableSteps) /\ Len(EnableSteps) \in Nat
        BY EnableStepsShape
      <4>2. CASE hstep[p] = Len(EnableSteps)
        BY <2>10, <4>1, <4>2 DEF IoctlStep
      <4>3. CASE hstep[p] # Len(EnableSteps)
        <5>1. hstep[p] + 1 \in 1..Len(EnableSteps)
          BY <3>1, <4>1, <4>3
        <5> QED
          BY <2>10, <4>3, <5>1 DEF IoctlStep
      <4> QED
        BY <4>2, <4>3
    <3>4. bits' \in [Cpus -> SUBSET Bits]
      BY <2>10, <3>2 DEF IoctlStep
    <3>5. pc' \in [Procs -> Locations] /\ grant' \in [Procs -> {"none", "held", "revoked"}]
      BY <2>10 DEF IoctlStep
    <3> QED
      BY <2>10, <3>3, <3>4, <3>5 DEF IoctlStep
  <2>11. ASSUME NEW p \in Procs, IoctlBadFd(p)
         PROVE  TypeOK'
    BY <2>11 DEF IoctlBadFd
  <2>12. ASSUME NEW p \in Procs, PmuClose(p)
         PROVE  TypeOK'
    BY <2>12 DEF PmuClose
  <2>13. ASSUME NEW p \in Procs, ReadCounter(p)
         PROVE  TypeOK'
    BY <2>13 DEF ReadCounter
  <2>14. ASSUME NEW p \in Procs, ProcEnds(p)
         PROVE  TypeOK'
    BY <2>14 DEF ProcEnds
  <2>15. ASSUME NEW p \in Procs, NEW c \in Cpus, Migrate(p, c)
         PROVE  TypeOK'
    BY <2>15 DEF Migrate
  <2>16. ASSUME NEW c \in Cpus, CpuUp(c)
         PROVE  TypeOK'
    BY <2>16 DEF CpuUp
  <2>17. ASSUME NEW c \in Cpus, CpuDown(c)
         PROVE  TypeOK'
    BY <2>17 DEF CpuDown
  <2>18. CASE UNCHANGED vars
    BY <2>18 DEF vars
  <2> QED
    BY <2>1, <2>2, <2>3, <2>4, <2>5, <2>6, <2>7, <2>8, <2>9, <2>10, <2>11, <2>12,
       <2>13, <2>14, <2>15, <2>16, <2>17, <2>18 DEF Next, ModuleStep, ProcStep
<1> QED
  BY <1>1, <1>2, PTL DEF Spec

-----------------------------------------------------------------------------
(* Loading, unloading and opening exclude one another.                     *)

OwnershipInv == LoaderInv /\ OpenFileKeepsModule /\ IoctlInv

\* The loader's state, the progress of pmu_driver_init and pmu_driver_exit,
\* the device and the open files always go together.
THEOREM Ownership == Spec => []OwnershipInv
<1>1. Init => OwnershipInv
  BY DEF Init, OwnershipInv, LoaderInv, OpenFileKeepsModule, IoctlInv
<1>2. TypeOK /\ OwnershipInv /\ [Next]_vars => OwnershipInv'
  <2> SUFFICES ASSUME TypeOK, OwnershipInv, [Next]_vars
               PROVE  OwnershipInv'
    OBVIOUS
  <2> USE DEF TypeOK, Locations, OwnershipInv, LoaderInv, OpenFileKeepsModule,
              IoctlInv, modVars, procVars
  <2>1. CASE Insmod
    BY <2>1 DEF Insmod
  <2>2. ASSUME NEW c \in Cpus, EnableOn(c)
        PROVE  OwnershipInv'
    BY <2>2 DEF EnableOn, OnEachCpu
  <2>3. ASSUME NEW c \in Cpus, DisableOn(c)
        PROVE  OwnershipInv'
    BY <2>3 DEF DisableOn, OnEachCpu
  <2>4. CASE MiscRegister
    BY <2>4 DEF MiscRegister
  <2>5. CASE MiscRegisterFails
    BY <2>5 DEF MiscRegisterFails
  <2>6. CASE InitReturns
    BY <2>6 DEF InitReturns
  <2>7. CASE Rmmod
    BY <2>7 DEF Rmmod, ModuleRefs
  <2>8. CASE MiscDeregister
    BY <2>8 DEF MiscDeregister
  <2>9. ASSUME NEW p \in Procs, PmuOpen(p)
        PROVE  OwnershipInv'
    <3>1. PICK opened \in {DeviceOpens, FALSE} : file' = [file EXCEPT ![p] = opened]
      BY <2>9 DEF PmuOpen
    <3>2. opened => device /\ module \in {"coming", "live"}
      BY <3>1 DEF DeviceOpens
    <3>3. \A q \in Procs : file'[q] => (file[q] \/ (q = p /\ opened))
      BY <3>1
    <3>4. \A q \in Procs : pc[q] = "ioctl" /\ file[q] => q # p
      BY <2>9 DEF PmuOpen
    <3>5. UNCHANGED <<modVars, hstep>> /\ \A q \in Procs : q # p => pc'[q] = pc[q]
      BY <2>9 DEF PmuOpen
    <3>6. \A q \in Procs : q # p => file'[q] = file[q]
      BY <3>1
    <3> QED
      BY <3>2, <3>3, <3>4, <3>5, <3>6
  <2>10. ASSUME NEW p \in Procs, IoctlStep(p)
         PROVE  OwnershipInv'
    <3>1. UNCHANGED <<modVars, file>>
      BY <2>10 DEF IoctlStep
    <3>2. ASSUME NEW q \in Procs, hstep'[q] > 1
          PROVE  pc'[q] = "ioctl" /\ file'[q]
      <4>1. CASE q # p
        BY <2>10, <3>2, <4>1 DEF IoctlStep
      <4>2. CASE q = p
        BY <2>10, <3>2, <4>2 DEF IoctlStep
      <4> QED
        BY <4>1, <4>2
    <3> QED
      BY <3>1, <3>2
  <2>11. ASSUME NEW p \in Procs, IoctlBadFd(p)
         PROVE  OwnershipInv'
    BY <2>11 DEF IoctlBadFd
  <2>12. ASSUME NEW p \in Procs, PmuClose(p)
         PROVE  OwnershipInv'
    BY <2>12 DEF PmuClose
  <2>13. ASSUME NEW p \in Procs, ReadCounter(p)
         PROVE  OwnershipInv'
    BY <2>13 DEF ReadCounter
  <2>14. ASSUME NEW p \in Procs, ProcEnds(p)
         PROVE  OwnershipInv'
    BY <2>14 DEF ProcEnds
  <2>15. ASSUME NEW p \in Procs, NEW c \in Cpus, Migrate(p, c)
         PROVE  OwnershipInv'
    BY <2>15 DEF Migrate
  <2>16. ASSUME NEW c \in Cpus, CpuUp(c)
         PROVE  OwnershipInv'
    BY <2>16 DEF CpuUp
  <2>17. ASSUME NEW c \in Cpus, CpuDown(c)
         PROVE  OwnershipInv'
    BY <2>17 DEF CpuDown
  <2>18. CASE UNCHANGED vars
    BY <2>18 DEF vars
  <2> QED
    BY <2>1, <2>2, <2>3, <2>4, <2>5, <2>6, <2>7, <2>8, <2>9, <2>10,
       <2>11, <2>12, <2>13, <2>14, <2>15, <2>16, <2>17, <2>18
       DEF Next, ModuleStep, ProcStep
<1> QED
  BY <1>1, <1>2, TypeCorrect, PTL DEF Spec

-----------------------------------------------------------------------------
(* Loading reaches every CPU.                                              *)

\* enable_pmu reaches the CPUs that are there to stay, and nothing but
\* pmu_driver_exit takes away what it granted.
THEOREM Loading == Spec => []LoadInv
<1>1. Init => LoadInv
  BY DEF Init, LoadInv
<1>2. TypeOK /\ OwnershipInv /\ LoadInv /\ [Next]_vars => LoadInv'
  <2> SUFFICES ASSUME TypeOK, OwnershipInv, LoadInv, [Next]_vars
               PROVE  LoadInv'
    OBVIOUS
  <2> USE DEF TypeOK, OwnershipInv, LoaderInv, OpenFileKeepsModule, LoadInv, modVars, procVars
  <2>1. CASE Insmod
    BY <2>1 DEF Insmod
  <2>2. ASSUME NEW c \in Cpus, EnableOn(c)
        PROVE  LoadInv'
    <3>1. Granted \subseteq RunHandler(EnableSteps, bits[c])
      BY EnableEffect
    <3> QED
      BY <2>2, <3>1 DEF EnableOn, OnEachCpu
  <2>3. ASSUME NEW c \in Cpus, DisableOn(c)
        PROVE  LoadInv'
    <3>1. module' = "going" /\ online' = online
      BY <2>3 DEF DisableOn, OnEachCpu
    <3> QED
      BY <2>3, <3>1
  <2>4. CASE MiscRegister
    BY <2>4 DEF MiscRegister
  <2>5. CASE MiscRegisterFails
    BY <2>5 DEF MiscRegisterFails
  <2>6. CASE InitReturns
    BY <2>6 DEF InitReturns
  <2>7. CASE Rmmod
    BY <2>7 DEF Rmmod
  <2>8. CASE MiscDeregister
    BY <2>8 DEF MiscDeregister
  <2>9. ASSUME NEW p \in Procs, PmuOpen(p)
        PROVE  LoadInv'
    BY <2>9 DEF PmuOpen
  <2>10. ASSUME NEW p \in Procs, IoctlStep(p)
         PROVE  LoadInv'
    <3>1. hstep[p] \in DOMAIN EnableSteps
      BY EnableStepsShape
    <3>2. \A c \in Cpus : bits[c] \cap Granted \subseteq bits'[c]
      <4>1. bits[cpu[p]] \cap Granted \subseteq RunStep(EnableSteps[hstep[p]], bits[cpu[p]])
        BY <3>1, EnableEffect
      <4> QED
        BY <2>10, <4>1 DEF IoctlStep
    <3>3. UNCHANGED <<module, pending, online>>
      BY <2>10 DEF IoctlStep
    <3> QED
      BY <3>2, <3>3
  <2>11. ASSUME NEW p \in Procs, IoctlBadFd(p)
         PROVE  LoadInv'
    BY <2>11 DEF IoctlBadFd
  <2>12. ASSUME NEW p \in Procs, PmuClose(p)
         PROVE  LoadInv'
    BY <2>12 DEF PmuClose
  <2>13. ASSUME NEW p \in Procs, ReadCounter(p)
         PROVE  LoadInv'
    BY <2>13 DEF ReadCounter
  <2>14. ASSUME NEW p \in Procs, ProcEnds(p)
         PROVE  LoadInv'
    BY <2>14 DEF ProcEnds
  <2>15. ASSUME NEW p \in Procs, NEW c \in Cpus, Migrate(p, c)
         PROVE  LoadInv'
    BY <2>15 DEF Migrate
  <2>16. ASSUME NEW c \in Cpus, CpuUp(c)
         PROVE  LoadInv'
    BY <2>16 DEF CpuUp
  <2>17. ASSUME NEW c \in Cpus, CpuDown(c)
         PROVE  LoadInv'
    BY <2>17 DEF CpuDown
  <2>18. CASE UNCHANGED vars
    BY <2>18 DEF vars
  <2> QED
    BY <2>1, <2>2, <2>3, <2>4, <2>5, <2>6, <2>7, <2>8, <2>9, <2>10,
       <2>11, <2>12, <2>13, <2>14, <2>15, <2>16, <2>17, <2>18
       DEF Next, ModuleStep, ProcStep
<1> QED
  BY <1>1, <1>2, TypeCorrect, Ownership, PTL DEF Spec

\* When insmod has succeeded, enable_pmu has run to its end on every CPU that
\* cannot be hot-plugged, and no one undoes it while the module is loaded
\* (pmu_driver_init: on_each_cpu waits).
THEOREM LoadReachesAll == Spec => []LoadReachesEveryCpu
<1>1. TypeOK /\ OwnershipInv /\ LoadInv => LoadReachesEveryCpu
  BY GrantedIsUsable DEF TypeOK, OwnershipInv, LoaderInv, LoadInv, LoadReachesEveryCpu
<1> QED
  BY <1>1, TypeCorrect, Ownership, Loading, PTL

-----------------------------------------------------------------------------
(* A pinned process keeps what its ioctl was granted.                      *)

\* A pinned process has what the steps of its ioctl have granted so far.
THEOREM Granting == Spec => []GrantInv
<1>1. Init => GrantInv
  <2>1. GrantedBefore(1) = {}
    BY EnableStepsShape DEF GrantedBefore
  <2> QED
    BY <2>1, DriverAssumption DEF Init, GrantInv
<1>2. TypeOK /\ OwnershipInv /\ GrantInv /\ [Next]_vars => GrantInv'
  <2> SUFFICES ASSUME TypeOK, OwnershipInv, GrantInv, [Next]_vars
               PROVE  GrantInv'
    OBVIOUS
  <2>0. pinned \subseteq Procs
    BY DriverAssumption DEF TypeOK
  <2> USE DEF TypeOK, OwnershipInv, LoaderInv, OpenFileKeepsModule, IoctlInv, GrantInv, modVars, procVars
  <2>1. CASE Insmod
    BY <2>1 DEF Insmod
  <2>2. ASSUME NEW c \in Cpus, EnableOn(c)
        PROVE  GrantInv'
    <3>1. UNCHANGED <<cpu, pinned, hstep, grant, module>>
      BY <2>2 DEF EnableOn, OnEachCpu
    <3>2. \A k : GrantedBefore(k) \subseteq Granted
      BY DEF GrantedBefore, Granted
    <3>3. \A d \in Cpus : d = c \/ bits'[d] = bits[d]
      BY <2>2 DEF EnableOn, OnEachCpu
    <3>4. Granted \subseteq bits'[c]
      BY <2>2, EnableEffect DEF EnableOn, OnEachCpu
    <3> QED
      BY <3>1, <3>2, <3>3, <3>4, <2>0
  <2>3. ASSUME NEW c \in Cpus, DisableOn(c)
        PROVE  GrantInv'
    <3>1. module = "going" /\ UNCHANGED <<cpu, pinned, hstep, grant, module>>
      BY <2>3 DEF DisableOn, OnEachCpu
    <3>2. \A p \in Procs : hstep[p] = 1
      BY <3>1, EnableStepsShape
    <3>3. \A p \in Procs : grant[p] # "held"
      BY <3>1
    <3>4. GrantedBefore(1) = {}
      BY EnableStepsShape DEF GrantedBefore
    <3> QED
      BY <3>1, <3>2, <3>3, <3>4, <2>0
  <2>4. CASE MiscRegister
    BY <2>4 DEF MiscRegister
  <2>5. CASE MiscRegisterFails
    BY <2>5 DEF MiscRegisterFails
  <2>6. CASE InitReturns
    BY <2>6 DEF InitReturns
  <2>7. CASE Rmmod
    <3>1. UNCHANGED <<cpu, pinned, hstep, bits>> /\ \A p \in Procs : grant'[p] # "held"
      BY <2>7 DEF Rmmod
    <3> QED
      BY <3>1, <2>0
  <2>8. CASE MiscDeregister
    BY <2>8 DEF MiscDeregister
  <2>9. ASSUME NEW p \in Procs, PmuOpen(p)
        PROVE  GrantInv'
    <3>1. UNCHANGED <<module, cpu, pinned, hstep, bits>>
      BY <2>9 DEF PmuOpen
    <3>2. \A q \in Procs : grant'[q] = "held" => grant[q] = "held"
      BY <2>9 DEF PmuOpen
    <3> QED
      BY <3>1, <3>2, <2>0
  <2>10. ASSUME NEW p \in Procs, IoctlStep(p)
         PROVE  GrantInv'
    <3>1. hstep[p] \in DOMAIN EnableSteps /\ hstep[p] \in Nat
      BY EnableStepsShape
    <3>2. module' = module /\ cpu' = cpu /\ pinned' = pinned /\ module # "going"
      BY <2>10 DEF IoctlStep
    <3>3. \A c \in Cpus : bits[c] \cap Granted \subseteq bits'[c]
      <4>1. bits[cpu[p]] \cap Granted \subseteq RunStep(EnableSteps[hstep[p]], bits[cpu[p]])
        BY <3>1, EnableEffect
      <4> QED
        BY <2>10, <4>1 DEF IoctlStep
    <3>4. EnableSteps[hstep[p]].on \subseteq bits'[cpu[p]]
      <4>1. EnableSteps[hstep[p]].on \subseteq RunStep(EnableSteps[hstep[p]], bits[cpu[p]])
        BY <3>1, EnableEffect
      <4> QED
        BY <2>10, <4>1 DEF IoctlStep
    <3>5. \A k : GrantedBefore(k) \subseteq Granted
      BY DEF GrantedBefore, Granted
    <3>6. GrantedBefore(hstep[p] + 1) = GrantedBefore(hstep[p]) \cup EnableSteps[hstep[p]].on
      BY <3>1, EnableStepsShape DEF GrantedBefore
    <3>7. p \in pinned => GrantedBefore(hstep[p] + 1) \subseteq bits'[cpu[p]]
      BY <3>3, <3>4, <3>5, <3>6
    <3>8. ASSUME NEW q \in pinned, q \in Procs
          PROVE  /\ GrantedBefore(hstep'[q]) \subseteq bits'[cpu[q]]
                 /\ grant'[q] = "held" => Granted \subseteq bits'[cpu[q]]
      <4>1. CASE q # p
        <5>1. hstep'[q] = hstep[q] /\ grant'[q] = grant[q]
          BY <2>10, <3>8, <4>1 DEF IoctlStep
        <5> QED
          BY <3>3, <3>5, <5>1, <2>0
      <4>2. CASE q = p /\ hstep[p] # Len(EnableSteps)
        <5>1. hstep'[p] = hstep[p] + 1 /\ grant'[p] = grant[p]
          BY <2>10, <4>2 DEF IoctlStep
        <5> QED
          BY <3>3, <3>7, <4>2, <5>1
      <4>3. CASE q = p /\ hstep[p] = Len(EnableSteps)
        <5>1. hstep'[p] = 1
          BY <2>10, <4>3 DEF IoctlStep
        <5>2. GrantedBefore(1) = {}
          BY EnableStepsShape DEF GrantedBefore
        <5>3. GrantedBefore(hstep[p] + 1) = Granted
          BY <4>3, EnableStepsShape DEF GrantedBefore, Granted
        <5> QED
          BY <3>7, <4>3, <5>1, <5>2, <5>3
      <4> QED
        BY <4>1, <4>2, <4>3
    <3> QED
      BY <3>2, <3>8, <2>0
  <2>11. ASSUME NEW p \in Procs, IoctlBadFd(p)
         PROVE  GrantInv'
    BY <2>11 DEF IoctlBadFd
  <2>12. ASSUME NEW p \in Procs, PmuClose(p)
         PROVE  GrantInv'
    BY <2>12 DEF PmuClose
  <2>13. ASSUME NEW p \in Procs, ReadCounter(p)
         PROVE  GrantInv'
    BY <2>13 DEF ReadCounter
  <2>14. ASSUME NEW p \in Procs, ProcEnds(p)
         PROVE  GrantInv'
    <3>1. UNCHANGED <<module, hstep, bits>> /\ hstep[p] = 1 /\ grant'[p] = "none"
      BY <2>14 DEF ProcEnds
    <3>2. \A q \in Procs : q = p \/ (grant'[q] = grant[q] /\ cpu'[q] = cpu[q])
      BY <2>14 DEF ProcEnds
    <3>3. GrantedBefore(1) = {}
      BY EnableStepsShape DEF GrantedBefore
    <3>4. \A q \in Procs : grant'[q] = "held" => module' # "going"
      BY <3>1, <3>2
    <3>5. ASSUME NEW q \in pinned', q \in Procs
          PROVE  /\ GrantedBefore(hstep'[q]) \subseteq bits'[cpu'[q]]
                 /\ grant'[q] = "held" => Granted \subseteq bits'[cpu'[q]]
      <4>1. CASE q = p
        BY <3>1, <3>3, <4>1
      <4>2. CASE q # p
        <5>1. q \in pinned
          BY <2>14, <4>2 DEF ProcEnds
        <5> QED
          BY <3>1, <3>2, <4>2, <3>5, <5>1
      <4> QED
        BY <4>1, <4>2
    <3> QED
      <4>1. pinned' \subseteq Procs
        BY <2>14, <2>0 DEF ProcEnds
      <4> QED
        BY <3>4, <3>5, <4>1
  <2>15. ASSUME NEW p \in Procs, NEW c \in Cpus, Migrate(p, c)
         PROVE  GrantInv'
    <3>1. UNCHANGED <<module, hstep, grant, bits>> /\ p \notin pinned
      BY <2>15 DEF Migrate
    <3>2. pinned' = pinned /\ \A q \in pinned : cpu'[q] = cpu[q]
      BY <2>15, <3>1, <2>0 DEF Migrate
    <3> QED
      BY <3>1, <3>2
  <2>16. ASSUME NEW c \in Cpus, CpuUp(c)
         PROVE  GrantInv'
    BY <2>16 DEF CpuUp
  <2>17. ASSUME NEW c \in Cpus, CpuDown(c)
         PROVE  GrantInv'
    <3>1. UNCHANGED <<module, hstep, grant>>
      BY <2>17 DEF CpuDown
    <3>2. \A q \in pinned' :
             q \in pinned /\ cpu'[q] = cpu[q] /\ bits'[cpu[q]] = bits[cpu[q]]
      BY <2>17, <2>0 DEF CpuDown
    <3> QED
      BY <3>1, <3>2
  <2>18. CASE UNCHANGED vars
    BY <2>18 DEF vars
  <2> QED
    BY <2>1, <2>2, <2>3, <2>4, <2>5, <2>6, <2>7, <2>8, <2>9, <2>10,
       <2>11, <2>12, <2>13, <2>14, <2>15, <2>16, <2>17, <2>18
       DEF Next, ModuleStep, ProcStep
<1> QED
  BY <1>1, <1>2, TypeCorrect, Ownership, PTL DEF Spec

\* On every architecture, once the ioctl of its pmu_init has run, a pinned
\* process can read a counter that counts until an rmmod begins, however the
\* steps of the ioctl interleave with loading, hotplug and other processes.
THEOREM PinnedAccess == Spec => []PinnedKeepsAccess
<1>1. GrantInv => PinnedKeepsAccess
  BY GrantedIsUsable DEF GrantInv, PinnedKeepsAccess
<1> QED
  BY <1>1, Granting, PTL

-----------------------------------------------------------------------------
(* Why a read of the counter may fault.                                    *)

\* What an ioctl has granted is held from a time at which the module has been
\* on every CPU, to the rmmod that takes it away.
HeldInv == \A p \in Procs : grant[p] = "held" => module = "live" \/ call = "registered"

\* An ioctl runs only once the device is registered, which on_each_cpu comes
\* before.
THEOREM Holding == Spec => []HeldInv
<1>1. Init => HeldInv
  BY DEF Init, HeldInv
<1>2. TypeOK /\ OwnershipInv /\ HeldInv /\ [Next]_vars => HeldInv'
  <2> SUFFICES ASSUME TypeOK, OwnershipInv, HeldInv, [Next]_vars
               PROVE  HeldInv'
    OBVIOUS
  <2> USE DEF TypeOK, HeldInv, modVars, procVars
  <2>1. CASE Insmod
    BY <2>1 DEF Insmod, OwnershipInv, LoaderInv
  <2>2. ASSUME NEW c \in Cpus, EnableOn(c) \/ DisableOn(c)
        PROVE  HeldInv'
    BY <2>2 DEF EnableOn, DisableOn, OnEachCpu
  <2>3. CASE MiscRegister
    BY <2>3 DEF MiscRegister
  <2>4. CASE MiscRegisterFails
    BY <2>4 DEF MiscRegisterFails, OwnershipInv, LoaderInv
  <2>5. CASE InitReturns
    BY <2>5 DEF InitReturns
  <2>6. CASE Rmmod
    BY <2>6 DEF Rmmod
  <2>7. CASE MiscDeregister
    BY <2>7 DEF MiscDeregister, OwnershipInv, LoaderInv
  <2>8. ASSUME NEW p \in Procs, PmuOpen(p)
        PROVE  HeldInv'
    BY <2>8 DEF PmuOpen
  <2>9. ASSUME NEW p \in Procs, IoctlStep(p)
        PROVE  HeldInv'
    <3>1. module = "live" \/ call = "registered"
      BY <2>9 DEF IoctlStep, OwnershipInv, LoaderInv, OpenFileKeepsModule
    <3> QED
      BY <2>9, <3>1 DEF IoctlStep
  <2>10. ASSUME NEW p \in Procs, IoctlBadFd(p) \/ PmuClose(p) \/ ReadCounter(p)
         PROVE  HeldInv'
    BY <2>10 DEF IoctlBadFd, PmuClose, ReadCounter
  <2>11. ASSUME NEW p \in Procs, ProcEnds(p)
         PROVE  HeldInv'
    BY <2>11 DEF ProcEnds
  <2>12. ASSUME NEW p \in Procs, NEW c \in Cpus, Migrate(p, c)
         PROVE  HeldInv'
    BY <2>12 DEF Migrate
  <2>13. ASSUME NEW c \in Cpus, CpuUp(c) \/ CpuDown(c)
         PROVE  HeldInv'
    BY <2>13 DEF CpuUp, CpuDown
  <2>14. CASE UNCHANGED vars
    BY <2>14 DEF vars
  <2> QED
    BY <2>1, <2>2, <2>3, <2>4, <2>5, <2>6, <2>7, <2>8, <2>9, <2>10, <2>11, <2>12,
       <2>13, <2>14 DEF Next, ModuleStep, ProcStep
<1> QED
  BY <1>1, <1>2, TypeCorrect, Ownership, PTL DEF Spec

\* A process goes on to fault only by reading where it may not.
LEMMA OnlyReadsFault ==
  ASSUME TypeOK, [Next]_vars, NEW p \in Procs, pc[p] # "faulted", pc'[p] = "faulted"
  PROVE  ~Readable(bits[cpu[p]])
<1> USE DEF TypeOK, modVars, procVars
<1>1. ASSUME NEW q \in Procs, ReadCounter(q)
      PROVE  ~Readable(bits[cpu[p]])
  <2>1. p = q
    BY <1>1 DEF ReadCounter
  <2> QED
    BY <1>1, <2>1 DEF ReadCounter
<1>2. ASSUME NEW q \in Procs, PmuOpen(q) \/ IoctlStep(q) \/ IoctlBadFd(q) \/ PmuClose(q)
                              \/ ProcEnds(q) \/ \E c \in Cpus : Migrate(q, c)
      PROVE  FALSE
  <2>1. CASE PmuOpen(q)
    BY <2>1 DEF PmuOpen
  <2>2. CASE IoctlStep(q)
    BY <2>2 DEF IoctlStep
  <2>3. CASE IoctlBadFd(q) \/ PmuClose(q)
    BY <2>3 DEF IoctlBadFd, PmuClose
  <2>4. CASE ProcEnds(q) \/ \E c \in Cpus : Migrate(q, c)
    BY <2>4 DEF ProcEnds, Migrate
  <2> QED
    BY <1>2, <2>1, <2>2, <2>3, <2>4
<1>3. ASSUME ModuleStep \/ (\E c \in Cpus : CpuUp(c) \/ CpuDown(c)) \/ UNCHANGED vars
      PROVE  pc' = pc
  BY <1>3 DEF ModuleStep, Insmod, EnableOn, DisableOn, OnEachCpu, MiscRegister,
              MiscRegisterFails, InitReturns, Rmmod, MiscDeregister, CpuUp, CpuDown, vars
<1> QED
  BY <1>1, <1>2, <1>3 DEF Next, ProcStep

\* On every architecture a process that faults has run no ioctl, or has lost
\* its grant to an rmmod, or has migrated to a CPU that was plugged in
\* (module/pmu_utils.c: pmu_driver_init, device_ioctl).
THEOREM FaultsExplained == Spec => FaultsAreExplained
<1>1. ASSUME TypeOK, OwnershipInv, LoadInv, HeldInv, PinnedKeepsAccess, [Next]_vars,
             NEW p \in Procs, pc[p] # "faulted", pc'[p] = "faulted", grant[p] = "held"
      PROVE  p \notin pinned /\ cpu[p] \in HotCpus
  <2>1. ~Readable(bits[cpu[p]])
    BY <1>1, OnlyReadsFault
  <2>2. p \notin pinned
    BY <1>1, <2>1 DEF PinnedKeepsAccess, Usable
  <2>3. module \in {"coming", "live"} /\ pending = {}
    BY <1>1 DEF HeldInv, OwnershipInv, LoaderInv
  <2>4. cpu[p] \notin HotCpus => Granted \subseteq bits[cpu[p]]
    BY <1>1, <2>3 DEF LoadInv, TypeOK
  <2> QED
    BY <2>1, <2>2, <2>4, GrantedIsUsable DEF Usable
<1>2. TypeOK /\ OwnershipInv /\ LoadInv /\ HeldInv /\ PinnedKeepsAccess /\ [Next]_vars =>
        [\A p \in Procs :
           pc[p] # "faulted" /\ pc'[p] = "faulted" =>
             \/ grant[p] # "held"
             \/ p \notin pinned /\ cpu[p] \in HotCpus]_vars
  BY <1>1
<1> QED
  BY <1>2, TypeCorrect, Ownership, Loading, Holding, PinnedAccess, PTL
     DEF Spec, FaultsAreExplained

-----------------------------------------------------------------------------
(* Loading and unloading come to an end.                                   *)

\* A handler that has run is not run again by the same on_each_cpu.
LEMMA PendingShrinks ==
  ASSUME TypeOK, NEW c \in pending
  PROVE  /\ Cardinality(pending) \in Nat
         /\ Cardinality(pending \ {c}) = Cardinality(pending) - 1
<1>1. IsFiniteSet(pending)
  BY FS_Subset, DriverAssumption DEF TypeOK
<1> QED
  BY <1>1, FS_CardinalityType, FS_RemoveElement

\* What is left to do is a number, and it is 0 only at rest.
LEMMA StepsLeftNat ==
  ASSUME TypeOK
  PROVE  StepsLeft \in Nat /\ (call # "none" => StepsLeft > 0)
<1>1. Cardinality(pending) \in Nat
  BY FS_Subset, FS_CardinalityType, DriverAssumption DEF TypeOK
<1> QED
  BY <1>1 DEF StepsLeft, TypeOK

\* On every architecture and for any number of CPUs, insmod and rmmod have
\* a bounded number of steps to take and nothing adds to it once they run.
THEOREM LoaderComesNearer == Spec => LoaderAdvances
<1>1. ASSUME TypeOK, OwnershipInv, [Next]_vars, call # "none"
      PROVE  StepsLeft' <= StepsLeft /\ (ModuleStep => StepsLeft' < StepsLeft)
  <2> DEFINE Left == Cardinality(pending)
  <2>1. Left \in Nat /\ StepsLeft \in Nat
    BY <1>1, StepsLeftNat, FS_Subset, FS_CardinalityType, DriverAssumption DEF TypeOK
  <2>2. ASSUME NEW c \in Cpus, EnableOn(c) \/ DisableOn(c)
        PROVE  StepsLeft' < StepsLeft
    <3>1. c \in pending /\ pending' = pending \ {c} /\ call' = call
      BY <2>2 DEF EnableOn, DisableOn, OnEachCpu
    <3>2. Cardinality(pending') = Left - 1
      BY <1>1, <3>1, PendingShrinks
    <3>3. call \in {"enable", "disable"}
      BY <2>2 DEF EnableOn, DisableOn
    <3> QED
      BY <2>1, <3>1, <3>2, <3>3 DEF StepsLeft
  <2>3. ASSUME MiscRegister \/ MiscRegisterFails \/ InitReturns \/ MiscDeregister
        PROVE  StepsLeft' < StepsLeft
    BY <2>1, <2>3 DEF MiscRegister, MiscRegisterFails, InitReturns, MiscDeregister, StepsLeft
  <2>4. ~(Insmod \/ Rmmod)
    BY <1>1 DEF Insmod, Rmmod, OwnershipInv, LoaderInv
  <2>5. ModuleStep => StepsLeft' < StepsLeft
    BY <2>2, <2>3, <2>4 DEF ModuleStep
  <2>6. ASSUME ~ModuleStep
        PROVE  StepsLeft' = StepsLeft
    <3>1. UNCHANGED <<call, pending>>
      BY <1>1, <2>6 DEF Next, ProcStep, PmuOpen, IoctlStep, IoctlBadFd, PmuClose,
         ReadCounter, ProcEnds, Migrate, CpuUp, CpuDown, vars, modVars, procVars
    <3> QED
      BY <3>1 DEF StepsLeft
  <2>7. StepsLeft' \in Nat
    <3>1. CASE ModuleStep
      <4>1. pending' \in SUBSET Cpus /\ call' \in {"none", "enable", "registered", "disable"}
        BY <1>1, <3>1 DEF TypeOK, ModuleStep, Insmod, EnableOn, DisableOn, OnEachCpu,
           MiscRegister, MiscRegisterFails, InitReturns, Rmmod, MiscDeregister
      <4>2. Cardinality(pending') \in Nat
        BY <4>1, FS_Subset, FS_CardinalityType, DriverAssumption
      <4> QED
        BY <4>1, <4>2 DEF StepsLeft
    <3>2. CASE ~ModuleStep
      BY <2>1, <2>6, <3>2
    <3> QED
      BY <3>1, <3>2
  <2> QED
    BY <2>1, <2>5, <2>6, <2>7
<1>2. TypeOK /\ OwnershipInv /\ [Next]_vars =>
        [call # "none" =>
           /\ StepsLeft' <= StepsLeft
           /\ ModuleStep => StepsLeft' < StepsLeft]_vars
  BY <1>1
<1> QED
  BY <1>2, TypeCorrect, Ownership, PTL DEF Spec, LoaderAdvances

-----------------------------------------------------------------------------
(* Unloading on x86_64.                                                    *)

\* A CPU with no bit set is unreadable.
LEMMA UnreadableEmpty == ~Readable({})
BY DEF Readable

\* On x86_64 disable_pmu leaves behind it CPUs that nobody can read.
THEOREM Unloading == Arch = "x86_64" /\ Spec => []UnloadInv
<1> SUFFICES ASSUME Arch = "x86_64"
             PROVE  Spec => []UnloadInv
  OBVIOUS
<1>1. Init => UnloadInv
  BY UnreadableEmpty DEF Init, UnloadInv
<1>2. TypeOK /\ OwnershipInv /\ UnloadInv /\ [Next]_vars => UnloadInv'
  <2> SUFFICES ASSUME TypeOK, OwnershipInv, UnloadInv, [Next]_vars
               PROVE  UnloadInv'
    OBVIOUS
  <2> USE DEF TypeOK, OwnershipInv, LoaderInv, OpenFileKeepsModule, UnloadInv, modVars, procVars
  <2>1. CASE Insmod
    BY <2>1 DEF Insmod
  <2>2. ASSUME NEW c \in Cpus, EnableOn(c)
        PROVE  UnloadInv'
    <3>1. module = "coming" /\ c \in online
      BY <2>2 DEF EnableOn, OnEachCpu
    <3> QED
      BY <2>2, <3>1 DEF EnableOn, OnEachCpu
  <2>3. ASSUME NEW c \in Cpus, DisableOn(c)
        PROVE  UnloadInv'
    <3>1. ~Readable(RunHandler(DisableSteps, bits[c]))
      BY DisableEffect
    <3>2. module = "going" /\ c \in online
      BY <2>3 DEF DisableOn, OnEachCpu
    <3> QED
      BY <2>3, <3>1, <3>2 DEF DisableOn, OnEachCpu
  <2>4. CASE MiscRegister
    BY <2>4 DEF MiscRegister
  <2>5. CASE MiscRegisterFails
    BY <2>5 DEF MiscRegisterFails
  <2>6. CASE InitReturns
    BY <2>6 DEF InitReturns
  <2>7. CASE Rmmod
    <3>1. /\ UNCHANGED <<online, bits, cpu, outcome>>
          /\ pending' = online /\ module' = "going"
      BY <2>7 DEF Rmmod
    <3>2. \A c \in Cpus \ online : ~Readable(bits[c])
      BY UnreadableEmpty
    <3> QED
      BY <3>1, <3>2
  <2>8. CASE MiscDeregister
    BY <2>8 DEF MiscDeregister
  <2>9. ASSUME NEW p \in Procs, PmuOpen(p)
        PROVE  UnloadInv'
    BY <2>9 DEF PmuOpen
  <2>10. ASSUME NEW p \in Procs, IoctlStep(p)
         PROVE  UnloadInv'
    <3>1. module \in {"coming", "live"} /\ cpu[p] \in online
      BY <2>10 DEF IoctlStep
    <3> QED
      BY <2>10, <3>1 DEF IoctlStep
  <2>11. ASSUME NEW p \in Procs, IoctlBadFd(p)
         PROVE  UnloadInv'
    BY <2>11 DEF IoctlBadFd
  <2>12. ASSUME NEW p \in Procs, PmuClose(p)
         PROVE  UnloadInv'
    BY <2>12 DEF PmuClose
  <2>13. ASSUME NEW p \in Procs, ReadCounter(p)
         PROVE  UnloadInv'
    BY <2>13 DEF ReadCounter
  <2>14. ASSUME NEW p \in Procs, ProcEnds(p)
         PROVE  UnloadInv'
    BY <2>14 DEF ProcEnds
  <2>15. ASSUME NEW p \in Procs, NEW c \in Cpus, Migrate(p, c)
         PROVE  UnloadInv'
    BY <2>15 DEF Migrate
  <2>16. ASSUME NEW c \in Cpus, CpuUp(c)
         PROVE  UnloadInv'
    <3>1. ~Readable(bits[c])
      BY <2>16, UnreadableEmpty DEF CpuUp
    <3> QED
      BY <2>16, <3>1 DEF CpuUp
  <2>17. ASSUME NEW c \in Cpus, CpuDown(c)
         PROVE  UnloadInv'
    <3>1. ~Readable({})
      BY UnreadableEmpty
    <3> QED
      BY <2>17, <3>1 DEF CpuDown
  <2>18. CASE UNCHANGED vars
    BY <2>18 DEF vars
  <2> QED
    BY <2>1, <2>2, <2>3, <2>4, <2>5, <2>6, <2>7, <2>8, <2>9, <2>10,
       <2>11, <2>12, <2>13, <2>14, <2>15, <2>16, <2>17, <2>18
       DEF Next, ModuleStep, ProcStep
<1> QED
  BY <1>1, <1>2, TypeCorrect, Ownership, PTL DEF Spec

\* On x86_64, after a completed rmmod no CPU lets user code read a counter,
\* whatever processes, hotplug and earlier loads did (pmu_driver_exit).
THEOREM UnloadRevokesAll == Arch = "x86_64" /\ Spec => []UnloadRevokes
<1>1. UnloadInv => UnloadRevokes
  BY DEF UnloadInv, UnloadRevokes
<1> QED
  BY <1>1, Unloading, PTL

\* A file of the device that a process has open keeps rmmod from beginning,
\* so device_ioctl never runs in a module on its way out (f_ops: .owner).
THEOREM OpenFileHolds == Spec => []OpenFileKeepsModule
<1>1. OwnershipInv => OpenFileKeepsModule
  BY DEF OwnershipInv
<1> QED
  BY <1>1, Ownership, PTL

-----------------------------------------------------------------------------
(* The refinement of AccessGate on x86_64.                                 *)

\* What a step of PmuDriver does to what the gate is made of.
LEMMA GateUnchanged ==
  ASSUME UNCHANGED <<module, outcome, bits>>
  PROVE  UNCHANGED <<GateState, ReadableCpus>>
BY DEF GateState, ReadableCpus

\* A step of enable_pmu leaves the CPU readable on x86_64.
LEMMA EnableStepReadable ==
  ASSUME Arch = "x86_64", NEW i \in DOMAIN EnableSteps, NEW b
  PROVE  Readable(RunStep(EnableSteps[i], b))
<1>1. EnableSteps = << Step({"CR4.PCE"}, {}) >>
  BY DEF EnableSteps
<1>2. i = 1 /\ EnableSteps[1].on = {"CR4.PCE"}
  BY <1>1 DEF Step
<1>3. CycleReadBits = {"CR4.PCE"}
  BY DEF CycleReadBits
<1> QED
  BY <1>2, <1>3 DEF RunStep, Readable

\* On x86_64 loading and unloading implement AccessGate.
THEOREM GateRefinement == Arch = "x86_64" /\ Spec => ImplementsGate
<1> SUFFICES ASSUME Arch = "x86_64"
             PROVE  Spec => ImplementsGate
  OBVIOUS
<1>1. Init => Gate!Init
  BY UnreadableEmpty DEF Init, Gate!Init, GateState, ReadableCpus
<1>2. TypeOK /\ OwnershipInv /\ UnloadInv /\ [Next]_vars => [Gate!Next]_(Gate!vars)
  <2> SUFFICES ASSUME TypeOK, OwnershipInv, UnloadInv, [Next]_vars
               PROVE  Gate!Next \/ UNCHANGED <<GateState, ReadableCpus>>
    BY DEF Gate!vars
  <2> USE DEF TypeOK, OwnershipInv, LoaderInv, OpenFileKeepsModule, modVars, procVars
  <2>1. CASE Insmod
    BY <2>1 DEF Insmod, Gate!Next, Gate!Open, GateState, ReadableCpus
  <2>2. ASSUME NEW c \in Cpus, EnableOn(c)
        PROVE  Gate!Next
    <3>1. Readable(bits'[c]) /\ \A d \in Cpus : d # c => bits'[d] = bits[d]
      <4>1. Usable(RunHandler(EnableSteps, bits[c]))
        BY EnableEffect, GrantedIsUsable
      <4> QED
        BY <2>2, <4>1 DEF EnableOn, OnEachCpu, Usable
    <3>2. ReadableCpus' = ReadableCpus \cup {c}
      BY <3>1 DEF ReadableCpus
    <3>3. GateState = "open" /\ GateState' = "open"
      BY <2>2 DEF EnableOn, OnEachCpu, GateState
    <3> QED
      BY <3>2, <3>3 DEF Gate!Next, Gate!Grant
  <2>3. ASSUME NEW c \in Cpus, DisableOn(c)
        PROVE  Gate!Next
    <3>1. ~Readable(bits'[c]) /\ \A d \in Cpus : d # c => bits'[d] = bits[d]
      <4>1. ~Readable(RunHandler(DisableSteps, bits[c]))
        BY DisableEffect
      <4> QED
        BY <2>3, <4>1 DEF DisableOn, OnEachCpu
    <3>2. ReadableCpus' = ReadableCpus \ {c}
      BY <3>1 DEF ReadableCpus
    <3>3. GateState = "closing" /\ GateState' = "closing"
      BY <2>3 DEF DisableOn, OnEachCpu, GateState
    <3> QED
      BY <3>2, <3>3 DEF Gate!Next, Gate!Revoke
  <2>4. CASE MiscRegister
    BY <2>4, GateUnchanged DEF MiscRegister
  <2>5. CASE MiscRegisterFails
    BY <2>5 DEF MiscRegisterFails, Gate!Next, Gate!Leave, GateState, ReadableCpus
  <2>6. CASE InitReturns
    BY <2>6 DEF InitReturns, GateState, ReadableCpus
  <2>7. CASE Rmmod
    BY <2>7 DEF Rmmod, Gate!Next, Gate!Close, GateState, ReadableCpus
  <2>8. CASE MiscDeregister
    <3>1. ReadableCpus = {} /\ ReadableCpus' = {}
      BY <2>8 DEF MiscDeregister, UnloadInv, ReadableCpus
    <3> QED
      BY <2>8, <3>1 DEF MiscDeregister, Gate!Next, Gate!Shut, GateState
  <2>9. ASSUME NEW p \in Procs, PmuOpen(p)
        PROVE  UNCHANGED <<GateState, ReadableCpus>>
    BY <2>9, GateUnchanged DEF PmuOpen
  <2>10. ASSUME NEW p \in Procs, IoctlStep(p)
         PROVE  Gate!Next
    <3>1. Readable(bits'[cpu[p]]) /\ \A d \in Cpus : d # cpu[p] => bits'[d] = bits[d]
      <4>1. Readable(RunStep(EnableSteps[hstep[p]], bits[cpu[p]]))
        BY EnableStepReadable, EnableStepsShape
      <4> QED
        BY <2>10, <4>1 DEF IoctlStep
    <3>2. cpu[p] \in Cpus /\ ReadableCpus' = ReadableCpus \cup {cpu[p]}
      BY <3>1 DEF ReadableCpus
    <3>3. GateState = "open" /\ GateState' = "open"
      BY <2>10 DEF IoctlStep, GateState
    <3> QED
      BY <3>2, <3>3 DEF Gate!Next, Gate!Grant
  <2>11. ASSUME NEW p \in Procs, IoctlBadFd(p) \/ PmuClose(p) \/ ReadCounter(p)
         PROVE  UNCHANGED <<GateState, ReadableCpus>>
    BY <2>11, GateUnchanged DEF IoctlBadFd, PmuClose, ReadCounter
  <2>12. ASSUME NEW p \in Procs, ProcEnds(p) \/ \E c \in Cpus : Migrate(p, c)
         PROVE  UNCHANGED <<GateState, ReadableCpus>>
    BY <2>12, GateUnchanged DEF ProcEnds, Migrate
  <2>13. ASSUME NEW c \in Cpus, CpuUp(c)
         PROVE  UNCHANGED <<GateState, ReadableCpus>>
    BY <2>13, GateUnchanged DEF CpuUp
  <2>14. ASSUME NEW c \in Cpus, CpuDown(c)
         PROVE  Gate!Next
    <3>1. ~Readable(bits'[c]) /\ \A d \in Cpus : d # c => bits'[d] = bits[d]
      BY <2>14, UnreadableEmpty DEF CpuDown
    <3>2. ReadableCpus' = ReadableCpus \ {c}
      BY <3>1 DEF ReadableCpus
    <3>3. c \in HotCpus /\ GateState' = GateState
      BY <2>14 DEF CpuDown, GateState
    <3> QED
      BY <3>2, <3>3 DEF Gate!Next, Gate!Revoke
  <2>15. CASE UNCHANGED vars
    BY <2>15, GateUnchanged DEF vars
  <2> QED
    BY <2>1, <2>2, <2>3, <2>4, <2>5, <2>6, <2>7, <2>8, <2>9, <2>10, <2>11, <2>12,
       <2>13, <2>14, <2>15 DEF Next, ModuleStep, ProcStep
<1> QED
  BY <1>1, <1>2, TypeCorrect, Ownership, Unloading, PTL DEF Spec, ImplementsGate, Gate!Spec

=============================================================================
