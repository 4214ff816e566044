------------------------------- MODULE CpuPmu -------------------------------
(***************************************************************************)
(* The PMU control registers of one CPU, and what the two handlers of the  *)
(* kernel module, enable_pmu and disable_pmu (module/pmu_utils.c), do to   *)
(* them on each architecture.                                              *)
(*                                                                         *)
(* The registers of a CPU are the set of those of their bits that are set. *)
(* A handler is a straight line of register accesses, so it is a sequence  *)
(* of steps, each of which turns some bits on and some off on the CPU that *)
(* executes it.  Two writes of the source turn nothing on or off, because  *)
(* of the register they address: a zero written to PMCNTENSET_EL0, a       *)
(* write-one-to-set register, and a COUNTER_START call of the SBI with an  *)
(* empty counter mask.                                                     *)
(*                                                                         *)
(* Counter values are not part of this module, nor are the bits of CR4     *)
(* other than PCE.                                                         *)
(***************************************************************************)
EXTENDS Integers, Sequences

CONSTANT Arch  \* the architecture the module is compiled for

ASSUME ArchAssumption == Arch \in {"x86_64", "aarch64", "riscv"}

-----------------------------------------------------------------------------

Bits ==
    CASE Arch = "x86_64"  -> {"CR4.PCE"}
      [] Arch = "aarch64" -> {"PMINTEN", "PMCNTEN", "PMCR.E", "PMCCFILTR.NSH",
                              "PMUSERENR.EN", "PMUSERENR.SW",
                              "PMUSERENR.CR", "PMUSERENR.ER"}
      [] Arch = "riscv"   -> {"SBI.started", "SCOUNTEREN.CY",
                              "SCOUNTEREN.TM", "SCOUNTEREN.IR"}

\* A step of a handler: the bits it leaves set and the bits it leaves clear.
Step(on, off) == [on |-> on, off |-> off]

\* enable_pmu.  The aarch64 steps are the writes to PMINTENCLR, PMCNTENSET,
\* PMUSERENR (a plain write, so SW goes off), PMCR and PMCCFILTR.
EnableSteps ==
    CASE Arch = "x86_64"  -> << Step({"CR4.PCE"}, {}) >>
      [] Arch = "aarch64" -> << Step({}, {"PMINTEN"}),
                                Step({"PMCNTEN"}, {}),
                                Step({"PMUSERENR.EN", "PMUSERENR.CR", "PMUSERENR.ER"},
                                     {"PMUSERENR.SW"}),
                                Step({"PMCR.E"}, {}),
                                Step({"PMCCFILTR.NSH"}, {}) >>
      [] Arch = "riscv"   -> << Step({"SBI.started"}, {}),
                                Step({"SCOUNTEREN.CY", "SCOUNTEREN.TM",
                                      "SCOUNTEREN.IR"}, {}) >>

\* disable_pmu.  csrsi sets bits: the riscv handler turns nothing off.
DisableSteps ==
    CASE Arch = "x86_64"  -> << Step({}, {"CR4.PCE"}) >>
      [] Arch = "aarch64" -> << Step({}, {}), Step({}, {"PMUSERENR.EN"}) >>
      [] Arch = "riscv"   -> << Step({}, {}),
                                Step({"SCOUNTEREN.CY", "SCOUNTEREN.TM",
                                      "SCOUNTEREN.IR"}, {}) >>

-----------------------------------------------------------------------------

\* One step of a handler on a CPU whose set bits are b.
RunStep(s, b) == (b \ s.off) \cup s.on

\* A whole handler run without preemption, as on_each_cpu runs it.  No two
\* steps of a handler touch one bit, so the order of the steps is immaterial.
RunHandler(steps, b) ==
    (b \ UNION {steps[i].off : i \in DOMAIN steps})
       \cup UNION {steps[i].on : i \in DOMAIN steps}

\* The bits any one of which lets user code read the cycle counter: rdpmc,
\* mrs PMCCNTR_EL0 and rdcycle trap when none of them is set.
CycleReadBits ==
    CASE Arch = "x86_64"  -> {"CR4.PCE"}
      [] Arch = "aarch64" -> {"PMUSERENR.EN", "PMUSERENR.CR"}
      [] Arch = "riscv"   -> {"SCOUNTEREN.CY"}

Readable(b) == b \cap CycleReadBits # {}

\* The bits all of which the cycle counter needs to count.  On x86_64 they
\* are not the module's business.
CountBits ==
    CASE Arch = "x86_64"  -> {}
      [] Arch = "aarch64" -> {"PMCNTEN", "PMCR.E"}
      [] Arch = "riscv"   -> {"SBI.started"}

\* User code can read the cycle counter, and it counts.
Usable(b) == Readable(b) /\ CountBits \subseteq b

=============================================================================
