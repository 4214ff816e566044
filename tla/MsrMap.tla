------------------------------- MODULE MsrMap -------------------------------
(***************************************************************************)
(* The model-specific registers the x86_64 library addresses               *)
(* (libpmu/pmu.c, header/pmu_utils.h), and which register of the machine   *)
(* an address selects.                                                     *)
(*                                                                         *)
(* The library picks addresses by the vendor it has detected; the machine  *)
(* answers by the vendor it has.  An address is a pair of the block it is  *)
(* in, by its upper 16 bits, and the offset in the block.                  *)
(***************************************************************************)
EXTENDS Integers

CONSTANTS
  Vendor,      \* the vendor of the machine
  NumCounters, \* how many general counters it has at these addresses
  Leaf10,      \* cpuid leaf 0xA, EAX: the byte at bit 8
  Features     \* cpuid leaf 0x80000001, ECX: the bits that are set

\* The event select registers of Intel begin 197 after the counters.
ASSUME MachineAssumption ==
  /\ Vendor \in {"INTEL", "AMD"}
  /\ NumCounters \in 1 .. 197
  /\ Leaf10 \in 0 .. 255 /\ Features \subseteq 0 .. 31

Counters == 0 .. NumCounters - 1

-----------------------------------------------------------------------------
(* The library *)

\* What pmu_get_cpu_vendor may detect.  It compares twelve characters of
\* which the thirteenth, the terminator, was never written: on an AMD machine
\* both comparisons may fail, and then it takes the machine for an Intel one.
Detectable == IF Vendor = "INTEL" THEN {"INTEL"} ELSE {"AMD", "INTEL"}

\* How many counters pmu_get_MSRs_num announces.  On AMD it takes any of the
\* bits 24 to 31 for the bit 24 (it writes (reg >> 24) && 0x1).
MsrsNum(v) ==
  IF v = "INTEL" THEN Leaf10
  ELSE 4 * (IF Features \cap 24 .. 31 # {} THEN 1 ELSE 0) + 2 * (IF 23 \in Features THEN 1 ELSE 0)

\* Mutant: the counter number is left out.
EventSelAddrFirst(v, i) == IF v = "INTEL" THEN <<"0000", 390>> ELSE <<"C001", 0>>

\* IA32_PERFEVTSELi or PerfEvtSeli, for the vendor v the library detected.
EventSelAddr(v, i) == IF v = "INTEL" THEN <<"0000", 390 + i>> ELSE <<"C001", i>>

\* IA32_PMCi or PerfCtri.
CounterAddr(v, i) == IF v = "INTEL" THEN <<"0000", 193 + i>> ELSE <<"C001", 4 + i>>

\* IA32_PERF_GLOBAL_CTRL, whatever the vendor.
GlobalCtrlAddr == <<"0000", 911>>

\* Mutant: 1 | 7 << 32.
RecordMaskFirst == {0}

\* The general counters that the value 15 | 7 << 32 of pmu_record_start
\* enables.
RecordMask == 0..3

-----------------------------------------------------------------------------
(* The machine *)

Reg(kind, i) == [kind |-> kind, i |-> i]

NoReg == Reg("none", 0)

\* The register at an address.  AMD has neither the Intel registers nor a
\* global control register there: an access fails with EIO.
RegisterAt(a) ==
  LET n == a[2]
      IsCounter(j) == j \in Counters
  IN  IF Vendor = "INTEL" /\ a[1] = "0000"
      THEN IF n = 911 THEN Reg("ctrl", 0)
           ELSE IF IsCounter(n - 390) THEN Reg("sel", n - 390)
           ELSE IF IsCounter(n - 193) THEN Reg("pmc", n - 193)
           ELSE NoReg
      ELSE IF Vendor = "AMD" /\ a[1] = "C001"
      THEN IF IsCounter(n) /\ n < 4 THEN Reg("sel", n)
           ELSE IF IsCounter(n - 4) THEN Reg("pmc", n - 4)
           ELSE NoReg
      ELSE NoReg

=============================================================================
