------------------------------ MODULE EventCode ------------------------------
(***************************************************************************)
(* Event codes: the 64-bit values that select what a counter counts.  The  *)
(* C library packs them from the fields of an event                        *)
(* (pmu_event_to_hexcode and pmu_amd_event_to_hexcode), the scripts from   *)
(* the entries of the vendors' event files (event_to_hexs and              *)
(* event_to_hexcode of pmu_*_utils.py).                                    *)
(*                                                                         *)
(* A value is the set of the positions of its one bits, so that no width   *)
(* is lost: Or is \cup, a mask is an intersection.                         *)
(***************************************************************************)
EXTENDS Integers, Sequences

Shl(v, n) == {b + n : b \in v}

\* v & (2^n - 1); also what is left of v in an unsigned integer of n bits.
LowBits(v, n) == {b \in v : b < n}

One == {0}

\* v + w: position k of the sum has the parity of v, w and the carry into k.
Plus(v, w) ==
  LET Carry(k) == \E j \in v \cap w :
                    j < k /\ \A i \in (j + 1)..(k - 1) : i \in v \cup w
      both == v \cup w
  IN  {k \in both \cup {b + 1 : b \in both} :
         (k \in v <=> k \notin w) <=> ~Carry(k)}

-----------------------------------------------------------------------------
(* Intel: IA32_PERFEVTSELx *)

\* A field of a structure of 32-bit integers, shifted: bits are cut off.
Field32(v, n) == LowBits(Shl(v, n), 32)

\* Mutant: the counter mask is packed one bit too low.
IntelHexcodeLow(e) ==
  e.event_code \cup Field32(e.umask, 8) \cup Field32(e.user_mode, 16)
    \cup Field32(e.os, 17) \cup Field32(e.edge_detect, 18) \cup Field32(e.pc, 19)
    \cup Field32(e.int_enable, 20) \cup Field32(e.enable_couters, 22)
    \cup Field32(e.invert, 23) \cup Field32(e.counter_mask, 23)

\* pmu_event_to_hexcode, which does not mask the fields.
IntelHexcode(e) ==
  e.event_code \cup Field32(e.umask, 8) \cup Field32(e.user_mode, 16)
    \cup Field32(e.os, 17) \cup Field32(e.edge_detect, 18) \cup Field32(e.pc, 19)
    \cup Field32(e.int_enable, 20) \cup Field32(e.enable_couters, 22)
    \cup Field32(e.invert, 23) \cup Field32(e.counter_mask, 24)

\* event_to_hexs of pmu_intel_utils.py, for one of the codes of an entry of
\* the event file.  It adds, in integers of any width.
IntelHex(entry, code) ==
  Plus(Plus(Plus(Plus(Plus(Plus(
    Shl(entry.cmask, 24), Shl(entry.invert, 23)), Shl(One, 22)),
    Shl(entry.edge, 18)), Shl(One, 16)), Shl(entry.umask, 8)), code)

\* The fields that a program sets to ask for what an entry describes: the
\* counter enabled, in user mode only.
IntelEvent(entry, code) ==
  [event_code |-> code, umask |-> entry.umask, user_mode |-> One, os |-> {},
   edge_detect |-> entry.edge, pc |-> {}, int_enable |-> {},
   enable_couters |-> One, invert |-> entry.invert, counter_mask |-> entry.cmask]

-----------------------------------------------------------------------------
(* AMD: PerfEvtSeln *)

\* The high part of an event number, (v & 0xF00) << 32.
HighPart(v) == Shl(LowBits(v, 12) \ LowBits(v, 8), 32)

\* pmu_amd_event_to_hexcode, which masks every field and shifts the event
\* number and hg_only as integers of 64 bits.
AmdHexcode(e) ==
  LowBits(e.event_select, 8) \cup Shl(LowBits(e.unit_mask, 8), 8)
    \cup Shl(LowBits(e.user_mode, 1), 16) \cup Shl(LowBits(e.os_mode, 1), 17)
    \cup Shl(LowBits(e.edge_detect, 1), 18) \cup Shl(LowBits(e.interrupt_enable, 1), 20)
    \cup Shl(LowBits(e.counter_enable, 1), 22) \cup Shl(LowBits(e.invert, 1), 23)
    \cup Shl(LowBits(e.counter_mask, 8), 24) \cup HighPart(e.event_select)
    \cup Shl(LowBits(e.hg_only, 2), 40)

\* Mutant: the high part of the event number is left out.
AmdHexShort(entry, code) ==
  Plus(Shl(entry.umask, 8), LowBits(code, 8))
    \cup Shl(One, 16) \cup Shl(One, 17) \cup Shl(One, 20) \cup Shl(One, 22)

\* event_to_hexcode of pmu_amd_utils.py, with the fields it sets to constants.
AmdHex(entry, code) ==
  Plus(Shl(entry.umask, 8), LowBits(code, 8))
    \cup Shl(One, 16) \cup Shl(One, 17) \cup Shl(One, 20) \cup Shl(One, 22)
    \cup HighPart(code)

AmdEvent(entry, code) ==
  [event_select |-> code, unit_mask |-> entry.umask, user_mode |-> One,
   os_mode |-> One, edge_detect |-> {}, interrupt_enable |-> One,
   counter_enable |-> One, invert |-> {}, counter_mask |-> {}, hg_only |-> {}]

=============================================================================
