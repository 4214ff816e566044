------------------------------ MODULE EventTable ------------------------------
(***************************************************************************)
(* From a vendor's event file to the rows of the generated C header: what  *)
(* scripts/pmu_init.py does once the event file is there, by vendor.       *)
(*                                                                         *)
(* The AMD download first collects the entries of several files into one,  *)
(* where it skips those whose unit mask and code, written one after the    *)
(* other, read like those of an entry it has.  The event file of an Intel  *)
(* or an Arm machine is taken as it is.  Then get_doc_pmu_dict enters      *)
(* every event into a dictionary under its code, where a later event       *)
(* replaces an earlier one of the same code, and export_c_header writes a  *)
(* row for each key of the dictionary: a macro and an element of the array *)
(* pmu_events.                                                             *)
(*                                                                         *)
(* An entry is a record: its name, its codes (a sequence; on Intel an      *)
(* entry may list several), whether it has a unit mask, its other fields,  *)
(* how its numbers are spelled, whether it has a brief description, and    *)
(* the rest, which no script looks at though it tells what is counted: the *)
(* unit or the metric expression on AMD, AnyThread and the additional MSR  *)
(* with its value on Intel.                                                *)
(***************************************************************************)
EXTENDS EventCode, FiniteSets

CONSTANTS
  Vendors,  \* some of "Intel", "AMD", "ARM"
  Entries,  \* Entries[v]: the entries an event file of vendor v may have
  MaxLen    \* bound: no event file is longer

\* The fields of an entry fit the fields of the register.
InRange(v, e) ==
  /\ e.codes \in Seq(SUBSET (0..CASE v = "Intel" -> 7 [] v = "AMD" -> 11 [] v = "ARM" -> 15))
  /\ e.umask \subseteq 0..7 /\ e.cmask \subseteq 0..7
  /\ e.edge \subseteq {0} /\ e.invert \subseteq {0}
  /\ ~e.masked => e.umask = {}
  /\ v = "AMD" => Len(e.codes) <= 1

ASSUME TableAssumption ==
  /\ Vendors \subseteq {"Intel", "AMD", "ARM"}
  /\ \A v \in Vendors : \A e \in Entries[v] : InRange(v, e)
  /\ MaxLen \in Nat

VARIABLES
  vendor,  \* vendor_name, as get_linux_cpu_info reports it
  input,   \* the entries of the downloaded file or files, in order
  stage,   \* "collect", "tabulate" or "done"
  next,    \* the index of the entry or event that is next
  events,  \* the events of this-cpu-pmu-events.json
  table    \* pmu_umask_event: from codes to events

vars == <<vendor, input, stage, next, events, table>>

TypeOK ==
  /\ vendor \in Vendors
  /\ input \in Seq(Entries[vendor])
  /\ stage \in {"collect", "tabulate", "done"}
  /\ next \in 1..(MaxLen + 1)
  /\ events \in Seq(Entries[vendor])
  /\ table \in [DOMAIN table -> Entries[vendor]]

\* The names of an event file are distinct.
Files(v) ==
  {f \in UNION {[1..n -> Entries[v]] : n \in 0..MaxLen} :
     \A i, j \in DOMAIN f : i # j => f[i].name # f[j].name}

Init ==
  /\ vendor \in Vendors
  /\ input \in Files(vendor)
  /\ stage = IF vendor = "AMD" THEN "collect" ELSE "tabulate"
  /\ next = 1
  /\ events = IF vendor = "AMD" THEN <<>> ELSE input
  /\ table = <<>>

-----------------------------------------------------------------------------
(* pmu_amd_event_download.py: the entries of all files into one *)

\* Mutant: the unit mask is no part of it.
SpelledByCode(e) == IF e.codes = <<>> THEN <<>> ELSE << <<e.spelling, e.codes[1]>> >>

\* tcode = umask + ecode, an addition of strings, of which one that is missing
\* is empty.  The 0x of each number tells where it begins.
Spelled(e) ==
  (IF e.masked THEN << <<e.spelling, e.umask>> >> ELSE <<>>)
    \o (IF e.codes = <<>> THEN <<>> ELSE << <<e.spelling, e.codes[1]>> >>)

Collect ==
  /\ stage = "collect" /\ next <= Len(input)
  /\ LET e == input[next]
         known == \E i \in DOMAIN events : Spelled(events[i]) = Spelled(e)
     IN  events' = IF known THEN events ELSE Append(events, e)
  /\ next' = next + 1
  /\ UNCHANGED <<vendor, input, stage, table>>

DumpEvents ==
  /\ stage = "collect" /\ next > Len(input)
  /\ stage' = "tabulate" /\ next' = 1
  /\ UNCHANGED <<vendor, input, events, table>>

-----------------------------------------------------------------------------
(* get_doc_pmu_dict *)

CodesOf(e) == {e.codes[i] : i \in DOMAIN e.codes}

\* The code of an AMD or Arm entry; one without any has code 0.
CodeOf(e) == IF e.codes = <<>> THEN {} ELSE e.codes[1]

\* The codes of an event that the scripts look at.
Considered(e) == IF vendor = "Intel" THEN CodesOf(e) ELSE {CodeOf(e)}

\* An event without a brief description is skipped on Arm.
Skipped(e) == vendor = "ARM" /\ ~e.described

Key(e, c) ==
  CASE vendor = "Intel" -> IntelHex(e, c)
    [] vendor = "AMD"   -> AmdHex(e, c)
    [] vendor = "ARM"   -> c

\* The keys under which an event is entered.
Keys(e) == IF Skipped(e) THEN {} ELSE {Key(e, c) : c \in Considered(e)}

\* Mutant: the event in the dictionary gets its key for its code.
TabulateRewritten ==
  /\ stage = "tabulate" /\ next <= Len(events)
  /\ LET e == events[next]
     IN  table' = [k \in DOMAIN table \cup Keys(e) |->
                     IF k \in Keys(e) THEN [e EXCEPT !.codes = <<k>>] ELSE table[k]]
  /\ next' = next + 1
  /\ UNCHANGED <<vendor, input, stage, events>>

Tabulate ==
  /\ stage = "tabulate" /\ next <= Len(events)
  /\ LET e == events[next]
     IN  table' = [k \in DOMAIN table \cup Keys(e) |->
                     IF k \in Keys(e) THEN e ELSE table[k]]
  /\ next' = next + 1
  /\ UNCHANGED <<vendor, input, stage, events>>

\* export_c_header: a row for each key.
ExportHeader ==
  /\ stage = "tabulate" /\ next > Len(events)
  /\ stage' = "done"
  /\ UNCHANGED <<vendor, input, next, events, table>>

Next == Collect \/ DumpEvents \/ Tabulate \/ ExportHeader

Spec == Init /\ [][Next]_vars

-----------------------------------------------------------------------------
(* Properties *)

\* The fields of the library's event structures that an entry sets for one of
\* its codes.  They have no place for the rest of the entry.
Selection(e, c) ==
  CASE vendor = "Intel" -> IntelEvent(e, c)
    [] vendor = "AMD"   -> AmdEvent(e, c)
    [] vendor = "ARM"   -> c

Selections(e) == {Selection(e, c) : c \in Considered(e)}

\* The code that the C library packs for a selection.
Hexcode(s) ==
  CASE vendor = "Intel" -> IntelHexcode(s)
    [] vendor = "AMD"   -> AmdHexcode(s)
    [] vendor = "ARM"   -> s

\* The scripts and the C library, which pack event codes in ways of their
\* own, agree: the value of a row is what pmu_event_to_hexcode or
\* pmu_amd_event_to_hexcode computes for the event the row names.
RowsMatchLibrary ==
  \A k \in DOMAIN table : \E s \in Selections(table[k]) : Hexcode(s) = k

\* A row of the header stands for an event: it selects the same, and the rest
\* of the entry it was made of is the same.
Listed(e, s) ==
  \E k \in DOMAIN table : s \in Selections(table[k]) /\ table[k].rest = e.rest

\* The files have another event of the same code, which only the rest of its
\* entry tells apart.
Ambiguous(e, s) ==
  \E j \in DOMAIN input : s \in Selections(input[j]) /\ input[j].rest # e.rest

\* The AMD download took the event for an earlier one: one of the two has its
\* unit mask where the other has its code.
Mistaken(i) ==
  vendor = "AMD" /\ \E j \in 1..(i - 1) :
    Spelled(input[j]) = Spelled(input[i]) /\ input[j].masked # input[i].masked

\* The download skips entries and the dictionary replaces them, so the header
\* may list fewer events than the files.  There are two ways to lose one and
\* no third: events of one code that differ in fields no script looks at, and
\* a unit mask alone that reads like a code alone.  Every other event is
\* listed, with the code that selects it.
LossesAreExplained ==
  stage = "done" =>
    \A i \in DOMAIN input :
      ~Skipped(input[i]) =>
        \A s \in Selections(input[i]) :
          Listed(input[i], s) \/ Ambiguous(input[i], s) \/ Mistaken(i)

=============================================================================
