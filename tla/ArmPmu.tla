------------------------------- MODULE ArmPmu -------------------------------
(***************************************************************************)
(* Processes that count events with the aarch64 half of the library        *)
(* (header/pmu_utils.h) in the order of calls of                           *)
(* tests/src/aarch64/set_pmu.c:                                            *)
(*                                                                         *)
(*   pmu_init, pmu_set_event, two reads, and perhaps pmu_record_stop       *)
(*                                                                         *)
(* The registers of a core belong to whoever runs on it, and are accessed  *)
(* from user code: there is no file, and nobody is told of the others.  An *)
(* action is one register access; processes are preempted and, unless they *)
(* are pinned, migrated between any two.  The kernel module is loaded, so  *)
(* every core lets user code in and has the six counters enabled that      *)
(* enable_pmu (module/pmu_utils.c) knows of.                               *)
(*                                                                         *)
(* pmu_record_start does nothing on aarch64 and is left out.               *)
(***************************************************************************)
EXTENDS Integers

CONSTANTS
  Procs,       \* the processes
  Pinned,      \* those of them that run on one core only (taskset -c)
  Cores,       \* the cores of the machine
  Counters,    \* its counters, by their bit in PMCNTENSET_EL0
  Uses,        \* Uses[p]: the counters that process p asks for
  Events,      \* the event types they select
  CounterMod   \* event counters wrap at this: 2^32, or less to see it happen

CycleCounter == 31

Ids == UNION {Uses[p] : p \in Procs}

\* The counters that pmu_set_event and pmu_get_rdpmc have a case for.
Known == 0..5

\* PMEVTYPERn_EL0 and PMEVCNTRn_EL0 of a counter that is missing are
\* undefined instructions: the machine has the six.
ASSUME ArmAssumption ==
  /\ Pinned \subseteq Procs
  /\ Counters \subseteq Nat
  /\ Uses \in [Procs -> SUBSET Nat]
  /\ Ids # {} /\ Ids \cap Known \subseteq Counters
  /\ "off" \notin Events
  /\ CounterMod \in Nat \ {0}

VARIABLES
  typer,    \* typer[c][i]: the event type counter i of core c counts
  enset,    \* enset[c]: the counters of core c that PMCNTENSET_EL0 shows
  cnt,      \* cnt[c][i]: the value of the counter
  pc,       \* pc[p]: the register access process p makes next
  cpu,      \* cpu[p]: the core it runs on
  id,       \* id[p]: the counter it uses
  event,    \* event[p]: the event type it counts
  r,        \* r[p]: what it has read from PMCNTENSET_EL0 to write back
  first,    \* first[p], last[p]: its two readings
  last,
  seen,     \* seen[p]: history; the events on its core between the readings
  spoiled   \* spoiled[p]: history; what has come between p and its counter
            \* since p selected the event: a "move" of p, another "type" in
            \* the counter, or, between the readings, a "reset"

regVars  == <<typer, enset, cnt>>
readVars == <<first, last, seen>>
vars     == <<regVars, pc, cpu, id, event, r, readVars, spoiled>>

Steps == {"start", "init1", "init2", "type", "mrs", "msr", "first", "last",
          "done", "stop"}

\* The steps at which a process relies on the counter it has selected.
Relying == {"mrs", "msr", "first", "last"}

TypeOK ==
  /\ typer \in [Cores -> [Counters -> Events \cup {"off"}]]
  /\ enset \in [Cores -> SUBSET Counters]
  /\ cnt \in [Cores -> [Counters -> 0 .. CounterMod - 1]]
  /\ pc \in [Procs -> Steps]
  /\ cpu \in [Procs -> Cores]
  /\ id \in [Procs -> Ids]
  /\ event \in [Procs -> Events \cup {"off"}]
  /\ r \in [Procs -> SUBSET Counters]
  /\ first \in [Procs -> 0 .. CounterMod - 1]
  /\ last \in [Procs -> 0 .. CounterMod - 1]
  /\ seen \in [Procs -> 0 .. CounterMod - 1]
  /\ spoiled \in [Procs -> SUBSET {"move", "type", "reset"}]

AnId == CHOOSE i \in Ids : TRUE

\* PMCNTENSET_EL0 as enable_pmu writes it.
EnableMask == Counters \cap (Known \cup {CycleCounter})

Init ==
  /\ typer = [c \in Cores |-> [i \in Counters |-> "off"]]
  /\ enset = [c \in Cores |-> EnableMask]
  /\ cnt = [c \in Cores |-> [i \in Counters |-> 0]]
  /\ pc = [p \in Procs |-> "start"]
  /\ cpu \in [Procs -> Cores]
  /\ id = [p \in Procs |-> AnId] /\ event = [p \in Procs |-> "off"]
  /\ r = [p \in Procs |-> {}]
  /\ first = [p \in Procs |-> 0] /\ last = [p \in Procs |-> 0]
  /\ seen = [p \in Procs |-> 0]
  /\ spoiled = [p \in Procs |-> {}]

-----------------------------------------------------------------------------
(* pmu_init: the two accesses of enable_pmu that a session can notice *)

Goto(p, step) == pc' = [pc EXCEPT ![p] = step]

\* A program that pmu_init has failed for goes on all the same.
PmuInit(p) ==
  /\ pc[p] = "start"
  /\ \E step \in {"init1", "type"} : Goto(p, step)
  /\ UNCHANGED <<regVars, cpu, id, event, r, readVars, spoiled>>

\* A one written to PMCNTENSET_EL0 enables, a zero does nothing.
WriteEnset(c, bits) == enset' = [enset EXCEPT ![c] = @ \cup bits]

EnableCounters(p) ==
  /\ pc[p] = "init1" /\ Goto(p, "init2")
  /\ WriteEnset(cpu[p], EnableMask)
  /\ UNCHANGED <<typer, cnt, cpu, id, event, r, readVars, spoiled>>

\* Mutant: the counters are preset, to overflow at the next event.
ResetCountersPreset(p) ==
  /\ pc[p] = "init2" /\ Goto(p, "type")
  /\ cnt' = [cnt EXCEPT ![cpu[p]] = [i \in Counters |-> CounterMod - 1]]
  /\ spoiled' = [q \in Procs |->
       IF pc[q] = "last" /\ cpu[q] = cpu[p]
       THEN spoiled[q] \cup {"reset"} ELSE spoiled[q]]
  /\ UNCHANGED <<typer, enset, cpu, id, event, r, readVars>>

\* "Clear counters and start": PMCR_EL0 clears the event counters of the
\* core, whoever is using them.
ResetCounters(p) ==
  /\ pc[p] = "init2" /\ Goto(p, "type")
  /\ cnt' = [cnt EXCEPT ![cpu[p]] = [i \in Counters |-> 0]]
  /\ spoiled' = [q \in Procs |->
       IF pc[q] = "last" /\ cpu[q] = cpu[p]
       THEN spoiled[q] \cup {"reset"} ELSE spoiled[q]]
  /\ UNCHANGED <<typer, enset, cpu, id, event, r, readVars>>

-----------------------------------------------------------------------------
(* pmu_set_event, pmu_get_rdpmc, pmu_record_stop *)

\* What p's access to the event type of counter i of its core does to the
\* others that rely on that counter there.
SpoilType(p, i, e) ==
  spoiled' = [q \in Procs |->
    IF q = p THEN {}
    ELSE IF pc[q] \in Relying /\ cpu[q] = cpu[p] /\ id[q] = i /\ event[q] # e
    THEN spoiled[q] \cup {"type"} ELSE spoiled[q]]

\* Mutant: the cases of the switch have no break.
SetTypeFallsThrough(p, i, e) ==
  /\ pc[p] = "type" /\ Goto(p, "mrs")
  /\ id' = [id EXCEPT ![p] = i] /\ event' = [event EXCEPT ![p] = e]
  /\ typer' = [typer EXCEPT ![cpu[p]] =
       [j \in Counters |-> IF j \in Known /\ i <= j THEN e ELSE @[j]]]
  /\ IF i \in Known THEN SpoilType(p, i, e)
     ELSE spoiled' = [spoiled EXCEPT ![p] = {}]
  /\ UNCHANGED <<enset, cnt, cpu, r, readVars>>

\* pmu_set_event selects the event type, if it has a case for the counter, ...
SetType(p, i, e) ==
  /\ pc[p] = "type" /\ Goto(p, "mrs")
  /\ id' = [id EXCEPT ![p] = i] /\ event' = [event EXCEPT ![p] = e]
  /\ IF i \in Known
     THEN /\ typer' = [typer EXCEPT ![cpu[p]][i] = e]
          /\ SpoilType(p, i, e)
     ELSE /\ spoiled' = [spoiled EXCEPT ![p] = {}]
          /\ UNCHANGED typer
  /\ UNCHANGED <<enset, cnt, cpu, r, readVars>>

\* ... reads which counters are enabled, ...
ReadEnset(p) ==
  /\ pc[p] = "mrs" /\ Goto(p, "msr")
  /\ r' = [r EXCEPT ![p] = enset[cpu[p]]]
  /\ UNCHANGED <<regVars, cpu, id, event, readVars, spoiled>>

\* ... and writes that back with one more; by then it may be another core's,
\* or out of date.
EnableCounter(p) ==
  /\ pc[p] = "msr" /\ Goto(p, "first")
  /\ WriteEnset(cpu[p], (r[p] \cup {id[p]}) \cap Counters)
  /\ r' = [r EXCEPT ![p] = {}]
  /\ UNCHANGED <<typer, cnt, cpu, id, event, readVars, spoiled>>

\* pmu_get_rdpmc: zero for a counter it has no case for.
GetRdpmc(p) == IF id[p] \in Known THEN cnt[cpu[p]][id[p]] ELSE 0

ReadFirst(p) ==
  /\ pc[p] = "first" /\ Goto(p, "last")
  /\ first' = [first EXCEPT ![p] = GetRdpmc(p)]
  /\ UNCHANGED <<regVars, cpu, id, event, r, last, seen, spoiled>>

ReadLast(p) ==
  /\ pc[p] = "last" /\ Goto(p, "done")
  /\ last' = [last EXCEPT ![p] = GetRdpmc(p)]
  /\ UNCHANGED <<regVars, cpu, id, event, r, first, seen, spoiled>>

\* pmu_record_stop reads which counters are enabled, ...
StopReads(p) ==
  /\ pc[p] = "done" /\ Goto(p, "stop")
  /\ r' = [r EXCEPT ![p] = enset[cpu[p]]]
  /\ UNCHANGED <<regVars, cpu, id, event, readVars, spoiled>>

\* The session is over, and what it has measured is printed.
Forget(p) ==
  /\ Goto(p, "start")
  /\ id' = [id EXCEPT ![p] = AnId] /\ event' = [event EXCEPT ![p] = "off"]
  /\ r' = [r EXCEPT ![p] = {}]
  /\ first' = [first EXCEPT ![p] = 0] /\ last' = [last EXCEPT ![p] = 0]
  /\ seen' = [seen EXCEPT ![p] = 0] /\ spoiled' = [spoiled EXCEPT ![p] = {}]
  /\ UNCHANGED cpu

\* Mutant: PMCNTENCLR_EL0 is written with all the others.
StopClears(p) ==
  /\ pc[p] = "stop" /\ Forget(p)
  /\ enset' = [enset EXCEPT ![cpu[p]] = r[p] \cap {CycleCounter}]
  /\ UNCHANGED <<typer, cnt>>

\* ... and writes it back without the event counters, to a register in which
\* zeros do nothing.
StopWrites(p) ==
  /\ pc[p] = "stop" /\ Forget(p)
  /\ WriteEnset(cpu[p], r[p] \cap {CycleCounter})
  /\ UNCHANGED <<typer, cnt>>

\* A process ends at any point, set_pmu.c without pmu_record_stop: the
\* registers stay as they are, and another takes its place.
ProcEnds(p) == pc[p] # "start" /\ Forget(p) /\ UNCHANGED regVars

-----------------------------------------------------------------------------
(* The machine *)

\* Counter i of core c counts e.
Counts(c, i, e) == i \in enset[c] /\ typer[c][i] = e

\* Mutant: a counter of any width.
SuccForEver(n) == n + 1

Succ(n) == IF n = CounterMod - 1 THEN 0 ELSE n + 1

\* An event happens on core c.  Bound: a session sees fewer than a counter
\* can tell apart.
Happens(c, e) ==
  LET sees(p) == pc[p] = "last" /\ cpu[p] = c /\ event[p] = e
  IN  /\ \A p \in Procs : sees(p) => seen[p] + 1 < CounterMod
      /\ cnt' = [cnt EXCEPT ![c] =
                   [i \in Counters |-> IF Counts(c, i, e) THEN Succ(@[i]) ELSE @[i]]]
      /\ seen' = [p \in Procs |-> IF sees(p) THEN seen[p] + 1 ELSE seen[p]]
      /\ UNCHANGED <<typer, enset, pc, cpu, id, event, r, first, last, spoiled>>

Migrate(p, c) ==
  /\ p \notin Pinned /\ c # cpu[p]
  /\ cpu' = [cpu EXCEPT ![p] = c]
  /\ spoiled' = IF pc[p] \in Relying
                THEN [spoiled EXCEPT ![p] = @ \cup {"move"}] ELSE spoiled
  /\ UNCHANGED <<regVars, pc, id, event, r, readVars>>

-----------------------------------------------------------------------------

Call(p) ==
  \/ PmuInit(p) \/ EnableCounters(p) \/ ResetCounters(p)
  \/ \E i \in Uses[p], e \in Events : SetType(p, i, e)
  \/ ReadEnset(p) \/ EnableCounter(p)
  \/ ReadFirst(p) \/ ReadLast(p)
  \/ StopReads(p) \/ StopWrites(p)

Next ==
  \/ \E p \in Procs : Call(p) \/ ProcEnds(p) \/ (\E c \in Cores : Migrate(p, c))
  \/ \E c \in Cores, e \in Events : Happens(c, e)

Spec == Init /\ [][Next]_vars

-----------------------------------------------------------------------------
(* Properties *)

\* p has read twice from a counter that the library knows.
HasMeasured(p) == pc[p] \in {"done", "stop"} /\ id[p] \in Known

Delta(p) == last[p] - first[p]

\* The difference of the readings is the number of events in between, or one
\* wrap of the counter less, whatever the registers held before and whoever
\* else uses other counters of the core, as long as the process stays there,
\* nobody puts another type into its counter and no pmu_init comes between
\* the readings (header/pmu_utils.h: pmu_set_event, pmu_get_rdpmc).
DeltaIsExact ==
  \A p \in Procs : HasMeasured(p) /\ spoiled[p] = {} =>
    Delta(p) \in {seen[p], seen[p] - CounterMod}

\* Another process's pmu_init clears the counter between the readings: the
\* difference may come out negative, or too small, but never too large.
ResetNeverAdds ==
  \A p \in Procs : HasMeasured(p) /\ spoiled[p] \subseteq {"reset"} =>
    Delta(p) <= seen[p]

\* Nothing the library does stops a counter of somebody else: it writes what
\* it has read from PMCNTENSET_EL0 back too late, or to another core, and
\* without the event counters at the end, and all that only enables
\* (header/pmu_utils.h: pmu_set_event, pmu_record_stop).
NobodyIsStopped == [][\A c \in Cores : enset[c] \subseteq enset'[c]]_vars

-----------------------------------------------------------------------------
(* Sessions as Measurement has them *)

\* A counter without a case reads as zero both times.
Trust(p) ==
  IF id[p] \notin Known \/ spoiled[p] = {"reset"} THEN "atmost"
  ELSE IF spoiled[p] = {} THEN "exact" ELSE "none"

Phase(p) ==
  IF pc[p] = "last" THEN "counting" ELSE IF pc[p] \in {"done", "stop"} THEN "done" ELSE "out"

SessionOf(p) ==
  [phase |-> Phase(p),
   trust |-> IF Phase(p) = "out" THEN "none" ELSE Trust(p),
   count |-> seen[p],
   value |-> IF Phase(p) = "done" THEN Delta(p) ELSE 0]

Promise ==
  INSTANCE Measurement WITH session <- [p \in Procs |-> SessionOf(p)], Wrap <- CounterMod

\* Every session begins, counts and ends as Measurement says of both
\* libraries: whatever comes in between can only lessen what its result may
\* be trusted for (header/pmu_utils.h: pmu_set_event, pmu_get_rdpmc).
ImplementsMeasurement == Promise!Spec

=============================================================================
