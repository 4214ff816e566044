---------------------------- MODULE ArmPmuProofs ----------------------------
(***************************************************************************)
(* Proofs about ArmPmu, for any number of processes, cores and counters,   *)
(* any width of the counters and any choice of counters by the programs.   *)
(***************************************************************************)
EXTENDS ArmPmu, TLAPS

USE DEF Steps, Known, CycleCounter, EnableMask

\* A counter that some program asks for is one that programs ask for.
LEMMA IdsInUse == \A p \in Procs : Uses[p] \subseteq Ids
  BY DEF Ids

\* A function with one value replaced.
LEMMA ExceptIn ==
  ASSUME NEW D, NEW S, NEW f \in [D -> S], NEW i, NEW v \in S
  PROVE  [f EXCEPT ![i] = v] \in [D -> S]
OBVIOUS

-----------------------------------------------------------------------------

\* Every variable keeps its type (header/pmu_utils.h, the aarch64 branches).
THEOREM TypeCorrect == Spec => []TypeOK
<1>1. Init => TypeOK
  <2>1. AnId \in Ids
    BY ArmAssumption DEF AnId
  <2>2. 0 \in 0 .. CounterMod - 1
    BY ArmAssumption
  <2>3. QED
    BY <2>1, <2>2 DEF Init, TypeOK
<1>2. TypeOK /\ [Next]_vars => TypeOK'
  <2> SUFFICES ASSUME TypeOK, [Next]_vars PROVE TypeOK'
    OBVIOUS
  <2> USE DEF TypeOK
  <2>f. ASSUME NEW p \in Procs, Forget(p), UNCHANGED <<typer, cnt>>,
               enset' \in [Cores -> SUBSET Counters]
        PROVE  TypeOK'
    <3>1. AnId \in Ids /\ 0 \in 0 .. CounterMod - 1
      BY ArmAssumption DEF AnId
    <3>2. QED
      BY <2>f, <3>1 DEF Forget, Goto
  <2>1. ASSUME NEW p \in Procs, PmuInit(p) PROVE TypeOK'
    BY <2>1 DEF PmuInit, Goto, regVars, readVars
  <2>2. ASSUME NEW p \in Procs, EnableCounters(p) PROVE TypeOK'
    BY <2>2 DEF EnableCounters, WriteEnset, Goto, readVars
  <2>3. ASSUME NEW p \in Procs, ResetCounters(p) PROVE TypeOK'
    <3>1. 0 \in 0 .. CounterMod - 1
      BY ArmAssumption
    <3>2. cnt' \in [Cores -> [Counters -> 0 .. CounterMod - 1]]
      BY <2>3, <3>1 DEF ResetCounters
    <3>3. spoiled' \in [Procs -> SUBSET {"move", "type", "reset"}]
      BY <2>3 DEF ResetCounters
    <3>4. QED
      BY <2>3, <3>2, <3>3 DEF ResetCounters, Goto, readVars
  <2>4. ASSUME NEW p \in Procs, NEW i \in Uses[p], NEW e \in Events, SetType(p, i, e)
        PROVE  TypeOK'
    <3>1. i \in Ids
      BY IdsInUse
    <3>2. spoiled' \in [Procs -> SUBSET {"move", "type", "reset"}]
      <4>1. CASE i \in Known
        <5>1. SpoilType(p, i, e)
          BY <2>4, <4>1 DEF SetType
        <5>2. QED
          BY <5>1 DEF SpoilType
      <4>2. CASE i \notin Known
        <5>1. spoiled' = [spoiled EXCEPT ![p] = {}]
          BY <2>4, <4>2 DEF SetType
        <5>2. QED
          BY <5>1
      <4>3. QED
        BY <4>1, <4>2
    <3>3. typer' \in [Cores -> [Counters -> Events \cup {"off"}]]
      <4>1. typer' = typer \/ typer' = [typer EXCEPT ![cpu[p]][i] = e]
        BY <2>4 DEF SetType
      <4>2. [typer[cpu[p]] EXCEPT ![i] = e] \in [Counters -> Events \cup {"off"}]
        <5>1. typer[cpu[p]] \in [Counters -> Events \cup {"off"}]
          OBVIOUS
        <5>2. QED
          BY <5>1, ExceptIn
      <4>3. QED
        BY <4>1, <4>2
    <3>4. QED
      BY <2>4, <3>1, <3>2, <3>3 DEF SetType, Goto, readVars
  <2>5. ASSUME NEW p \in Procs, ReadEnset(p) PROVE TypeOK'
    BY <2>5 DEF ReadEnset, Goto, regVars, readVars
  <2>6. ASSUME NEW p \in Procs, EnableCounter(p) PROVE TypeOK'
    BY <2>6 DEF EnableCounter, WriteEnset, Goto, readVars
  <2>r. ASSUME NEW p \in Procs PROVE GetRdpmc(p) \in 0 .. CounterMod - 1
    BY ArmAssumption DEF GetRdpmc, Ids
  <2>7. ASSUME NEW p \in Procs, ReadFirst(p) PROVE TypeOK'
    BY <2>7, <2>r DEF ReadFirst, Goto, regVars
  <2>8. ASSUME NEW p \in Procs, ReadLast(p) PROVE TypeOK'
    BY <2>8, <2>r DEF ReadLast, Goto, regVars
  <2>9. ASSUME NEW p \in Procs, StopReads(p) PROVE TypeOK'
    BY <2>9 DEF StopReads, Goto, regVars, readVars
  <2>10. ASSUME NEW p \in Procs, StopWrites(p) PROVE TypeOK'
    BY <2>10, <2>f DEF StopWrites, WriteEnset
  <2>11. ASSUME NEW p \in Procs, ProcEnds(p) PROVE TypeOK'
    BY <2>11, <2>f DEF ProcEnds, regVars
  <2>12. ASSUME NEW p \in Procs, NEW c \in Cores, Migrate(p, c) PROVE TypeOK'
    BY <2>12 DEF Migrate, regVars, readVars
  <2>13. ASSUME NEW c \in Cores, NEW e \in Events, Happens(c, e) PROVE TypeOK'
    <3>1. ASSUME NEW n \in 0 .. CounterMod - 1 PROVE Succ(n) \in 0 .. CounterMod - 1
      BY ArmAssumption DEF Succ
    <3>2. cnt' \in [Cores -> [Counters -> 0 .. CounterMod - 1]]
      BY <2>13, <3>1 DEF Happens
    <3>3. seen' \in [Procs -> 0 .. CounterMod - 1]
      BY <2>13, ArmAssumption DEF Happens
    <3>4. QED
      BY <2>13, <3>2, <3>3 DEF Happens
  <2>14. CASE UNCHANGED vars
    BY <2>14 DEF vars, regVars, readVars
  <2>15. QED
    BY <2>1, <2>2, <2>3, <2>4, <2>5, <2>6, <2>7, <2>8, <2>9, <2>10, <2>11, <2>12,
       <2>13, <2>14 DEF Next, Call
<1>3. QED
  BY <1>1, <1>2, PTL DEF Spec

-----------------------------------------------------------------------------

\* A step leaves every counter enabled that was.
LEMMA OnlyEnables ==
  ASSUME TypeOK, [Next]_vars, NEW c \in Cores
  PROVE  enset[c] \subseteq enset'[c]
<1>w. ASSUME NEW d, NEW bits, WriteEnset(d, bits) PROVE enset[c] \subseteq enset'[c]
  BY <1>w DEF WriteEnset, TypeOK
<1>1. ASSUME NEW p \in Procs, Call(p) PROVE enset[c] \subseteq enset'[c]
  <2>1. ASSUME EnableCounters(p) \/ EnableCounter(p) \/ StopWrites(p)
        PROVE  \E d, bits : WriteEnset(d, bits)
    <3>1. CASE EnableCounters(p)
      BY <3>1 DEF EnableCounters
    <3>2. CASE EnableCounter(p)
      BY <3>2 DEF EnableCounter
    <3>3. CASE StopWrites(p)
      BY <3>3 DEF StopWrites
    <3>4. QED
      BY <2>1, <3>1, <3>2, <3>3
  <2>2. ASSUME PmuInit(p) \/ ResetCounters(p) \/ ReadEnset(p) \/ ReadFirst(p)
               \/ ReadLast(p) \/ StopReads(p)
               \/ \E i \in Uses[p], e \in Events : SetType(p, i, e)
        PROVE  enset' = enset
    BY <2>2 DEF PmuInit, ResetCounters, ReadEnset, ReadFirst, ReadLast, StopReads,
                SetType, regVars
  <2>3. QED
    BY <1>1, <1>w, <2>1, <2>2 DEF Call
<1>2. ASSUME (\E p \in Procs : ProcEnds(p) \/ \E d \in Cores : Migrate(p, d))
             \/ (\E d \in Cores, e \in Events : Happens(d, e)) \/ UNCHANGED vars
      PROVE  enset' = enset
  BY <1>2 DEF ProcEnds, Migrate, Happens, vars, regVars
<1>3. QED
  BY <1>1, <1>2 DEF Next

\* Whatever the library writes to PMCNTENSET, no counter of anybody stops
\* (header/pmu_utils.h: pmu_set_event, pmu_record_stop).
THEOREM NothingStops == Spec => NobodyIsStopped
<1>1. TypeOK /\ [Next]_vars => [\A c \in Cores : enset[c] \subseteq enset'[c]]_vars
  BY OnlyEnables
<1>2. QED
  BY <1>1, TypeCorrect, PTL DEF Spec, NobodyIsStopped

-----------------------------------------------------------------------------
(* What the difference of two readings means.  The invariant below follows  *)
(* a session from the selection of the event: its counter counts the event  *)
(* as long as nobody and no migration comes in between, and is ahead of the *)
(* first reading by the events seen since.                                  *)

\* What enable_pmu enables stays enabled: the library's own counters run.
EnabledStay == \A c \in Cores : EnableMask \subseteq enset[c]

Typed(p) ==
  pc[p] \in Relying /\ id[p] \in Known /\ "move" \notin spoiled[p] /\ "type" \notin spoiled[p]
    => typer[cpu[p]][id[p]] = event[p]

Following(p) ==
  pc[p] = "last" /\ id[p] \in Known =>
    /\ spoiled[p] = {} =>
         cnt[cpu[p]][id[p]] \in {first[p] + seen[p], first[p] + seen[p] - CounterMod}
    /\ spoiled[p] \subseteq {"reset"} => cnt[cpu[p]][id[p]] <= first[p] + seen[p]

Measured(p) ==
  HasMeasured(p) =>
    /\ spoiled[p] = {} => Delta(p) \in {seen[p], seen[p] - CounterMod}
    /\ spoiled[p] \subseteq {"reset"} => Delta(p) <= seen[p]

NotYet(p) == pc[p] \notin {"last", "done", "stop"} => seen[p] = 0

Session(p) == Typed(p) /\ Following(p) /\ Measured(p) /\ NotYet(p)

IInv == TypeOK /\ EnabledStay /\ \A p \in Procs : Session(p)

\* What a step leaves of a session: everything but the registers, and those
\* where the session looks at them.
SameSession(p) ==
  /\ pc'[p] = pc[p] /\ cpu'[p] = cpu[p] /\ id'[p] = id[p] /\ event'[p] = event[p]
  /\ first'[p] = first[p] /\ last'[p] = last[p] /\ seen'[p] = seen[p]

LEMMA Untouched ==
  ASSUME NEW p \in Procs, Session(p), SameSession(p), spoiled[p] \subseteq spoiled'[p],
         {"type", "move"} \cap spoiled'[p] = {} /\ pc[p] \in Relying /\ id[p] \in Known
           => typer'[cpu[p]][id[p]] = typer[cpu[p]][id[p]],
         "reset" \notin spoiled'[p] /\ pc[p] = "last"
           => cnt'[cpu[p]][id[p]] = cnt[cpu[p]][id[p]],
         pc[p] = "last" => cnt'[cpu[p]][id[p]] = cnt[cpu[p]][id[p]]
                           \/ cnt'[cpu[p]][id[p]] <= first[p] + seen[p]
  PROVE  Session(p)'
<1> USE DEF SameSession, Session
<1>1. Typed(p)'
  BY DEF Typed
<1>2. Following(p)'
  BY DEF Following
<1>3. Measured(p)'
  BY DEF Measured, HasMeasured, Delta
<1>4. NotYet(p)'
  BY DEF NotYet
<1>5. QED
  BY <1>1, <1>2, <1>3, <1>4

\* A session at a step that relies on no counter and has measured nothing.
LEMMA Idle ==
  ASSUME NEW p \in Procs, pc'[p] \notin Relying \cup {"done", "stop"}, seen'[p] = 0
  PROVE  Session(p)'
BY DEF Session, Typed, Following, Measured, NotYet, HasMeasured, Relying

LEMMA SessionsKept ==
  ASSUME IInv, [Next]_vars, NEW q \in Procs
  PROVE  Session(q)'
<1> USE DEF IInv
<1>t. TypeOK /\ Session(q)
  OBVIOUS
<1> HIDE DEF IInv
<1> USE DEF Goto, regVars, readVars
<1>f. ASSUME NEW p \in Procs, Forget(p), UNCHANGED <<typer, cnt>> PROVE Session(q)'
  <2>1. CASE q = p
    BY <1>f, <1>t, <2>1, Idle DEF Forget, TypeOK, Relying
  <2>2. CASE q # p
    BY <1>f, <1>t, <2>2, Untouched DEF Forget, SameSession, TypeOK
  <2>3. QED
    BY <2>1, <2>2
<1>1. ASSUME NEW p \in Procs, PmuInit(p) \/ EnableCounters(p) PROVE Session(q)'
  <2>1. CASE q = p
    BY <1>1, <1>t, <2>1, Idle DEF PmuInit, EnableCounters, TypeOK, Relying, Session, NotYet
  <2>2. CASE q # p
    BY <1>1, <1>t, <2>2, Untouched DEF PmuInit, EnableCounters, SameSession, TypeOK
  <2>3. QED
    BY <2>1, <2>2
<1>2. ASSUME NEW p \in Procs, ResetCounters(p) PROVE Session(q)'
  <2>1. CASE q = p
    BY <1>2, <1>t, <2>1, Idle DEF ResetCounters, TypeOK, Relying, Session, NotYet
  <2>2. CASE q # p /\ pc[q] = "last" /\ cpu[q] = cpu[p]
    <3>1. SameSession(q)
      BY <1>2, <1>t, <2>2 DEF ResetCounters, SameSession, TypeOK
    <3>2. spoiled'[q] = spoiled[q] \cup {"reset"}
      BY <1>2, <2>2 DEF ResetCounters
    <3>3. typer' = typer
      BY <1>2 DEF ResetCounters
    <3>4. id[q] \in Known => cnt'[cpu[q]][id[q]] = 0
      BY <1>2, <1>t, <2>2, ArmAssumption DEF ResetCounters, TypeOK
    <3>5. 0 <= first[q] + seen[q]
      BY <1>t, ArmAssumption DEF TypeOK
    <3>6. QED
      BY <1>t, <2>2, <3>1, <3>2, <3>3, <3>4, <3>5 DEF SameSession, Session, Typed,
         Following, Measured, NotYet, HasMeasured
  <2>3. CASE q # p /\ ~ (pc[q] = "last" /\ cpu[q] = cpu[p])
    <3>1. SameSession(q) /\ spoiled'[q] = spoiled[q] /\ typer' = typer
      BY <1>2, <1>t, <2>3 DEF ResetCounters, SameSession, TypeOK
    <3>2. pc[q] = "last" => cnt'[cpu[q]] = cnt[cpu[q]]
      BY <1>2, <1>t, <2>3 DEF ResetCounters, TypeOK
    <3>3. QED
      BY <1>t, <3>1, <3>2, Untouched
  <2>4. QED
    BY <2>1, <2>2, <2>3
<1>3. ASSUME NEW p \in Procs, NEW i \in Uses[p], NEW e \in Events, SetType(p, i, e)
      PROVE  Session(q)'
  <2>1. CASE q = p
    <3>1. /\ pc'[p] = "mrs" /\ id'[p] = i /\ event'[p] = e /\ cpu' = cpu
          /\ seen'[p] = 0 /\ cpu[p] \in Cores
      BY <1>3, <1>t, <2>1 DEF SetType, TypeOK, Session, NotYet
    <3>2. i \in Known => typer'[cpu[p]][i] = e
      BY <1>3, <1>t, IdsInUse, ArmAssumption DEF SetType, TypeOK
    <3>3. QED
      BY <2>1, <3>1, <3>2 DEF Session, Typed, Following, Measured, NotYet, HasMeasured,
                              Relying
  <2>2. CASE q # p
    <3>1. SameSession(q) /\ cnt' = cnt
      BY <1>3, <1>t, <2>2 DEF SetType, SameSession, TypeOK
    <3>2. spoiled[q] \subseteq spoiled'[q]
      BY <1>3, <1>t, <2>2 DEF SetType, SpoilType, TypeOK
    <3>3. {"type", "move"} \cap spoiled'[q] = {} /\ pc[q] \in Relying /\ id[q] \in Known
            => typer'[cpu[q]][id[q]] = typer[cpu[q]][id[q]]
      <4> SUFFICES ASSUME {"type", "move"} \cap spoiled'[q] = {}, pc[q] \in Relying, id[q] \in Known
                   PROVE  typer'[cpu[q]][id[q]] = typer[cpu[q]][id[q]]
        OBVIOUS
      <4>1. CASE i \in Known /\ cpu[q] = cpu[p] /\ id[q] = i
        <5>1. event[q] = e
          <6>1. SpoilType(p, i, e)
            BY <1>3, <4>1 DEF SetType
          <6>2. QED
            BY <6>1, <2>2, <4>1 DEF SpoilType
        <5>2. typer'[cpu[q]][id[q]] = e
          BY <1>3, <1>t, <4>1, IdsInUse, ArmAssumption DEF SetType, TypeOK
        <5>3. typer[cpu[q]][id[q]] = event[q]
          BY <1>t, <3>2 DEF Session, Typed
        <5>4. QED
          BY <5>1, <5>2, <5>3
      <4>2. CASE ~ (i \in Known /\ cpu[q] = cpu[p] /\ id[q] = i)
        <5>1. typer' = typer \/ (i \in Known /\ typer' = [typer EXCEPT ![cpu[p]][i] = e])
          BY <1>3 DEF SetType
        <5>2. cpu[q] \in Cores /\ typer[cpu[q]] \in [Counters -> Events \cup {"off"}]
          BY <1>t DEF TypeOK
        <5>3. DOMAIN typer = Cores /\ DOMAIN typer[cpu[q]] = Counters /\ id[q] \in Counters
          BY <1>t, ArmAssumption DEF TypeOK
        <5>4. CASE typer' = typer
          BY <5>4
        <5>5. CASE i \in Known /\ typer' = [typer EXCEPT ![cpu[p]][i] = e] /\ cpu[q] # cpu[p]
          BY <5>2, <5>3, <5>5
        <5>6. CASE i \in Known /\ typer' = [typer EXCEPT ![cpu[p]][i] = e] /\ cpu[q] = cpu[p]
          <6>1. i # id[q]
            BY <4>2, <5>6
          <6>2. typer'[cpu[q]] = [typer[cpu[q]] EXCEPT ![i] = e]
            BY <5>2, <5>3, <5>6
          <6>3. QED
            BY <5>3, <6>1, <6>2
        <5>7. QED
          BY <5>1, <5>4, <5>5, <5>6
      <4>3. QED
        BY <4>1, <4>2
    <3>4. QED
      BY <1>t, <3>1, <3>2, <3>3, Untouched
  <2>3. QED
    BY <2>1, <2>2
<1>4. ASSUME NEW p \in Procs, ReadEnset(p) \/ EnableCounter(p) PROVE Session(q)'
  <2>1. /\ cpu' = cpu /\ id' = id /\ event' = event /\ first' = first /\ last' = last
        /\ seen' = seen /\ spoiled' = spoiled /\ typer' = typer /\ cnt' = cnt
    BY <1>4 DEF ReadEnset, EnableCounter
  <2>2. CASE q = p
    <3>1. pc[p] \in Relying \ {"last"} /\ pc'[p] \in {"msr", "first"}
      BY <1>4, <1>t DEF ReadEnset, EnableCounter, TypeOK, Relying
    <3>2. QED
      BY <1>t, <2>1, <2>2, <3>1 DEF Session, Typed, Following, Measured, NotYet,
                                   HasMeasured, Relying
  <2>3. CASE q # p
    <3>1. pc'[q] = pc[q]
      BY <1>4, <1>t, <2>3 DEF ReadEnset, EnableCounter, TypeOK
    <3>2. QED
      BY <1>t, <2>1, <3>1, Untouched DEF SameSession
  <2>4. QED
    BY <2>2, <2>3
<1>5. ASSUME NEW p \in Procs, ReadFirst(p) PROVE Session(q)'
  <2>1. /\ cpu' = cpu /\ id' = id /\ event' = event /\ last' = last
        /\ seen' = seen /\ spoiled' = spoiled /\ typer' = typer /\ cnt' = cnt
    BY <1>5 DEF ReadFirst
  <2>2. CASE q = p
    <3>1. pc[p] = "first" /\ pc'[p] = "last" /\ first'[p] = GetRdpmc(p)
      BY <1>5, <1>t DEF ReadFirst, TypeOK
    <3>2. id[p] \in Known => cnt[cpu[p]][id[p]] \in 0 .. CounterMod - 1
      BY <1>t, ArmAssumption DEF TypeOK
    <3>3. seen[p] = 0
      BY <1>t, <2>2, <3>1 DEF Session, NotYet
    <3>4. QED
      BY <1>t, <2>1, <2>2, <3>1, <3>2, <3>3 DEF Session, Typed, Following, Measured,
         NotYet, HasMeasured, Relying, GetRdpmc
  <2>3. CASE q # p
    <3>1. pc'[q] = pc[q] /\ first'[q] = first[q]
      BY <1>5, <1>t, <2>3 DEF ReadFirst, TypeOK
    <3>2. QED
      BY <1>t, <2>1, <3>1, Untouched DEF SameSession
  <2>4. QED
    BY <2>2, <2>3
<1>6. ASSUME NEW p \in Procs, ReadLast(p) PROVE Session(q)'
  <2>1. /\ cpu' = cpu /\ id' = id /\ event' = event /\ first' = first
        /\ seen' = seen /\ spoiled' = spoiled /\ typer' = typer /\ cnt' = cnt
    BY <1>6 DEF ReadLast
  <2>2. CASE q = p
    <3>1. pc[p] = "last" /\ pc'[p] = "done" /\ last'[p] = GetRdpmc(p)
      BY <1>6, <1>t DEF ReadLast, TypeOK
    <3>2. /\ id[p] \in Known => cnt[cpu[p]][id[p]] \in 0 .. CounterMod - 1
          /\ first[p] \in 0 .. CounterMod - 1 /\ seen[p] \in 0 .. CounterMod - 1
          /\ CounterMod \in Nat
      BY <1>t, ArmAssumption DEF TypeOK
    <3>3. id[p] \in Known =>
            /\ spoiled[p] = {} => last'[p] - first[p] \in {seen[p], seen[p] - CounterMod}
            /\ spoiled[p] \subseteq {"reset"} => last'[p] - first[p] <= seen[p]
      BY <1>t, <2>2, <3>1, <3>2 DEF Session, Following, GetRdpmc
    <3>4. QED
      BY <1>t, <2>1, <2>2, <3>1, <3>3 DEF Session, Typed, Following, Measured,
         NotYet, HasMeasured, Relying, Delta
  <2>3. CASE q # p
    <3>1. pc'[q] = pc[q] /\ last'[q] = last[q]
      BY <1>6, <1>t, <2>3 DEF ReadLast, TypeOK
    <3>2. QED
      BY <1>t, <2>1, <3>1, Untouched DEF SameSession
  <2>4. QED
    BY <2>2, <2>3
<1>7. ASSUME NEW p \in Procs, StopReads(p) PROVE Session(q)'
  <2>1. /\ cpu' = cpu /\ id' = id /\ event' = event /\ first' = first /\ last' = last
        /\ seen' = seen /\ spoiled' = spoiled /\ typer' = typer /\ cnt' = cnt
    BY <1>7 DEF StopReads
  <2>2. CASE q = p
    <3>1. pc[p] = "done" /\ pc'[p] = "stop"
      BY <1>7, <1>t DEF StopReads, TypeOK
    <3>2. QED
      BY <1>t, <2>1, <2>2, <3>1 DEF Session, Typed, Following, Measured, NotYet,
                                   HasMeasured, Relying, Delta
  <2>3. CASE q # p
    <3>1. pc'[q] = pc[q]
      BY <1>7, <1>t, <2>3 DEF StopReads, TypeOK
    <3>2. QED
      BY <1>t, <2>1, <3>1, Untouched DEF SameSession
  <2>4. QED
    BY <2>2, <2>3
<1>8. ASSUME NEW p \in Procs, StopWrites(p) \/ ProcEnds(p) PROVE Session(q)'
  BY <1>8, <1>f DEF StopWrites, ProcEnds
<1>9. ASSUME NEW p \in Procs, NEW c \in Cores, Migrate(p, c) PROVE Session(q)'
  <2>1. /\ pc' = pc /\ id' = id /\ event' = event /\ first' = first /\ last' = last
        /\ seen' = seen /\ typer' = typer /\ cnt' = cnt
    BY <1>9 DEF Migrate
  <2>2. CASE q = p
    <3>1. /\ pc[q] \in Relying => "move" \in spoiled'[q]
          /\ pc[q] \notin Relying => spoiled'[q] = spoiled[q]
      BY <1>9, <1>t, <2>2 DEF Migrate, TypeOK
    <3>2. QED
      BY <1>t, <2>1, <3>1 DEF Session, Typed, Following, Measured, NotYet, HasMeasured,
                              Relying, Delta
  <2>3. CASE q # p
    <3>1. cpu'[q] = cpu[q] /\ spoiled'[q] = spoiled[q]
      BY <1>9, <1>t, <2>3 DEF Migrate, TypeOK
    <3>2. QED
      BY <1>t, <2>1, <3>1, Untouched DEF SameSession
  <2>4. QED
    BY <2>2, <2>3
<1>10. ASSUME NEW c \in Cores, NEW e \in Events, Happens(c, e) PROVE Session(q)'
  <2>1. /\ pc' = pc /\ cpu' = cpu /\ id' = id /\ event' = event /\ first' = first
        /\ last' = last /\ typer' = typer /\ spoiled' = spoiled
    BY <1>10 DEF Happens
  <2>2. CASE pc[q] = "last" /\ cpu[q] = c /\ id[q] \in Known
    <3>. DEFINE n == cnt[c][id[q]]
    <3>1. /\ n \in 0 .. CounterMod - 1 /\ first[q] \in 0 .. CounterMod - 1
          /\ seen[q] \in Nat /\ CounterMod \in Nat \ {0}
          /\ id[q] \in Counters
      BY <1>t, <2>2, ArmAssumption DEF TypeOK
    <3>2. event[q] = e => seen[q] + 1 < CounterMod /\ seen'[q] = seen[q] + 1
      BY <1>10, <2>2 DEF Happens
    <3>3. event[q] # e => seen'[q] = seen[q]
      BY <1>10, <2>2 DEF Happens
    <3>4. cnt'[c][id[q]] = IF Counts(c, id[q], e) THEN Succ(n) ELSE n
      BY <1>10, <1>t, <3>1 DEF Happens, TypeOK
    <3>5. CASE spoiled[q] \subseteq {"reset"}
      <4>1. typer[c][id[q]] = event[q]
        BY <1>t, <2>2, <3>5 DEF Session, Typed, Relying
      <4>2. id[q] \in enset[c]
        BY <2>2, <3>1 DEF IInv, EnabledStay
      <4>3. Counts(c, id[q], e) <=> event[q] = e
        BY <4>1, <4>2 DEF Counts
      <4>4. /\ spoiled[q] = {} => n \in {first[q] + seen[q], first[q] + seen[q] - CounterMod}
            /\ n <= first[q] + seen[q]
        BY <1>t, <2>2, <3>5 DEF Session, Following
      <4>5. Following(q)'
        <5>1. CASE event[q] = e
          BY <2>1, <2>2, <3>1, <3>2, <3>4, <4>3, <4>4, <5>1 DEF Following, Succ
        <5>2. CASE event[q] # e
          BY <2>1, <2>2, <3>1, <3>3, <3>4, <4>3, <4>4, <5>2 DEF Following
        <5>3. QED
          BY <5>1, <5>2
      <4>6. QED
        BY <1>t, <2>1, <2>2, <4>5 DEF Session, Typed, Measured, NotYet, HasMeasured
    <3>6. CASE ~ (spoiled[q] \subseteq {"reset"})
      BY <1>t, <2>1, <2>2, <3>6 DEF Session, Typed, Following, Measured, NotYet, HasMeasured
    <3>7. QED
      BY <3>5, <3>6
  <2>3. CASE pc[q] # "last" \/ cpu[q] # c
    <3>1. seen'[q] = seen[q]
      BY <1>10, <2>3 DEF Happens
    <3>2. pc[q] = "last" => cnt'[cpu[q]] = cnt[cpu[q]]
      BY <1>10, <1>t, <2>3 DEF Happens, TypeOK
    <3>3. QED
      BY <1>t, <2>1, <3>1, <3>2, Untouched DEF SameSession
  <2>4. CASE pc[q] = "last" /\ id[q] \notin Known
    BY <1>t, <2>1, <2>4 DEF Session, Typed, Following, Measured, NotYet, HasMeasured
  <2>5. QED
    BY <2>2, <2>3, <2>4
<1>11. CASE UNCHANGED vars
  BY <1>t, <1>11, Untouched DEF vars, SameSession
<1>12. QED
  BY <1>1, <1>2, <1>3, <1>4, <1>5, <1>6, <1>7, <1>8, <1>9, <1>10, <1>11 DEF Next, Call

\* The invariant holds throughout.
LEMMA Invariant == Spec => []IInv
<1>1. Init => IInv
  <2> SUFFICES ASSUME Init PROVE IInv
    OBVIOUS
  <2>1. TypeOK
    <3>1. AnId \in Ids /\ 0 \in 0 .. CounterMod - 1
      BY ArmAssumption DEF AnId
    <3>2. QED
      BY <3>1 DEF Init, TypeOK
  <2>2. EnabledStay
    BY DEF Init, EnabledStay
  <2>3. ASSUME NEW p \in Procs PROVE Session(p)
    BY <2>3 DEF Init, Session, Typed, Following, Measured, NotYet, HasMeasured, Relying
  <2>4. QED
    BY <2>1, <2>2, <2>3 DEF IInv
<1>2. IInv /\ TypeOK' /\ [Next]_vars => IInv'
  <2> SUFFICES ASSUME IInv, TypeOK', [Next]_vars PROVE IInv'
    OBVIOUS
  <2>1. \A p \in Procs : Session(p)'
    BY SessionsKept
  <2>2. EnabledStay'
    BY OnlyEnables DEF EnabledStay, IInv
  <2>3. QED
    BY <2>1, <2>2 DEF IInv
<1>3. QED
  BY <1>1, <1>2, TypeCorrect, PTL DEF Spec

\* A session that nothing came into measures exactly the events of its time,
\* or one wrap of the counter less (header/pmu_utils.h: pmu_set_event,
\* pmu_get_rdpmc).
THEOREM SessionsMeasure == Spec => []DeltaIsExact
<1>1. IInv => DeltaIsExact
  BY DEF IInv, Session, Measured, DeltaIsExact
<1>2. QED
  BY <1>1, Invariant, PTL

\* A pmu_init of somebody else between the readings can only make the
\* difference less (module/pmu_utils.c: enable_pmu).
THEOREM ResetsNeverAdd == Spec => []ResetNeverAdds
<1>1. IInv => ResetNeverAdds
  BY DEF IInv, Session, Measured, ResetNeverAdds
<1>2. QED
  BY <1>1, Invariant, PTL

-----------------------------------------------------------------------------
(* Measurement is implemented: how each step moves each session             *)

\* Who uses a counter that the library has no case for has read zero.
ReadNothing == \A p \in Procs : pc[p] = "last" /\ id[p] \notin Known => first[p] = 0

LEMMA NothingRead == Spec => []ReadNothing
<1>1. Init => ReadNothing
  BY DEF Init, ReadNothing
<1>2. TypeOK /\ ReadNothing /\ [Next]_vars => ReadNothing'
  <2> SUFFICES ASSUME TypeOK, ReadNothing, [Next]_vars, NEW q \in Procs,
                      pc'[q] = "last", id'[q] \notin Known
               PROVE  first'[q] = 0
    BY DEF ReadNothing
  <2> USE DEF Goto, regVars, readVars
  <2>1. ASSUME pc'[q] = pc[q], id'[q] = id[q], first'[q] = first[q] PROVE first'[q] = 0
    BY <2>1 DEF ReadNothing
  <2>2. ASSUME NEW p \in Procs, Call(p) PROVE first'[q] = 0
    <3>1. CASE ReadFirst(p)
      BY <2>1, <3>1 DEF ReadFirst, GetRdpmc, TypeOK
    <3>2. ASSUME NEW i \in Uses[p], NEW e \in Events, SetType(p, i, e)
          PROVE  first'[q] = 0
      BY <2>1, <3>2 DEF SetType, TypeOK
    <3>3. CASE StopWrites(p)
      BY <2>1, <3>3 DEF StopWrites, Forget, TypeOK
    <3>4. CASE PmuInit(p) \/ EnableCounters(p) \/ ResetCounters(p) \/ ReadEnset(p)
               \/ EnableCounter(p) \/ ReadLast(p) \/ StopReads(p)
      BY <2>1, <3>4 DEF PmuInit, EnableCounters, ResetCounters, ReadEnset, EnableCounter,
         ReadLast, StopReads, TypeOK
    <3>5. QED
      BY <2>2, <3>1, <3>2, <3>3, <3>4 DEF Call
  <2>3. ASSUME NEW p \in Procs, ProcEnds(p) PROVE first'[q] = 0
    BY <2>1, <2>3 DEF ProcEnds, Forget, TypeOK
  <2>4. ASSUME \/ \E p \in Procs, c \in Cores : Migrate(p, c)
               \/ \E c \in Cores, e \in Events : Happens(c, e)
               \/ UNCHANGED vars
        PROVE  first'[q] = 0
    BY <2>1, <2>4 DEF Migrate, Happens, vars
  <2>5. QED
    BY <2>2, <2>3, <2>4 DEF Next
<1>3. QED
  BY <1>1, <1>2, TypeCorrect, PTL DEF Spec

\* What comes between a process and its counter takes trust away.
LEMMA TrustFalls ==
  ASSUME TypeOK, NEW p \in Procs, id'[p] = id[p], spoiled[p] \subseteq spoiled'[p]
  PROVE  Trust(p)' \in Promise!Below(Trust(p))
BY DEF Trust, Promise!Below, TypeOK

\* A session that does not move, but for its trust.
LEMMA Steady ==
  ASSUME TypeOK, NEW p \in Procs, pc'[p] = pc[p], id'[p] = id[p], first'[p] = first[p],
         last'[p] = last[p], seen'[p] = seen[p], spoiled[p] \subseteq spoiled'[p]
  PROVE  Promise!Moves(SessionOf(p), SessionOf(p)')
<1>1. Phase(p)' = Phase(p) /\ Delta(p)' = Delta(p)
  BY DEF Phase, Delta
<1>2. CASE Phase(p) = "out"
  BY <1>1, <1>2 DEF SessionOf, Promise!Moves
<1>3. CASE Phase(p) # "out"
  <2>1. Trust(p)' \in Promise!Below(Trust(p))
    BY TrustFalls
  <2>2. Promise!Falls(SessionOf(p), SessionOf(p)')
    BY <1>1, <1>3, <2>1 DEF SessionOf, Promise!Falls
  <2>3. QED
    BY <2>2 DEF Promise!Moves
<1>4. QED
  BY <1>2, <1>3

\* Outside there is nothing to tell one process from another.
LEMMA Outside ==
  ASSUME NEW p \in Procs, Phase(p) = "out", seen[p] = 0
  PROVE  SessionOf(p) = Promise!Out
BY DEF SessionOf, Promise!Out

LEMMA OutsideNext ==
  ASSUME NEW p \in Procs, Phase(p)' = "out", seen'[p] = 0
  PROVE  SessionOf(p)' = Promise!Out
BY DEF SessionOf, Promise!Out

LEMMA StaysOutside ==
  ASSUME NEW p \in Procs, NotYet(p), Phase(p) = "out", Phase(p)' = "out", seen'[p] = seen[p]
  PROVE  Promise!Moves(SessionOf(p), SessionOf(p)')
<1>1. seen[p] = 0
  BY DEF NotYet, Phase
<1>2. SessionOf(p) = Promise!Out /\ SessionOf(p)' = Promise!Out
  BY <1>1, Outside, OutsideNext
<1>3. QED
  BY <1>2 DEF Promise!Moves

LEMMA LeavesSession ==
  ASSUME TypeOK, NEW p \in Procs, Session(p), Forget(p)
  PROVE  Promise!Moves(SessionOf(p), SessionOf(p)')
<1>1. pc'[p] = "start" /\ seen'[p] = 0
  BY DEF Forget, Goto, TypeOK
<1>2. Phase(p)' = "out"
  BY <1>1 DEF Phase
<1>3. SessionOf(p)' = Promise!Out
  BY <1>1, <1>2, OutsideNext
<1>4. CASE Phase(p) = "out"
  BY <1>2, <1>3, <1>4, Outside DEF Session, NotYet, Phase, Promise!Moves
<1>5. CASE Phase(p) # "out"
  BY <1>3, <1>5 DEF SessionOf, Promise!Leaves, Promise!Moves
<1>6. QED
  BY <1>4, <1>5

\* The second reading gives what the session's trust promises.
LEMMA EndsWell ==
  ASSUME IInv, ReadNothing, NEW p \in Procs, Session(p)', ReadLast(p)
  PROVE  Promise!Moves(SessionOf(p), SessionOf(p)')
<1>1. pc[p] = "last" /\ pc'[p] = "done" /\ id' = id /\ first' = first /\ seen' = seen
      /\ spoiled' = spoiled /\ last'[p] = GetRdpmc(p)
  BY DEF ReadLast, Goto, IInv, TypeOK
<1>2. Phase(p) = "counting" /\ Phase(p)' = "done" /\ Trust(p)' = Trust(p)
  BY <1>1 DEF Phase, Trust
<1>3. first[p] \in Nat /\ seen[p] \in Nat
  BY ArmAssumption DEF IInv, TypeOK
<1>4. CASE id[p] \in Known
  <2>1. Measured(p)' /\ HasMeasured(p)'
    BY <1>1, <1>4 DEF Session, HasMeasured
  <2>2. Promise!Result(Trust(p), seen[p], Delta(p)')
    BY <1>1, <1>4, <2>1 DEF Measured, Trust, Promise!Result
  <2>3. QED
    BY <1>1, <1>2, <2>2 DEF SessionOf, Promise!Ends, Promise!Moves
<1>5. CASE id[p] \notin Known
  <2>1. Delta(p)' = 0
    BY <1>1, <1>5 DEF ReadNothing, Delta, GetRdpmc
  <2>2. Promise!Result(Trust(p), seen[p], Delta(p)')
    BY <1>3, <1>5, <2>1 DEF Trust, Promise!Result
  <2>3. QED
    BY <1>1, <1>2, <2>2 DEF SessionOf, Promise!Ends, Promise!Moves
<1>6. QED
  BY <1>4, <1>5

\* A step of q's own.
LEMMA OwnMoves ==
  ASSUME IInv, ReadNothing, NEW q \in Procs, Session(q)', Call(q)
  PROVE  Promise!Moves(SessionOf(q), SessionOf(q)')
<1> USE DEF Goto, regVars, readVars
<1>t. TypeOK /\ Session(q) /\ NotYet(q)
  BY DEF IInv, Session
<1>1. CASE PmuInit(q) \/ EnableCounters(q) \/ ResetCounters(q) \/ ReadEnset(q)
           \/ EnableCounter(q)
  <2>1. pc[q] \notin {"last", "done", "stop"} /\ pc'[q] \notin {"last", "done", "stop"}
        /\ seen' = seen
    BY <1>1, <1>t DEF PmuInit, EnableCounters, ResetCounters, ReadEnset, EnableCounter, TypeOK
  <2>2. QED
    BY <1>t, <2>1, StaysOutside DEF Phase
<1>2. ASSUME NEW i \in Uses[q], NEW e \in Events, SetType(q, i, e)
      PROVE  Promise!Moves(SessionOf(q), SessionOf(q)')
  <2>1. pc[q] = "type" /\ pc'[q] = "mrs" /\ seen' = seen
    BY <1>2, <1>t DEF SetType, TypeOK
  <2>2. QED
    BY <1>t, <2>1, StaysOutside DEF Phase
<1>3. CASE ReadFirst(q)
  <2>1. pc[q] = "first" /\ pc'[q] = "last" /\ seen'[q] = 0 /\ seen[q] = 0
    BY <1>3, <1>t DEF ReadFirst, TypeOK, NotYet
  <2>2. Phase(q) = "out" /\ Phase(q)' = "counting"
    BY <2>1 DEF Phase
  <2>3. SessionOf(q) = Promise!Out
    BY <2>1, <2>2, Outside
  <2>4. Promise!Begins(SessionOf(q), SessionOf(q)')
    BY <2>1, <2>2, <2>3 DEF SessionOf, Promise!Out, Promise!Begins
  <2>5. QED
    BY <2>4 DEF Promise!Moves
<1>4. CASE ReadLast(q)
  BY <1>4, EndsWell
<1>5. CASE StopReads(q)
  <2>1. pc[q] = "done" /\ pc'[q] = "stop" /\ id' = id /\ first' = first /\ last' = last
        /\ seen' = seen /\ spoiled' = spoiled
    BY <1>5, <1>t DEF StopReads, TypeOK
  <2>2. SessionOf(q)' = SessionOf(q)
    BY <2>1 DEF SessionOf, Phase, Trust, Delta
  <2>3. QED
    BY <2>2 DEF Promise!Moves
<1>6. CASE StopWrites(q)
  BY <1>6, <1>t, LeavesSession DEF StopWrites
<1>7. QED
  BY <1>1, <1>2, <1>3, <1>4, <1>5, <1>6 DEF Call

\* A step of another process leaves a session in place, and may lessen its
\* trust.
LEMMA OthersMove ==
  ASSUME IInv, NEW p \in Procs, NEW q \in Procs, p # q,
         Call(p) \/ ProcEnds(p) \/ \E c \in Cores : Migrate(p, c)
  PROVE  Promise!Moves(SessionOf(q), SessionOf(q)')
<1> USE DEF Goto, regVars, readVars
<1>t. TypeOK
  BY DEF IInv
<1> DEFINE Same == pc'[q] = pc[q] /\ id'[q] = id[q] /\ first'[q] = first[q]
                   /\ last'[q] = last[q] /\ seen'[q] = seen[q]
<1>s. ASSUME Same, spoiled[q] \subseteq spoiled'[q]
      PROVE  Promise!Moves(SessionOf(q), SessionOf(q)')
  BY <1>s, <1>t, Steady
<1>1. CASE PmuInit(p) \/ EnableCounters(p) \/ ReadEnset(p) \/ EnableCounter(p)
           \/ ReadFirst(p) \/ ReadLast(p) \/ StopReads(p)
  <2>1. Same
    BY <1>1, <1>t DEF PmuInit, EnableCounters, ReadEnset, EnableCounter, ReadFirst, ReadLast,
       StopReads, TypeOK
  <2>2. spoiled' = spoiled
    BY <1>1 DEF PmuInit, EnableCounters, ReadEnset, EnableCounter, ReadFirst, ReadLast, StopReads
  <2>3. QED
    BY <1>s, <2>1, <2>2
<1>2. CASE ResetCounters(p)
  <2>1. Same /\ spoiled[q] \subseteq spoiled'[q]
    BY <1>2, <1>t DEF ResetCounters, TypeOK
  <2>2. QED
    BY <1>s, <2>1
<1>3. ASSUME NEW i \in Uses[p], NEW e \in Events, SetType(p, i, e)
      PROVE  Promise!Moves(SessionOf(q), SessionOf(q)')
  <2>1. Same
    BY <1>3, <1>t DEF SetType, TypeOK
  <2>2. spoiled[q] \subseteq spoiled'[q]
    BY <1>3, <1>t DEF SetType, SpoilType, TypeOK
  <2>3. QED
    BY <1>s, <2>1, <2>2
<1>4. CASE StopWrites(p) \/ ProcEnds(p)
  <2>1. Forget(p)
    BY <1>4 DEF StopWrites, ProcEnds
  <2>2. Same /\ spoiled'[q] = spoiled[q]
    BY <1>t, <2>1 DEF Forget, TypeOK
  <2>3. QED
    BY <1>s, <2>2
<1>5. ASSUME NEW c \in Cores, Migrate(p, c) PROVE Promise!Moves(SessionOf(q), SessionOf(q)')
  <2>1. Same /\ spoiled'[q] = spoiled[q]
    BY <1>5, <1>t DEF Migrate, TypeOK
  <2>2. QED
    BY <1>s, <2>1
<1>6. QED
  BY <1>1, <1>2, <1>3, <1>4, <1>5 DEF Call

\* An event is counted by the sessions that it is meant for.
LEMMA EventMoves ==
  ASSUME IInv, NEW c \in Cores, NEW e \in Events, Happens(c, e), NEW q \in Procs
  PROVE  Promise!Moves(SessionOf(q), SessionOf(q)')
<1>1. pc' = pc /\ id' = id /\ first' = first /\ last' = last /\ spoiled' = spoiled
  BY DEF Happens
<1>2. Phase(q)' = Phase(q) /\ Trust(q)' = Trust(q) /\ Delta(q)' = Delta(q)
  BY <1>1 DEF Phase, Trust, Delta
<1>3. CASE pc[q] = "last" /\ cpu[q] = c /\ event[q] = e
  <2>1. seen'[q] = seen[q] + 1
    BY <1>3 DEF Happens
  <2>2. Phase(q) = "counting"
    BY <1>3 DEF Phase
  <2>3. Promise!Counts(SessionOf(q), SessionOf(q)')
    BY <1>2, <2>1, <2>2 DEF SessionOf, Promise!Counts
  <2>4. QED
    BY <2>3 DEF Promise!Moves
<1>4. CASE ~ (pc[q] = "last" /\ cpu[q] = c /\ event[q] = e)
  <2>1. seen'[q] = seen[q]
    BY <1>4 DEF Happens
  <2>2. SessionOf(q)' = SessionOf(q)
    BY <1>2, <2>1 DEF SessionOf
  <2>3. QED
    BY <2>2 DEF Promise!Moves
<1>5. QED
  BY <1>3, <1>4

LEMMA SessionsMove ==
  ASSUME IInv, IInv', ReadNothing, [Next]_vars, NEW q \in Procs
  PROVE  Promise!Moves(SessionOf(q), SessionOf(q)')
<1>t. TypeOK /\ Session(q) /\ Session(q)'
  BY DEF IInv
<1>1. CASE Call(q)
  BY <1>1, <1>t, OwnMoves
<1>2. CASE ProcEnds(q)
  BY <1>2, <1>t, LeavesSession DEF ProcEnds
<1>3. ASSUME NEW c \in Cores, Migrate(q, c) PROVE Promise!Moves(SessionOf(q), SessionOf(q)')
  <2>1. UNCHANGED <<pc, id, first, last, seen>> /\ spoiled[q] \subseteq spoiled'[q]
    BY <1>3, <1>t DEF Migrate, TypeOK, readVars
  <2>2. QED
    BY <1>t, <2>1, Steady
<1>4. ASSUME NEW p \in Procs, p # q,
             Call(p) \/ ProcEnds(p) \/ \E c \in Cores : Migrate(p, c)
      PROVE  Promise!Moves(SessionOf(q), SessionOf(q)')
  BY <1>4, OthersMove
<1>5. ASSUME NEW c \in Cores, NEW e \in Events, Happens(c, e)
      PROVE  Promise!Moves(SessionOf(q), SessionOf(q)')
  BY <1>5, EventMoves
<1>6. CASE UNCHANGED vars
  BY <1>t, <1>6, Steady DEF vars, readVars
<1>7. QED
  BY <1>1, <1>2, <1>3, <1>4, <1>5, <1>6 DEF Next

\* What a session is, type by type.
LEMMA SessionTypes ==
  ASSUME TypeOK PROVE \A p \in Procs : SessionOf(p) \in Promise!Sessions
<1> SUFFICES ASSUME NEW p \in Procs PROVE SessionOf(p) \in Promise!Sessions
  OBVIOUS
<1>1. seen[p] \in Nat /\ first[p] \in Int /\ last[p] \in Int
  BY ArmAssumption DEF TypeOK
<1>2. Delta(p) \in Int /\ Phase(p) \in {"out", "counting", "done"}
      /\ Trust(p) \in {"exact", "atmost", "none"}
  BY <1>1 DEF Delta, Phase, Trust
<1>3. QED
  BY <1>1, <1>2 DEF SessionOf, Promise!Sessions

\* The aarch64 half of the library keeps the promise, whoever else uses the
\* core's registers and however the processes are scheduled
\* (header/pmu_utils.h: pmu_set_event, pmu_get_rdpmc, pmu_record_stop).
THEOREM MeasurementKept == Spec => ImplementsMeasurement
<1>1. Init => Promise!Init
  <2> SUFFICES ASSUME Init, NEW p \in Procs PROVE SessionOf(p) = Promise!Out
    BY DEF Promise!Init
  <2>1. Phase(p) = "out" /\ seen[p] = 0
    BY DEF Init, Phase
  <2>2. QED
    BY <2>1, Outside
<1>2. IInv /\ IInv' /\ ReadNothing /\ [Next]_vars
        => [Promise!Next]_[p \in Procs |-> SessionOf(p)]
  <2> SUFFICES ASSUME IInv, IInv', ReadNothing, [Next]_vars PROVE Promise!Next
    OBVIOUS
  <2>1. \A p \in Procs : Promise!Moves(SessionOf(p), SessionOf(p)')
    BY SessionsMove
  <2>2. \A p \in Procs : SessionOf(p)' \in Promise!Sessions
    <3>1. TypeOK'
      BY DEF IInv
    <3>2. TypeOK => \A p \in Procs : SessionOf(p) \in Promise!Sessions
      BY SessionTypes
    <3>3. (\A p \in Procs : SessionOf(p) \in Promise!Sessions)'
      BY <3>1, SessionTypes, PTL
    <3>4. QED
      BY <3>3 DEF Promise!Sessions
  <2>3. QED
    BY <2>1, <2>2 DEF Promise!Next
<1>3. QED
  BY <1>1, <1>2, Invariant, NothingRead, PTL DEF Spec, ImplementsMeasurement, Promise!Spec

=============================================================================
