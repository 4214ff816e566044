-------------------------- MODULE MsrSessionProofs --------------------------
(***************************************************************************)
(* The properties of MsrSession for any number of processes, cores and     *)
(* counters.  IInv is the inductive invariant.  Its parts are about one    *)
(* process each; a step of another process is shown once to be of one of   *)
(* three kinds (Foreign), and each part to survive these.                  *)
(***************************************************************************)
EXTENDS MsrSession, TLAPS

\* The steps before p has disabled the counters and after it is done: nobody
\* keeps account of what others write.
Early == {"start", "open", "disable", "done"}

\* The steps by which the event has been selected.
Selecting == {"clear", "record", "msr1", "rdpmc1", "msr2", "rdpmc2", "stop"}

\* The steps by which the counters have been started and p has not read the
\* last time.
Recording == {"msr1", "rdpmc1", "msr2"}

Read1 == {"rdpmc1", "msr2", "rdpmc2", "stop"}
Read2 == {"rdpmc2", "stop"}

\* The register values of p's counter, and what it should count.
Sel(p) == sel[core[p]][id[p]]
Pmc(p) == pmc[core[p]][id[p]]
Expected(p) == IF Recorded(id[p]) THEN seen[p] ELSE 0

-----------------------------------------------------------------------------
(* The inductive invariant *)

\* Where p's file, vendor, event and history are in the order of its calls.
Local(p) ==
  /\ fd[p] = "ok" => core[p] \in Cores
  /\ fd[p] = "ok" /\ p \in Pinned => core[p] = cpu[p]
  /\ fd[p] = "ok" /\ pc[p] \in Selecting => off[p] = GlobalCtrlAddr
  /\ vendor[p] \in Detectable \cup {"UNCHECK"}
  /\ pc[p] \in Selecting => vendor[p] # "UNCHECK"
  /\ pc[p] \notin {"start", "open", "done"} => event[p] \in Events
  /\ pc[p] \in {"msr2", "rdpmc2", "stop"} => id[p] \in Counters
  /\ pc[p] \notin Read1 => seen[p] = 0

\* AMD has four event select registers here.
Banks ==
  Vendor = "AMD" => \A c \in Cores, i \in Counters : i >= 4 => sel[c][i] = "off"

\* On Intel an undisturbed session knows the control register.
Controlled(p) ==
  Vendor = "INTEL" /\ fd[p] = "ok" /\ touched[p] = {} =>
    /\ pc[p] \in {"select", "clear", "record"} => ctrl[core[p]] = {}
    /\ pc[p] \in Recording =>
         ctrl[core[p]] = IF RecordMask \subseteq Counters THEN RecordMask ELSE {}

\* p's counter counts p's event or nothing; if calm, p's event.
Selected(p) ==
  Dev(p) /\ pc[p] \in Selecting =>
    /\ Quiet(p) => Sel(p) \in {event[p], "off"}
    /\ Calm(p) /\ id[p] < 4 => Sel(p) = event[p]

\* Between the readings the counter advances with seen, or less.
Counted(p) ==
  Dev(p) /\ pc[p] \in Window =>
    /\ Quiet(p) => Pmc(p) - msr[p][1] <= seen[p]
    /\ Calm(p) => Pmc(p) - msr[p][1] = Expected(p)

\* What is read is what was counted, or -1 twice.
Concluded(p) ==
  /\ ~Dev(p) /\ pc[p] \in Read1 => msr[p][1] = -1
  /\ ~Dev(p) /\ pc[p] \in Read2 => msr[p][2] = -1
  /\ Dev(p) /\ pc[p] \in Read2 =>
       /\ Quiet(p) => Measured(p) <= seen[p]
       /\ Calm(p) => Measured(p) = Expected(p)

\* The readings never fall, and the counter is not below the last of them.
Rising(p) ==
  Dev(p) /\ id[p] \notin touched[p] =>
    /\ pc[p] = "rdpmc1" => msr[p][1] <= Pmc(p)
    /\ p \in Pinned =>
         /\ pc[p] = "msr2"   => msr[p][1] <= rdpmc[p] /\ rdpmc[p] <= Pmc(p)
         /\ pc[p] = "rdpmc2" => rdpmc[p] <= msr[p][2] /\ msr[p][2] <= Pmc(p)
         /\ pc[p] = "stop"   => msr[p][2] <= rdpmc[p]

Session(p) == Local(p) /\ Controlled(p) /\ Selected(p) /\ Counted(p) /\ Concluded(p) /\ Rising(p)

IInv == TypeOK /\ Banks /\ \A p \in Procs : Session(p)

-----------------------------------------------------------------------------
(* Addresses and registers *)

\* Announced counters are few enough for their address not to be that of the
\* control register.
LEMMA IdsSmall == Ids \subseteq 0 .. 254
<1>1. MsrsNum("INTEL") \in 0 .. 255 /\ MsrsNum("AMD") \in 0 .. 6
  BY MachineAssumption DEF MsrsNum
<1> QED
  BY <1>1, MachineAssumption, SessionAssumption

LEMMA IdsAre == ASSUME TypeOK, NEW p \in Procs PROVE id[p] \in Ids /\ id[p] \in 0 .. 254
<1>1. id[p] \in Ids
  BY DEF TypeOK
<1> QED
  BY <1>1, IdsSmall

\* What an address that names a counter's value names.
LEMMA PmcIsCounter ==
  ASSUME NEW a, RegisterAt(a).kind = "pmc"
  PROVE  RegisterAt(a).i \in Counters
BY DEF RegisterAt, Reg, NoReg

LEMMA ControlAddress ==
  /\ Vendor = "INTEL" => RegisterAt(GlobalCtrlAddr) = Reg("ctrl", 0)
  /\ Vendor = "AMD" => RegisterAt(GlobalCtrlAddr) = NoReg
  /\ RegisterAt(<<"0000", 0>>) = NoReg
BY MachineAssumption DEF RegisterAt, GlobalCtrlAddr, Counters, NoReg

\* The event selects: where an AMD counter has none, a counter is met.
LEMMA SelectAddress ==
  ASSUME NEW j \in 0 .. 254
  PROVE  /\ Vendor = "INTEL" => RegisterAt(EventSelAddr("INTEL", j)) =
              IF j \in Counters THEN Reg("sel", j) ELSE NoReg
         /\ Vendor = "AMD" => RegisterAt(EventSelAddr("INTEL", j)) = NoReg
         /\ Vendor = "AMD" /\ j < 4 => RegisterAt(EventSelAddr("AMD", j)) \in
              (IF j \in Counters THEN {Reg("sel", j)} ELSE {NoReg})
         /\ Vendor = "AMD" /\ j >= 4 => RegisterAt(EventSelAddr("AMD", j)) \in
              {Reg("pmc", j - 4), NoReg}
BY MachineAssumption DEF RegisterAt, EventSelAddr, Counters, NoReg

\* The counters: beyond the last Intel one an event select is met.
LEMMA ValueAddress ==
  ASSUME NEW j \in 0 .. 254
  PROVE  /\ j \in Counters => RegisterAt(CounterAddr(Vendor, j)) = Reg("pmc", j)
         /\ Vendor = "INTEL" /\ j \notin Counters =>
              RegisterAt(CounterAddr("INTEL", j)) \in {Reg("sel", j - 197), NoReg}
         /\ Vendor = "AMD" /\ j \notin Counters => RegisterAt(CounterAddr("AMD", j)) = NoReg
         /\ Vendor = "AMD" => RegisterAt(CounterAddr("INTEL", j)) = NoReg
BY MachineAssumption DEF RegisterAt, CounterAddr, Counters, NoReg

-----------------------------------------------------------------------------
(* Types *)

\* A register write keeps the registers' types, wherever it goes.
LEMMA WriteTypes ==
  ASSUME TypeOK, NEW p \in Procs, NEW a, NEW code \in Events \cup {"off"},
         NEW number \in 0 .. MaxCount, NEW mask, Write(p, a, code, number, mask)
  PROVE  /\ sel' \in [Cores -> [Counters -> Events \cup {"off"}]]
         /\ pmc' \in [Cores -> [Counters -> 0 .. MaxCount]]
         /\ ctrl' \in [Cores -> SUBSET Counters]
<1> USE DEF TypeOK
<1>1. sel' \in [Cores -> [Counters -> Events \cup {"off"}]]
  BY DEF Write
<1>2. pmc' \in [Cores -> [Counters -> 0 .. MaxCount]]
  BY DEF Write
<1>3. ctrl' \in [Cores -> SUBSET Counters]
  BY DEF Write
<1> QED
  BY <1>1, <1>2, <1>3

LEMMA TouchTypes ==
  ASSUME TypeOK, NEW p \in Procs, NEW a, Touch(p, a)
  PROVE  touched' \in [Procs -> SUBSET Ids]
BY DEF TypeOK, Touch

LEMMA VendorTypes ==
  ASSUME TypeOK, NEW p \in Procs, NEW v \in {"INTEL", "AMD"}, GetCpuVendor(p, v)
  PROVE  vendor' \in [Procs -> {"UNCHECK", "INTEL", "AMD"}]
BY DEF TypeOK, GetCpuVendor

LEMMA OpenTypes ==
  ASSUME TypeOK, NEW p \in Procs, NEW r \in Requests, OpenMsr(p, r)
  PROVE  /\ core' \in [Procs -> 0 .. CoreMod - 1]
         /\ fd' \in [Procs -> {"bad", "ok"}]
         /\ off' \in [Procs -> {<<"0000", 0>>, GlobalCtrlAddr}]
         /\ open' \in [Procs -> 0 .. MaxFds]
         /\ fd'[p] = "ok" => core'[p] \in Cores
<1>1. r % CoreMod \in 0 .. CoreMod - 1
  BY SessionAssumption
<1>2. open[p] < MaxFds => open[p] + 1 \in 0 .. MaxFds
  BY SessionAssumption DEF TypeOK
<1>3. core'[p] = r % CoreMod /\ core' \in [Procs -> 0 .. CoreMod - 1]
  BY <1>1 DEF TypeOK, OpenMsr
<1>4. off' \in [Procs -> {<<"0000", 0>>, GlobalCtrlAddr}]
  BY DEF TypeOK, OpenMsr
<1>5. CASE r % CoreMod \in Cores /\ open[p] < MaxFds
  <2>1. fd' = [fd EXCEPT ![p] = "ok"] /\ open' = [open EXCEPT ![p] = open[p] + 1]
    BY <1>5 DEF OpenMsr
  <2> QED
    BY <1>2, <1>3, <1>4, <1>5, <2>1 DEF TypeOK
<1>6. CASE ~(r % CoreMod \in Cores /\ open[p] < MaxFds)
  <2>1. fd' = [fd EXCEPT ![p] = "bad"] /\ open' = open
    BY <1>6 DEF OpenMsr
  <2> QED
    BY <1>3, <1>4, <2>1 DEF TypeOK
<1> QED
  BY <1>5, <1>6

\* What a reading gives.
LEMMA ReadTypes ==
  ASSUME TypeOK, NEW p \in Procs, NEW k \in {1, 2}, ReadPmc(p, k),
         fd[p] = "ok" => core[p] \in Cores
  PROVE  /\ msr' \in [Procs -> Readings \X Readings]
         /\ vendor' \in [Procs -> {"UNCHECK", "INTEL", "AMD"}]
<1>1. PICK v \in {"INTEL", "AMD"} :
        LET r == Reaches(p, CounterAddr(v, id[p]))
        IN  /\ GetCpuVendor(p, v)
            /\ msr' = [msr EXCEPT ![p][k] = IF r.kind = "pmc" THEN pmc[core[p]][r.i] ELSE -1]
  BY DEF ReadPmc
<1> DEFINE r == Reaches(p, CounterAddr(v, id[p]))
           n == IF r.kind = "pmc" THEN pmc[core[p]][r.i] ELSE -1
<1>2. r.kind = "pmc" => r.i \in Counters /\ core[p] \in Cores
  BY PmcIsCounter DEF Reaches, NoReg, Reg
<1>3. n \in Readings
  BY <1>2, SessionAssumption DEF TypeOK, Readings
<1>4. msr' = [msr EXCEPT ![p][k] = n]
  BY <1>1
<1> HIDE DEF n
<1>5. msr' \in [Procs -> Readings \X Readings]
  BY <1>3, <1>4 DEF TypeOK
<1> QED
  BY <1>1, <1>5, VendorTypes

LEMMA TypeKept == TypeOK /\ (\A p \in Procs : Local(p)) /\ [Next]_vars => TypeOK'
<1> SUFFICES ASSUME TypeOK, \A p \in Procs : Local(p), [Next]_vars PROVE TypeOK'
  OBVIOUS
<1> USE DEF Goto, hwVars, argVars, fileVars, readVars
<1>1. ASSUME NEW p \in Procs, NEW r \in Requests, PmuOpenMsr(p, r) PROVE TypeOK'
  <2>1. OpenMsr(p, r)
    BY <1>1 DEF PmuOpenMsr
  <2> QED
    BY <1>1, <2>1, OpenTypes DEF PmuOpenMsr, TypeOK, Steps
<1>2. ASSUME NEW p \in Procs, NEW r \in Requests, NEW i \in Ids, NEW e \in Events,
             PmuSetEvent(p, r, i, e)
      PROVE  TypeOK'
  <2>1. OpenMsr(p, r)
    BY <1>2 DEF PmuSetEvent
  <2> QED
    BY <1>2, <2>1, OpenTypes DEF PmuSetEvent, Choose, TypeOK, Steps
<1>3. ASSUME NEW p \in Procs, NEW i \in Ids, NEW e \in Events, PmuSetMsrEvent(p, i, e)
      PROVE  TypeOK'
  BY <1>3 DEF PmuSetMsrEvent, Choose, TypeOK, Steps
<1>4. ASSUME NEW p \in Procs, Disable(p) PROVE TypeOK'
  <2>1. Write(p, GlobalCtrlAddr, "off", 0, {}) /\ Touch(p, GlobalCtrlAddr)
    BY <1>4 DEF Disable
  <2>2. 0 \in 0 .. MaxCount
    BY SessionAssumption
  <2> QED
    BY <1>4, <2>1, <2>2, WriteTypes, TouchTypes DEF Disable, TypeOK, Steps
<1>5. ASSUME NEW p \in Procs, Select(p) PROVE TypeOK'
  <2>1. PICK v \in {"INTEL", "AMD"} :
          /\ GetCpuVendor(p, v)
          /\ Write(p, EventSelAddr(v, id[p]), event[p], MaxCount, {})
          /\ Touch(p, EventSelAddr(v, id[p]))
    BY <1>5 DEF Select
  <2>2. MaxCount \in 0 .. MaxCount /\ event[p] \in Events \cup {"off"}
    BY SessionAssumption DEF TypeOK
  <2>3. off' \in [Procs -> {<<"0000", 0>>, GlobalCtrlAddr}]
    BY <1>5 DEF Select, Seek, TypeOK
  <2> QED
    BY <1>5, <2>1, <2>2, <2>3, WriteTypes, TouchTypes, VendorTypes DEF Select, TypeOK, Steps
<1>6. ASSUME NEW p \in Procs, Clear(p) PROVE TypeOK'
  <2>1. PICK v \in {"INTEL", "AMD"} :
          /\ GetCpuVendor(p, v)
          /\ Write(p, CounterAddr(v, id[p]), "off", 0, {})
          /\ Touch(p, CounterAddr(v, id[p]))
    BY <1>6 DEF Clear
  <2>2. 0 \in 0 .. MaxCount
    BY SessionAssumption
  <2> QED
    BY <1>6, <2>1, <2>2, WriteTypes, TouchTypes, VendorTypes DEF Clear, TypeOK, Steps
<1>7. ASSUME NEW p \in Procs, RecordStart(p) PROVE TypeOK'
  <2>1. Write(p, off[p], "off", 0, RecordMask) /\ Touch(p, off[p])
    BY <1>7 DEF RecordStart, RawWrite
  <2>2. 0 \in 0 .. MaxCount
    BY SessionAssumption
  <2> QED
    BY <1>7, <2>1, <2>2, WriteTypes, TouchTypes DEF RecordStart, RawWrite, TypeOK, Steps
<1>8. ASSUME NEW p \in Procs, GetMsrPmc1(p) PROVE TypeOK'
  <2>1. ReadPmc(p, 1)
    BY <1>8 DEF GetMsrPmc1
  <2>2. /\ msr' \in [Procs -> Readings \X Readings]
        /\ vendor' \in [Procs -> {"UNCHECK", "INTEL", "AMD"}]
    BY <2>1, ReadTypes DEF Local
  <2> QED
    BY <1>8, <2>2 DEF GetMsrPmc1, ReadPmc, TypeOK, Steps
<1>9. ASSUME NEW p \in Procs, GetMsrPmc2(p) PROVE TypeOK'
  <2>1. ReadPmc(p, 2)
    BY <1>9 DEF GetMsrPmc2
  <2>2. /\ msr' \in [Procs -> Readings \X Readings]
        /\ vendor' \in [Procs -> {"UNCHECK", "INTEL", "AMD"}]
    BY <2>1, ReadTypes DEF Local
  <2> QED
    BY <1>9, <2>2 DEF GetMsrPmc2, ReadPmc, TypeOK, Steps
<1>10. ASSUME NEW p \in Procs, GetRdpmc1(p) \/ GetRdpmc2(p) PROVE TypeOK'
  <2>1. pmc[cpu[p]][id[p]] \in 0 .. MaxCount
    BY <1>10 DEF GetRdpmc1, GetRdpmc2, Rdpmc, TypeOK
  <2>2. rdpmc' \in [Procs -> 0 .. MaxCount]
    BY <1>10, <2>1 DEF GetRdpmc1, GetRdpmc2, Rdpmc, TypeOK
  <2> QED
    BY <1>10, <2>2 DEF GetRdpmc1, GetRdpmc2, Rdpmc, TypeOK, Steps
<1>11. ASSUME NEW p \in Procs, RecordStop(p) PROVE TypeOK'
  <2>1. Write(p, off[p], "off", 0, {}) /\ Touch(p, off[p])
    BY <1>11 DEF RecordStop, RawWrite
  <2>2. 0 \in 0 .. MaxCount /\ AnId \in Ids
    BY SessionAssumption DEF AnId
  <2>3. msr' \in [Procs -> Readings \X Readings]
    BY <1>11, SessionAssumption DEF RecordStop, Forget, TypeOK, Readings
  <2> QED
    BY <1>11, <2>1, <2>2, <2>3, WriteTypes, TouchTypes
    DEF RecordStop, RawWrite, Forget, TypeOK, Steps
<1>12. ASSUME NEW p \in Procs, ProcEnds(p) PROVE TypeOK'
  <2>1. 0 \in 0 .. MaxCount /\ AnId \in Ids /\ 0 \in 0 .. MaxFds /\ 0 \in 0 .. CoreMod - 1
    BY SessionAssumption DEF AnId
  <2>2. msr' \in [Procs -> Readings \X Readings]
    BY <1>12, SessionAssumption DEF ProcEnds, Forget, TypeOK, Readings
  <2> QED
    BY <1>12, <2>1, <2>2 DEF ProcEnds, Forget, TypeOK, Steps
<1>13. ASSUME NEW p \in Procs, NEW c \in Cores, Migrate(p, c) PROVE TypeOK'
  BY <1>13 DEF Migrate, TypeOK
<1>14. ASSUME NEW c \in Cores, NEW e \in Events, Happens(c, e) PROVE TypeOK'
  <2>1. pmc' \in [Cores -> [Counters -> 0 .. MaxCount]]
    BY <1>14, SessionAssumption DEF Happens, TypeOK
  <2>2. seen' \in [Procs -> 0 .. MaxCount]
    BY <1>14, SessionAssumption DEF Happens, TypeOK
  <2> QED
    BY <1>14, <2>1, <2>2 DEF Happens, TypeOK
<1>15. CASE UNCHANGED vars
  BY <1>15 DEF vars, TypeOK
<1> QED
  BY <1>1, <1>2, <1>3, <1>4, <1>5, <1>6, <1>7, <1>8, <1>9, <1>10, <1>11, <1>12, <1>13,
     <1>14, <1>15 DEF Next, Call

-----------------------------------------------------------------------------
(* What a step of another process does to p *)

\* Nothing of p's own changes.
Unmoved(p) ==
  /\ pc'[p] = pc[p] /\ core'[p] = core[p] /\ id'[p] = id[p] /\ event'[p] = event[p]
  /\ cpu'[p] = cpu[p] /\ fd'[p] = fd[p] /\ off'[p] = off[p] /\ vendor'[p] = vendor[p]
  /\ msr'[p] = msr[p] /\ rdpmc'[p] = rdpmc[p] /\ seen'[p] = seen[p]

\* Nor do the registers of its core, ...
Spared(p) ==
  /\ touched'[p] = touched[p] /\ ctrl'[core[p]] = ctrl[core[p]]
  /\ sel'[core[p]] = sel[core[p]] /\ pmc'[core[p]] = pmc[core[p]]

\* ... or q has written one of them, and p's history says so: what becomes of
\* p's counter depends on the number of q's.
Disturbed(q, p) ==
  /\ touched'[p] = touched[p] \cup {id[q]}
  /\ id[p] \in Counters =>
       /\ id[q] \notin Neighbours(p) =>
            /\ pmc'[core[p]][id[p]] = Pmc(p)
            /\ \/ sel'[core[p]][id[p]] = Sel(p)
               \/ Vendor = "INTEL" /\ sel'[core[p]][id[p]] = "off"
       /\ id[q] # id[p] => pmc'[core[p]][id[p]] \in {Pmc(p), MaxCount}

Foreign(q, p) ==
  /\ Unmoved(p)
  /\ fd[p] = "ok" => pc[p] \in Early \/ Spared(p) \/ Disturbed(q, p)

\* The registers that the writes of the library reach.
Shape(q, r, code, number) ==
  \/ r = NoReg \/ r = Reg("ctrl", 0)
  \/ r = Reg("sel", id[q])
  \/ Vendor = "INTEL" /\ code = "off" /\ r = Reg("sel", id[q] - 197)
  \/ r = Reg("pmc", id[q])
  \/ Vendor = "AMD" /\ number = MaxCount /\ r = Reg("pmc", id[q] - 4)

LEMMA WriteDisturbs ==
  ASSUME TypeOK, NEW p \in Procs, NEW q \in Procs, p # q, fd[p] = "ok", core[p] \in Cores,
         pc[p] \notin Early, NEW a, NEW code, NEW number, NEW mask,
         Write(q, a, code, number, mask), Touch(q, a),
         Shape(q, Reaches(q, a), code, number)
  PROVE  Spared(p) \/ Disturbed(q, p)
<1> DEFINE r == Reaches(q, a)
<1>1. CASE r = NoReg \/ core[q] # core[p]
  <2>1. touched'[p] = touched[p]
    BY <1>1 DEF Touch, TypeOK
  <2>2. /\ sel'[core[p]] = sel[core[p]] /\ pmc'[core[p]] = pmc[core[p]]
        /\ ctrl'[core[p]] = ctrl[core[p]]
    BY <1>1 DEF Write, TypeOK, NoReg, Reg
  <2> QED
    BY <2>1, <2>2 DEF Spared
<1>2. CASE r # NoReg /\ core[q] = core[p]
  <2>1. touched'[p] = touched[p] \cup {id[q]}
    BY <1>2 DEF Touch, Early, TypeOK
  <2> SUFFICES ASSUME id[p] \in Counters
               PROVE  /\ id[q] \notin Neighbours(p) =>
                           /\ pmc'[core[p]][id[p]] = Pmc(p)
                           /\ \/ sel'[core[p]][id[p]] = Sel(p)
                              \/ Vendor = "INTEL" /\ sel'[core[p]][id[p]] = "off"
                      /\ id[q] # id[p] => pmc'[core[p]][id[p]] \in {Pmc(p), MaxCount}
    BY <2>1 DEF Disturbed
  <2>2. id[q] \in Ids /\ (id[q] \notin Neighbours(p) => id[q] # id[p])
    BY DEF TypeOK, Neighbours
  <2>3. CASE r = Reg("ctrl", 0)
    BY <2>3 DEF Write, Reg, Sel, Pmc
  <2>4. CASE r = Reg("sel", id[q])
    <3>1. pmc' = pmc /\ (id[q] # id[p] => sel'[core[p]][id[p]] = Sel(p))
      BY <2>4 DEF Write, Reg, Sel, TypeOK
    <3> QED
      BY <2>2, <3>1 DEF Pmc
  <2>5. CASE Vendor = "INTEL" /\ code = "off" /\ r = Reg("sel", id[q] - 197)
    <3>1. pmc' = pmc /\ sel'[core[p]][id[p]] \in {Sel(p), "off"}
      BY <1>2, <2>5 DEF Write, Reg, Sel, TypeOK
    <3> QED
      BY <2>5, <3>1 DEF Pmc
  <2>6. CASE r = Reg("pmc", id[q])
    <3>1. sel' = sel /\ (id[q] # id[p] => pmc'[core[p]][id[p]] = Pmc(p))
      BY <2>6 DEF Write, Reg, Pmc, TypeOK
    <3> QED
      BY <2>2, <3>1 DEF Sel
  <2>7. CASE Vendor = "AMD" /\ number = MaxCount /\ r = Reg("pmc", id[q] - 4)
    <3>1. id[q] \in Nat /\ id[p] \in Nat
      BY IdsAre
    <3>2. id[q] - 4 = id[p] => id[q] \in Neighbours(p)
      BY <2>2, <2>7, <3>1 DEF Neighbours, EventSelAddr, CounterAddr
    <3>3. /\ sel' = sel /\ pmc'[core[p]][id[p]] \in {Pmc(p), MaxCount}
          /\ id[q] - 4 # id[p] => pmc'[core[p]][id[p]] = Pmc(p)
      BY <1>2, <2>7 DEF Write, Reg, Pmc, TypeOK
    <3> QED
      BY <3>2, <3>3 DEF Sel
  <2> QED
    BY <1>2, <2>3, <2>4, <2>5, <2>6, <2>7 DEF Shape
<1> QED
  BY <1>1, <1>2

\* Every step of q's is foreign to p.
LEMMA OthersAreForeign ==
  ASSUME TypeOK, NEW p \in Procs, NEW q \in Procs, p # q, Local(p), Local(q),
         Call(q) \/ ProcEnds(q) \/ \E c \in Cores : Migrate(q, c)
  PROVE  Foreign(q, p)
<1> USE DEF Goto, hwVars, argVars, fileVars, readVars
<1>1. fd[p] = "ok" => core[p] \in Cores
  BY DEF Local
<1>2. id[q] \in 0 .. 254
  BY IdsAre
<1>3. ASSUME UNCHANGED <<hwVars, touched>>, Unmoved(p) PROVE Foreign(q, p)
  BY <1>3 DEF Foreign, Spared
<1>4. ASSUME NEW r \in Requests, PmuOpenMsr(q, r) PROVE Foreign(q, p)
  <2>1. Unmoved(p)
    BY <1>4 DEF PmuOpenMsr, OpenMsr, Unmoved, TypeOK
  <2> QED
    BY <1>3, <1>4, <2>1 DEF PmuOpenMsr
<1>5. ASSUME NEW r \in Requests, NEW i \in Ids, NEW e \in Events, PmuSetEvent(q, r, i, e)
      PROVE  Foreign(q, p)
  <2>1. Unmoved(p)
    BY <1>5 DEF PmuSetEvent, Choose, OpenMsr, Unmoved, TypeOK
  <2> QED
    BY <1>3, <1>5, <2>1 DEF PmuSetEvent, Choose
<1>6. ASSUME NEW i \in Ids, NEW e \in Events, PmuSetMsrEvent(q, i, e) PROVE Foreign(q, p)
  <2>1. Unmoved(p)
    BY <1>6 DEF PmuSetMsrEvent, Choose, Unmoved, TypeOK
  <2> QED
    BY <1>3, <1>6, <2>1 DEF PmuSetMsrEvent, Choose
<1>7. ASSUME NEW a, NEW code, NEW number, NEW mask, Unmoved(p),
             Write(q, a, code, number, mask), Touch(q, a),
             Shape(q, Reaches(q, a), code, number)
      PROVE  Foreign(q, p)
  BY <1>1, <1>7, WriteDisturbs DEF Foreign
<1>8. CASE Disable(q)
  <2>1. Unmoved(p)
    BY <1>8 DEF Disable, Unmoved, TypeOK
  <2>2. Write(q, GlobalCtrlAddr, "off", 0, {}) /\ Touch(q, GlobalCtrlAddr)
    BY <1>8 DEF Disable
  <2>3. Shape(q, Reaches(q, GlobalCtrlAddr), "off", 0)
    BY ControlAddress, MachineAssumption DEF Shape, Reaches
  <2> QED
    BY <1>7, <2>1, <2>2, <2>3
<1>9. CASE Select(q)
  <2>1. Unmoved(p)
    BY <1>9 DEF Select, Seek, GetCpuVendor, Unmoved, TypeOK
  <2>2. PICK v \in {"INTEL", "AMD"} :
          /\ GetCpuVendor(q, v)
          /\ Write(q, EventSelAddr(v, id[q]), event[q], MaxCount, {})
          /\ Touch(q, EventSelAddr(v, id[q]))
    BY <1>9 DEF Select
  <2>3. v \in Detectable
    BY <2>2 DEF GetCpuVendor, Local
  <2>4. Shape(q, RegisterAt(EventSelAddr(v, id[q])), event[q], MaxCount)
    BY <1>2, <2>3, SelectAddress, MachineAssumption DEF Shape, Detectable
  <2>5. Shape(q, Reaches(q, EventSelAddr(v, id[q])), event[q], MaxCount)
    BY <2>4 DEF Shape, Reaches
  <2> QED
    BY <1>7, <2>1, <2>2, <2>5
<1>10. CASE Clear(q)
  <2>1. Unmoved(p)
    BY <1>10 DEF Clear, GetCpuVendor, Unmoved, TypeOK
  <2>2. PICK v \in {"INTEL", "AMD"} :
          /\ GetCpuVendor(q, v)
          /\ Write(q, CounterAddr(v, id[q]), "off", 0, {})
          /\ Touch(q, CounterAddr(v, id[q]))
    BY <1>10 DEF Clear
  <2>3. v \in Detectable
    BY <2>2 DEF GetCpuVendor, Local
  <2>4. Shape(q, RegisterAt(CounterAddr(v, id[q])), "off", 0)
    BY <1>2, <2>3, ValueAddress, MachineAssumption DEF Shape, Detectable
  <2>5. Shape(q, Reaches(q, CounterAddr(v, id[q])), "off", 0)
    BY <2>4 DEF Shape, Reaches
  <2> QED
    BY <1>7, <2>1, <2>2, <2>5
<1>11. Shape(q, Reaches(q, off[q]), "off", 0)
  BY ControlAddress, MachineAssumption DEF Shape, Reaches, TypeOK
<1>12. CASE RecordStart(q)
  <2>1. Unmoved(p)
    BY <1>12 DEF RecordStart, RawWrite, Unmoved, TypeOK
  <2>2. Write(q, off[q], "off", 0, RecordMask) /\ Touch(q, off[q])
    BY <1>12 DEF RecordStart, RawWrite
  <2> QED
    BY <1>7, <1>11, <2>1, <2>2
<1>13. CASE RecordStop(q)
  <2>1. Unmoved(p)
    BY <1>13 DEF RecordStop, RawWrite, Forget, Unmoved, TypeOK
  <2>2. Write(q, off[q], "off", 0, {}) /\ Touch(q, off[q])
    BY <1>13 DEF RecordStop, RawWrite
  <2> QED
    BY <1>7, <1>11, <2>1, <2>2
<1>14. CASE GetMsrPmc1(q) \/ GetMsrPmc2(q)
  <2>1. Unmoved(p)
    BY <1>14 DEF GetMsrPmc1, GetMsrPmc2, ReadPmc, GetCpuVendor, Unmoved, TypeOK
  <2> QED
    BY <1>3, <1>14, <2>1 DEF GetMsrPmc1, GetMsrPmc2, ReadPmc
<1>15. CASE GetRdpmc1(q) \/ GetRdpmc2(q)
  <2>1. Unmoved(p)
    BY <1>15 DEF GetRdpmc1, GetRdpmc2, Rdpmc, Unmoved, TypeOK
  <2> QED
    BY <1>3, <1>15, <2>1 DEF GetRdpmc1, GetRdpmc2, Rdpmc
<1>16. CASE ProcEnds(q)
  <2>1. Unmoved(p) /\ touched'[p] = touched[p]
    BY <1>16 DEF ProcEnds, Forget, Unmoved, TypeOK
  <2> QED
    BY <1>16, <2>1 DEF ProcEnds, Foreign, Spared
<1>17. ASSUME NEW c \in Cores, Migrate(q, c) PROVE Foreign(q, p)
  <2>1. Unmoved(p)
    BY <1>17 DEF Migrate, Unmoved, TypeOK
  <2> QED
    BY <1>3, <1>17, <2>1 DEF Migrate
<1> QED
  BY <1>4, <1>5, <1>6, <1>8, <1>9, <1>10, <1>12, <1>13, <1>14, <1>15, <1>16, <1>17 DEF Call

-----------------------------------------------------------------------------
(* What holds of p survives the steps of others, and of the machine *)

LEMMA OthersKeep ==
  ASSUME TypeOK, NEW p \in Procs, NEW q \in Procs, Session(p), Foreign(q, p)
  PROVE  Session(p)'
<1> USE DEF Session
<1>1. Unmoved(p)
  BY DEF Foreign
<1>2. Local(p)'
  BY <1>1 DEF Unmoved, Local
<1>3. /\ Dev(p)' = Dev(p) /\ Neighbours(p)' = Neighbours(p)
      /\ Measured(p)' = Measured(p) /\ Expected(p)' = Expected(p)
  BY <1>1 DEF Unmoved, Dev, Served, Neighbours, Measured, Expected
<1>4. CASE fd[p] # "ok" \/ pc[p] \in Early
  <2>1. fd[p] # "ok" => ~Dev(p)
    BY DEF Dev, Served
  <2>2. pc[p] \in Early => pc[p] \notin Selecting \cup Recording \cup Window \cup Read1 \cup Read2 \cup {"select"}
    BY DEF Early, Selecting, Recording, Window, Read1, Read2
  <2> QED
    BY <1>1, <1>2, <1>3, <1>4, <2>1, <2>2
    DEF Unmoved, Controlled, Selected, Counted, Concluded, Rising, Read1, Window, Recording, Selecting
<1>5. CASE fd[p] = "ok" /\ Spared(p)
  <2>1. /\ Quiet(p)' = Quiet(p) /\ Calm(p)' = Calm(p)
        /\ Sel(p)' = Sel(p) /\ Pmc(p)' = Pmc(p)
    BY <1>1, <1>3, <1>5 DEF Spared, Unmoved, Quiet, Calm, Sel, Pmc
  <2>2. Controlled(p)'
    BY <1>1, <1>5 DEF Spared, Unmoved, Controlled
  <2>3. Selected(p)'
    BY <1>1, <1>3, <2>1 DEF Unmoved, Selected
  <2>4. Counted(p)'
    BY <1>1, <1>3, <2>1 DEF Unmoved, Counted
  <2>5. Concluded(p)'
    BY <1>1, <1>3, <2>1 DEF Unmoved, Concluded
  <2>6. Rising(p)'
    BY <1>1, <1>3, <1>5, <2>1 DEF Unmoved, Spared, Rising
  <2> QED
    BY <1>2, <2>2, <2>3, <2>4, <2>5, <2>6
<1>6. CASE fd[p] = "ok" /\ Disturbed(q, p)
  <2>1. touched'[p] = touched[p] \cup {id[q]}
    BY <1>6 DEF Disturbed
  <2>2. Quiet(p)' => Quiet(p) /\ id[q] \notin Neighbours(p)
    BY <1>3, <2>1 DEF Quiet
  <2>3. Calm(p)' => Vendor = "AMD" /\ Calm(p) /\ Quiet(p)'
    BY <2>1, <2>2 DEF Calm
  <2>4. Dev(p) => id[p] \in Counters
    BY DEF Dev
  <2>5. Quiet(p)' /\ Dev(p) => Pmc(p)' = Pmc(p) /\ Sel(p)' \in {Sel(p), "off"}
    BY <1>1, <1>6, <2>2, <2>4 DEF Disturbed, Unmoved, Sel, Pmc
  <2>6. Calm(p)' /\ Dev(p) => Sel(p)' = Sel(p)
    BY <1>1, <1>6, <2>2, <2>3, <2>4, MachineAssumption DEF Disturbed, Unmoved, Sel
  <2>7. Controlled(p)'
    BY <2>1 DEF Controlled
  <2>8. Selected(p)'
    BY <1>1, <1>3, <2>2, <2>3, <2>5, <2>6 DEF Unmoved, Selected
  <2>9. Counted(p)'
    BY <1>1, <1>3, <2>2, <2>3, <2>5 DEF Unmoved, Counted
  <2>10. Concluded(p)'
    BY <1>1, <1>3, <2>2, <2>3 DEF Unmoved, Concluded
  <2>11. Rising(p)'
    <3> SUFFICES ASSUME Dev(p), id[p] \notin touched'[p] PROVE Rising(p)'
      BY <1>1, <1>3 DEF Unmoved, Rising
    <3>1. id[q] # id[p] /\ id[p] \notin touched[p]
      BY <2>1
    <3>2. Pmc(p)' \in {Pmc(p), MaxCount}
      BY <1>1, <1>6, <2>4, <3>1 DEF Disturbed, Unmoved, Pmc
    <3>3. core[p] \in Cores /\ id[p] \in Counters
      BY <1>6, <2>4 DEF Local
    <3>4. Pmc(p) \in 0 .. MaxCount /\ rdpmc[p] \in 0 .. MaxCount
      BY <3>3 DEF TypeOK, Pmc
    <3>5. msr[p][1] \in -1 .. MaxCount /\ msr[p][2] \in -1 .. MaxCount
      BY DEF TypeOK, Readings
    <3> QED
      BY <1>1, <3>1, <3>2, <3>4, <3>5, SessionAssumption DEF Unmoved, Rising
  <2> QED
    BY <1>2, <2>7, <2>8, <2>9, <2>10, <2>11
<1> QED
  BY <1>4, <1>5, <1>6 DEF Foreign

\* An event on p's core: p's counter and p's history advance together, or
\* only the history does.
LEMMA HappensKeeps ==
  ASSUME TypeOK, Banks, NEW p \in Procs, Session(p), NEW c \in Cores, NEW e \in Events,
         Happens(c, e)
  PROVE  Session(p)'
<1> USE DEF Session
<1> DEFINE sees == pc[p] \in Window /\ core[p] = c /\ event[p] = e
           hit == core[p] = c /\ Running(c, id[p]) /\ Sel(p) = e
<1>1. /\ pc' = pc /\ core' = core /\ id' = id /\ event' = event /\ cpu' = cpu /\ fd' = fd
      /\ off' = off /\ vendor' = vendor /\ msr' = msr /\ rdpmc' = rdpmc
      /\ touched' = touched /\ ctrl' = ctrl /\ sel' = sel
  BY DEF Happens, argVars, fileVars
<1>2. seen'[p] = IF sees THEN seen[p] + 1 ELSE seen[p]
  BY DEF Happens
<1>3. Local(p)'
  BY <1>1, <1>2 DEF Local, Window, Read1
<1>4. Dev(p)' = Dev(p) /\ Quiet(p)' = Quiet(p) /\ Calm(p)' = Calm(p) /\ Sel(p)' = Sel(p)
  BY <1>1 DEF Dev, Served, Quiet, Neighbours, Calm, Sel
<1>5. Controlled(p)' /\ Selected(p)'
  BY <1>1, <1>4 DEF Controlled, Selected
<1>6. Dev(p) => core[p] \in Cores /\ id[p] \in Counters
  BY DEF Dev, Served, Local
<1>7. Dev(p) => Pmc(p)' = IF hit THEN Pmc(p) + 1 ELSE Pmc(p)
  BY <1>1, <1>6 DEF Happens, Pmc, Sel, TypeOK
<1>8. Dev(p) => Pmc(p) \in 0 .. MaxCount
  BY <1>6 DEF TypeOK, Pmc
<1>9. /\ msr[p][1] \in -1 .. MaxCount /\ msr[p][2] \in -1 .. MaxCount
      /\ rdpmc[p] \in 0 .. MaxCount /\ seen[p] \in 0 .. MaxCount
  BY DEF TypeOK, Readings
<1>10. pc[p] \in Window => pc[p] \in Selecting /\ pc[p] \in Recording /\ pc[p] \notin {"start", "open", "done"}
  BY DEF Window, Selecting, Recording
<1>11. Counted(p)'
  <2> SUFFICES ASSUME Dev(p), pc[p] \in Window PROVE Counted(p)'
    BY <1>1, <1>4 DEF Counted
  <2>1. event[p] \in Events /\ event[p] # "off" /\ e # "off"
    BY <1>10, SessionAssumption DEF Local
  <2>2. ASSUME Quiet(p) PROVE Pmc(p)' - msr'[p][1] <= seen'[p]
    <3>1. Sel(p) \in {event[p], "off"}
      BY <1>10, <2>2 DEF Selected
    <3>2. hit => sees
      BY <2>1, <3>1
    <3>3. Pmc(p) - msr[p][1] <= seen[p]
      BY <2>2 DEF Counted
    <3> HIDE DEF hit, sees
    <3> QED
      BY <1>1, <1>2, <1>7, <1>8, <1>9, <3>2, <3>3
  <2>3. ASSUME Calm(p), Recorded(id[p]) PROVE Pmc(p)' - msr'[p][1] = seen'[p]
    <3>1. Sel(p) = event[p]
      BY <1>10, <2>3 DEF Selected, Recorded
    <3>2. Vendor = "INTEL" => id[p] \in ctrl[core[p]]
      <4>1. ASSUME Vendor = "INTEL" PROVE touched[p] = {} /\ fd[p] = "ok"
        BY <2>3, <4>1 DEF Calm, Dev, Served
      <4>2. ASSUME Vendor = "INTEL"
            PROVE  id[p] \in RecordMask /\ RecordMask \subseteq Counters
        <5>1. id[p] < 4 /\ NumCounters >= 4
          BY <2>3, <4>2 DEF Recorded
        <5>2. id[p] \in RecordMask
          <6>1. id[p] \in 0 .. 254
            BY <1>6, IdsAre
          <6> QED
            BY <5>1, <6>1 DEF RecordMask
        <5>3. RecordMask \subseteq Counters
          BY <5>1, MachineAssumption DEF RecordMask, Counters
        <5> QED
          BY <5>2, <5>3
      <4> QED
        BY <1>6, <1>10, <4>1, <4>2 DEF Controlled
    <3>3. hit <=> sees
      BY <2>1, <3>1, <3>2 DEF Running, Sel
    <3>4. Pmc(p) - msr[p][1] = seen[p]
      BY <2>3 DEF Counted, Expected
    <3> HIDE DEF hit, sees
    <3> QED
      BY <1>1, <1>2, <1>7, <1>8, <1>9, <3>3, <3>4
  <2>4. ASSUME Calm(p), ~Recorded(id[p]) PROVE Pmc(p)' - msr'[p][1] = 0
    <3>1. Vendor = "INTEL" => id[p] \notin ctrl[core[p]]
      <4>1. ASSUME Vendor = "INTEL" PROVE touched[p] = {} /\ fd[p] = "ok"
        BY <2>4, <4>1 DEF Calm, Dev, Served
      <4>2. Vendor = "INTEL" /\ id[p] \in RecordMask => ~(RecordMask \subseteq Counters)
        <5> SUFFICES ASSUME Vendor = "INTEL", id[p] \in RecordMask PROVE 3 \notin Counters
          BY DEF RecordMask
        <5>1. ~(NumCounters >= 4)
          BY <2>4, IdsAre DEF RecordMask, Recorded
        <5> QED
          BY <5>1, MachineAssumption DEF Counters
      <4> QED
        BY <1>10, <4>1, <4>2 DEF Controlled
    <3>2. Vendor = "AMD" => Sel(p) = "off"
      BY <1>6, <2>4, IdsAre, MachineAssumption DEF Banks, Sel, Recorded
    <3>3. ~hit
      BY <2>1, <3>1, <3>2, MachineAssumption DEF Running
    <3>4. Pmc(p) - msr[p][1] = 0
      BY <2>4 DEF Counted, Expected
    <3> QED
      BY <1>1, <1>7, <3>3, <3>4
  <2> QED
    BY <1>1, <1>4, <2>2, <2>3, <2>4 DEF Counted, Expected
<1>12. Concluded(p)'
  <2>1. pc[p] \in Read2 => seen'[p] = seen[p]
    BY <1>2 DEF Read2, Window
  <2> QED
    BY <1>1, <1>4, <2>1 DEF Concluded, Measured, Expected
<1>13. Rising(p)'
  <2>1. Dev(p) => Pmc(p) <= Pmc(p)' /\ Pmc(p)' \in Int
    BY <1>7, <1>8
  <2> QED
    BY <1>1, <1>4, <1>8, <1>9, <2>1 DEF Rising
<1> QED
  BY <1>3, <1>5, <1>11, <1>12, <1>13

-----------------------------------------------------------------------------
(* What p's own steps establish *)

\* While p has not read, or does not count yet, there is little to show.
LEMMA Preparing ==
  ASSUME NEW p \in Procs, Local(p)',
         pc'[p] \in {"start", "open", "disable", "done"}
  PROVE  Session(p)'
BY DEF Session, Controlled, Selected, Counted, Concluded, Rising,
       Selecting, Recording, Window, Read1, Read2

LEMMA OpenKeeps ==
  ASSUME TypeOK, NEW p \in Procs, NEW r \in Requests, Local(p), pc[p] \notin Read1,
         p \in Pinned => r % CoreMod = cpu[p], OpenMsr(p, r), UNCHANGED <<vendor, seen, cpu>>,
         \/ pc'[p] = "open"
         \/ pc'[p] = "disable" /\ event'[p] \in Events
  PROVE  Session(p)'
<1>1. fd'[p] = "ok" => core'[p] \in Cores /\ core'[p] = r % CoreMod
  <2>1. core'[p] = r % CoreMod
    BY DEF OpenMsr, TypeOK
  <2> QED
    BY <2>1, OpenTypes
<1>2. Local(p)'
  BY <1>1 DEF Local, Selecting, Read1
<1> QED
  BY <1>2, Preparing

LEMMA CallsKeep ==
  ASSUME TypeOK, NEW p \in Procs, Session(p),
         \/ \E r \in Requests, i \in Ids, e \in Events :
              PmuOpenMsr(p, r) \/ PmuSetEvent(p, r, i, e)
         \/ \E i \in Ids, e \in Events : PmuSetMsrEvent(p, i, e)
         \/ RecordStop(p) \/ ProcEnds(p) \/ \E c \in Cores : Migrate(p, c)
  PROVE  Session(p)'
<1> USE DEF Goto, hwVars, argVars, fileVars, readVars
<1>1. Local(p)
  BY DEF Session
<1>2. ASSUME NEW r \in Requests, PmuOpenMsr(p, r) PROVE Session(p)'
  <2>1. pc[p] \notin Read1 /\ pc'[p] = "open"
    BY <1>2 DEF PmuOpenMsr, TypeOK, Read1
  <2> QED
    BY <1>1, <1>2, <2>1, OpenKeeps DEF PmuOpenMsr
<1>3. ASSUME NEW r \in Requests, NEW i \in Ids, NEW e \in Events, PmuSetEvent(p, r, i, e)
      PROVE  Session(p)'
  <2>1. pc[p] \notin Read1 /\ pc'[p] = "disable" /\ event'[p] \in Events
    BY <1>3 DEF PmuSetEvent, Choose, TypeOK, Read1
  <2> QED
    BY <1>1, <1>3, <2>1, OpenKeeps DEF PmuSetEvent, Choose
<1>4. ASSUME NEW i \in Ids, NEW e \in Events, PmuSetMsrEvent(p, i, e) PROVE Session(p)'
  <2>1. pc[p] \notin Read1 /\ pc'[p] = "disable" /\ event'[p] \in Events
    BY <1>4 DEF PmuSetMsrEvent, Choose, TypeOK, Read1
  <2>2. Local(p)'
    BY <1>1, <1>4, <2>1 DEF PmuSetMsrEvent, Choose, Local, Selecting, Read1
  <2> QED
    BY <2>1, <2>2, Preparing
<1>5. CASE RecordStop(p)
  <2>1. pc'[p] = "done" /\ seen'[p] = 0
    BY <1>5 DEF RecordStop, RawWrite, Forget, TypeOK
  <2>2. Local(p)'
    BY <1>1, <1>5, <2>1 DEF RecordStop, RawWrite, Local, Selecting, Read1
  <2> QED
    BY <2>1, <2>2, Preparing
<1>6. CASE ProcEnds(p)
  <2>1. pc'[p] = "start" /\ seen'[p] = 0 /\ fd'[p] = "bad" /\ vendor'[p] = "UNCHECK"
    BY <1>6 DEF ProcEnds, Forget, TypeOK
  <2>2. Local(p)'
    BY <2>1 DEF Local, Selecting, Read1
  <2> QED
    BY <2>1, <2>2, Preparing
<1>7. ASSUME NEW c \in Cores, Migrate(p, c) PROVE Session(p)'
  <2>1. /\ UNCHANGED <<sel, pmc, ctrl, pc, core, id, event, fd, off, vendor, msr, rdpmc, seen, touched>>
        /\ p \notin Pinned
    BY <1>7 DEF Migrate
  <2>2. Local(p)'
    BY <1>1, <2>1 DEF Local
  <2>3. /\ Dev(p)' = Dev(p) /\ Quiet(p)' = Quiet(p) /\ Calm(p)' = Calm(p)
        /\ Sel(p)' = Sel(p) /\ Pmc(p)' = Pmc(p)
        /\ Measured(p)' = Measured(p) /\ Expected(p)' = Expected(p)
    BY <2>1 DEF Dev, Served, Quiet, Neighbours, Calm, Sel, Pmc, Measured, Expected
  <2> QED
    BY <2>1, <2>2, <2>3 DEF Session, Controlled, Selected, Counted, Concluded, Rising
<1> QED
  BY <1>2, <1>3, <1>4, <1>5, <1>6, <1>7

\* The counters of the core are disabled, on Intel.
LEMMA DisableKeeps ==
  ASSUME TypeOK, NEW p \in Procs, Session(p), Disable(p)
  PROVE  Session(p)'
<1>1. /\ pc[p] = "disable" /\ pc'[p] = "select"
      /\ UNCHANGED <<core, id, event, cpu, fd, off, vendor, seen>>
  BY DEF Disable, Goto, argVars, fileVars, readVars, TypeOK
<1>2. Local(p)'
  BY <1>1 DEF Session, Local, Selecting, Read1
<1>3. Controlled(p)'
  <2> SUFFICES ASSUME Vendor = "INTEL", fd[p] = "ok" PROVE ctrl'[core[p]] = {}
    BY <1>1 DEF Controlled, Recording
  <2>1. Reaches(p, GlobalCtrlAddr) = Reg("ctrl", 0)
    BY ControlAddress DEF Reaches
  <2>2. core[p] \in Cores
    BY DEF Session, Local
  <2> QED
    BY <2>1, <2>2 DEF Disable, Write, Reg, TypeOK
<1> QED
  BY <1>1, <1>2, <1>3
  DEF Session, Selected, Counted, Concluded, Rising, Selecting, Window, Read1, Read2

\* The event is selected, except where there is no event select.
LEMMA SelectKeeps ==
  ASSUME TypeOK, Banks, NEW p \in Procs, Session(p), Select(p)
  PROVE  Session(p)'
<1>1. PICK v \in {"INTEL", "AMD"} :
        /\ GetCpuVendor(p, v)
        /\ Write(p, EventSelAddr(v, id[p]), event[p], MaxCount, {})
        /\ Touch(p, EventSelAddr(v, id[p]))
  BY DEF Select
<1>2. /\ pc[p] = "select" /\ pc'[p] = "clear"
      /\ UNCHANGED <<core, id, event, cpu, fd, seen>>
  BY DEF Select, Goto, argVars, readVars, TypeOK
<1>3. Local(p)
  BY DEF Session
<1>4. v \in Detectable /\ vendor'[p] = v
  BY <1>1, <1>3 DEF GetCpuVendor, Local, TypeOK
<1>5. fd[p] = "ok" => off'[p] = GlobalCtrlAddr
  BY DEF Select, Seek, TypeOK
<1>6. Local(p)'
  BY <1>2, <1>3, <1>4, <1>5 DEF Local, Selecting, Read1
<1>7. Selected(p)'
  <2> SUFFICES ASSUME Dev(p)'
               PROVE  Sel(p)' \in {event[p], "off"} /\ (id[p] < 4 => Sel(p)' = event[p])
    BY <1>2 DEF Selected
  <2>1. /\ fd[p] = "ok" /\ v = Vendor /\ id[p] \in Counters /\ core[p] \in Cores
        /\ Sel(p)' = sel'[core[p]][id[p]]
    BY <1>2, <1>3, <1>4 DEF Dev, Served, Local, Sel
  <2>2. CASE Vendor = "INTEL" \/ id[p] < 4
    <3>1. Reaches(p, EventSelAddr(v, id[p])) = Reg("sel", id[p])
      BY <2>1, <2>2, IdsAre, SelectAddress, MachineAssumption DEF Reaches
    <3>2. sel' = [sel EXCEPT ![core[p]][id[p]] = event[p]]
      BY <1>1, <3>1 DEF Write, Reg
    <3> QED
      BY <2>1, <3>2 DEF TypeOK
  <2>3. CASE Vendor = "AMD" /\ ~(id[p] < 4)
    <3>1. Reaches(p, EventSelAddr(v, id[p])).kind # "sel"
      <4>1. id[p] \in 0 .. 254 /\ id[p] >= 4 /\ v = "AMD"
        BY <2>1, <2>3, IdsAre
      <4>2. RegisterAt(EventSelAddr(v, id[p])) \in {Reg("pmc", id[p] - 4), NoReg}
        BY <2>3, <4>1, SelectAddress
      <4> QED
        BY <2>1, <4>2 DEF Reaches, Reg, NoReg
    <3>2. sel' = sel
      BY <1>1, <3>1 DEF Write
    <3>3. id[p] \in Nat
      BY IdsAre
    <3> QED
      BY <2>1, <2>3, <3>2, <3>3 DEF Banks
  <2> QED
    BY <2>2, <2>3, MachineAssumption
<1>8. Controlled(p)'
  <2>1. touched'[p] = touched[p]
    BY <1>1, <1>2 DEF Touch, TypeOK
  <2>2. ctrl'[core[p]] \in {ctrl[core[p]], {}}
    BY <1>1 DEF Write, TypeOK
  <2> QED
    BY <1>2, <2>1, <2>2 DEF Session, Controlled, Recording
<1> QED
  BY <1>2, <1>6, <1>7, <1>8
  DEF Session, Controlled, Counted, Concluded, Rising, Recording, Window, Read1, Read2

\* pmu_set_pmc and pmu_get_MSR_pmc go to p's counter.
LEMMA DevReaches ==
  ASSUME TypeOK, NEW p \in Procs, Local(p), NEW v \in Detectable
  PROVE  /\ Dev(p) /\ v = vendor[p] =>
              Reaches(p, CounterAddr(v, id[p])) = Reg("pmc", id[p]) /\ core[p] \in Cores
         /\ ~Dev(p) /\ v = vendor[p] => Reaches(p, CounterAddr(v, id[p])).kind # "pmc"
<1>1. id[p] \in 0 .. 254
  BY IdsAre
<1>2. CASE fd[p] # "ok"
  BY <1>2 DEF Reaches, Dev, Served, NoReg, Reg
<1>3. CASE fd[p] = "ok" /\ v = Vendor
  <2>1. id[p] \in Counters => RegisterAt(CounterAddr(v, id[p])) = Reg("pmc", id[p])
    BY <1>1, <1>3, ValueAddress
  <2>2. id[p] \notin Counters =>
          RegisterAt(CounterAddr(v, id[p])) \in {Reg("sel", id[p] - 197), NoReg}
    BY <1>1, <1>3, ValueAddress, MachineAssumption
  <2>3. id[p] \notin Counters => RegisterAt(CounterAddr(v, id[p])).kind # "pmc"
    BY <2>2 DEF Reg, NoReg
  <2> QED
    BY <1>3, <2>1, <2>3 DEF Reaches, Dev, Served, Local
<1>4. CASE fd[p] = "ok" /\ v # Vendor
  <2>1. Vendor = "AMD" /\ v = "INTEL"
    BY <1>4, MachineAssumption DEF Detectable
  <2>2. RegisterAt(CounterAddr(v, id[p])) = NoReg
    BY <1>1, <2>1, ValueAddress
  <2> QED
    BY <1>4, <2>2 DEF Reaches, Dev, Served, Reg, NoReg
<1> QED
  BY <1>2, <1>3, <1>4

LEMMA ClearKeeps ==
  ASSUME TypeOK, NEW p \in Procs, Session(p), Clear(p)
  PROVE  Session(p)'
<1>1. PICK v \in {"INTEL", "AMD"} :
        /\ GetCpuVendor(p, v)
        /\ Write(p, CounterAddr(v, id[p]), "off", 0, {})
        /\ Touch(p, CounterAddr(v, id[p]))
  BY DEF Clear
<1>2. /\ pc[p] = "clear" /\ pc'[p] = "record"
      /\ UNCHANGED <<core, id, event, cpu, fd, off, seen>>
  BY DEF Clear, Goto, argVars, fileVars, readVars, TypeOK
<1>3. Local(p)
  BY DEF Session
<1>4. v = vendor[p] /\ v \in Detectable /\ vendor'[p] = vendor[p]
  BY <1>1, <1>2, <1>3 DEF GetCpuVendor, Local, Selecting, TypeOK
<1>5. Local(p)'
  BY <1>2, <1>3, <1>4 DEF Local, Selecting, Read1
<1>6. touched'[p] = touched[p]
  BY <1>1, <1>2 DEF Touch, TypeOK
<1>7. Dev(p)' = Dev(p) /\ Quiet(p)' = Quiet(p) /\ Calm(p)' = Calm(p)
  BY <1>2, <1>4, <1>6 DEF Dev, Served, Quiet, Neighbours, Calm
<1>8. Dev(p) => sel' = sel
  <2>1. Dev(p) => Reaches(p, CounterAddr(v, id[p])) = Reg("pmc", id[p])
    BY <1>3, <1>4, DevReaches
  <2>2. Dev(p) => Reaches(p, CounterAddr(v, id[p])).kind # "sel"
    BY <2>1 DEF Reg
  <2> QED
    BY <1>1, <2>2 DEF Write
<1>9. Selected(p)'
  BY <1>2, <1>7, <1>8 DEF Session, Selected, Selecting, Sel
<1>10. Controlled(p)'
  <2>1. ctrl'[core[p]] \in {ctrl[core[p]], {}}
    BY <1>1 DEF Write, TypeOK
  <2> QED
    BY <1>2, <1>6, <2>1 DEF Session, Controlled, Recording
<1> QED
  BY <1>2, <1>5, <1>9, <1>10
  DEF Session, Controlled, Counted, Concluded, Rising, Recording, Window, Read1, Read2

\* The counters 0 to 3 are enabled, on Intel.
LEMMA StartKeeps ==
  ASSUME TypeOK, NEW p \in Procs, Session(p), RecordStart(p)
  PROVE  Session(p)'
<1>1. Write(p, off[p], "off", 0, RecordMask) /\ Touch(p, off[p])
  BY DEF RecordStart, RawWrite
<1>2. /\ pc[p] = "record" /\ pc'[p] = "msr1"
      /\ UNCHANGED <<core, id, event, cpu, fd, off, vendor, seen>>
  BY DEF RecordStart, RawWrite, Goto, fileVars, readVars, TypeOK
<1>3. Local(p)
  BY DEF Session
<1>4. Local(p)'
  BY <1>2, <1>3 DEF Local, Selecting, Read1
<1>5. touched'[p] = touched[p]
  BY <1>1, <1>2 DEF Touch, TypeOK
<1>6. Dev(p)' = Dev(p) /\ Quiet(p)' = Quiet(p) /\ Calm(p)' = Calm(p)
  BY <1>2, <1>5 DEF Dev, Served, Quiet, Neighbours, Calm
<1>7. fd[p] = "ok" => Reaches(p, off[p]).kind \in {"ctrl", "none"}
  BY <1>2, <1>3, ControlAddress, MachineAssumption DEF Local, Selecting, Reaches, Reg, NoReg
<1>8. Dev(p) => sel' = sel
  BY <1>1, <1>7 DEF Write, Dev, Served
<1>9. Selected(p)'
  BY <1>2, <1>6, <1>8 DEF Session, Selected, Selecting, Sel
<1>10. Controlled(p)'
  <2> SUFFICES ASSUME Vendor = "INTEL", fd[p] = "ok", touched[p] = {}
               PROVE  ctrl'[core[p]] =
                        IF RecordMask \subseteq Counters THEN RecordMask ELSE {}
    BY <1>2, <1>5 DEF Controlled
  <2>1. Reaches(p, off[p]) = Reg("ctrl", 0) /\ core[p] \in Cores
    BY <1>2, <1>3, ControlAddress DEF Local, Selecting, Reaches
  <2>2. ctrl[core[p]] = {}
    BY <1>2 DEF Session, Controlled
  <2>3. CASE RecordMask \subseteq Counters
    <3>1. ctrl' = [ctrl EXCEPT ![core[p]] = RecordMask]
      BY <1>1, <2>1, <2>3 DEF Write, Reg
    <3> QED
      BY <2>1, <2>3, <3>1 DEF TypeOK
  <2>4. CASE ~(RecordMask \subseteq Counters)
    <3>1. ctrl' = ctrl
      BY <1>1, <2>4 DEF Write
    <3> QED
      BY <2>2, <2>4, <3>1
  <2> QED
    BY <2>3, <2>4
<1> QED
  BY <1>2, <1>4, <1>9, <1>10
  DEF Session, Counted, Concluded, Rising, Window, Read1, Read2

\* A reading: p's counter, or -1.
LEMMA Reading ==
  ASSUME TypeOK, NEW p \in Procs, Local(p), vendor[p] # "UNCHECK", NEW k \in {1, 2}, ReadPmc(p, k)
  PROVE  /\ vendor'[p] = vendor[p]
         /\ msr'[p][k] = IF Dev(p) THEN Pmc(p) ELSE -1
         /\ msr'[p][3 - k] = msr[p][3 - k]
         /\ UNCHANGED <<sel, pmc, ctrl, core, id, event, cpu, fd, off, rdpmc, seen, touched>>
<1>1. PICK v \in {"INTEL", "AMD"} :
        LET r == Reaches(p, CounterAddr(v, id[p]))
        IN  /\ GetCpuVendor(p, v)
            /\ msr' = [msr EXCEPT ![p][k] = IF r.kind = "pmc" THEN pmc[core[p]][r.i] ELSE -1]
  BY DEF ReadPmc
<1> DEFINE r == Reaches(p, CounterAddr(v, id[p]))
<1>2. v = vendor[p] /\ v \in Detectable /\ vendor'[p] = vendor[p]
  BY <1>1 DEF GetCpuVendor, Local, TypeOK
<1>3. Dev(p) => r = Reg("pmc", id[p])
  BY <1>2, DevReaches
<1>4. Dev(p) => r.kind = "pmc" /\ r.i = id[p]
  BY <1>3 DEF Reg
<1>5. ~Dev(p) => r.kind # "pmc"
  BY <1>2, DevReaches
<1>6. msr[p] \in Readings \X Readings
  BY DEF TypeOK
<1>7. msr'[p] = [msr[p] EXCEPT ![k] = IF r.kind = "pmc" THEN pmc[core[p]][r.i] ELSE -1]
  BY <1>1 DEF TypeOK
<1> HIDE DEF r
<1>8. /\ msr'[p][k] = IF r.kind = "pmc" THEN pmc[core[p]][r.i] ELSE -1
      /\ msr'[p][3 - k] = msr[p][3 - k]
  BY <1>6, <1>7
<1>9. UNCHANGED <<sel, pmc, ctrl, core, id, event, cpu, fd, off, rdpmc, seen, touched>>
  BY DEF ReadPmc, hwVars, argVars, fileVars
<1> QED
  BY <1>2, <1>4, <1>5, <1>8, <1>9 DEF Pmc

\* What p knows of its counter while only p's reads happen.
LEMMA StillKnown ==
  ASSUME NEW p \in Procs, vendor'[p] = vendor[p],
         UNCHANGED <<sel, pmc, ctrl, core, id, event, cpu, fd, off, seen, touched>>
  PROVE  /\ Dev(p)' = Dev(p) /\ Quiet(p)' = Quiet(p) /\ Calm(p)' = Calm(p)
         /\ Sel(p)' = Sel(p) /\ Pmc(p)' = Pmc(p) /\ Expected(p)' = Expected(p)
BY DEF Dev, Served, Quiet, Neighbours, Calm, Sel, Pmc, Expected

LEMMA FirstReadKeeps ==
  ASSUME TypeOK, NEW p \in Procs, Session(p), GetMsrPmc1(p)
  PROVE  Session(p)'
<1>1. pc[p] = "msr1" /\ pc'[p] = "rdpmc1" /\ ReadPmc(p, 1)
  BY DEF GetMsrPmc1, Goto, TypeOK
<1>2. Local(p) /\ vendor[p] # "UNCHECK"
  BY <1>1 DEF Session, Local, Selecting
<1>3. /\ vendor'[p] = vendor[p] /\ msr'[p][1] = IF Dev(p) THEN Pmc(p) ELSE -1
      /\ UNCHANGED <<sel, pmc, ctrl, core, id, event, cpu, fd, off, rdpmc, seen, touched>>
  BY <1>1, <1>2, Reading
<1>4. /\ Dev(p)' = Dev(p) /\ Quiet(p)' = Quiet(p) /\ Calm(p)' = Calm(p)
      /\ Sel(p)' = Sel(p) /\ Pmc(p)' = Pmc(p) /\ Expected(p)' = Expected(p)
  BY <1>3, StillKnown
<1>5. seen[p] = 0 /\ Expected(p) = 0
  BY <1>1, <1>2 DEF Local, Read1, Expected
<1>6. Local(p)'
  BY <1>1, <1>2, <1>3 DEF Local, Selecting, Read1
<1>7. Controlled(p)' /\ Selected(p)'
  BY <1>1, <1>3, <1>4 DEF Session, Controlled, Selected, Recording, Selecting
<1>8. Dev(p) => Pmc(p) \in Int
  BY <1>2 DEF Dev, Served, Local, Pmc, TypeOK
<1>9. Counted(p)'
  BY <1>3, <1>4, <1>5, <1>8 DEF Counted
<1>10. Concluded(p)'
  BY <1>1, <1>3, <1>4 DEF Concluded, Read2
<1>11. Rising(p)'
  BY <1>1, <1>3, <1>4, <1>8 DEF Rising
<1> QED
  BY <1>6, <1>7, <1>9, <1>10, <1>11 DEF Session

LEMMA SecondReadKeeps ==
  ASSUME TypeOK, NEW p \in Procs, Session(p), GetMsrPmc2(p)
  PROVE  Session(p)'
<1>1. pc[p] = "msr2" /\ pc'[p] = "rdpmc2" /\ ReadPmc(p, 2)
  BY DEF GetMsrPmc2, Goto, TypeOK
<1>2. Local(p) /\ vendor[p] # "UNCHECK"
  BY <1>1 DEF Session, Local, Selecting
<1>3. /\ vendor'[p] = vendor[p] /\ msr'[p][2] = IF Dev(p) THEN Pmc(p) ELSE -1
      /\ msr'[p][1] = msr[p][1]
      /\ UNCHANGED <<sel, pmc, ctrl, core, id, event, cpu, fd, off, rdpmc, seen, touched>>
  BY <1>1, <1>2, Reading
<1>4. /\ Dev(p)' = Dev(p) /\ Quiet(p)' = Quiet(p) /\ Calm(p)' = Calm(p)
      /\ Sel(p)' = Sel(p) /\ Pmc(p)' = Pmc(p) /\ Expected(p)' = Expected(p)
  BY <1>3, StillKnown
<1>5. Local(p)'
  BY <1>1, <1>2, <1>3 DEF Local, Selecting, Read1
<1>6. Controlled(p)' /\ Selected(p)'
  BY <1>1, <1>3, <1>4 DEF Session, Controlled, Selected, Recording, Selecting
<1>7. Counted(p)'
  BY <1>1 DEF Counted, Window
<1>8. Concluded(p)'
  BY <1>1, <1>3, <1>4 DEF Session, Concluded, Counted, Measured, Read1, Window
<1>9. Rising(p)'
  <2>1. Dev(p) => Pmc(p) \in Int
    BY <1>2 DEF Dev, Served, Local, Pmc, TypeOK
  <2> QED
    BY <1>1, <1>3, <1>4, <2>1 DEF Session, Rising
<1> QED
  BY <1>5, <1>6, <1>7, <1>8, <1>9 DEF Session

LEMMA RdpmcKeeps ==
  ASSUME TypeOK, NEW p \in Procs, Session(p), GetRdpmc1(p) \/ GetRdpmc2(p)
  PROVE  Session(p)'
<1>1. /\ \/ pc[p] = "rdpmc1" /\ pc'[p] = "msr2"
         \/ pc[p] = "rdpmc2" /\ pc'[p] = "stop"
      /\ Rdpmc(p)
  BY DEF GetRdpmc1, GetRdpmc2, Goto, TypeOK
<1>2. /\ id[p] \in Counters /\ vendor' = vendor /\ msr' = msr
      /\ UNCHANGED <<sel, pmc, ctrl, core, id, event, cpu, fd, off, seen, touched>>
      /\ p \in Pinned => rdpmc'[p] = pmc[cpu[p]][id[p]]
  BY <1>1 DEF Rdpmc, hwVars, argVars, fileVars, TypeOK
<1>3. /\ Dev(p)' = Dev(p) /\ Quiet(p)' = Quiet(p) /\ Calm(p)' = Calm(p)
      /\ Sel(p)' = Sel(p) /\ Pmc(p)' = Pmc(p) /\ Expected(p)' = Expected(p)
  BY <1>2, StillKnown
<1>4. Local(p)'
  BY <1>1, <1>2 DEF Session, Local, Selecting, Read1
<1>5. Controlled(p)' /\ Selected(p)' /\ Counted(p)'
  BY <1>1, <1>2, <1>3
  DEF Session, Controlled, Selected, Counted, Recording, Selecting, Window
<1>6. Concluded(p)'
  BY <1>1, <1>2, <1>3 DEF Session, Concluded, Measured, Read1, Read2
<1>7. Rising(p)'
  <2> SUFFICES ASSUME Dev(p), p \in Pinned, id[p] \notin touched[p] PROVE Rising(p)'
    BY <1>1, <1>2, <1>3 DEF Rising
  <2>1. rdpmc'[p] = Pmc(p)
    BY <1>2 DEF Session, Local, Dev, Served, Pmc
  <2>2. Pmc(p) \in Int
    BY DEF Session, Dev, Served, Local, Pmc, TypeOK
  <2> QED
    BY <1>1, <1>2, <1>3, <2>1, <2>2 DEF Session, Rising
<1> QED
  BY <1>4, <1>5, <1>6, <1>7 DEF Session

-----------------------------------------------------------------------------
(* The invariant and the theorems *)

\* No write reaches an event select that AMD does not have.
LEMMA WriteKeepsBanks ==
  ASSUME TypeOK, Banks, NEW q \in Procs, NEW a, NEW code, NEW number, NEW mask,
         Write(q, a, code, number, mask)
  PROVE  Banks'
<1> SUFFICES ASSUME Vendor = "AMD", NEW c \in Cores, NEW i \in Counters, i >= 4
             PROVE  sel'[c][i] = "off"
  BY DEF Banks
<1>1. Reaches(q, a).kind = "sel" => Reaches(q, a).i # i
  BY MachineAssumption DEF Reaches, RegisterAt, Reg, NoReg, Counters
<1>2. sel'[c][i] = sel[c][i]
  BY <1>1 DEF Write, TypeOK
<1> QED
  BY <1>2 DEF Banks

LEMMA BanksKept == TypeOK /\ Banks /\ [Next]_vars => Banks'
<1> SUFFICES ASSUME TypeOK, Banks, [Next]_vars PROVE Banks'
  OBVIOUS
<1> USE DEF hwVars, argVars, fileVars, readVars
<1>1. ASSUME UNCHANGED sel PROVE Banks'
  BY <1>1 DEF Banks
<1>2. ASSUME NEW p \in Procs, Call(p) PROVE Banks'
  <2>1. CASE Disable(p)
    BY <2>1, WriteKeepsBanks DEF Disable
  <2>2. CASE Select(p)
    BY <2>2, WriteKeepsBanks DEF Select
  <2>3. CASE Clear(p)
    BY <2>3, WriteKeepsBanks DEF Clear
  <2>4. CASE RecordStart(p) \/ RecordStop(p)
    BY <2>4, WriteKeepsBanks DEF RecordStart, RecordStop, RawWrite
  <2>5. CASE \/ \E r \in Requests, i \in Ids, e \in Events :
                  PmuOpenMsr(p, r) \/ PmuSetEvent(p, r, i, e)
             \/ \E i \in Ids, e \in Events : PmuSetMsrEvent(p, i, e)
             \/ GetMsrPmc1(p) \/ GetMsrPmc2(p) \/ GetRdpmc1(p) \/ GetRdpmc2(p)
    BY <1>1, <2>5 DEF PmuOpenMsr, PmuSetEvent, PmuSetMsrEvent, Choose,
      GetMsrPmc1, GetMsrPmc2, ReadPmc, GetRdpmc1, GetRdpmc2, Rdpmc
  <2> QED
    BY <1>2, <2>1, <2>2, <2>3, <2>4, <2>5 DEF Call
<1>3. ASSUME NEW p \in Procs, ProcEnds(p) \/ \E c \in Cores : Migrate(p, c) PROVE Banks'
  BY <1>1, <1>3 DEF ProcEnds, Migrate
<1>4. ASSUME NEW c \in Cores, NEW e \in Events, Happens(c, e) PROVE Banks'
  BY <1>1, <1>4 DEF Happens
<1>5. CASE UNCHANGED vars
  BY <1>1, <1>5 DEF vars
<1> QED
  BY <1>2, <1>3, <1>4, <1>5 DEF Next

LEMMA InitInv == Init => IInv
<1> SUFFICES ASSUME Init PROVE IInv
  OBVIOUS
<1>1. /\ AnId \in Ids /\ 0 \in 0 .. CoreMod - 1 /\ 0 \in 0 .. MaxCount /\ 0 \in 0 .. MaxFds
      /\ 0 \in Readings
  BY SessionAssumption DEF AnId, Readings
<1>2. TypeOK
  BY <1>1 DEF Init, TypeOK, Steps
<1>3. Banks
  BY DEF Init, Banks
<1>4. ASSUME NEW p \in Procs PROVE Session(p)
  BY DEF Init, Session, Local, Controlled, Selected, Counted, Concluded, Rising,
         Selecting, Recording, Window, Read1, Read2
<1> QED
  BY <1>2, <1>3, <1>4 DEF IInv

LEMMA InvKept == IInv /\ [Next]_vars => IInv'
<1> SUFFICES ASSUME IInv, [Next]_vars PROVE IInv'
  OBVIOUS
<1> USE DEF IInv
<1>1. TypeOK'
  BY TypeKept DEF Session
<1>2. Banks'
  BY BanksKept
<1>3. ASSUME NEW p \in Procs PROVE Session(p)'
  <2>1. ASSUME NEW q \in Procs, q # p,
               Call(q) \/ ProcEnds(q) \/ \E c \in Cores : Migrate(q, c)
        PROVE  Session(p)'
    <3>1. Foreign(q, p)
      BY <2>1, OthersAreForeign DEF Session
    <3> QED
      BY <3>1, OthersKeep
  <2>2. ASSUME Call(p) \/ ProcEnds(p) \/ \E c \in Cores : Migrate(p, c) PROVE Session(p)'
    BY <2>2, CallsKeep, DisableKeeps, SelectKeeps, ClearKeeps, StartKeeps,
       FirstReadKeeps, SecondReadKeeps, RdpmcKeeps DEF Call
  <2>3. ASSUME NEW c \in Cores, NEW e \in Events, Happens(c, e) PROVE Session(p)'
    BY <2>3, HappensKeeps
  <2>4. CASE UNCHANGED vars
    BY <2>4 DEF vars, hwVars, argVars, fileVars, readVars, Session, Local, Controlled,
      Selected, Counted, Concluded, Rising, Dev, Served, Quiet, Neighbours, Calm, Sel, Pmc,
      Measured, Expected
  <2> QED
    BY <2>1, <2>2, <2>3, <2>4 DEF Next
<1> QED
  BY <1>1, <1>2, <1>3

LEMMA Invariance == Spec => []IInv
BY InitInv, InvKept, PTL DEF Spec

\* Every variable keeps its type, for any processes, cores, counters and
\* limits.
THEOREM TypeCorrect == Spec => []TypeOK
<1>1. IInv => TypeOK
  BY DEF IInv
<1> QED
  BY <1>1, Invariance, PTL

\* pmu_record_start and pmu_record_stop write the control register or, on a
\* machine without one, nothing: the offset is where they assume it.
THEOREM RawWritesHit == Spec => []RawWritesHitControl
<1>1. IInv => RawWritesHitControl
  BY DEF IInv, Session, Local, RawWritesHitControl, Selecting
<1> QED
  BY <1>1, Invariance, PTL

\* A pinned process reads one counter in both ways, and it never falls.
THEOREM ReadingsRise == Spec => []ReadsAgree
<1>1. ASSUME IInv PROVE ReadsAgree
  <2> SUFFICES ASSUME NEW p \in Pinned, Served(p), id[p] \notin touched[p],
                      pc[p] \in {"msr2", "rdpmc2", "stop"}
               PROVE  /\ pc[p] = "msr2" => msr[p][1] <= rdpmc[p]
                      /\ pc[p] = "rdpmc2" => rdpmc[p] <= msr[p][2]
                      /\ pc[p] = "stop" => msr[p][2] <= rdpmc[p]
    BY DEF ReadsAgree
  <2>1. p \in Procs
    BY SessionAssumption
  <2>2. Dev(p)
    BY <1>1, <2>1 DEF IInv, Session, Local, Dev
  <2> QED
    BY <1>1, <2>1, <2>2 DEF IInv, Session, Rising
<1> QED
  BY <1>1, Invariance, PTL

\* Whoever else measures on the core with counters of their own, a session
\* never counts an event that did not happen.
THEOREM SessionsNeverOvercount == Spec => []NeverOvercounts
<1>1. ASSUME IInv PROVE NeverOvercounts
  <2> SUFFICES ASSUME NEW p \in Procs, HasMeasured(p), Quiet(p)
               PROVE  Measured(p) <= seen[p]
    BY DEF NeverOvercounts, Quiet
  <2>1. pc[p] \in Read1 /\ pc[p] \in Read2
    BY DEF HasMeasured, Read1, Read2
  <2>2. CASE Dev(p)
    BY <1>1, <2>1, <2>2 DEF IInv, Session, Concluded
  <2>3. CASE ~Dev(p)
    BY <1>1, <2>1, <2>3, SessionAssumption DEF IInv, TypeOK, Session, Concluded, Measured
  <2> QED
    BY <2>2, <2>3
<1> QED
  BY <1>1, Invariance, PTL

\* A session that nobody disturbed is exact on the counters that
\* pmu_record_start enables, and zero on the others.
THEOREM SessionsAreExact == Spec => []MeasuredIsActual
<1>1. ASSUME IInv PROVE MeasuredIsActual
  <2> SUFFICES ASSUME NEW p \in Procs, HasMeasured(p), Served(p), touched[p] = {}
               PROVE  Measured(p) = Expected(p)
    BY DEF MeasuredIsActual, Expected
  <2>1. pc[p] \in Read2 /\ id[p] \in Counters
    BY <1>1 DEF HasMeasured, Read2, IInv, Session, Local
  <2>2. Dev(p) /\ Calm(p)
    BY <2>1 DEF Dev, Calm, Quiet
  <2> QED
    BY <1>1, <2>1, <2>2 DEF IInv, Session, Concluded
<1> QED
  BY <1>1, Invariance, PTL

\* On Intel the event is selected with all counters of the core off.
THEOREM DisabledOnIntel ==
  ASSUME Vendor = "INTEL" PROVE Spec => []DisabledWhenSelected
<1>1. IInv => DisabledWhenSelected
  BY DEF IInv, Session, Controlled, DisabledWhenSelected, Running
<1> QED
  BY <1>1, Invariance, PTL

\* On an AMD machine with four counters sessions with counters of their own
\* do not disturb each other at all.
THEOREM IndependentOnAmd ==
  ASSUME Vendor = "AMD", NumCounters <= 4 PROVE Spec => []CountersAreIndependent
<1>1. ASSUME IInv PROVE CountersAreIndependent
  <2> SUFFICES ASSUME NEW p \in Procs, HasMeasured(p), Served(p), Quiet(p)
               PROVE  Measured(p) = seen[p]
    BY DEF CountersAreIndependent, Quiet
  <2>1. pc[p] \in Read2 /\ id[p] \in Counters
    BY <1>1 DEF HasMeasured, Read2, IInv, Session, Local
  <2>2. Dev(p) /\ Calm(p) /\ Recorded(id[p])
    BY <2>1, MachineAssumption DEF Dev, Calm, Counters, Recorded
  <2> QED
    BY <1>1, <2>1, <2>2 DEF IInv, Session, Concluded, Expected
<1> QED
  BY <1>1, Invariance, PTL

-----------------------------------------------------------------------------
(* Measurement is implemented: how each step moves each session             *)

\* A session is open to the eye of Measurement from the first reading on.
LEMMA Phases ==
  ASSUME NEW p \in Procs
  PROVE  /\ Phase(p) = "out" <=> pc[p] \notin Read1
         /\ Phase(p) = "counting" <=> pc[p] \in Window
         /\ Phase(p) = "done" <=> HasMeasured(p)
BY DEF Phase, Read1, Window, HasMeasured

LEMMA Outside ==
  ASSUME NEW p \in Procs, pc[p] \notin Read1, seen[p] = 0
  PROVE  SessionOf(p) = Promise!Out
BY Phases DEF SessionOf, Promise!Out, HasMeasured, Read1

LEMMA OutsideNext ==
  ASSUME NEW p \in Procs, pc'[p] \notin Read1, seen'[p] = 0
  PROVE  SessionOf(p)' = Promise!Out
<1>1. Phase(p)' = "out" /\ ~HasMeasured(p)'
  BY DEF Phase, Read1, Window, HasMeasured
<1> QED
  BY <1>1 DEF SessionOf, Promise!Out

LEMMA StaysOutside ==
  ASSUME NEW p \in Procs, Local(p), pc[p] \notin Read1, pc'[p] \notin Read1, seen'[p] = seen[p]
  PROVE  Promise!Moves(SessionOf(p), SessionOf(p)')
<1>1. seen[p] = 0
  BY DEF Local
<1>2. SessionOf(p) = Promise!Out /\ SessionOf(p)' = Promise!Out
  BY <1>1, Outside, OutsideNext
<1> QED
  BY <1>2 DEF Promise!Moves

LEMMA LeavesSession ==
  ASSUME TypeOK, NEW p \in Procs, Local(p), pc'[p] \notin Read1, Forget(p)
  PROVE  Promise!Moves(SessionOf(p), SessionOf(p)')
<1>1. seen'[p] = 0
  BY DEF Forget, TypeOK
<1>2. SessionOf(p)' = Promise!Out
  BY <1>1, OutsideNext
<1>3. CASE pc[p] \notin Read1
  <2>1. SessionOf(p) = Promise!Out
    BY <1>3, Outside DEF Local
  <2> QED
    BY <1>2, <2>1 DEF Promise!Moves
<1>4. CASE pc[p] \in Read1
  BY <1>2, <1>4, Phases DEF SessionOf, Promise!Leaves, Promise!Moves
<1> QED
  BY <1>3, <1>4

\* What others write takes trust away, and never gives any.
LEMMA TrustFalls ==
  ASSUME NEW p \in Procs, Dev(p)' = Dev(p), id'[p] = id[p],
         Dev(p) /\ Quiet(p)' => Quiet(p), Dev(p) /\ Calm(p)' => Calm(p) /\ Quiet(p)'
  PROVE  Trust(p)' \in Promise!Below(Trust(p))
<1>1. Trust(p) \in {"exact", "atmost", "none"} /\ Trust(p)' \in {"exact", "atmost", "none"}
  BY DEF Trust
<1>2. Trust(p) = "none" => Trust(p)' = "none"
  BY DEF Trust
<1>3. Trust(p) = "atmost" => Trust(p)' # "exact"
  BY DEF Trust
<1> QED
  BY <1>1, <1>2, <1>3 DEF Promise!Below

LEMMA Steady ==
  ASSUME NEW p \in Procs, pc'[p] = pc[p], msr'[p] = msr[p], seen'[p] = seen[p],
         pc[p] \in Read1 => Trust(p)' \in Promise!Below(Trust(p))
  PROVE  Promise!Moves(SessionOf(p), SessionOf(p)')
<1>1. Phase(p)' = Phase(p) /\ HasMeasured(p)' = HasMeasured(p) /\ Measured(p)' = Measured(p)
  BY DEF Phase, HasMeasured, Measured
<1>2. CASE pc[p] \notin Read1
  <2>1. SessionOf(p)' = SessionOf(p)
    BY <1>1, <1>2, Phases DEF SessionOf
  <2> QED
    BY <2>1 DEF Promise!Moves
<1>3. CASE pc[p] \in Read1
  <2>1. Phase(p) # "out"
    BY <1>3, Phases
  <2>2. Promise!Falls(SessionOf(p), SessionOf(p)')
    BY <1>1, <1>3, <2>1 DEF SessionOf, Promise!Falls
  <2> QED
    BY <2>2 DEF Promise!Moves
<1> QED
  BY <1>2, <1>3

LEMMA OthersMove ==
  ASSUME NEW p \in Procs, NEW q \in Procs, Foreign(q, p)
  PROVE  Promise!Moves(SessionOf(p), SessionOf(p)')
<1>1. Unmoved(p)
  BY DEF Foreign
<1>2. Dev(p)' = Dev(p) /\ Neighbours(p)' = Neighbours(p)
  BY <1>1 DEF Unmoved, Dev, Served, Neighbours
<1>3. Dev(p) /\ pc[p] \in Read1 => touched[p] \subseteq touched'[p]
  BY DEF Foreign, Spared, Disturbed, Dev, Served, Read1, Early
<1>4. Dev(p) /\ pc[p] \in Read1 /\ Quiet(p)' => Quiet(p)
  BY <1>2, <1>3 DEF Quiet
<1>5. Dev(p) /\ pc[p] \in Read1 /\ Calm(p)' => Calm(p) /\ Quiet(p)'
  BY <1>3, <1>4 DEF Calm, Quiet
<1>6. pc[p] \in Read1 => Trust(p)' \in Promise!Below(Trust(p))
  BY <1>1, <1>2, <1>4, <1>5, TrustFalls DEF Unmoved
<1> QED
  BY <1>1, <1>6, Steady DEF Unmoved

\* The second reading gives what the session's trust promises.
LEMMA EndsWell ==
  ASSUME TypeOK, NEW p \in Procs, Session(p), Session(p)', GetMsrPmc2(p)
  PROVE  Promise!Moves(SessionOf(p), SessionOf(p)')
<1>1. pc[p] = "msr2" /\ pc'[p] = "rdpmc2" /\ ReadPmc(p, 2)
  BY DEF GetMsrPmc2, Goto, TypeOK
<1>2. Local(p) /\ vendor[p] # "UNCHECK"
  BY <1>1 DEF Session, Local, Selecting
<1>3. /\ vendor'[p] = vendor[p]
      /\ UNCHANGED <<sel, pmc, ctrl, core, id, event, cpu, fd, off, rdpmc, seen, touched>>
  BY <1>1, <1>2, Reading
<1>4. /\ Dev(p)' = Dev(p) /\ Quiet(p)' = Quiet(p) /\ Calm(p)' = Calm(p)
      /\ Expected(p)' = Expected(p)
  BY <1>3, StillKnown
<1>5. Trust(p)' = Trust(p)
  BY <1>3, <1>4 DEF Trust
<1>6. Phase(p) = "counting" /\ Phase(p)' = "done" /\ HasMeasured(p)' /\ ~HasMeasured(p)
  BY <1>1 DEF Phase, Window, HasMeasured
<1>7. Promise!Result(Trust(p), seen[p], Measured(p)')
  <2>1. Concluded(p)' /\ pc'[p] \in Read1 /\ pc'[p] \in Read2
    BY <1>1 DEF Session, Read1, Read2
  <2>2. CASE Trust(p) = "exact"
    <3>1. Dev(p) /\ Calm(p) /\ Recorded(id[p])
      BY <2>2 DEF Trust
    <3>2. Measured(p)' = Expected(p)
      BY <1>4, <2>1, <3>1 DEF Concluded
    <3> QED
      BY <2>2, <3>1, <3>2 DEF Promise!Result, Expected
  <2>3. CASE Trust(p) = "atmost"
    <3>1. CASE Dev(p)
      <4>1. Quiet(p)
        BY <2>3, <3>1 DEF Trust
      <4> QED
        BY <1>3, <1>4, <2>1, <2>3, <3>1, <4>1 DEF Concluded, Promise!Result
    <3>2. CASE ~Dev(p)
      <4>1. Measured(p)' = 0
        BY <1>4, <2>1, <3>2 DEF Concluded, Measured
      <4>2. seen[p] \in 0 .. MaxCount
        BY DEF TypeOK
      <4> QED
        BY <2>3, <4>1, <4>2, SessionAssumption DEF Promise!Result
    <3> QED
      BY <3>1, <3>2
  <2>4. CASE Trust(p) = "none"
    BY <2>4 DEF Promise!Result
  <2> QED
    BY <2>2, <2>3, <2>4 DEF Trust
<1> QED
  BY <1>3, <1>5, <1>6, <1>7 DEF SessionOf, Promise!Ends, Promise!Moves

LEMMA OwnMoves ==
  ASSUME TypeOK, NEW p \in Procs, Session(p), Session(p)',
         Call(p) \/ ProcEnds(p) \/ \E c \in Cores : Migrate(p, c)
  PROVE  Promise!Moves(SessionOf(p), SessionOf(p)')
<1> USE DEF Goto, hwVars, argVars, fileVars, readVars
<1>1. Local(p)
  BY DEF Session
<1>2. CASE \/ \E r \in Requests, i \in Ids, e \in Events :
                PmuOpenMsr(p, r) \/ PmuSetEvent(p, r, i, e)
           \/ \E i \in Ids, e \in Events : PmuSetMsrEvent(p, i, e)
           \/ Disable(p) \/ Select(p) \/ Clear(p) \/ RecordStart(p)
  <2>1. pc[p] \notin Read1 /\ pc'[p] \notin Read1 /\ seen'[p] = seen[p]
    BY <1>2 DEF PmuOpenMsr, PmuSetEvent, PmuSetMsrEvent, Choose, Disable, Select, Clear,
       RecordStart, TypeOK, Read1
  <2> QED
    BY <1>1, <2>1, StaysOutside
<1>3. CASE GetMsrPmc1(p)
  <2>1. pc[p] = "msr1" /\ pc'[p] = "rdpmc1" /\ seen' = seen
    BY <1>3 DEF GetMsrPmc1, ReadPmc, TypeOK
  <2>2. pc[p] \notin Read1 /\ Phase(p)' = "counting" /\ ~HasMeasured(p)'
    BY <2>1 DEF Read1, Phase, Window, HasMeasured
  <2>3. seen[p] = 0
    BY <1>1, <2>2 DEF Local
  <2>4. SessionOf(p) = Promise!Out
    BY <2>2, <2>3, Outside
  <2>5. Promise!Begins(SessionOf(p), SessionOf(p)')
    BY <2>1, <2>2, <2>3, <2>4 DEF SessionOf, Promise!Out, Promise!Begins
  <2> QED
    BY <2>5 DEF Promise!Moves
<1>4. CASE GetMsrPmc2(p)
  BY <1>4, EndsWell
<1>5. CASE GetRdpmc1(p) \/ GetRdpmc2(p)
  <2>1. \/ pc[p] = "rdpmc1" /\ pc'[p] = "msr2"
        \/ pc[p] = "rdpmc2" /\ pc'[p] = "stop"
    BY <1>5 DEF GetRdpmc1, GetRdpmc2, TypeOK
  <2>2. Phase(p)' = Phase(p) /\ HasMeasured(p)' = HasMeasured(p)
    BY <2>1 DEF Phase, Window, HasMeasured
  <2>3. UNCHANGED <<core, id, event, fd, vendor, msr, seen, touched>>
    BY <1>5 DEF GetRdpmc1, GetRdpmc2, Rdpmc
  <2>4. Trust(p)' = Trust(p) /\ Measured(p)' = Measured(p)
    BY <2>3 DEF Trust, Dev, Served, Quiet, Calm, Neighbours, Measured
  <2>5. SessionOf(p)' = SessionOf(p)
    BY <2>2, <2>3, <2>4 DEF SessionOf
  <2> QED
    BY <2>5 DEF Promise!Moves
<1>6. CASE RecordStop(p) \/ ProcEnds(p)
  <2>1. Forget(p) /\ pc'[p] \notin Read1
    BY <1>6 DEF RecordStop, ProcEnds, TypeOK, Read1
  <2> QED
    BY <1>1, <2>1, LeavesSession
<1>7. ASSUME NEW c \in Cores, Migrate(p, c) PROVE Promise!Moves(SessionOf(p), SessionOf(p)')
  <2>1. UNCHANGED <<pc, core, id, fd, vendor, msr, seen, touched>>
    BY <1>7 DEF Migrate
  <2>2. SessionOf(p)' = SessionOf(p)
    BY <2>1 DEF SessionOf, Phase, HasMeasured, Measured, Trust, Dev, Served, Quiet, Calm,
       Neighbours
  <2> QED
    BY <2>2 DEF Promise!Moves
<1> QED
  BY <1>2, <1>3, <1>4, <1>5, <1>6, <1>7 DEF Call

\* An event is counted by the sessions that it is meant for.
LEMMA EventMoves ==
  ASSUME NEW c \in Cores, NEW e \in Events, Happens(c, e), NEW p \in Procs
  PROVE  Promise!Moves(SessionOf(p), SessionOf(p)')
<1> DEFINE sees == pc[p] \in Window /\ core[p] = c /\ event[p] = e
<1>1. UNCHANGED <<pc, core, id, fd, vendor, msr, touched>>
  BY DEF Happens, argVars, fileVars
<1>2. /\ Phase(p)' = Phase(p) /\ Trust(p)' = Trust(p)
      /\ HasMeasured(p)' = HasMeasured(p) /\ Measured(p)' = Measured(p)
  BY <1>1 DEF Phase, HasMeasured, Measured, Trust, Dev, Served, Quiet, Calm, Neighbours
<1>3. seen'[p] = IF sees THEN seen[p] + 1 ELSE seen[p]
  BY DEF Happens
<1>4. CASE sees
  <2>1. Phase(p) = "counting" /\ seen'[p] = seen[p] + 1
    BY <1>3, <1>4 DEF Phase
  <2>2. Promise!Counts(SessionOf(p), SessionOf(p)')
    BY <1>2, <2>1 DEF SessionOf, Promise!Counts
  <2> QED
    BY <2>2 DEF Promise!Moves
<1>5. CASE ~sees
  BY <1>2, <1>3, <1>5 DEF SessionOf, Promise!Moves
<1> QED
  BY <1>4, <1>5

LEMMA SessionsMove ==
  ASSUME IInv, IInv', [Next]_vars, NEW p \in Procs
  PROVE  Promise!Moves(SessionOf(p), SessionOf(p)')
<1>1. TypeOK /\ Session(p) /\ Session(p)'
  BY DEF IInv
<1>2. CASE Call(p) \/ ProcEnds(p) \/ \E c \in Cores : Migrate(p, c)
  BY <1>1, <1>2, OwnMoves
<1>3. ASSUME NEW q \in Procs, q # p,
             Call(q) \/ ProcEnds(q) \/ \E c \in Cores : Migrate(q, c)
      PROVE  Promise!Moves(SessionOf(p), SessionOf(p)')
  <2>1. Local(p) /\ Local(q)
    BY DEF IInv, Session
  <2>2. Foreign(q, p)
    BY <1>1, <1>3, <2>1, OthersAreForeign
  <2> QED
    BY <2>2, OthersMove
<1>4. ASSUME NEW c \in Cores, NEW e \in Events, Happens(c, e)
      PROVE  Promise!Moves(SessionOf(p), SessionOf(p)')
  BY <1>4, EventMoves
<1>5. CASE UNCHANGED vars
  <2>1. SessionOf(p)' = SessionOf(p)
    BY <1>5 DEF vars, hwVars, argVars, fileVars, readVars, SessionOf, Phase, HasMeasured,
       Measured, Trust, Dev, Served, Quiet, Calm, Neighbours
  <2> QED
    BY <2>1 DEF Promise!Moves
<1> QED
  BY <1>2, <1>3, <1>4, <1>5 DEF Next

LEMMA SessionTypes ==
  ASSUME TypeOK PROVE \A p \in Procs : SessionOf(p) \in Promise!Sessions
<1> SUFFICES ASSUME NEW p \in Procs PROVE SessionOf(p) \in Promise!Sessions
  OBVIOUS
<1>1. seen[p] \in Nat /\ msr[p][1] \in Int /\ msr[p][2] \in Int
  BY SessionAssumption DEF TypeOK, Readings
<1>2. Measured(p) \in Int /\ Phase(p) \in {"out", "counting", "done"}
      /\ Trust(p) \in {"exact", "atmost", "none"}
  BY <1>1 DEF Measured, Phase, Trust
<1> QED
  BY <1>1, <1>2 DEF SessionOf, Promise!Sessions

\* The x86_64 half of the library keeps the promise, on the machines of both
\* vendors, whoever else measures on the core, and even if the vendor or the
\* number of counters is mistaken (header/pmu_utils.h, libpmu/pmu.c).
THEOREM MeasurementKept == Spec => ImplementsMeasurement
<1>1. Init => Promise!Init
  <2> SUFFICES ASSUME Init, NEW p \in Procs PROVE SessionOf(p) = Promise!Out
    BY DEF Promise!Init
  <2>1. pc[p] \notin Read1 /\ seen[p] = 0
    BY DEF Init, Read1
  <2> QED
    BY <2>1, Outside
<1>2. IInv /\ IInv' /\ [Next]_vars => [Promise!Next]_[p \in Procs |-> SessionOf(p)]
  <2> SUFFICES ASSUME IInv, IInv', [Next]_vars PROVE Promise!Next
    OBVIOUS
  <2>1. \A p \in Procs : Promise!Moves(SessionOf(p), SessionOf(p)')
    BY SessionsMove
  <2>2. (\A p \in Procs : SessionOf(p) \in Promise!Sessions)'
    <3>1. TypeOK'
      BY DEF IInv
    <3> QED
      BY <3>1, SessionTypes, PTL
  <2>3. \A p \in Procs : SessionOf(p)' \in Promise!Sessions
    BY <2>2 DEF Promise!Sessions
  <2> QED
    BY <2>1, <2>3 DEF Promise!Next
<1> QED
  BY <1>1, <1>2, Invariance, PTL DEF Spec, ImplementsMeasurement, Promise!Spec

=============================================================================
