--------------------------- MODULE TryCatchProofs ---------------------------
(***************************************************************************)
(* The four properties of TryCatch, for any number of signals and any      *)
(* depth of blocks.  IInv is the inductive invariant; each of its parts    *)
(* says what a half-finished call has established so far, or what an open  *)
(* block can rely on.                                                      *)
(***************************************************************************)
EXTENDS TryCatch, FiniteSetTheorems, TLAPS

\* With TSX no call is ever half done; without it no transaction is open.
Kinds == (tsx => pc \in {"code", "dead"}) /\ (~tsx => nest = 0)

\* Where the program, or what a signal has interrupted, is.
At == IF pc = "handler" THEN from ELSE pc

Bounded ==
  /\ At = "install" => depth < MaxDepth
  /\ At = "restore" => depth > 0
  /\ nest > 0 => saved < MaxDepth

\* The handler has still to unblock the signals from k on.
Waiting ==
  /\ appMask \subseteq Sigs \ {FaultSig}
  /\ pc \in {"code", "install", "restore"} => mask \subseteq appMask
  /\ pc = "handler" => mask \subseteq appMask \cup k .. NSigs

\* The loops of try_start and try_end have done the signals before k.
Looping ==
  /\ pc = "install" => \A s \in Sigs : s < k => disp[s] = "catch"
  /\ pc = "restore" => \A s \in Sigs : s < k => disp[s] = "dfl"

\* A body that nobody has disarmed has all its handlers.
Armed ==
  ~tsx /\ At = "code" /\ depth > 0 /\ depth \notin failed \cup bare
     => \A s \in Sigs : disp[s] = "catch"

\* While a handler is installed, the block it leads to is open.
Live ==
  /\ ~tsx /\ ~loose /\ pc \in {"code", "restore"} /\ (\E s \in Sigs : disp[s] = "catch")
        => buf \in 1 .. depth
  /\ ~loose /\ pc = "handler" /\ from # "install" => buf \in 1 .. depth

\* The open blocks of the transaction that have not called try_abort.
Pending == (saved + 1 .. depth) \ aborted

Transaction ==
  /\ failed \subseteq 1 .. depth
  /\ nest > 0 => \A d \in failed : d <= saved
  /\ tsx /\ nest = 0 => 1 .. depth \subseteq failed \cup bare
  /\ nest > 0 /\ ~loose => nest <= Cardinality(Pending)

IInv == TypeOK /\ Kinds /\ Bounded /\ Waiting /\ Looping /\ Armed /\ Live /\ Transaction

-----------------------------------------------------------------------------
\* Which half of the code runs is decided once.
LEMMA KindsKept == Kinds /\ [Next]_vars => Kinds'
<1> SUFFICES ASSUME Kinds, [Next]_vars PROVE Kinds'
  OBVIOUS
<1> USE TryAssumption DEF Kinds, Sigs, Levels, sigVars, blockVars, tsxVars
<1>1. CASE TryStart
  BY <1>1 DEF TryStart, CanStart, InBody
<1>2. CASE Install
  BY <1>2 DEF Install
<1>3. CASE Setjmp
  BY <1>3 DEF Setjmp, Opens
<1>4. CASE TryEnd
  BY <1>4 DEF TryEnd
<1>5. CASE Restore
  BY <1>5 DEF Restore
<1>6. CASE TryEndReturns
  BY <1>6 DEF TryEndReturns, Closes
<1>7. CASE Fault
  BY <1>7 DEF Fault, InBody, Delivered
<1>8. ASSUME NEW s \in Sigs, Arrives(s) PROVE Kinds'
  BY <1>8 DEF Arrives, Delivered
<1>9. CASE Unblock
  BY <1>9 DEF Unblock
<1>10. CASE Longjmp
  BY <1>10 DEF Longjmp, ReturnsZero, InterruptedReturns, Opens, Closes
<1>11. CASE LongjmpDies
  BY <1>11 DEF LongjmpDies
<1>12. CASE Xbegin
  BY <1>12 DEF Xbegin, CanStart, Opens
<1>13. CASE TxAborts
  BY <1>13 DEF TxAborts
<1>14. CASE TxFault
  BY <1>14 DEF TxFault, InBody
<1>15. CASE TryAbort
  BY <1>15 DEF TryAbort, InBody
<1>16. CASE TxTryEnd
  BY <1>16 DEF TxTryEnd, Closes
<1>17. CASE UNCHANGED vars
  BY <1>17 DEF vars
<1> QED
  BY <1>1, <1>2, <1>3, <1>4, <1>5, <1>6, <1>7, <1>8, <1>9,
     <1>10, <1>11, <1>12, <1>13, <1>14, <1>15, <1>16, <1>17 DEF Next

\* The type invariant needs only the bounds on the levels of half-done calls.
LEMMA TypeKept == TypeOK /\ Bounded /\ [Next]_vars => TypeOK'
<1> SUFFICES ASSUME TypeOK /\ Bounded, [Next]_vars PROVE TypeOK'
  OBVIOUS
<1> USE TryAssumption DEF TypeOK, Bounded, At, Sigs, Levels, sigVars, blockVars, tsxVars
<1>1. CASE TryStart
  BY <1>1 DEF TryStart, CanStart, InBody
<1>2. CASE Install
  BY <1>2 DEF Install
<1>3. CASE Setjmp
  <2>1. depth' \in 0 .. MaxDepth /\ buf' \in 0 .. MaxDepth /\ k' \in 1 .. NSigs + 1
    BY <1>3 DEF Setjmp, Opens
  <2>2. failed' \subseteq Levels
    BY <1>3 DEF Setjmp, Opens
  <2>3. bare' \subseteq Levels /\ aborted' \subseteq Levels
    BY <1>3 DEF Setjmp, Opens
  <2>4. /\ mask' \subseteq Sigs /\ disp' \in [Sigs -> {"dfl", "app", "catch"}]
        /\ appMask' \subseteq Sigs
    BY <1>3 DEF Setjmp, Opens
  <2>5. /\ tsx' \in BOOLEAN /\ pc' \in {"code", "install", "restore", "handler", "dead"}
        /\ from' \in {"code", "install", "restore"} /\ loose' \in BOOLEAN
        /\ nest' \in 0 .. MaxNest /\ saved' \in 0 .. MaxDepth
    BY <1>3 DEF Setjmp, Opens
  <2> QED
    BY <2>1, <2>2, <2>3, <2>4, <2>5
<1>4. CASE TryEnd
  BY <1>4 DEF TryEnd
<1>5. CASE Restore
  BY <1>5 DEF Restore
<1>6. CASE TryEndReturns
  <2>1. depth' \in 0 .. MaxDepth /\ buf' \in 0 .. MaxDepth /\ k' \in 1 .. NSigs + 1
    BY <1>6 DEF TryEndReturns, Closes
  <2>2. failed' \subseteq Levels
    BY <1>6 DEF TryEndReturns, Closes
  <2>3. bare' \subseteq Levels /\ aborted' \subseteq Levels
    BY <1>6 DEF TryEndReturns, Closes
  <2>4. /\ mask' \subseteq Sigs /\ disp' \in [Sigs -> {"dfl", "app", "catch"}]
        /\ appMask' \subseteq Sigs
    BY <1>6 DEF TryEndReturns, Closes
  <2>5. /\ tsx' \in BOOLEAN /\ pc' \in {"code", "install", "restore", "handler", "dead"}
        /\ from' \in {"code", "install", "restore"} /\ loose' \in BOOLEAN
        /\ nest' \in 0 .. MaxNest /\ saved' \in 0 .. MaxDepth
    BY <1>6 DEF TryEndReturns, Closes
  <2> QED
    BY <2>1, <2>2, <2>3, <2>4, <2>5
<1>7. CASE Fault
  <2>1. depth' \in 0 .. MaxDepth /\ buf' \in 0 .. MaxDepth /\ k' \in 1 .. NSigs + 1
    BY <1>7 DEF Fault, InBody, Delivered
  <2>2. failed' \subseteq Levels
    BY <1>7 DEF Fault, InBody, Delivered
  <2>3. bare' \subseteq Levels /\ aborted' \subseteq Levels
    BY <1>7 DEF Fault, InBody, Delivered
  <2>4. /\ mask' \subseteq Sigs /\ disp' \in [Sigs -> {"dfl", "app", "catch"}]
        /\ appMask' \subseteq Sigs
    BY <1>7 DEF Fault, InBody, Delivered
  <2>5. /\ tsx' \in BOOLEAN /\ pc' \in {"code", "install", "restore", "handler", "dead"}
        /\ from' \in {"code", "install", "restore"} /\ loose' \in BOOLEAN
        /\ nest' \in 0 .. MaxNest /\ saved' \in 0 .. MaxDepth
    BY <1>7 DEF Fault, InBody, Delivered
  <2> QED
    BY <2>1, <2>2, <2>3, <2>4, <2>5
<1>8. ASSUME NEW s \in Sigs, Arrives(s) PROVE TypeOK'
  <2>1. depth' \in 0 .. MaxDepth /\ buf' \in 0 .. MaxDepth /\ k' \in 1 .. NSigs + 1
    BY <1>8 DEF Arrives, Delivered
  <2>2. failed' \subseteq Levels
    BY <1>8 DEF Arrives, Delivered
  <2>3. bare' \subseteq Levels /\ aborted' \subseteq Levels
    BY <1>8 DEF Arrives, Delivered
  <2>4. /\ mask' \subseteq Sigs /\ disp' \in [Sigs -> {"dfl", "app", "catch"}]
        /\ appMask' \subseteq Sigs
    BY <1>8 DEF Arrives, Delivered
  <2>5. /\ tsx' \in BOOLEAN /\ pc' \in {"code", "install", "restore", "handler", "dead"}
        /\ from' \in {"code", "install", "restore"} /\ loose' \in BOOLEAN
        /\ nest' \in 0 .. MaxNest /\ saved' \in 0 .. MaxDepth
    BY <1>8 DEF Arrives, Delivered
  <2> QED
    BY <2>1, <2>2, <2>3, <2>4, <2>5
<1>9. CASE Unblock
  BY <1>9 DEF Unblock
<1>10. CASE Longjmp
  <2>1. CASE ReturnsZero
    <3>1. buf \in 1 .. MaxDepth /\ 1 .. buf \subseteq Levels
      BY <2>1 DEF ReturnsZero
    <3>2. failed' \subseteq Levels
      BY <2>1, <3>1 DEF ReturnsZero
    <3>3. bare' \subseteq Levels /\ aborted' \subseteq Levels
      BY <2>1, <3>1 DEF ReturnsZero
    <3> QED
      BY <1>10, <2>1, <3>1, <3>2, <3>3 DEF Longjmp, ReturnsZero
  <2>2. CASE from = "code" /\ UNCHANGED <<blockVars, loose>>
    BY <1>10, <2>2 DEF Longjmp
  <2>3. CASE from = "install" /\ Opens(FALSE) /\ loose' = TRUE
    <3>1. depth' \in 0 .. MaxDepth /\ failed' \subseteq Levels
      BY <1>10, <2>3 DEF Longjmp, Opens
    <3>2. bare' \subseteq Levels /\ aborted' \subseteq Levels
      BY <1>10, <2>3 DEF Longjmp, Opens
    <3> QED
      BY <1>10, <2>3, <3>1, <3>2 DEF Longjmp
  <2>4. CASE from = "restore" /\ Closes /\ bare' = 1 .. depth - 1 /\ loose' = TRUE
    <3>1. depth' \in 0 .. MaxDepth /\ failed' \subseteq Levels
      BY <1>10, <2>4 DEF Longjmp, Closes
    <3>2. bare' \subseteq Levels /\ aborted' \subseteq Levels
      BY <1>10, <2>4 DEF Longjmp, Closes
    <3> QED
      BY <1>10, <2>4, <3>1, <3>2 DEF Longjmp
  <2> QED
    BY <1>10, <2>1, <2>2, <2>3, <2>4 DEF Longjmp, InterruptedReturns
<1>11. CASE LongjmpDies
  BY <1>11 DEF LongjmpDies
<1>12. CASE Xbegin
  BY <1>12 DEF Xbegin, CanStart, Opens
<1>13. CASE TxAborts
  <2>1. depth' \in 0 .. MaxDepth /\ failed' \subseteq Levels
    BY <1>13 DEF TxAborts
  <2>2. bare' \subseteq Levels /\ aborted' \subseteq Levels
    BY <1>13 DEF TxAborts
  <2>3. loose' \in BOOLEAN /\ nest' \in 0 .. MaxNest
    <3>1. loose' = FALSE /\ nest' = 0
      BY <1>13 DEF TxAborts
    <3>2. loose' \in BOOLEAN
      BY <3>1
    <3>3. nest' \in 0 .. MaxNest
      BY <3>1
    <3> QED
      BY <3>2, <3>3
  <2>4. UNCHANGED <<tsx, pc, k, from, sigVars, saved, appMask>>
    BY <1>13 DEF TxAborts
  <2> QED
    BY <2>1, <2>2, <2>3, <2>4
<1>14. CASE TxFault
  BY <1>14 DEF TxFault, InBody
<1>15. CASE TryAbort
  BY <1>15 DEF TryAbort, InBody
<1>16. CASE TxTryEnd
  BY <1>16 DEF TxTryEnd, Closes
<1>17. CASE UNCHANGED vars
  BY <1>17 DEF vars
<1> QED
  BY <1>1, <1>2, <1>3, <1>4, <1>5, <1>6, <1>7, <1>8, <1>9,
     <1>10, <1>11, <1>12, <1>13, <1>14, <1>15, <1>16, <1>17 DEF Next

\* A call begins only where there is a level for it.
LEMMA BoundedKept == TypeOK /\ Bounded /\ [Next]_vars => Bounded'
<1> SUFFICES ASSUME TypeOK /\ Bounded, [Next]_vars PROVE Bounded'
  OBVIOUS
<1> USE TryAssumption DEF TypeOK, Bounded, At, Sigs, Levels, sigVars, blockVars, tsxVars
<1>1. CASE TryStart
  BY <1>1 DEF TryStart, CanStart, InBody
<1>2. CASE Install
  BY <1>2 DEF Install
<1>3. CASE Setjmp
  BY <1>3 DEF Setjmp, Opens
<1>4. CASE TryEnd
  BY <1>4 DEF TryEnd
<1>5. CASE Restore
  BY <1>5 DEF Restore
<1>6. CASE TryEndReturns
  BY <1>6 DEF TryEndReturns, Closes
<1>7. CASE Fault
  BY <1>7 DEF Fault, InBody, Delivered
<1>8. ASSUME NEW s \in Sigs, Arrives(s) PROVE Bounded'
  BY <1>8 DEF Arrives, Delivered
<1>9. CASE Unblock
  BY <1>9 DEF Unblock
<1>10. CASE Longjmp
  BY <1>10 DEF Longjmp, ReturnsZero, InterruptedReturns, Opens, Closes
<1>11. CASE LongjmpDies
  BY <1>11 DEF LongjmpDies
<1>12. CASE Xbegin
  BY <1>12 DEF Xbegin, CanStart, Opens
<1>13. CASE TxAborts
  BY <1>13 DEF TxAborts
<1>14. CASE TxFault
  BY <1>14 DEF TxFault, InBody
<1>15. CASE TryAbort
  BY <1>15 DEF TryAbort, InBody
<1>16. CASE TxTryEnd
  BY <1>16 DEF TxTryEnd, Closes
<1>17. CASE UNCHANGED vars
  BY <1>17 DEF vars
<1> QED
  BY <1>1, <1>2, <1>3, <1>4, <1>5, <1>6, <1>7, <1>8, <1>9,
     <1>10, <1>11, <1>12, <1>13, <1>14, <1>15, <1>16, <1>17 DEF Next

\* What the handler blocks, it has unblocked when it leaves.
LEMMA WaitingKept == TypeOK /\ Waiting /\ [Next]_vars => Waiting'
<1> SUFFICES ASSUME TypeOK /\ Waiting, [Next]_vars PROVE Waiting'
  OBVIOUS
<1> USE TryAssumption DEF TypeOK, Waiting, Sigs, Levels, sigVars, blockVars, tsxVars
<1>1. CASE TryStart
  BY <1>1 DEF TryStart, CanStart, InBody
<1>2. CASE Install
  BY <1>2 DEF Install
<1>3. CASE Setjmp
  BY <1>3 DEF Setjmp, Opens
<1>4. CASE TryEnd
  BY <1>4 DEF TryEnd
<1>5. CASE Restore
  BY <1>5 DEF Restore
<1>6. CASE TryEndReturns
  BY <1>6 DEF TryEndReturns, Closes
<1>7. CASE Fault
  BY <1>7 DEF Fault, InBody, Delivered
<1>8. ASSUME NEW s \in Sigs, Arrives(s) PROVE Waiting'
  BY <1>8 DEF Arrives, Delivered
<1>9. CASE Unblock
  BY <1>9 DEF Unblock
<1>10. CASE Longjmp
  BY <1>10 DEF Longjmp, ReturnsZero, InterruptedReturns, Opens, Closes
<1>11. CASE LongjmpDies
  BY <1>11 DEF LongjmpDies
<1>12. CASE Xbegin
  BY <1>12 DEF Xbegin, CanStart, Opens
<1>13. CASE TxAborts
  BY <1>13 DEF TxAborts
<1>14. CASE TxFault
  BY <1>14 DEF TxFault, InBody
<1>15. CASE TryAbort
  BY <1>15 DEF TryAbort, InBody
<1>16. CASE TxTryEnd
  BY <1>16 DEF TxTryEnd, Closes
<1>17. CASE UNCHANGED vars
  BY <1>17 DEF vars
<1> QED
  BY <1>1, <1>2, <1>3, <1>4, <1>5, <1>6, <1>7, <1>8, <1>9,
     <1>10, <1>11, <1>12, <1>13, <1>14, <1>15, <1>16, <1>17 DEF Next

\* The loops go through the signals in order.
LEMMA LoopingKept == TypeOK /\ Looping /\ [Next]_vars => Looping'
<1> SUFFICES ASSUME TypeOK /\ Looping, [Next]_vars PROVE Looping'
  OBVIOUS
<1> USE TryAssumption DEF TypeOK, Looping, Sigs, Levels, sigVars, blockVars, tsxVars
<1>1. CASE TryStart
  BY <1>1 DEF TryStart, CanStart, InBody
<1>2. CASE Install
  BY <1>2 DEF Install
<1>3. CASE Setjmp
  BY <1>3 DEF Setjmp, Opens
<1>4. CASE TryEnd
  BY <1>4 DEF TryEnd
<1>5. CASE Restore
  BY <1>5 DEF Restore
<1>6. CASE TryEndReturns
  BY <1>6 DEF TryEndReturns, Closes
<1>7. CASE Fault
  BY <1>7 DEF Fault, InBody, Delivered
<1>8. ASSUME NEW s \in Sigs, Arrives(s) PROVE Looping'
  BY <1>8 DEF Arrives, Delivered
<1>9. CASE Unblock
  BY <1>9 DEF Unblock
<1>10. CASE Longjmp
  BY <1>10 DEF Longjmp, ReturnsZero, InterruptedReturns, Opens, Closes
<1>11. CASE LongjmpDies
  BY <1>11 DEF LongjmpDies
<1>12. CASE Xbegin
  BY <1>12 DEF Xbegin, CanStart, Opens
<1>13. CASE TxAborts
  BY <1>13 DEF TxAborts
<1>14. CASE TxFault
  BY <1>14 DEF TxFault, InBody
<1>15. CASE TryAbort
  BY <1>15 DEF TryAbort, InBody
<1>16. CASE TxTryEnd
  BY <1>16 DEF TxTryEnd, Closes
<1>17. CASE UNCHANGED vars
  BY <1>17 DEF vars
<1> QED
  BY <1>1, <1>2, <1>3, <1>4, <1>5, <1>6, <1>7, <1>8, <1>9,
     <1>10, <1>11, <1>12, <1>13, <1>14, <1>15, <1>16, <1>17 DEF Next

\* A new body has its handlers, and a try_end leaves only bare ones behind.
LEMMA ArmedKept == TypeOK /\ Kinds /\ Looping /\ Armed /\ [Next]_vars => Armed'
<1> SUFFICES ASSUME TypeOK /\ Kinds /\ Looping /\ Armed, [Next]_vars PROVE Armed'
  OBVIOUS
<1> USE TryAssumption DEF TypeOK, Kinds, Looping, Armed, At, Sigs, Levels,
     sigVars, blockVars, tsxVars
<1>1. CASE TryStart
  BY <1>1 DEF TryStart, CanStart, InBody
<1>2. CASE Install
  BY <1>2 DEF Install
<1>3. CASE Setjmp
  BY <1>3 DEF Setjmp, Opens
<1>4. CASE TryEnd
  BY <1>4 DEF TryEnd
<1>5. CASE Restore
  BY <1>5 DEF Restore
<1>6. CASE TryEndReturns
  BY <1>6 DEF TryEndReturns, Closes
<1>7. CASE Fault
  BY <1>7 DEF Fault, InBody, Delivered
<1>8. ASSUME NEW s \in Sigs, Arrives(s) PROVE Armed'
  BY <1>8 DEF Arrives, Delivered
<1>9. CASE Unblock
  BY <1>9 DEF Unblock
<1>10. CASE Longjmp
  BY <1>10 DEF Longjmp, ReturnsZero, InterruptedReturns, Opens, Closes
<1>11. CASE LongjmpDies
  BY <1>11 DEF LongjmpDies
<1>12. CASE Xbegin
  BY <1>12 DEF Xbegin, CanStart, Opens
<1>13. CASE TxAborts
  BY <1>13 DEF TxAborts
<1>14. CASE TxFault
  BY <1>14 DEF TxFault, InBody
<1>15. CASE TryAbort
  BY <1>15 DEF TryAbort, InBody
<1>16. CASE TxTryEnd
  BY <1>16 DEF TxTryEnd, Closes
<1>17. CASE UNCHANGED vars
  BY <1>17 DEF vars
<1> QED
  BY <1>1, <1>2, <1>3, <1>4, <1>5, <1>6, <1>7, <1>8, <1>9,
     <1>10, <1>11, <1>12, <1>13, <1>14, <1>15, <1>16, <1>17 DEF Next

\* The handlers are gone before the block that they lead to.
LEMMA LiveKept == TypeOK /\ Kinds /\ Looping /\ Live /\ [Next]_vars => Live'
<1> SUFFICES ASSUME TypeOK /\ Kinds /\ Looping /\ Live, [Next]_vars PROVE Live'
  OBVIOUS
<1> USE TryAssumption DEF TypeOK, Kinds, Looping, Live, Sigs, Levels, sigVars,
     blockVars, tsxVars
<1>1. CASE TryStart
  BY <1>1 DEF TryStart, CanStart, InBody
<1>2. CASE Install
  BY <1>2 DEF Install
<1>3. CASE Setjmp
  BY <1>3 DEF Setjmp, Opens
<1>4. CASE TryEnd
  BY <1>4 DEF TryEnd
<1>5. CASE Restore
  BY <1>5 DEF Restore
<1>6. CASE TryEndReturns
  BY <1>6 DEF TryEndReturns, Closes
<1>7. CASE Fault
  BY <1>7 DEF Fault, InBody, Delivered
<1>8. ASSUME NEW s \in Sigs, Arrives(s) PROVE Live'
  BY <1>8 DEF Arrives, Delivered
<1>9. CASE Unblock
  BY <1>9 DEF Unblock
<1>10. CASE Longjmp
  BY <1>10 DEF Longjmp, ReturnsZero, InterruptedReturns, Opens, Closes
<1>11. CASE LongjmpDies
  BY <1>11 DEF LongjmpDies
<1>12. CASE Xbegin
  BY <1>12 DEF Xbegin, CanStart, Opens
<1>13. CASE TxAborts
  BY <1>13 DEF TxAborts
<1>14. CASE TxFault
  BY <1>14 DEF TxFault, InBody
<1>15. CASE TryAbort
  BY <1>15 DEF TryAbort, InBody
<1>16. CASE TxTryEnd
  BY <1>16 DEF TxTryEnd, Closes
<1>17. CASE UNCHANGED vars
  BY <1>17 DEF vars
<1> QED
  BY <1>1, <1>2, <1>3, <1>4, <1>5, <1>6, <1>7, <1>8, <1>9,
     <1>10, <1>11, <1>12, <1>13, <1>14, <1>15, <1>16, <1>17 DEF Next

\* Two facts on cardinalities.
LEMMA OneMore ==
  ASSUME NEW S, NEW x, IsFiniteSet(S), x \notin S
  PROVE  Cardinality(S \cup {x}) = Cardinality(S) + 1 /\ Cardinality(S) \in Nat
BY FS_AddElement, FS_CardinalityType

LEMMA OneLess ==
  ASSUME NEW S, NEW x, IsFiniteSet(S)
  PROVE  /\ Cardinality(S) <= Cardinality(S \ {x}) + 1
         /\ Cardinality(S) \in Nat /\ Cardinality(S \ {x}) \in Nat
<1>1. IsFiniteSet(S \ {x}) /\ Cardinality(S \ {x}) =
             IF x \in S THEN Cardinality(S) - 1 ELSE Cardinality(S)
  BY FS_RemoveElement
<1>2. Cardinality(S) \in Nat /\ Cardinality(S \ {x}) \in Nat
  BY <1>1, FS_CardinalityType
<1> QED
  BY <1>1, <1>2

\* While a transaction is open and nothing is loose, so is a block of it.
LEMMA SomePending ==
  ASSUME TypeOK, Transaction, nest > 0, ~loose
  PROVE  saved + 1 \in 1 .. depth /\ IsFiniteSet(Pending)
<1> USE DEF TypeOK
<1>1. IsFiniteSet(Pending)
  <2>1. IsFiniteSet(saved + 1 .. depth)
    BY FS_Interval
  <2> QED
    BY <2>1, FS_Difference DEF Pending
<1>2. Pending # {}
  BY FS_EmptySet DEF Transaction
<1> QED
  BY <1>1, <1>2 DEF Pending

\* A try_abort takes one transaction and at most one block that owes one.
LEMMA TransactionKept ==
  TypeOK /\ Kinds /\ Bounded /\ Transaction /\ [Next]_vars
    => Transaction'
<1> SUFFICES ASSUME TypeOK /\ Kinds /\ Bounded /\ Transaction, [Next]_vars
             PROVE  Transaction'
  OBVIOUS
<1> USE TryAssumption DEF TypeOK, Kinds, Transaction, Sigs, Levels, sigVars,
     blockVars, tsxVars
<1>1. CASE TryStart
  BY <1>1 DEF TryStart, CanStart, InBody
<1>2. CASE Install
  BY <1>2 DEF Install
<1>3. CASE Setjmp
  BY <1>3 DEF Setjmp, Opens
<1>4. CASE TryEnd
  BY <1>4 DEF TryEnd
<1>5. CASE Restore
  BY <1>5 DEF Restore
<1>6. CASE TryEndReturns
  BY <1>6 DEF TryEndReturns, Closes
<1>7. CASE Fault
  BY <1>7 DEF Fault, InBody, Delivered
<1>8. ASSUME NEW s \in Sigs, Arrives(s) PROVE Transaction'
  BY <1>8 DEF Arrives, Delivered
<1>9. CASE Unblock
  BY <1>9 DEF Unblock
<1>10. CASE Longjmp
  <2>1. nest' = 0 /\ ~tsx'
    BY <1>10 DEF Longjmp
  <2>2. failed' \subseteq 1 .. depth'
    <3>1. CASE ReturnsZero
      BY <3>1 DEF ReturnsZero
    <3>2. CASE from = "code" /\ UNCHANGED <<blockVars, loose>>
      BY <3>2
    <3>3. CASE Opens(FALSE)
      BY <3>3 DEF Opens
    <3>4. CASE Closes
      BY <3>4 DEF Closes
    <3> QED
      BY <1>10, <3>1, <3>2, <3>3, <3>4 DEF Longjmp, InterruptedReturns
  <2> QED
    BY <2>1, <2>2
<1>11. CASE LongjmpDies
  BY <1>11 DEF LongjmpDies
<1>12. CASE Xbegin
  <2>1. /\ failed' = failed /\ depth' = depth + 1 /\ aborted' = aborted \ {depth + 1}
        /\ nest' = nest + 1 /\ loose' = loose /\ saved' = IF nest = 0 THEN depth ELSE saved
    BY <1>12 DEF Xbegin, Opens
  <2>2. ~loose' => nest' <= Cardinality(Pending')
    <3>1. CASE nest = 0
      <4>1. Pending' = {depth + 1}
        BY <2>1, <3>1 DEF Pending
      <4>2. Cardinality({depth + 1}) = 1
        BY FS_Singleton
      <4>3. nest' = 1
        BY <2>1, <3>1
      <4> QED
        BY <4>1, <4>2, <4>3
    <3>2. ASSUME nest > 0, ~loose PROVE nest' <= Cardinality(Pending')
      <4>1. saved + 1 \in 1 .. depth /\ IsFiniteSet(Pending)
        BY <3>2, SomePending
      <4>2. Pending' = Pending \cup {depth + 1} /\ depth + 1 \notin Pending
        BY <2>1, <3>2, <4>1 DEF Pending
      <4>3. Cardinality(Pending') = Cardinality(Pending) + 1 /\ Cardinality(Pending) \in Nat
        BY <4>1, <4>2, OneMore
      <4>4. nest <= Cardinality(Pending)
        BY <3>2
      <4>5. nest' = nest + 1 /\ nest \in Nat
        BY <2>1
      <4> QED
        BY <4>3, <4>4, <4>5
    <3>3. nest = 0 \/ nest > 0
      OBVIOUS
    <3> QED
      BY <2>1, <3>1, <3>2, <3>3 DEF Pending
  <2>3. /\ failed' \subseteq 1 .. depth' /\ nest' > 0
        /\ \A d \in failed' : d <= saved'
    BY <2>1
  <2> QED
    BY <2>2, <2>3
<1>13. CASE TxAborts
  BY <1>13 DEF TxAborts
<1>14. CASE TxFault
  BY <1>14 DEF TxFault, InBody
<1>15. CASE TryAbort
  <2>1. /\ nest' = nest - 1 /\ bare' = 1 .. depth /\ aborted' = aborted \cup {depth}
        /\ loose' = (loose /\ nest > 1) /\ UNCHANGED <<depth, failed, saved>>
    BY <1>15 DEF TryAbort
  <2>2. ASSUME nest' > 0, ~loose' PROVE nest' <= Cardinality(Pending')
    <3>1. ~loose /\ nest > 0
      BY <2>1, <2>2
    <3>2. IsFiniteSet(Pending)
      BY <3>1, SomePending
    <3>3. Pending' = Pending \ {depth}
      BY <2>1 DEF Pending
    <3>4. /\ Cardinality(Pending) <= Cardinality(Pending \ {depth}) + 1
          /\ Cardinality(Pending) \in Nat /\ Cardinality(Pending \ {depth}) \in Nat
      BY <3>2, OneLess
    <3>5. nest <= Cardinality(Pending) /\ nest' = nest - 1 /\ nest \in Nat
      BY <2>1, <3>1
    <3> QED
      BY <3>3, <3>4, <3>5
  <2>3. /\ failed' \subseteq 1 .. depth'
        /\ nest' > 0 => \A d \in failed' : d <= saved'
        /\ nest' = 0 => 1 .. depth' \subseteq failed' \cup bare'
    BY <2>1
  <2> QED
    BY <2>2, <2>3
<1>16. CASE TxTryEnd
  <2>1. /\ depth > 0 /\ depth' = depth - 1 /\ failed' = failed \ {depth}
        /\ aborted' = aborted \ {depth} /\ bare' = bare \ {depth}
        /\ loose' = (loose \/ depth \notin failed \cup aborted) /\ UNCHANGED <<nest, saved>>
    BY <1>16 DEF TxTryEnd, Closes
  <2>2. ASSUME nest > 0, ~loose' PROVE nest <= Cardinality(Pending')
    <3>1. ~loose /\ depth \in failed \cup aborted
      BY <2>1, <2>2
    <3>2. depth \notin failed
      BY <2>2, <3>1, SomePending
    <3>3. Pending' = Pending
      BY <2>1, <3>1, <3>2 DEF Pending
    <3> QED
      BY <2>2, <3>1, <3>3
  <2>3. /\ failed' \subseteq 1 .. depth'
        /\ nest > 0 => \A d \in failed' : d <= saved
        /\ nest = 0 /\ tsx => 1 .. depth' \subseteq failed' \cup bare'
    BY <2>1
  <2> QED
    BY <1>16, <2>1, <2>2, <2>3 DEF TxTryEnd
<1>17. CASE UNCHANGED vars
  <2>1. UNCHANGED <<tsx, nest, saved, loose, depth, failed, bare, aborted>>
    BY <1>17 DEF vars
  <2>2. Pending' = Pending
    BY <2>1 DEF Pending
  <2> QED
    BY <2>1, <2>2
<1> QED
  BY <1>1, <1>2, <1>3, <1>4, <1>5, <1>6, <1>7, <1>8, <1>9,
     <1>10, <1>11, <1>12, <1>13, <1>14, <1>15, <1>16, <1>17 DEF Next

-----------------------------------------------------------------------------

LEMMA Initially == Init => IInv
<1> SUFFICES ASSUME Init PROVE IInv
  OBVIOUS
<1> USE TryAssumption DEF Init, Sigs, Levels
<1>1. TypeOK
  <2>1. tsx \in BOOLEAN /\ loose \in BOOLEAN
    <3>1. PICK max, ebx : tsx = (max >= 7 /\ 11 \in ebx)
      BY DEF HasTsx
    <3> QED
      BY <3>1
  <2>2. disp \in [Sigs -> {"dfl", "app", "catch"}]
    OBVIOUS
  <2>3. /\ pc \in {"code", "install", "restore", "handler", "dead"}
        /\ from \in {"code", "install", "restore"} /\ k \in 1 .. NSigs + 1
        /\ mask \subseteq Sigs /\ appMask \subseteq Sigs
    OBVIOUS
  <2>4. /\ buf \in 0 .. MaxDepth /\ depth \in 0 .. MaxDepth
        /\ failed \subseteq Levels /\ bare \subseteq Levels /\ aborted \subseteq Levels
        /\ nest \in 0 .. MaxNest /\ saved \in 0 .. MaxDepth
    OBVIOUS
  <2> QED
    BY <2>1, <2>2, <2>3, <2>4 DEF TypeOK
<1>2. Kinds /\ Bounded /\ Waiting /\ Looping
  BY DEF Kinds, Bounded, At, Waiting, Looping
<1>3. Armed /\ Live /\ Transaction
  BY DEF Armed, At, Live, Transaction
<1> QED
  BY <1>1, <1>2, <1>3 DEF IInv

LEMMA Stays == IInv /\ [Next]_vars => IInv'
  BY TypeKept, KindsKept, BoundedKept, WaitingKept, LoopingKept, ArmedKept, LiveKept,
     TransactionKept DEF IInv

LEMMA Invariant == Spec => []IInv
  BY Initially, Stays, PTL DEF Spec

\* Every variable keeps its type: no jump leads below the bottom of the
\* nesting or above its top (header/cache_utils.h).
THEOREM TypeCorrect == Spec => []TypeOK
<1>1. IInv => TypeOK
  BY DEF IInv
<1> QED
  BY Invariant, <1>1, PTL

\* However often the handler is interrupted by other signals, it leaves none
\* blocked that the program has not blocked itself (header/cache_utils.h:
\* trycatch_segfault_handler).
THEOREM SignalsUnblocked == Spec => []NothingStaysBlocked
<1>1. IInv => NothingStaysBlocked
  BY DEF IInv, Waiting, NothingStaysBlocked
<1> QED
  BY Invariant, <1>1, PTL

\* A jump, and an aborted transaction, leads to an open block, but after the
\* half-done calls that loose names (header/cache_utils.h: trycatch_buf).
THEOREM JumpsAreLive == Spec => []JumpIsLive
<1>1. IInv => JumpIsLive
  <2> SUFFICES ASSUME IInv, ~loose, (pc = "handler" /\ from # "install") \/ nest > 0
               PROVE  Target \in 1 .. depth
    BY DEF JumpIsLive
  <2>1. CASE nest > 0
    BY <2>1, SomePending DEF IInv, Kinds, Target
  <2>2. CASE pc = "handler" /\ from # "install"
    BY <2>2 DEF IInv, Kinds, Live, Target
  <2> QED
    BY <2>1, <2>2
<1> QED
  BY Invariant, <1>1, PTL

\* No fault in a body that has its handlers, or its transaction, ends the
\* program (header/cache_utils.h: try_start, try_end).
THEOREM FaultsCaught == Spec => FaultsAreCaught
<1>1. ASSUME IInv, Fault \/ TxFault, depth \notin bare PROVE pc' # "dead"
  <2>1. CASE Fault
    <3>1. disp[FaultSig] = "catch"
      BY <1>1, <2>1, TryAssumption DEF IInv, TypeOK, Armed, At, Fault, InBody
    <3>2. FaultSig \notin mask
      BY <1>1, <2>1 DEF IInv, Waiting, Fault, InBody
    <3> QED
      BY <2>1, <3>1, <3>2 DEF Fault, Delivered
  <2>2. CASE TxFault
    BY <1>1, <2>2 DEF IInv, TypeOK, Transaction, TxFault, InBody
  <2> QED
    BY <1>1, <2>1, <2>2
<1>2. IInv /\ [Next]_vars => [(Fault \/ TxFault) /\ depth \notin bare => pc' # "dead"]_vars
  BY <1>1
<1> QED
  BY Invariant, <1>2, PTL DEF Spec, FaultsAreCaught

=============================================================================
