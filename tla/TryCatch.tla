------------------------------ MODULE TryCatch ------------------------------
(***************************************************************************)
(* The fault handling of header/cache_utils.h, in a program with blocks    *)
(*                                                                         *)
(*   if (try_start()) { accesses; perhaps try_abort(); } try_end();        *)
(*                                                                         *)
(* that may be nested and follow one another.  On an x86 machine with TSX  *)
(* a block is a transaction; elsewhere try_start installs a handler for    *)
(* every signal and calls setjmp, and the handler jumps back.              *)
(*                                                                         *)
(* setjmp's caller, try_start, has returned by then, and C says nothing of *)
(* such a jump.  What builds do: the jump returns from try_start, with     *)
(* zero; or, because a later call has left its return address where        *)
(* try_start's was, from that call.                                        *)
(*                                                                         *)
(* A blocked signal that is sent is taken here for one that is sent later. *)
(***************************************************************************)
EXTENDS Integers

CONSTANTS
  NSigs,    \* the signals are 1 to NSigs (in the code 1 to 31)
  FaultSig, \* the one of an access that faults
  MaxDepth, \* bound: how deeply the program nests its blocks
  MaxNest   \* how deeply the processor nests transactions

Sigs   == 1 .. NSigs
Levels == 1 .. MaxDepth

ASSUME TryAssumption == NSigs \in Nat /\ FaultSig \in Sigs /\ MaxDepth \in Nat /\ MaxNest \in Nat

VARIABLES
  tsx,        \* what has_tsx says
  pc,         \* "code" of the program, or inside "install" (try_start),
              \* "restore" (try_end) or "handler"; "dead"
  k,          \* the signal that the loop there is at
  from,       \* where the handler was called
  disp,       \* disp[s]: the disposition "dfl", "app" or "catch"
  mask,       \* the signals that are blocked
  buf,        \* trycatch_buf: the level of the block that set it, or 0
  depth,      \* how many blocks are open
  failed,     \* the open ones whose try_start has returned 0
  nest,       \* TSX: how many transactions are open within one another
  saved,      \* TSX: how many blocks were open when the outermost began
  bare,       \* history: the open blocks inside which a try_end or, with
              \* TSX, a try_abort has been called since
  aborted,    \* history: the open blocks that have called try_abort
  loose,      \* history: a jump has left try_start or try_end half done or,
              \* with TSX, a block has ended without a try_abort, and no
              \* whole one (no end of the transaction) has come since
  appMask     \* history: what the program had blocked itself

sigVars   == <<disp, mask, buf>>
blockVars == <<depth, failed, bare, aborted>>
tsxVars   == <<nest, saved>>
vars == <<tsx, pc, k, from, sigVars, blockVars, tsxVars, loose, appMask>>

TypeOK ==
  /\ tsx \in BOOLEAN
  /\ pc \in {"code", "install", "restore", "handler", "dead"}
  /\ k \in 1 .. NSigs + 1
  /\ from \in {"code", "install", "restore"}
  /\ disp \in [Sigs -> {"dfl", "app", "catch"}]
  /\ mask \subseteq Sigs
  /\ buf \in 0 .. MaxDepth /\ depth \in 0 .. MaxDepth
  /\ failed \subseteq Levels /\ bare \subseteq Levels /\ aborted \subseteq Levels
  /\ nest \in 0 .. MaxNest /\ saved \in 0 .. MaxDepth
  /\ loose \in BOOLEAN /\ appMask \subseteq Sigs

\* cpuid: leaf 7 is there, and has the bit.
HasTsx(max, ebx) == max >= 7 /\ 11 \in ebx

\* The program has handlers of its own, and may have signals blocked, but not
\* the one of a fault.
Init ==
  /\ \E max \in {6, 7}, ebx \in SUBSET {11} : tsx = HasTsx(max, ebx)
  /\ pc = "code" /\ k = 1 /\ from = "code"
  /\ disp \in [Sigs -> {"dfl", "app"}] /\ disp[FaultSig] = "dfl"
  /\ appMask \in SUBSET (Sigs \ {FaultSig}) /\ mask = appMask
  /\ buf = 0 /\ depth = 0 /\ failed = {} /\ bare = {} /\ aborted = {}
  /\ nest = 0 /\ saved = 0 /\ loose = FALSE

-----------------------------------------------------------------------------

\* The program is in the body of its innermost block.
InBody == pc = "code" /\ depth > 0 /\ depth \notin failed

\* It can begin a block here.
CanStart == pc = "code" /\ depth < MaxDepth /\ depth \notin failed

\* A block begins: with try_start's result.
Opens(result) ==
  /\ depth' = depth + 1
  /\ failed' = IF result THEN failed ELSE failed \cup {depth + 1}
  /\ bare' = bare \ {depth + 1} /\ aborted' = aborted \ {depth + 1}

\* The innermost block is over.
Closes ==
  /\ depth' = depth - 1
  /\ failed' = failed \ {depth} /\ aborted' = aborted \ {depth}

-----------------------------------------------------------------------------
(* try_start, try_end and the handler, without TSX *)

TryStart ==
  /\ ~tsx /\ CanStart
  /\ pc' = "install" /\ k' = 1
  /\ UNCHANGED <<tsx, from, sigVars, blockVars, tsxVars, loose, appMask>>

Install ==
  /\ pc = "install" /\ k \in Sigs
  /\ disp' = [disp EXCEPT ![k] = "catch"] /\ k' = k + 1
  /\ UNCHANGED <<tsx, pc, from, mask, buf, blockVars, tsxVars, loose, appMask>>

Setjmp ==
  /\ pc = "install" /\ k \notin Sigs
  /\ buf' = depth + 1 /\ Opens(TRUE)
  /\ pc' = "code" /\ k' = 1
  /\ loose' = FALSE
  /\ UNCHANGED <<tsx, from, disp, mask, tsxVars, appMask>>

TryEnd ==
  /\ ~tsx /\ pc = "code" /\ depth > 0
  /\ pc' = "restore" /\ k' = 1
  /\ UNCHANGED <<tsx, from, sigVars, blockVars, tsxVars, loose, appMask>>

\* Mutant: the handlers stay.
RestoreNothing ==
  /\ pc = "restore" /\ k \in Sigs
  /\ k' = k + 1
  /\ UNCHANGED <<tsx, pc, from, sigVars, blockVars, tsxVars, loose, appMask>>

\* The disposition is the default afterwards, whatever it was before.
Restore ==
  /\ pc = "restore" /\ k \in Sigs
  /\ disp' = [disp EXCEPT ![k] = "dfl"] /\ k' = k + 1
  /\ UNCHANGED <<tsx, pc, from, mask, buf, blockVars, tsxVars, loose, appMask>>

TryEndReturns ==
  /\ pc = "restore" /\ k \notin Sigs
  /\ Closes /\ bare' = 1 .. depth - 1
  /\ pc' = "code" /\ k' = 1 /\ loose' = FALSE
  /\ UNCHANGED <<tsx, from, sigVars, tsxVars, appMask>>

\* A signal that is not blocked calls the handler, with the signal blocked,
\* or ends the program; a handler of the program's own returns.
Delivered(s) ==
  /\ IF disp[s] = "catch" /\ s \notin mask
     THEN /\ pc' = "handler" /\ k' = 1 /\ mask' = mask \cup {s}
          /\ from' = IF pc = "handler" THEN from ELSE pc
     ELSE pc' = "dead" /\ UNCHANGED <<k, mask, from>>
  /\ UNCHANGED <<tsx, disp, buf, blockVars, tsxVars, loose, appMask>>

\* An access faults, or there is a try_abort, which accesses address 0.  The
\* signal of a fault cannot wait.
Fault == ~tsx /\ InBody /\ Delivered(FaultSig)

\* A signal from elsewhere arrives, at any point.
Arrives(s) ==
  /\ ~tsx /\ pc # "dead" /\ s \notin mask /\ disp[s] # "app"
  /\ Delivered(s)

\* Mutant: the set of signals to unblock is empty.
UnblockNothing ==
  /\ pc = "handler" /\ k \in Sigs
  /\ k' = k + 1
  /\ UNCHANGED <<tsx, pc, from, sigVars, blockVars, tsxVars, loose, appMask>>

\* Mutant: the loop ends one signal early.
UnblockShort ==
  /\ pc = "handler" /\ k \in Sigs
  /\ mask' = (IF k = NSigs THEN mask ELSE mask \ {k}) /\ k' = k + 1
  /\ UNCHANGED <<tsx, pc, from, disp, buf, blockVars, tsxVars, loose, appMask>>

\* trycatch_segfault_handler unblocks all signals, one by one, ...
Unblock ==
  /\ pc = "handler" /\ k \in Sigs
  /\ mask' = mask \ {k} /\ k' = k + 1
  /\ UNCHANGED <<tsx, pc, from, disp, buf, blockVars, tsxVars, loose, appMask>>

\* Mutant: a buffer that was never set is taken for one of a block.
ReturnsZeroUnset ==
  /\ depth' = buf
  /\ failed' = (failed \cap 1 .. buf) \cup {buf}
  /\ bare' = bare \cap 1 .. buf /\ aborted' = aborted \cap 1 .. buf
  /\ UNCHANGED loose

\* ... and jumps: try_start of the block that set trycatch_buf returns 0, ...
ReturnsZero ==
  /\ buf > 0 /\ depth' = buf
  /\ failed' = (failed \cap 1 .. buf) \cup {buf}
  /\ bare' = bare \cap 1 .. buf /\ aborted' = aborted \cap 1 .. buf
  /\ UNCHANGED loose

\* ... or the call that was interrupted does: an access, try_start, try_end.
InterruptedReturns ==
  /\ buf > 0
  /\ \/ from = "code" /\ UNCHANGED <<blockVars, loose>>
     \/ from = "install" /\ Opens(FALSE) /\ loose' = TRUE
     \/ from = "restore" /\ Closes /\ bare' = 1 .. depth - 1 /\ loose' = TRUE

Longjmp ==
  /\ pc = "handler" /\ k \notin Sigs
  /\ pc' = "code" /\ k' = 1 /\ from' = "code"
  /\ ReturnsZero \/ InterruptedReturns
  /\ UNCHANGED <<tsx, sigVars, tsxVars, appMask>>

\* A buffer that was never set, or whose block is over, leads anywhere.
LongjmpDies ==
  /\ pc = "handler" /\ k \notin Sigs /\ buf \notin 1 .. depth
  /\ pc' = "dead"
  /\ UNCHANGED <<tsx, k, from, sigVars, blockVars, tsxVars, loose, appMask>>

-----------------------------------------------------------------------------
(* The same with TSX *)

Xbegin ==
  /\ tsx /\ CanStart /\ nest < MaxNest
  /\ nest' = nest + 1 /\ saved' = IF nest = 0 THEN depth ELSE saved
  /\ Opens(TRUE)
  /\ UNCHANGED <<tsx, pc, k, from, sigVars, loose, appMask>>

\* An access faults, or the processor gives up the transaction, at any point:
\* everything is as it was when the outermost began, but for its result.
TxAborts ==
  /\ nest > 0 /\ pc = "code"
  /\ nest' = 0 /\ depth' = saved + 1 /\ failed' = {saved + 1}
  /\ bare' = 1 .. saved /\ aborted' = 1 .. saved
  /\ loose' = FALSE
  /\ UNCHANGED <<tsx, pc, k, from, sigVars, saved, appMask>>

\* A fault outside a transaction is one of an ordinary program.
TxFault ==
  /\ tsx /\ InBody /\ nest = 0
  /\ pc' = "dead"
  /\ UNCHANGED <<tsx, k, from, sigVars, blockVars, tsxVars, loose, appMask>>

\* try_abort executes XEND, which commits, and which faults outside a
\* transaction (TxFault).
TryAbort ==
  /\ tsx /\ InBody /\ nest > 0
  /\ nest' = nest - 1
  /\ bare' = 1 .. depth /\ aborted' = aborted \cup {depth}
  /\ loose' = (loose /\ nest > 1)
  /\ UNCHANGED <<tsx, pc, k, from, sigVars, depth, failed, saved, appMask>>

\* try_end does nothing, and the transaction goes on.
TxTryEnd ==
  /\ tsx /\ pc = "code" /\ depth > 0
  /\ Closes /\ bare' = bare \ {depth}
  /\ loose' = (loose \/ depth \notin failed \cup aborted)
  /\ UNCHANGED <<tsx, pc, k, from, sigVars, tsxVars, appMask>>

-----------------------------------------------------------------------------

Next ==
  \/ TryStart \/ Install \/ Setjmp
  \/ TryEnd \/ Restore \/ TryEndReturns
  \/ Fault \/ \E s \in Sigs : Arrives(s)
  \/ Unblock \/ Longjmp \/ LongjmpDies
  \/ Xbegin \/ TxAborts \/ TxFault \/ TryAbort \/ TxTryEnd

Spec == Init /\ [][Next]_vars

-----------------------------------------------------------------------------
(* Properties *)

\* A fault in the body of a block does not end the program, in whatever block
\* and after however many faults, unless a block within it has been ended
\* (try_end takes the handlers away for all) or, with TSX, try_abort has been
\* called (which commits) (header/cache_utils.h: try_start, try_end,
\* trycatch_segfault_handler).
FaultsAreCaught == [][(Fault \/ TxFault) /\ depth \notin bare => pc' # "dead"]_vars

\* Where control goes back to, a jump or an aborted transaction.
Target == IF tsx THEN saved + 1 ELSE buf

\* Control goes back only to a block that is open, unless the signal came in
\* try_start before setjmp, or an earlier one in try_end, or, with TSX, a
\* block has ended without a try_abort (header/cache_utils.h: trycatch_buf).
JumpIsLive ==
  (pc = "handler" /\ from # "install") \/ nest > 0 => Target \in 1 .. depth \/ loose

\* After a fault no signal is blocked that was not before: the next fault, or
\* the next of another kind, is caught like the first (header/cache_utils.h:
\* trycatch_segfault_handler, which leaves by longjmp and so must unblock).
NothingStaysBlocked == pc \in {"code", "install", "restore"} => mask \subseteq appMask

=============================================================================
