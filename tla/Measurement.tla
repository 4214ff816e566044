----------------------------- MODULE Measurement -----------------------------
(***************************************************************************)
(* What the library promises of a session, on x86_64 and aarch64 alike: a  *)
(* program reads a counter twice, and the difference is the number of its  *)
(* events in between.                                                      *)
(*                                                                         *)
(* How far that can be relied on depends on who else uses the registers.   *)
(* A session's trust says it, and can only fall: "exact", or "atmost" once *)
(* events may be missed, or "none".                                        *)
(***************************************************************************)
EXTENDS Integers

CONSTANTS
  Procs,  \* the processes
  Wrap    \* how many values the counters have; 0 if they do not wrap

VARIABLE session  \* session[p]: the session that process p is in

Below(trust) ==
  CASE trust = "exact"  -> {"exact", "atmost", "none"}
    [] trust = "atmost" -> {"atmost", "none"}
    [] trust = "none"   -> {"none"}

\* The events counted since the first reading; the difference that was
\* measured, once the second one has been made.
Sessions ==
  [phase : {"out", "counting", "done"}, trust : {"exact", "atmost", "none"},
   count : Nat, value : Int]

Out == [phase |-> "out", trust |-> "none", count |-> 0, value |-> 0]

\* What may be measured when n events have been counted.
Result(trust, n, v) ==
  CASE trust = "exact"  -> v \in {n, n - Wrap}
    [] trust = "atmost" -> v <= n
    [] trust = "none"   -> TRUE

-----------------------------------------------------------------------------
(* How the session s of a process becomes t *)

Begins(s, t) ==
  /\ s.phase = "out"
  /\ t = [phase |-> "counting", trust |-> t.trust, count |-> 0, value |-> 0]

Counts(s, t) == s.phase = "counting" /\ t = [s EXCEPT !.count = @ + 1]

Falls(s, t) ==
  s.phase # "out" /\ t.trust \in Below(s.trust) /\ t = [s EXCEPT !.trust = t.trust]

Ends(s, t) ==
  /\ s.phase = "counting"
  /\ t = [phase |-> "done", trust |-> s.trust, count |-> s.count, value |-> t.value]
  /\ Result(s.trust, s.count, t.value)

Leaves(s, t) == s.phase # "out" /\ t = Out

Moves(s, t) ==
  s = t \/ Begins(s, t) \/ Counts(s, t) \/ Falls(s, t) \/ Ends(s, t) \/ Leaves(s, t)

Init == session = [p \in Procs |-> Out]

\* An event, or a write to a register, concerns several sessions at once.
Next ==
  /\ session' \in [Procs -> Sessions]
  /\ \A p \in Procs : Moves(session[p], session'[p])

Spec == Init /\ [][Next]_session

=============================================================================
