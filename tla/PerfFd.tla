------------------------------- MODULE PerfFd -------------------------------
(***************************************************************************)
(* perf_init and perf_deinit (header/pmu_utils.h, libpmu/pmu.c), which     *)
(* keep the descriptor of a cycle counter in the static variable perf_fd,  *)
(* in the descriptor table of a program that opens and closes files of its *)
(* own.  The program may call them in any order and any number of times.   *)
(*                                                                         *)
(* The number of a descriptor that is closed is given out again, lowest    *)
(* first.  libpmu has no perf_deinit, and its perf_fd starts as 0, which   *)
(* is a descriptor of the program: standard input.                         *)
(***************************************************************************)
EXTENDS Integers

CONSTANT MaxFd   \* the largest descriptor a process may have

ASSUME FdAssumption == MaxFd \in Nat

Fds == 0 .. MaxFd

VARIABLES
  library,   \* the half of the repository the program is built with
  fds,       \* what each descriptor is: "free", a file of the "app", or "perf"
  perf_fd,   \* the library's variable; -1 is what a failed call returns
  released,  \* history: perf_deinit was the last call of the two
  doubled    \* history: perf_init was called with a counter still open

fdVars == <<library, fds, perf_fd, released, doubled>>

FdTypeOK ==
  /\ library \in {"header", "libpmu"}
  /\ fds \in [Fds -> {"free", "app", "perf"}]
  /\ perf_fd \in Fds \cup {-1}
  /\ released \in BOOLEAN /\ doubled \in BOOLEAN

\* A program starts with standard input open; a static variable without an
\* initialiser is zero.
FdInit ==
  /\ library \in {"header", "libpmu"}
  /\ fds = [f \in Fds |-> IF f = 0 THEN "app" ELSE "free"]
  /\ perf_fd = IF library = "header" THEN -1 ELSE 0
  /\ released = FALSE /\ doubled = FALSE

-----------------------------------------------------------------------------

\* perf_fd is a descriptor of the counter, or of a file of the program's.
Counting  == perf_fd # -1 /\ fds[perf_fd] = "perf"
IsForeign == perf_fd # -1 /\ fds[perf_fd] = "app"

Free == {f \in Fds : fds[f] = "free"}

\* open, perf_event_open: the lowest number that is free.
Opens(f, kind) ==
  /\ f \in Free /\ \A g \in Free : f <= g
  /\ fds' = [fds EXCEPT ![f] = kind]

\* Mutant: a descriptor goes to perf_fd only if there is one.
EventOpensKept ==
  \/ \E f \in Fds : Opens(f, "perf") /\ perf_fd' = f
  \/ UNCHANGED <<perf_fd, fds>>

\* The system call of both perf_init gives a descriptor or, for many
\* reasons, -1, which goes to perf_fd as well.
EventOpens ==
  \/ \E f \in Fds : Opens(f, "perf") /\ perf_fd' = f
  \/ perf_fd' = -1 /\ UNCHANGED fds

\* The header returns -1 without a descriptor and else starts the counter.
PerfInit ==
  /\ library = "header"
  /\ EventOpens
  /\ released' = FALSE /\ doubled' = (doubled \/ Counting)
  /\ UNCHANGED library

\* libpmu asserts of an unsigned number that it is not negative, and goes on
\* in any case; its counter runs from the start.
PerfInitLib ==
  /\ library = "libpmu"
  /\ EventOpens
  /\ released' = FALSE /\ doubled' = (doubled \/ Counting)
  /\ UNCHANGED library

\* Mutant: perf_fd is invalidated first.
PerfDeinitForgets ==
  /\ library = "header"
  /\ perf_fd' = -1 /\ released' = TRUE
  /\ UNCHANGED <<library, fds, doubled>>

\* perf_fd keeps its value; close fails for what is not open, and closes
\* what is.
PerfDeinit ==
  /\ library = "header"
  /\ fds' = [f \in Fds |-> IF f = perf_fd THEN "free" ELSE fds[f]]
  /\ released' = TRUE
  /\ UNCHANGED <<library, perf_fd, doubled>>

AppOpens ==
  /\ \E f \in Fds : Opens(f, "app")
  /\ UNCHANGED <<library, perf_fd, released, doubled>>

AppCloses(f) ==
  /\ fds[f] = "app" /\ fds' = [fds EXCEPT ![f] = "free"]
  /\ UNCHANGED <<library, perf_fd, released, doubled>>

FdNext ==
  PerfInit \/ PerfInitLib \/ PerfDeinit \/ AppOpens \/ \E f \in Fds : AppCloses(f)

-----------------------------------------------------------------------------
(* Properties *)

\* Reading or closing perf_fd meets a file of the program's own only after a
\* perf_deinit with no perf_init since, not even a failed one: a failed one
\* takes the old number away (header/pmu_utils.h: perf_init, perf_deinit).
\* In libpmu, which reads and closes nothing, only its initial 0 does.
ForeignExplained ==
  IsForeign => released \/ (library = "libpmu" /\ perf_fd = 0)

\* A counter stays open that perf_deinit will not close only if perf_init was
\* called twice in a row (perf_init overwrites perf_fd).
LeakExplained ==
  \A f \in Fds : fds[f] = "perf" => f = perf_fd \/ doubled

=============================================================================
