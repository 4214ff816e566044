------------------------------ MODULE EventFiles ------------------------------
(***************************************************************************)
(* The files behind scripts/pmu_init.py: how a run gets from the network,  *)
(* by way of files that earlier runs left, to a C header; with requests    *)
(* and file operations that fail, requests that never come to an end, and  *)
(* runs that are killed at any point and started again.                    *)
(*                                                                         *)
(* A run takes this-cpu-pmu-events.json if it exists, and makes it first   *)
(* otherwise, in the vendor's way:                                         *)
(*   Intel  downloads the map file and every file the map lists for this   *)
(*          CPU into a cache, and copies one of them;                      *)
(*   AMD    downloads the map file and the files of this microarchitecture *)
(*          unless they are there, and merges them;                        *)
(*   Arm    downloads it.                                                  *)
(* Then it loads it and writes the header.  All files are written in       *)
(* place, so a run that is killed, or whose disk is full, may leave the    *)
(* beginning of a file.                                                    *)
(*                                                                         *)
(* What a file holds is abstracted to whose data it is: EventTable models  *)
(* what becomes of it.  The links, README and LICENSE that the Intel       *)
(* download makes, and its copy of the cache, are read by nobody and left  *)
(* out, as are its command-line options except --hybridcore, which a       *)
(* machine of that kind is always given.  An Intel CPU is one whose name   *)
(* has no stepping, and an AMD CPU of a microarchitecture that pmu_files   *)
(* lists; on one it does not list, every run ends with a KeyError.         *)
(***************************************************************************)
EXTENDS Naturals, Sequences

CONSTANTS
  Machines,  \* some of "Intel", "Hybrid", "AMD", "ARM"
  Dirs,      \* where the scripts may be run: "scripts", or "/" for the root directory
  NumTries   \* NUM_TRIES

ASSUME FilesAssumption ==
  /\ Machines \subseteq {"Intel", "Hybrid", "AMD", "ARM"}
  /\ Dirs \subseteq {"scripts", "/"}
  /\ NumTries \in Nat \ {0}

VARIABLES
  machine,  \* the machine the scripts run on
  dir,      \* the directory they are run in, always the same
  disk,     \* disk[f]: what file f holds
  pc,       \* where the run is; "off" when none is running
  job,      \* the download that getfile is at, and where to go on after it
  tries,    \* how often it has failed
  rows,     \* the rows of the map file that are left to look at
  attempt,  \* which call of parse_map_file by eventlist_name this is
  found,    \* files[0] of that call, or "none"
  result,   \* how the last run ended
  calm      \* from now on nothing fails and runs are not killed

setup    == <<machine, dir>>
progVars == <<pc, job, tries, rows, attempt, found>>
vars     == <<setup, disk, progVars, result, calm>>

\* The rows that map files have for a CPU: file name and data.  The two core
\* types of a hybrid CPU have rows with one file name.
MapRows ==
  CASE machine = "Intel"  -> << <<"core.json", "core">>, <<"uncore.json", "uncore">> >>
    [] machine = "Hybrid" -> << <<"hybridcore.json", "atom">>, <<"hybridcore.json", "core">>,
                                <<"uncore.json", "uncore">> >>
    [] machine = "AMD"    -> << <<"branch.json", "branch">>, <<"cache.json", "cache">> >>
    [] machine = "ARM"    -> <<>>

\* The rows whose type eventlist_name asks for, and their file.
KeyFile == IF machine = "Hybrid" THEN "hybridcore.json" ELSE "core.json"

FileNames == {"mapfile.csv", "events.json", "header.h", "core.json", "uncore.json",
              "hybridcore.json", "cut.json", "branch.json", "cache.json"}

Data == {"map", "core", "uncore", "atom", "branch", "cache", "amd", "arm"}

Exists(f) == disk[f] # "absent"

Whole(f) == disk[f] \in Data

Steps == {"off", "start", "get", "put", "hang", "load", "export", "print", "failed",
          "map", "row", "look", "lookmap", "lookrow", "copy", "copying",
          "model", "file", "merge", "dump"}

Jobs == [file : FileNames, data : Data, ok : Steps, bad : Steps]

NoJob == [file |-> "mapfile.csv", data |-> "map", ok |-> "off", bad |-> "off"]

TypeOK ==
  /\ machine \in Machines /\ dir \in Dirs
  /\ disk \in [FileNames -> Data \cup {"absent", "part"}]
  /\ pc \in Steps
  /\ job \in Jobs
  /\ tries \in 0..NumTries
  /\ rows \in Seq(FileNames \X Data)
  /\ attempt \in 0..2 /\ found \in FileNames \cup {"none"}
  /\ result \in {"none", "ok", "failed", "killed"}
  /\ calm \in BOOLEAN

Init ==
  /\ machine \in Machines /\ dir \in Dirs
  /\ disk = [f \in FileNames |-> "absent"]
  /\ pc = "off" /\ job = NoJob /\ tries = 0
  /\ rows = <<>> /\ attempt = 0 /\ found = "none"
  /\ result = "none" /\ calm = FALSE

-----------------------------------------------------------------------------
(* program_utils.py: getfile *)

Goto(step) == pc' = step

Store(f, content) == disk' = [disk EXCEPT ![f] = content]

\* A call of getfile, and the steps after it when it returns and when it raises.
CallGetfile(file, data, ok, bad) ==
  /\ job' = [file |-> file, data |-> data, ok |-> ok, bad |-> bad]
  /\ tries' = 0
  /\ Goto("get")

\* urlopen and read succeed; open(..., "wb") empties the file.
Fetch ==
  /\ pc = "get"
  /\ Store(job.file, "part") /\ Goto("put")
  /\ UNCHANGED <<setup, job, tries, rows, attempt, found, result, calm>>

\* Mutant: the comparison is strict.
OutOfTriesLate(n) == n > NumTries

OutOfTries(n) == n >= NumTries

\* They raise IOError: it is tried again, up to NUM_TRIES times.
FetchFails ==
  /\ pc = "get" /\ ~calm
  /\ tries' = tries + 1
  /\ IF OutOfTries(tries') THEN Goto(job.bad) ELSE UNCHANGED pc
  /\ UNCHANGED <<setup, disk, job, rows, attempt, found, result, calm>>

\* read raises what is no IOError, http.client.IncompleteRead: nobody catches it.
FetchBreaksOff ==
  /\ pc = "get" /\ ~calm
  /\ Goto("failed")
  /\ UNCHANGED <<setup, disk, job, tries, rows, attempt, found, result, calm>>

\* urlopen and read have no timeout, so they may neither return nor raise.
Hang ==
  /\ pc = "get" /\ ~calm
  /\ Goto("hang")
  /\ UNCHANGED <<setup, disk, job, tries, rows, attempt, found, result, calm>>

\* The data is written and the file closed.  When it is a file of the key,
\* parse_map_file adds it to those it returns.
Put ==
  /\ pc = "put"
  /\ Store(job.file, job.data) /\ Goto(job.ok)
  /\ found' = IF job.ok = "lookrow" /\ found = "none" THEN job.file ELSE found
  /\ UNCHANGED <<setup, job, tries, rows, attempt, result, calm>>

\* An operation on files raises OSError: one may not be opened, or the disk is
\* full and what was being written stays a part.  parse_map_file reports it
\* and returns; the rest of the scripts does not catch it.
FileFails ==
  /\ pc \notin {"off", "failed", "hang"} /\ ~calm
  /\ Goto(CASE pc \in {"get", "put"}                        -> job.bad
            [] pc \in {"map", "row", "lookmap", "lookrow"}  -> "look"
            [] OTHER                                        -> "failed")
  /\ UNCHANGED <<setup, disk, job, tries, rows, attempt, found, result, calm>>

-----------------------------------------------------------------------------
(* pmu_init.py and get_doc_pmu_dict *)

\* The user runs pmu_init.py.
Run ==
  /\ pc = "off"
  /\ result' = "none" /\ Goto("start")
  /\ UNCHANGED <<setup, disk, job, tries, rows, attempt, found, calm>>

\* Mutant: every download uses the map file that is there.
UsesOldMapAlways == TRUE

\* The AMD download uses the map file that is there.
UsesOldMap == machine = "AMD"

\* get_doc_pmu_dict makes the events file unless there is one.
Start ==
  /\ pc = "start"
  /\ rows' = <<>> /\ attempt' = 0 /\ found' = "none"
  /\ LET withMap == IF machine = "AMD" THEN "model" ELSE "map"
         without == IF machine = "AMD" THEN "failed" ELSE "look"
     IN  IF Exists("events.json")
         THEN Goto("load") /\ UNCHANGED <<job, tries>>
         ELSE IF machine = "ARM"
         THEN CallGetfile("events.json", "arm", "load", "failed")
         ELSE IF UsesOldMap /\ Exists("mapfile.csv")
         THEN Goto(withMap) /\ UNCHANGED <<job, tries>>
         ELSE CallGetfile("mapfile.csv", "map", withMap, without)
  /\ UNCHANGED <<setup, disk, result, calm>>

\* Mutant: the header is opened before the events are loaded.
LoadLate ==
  /\ pc = "load"
  /\ Store("header.h", "part")
  /\ IF Whole("events.json") THEN Goto("export") ELSE Goto("failed")
  /\ UNCHANGED <<setup, job, tries, rows, attempt, found, result, calm>>

\* Mutant: what there is of the file is loaded.
LoadAnything ==
  /\ pc = "load" /\ Goto("export")
  /\ UNCHANGED <<setup, disk, job, tries, rows, attempt, found, result, calm>>

\* json.load: the beginning of a JSON file does not load.
Load ==
  /\ pc = "load"
  /\ IF Whole("events.json") THEN Goto("export") ELSE Goto("failed")
  /\ UNCHANGED <<setup, disk, job, tries, rows, attempt, found, result, calm>>

\* export_header opens the header with "w+", which empties it, ...
Export ==
  /\ pc = "export"
  /\ Store("header.h", "part") /\ Goto("print")
  /\ UNCHANGED <<setup, job, tries, rows, attempt, found, result, calm>>

\* ... and writes it; the run ends.
WriteHeader ==
  /\ pc = "print"
  /\ Store("header.h", disk["events.json"])
  /\ Goto("off") /\ result' = "ok"
  /\ UNCHANGED <<setup, job, tries, rows, attempt, found, calm>>

\* An exception that nobody catches ends the run.
Fail ==
  /\ pc = "failed"
  /\ Goto("off") /\ result' = "failed"
  /\ UNCHANGED <<setup, disk, job, tries, rows, attempt, found, calm>>

-----------------------------------------------------------------------------
(* pmu_intel_event_download.py *)

\* The rows of the map file that can be read: those of a beginning of it may
\* be any beginning of the rows.  A row with less than four fields is passed
\* over.  One that is cut in the fourth, its type, has a file of its own name;
\* and since the test of the type, "typ not in key", is one for a substring,
\* it may be taken for a row of the key.
ReadableRows ==
  IF Whole("mapfile.csv") THEN {MapRows}
  ELSE {SubSeq(MapRows, 1, n) : n \in 0..Len(MapRows)}
    \cup {Append(SubSeq(MapRows, 1, n - 1), <<"cut.json", MapRows[n][2]>>) :
            n \in 1..Len(MapRows)}

\* download_current has the map file, and goes through its rows.
OpenMap ==
  /\ pc = "map"
  /\ rows' \in ReadableRows
  /\ Goto("row")
  /\ UNCHANGED <<setup, disk, job, tries, attempt, found, result, calm>>

\* The file of a row is removed and downloaded again.  A failure ends
\* parse_map_file, which reports it and returns.
DownloadRow ==
  /\ pc = "row"
  /\ IF rows = <<>>
     THEN Goto("look") /\ UNCHANGED <<disk, job, tries, rows>>
     ELSE /\ Store(Head(rows)[1], "absent")
          /\ rows' = Tail(rows)
          /\ CallGetfile(Head(rows)[1], Head(rows)[2], "row", "look")
  /\ UNCHANGED <<setup, attempt, found, result, calm>>

\* eventlist_name has a file: the one of its key that was there when it began,
\* or the first that parse_map_file returned.
HasFile == found # "none" \/ (attempt = 0 /\ Exists(KeyFile))

\* Mutant: eventlist_name asks again until there is a file.
LookForever ==
  /\ pc = "look"
  /\ IF HasFile
     THEN Goto("copy") /\ UNCHANGED <<job, tries>>
     ELSE IF Exists("mapfile.csv")
          THEN Goto("lookmap") /\ UNCHANGED <<job, tries>>
          ELSE CallGetfile("mapfile.csv", "map", "lookmap", "look")
  /\ UNCHANGED <<setup, disk, rows, attempt, found, result, calm>>

\* Without one it calls parse_map_file, twice at most, which uses the map file
\* there is.
Look ==
  /\ pc = "look"
  /\ IF HasFile \/ attempt = 2
     THEN Goto("copy") /\ UNCHANGED <<job, tries, attempt>>
     ELSE /\ attempt' = attempt + 1
          /\ IF Exists("mapfile.csv")
             THEN Goto("lookmap") /\ UNCHANGED <<job, tries>>
             ELSE CallGetfile("mapfile.csv", "map", "lookmap", "look")
  /\ UNCHANGED <<setup, disk, rows, found, result, calm>>

LookMap ==
  /\ pc = "lookmap"
  /\ rows' \in ReadableRows
  /\ Goto("lookrow")
  /\ UNCHANGED <<setup, disk, job, tries, attempt, found, result, calm>>

\* The rows of the key's type are those of its file, and one whose type is cut.
\* A file that is there is returned as it is, one that is not is downloaded.
LookRow ==
  /\ pc = "lookrow"
  /\ IF rows = <<>>
     THEN Goto("look") /\ UNCHANGED <<job, tries, rows, found>>
     ELSE LET file == Head(rows)[1] IN
          /\ rows' = Tail(rows)
          /\ IF file \notin {KeyFile, "cut.json"}
             THEN UNCHANGED <<pc, job, tries, found>>
             ELSE IF Exists(file)
             THEN /\ found' = IF found = "none" THEN file ELSE found
                  /\ UNCHANGED <<pc, job, tries>>
             ELSE /\ CallGetfile(file, Head(rows)[2], "lookrow", "look")
                  /\ UNCHANGED found
  /\ UNCHANGED <<setup, disk, attempt, result, calm>>

\* The file that eventlist_name returns.
Source == IF found = "none" THEN KeyFile ELSE found

\* main copies the file to "./" + pmu_events_filename.  That name is absolute,
\* so the target is this-cpu-pmu-events.json only in the root directory;
\* elsewhere it is in a directory that does not exist, and the copy fails.
Copy ==
  /\ pc = "copy"
  /\ IF Exists(Source) /\ dir = "/"
     THEN Store("events.json", "part") /\ Goto("copying")
     ELSE Goto("failed") /\ UNCHANGED disk
  /\ UNCHANGED <<setup, job, tries, rows, attempt, found, result, calm>>

Copied ==
  /\ pc = "copying"
  /\ Store("events.json", disk[Source]) /\ Goto("load")
  /\ UNCHANGED <<setup, job, tries, rows, attempt, found, result, calm>>

-----------------------------------------------------------------------------
(* pmu_amd_event_download.py *)

\* The row of this CPU, which tells the microarchitecture, must be found:
\* the beginning of a map file may or may not have it.
FindModel ==
  /\ pc = "model"
  /\ \/ rows' = MapRows /\ Goto("file")
     \/ ~Whole("mapfile.csv") /\ Goto("failed") /\ UNCHANGED rows
  /\ UNCHANGED <<setup, disk, job, tries, attempt, found, result, calm>>

\* Each file of the microarchitecture is downloaded unless there is one.
GetFiles ==
  /\ pc = "file"
  /\ IF rows = <<>>
     THEN Goto("merge") /\ UNCHANGED <<job, tries, rows>>
     ELSE /\ rows' = Tail(rows)
          /\ IF Exists(Head(rows)[1]) THEN UNCHANGED <<pc, job, tries>>
             ELSE CallGetfile(Head(rows)[1], Head(rows)[2], "file", "failed")
  /\ UNCHANGED <<setup, disk, attempt, found, result, calm>>

\* All of them must load; then the events file is opened with "w", ...
Merge ==
  /\ pc = "merge"
  /\ IF \A i \in DOMAIN MapRows : Whole(MapRows[i][1])
     THEN Store("events.json", "part") /\ Goto("dump")
     ELSE Goto("failed") /\ UNCHANGED disk
  /\ UNCHANGED <<setup, job, tries, rows, attempt, found, result, calm>>

\* ... and the merged events are written to it.
Dump ==
  /\ pc = "dump"
  /\ Store("events.json", "amd") /\ Goto("load")
  /\ UNCHANGED <<setup, job, tries, rows, attempt, found, result, calm>>

-----------------------------------------------------------------------------
(* The surroundings *)

\* The run is killed; one that hangs may be at any time.
Kill ==
  /\ pc # "off" /\ (~calm \/ pc = "hang")
  /\ Goto("off") /\ result' = "killed"
  /\ UNCHANGED <<setup, disk, job, tries, rows, attempt, found, calm>>

\* The network and the disk work, and nobody is impatient any more.
CalmDown ==
  /\ ~calm /\ calm' = TRUE
  /\ UNCHANGED <<setup, disk, progVars, result>>

-----------------------------------------------------------------------------

Download == Fetch \/ FetchFails \/ FetchBreaksOff \/ Hang \/ Put

Intel == OpenMap \/ DownloadRow \/ Look \/ LookMap \/ LookRow \/ Copy \/ Copied

Amd == FindModel \/ GetFiles \/ Merge \/ Dump

Program ==
  Start \/ Load \/ Export \/ WriteHeader \/ Fail \/ FileFails \/ Download \/ Intel \/ Amd

Next == Run \/ Program \/ Kill \/ CalmDown

Spec == Init /\ [][Next]_vars

\* A run that is not killed goes on, or hangs in a request.
RunFairness == WF_vars(Program)

\* Failures end some day, and then the user tries again.
FairSpec == Spec /\ RunFairness /\ WF_vars(CalmDown) /\ WF_vars(Run)

-----------------------------------------------------------------------------
(* Properties *)

\* How far a step is from the end of the run, one call of parse_map_file by
\* eventlist_name apart.
Distance(step) ==
  CASE step = "off"                  -> 0
    [] step = "failed"               -> 1
    [] step = "print"                -> 2
    [] step = "export"               -> 3
    [] step = "load"                 -> 4
    [] step \in {"copying", "dump"}  -> 5
    [] step \in {"copy", "merge"}    -> 6
    [] step \in {"look", "file"}     -> 7
    [] step \in {"lookrow", "model"} -> 8
    [] step = "lookmap"              -> 9
    [] step = "row"                  -> 10
    [] step = "map"                  -> 11
    [] step = "start"                -> 12

\* What is left of a run: the calls of parse_map_file, the steps to the end,
\* a download being part of the step that needs it, the rows, and the tries.
Remaining ==
  << IF pc = "start" THEN 3 ELSE 2 - attempt,
     Distance(IF pc \in {"get", "put", "hang"} THEN job.ok ELSE pc),
     Len(rows),
     IF pc = "get" THEN 1 + NumTries - tries ELSE IF pc = "put" THEN 1 ELSE 0 >>

\* The lexicographic order, in which no sequence of naturals falls for ever.
Below(a, b) ==
  \E i \in 1..4 : a[i] < b[i] /\ \A j \in 1 .. i - 1 : a[j] = b[j]

\* Every step of a run shortens it: requests are retried, rows passed over,
\* files looked for again and files of earlier runs found or not, but a run
\* never comes back to where it was (scripts/program_utils.py: getfile,
\* scripts/pmu_intel_event_download.py: eventlist_name, parse_map_file).
RunsShorten ==
  [][pc # "off" /\ calm' = calm =>
       /\ Remaining' \in Nat \X Nat \X Nat \X Nat
       /\ Below(Remaining', Remaining)]_vars

\* The data that the header of a machine is to be made of.
Wanted ==
  CASE machine = "Intel"  -> {"core"}
    [] machine = "Hybrid" -> {"core", "atom"}
    [] machine = "AMD"    -> {"amd"}
    [] machine = "ARM"    -> {"arm"}

\* A file for a row whose type was cut has been downloaded: it may be one of
\* uncore events, and a later run may take it for the file of the key.
Misnamed == Exists("cut.json")

\* A run that ends well has written a whole header of whole event files of
\* this machine, whatever earlier runs left in the cache, unless they left a
\* file of the wrong name.
HeaderIsWhole ==
  result = "ok" /\ pc = "off" =>
    disk["header.h"] \in Wanted \/ (Misnamed /\ disk["header.h"] = "uncore")

\* export_header empties the header before it writes it, so a run that fails
\* or is killed there leaves a part of a header, and the one before is lost.
\* But then all it is made of is there: whatever is in a header, the file of
\* its events is whole, and of the same events.  The next run needs no network.
HeaderCanBeRemade ==
  Exists("header.h") =>
    Whole("events.json") /\ disk["header.h"] \in {"part", disk["events.json"]}

\* A run that is not killed ends or hangs in a request, even if every request
\* and every file operation fails.
RunsEndOrHang == (pc # "off") ~> (pc \in {"off", "hang"})

\* A file that later runs trust without having it downloaded again was cut
\* off, by a run that was killed or by a disk that was full.
CutOff ==
  /\ pc = "off"
  /\ \/ disk["events.json"] = "part"
     \/ machine = "AMD" /\ \E f \in FileNames \ {"header.h"} : disk[f] = "part"

Served == pc = "off" /\ result = "ok"

\* The copy of the Intel download reaches its target.
CopyReaches == machine \in {"Intel", "Hybrid"} => dir = "/"

\* Three things keep the header from being made, once nothing fails any more:
\* such a file, a run that still hangs, and the target of the copy.  Failed
\* requests, runs that were killed or failed elsewhere and a stale or
\* incomplete cache on an Intel machine do not.
RecoversUnlessCutOff ==
  CopyReaches /\ []~CutOff => []<>Served \/ <>[](pc = "hang")

\* "cd scripts; python3 pmu_init.py ... then you could see the PMU header":
\* run often enough in that directory, with nothing failing, nothing cut off
\* and no request that hangs, it makes the header (README.md).
HeaderIsSeen ==
  dir = "scripts" /\ []~CutOff => []<>Served \/ <>[](pc = "hang")

=============================================================================
