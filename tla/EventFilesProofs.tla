-------------------------- MODULE EventFilesProofs --------------------------
(***************************************************************************)
(* The safety properties of EventFiles, for any choice of machines and any *)
(* number of tries.  The inductive invariant says of every file what it    *)
(* may hold on the machine at hand, of every step what it knows about the  *)
(* files, and of a header that the file it was made of is there.           *)
(***************************************************************************)
EXTENDS EventFiles, SequenceTheorems, TLAPS

\* The rows of the map file, as a set.
RowSet ==
  IF machine = "Intel" THEN { <<"core.json", "core">>, <<"uncore.json", "uncore">> }
  ELSE IF machine = "Hybrid"
  THEN { <<"hybridcore.json", "atom">>, <<"hybridcore.json", "core">>,
         <<"uncore.json", "uncore">> }
  ELSE IF machine = "AMD" THEN { <<"branch.json", "branch">>, <<"cache.json", "cache">> }
  ELSE {}

\* Those of a map file that is cut off, too.
AllRows == RowSet \cup {<<"cut.json", row[2]>> : row \in RowSet}

\* What a whole file may hold on this machine.
May(f) ==
  IF f = "mapfile.csv" THEN {"map"}
  ELSE IF f \in {"events.json", "header.h"}
  THEN Wanted \cup {d \in {"uncore"} : machine \in {"Intel", "Hybrid"}}
  ELSE {d \in Data : <<f, d>> \in AllRows}

OnDisk == \A f \in FileNames : disk[f] \in {"absent", "part"} \cup May(f)

\* The steps that only one of the downloads has.
IntelSteps == {"map", "row", "look", "lookmap", "lookrow", "copy", "copying"}
AmdSteps   == {"model", "file", "merge", "dump"}
OfMachine(step) ==
  /\ step \in IntelSteps => machine \in {"Intel", "Hybrid"}
  /\ step \in AmdSteps => machine = "AMD"

\* The steps that make the events file.
Making == (IntelSteps \cup AmdSteps \cup {"get", "put", "hang"})

\* A download is of a file's own data, and does not go on to the header.
GoodJob(j) ==
  /\ j.file # "header.h" /\ j.data \in May(j.file)
  /\ j.file = "events.json" => machine = "ARM"
  /\ OfMachine(j.ok) /\ j.ok \in Making \cup {"load"}
  /\ j.ok \notin {"get", "put", "hang", "copying"}
  /\ j.ok = "map" => j.file = "mapfile.csv"
  /\ j.ok = "lookrow" => j.file \in {KeyFile, "cut.json"}
  /\ OfMachine(j.bad) /\ j.bad \in {"look", "failed"}

\* Only eventlist_name looks at rows that are cut.
Downloading ==
  /\ OfMachine(pc)
  /\ pc \in {"get", "put", "hang"} => GoodJob(job)
  /\ rows \in Seq(AllRows)
  /\ pc = "row" \/ (pc \in {"get", "put"} /\ job.ok = "row") => rows \in Seq(RowSet)

\* What a step relies on that an earlier one has looked up.
LookedUp ==
  /\ pc \in {"export", "print"} => Whole("events.json")
  /\ pc = "map" => Whole("mapfile.csv")

\* The events file is made only where there is no header, and a run has no
\* result until it ends.
Underway ==
  /\ pc \in Making => ~Exists("header.h")
  /\ pc # "off" => result = "none"

\* No uncore events get into the header but by a file of the wrong name.
Named ==
  /\ found \in {"none", KeyFile, "cut.json"}
  /\ found = "cut.json" => Misnamed
  /\ disk["events.json"] = "uncore" \/ disk["header.h"] = "uncore" => Misnamed

\* A download that has not been given up has a try left.
Trying == pc = "get" => tries < NumTries

IInv ==
  /\ TypeOK /\ OnDisk /\ Downloading /\ Trying /\ LookedUp
  /\ Underway /\ Named /\ HeaderCanBeRemade /\ HeaderIsWhole

-----------------------------------------------------------------------------
(* Lemmas about the data *)

LEMMA WantedIs ==
  ASSUME machine \in Machines
  PROVE  /\ machine \in {"Intel", "Hybrid", "AMD", "ARM"}
         /\ machine = "Intel" => Wanted = {"core"}
         /\ machine = "Hybrid" => Wanted = {"core", "atom"}
         /\ machine = "AMD" => Wanted = {"amd"}
         /\ machine = "ARM" => Wanted = {"arm"}
BY FilesAssumption DEF Wanted

LEMMA MapIs ==
  ASSUME machine \in Machines
  PROVE  MapRows \in Seq(RowSet)
<1>1. CASE machine = "Intel"
  BY <1>1 DEF MapRows, RowSet
<1>2. CASE machine = "Hybrid"
  BY <1>2 DEF MapRows, RowSet
<1>3. CASE machine = "AMD"
  BY <1>3 DEF MapRows, RowSet
<1>4. CASE machine = "ARM"
  BY <1>4 DEF MapRows, RowSet
<1> QED
  BY <1>1, <1>2, <1>3, <1>4, WantedIs

\* A row names a file of the cache and what belongs into it.
LEMMA RowIs ==
  ASSUME NEW row \in AllRows
  PROVE  /\ row \in FileNames \X Data
         /\ row[1] \in FileNames \ {"header.h", "events.json", "mapfile.csv"}
         /\ row[2] \in Data /\ row[2] \in May(row[1])
         /\ row \in RowSet => row[1] # "cut.json"
<1>1. /\ RowSet \subseteq FileNames \X Data
      /\ \A r \in RowSet : r[1] \in FileNames \ {"header.h", "events.json", "mapfile.csv", "cut.json"}
  BY DEF RowSet, FileNames, Data
<1>2. /\ row \in FileNames \X Data
      /\ row[1] \in FileNames \ {"header.h", "events.json", "mapfile.csv"}
  BY <1>1 DEF AllRows, FileNames
<1>3. row = <<row[1], row[2]>> /\ row[2] \in Data
  BY <1>2
<1> QED
  BY <1>1, <1>2, <1>3 DEF May

LEMMA RowsAre == RowSet \subseteq AllRows /\ Seq(RowSet) \subseteq Seq(AllRows)
  BY DEF AllRows

\* A map file lists rows of it, whole or, where it is cut off, not.
LEMMA ReadableIs ==
  ASSUME machine \in Machines, NEW rs \in ReadableRows
  PROVE  rs \in Seq(AllRows) /\ (Whole("mapfile.csv") => rs \in Seq(RowSet))
<1>1. MapRows \in Seq(RowSet) /\ MapRows \in Seq(AllRows)
  BY MapIs, RowsAre
<1>2. CASE rs = MapRows
  BY <1>1, <1>2
<1>3. CASE ~Whole("mapfile.csv") /\ \E n \in 0 .. Len(MapRows) : rs = SubSeq(MapRows, 1, n)
  <2>1. PICK n \in 0 .. Len(MapRows) : rs = SubSeq(MapRows, 1, n)
    BY <1>3
  <2>2. SubSeq(MapRows, 1, n) \in Seq(AllRows)
    BY <1>1, <2>1, SubSeqProperties
  <2> QED
    BY <1>3, <2>1, <2>2
<1>4. CASE /\ ~Whole("mapfile.csv")
           /\ \E n \in 1 .. Len(MapRows) :
                rs = Append(SubSeq(MapRows, 1, n - 1), <<"cut.json", MapRows[n][2]>>)
  <2>1. PICK n \in 1 .. Len(MapRows) :
               rs = Append(SubSeq(MapRows, 1, n - 1), <<"cut.json", MapRows[n][2]>>)
    BY <1>4
  <2>2. MapRows[n] \in RowSet
    BY <1>1, <2>1, ElementOfSeq
  <2>3. <<"cut.json", MapRows[n][2]>> \in AllRows
    BY <2>2 DEF AllRows
  <2>4. SubSeq(MapRows, 1, n - 1) \in Seq(AllRows)
    BY <1>1, <2>1, SubSeqProperties
  <2> QED
    BY <1>4, <2>1, <2>3, <2>4, AppendProperties
<1> QED
  BY <1>2, <1>3, <1>4 DEF ReadableRows

LEMMA MayIs ==
  ASSUME machine \in Machines, NEW f \in FileNames
  PROVE  May(f) \subseteq Data
BY WantedIs DEF May, Data

\* The files that eventlist_name may return.
LEMMA KeyIs ==
  ASSUME machine \in {"Intel", "Hybrid"}, machine \in Machines
  PROVE  /\ KeyFile \in FileNames \ {"header.h", "events.json", "mapfile.csv", "cut.json"}
         /\ May(KeyFile) = Wanted /\ "uncore" \notin Wanted
         /\ May("cut.json") \subseteq May("events.json")
<1>1. KeyFile \in FileNames \ {"header.h", "events.json", "mapfile.csv", "cut.json"}
      /\ "uncore" \notin Wanted
  BY WantedIs DEF KeyFile, FileNames
<1>2. CASE machine = "Intel"
  BY <1>1, <1>2, WantedIs DEF KeyFile, FileNames, May, AllRows, RowSet, Data
<1>3. CASE machine = "Hybrid"
  BY <1>1, <1>3, WantedIs DEF KeyFile, FileNames, May, AllRows, RowSet, Data
<1> QED
  BY <1>1, <1>2, <1>3

LEMMA SourceIs ==
  ASSUME machine \in {"Intel", "Hybrid"}, machine \in Machines, OnDisk, Named
  PROVE  /\ Source \in FileNames \ {"header.h", "events.json"}
         /\ disk[Source] \in {"absent", "part"} \cup May("events.json")
         /\ disk[Source] = "uncore" => Misnamed
<1>1. Source \in {KeyFile, "cut.json"} /\ (Source = "cut.json" => Misnamed)
  BY KeyIs DEF Source, Named
<1>2. CASE Source = KeyFile
  BY <1>2, KeyIs DEF OnDisk, May
<1>3. CASE Source = "cut.json"
  BY <1>1, <1>3, KeyIs DEF OnDisk, FileNames
<1> QED
  BY <1>1, <1>2, <1>3

\* A whole file holds what it may hold.
LEMMA WholeIs ==
  ASSUME OnDisk, NEW f \in FileNames, Whole(f)
  PROVE  disk[f] \in May(f)
BY DEF OnDisk, Whole, Data

\* The row that is next.
LEMMA HeadIs ==
  ASSUME rows \in Seq(AllRows), rows # <<>>
  PROVE  /\ Head(rows) \in AllRows /\ Tail(rows) \in Seq(AllRows)
         /\ Head(rows)[1] \in FileNames \ {"header.h", "events.json", "mapfile.csv"}
         /\ Head(rows)[2] \in Data /\ Head(rows)[2] \in May(Head(rows)[1])
         /\ rows \in Seq(RowSet) =>
              Tail(rows) \in Seq(RowSet) /\ Head(rows)[1] # "cut.json"
<1>1. Head(rows) \in AllRows /\ Tail(rows) \in Seq(AllRows)
  BY HeadTailProperties
<1>2. ASSUME rows \in Seq(RowSet)
      PROVE  Head(rows) \in RowSet /\ Tail(rows) \in Seq(RowSet)
  BY <1>2, HeadTailProperties
<1> QED
  BY <1>1, <1>2, RowIs

\* Machines do not change, nor what their files may hold.
LEMMA SameMay ==
  ASSUME machine' = machine
  PROVE  /\ RowSet' = RowSet /\ AllRows' = AllRows /\ KeyFile' = KeyFile
         /\ \A f : May(f)' = May(f)
<1>1. Wanted' = Wanted /\ KeyFile' = KeyFile
  BY DEF Wanted, KeyFile
<1>2. RowSet' = RowSet /\ AllRows' = AllRows
  BY DEF RowSet, AllRows
<1> QED
  BY <1>1, <1>2 DEF May

LEMMA MachineStays == [Next]_vars => machine' = machine /\ dir' = dir
  BY DEF Next, Program, Download, Intel, Amd, vars, progVars, setup, Run, Start, Load,
     Export, WriteHeader, Fail, Fetch, FetchFails, FetchBreaksOff, Hang, FileFails, Put,
     OpenMap, DownloadRow, Look, LookMap, LookRow, Copy, Copied,
     FindModel, GetFiles, Merge, Dump, Kill, CalmDown

-----------------------------------------------------------------------------
(* The parts of the invariant *)

\* What a step has looked up is still so when the next relies on it.
LEMMA LookedUpKept == TypeOK /\ Downloading /\ LookedUp /\ [Next]_vars => LookedUp'
<1> SUFFICES ASSUME TypeOK /\ Downloading /\ LookedUp, [Next]_vars PROVE LookedUp'
  OBVIOUS
<1> USE MachineStays DEF TypeOK, Downloading, OfMachine, IntelSteps, AmdSteps, Making,
     GoodJob, LookedUp, Goto, Store, Whole, Exists, FileNames, Data
<1>1. CASE Run
  BY <1>1 DEF Run
<1>2. CASE Start
  BY <1>2 DEF Start, CallGetfile, UsesOldMap
<1>3. CASE Load
  BY <1>3 DEF Load
<1>4. CASE Export
  BY <1>4 DEF Export
<1>5. CASE WriteHeader
  BY <1>5 DEF WriteHeader
<1>6. CASE Fail
  BY <1>6 DEF Fail
<1>7. CASE Fetch
  BY <1>7 DEF Fetch
<1>8. CASE FetchFails
  BY <1>8 DEF FetchFails
<1>9. CASE Put
  <2>1. job.ok = "map" => job.file = "mapfile.csv" /\ job.data = "map"
    BY <1>9 DEF Put, May
  <2> QED
    BY <1>9, <2>1 DEF Put
<1>10. CASE OpenMap
  BY <1>10 DEF OpenMap
<1>11. CASE DownloadRow
  BY <1>11 DEF DownloadRow, CallGetfile
<1>12. CASE Look
  BY <1>12 DEF Look, CallGetfile
<1>13. CASE LookMap
  BY <1>13 DEF LookMap
<1>14. CASE LookRow
  BY <1>14 DEF LookRow, CallGetfile
<1>15. CASE Copy
  BY <1>15 DEF Copy
<1>16. CASE Copied
  BY <1>16 DEF Copied
<1>17. CASE FindModel
  BY <1>17 DEF FindModel
<1>18. CASE GetFiles
  BY <1>18 DEF GetFiles, CallGetfile
<1>19. CASE Merge
  BY <1>19 DEF Merge
<1>20. CASE Dump
  BY <1>20 DEF Dump
<1>21. CASE Kill
  BY <1>21 DEF Kill
<1>22. CASE CalmDown
  BY <1>22 DEF CalmDown, progVars, setup
<1>23. CASE UNCHANGED vars
  BY <1>23 DEF vars, progVars, setup
<1>24. CASE FetchBreaksOff
  BY <1>24 DEF FetchBreaksOff
<1>25. CASE Hang
  BY <1>25 DEF Hang
<1>26. CASE FileFails
  BY <1>26 DEF FileFails
<1> QED
  BY <1>1, <1>2, <1>3, <1>4, <1>5, <1>6, <1>7, <1>8, <1>9, <1>10, <1>11, <1>12,
     <1>13, <1>14, <1>15, <1>16, <1>17, <1>18, <1>19, <1>20, <1>21, <1>22, <1>23,
     <1>24, <1>25, <1>26
     DEF Next, Program, Download, Intel, Amd

\* A run makes the events file only where there is no header, which would
\* be of its events, and leaves it alone when there is one.
LEMMA UnderwayKept ==
  TypeOK /\ OnDisk /\ Downloading /\ LookedUp /\ Underway /\ Named /\ HeaderCanBeRemade
    /\ [Next]_vars
      => Underway' /\ HeaderCanBeRemade'
<1> SUFFICES ASSUME TypeOK /\ OnDisk /\ Downloading /\ LookedUp /\ Underway /\ Named
                      /\ HeaderCanBeRemade,
                    [Next]_vars
             PROVE  Underway' /\ HeaderCanBeRemade'
  OBVIOUS
<1> USE DEF TypeOK, Downloading, GoodJob, Underway, HeaderCanBeRemade, Goto, Exists,
     Whole, Store, FileNames, Jobs, Making, IntelSteps, AmdSteps, Data
<1>1. CASE Run
  BY <1>1 DEF Run
<1>2. CASE Start
  BY <1>2 DEF Start, CallGetfile
<1>3. CASE Load
  BY <1>3 DEF Load
<1>4. CASE Export
  BY <1>4 DEF Export, LookedUp
<1>5. CASE WriteHeader
  BY <1>5 DEF WriteHeader, LookedUp
<1>6. CASE Fail
  BY <1>6 DEF Fail
<1>7. CASE Fetch
  BY <1>7 DEF Fetch
<1>8. CASE FetchFails
  BY <1>8 DEF FetchFails
<1>9. CASE Put
  BY <1>9 DEF Put
<1>10. CASE OpenMap
  BY <1>10 DEF OpenMap
<1>11. CASE DownloadRow
  BY <1>11, HeadIs DEF DownloadRow, CallGetfile
<1>12. CASE Look
  BY <1>12 DEF Look, CallGetfile
<1>13. CASE LookMap
  BY <1>13 DEF LookMap
<1>14. CASE LookRow
  BY <1>14 DEF LookRow, CallGetfile
<1>15. CASE Copy
  BY <1>15 DEF Copy
<1>16. CASE Copied
  <2>1. machine \in {"Intel", "Hybrid"}
    BY <1>16 DEF Copied, OfMachine
  <2> QED
    BY <1>16, <2>1, SourceIs DEF Copied
<1>17. CASE FindModel
  BY <1>17 DEF FindModel
<1>18. CASE GetFiles
  BY <1>18 DEF GetFiles, CallGetfile
<1>19. CASE Merge
  BY <1>19 DEF Merge
<1>20. CASE Dump
  BY <1>20 DEF Dump
<1>21. CASE Kill
  BY <1>21 DEF Kill
<1>22. CASE CalmDown
  BY <1>22 DEF CalmDown, progVars, setup
<1>23. CASE UNCHANGED vars
  BY <1>23 DEF vars, progVars, setup
<1>24. CASE FetchBreaksOff
  BY <1>24 DEF FetchBreaksOff
<1>25. CASE Hang
  BY <1>25 DEF Hang
<1>26. CASE FileFails
  BY <1>26 DEF FileFails
<1> QED
  BY <1>1, <1>2, <1>3, <1>4, <1>5, <1>6, <1>7, <1>8, <1>9, <1>10, <1>11, <1>12,
     <1>13, <1>14, <1>15, <1>16, <1>17, <1>18, <1>19, <1>20, <1>21, <1>22, <1>23,
     <1>24, <1>25, <1>26
     DEF Next, Program, Download, Intel, Amd

\* A file of the wrong name stays, and uncore events come from it only.
LEMMA NamedKept ==
  TypeOK /\ OnDisk /\ Downloading /\ Named /\ [Next]_vars => Named'
<1> SUFFICES ASSUME TypeOK /\ OnDisk /\ Downloading /\ Named, [Next]_vars PROVE Named'
  OBVIOUS
<1>0. machine' = machine /\ KeyFile' = KeyFile
  BY MachineStays, SameMay
<1> USE <1>0 DEF TypeOK, Named, Misnamed, Exists, Goto, Store, FileNames
<1>1. CASE Run
  BY <1>1 DEF Run
<1>2. CASE Start
  BY <1>2 DEF Start, CallGetfile
<1>3. CASE Load
  BY <1>3 DEF Load
<1>4. CASE Export
  BY <1>4 DEF Export
<1>5. CASE WriteHeader
  BY <1>5 DEF WriteHeader
<1>6. CASE Fail
  BY <1>6 DEF Fail
<1>7. CASE Fetch
  <2>1. job.file \in FileNames /\ job.file # "header.h"
    BY <1>7 DEF Fetch, Downloading, GoodJob, Jobs
  <2> QED
    BY <1>7, <2>1 DEF Fetch
<1>8. CASE FetchFails
  BY <1>8 DEF FetchFails
<1>9. CASE Put
  <2>1. /\ job.file \in FileNames /\ job.data \in May(job.file) /\ job.data \in Data
        /\ job.file # "header.h" /\ (job.file = "events.json" => machine = "ARM")
        /\ (job.ok = "lookrow" => job.file \in {KeyFile, "cut.json"})
    BY <1>9 DEF Put, Downloading, GoodJob, Jobs
  <2>2. job.file = "events.json" => job.data = "arm"
    BY <2>1, WantedIs DEF May
  <2>3. "absent" \notin Data
    BY DEF Data
  <2>4. disk' = [disk EXCEPT ![job.file] = job.data]
    BY <1>9 DEF Put
  <2>5. found' \in {found, job.file} /\ (found' # found => job.ok = "lookrow")
    BY <1>9 DEF Put
  <2>6. Misnamed => Misnamed'
    BY <2>1, <2>3, <2>4
  <2>7. found' = "cut.json" => Misnamed'
    BY <2>1, <2>3, <2>4, <2>5, <2>6
  <2>8. disk'["events.json"] = "uncore" \/ disk'["header.h"] = "uncore" => Misnamed'
    BY <2>1, <2>2, <2>4, <2>6
  <2> QED
    BY <2>1, <2>5, <2>7, <2>8
<1>10. CASE OpenMap
  BY <1>10 DEF OpenMap
<1>11. CASE DownloadRow
  <2>1. /\ disk' = disk \/ (rows # <<>> /\ disk' = [disk EXCEPT ![Head(rows)[1]] = "absent"])
        /\ found' = found
    BY <1>11 DEF DownloadRow
  <2>2. rows # <<>> => Head(rows)[1] \in FileNames \ {"header.h", "events.json", "cut.json"}
    BY <1>11, HeadIs DEF DownloadRow, Downloading
  <2> QED
    BY <2>1, <2>2
<1>12. CASE Look
  BY <1>12 DEF Look, CallGetfile
<1>13. CASE LookMap
  BY <1>13 DEF LookMap
<1>14. CASE LookRow
  <2>1. disk' = disk
    BY <1>14 DEF LookRow
  <2>2. \/ found' = found
        \/ Exists(Head(rows)[1]) /\ Head(rows)[1] \in {KeyFile, "cut.json"} /\ found' = Head(rows)[1]
    BY <1>14 DEF LookRow
  <2> QED
    BY <2>1, <2>2
<1>15. CASE Copy
  BY <1>15 DEF Copy
<1>16. CASE Copied
  <2>1. machine \in {"Intel", "Hybrid"}
    BY <1>16 DEF Copied, Downloading, OfMachine, IntelSteps
  <2>2. disk[Source] = "uncore" => Misnamed
    BY <2>1, SourceIs
  <2> QED
    BY <1>16, <2>2 DEF Copied
<1>17. CASE FindModel
  BY <1>17 DEF FindModel
<1>18. CASE GetFiles
  BY <1>18 DEF GetFiles, CallGetfile
<1>19. CASE Merge
  BY <1>19 DEF Merge
<1>20. CASE Dump
  BY <1>20 DEF Dump
<1>21. CASE Kill
  BY <1>21 DEF Kill
<1>22. CASE CalmDown
  BY <1>22 DEF CalmDown, progVars, setup
<1>23. CASE UNCHANGED vars
  BY <1>23 DEF vars, progVars, setup
<1>24. CASE FetchBreaksOff
  BY <1>24 DEF FetchBreaksOff
<1>25. CASE Hang
  BY <1>25 DEF Hang
<1>26. CASE FileFails
  BY <1>26 DEF FileFails
<1> QED
  BY <1>1, <1>2, <1>3, <1>4, <1>5, <1>6, <1>7, <1>8, <1>9, <1>10, <1>11, <1>12,
     <1>13, <1>14, <1>15, <1>16, <1>17, <1>18, <1>19, <1>20, <1>21, <1>22, <1>23,
     <1>24, <1>25, <1>26
     DEF Next, Program, Download, Intel, Amd

\* Every write is of the data that the file is for.
LEMMA Writes ==
  TypeOK /\ OnDisk /\ Downloading /\ LookedUp /\ Named /\ [Next]_vars
    => \/ disk' = disk
       \/ \E f \in FileNames : \E d \in {"absent", "part"} \cup May(f) : Store(f, d)
<1> SUFFICES ASSUME TypeOK /\ OnDisk /\ Downloading /\ LookedUp /\ Named, [Next]_vars
             PROVE  \/ disk' = disk
                    \/ \E f \in FileNames : \E d \in {"absent", "part"} \cup May(f) : Store(f, d)
  OBVIOUS
<1> USE DEF TypeOK, Downloading, GoodJob, FileNames
<1>1. CASE Run
  BY <1>1 DEF Run
<1>2. CASE Start
  BY <1>2 DEF Start, CallGetfile
<1>3. CASE Load
  BY <1>3 DEF Load
<1>4. CASE Export
  BY <1>4 DEF Export
<1>5. CASE WriteHeader
  <2>1. disk["events.json"] \in May("header.h")
    BY <1>5, WholeIs DEF WriteHeader, LookedUp, May
  <2> QED
    BY <1>5, <2>1 DEF WriteHeader
<1>6. CASE Fail
  BY <1>6 DEF Fail
<1>7. CASE Fetch
  <2>1. job.file \in FileNames
    BY <1>7 DEF Fetch, Jobs
  <2> QED
    BY <1>7, <2>1 DEF Fetch
<1>8. CASE FetchFails
  BY <1>8 DEF FetchFails
<1>9. CASE Put
  <2>1. job.file \in FileNames /\ job.data \in May(job.file)
    BY <1>9 DEF Put, Jobs
  <2> QED
    BY <1>9, <2>1 DEF Put
<1>10. CASE OpenMap
  BY <1>10 DEF OpenMap
<1>11. CASE DownloadRow
  BY <1>11, HeadIs DEF DownloadRow, CallGetfile
<1>12. CASE Look
  BY <1>12 DEF Look, CallGetfile
<1>13. CASE LookMap
  BY <1>13 DEF LookMap
<1>14. CASE LookRow
  BY <1>14 DEF LookRow, CallGetfile
<1>15. CASE Copy
  BY <1>15 DEF Copy
<1>16. CASE Copied
  <2>1. machine \in {"Intel", "Hybrid"}
    BY <1>16 DEF Copied, OfMachine, IntelSteps
  <2> QED
    BY <1>16, <2>1, SourceIs DEF Copied
<1>17. CASE FindModel
  BY <1>17 DEF FindModel
<1>18. CASE GetFiles
  BY <1>18 DEF GetFiles, CallGetfile
<1>19. CASE Merge
  BY <1>19 DEF Merge
<1>20. CASE Dump
  BY <1>20, WantedIs DEF Dump, OfMachine, AmdSteps, May
<1>21. CASE Kill
  BY <1>21 DEF Kill
<1>22. CASE CalmDown
  BY <1>22 DEF CalmDown, progVars, setup
<1>23. CASE UNCHANGED vars
  BY <1>23 DEF vars, progVars, setup
<1>24. CASE FetchBreaksOff
  BY <1>24 DEF FetchBreaksOff
<1>25. CASE Hang
  BY <1>25 DEF Hang
<1>26. CASE FileFails
  BY <1>26 DEF FileFails
<1> QED
  BY <1>1, <1>2, <1>3, <1>4, <1>5, <1>6, <1>7, <1>8, <1>9, <1>10, <1>11, <1>12,
     <1>13, <1>14, <1>15, <1>16, <1>17, <1>18, <1>19, <1>20, <1>21, <1>22, <1>23,
     <1>24, <1>25, <1>26
     DEF Next, Program, Download, Intel, Amd

\* So every file holds some of the data that it is for.
LEMMA OnDiskKept ==
  TypeOK /\ OnDisk /\ Downloading /\ LookedUp /\ Named /\ [Next]_vars
    => OnDisk' /\ disk' \in [FileNames -> Data \cup {"absent", "part"}]
<1> SUFFICES ASSUME TypeOK /\ OnDisk /\ Downloading /\ LookedUp /\ Named, [Next]_vars
             PROVE  OnDisk' /\ disk' \in [FileNames -> Data \cup {"absent", "part"}]
  OBVIOUS
<1>1. \A f \in FileNames : May(f)' = May(f) /\ May(f) \subseteq Data
  BY MachineStays, SameMay, MayIs DEF TypeOK
<1>2. CASE disk' = disk
  BY <1>1, <1>2 DEF OnDisk, TypeOK
<1>3. CASE \E f \in FileNames : \E d \in {"absent", "part"} \cup May(f) : Store(f, d)
  <2>1. PICK f \in FileNames : \E d \in {"absent", "part"} \cup May(f) : Store(f, d)
    BY <1>3
  <2>2. PICK d \in {"absent", "part"} \cup May(f) : disk' = [disk EXCEPT ![f] = d]
    BY <2>1 DEF Store
  <2> QED
    BY <1>1, <2>1, <2>2 DEF OnDisk, TypeOK
<1> QED
  BY <1>2, <1>3, Writes

\* The header is made of a whole event file.
LEMMA WholeKept ==
  TypeOK /\ OnDisk /\ LookedUp /\ Underway /\ Named /\ HeaderIsWhole /\ [Next]_vars
    => HeaderIsWhole'
<1> SUFFICES ASSUME TypeOK /\ OnDisk /\ LookedUp /\ Underway /\ Named /\ HeaderIsWhole,
                    [Next]_vars
             PROVE  HeaderIsWhole'
  OBVIOUS
<1> USE MachineStays DEF Underway, HeaderIsWhole, Misnamed, Exists, Goto, Wanted
<1>1. CASE Run
  BY <1>1 DEF Run
<1>2. CASE Start
  BY <1>2 DEF Start, CallGetfile
<1>3. CASE Load
  BY <1>3 DEF Load
<1>4. CASE Export
  BY <1>4 DEF Export
<1>5. CASE WriteHeader
  <2>1. disk["events.json"] \in Wanted \cup {"uncore"}
    BY <1>5, WholeIs DEF WriteHeader, LookedUp, May, FileNames
  <2>2. disk["events.json"] = "uncore" => Misnamed
    BY DEF Named
  <2> QED
    BY <1>5, <2>1, <2>2 DEF WriteHeader, TypeOK, FileNames, Store
<1>6. CASE Fail
  BY <1>6 DEF Fail
<1>7. CASE Fetch
  BY <1>7 DEF Fetch
<1>8. CASE FetchFails
  BY <1>8 DEF FetchFails
<1>9. CASE Put
  BY <1>9 DEF Put
<1>10. CASE OpenMap
  BY <1>10 DEF OpenMap
<1>11. CASE DownloadRow
  BY <1>11 DEF DownloadRow, CallGetfile
<1>12. CASE Look
  BY <1>12 DEF Look, CallGetfile
<1>13. CASE LookMap
  BY <1>13 DEF LookMap
<1>14. CASE LookRow
  BY <1>14 DEF LookRow, CallGetfile
<1>15. CASE Copy
  BY <1>15 DEF Copy
<1>16. CASE Copied
  BY <1>16 DEF Copied
<1>17. CASE FindModel
  BY <1>17 DEF FindModel
<1>18. CASE GetFiles
  BY <1>18 DEF GetFiles, CallGetfile
<1>19. CASE Merge
  BY <1>19 DEF Merge
<1>20. CASE Dump
  BY <1>20 DEF Dump
<1>21. CASE Kill
  BY <1>21 DEF Kill
<1>22. CASE CalmDown
  BY <1>22 DEF CalmDown, progVars, setup
<1>23. CASE UNCHANGED vars
  BY <1>23 DEF vars, progVars, setup
<1>24. CASE FetchBreaksOff
  BY <1>24 DEF FetchBreaksOff
<1>25. CASE Hang
  BY <1>25 DEF Hang
<1>26. CASE FileFails
  BY <1>26 DEF FileFails
<1> QED
  BY <1>1, <1>2, <1>3, <1>4, <1>5, <1>6, <1>7, <1>8, <1>9, <1>10, <1>11, <1>12,
     <1>13, <1>14, <1>15, <1>16, <1>17, <1>18, <1>19, <1>20, <1>21, <1>22, <1>23,
     <1>24, <1>25, <1>26
     DEF Next, Program, Download, Intel, Amd

\* What is left of the rows are rows of the map file, whole ones where
\* download_current goes through them.
LEMMA RowsKept ==
  TypeOK /\ Downloading /\ LookedUp /\ [Next]_vars
    => /\ rows' \in Seq(AllRows)
       /\ pc' = "row" \/ (pc' \in {"get", "put"} /\ job'.ok = "row") => rows' \in Seq(RowSet)
<1> SUFFICES ASSUME TypeOK /\ Downloading /\ LookedUp, [Next]_vars
             PROVE  /\ rows' \in Seq(AllRows)
                    /\ pc' = "row" \/ (pc' \in {"get", "put"} /\ job'.ok = "row")
                         => rows' \in Seq(RowSet)
  OBVIOUS
<1> USE DEF TypeOK, Downloading, LookedUp, GoodJob, Goto
<1>1. CASE Run
  BY <1>1 DEF Run
<1>2. CASE Start
  BY <1>2, RowsAre DEF Start, CallGetfile
<1>3. CASE Load
  BY <1>3 DEF Load
<1>4. CASE Export
  BY <1>4 DEF Export
<1>5. CASE WriteHeader
  BY <1>5 DEF WriteHeader
<1>6. CASE Fail
  BY <1>6 DEF Fail
<1>7. CASE Fetch
  BY <1>7 DEF Fetch
<1>8. CASE FetchFails
  BY <1>8 DEF FetchFails
<1>9. CASE Put
  BY <1>9 DEF Put
<1>10. CASE OpenMap
  BY <1>10, ReadableIs DEF OpenMap
<1>11. CASE DownloadRow
  BY <1>11, HeadIs DEF DownloadRow, CallGetfile
<1>12. CASE Look
  BY <1>12 DEF Look, CallGetfile
<1>13. CASE LookMap
  BY <1>13, ReadableIs DEF LookMap
<1>14. CASE LookRow
  <2>1. pc = "lookrow" /\ rows' \in Seq(AllRows)
    BY <1>14, HeadIs DEF LookRow
  <2>2. \/ pc' \in {"lookrow", "look", "merge"}
        \/ pc' = "get" /\ job'.ok = "lookrow"
    BY <1>14 DEF LookRow, CallGetfile
  <2> QED
    BY <2>1, <2>2
<1>15. CASE Copy
  BY <1>15 DEF Copy
<1>16. CASE Copied
  BY <1>16 DEF Copied
<1>17. CASE FindModel
  BY <1>17, MapIs, RowsAre DEF FindModel
<1>18. CASE GetFiles
  <2>1. pc = "file" /\ rows' \in Seq(AllRows)
    BY <1>18, HeadIs DEF GetFiles
  <2>2. \/ pc' \in {"file", "look", "merge"}
        \/ pc' = "get" /\ job'.ok = "file"
    BY <1>18 DEF GetFiles, CallGetfile
  <2> QED
    BY <2>1, <2>2
<1>19. CASE Merge
  BY <1>19 DEF Merge
<1>20. CASE Dump
  BY <1>20 DEF Dump
<1>21. CASE Kill
  BY <1>21 DEF Kill
<1>22. CASE CalmDown
  BY <1>22 DEF CalmDown, progVars, setup
<1>23. CASE UNCHANGED vars
  BY <1>23 DEF vars, progVars, setup
<1>24. CASE FetchBreaksOff
  BY <1>24 DEF FetchBreaksOff
<1>25. CASE Hang
  BY <1>25 DEF Hang
<1>26. CASE FileFails
  BY <1>26 DEF FileFails
<1> QED
  BY <1>1, <1>2, <1>3, <1>4, <1>5, <1>6, <1>7, <1>8, <1>9, <1>10, <1>11, <1>12,
     <1>13, <1>14, <1>15, <1>16, <1>17, <1>18, <1>19, <1>20, <1>21, <1>22, <1>23,
     <1>24, <1>25, <1>26
     DEF Next, Program, Download, Intel, Amd

\* A download returns to the steps of its own machine.
LEMMA JobKept ==
  TypeOK /\ Downloading /\ [Next]_vars
    => OfMachine(pc') /\ (pc' \in {"get", "put", "hang"} => GoodJob(job'))
<1> SUFFICES ASSUME TypeOK /\ Downloading, [Next]_vars
             PROVE  OfMachine(pc') /\ (pc' \in {"get", "put", "hang"} => GoodJob(job'))
  OBVIOUS
<1> USE DEF TypeOK, Downloading, OfMachine, IntelSteps, AmdSteps, Making, GoodJob, Goto
<1>1. CASE Run
  BY <1>1 DEF Run
<1>2. CASE Start
  <2>1. /\ May("mapfile.csv") = {"map"}
        /\ machine = "ARM" => May("events.json") = {"arm"}
        /\ machine \in {"Intel", "Hybrid", "AMD", "ARM"}
    BY WantedIs DEF May
  <2> QED
    BY <1>2, <2>1 DEF Start, CallGetfile
<1>3. CASE Load
  BY <1>3 DEF Load
<1>4. CASE Export
  BY <1>4 DEF Export
<1>5. CASE WriteHeader
  BY <1>5 DEF WriteHeader
<1>6. CASE Fail
  BY <1>6 DEF Fail
<1>7. CASE Fetch
  BY <1>7 DEF Fetch
<1>8. CASE FetchFails
  BY <1>8 DEF FetchFails
<1>9. CASE Put
  BY <1>9 DEF Put
<1>10. CASE OpenMap
  BY <1>10 DEF OpenMap
<1>11. CASE DownloadRow
  BY <1>11, HeadIs DEF DownloadRow, CallGetfile
<1>12. CASE Look
  <2>1. May("mapfile.csv") = {"map"}
    BY DEF May
  <2> QED
    BY <1>12, <2>1 DEF Look, CallGetfile
<1>13. CASE LookMap
  BY <1>13 DEF LookMap
<1>14. CASE LookRow
  BY <1>14, HeadIs DEF LookRow, CallGetfile
<1>15. CASE Copy
  BY <1>15 DEF Copy
<1>16. CASE Copied
  BY <1>16 DEF Copied
<1>17. CASE FindModel
  BY <1>17 DEF FindModel
<1>18. CASE GetFiles
  BY <1>18, HeadIs DEF GetFiles, CallGetfile
<1>19. CASE Merge
  BY <1>19 DEF Merge
<1>20. CASE Dump
  BY <1>20 DEF Dump
<1>21. CASE Kill
  BY <1>21 DEF Kill
<1>22. CASE CalmDown
  BY <1>22 DEF CalmDown, progVars, setup
<1>23. CASE UNCHANGED vars
  BY <1>23 DEF vars, progVars, setup
<1>24. CASE FetchBreaksOff
  BY <1>24 DEF FetchBreaksOff
<1>25. CASE Hang
  BY <1>25 DEF Hang
<1>26. CASE FileFails
  BY <1>26 DEF FileFails
<1> QED
  BY <1>1, <1>2, <1>3, <1>4, <1>5, <1>6, <1>7, <1>8, <1>9, <1>10, <1>11, <1>12,
     <1>13, <1>14, <1>15, <1>16, <1>17, <1>18, <1>19, <1>20, <1>21, <1>22, <1>23,
     <1>24, <1>25, <1>26
     DEF Next, Program, Download, Intel, Amd

\* JobKept and RowsKept, with what they say of the machine.
LEMMA DownloadingKept == TypeOK /\ Downloading /\ LookedUp /\ [Next]_vars => Downloading'
<1> SUFFICES ASSUME TypeOK /\ Downloading /\ LookedUp, [Next]_vars PROVE Downloading'
  OBVIOUS
<1>1. /\ RowSet' = RowSet /\ AllRows' = AllRows /\ KeyFile' = KeyFile
      /\ \A f : May(f)' = May(f)
  BY MachineStays, SameMay
<1>2. OfMachine(pc') /\ (pc' \in {"get", "put", "hang"} => GoodJob(job'))
  BY JobKept
<1>3. GoodJob(job') => GoodJob(job)'
  BY <1>1, MachineStays DEF GoodJob, OfMachine
<1>4. OfMachine(pc)'
  BY <1>2, MachineStays DEF OfMachine
<1> QED
  BY <1>1, <1>2, <1>3, <1>4, RowsKept DEF Downloading

\* A call of getfile names files, data and steps that there are.
LEMMA JobTyped == TypeOK /\ Downloading /\ [Next]_vars => (pc' \in Steps /\ job' \in Jobs)
<1> SUFFICES ASSUME TypeOK /\ Downloading, [Next]_vars
             PROVE  (pc' \in Steps /\ job' \in Jobs)
  OBVIOUS
<1> USE DEF TypeOK, Downloading, Jobs, Steps, Goto
<1>1. CASE Run
  BY <1>1 DEF Run
<1>2. CASE Start
  BY <1>2 DEF Start, CallGetfile, FileNames, Data
<1>3. CASE Load
  BY <1>3 DEF Load
<1>4. CASE Export
  BY <1>4 DEF Export
<1>5. CASE WriteHeader
  BY <1>5 DEF WriteHeader
<1>6. CASE Fail
  BY <1>6 DEF Fail
<1>7. CASE Fetch
  BY <1>7 DEF Fetch
<1>8. CASE FetchFails
  BY <1>8 DEF FetchFails
<1>9. CASE Put
  BY <1>9 DEF Put
<1>10. CASE OpenMap
  BY <1>10 DEF OpenMap
<1>11. CASE DownloadRow
  BY <1>11, HeadIs DEF DownloadRow, CallGetfile
<1>12. CASE Look
  BY <1>12 DEF Look, CallGetfile, FileNames, Data
<1>13. CASE LookMap
  BY <1>13 DEF LookMap
<1>14. CASE LookRow
  BY <1>14, HeadIs DEF LookRow, CallGetfile
<1>15. CASE Copy
  BY <1>15 DEF Copy
<1>16. CASE Copied
  BY <1>16 DEF Copied
<1>17. CASE FindModel
  BY <1>17 DEF FindModel
<1>18. CASE GetFiles
  BY <1>18, HeadIs DEF GetFiles, CallGetfile
<1>19. CASE Merge
  BY <1>19 DEF Merge
<1>20. CASE Dump
  BY <1>20 DEF Dump
<1>21. CASE Kill
  BY <1>21 DEF Kill
<1>22. CASE CalmDown
  BY <1>22 DEF CalmDown, progVars, setup
<1>23. CASE UNCHANGED vars
  BY <1>23 DEF vars, progVars, setup
<1>24. CASE FetchBreaksOff
  BY <1>24 DEF FetchBreaksOff
<1>25. CASE Hang
  BY <1>25 DEF Hang
<1>26. CASE FileFails
  BY <1>26 DEF FileFails
<1> QED
  BY <1>1, <1>2, <1>3, <1>4, <1>5, <1>6, <1>7, <1>8, <1>9, <1>10, <1>11, <1>12,
     <1>13, <1>14, <1>15, <1>16, <1>17, <1>18, <1>19, <1>20, <1>21, <1>22, <1>23,
     <1>24, <1>25, <1>26
     DEF Next, Program, Download, Intel, Amd

\* A download that has used up its tries is over.
LEMMA CountsTyped ==
  TypeOK /\ Downloading /\ Trying /\ [Next]_vars
    => (tries' \in 0 .. NumTries /\ attempt' \in 0 .. 2 /\ Trying')
<1> SUFFICES ASSUME TypeOK /\ Downloading /\ Trying, [Next]_vars
             PROVE  (tries' \in 0 .. NumTries /\ attempt' \in 0 .. 2 /\ Trying')
  OBVIOUS
<1> USE FilesAssumption DEF TypeOK, Downloading, GoodJob, Making, IntelSteps, AmdSteps,
     Trying, Goto
<1>1. CASE Run
  BY <1>1 DEF Run
<1>2. CASE Start
  BY <1>2 DEF Start, CallGetfile
<1>3. CASE Load
  BY <1>3 DEF Load
<1>4. CASE Export
  BY <1>4 DEF Export
<1>5. CASE WriteHeader
  BY <1>5 DEF WriteHeader
<1>6. CASE Fail
  BY <1>6 DEF Fail
<1>7. CASE Fetch
  BY <1>7 DEF Fetch
<1>8. CASE FetchFails
  BY <1>8 DEF FetchFails, OutOfTries
<1>9. CASE Put
  BY <1>9 DEF Put
<1>10. CASE OpenMap
  BY <1>10 DEF OpenMap
<1>11. CASE DownloadRow
  BY <1>11 DEF DownloadRow, CallGetfile
<1>12. CASE Look
  BY <1>12 DEF Look, CallGetfile
<1>13. CASE LookMap
  BY <1>13 DEF LookMap
<1>14. CASE LookRow
  BY <1>14 DEF LookRow, CallGetfile
<1>15. CASE Copy
  BY <1>15 DEF Copy
<1>16. CASE Copied
  BY <1>16 DEF Copied
<1>17. CASE FindModel
  BY <1>17 DEF FindModel
<1>18. CASE GetFiles
  BY <1>18 DEF GetFiles, CallGetfile
<1>19. CASE Merge
  BY <1>19 DEF Merge
<1>20. CASE Dump
  BY <1>20 DEF Dump
<1>21. CASE Kill
  BY <1>21 DEF Kill
<1>22. CASE CalmDown
  BY <1>22 DEF CalmDown, progVars, setup
<1>23. CASE UNCHANGED vars
  BY <1>23 DEF vars, progVars, setup
<1>24. CASE FetchBreaksOff
  BY <1>24 DEF FetchBreaksOff
<1>25. CASE Hang
  BY <1>25 DEF Hang
<1>26. CASE FileFails
  BY <1>26 DEF FileFails
<1> QED
  BY <1>1, <1>2, <1>3, <1>4, <1>5, <1>6, <1>7, <1>8, <1>9, <1>10, <1>11, <1>12,
     <1>13, <1>14, <1>15, <1>16, <1>17, <1>18, <1>19, <1>20, <1>21, <1>22, <1>23,
     <1>24, <1>25, <1>26
     DEF Next, Program, Download, Intel, Amd

\* So are the file that was found and the ways a run ends.
LEMMA RestTyped ==
  TypeOK /\ Downloading /\ [Next]_vars
    => /\ found' \in FileNames \cup {"none"}
       /\ result' \in {"none", "ok", "failed", "killed"} /\ calm' \in BOOLEAN
<1> SUFFICES ASSUME TypeOK /\ Downloading, [Next]_vars
             PROVE  /\ found' \in FileNames \cup {"none"}
                    /\ result' \in {"none", "ok", "failed", "killed"} /\ calm' \in BOOLEAN
  OBVIOUS
<1> USE DEF TypeOK, Downloading, Jobs
<1>1. CASE Run
  BY <1>1 DEF Run
<1>2. CASE Start
  BY <1>2 DEF Start, CallGetfile
<1>3. CASE Load
  BY <1>3 DEF Load
<1>4. CASE Export
  BY <1>4 DEF Export
<1>5. CASE WriteHeader
  BY <1>5 DEF WriteHeader
<1>6. CASE Fail
  BY <1>6 DEF Fail
<1>7. CASE Fetch
  BY <1>7 DEF Fetch
<1>8. CASE FetchFails
  BY <1>8 DEF FetchFails
<1>9. CASE Put
  BY <1>9 DEF Put
<1>10. CASE OpenMap
  BY <1>10 DEF OpenMap
<1>11. CASE DownloadRow
  BY <1>11 DEF DownloadRow, CallGetfile
<1>12. CASE Look
  BY <1>12 DEF Look, CallGetfile
<1>13. CASE LookMap
  BY <1>13 DEF LookMap
<1>14. CASE LookRow
  BY <1>14, HeadIs DEF LookRow, CallGetfile
<1>15. CASE Copy
  BY <1>15 DEF Copy
<1>16. CASE Copied
  BY <1>16 DEF Copied
<1>17. CASE FindModel
  BY <1>17 DEF FindModel
<1>18. CASE GetFiles
  BY <1>18 DEF GetFiles, CallGetfile
<1>19. CASE Merge
  BY <1>19 DEF Merge
<1>20. CASE Dump
  BY <1>20 DEF Dump
<1>21. CASE Kill
  BY <1>21 DEF Kill
<1>22. CASE CalmDown
  BY <1>22 DEF CalmDown, progVars, setup
<1>23. CASE UNCHANGED vars
  BY <1>23 DEF vars, progVars, setup
<1>24. CASE FetchBreaksOff
  BY <1>24 DEF FetchBreaksOff
<1>25. CASE Hang
  BY <1>25 DEF Hang
<1>26. CASE FileFails
  BY <1>26 DEF FileFails
<1> QED
  BY <1>1, <1>2, <1>3, <1>4, <1>5, <1>6, <1>7, <1>8, <1>9, <1>10, <1>11, <1>12,
     <1>13, <1>14, <1>15, <1>16, <1>17, <1>18, <1>19, <1>20, <1>21, <1>22, <1>23,
     <1>24, <1>25, <1>26
     DEF Next, Program, Download, Intel, Amd

-----------------------------------------------------------------------------

LEMMA Initially == Init => IInv
<1> SUFFICES ASSUME Init PROVE IInv
  OBVIOUS
<1>1. TypeOK
  <2>1. rows \in Seq(FileNames \X Data) /\ tries \in 0 .. NumTries /\ attempt \in 0 .. 2
    BY FilesAssumption DEF Init
  <2>2. disk \in [FileNames -> Data \cup {"absent", "part"}] /\ pc \in Steps /\ job \in Jobs
    BY DEF Init, NoJob, Jobs, FileNames, Data, Steps
  <2>3. machine \in Machines /\ dir \in Dirs /\ calm \in BOOLEAN
    BY DEF Init
  <2>4. result \in {"none", "ok", "failed", "killed"} /\ found \in FileNames \cup {"none"}
    BY DEF Init
  <2> QED
    BY <2>1, <2>2, <2>3, <2>4 DEF TypeOK
<1>2. OnDisk
  BY DEF Init, OnDisk
<1>3. Downloading
  <2>1. rows \in Seq(AllRows)
    BY DEF Init
  <2> QED
    BY <2>1 DEF Init, Downloading, OfMachine, IntelSteps, AmdSteps
<1>4. Underway /\ Named /\ HeaderCanBeRemade
  BY DEF Init, Underway, Making, IntelSteps, AmdSteps, Named, HeaderCanBeRemade, Exists,
     FileNames
<1>5. LookedUp /\ HeaderIsWhole /\ Trying
  BY DEF Init, LookedUp, HeaderIsWhole, Trying
<1> QED
  BY <1>1, <1>2, <1>3, <1>4, <1>5 DEF IInv

LEMMA Stays == IInv /\ [Next]_vars => IInv'
<1> SUFFICES ASSUME IInv, [Next]_vars PROVE IInv'
  OBVIOUS
<1> USE DEF IInv
<1>1. machine' \in Machines /\ dir' \in Dirs
  BY MachineStays DEF TypeOK
<1>2. OnDisk' /\ disk' \in [FileNames -> Data \cup {"absent", "part"}]
  BY OnDiskKept
<1>3. rows' \in Seq(FileNames \X Data)
  <2>1. AllRows \subseteq FileNames \X Data
    BY RowIs
  <2> QED
    BY <2>1, RowsKept
<1>4. pc' \in Steps /\ job' \in Jobs
  BY JobTyped
<1>5. tries' \in 0 .. NumTries /\ attempt' \in 0 .. 2 /\ Trying'
  BY CountsTyped
<1>6. /\ found' \in FileNames \cup {"none"}
      /\ result' \in {"none", "ok", "failed", "killed"} /\ calm' \in BOOLEAN
  BY RestTyped
<1>7. TypeOK'
  BY <1>1, <1>2, <1>3, <1>4, <1>5, <1>6 DEF TypeOK
<1> QED
  BY <1>2, <1>5, <1>7, DownloadingKept, LookedUpKept, UnderwayKept, NamedKept, WholeKept

LEMMA Invariant == Spec => []IInv
  BY Initially, Stays, PTL DEF Spec

\* Every variable keeps its type: no download is tried too often, and
\* parse_map_file is called twice at most (scripts/program_utils.py:
\* getfile; scripts/pmu_intel_event_download.py: eventlist_name).
THEOREM TypeCorrect == Spec => []TypeOK
<1>1. IInv => TypeOK
  BY DEF IInv
<1> QED
  BY Invariant, <1>1, PTL

\* A run that ends well has made its header of a whole event file of this
\* machine, whatever killed and failed runs have left, unless one has left a
\* file of the wrong name (scripts/pmu_init.py).
THEOREM HeadersAreWhole == Spec => []HeaderIsWhole
<1>1. IInv => HeaderIsWhole
  BY DEF IInv
<1> QED
  BY Invariant, <1>1, PTL

\* A run that fails or is killed while it writes the header loses the one that
\* was there, but never what it is made of: where there is a header, or a part
\* of one, the file of its events is whole, and of the same events
\* (scripts/program_utils.py: export_header, get_doc_pmu_dict).
THEOREM HeadersCanBeRemade == Spec => []HeaderCanBeRemade
<1>1. IInv => HeaderCanBeRemade
  BY DEF IInv
<1> QED
  BY Invariant, <1>1, PTL

-----------------------------------------------------------------------------
(* A run shortens with each step *)

\* Where a download goes on: nearer to the end if it fails.
Returning ==
  pc \in {"get", "put", "hang"} =>
    <<job.ok, job.bad>> \in
      { <<"load", "failed">>, <<"model", "failed">>, <<"file", "failed">>,
        <<"map", "look">>, <<"row", "look">>, <<"lookmap", "look">>, <<"lookrow", "look">> }

LEMMA Returns == Spec => []Returning
<1>1. Init => Returning
  BY DEF Init, Returning
<1>2. Returning /\ [Next]_vars => Returning'
  <2> SUFFICES ASSUME Returning, [Next]_vars PROVE Returning'
    OBVIOUS
  <2> USE DEF Returning, Goto
  <2>1. CASE Run \/ Load \/ Export \/ WriteHeader \/ Fail \/ Kill
    BY <2>1 DEF Run, Load, Export, WriteHeader, Fail, Kill
  <2>2. CASE OpenMap \/ LookMap \/ Copy \/ Copied \/ FindModel \/ Merge \/ Dump
    BY <2>2 DEF OpenMap, LookMap, Copy, Copied, FindModel, Merge, Dump
  <2>3. CASE Fetch \/ FetchFails \/ FetchBreaksOff \/ Hang \/ Put \/ FileFails
    BY <2>3 DEF Fetch, FetchFails, FetchBreaksOff, Hang, Put, FileFails
  <2>4. CASE Start
    BY <2>4 DEF Start, CallGetfile
  <2>5. CASE DownloadRow \/ GetFiles
    BY <2>5 DEF DownloadRow, GetFiles, CallGetfile
  <2>6. CASE Look \/ LookRow
    BY <2>6 DEF Look, LookRow, CallGetfile
  <2>7. CASE CalmDown \/ UNCHANGED vars
    BY <2>7 DEF CalmDown, vars, progVars
  <2> QED
    BY <2>1, <2>2, <2>3, <2>4, <2>5, <2>6, <2>7 DEF Next, Program, Download, Intel, Amd
<1> QED
  BY <1>1, <1>2, PTL DEF Spec

\* The four parts of what remains.
Calls    == IF pc = "start" THEN 3 ELSE 2 - attempt
Way      == Distance(IF pc \in {"get", "put", "hang"} THEN job.ok ELSE pc)
RowsLeft == Len(rows)
Trials   == IF pc = "get" THEN 1 + NumTries - tries ELSE IF pc = "put" THEN 1 ELSE 0

LEMMA Distances ==
  /\ Distance("off") = 0 /\ Distance("failed") = 1 /\ Distance("print") = 2
  /\ Distance("export") = 3 /\ Distance("load") = 4 /\ Distance("copying") = 5
  /\ Distance("dump") = 5 /\ Distance("copy") = 6 /\ Distance("merge") = 6
  /\ Distance("look") = 7 /\ Distance("file") = 7 /\ Distance("lookrow") = 8
  /\ Distance("model") = 8 /\ Distance("lookmap") = 9 /\ Distance("row") = 10
  /\ Distance("map") = 11 /\ Distance("start") = 12
BY DEF Distance

LEMMA RemainingIs ==
  ASSUME TypeOK, Trying, Returning
  PROVE  Calls \in Nat /\ Way \in Nat /\ RowsLeft \in Nat /\ Trials \in Nat
<1>1. Calls \in Nat /\ Trials \in Nat
  BY FilesAssumption DEF TypeOK, Trying, Calls, Trials
<1>2. Way \in Nat
  <2>1. CASE pc \in {"get", "put", "hang"}
    BY <2>1, Distances DEF Way, Returning
  <2>2. CASE pc \notin {"get", "put", "hang"}
    BY <2>2, Distances DEF Way, TypeOK, Steps
  <2> QED
    BY <2>1, <2>2
<1>3. RowsLeft \in Nat
  BY LenProperties DEF RowsLeft, TypeOK
<1> QED
  BY <1>1, <1>2, <1>3

\* The order, part by part.
LEMMA BelowIs ==
  ASSUME NEW a \in Nat \X Nat \X Nat \X Nat, NEW b \in Nat \X Nat \X Nat \X Nat,
         \/ a[1] < b[1]
         \/ a[1] = b[1] /\ a[2] < b[2]
         \/ a[1] = b[1] /\ a[2] = b[2] /\ a[3] < b[3]
         \/ a[1] = b[1] /\ a[2] = b[2] /\ a[3] = b[3] /\ a[4] < b[4]
  PROVE  Below(a, b)
<1>1. CASE a[1] < b[1]
  BY <1>1 DEF Below
<1>2. CASE a[1] = b[1] /\ a[2] < b[2]
  <2>1. \A j \in 1 .. 1 : a[j] = b[j]
    BY <1>2
  <2> QED
    BY <1>2, <2>1 DEF Below
<1>3. CASE a[1] = b[1] /\ a[2] = b[2] /\ a[3] < b[3]
  <2>1. \A j \in 1 .. 2 : a[j] = b[j]
    BY <1>3
  <2> QED
    BY <1>3, <2>1 DEF Below
<1>4. CASE a[1] = b[1] /\ a[2] = b[2] /\ a[3] = b[3] /\ a[4] < b[4]
  <2>1. \A j \in 1 .. 3 : a[j] = b[j]
    BY <1>4
  <2> QED
    BY <1>4, <2>1 DEF Below
<1> QED
  BY <1>1, <1>2, <1>3, <1>4

Less ==
  \/ Calls' < Calls
  \/ Calls' = Calls /\ Way' < Way
  \/ Calls' = Calls /\ Way' = Way /\ RowsLeft' < RowsLeft
  \/ Calls' = Calls /\ Way' = Way /\ RowsLeft' = RowsLeft /\ Trials' < Trials

\* A step that goes straight on.
LEMMA Straight ==
  ASSUME TypeOK, pc \notin {"start", "get", "put", "hang"},
         pc' \notin {"start", "get", "put", "hang"},
         attempt' = attempt, Distance(pc') < Distance(pc)
  PROVE  Less
BY DEF Less, Calls, Way, TypeOK

\* A row is taken from the list, and perhaps downloaded.
LEMMA NextRow ==
  ASSUME TypeOK, rows # <<>>, rows' = Tail(rows), attempt' = attempt,
         pc \in {"row", "lookrow", "file"},
         pc' = pc \/ (pc' = "get" /\ job'.ok = pc)
  PROVE  Less
<1>1. RowsLeft \in Nat /\ RowsLeft' < RowsLeft
  BY HeadTailProperties, LenProperties DEF RowsLeft, TypeOK
<1>2. Calls' = Calls /\ Way' = Way
  BY DEF Calls, Way
<1> QED
  BY <1>1, <1>2 DEF Less

LEMMA StepsShorten ==
  ASSUME TypeOK, Trying, Returning, Downloading, pc # "off", calm' = calm, Next
  PROVE  Less
<1> USE Distances DEF Goto
<1>1. CASE Start
  <2>1. pc = "start" /\ pc' # "start" /\ attempt' = 0
    BY <1>1 DEF Start, CallGetfile
  <2> QED
    BY <2>1 DEF Less, Calls
<1>2. CASE Load \/ Export \/ WriteHeader \/ Fail
  <2>1. /\ pc \notin {"start", "get", "put", "hang"}
        /\ pc' \notin {"start", "get", "put", "hang"} /\ attempt' = attempt
    BY <1>2 DEF Load, Export, WriteHeader, Fail
  <2>2. Distance(pc') < Distance(pc)
    BY <1>2 DEF Load, Export, WriteHeader, Fail
  <2> QED
    BY <2>1, <2>2, Straight
<1>3. CASE OpenMap \/ LookMap \/ Copy \/ Copied \/ FindModel \/ Merge \/ Dump
  <2>1. /\ pc \notin {"start", "get", "put", "hang"}
        /\ pc' \notin {"start", "get", "put", "hang"} /\ attempt' = attempt
    BY <1>3 DEF OpenMap, LookMap, Copy, Copied, FindModel, Merge, Dump
  <2>2. Distance(pc') < Distance(pc)
    BY <1>3 DEF OpenMap, LookMap, Copy, Copied, FindModel, Merge, Dump
  <2> QED
    BY <2>1, <2>2, Straight
<1>4. CASE Fetch
  <2>1. pc = "get" /\ pc' = "put" /\ UNCHANGED <<job, rows, attempt>>
    BY <1>4 DEF Fetch
  <2>2. tries < NumTries
    BY <2>1 DEF Trying
  <2>3. Calls' = Calls /\ Way' = Way /\ RowsLeft' = RowsLeft
    BY <2>1 DEF Calls, Way, RowsLeft
  <2>4. Trials' < Trials
    BY <2>1, <2>2, FilesAssumption DEF Trials, TypeOK
  <2> QED
    BY <2>3, <2>4 DEF Less
<1>5. CASE FetchFails /\ ~OutOfTries(tries')
  <2>1. pc = "get" /\ pc' = "get" /\ tries' = tries + 1 /\ UNCHANGED <<job, rows, attempt>>
    BY <1>5 DEF FetchFails
  <2>2. Calls' = Calls /\ Way' = Way /\ RowsLeft' = RowsLeft
    BY <2>1 DEF Calls, Way, RowsLeft
  <2>3. Trials' < Trials
    BY <2>1, FilesAssumption DEF Trials, TypeOK
  <2> QED
    BY <2>2, <2>3 DEF Less
<1>6. CASE FetchFails /\ OutOfTries(tries')
  <2>1. pc = "get" /\ pc' = job.bad /\ UNCHANGED <<job, rows, attempt>>
    BY <1>6 DEF FetchFails
  <2>2. job.bad \notin {"start", "get", "put", "hang"} /\ Distance(job.bad) < Distance(job.ok)
    BY <2>1 DEF Returning
  <2>3. Calls' = Calls /\ Way' < Way
    BY <2>1, <2>2 DEF Calls, Way
  <2> QED
    BY <2>3 DEF Less
<1>7. CASE Put
  <2>1. pc = "put" /\ pc' = job.ok /\ UNCHANGED <<job, rows, attempt>>
    BY <1>7 DEF Put
  <2>2. job.ok \notin {"start", "get", "put", "hang"}
    BY <2>1 DEF Returning
  <2>3. Calls' = Calls /\ Way' = Way /\ RowsLeft' = RowsLeft
    BY <2>1, <2>2 DEF Calls, Way, RowsLeft
  <2>4. Trials' < Trials
    BY <2>1, <2>2 DEF Trials
  <2> QED
    BY <2>3, <2>4 DEF Less
<1>8. CASE DownloadRow \/ LookRow \/ GetFiles
  <2>1. CASE rows = <<>>
    <3>1. pc \in {"row", "lookrow", "file"} /\ pc' \in {"look", "merge"} /\ attempt' = attempt
          /\ Distance(pc') < Distance(pc)
      BY <1>8, <2>1 DEF DownloadRow, LookRow, GetFiles
    <3> QED
      BY <3>1, Straight
  <2>2. CASE rows # <<>>
    <3>1. pc \in {"row", "lookrow", "file"} /\ rows' = Tail(rows) /\ attempt' = attempt
          /\ (pc' = pc \/ (pc' = "get" /\ job'.ok = pc))
      BY <1>8, <2>2 DEF DownloadRow, LookRow, GetFiles, CallGetfile
    <3> QED
      BY <2>2, <3>1, NextRow
  <2> QED
    BY <2>1, <2>2
<1>9. CASE Look /\ (HasFile \/ attempt = 2)
  <2>1. pc = "look" /\ pc' = "copy" /\ attempt' = attempt
    BY <1>9 DEF Look
  <2> QED
    BY <2>1, Straight
<1>10. CASE Look /\ ~(HasFile \/ attempt = 2)
  <2>1. pc = "look" /\ pc' \in {"lookmap", "get"} /\ attempt' = attempt + 1
    BY <1>10 DEF Look, CallGetfile
  <2>2. Calls' < Calls
    BY <2>1 DEF Calls, TypeOK
  <2> QED
    BY <2>2 DEF Less
<1>11. CASE Kill
  <2>1. pc' = "off" /\ UNCHANGED <<job, attempt>>
    BY <1>11 DEF Kill
  <2>2. CASE pc = "start"
    BY <2>1, <2>2 DEF Less, Calls, TypeOK
  <2>3. CASE pc # "start"
    <3>1. Calls' = Calls /\ Way' = 0
      BY <2>1, <2>3 DEF Calls, Way
    <3>2. Way > 0
      BY <2>3 DEF Way, Returning, TypeOK, Steps
    <3> QED
      BY <3>1, <3>2 DEF Less
  <2> QED
    BY <2>2, <2>3
<1>12. CASE FetchBreaksOff
  <2>1. pc = "get" /\ pc' = "failed" /\ UNCHANGED <<job, attempt>>
    BY <1>12 DEF FetchBreaksOff
  <2>2. Distance("failed") < Distance(job.ok)
    BY <2>1 DEF Returning
  <2>3. Calls' = Calls /\ Way' < Way
    BY <2>1, <2>2 DEF Calls, Way
  <2> QED
    BY <2>3 DEF Less
<1>13. CASE Hang
  <2>1. pc = "get" /\ pc' = "hang" /\ UNCHANGED <<job, tries, rows, attempt>>
    BY <1>13 DEF Hang
  <2>2. tries < NumTries
    BY <2>1 DEF Trying
  <2>3. Calls' = Calls /\ Way' = Way /\ RowsLeft' = RowsLeft
    BY <2>1 DEF Calls, Way, RowsLeft
  <2>4. Trials' < Trials
    BY <2>1, <2>2, FilesAssumption DEF Trials, TypeOK
  <2> QED
    BY <2>3, <2>4 DEF Less
<1>14. CASE FileFails
  <2>1. CASE pc = "start"
    <3>1. pc' = "failed" /\ attempt' = attempt
      BY <1>14, <2>1 DEF FileFails
    <3> QED
      BY <2>1, <3>1 DEF Less, Calls, TypeOK
  <2>2. CASE pc \in {"get", "put"}
    <3>1. pc' = job.bad /\ UNCHANGED <<job, attempt>>
      BY <1>14, <2>2 DEF FileFails
    <3>2. job.bad \notin {"start", "get", "put", "hang"} /\ Distance(job.bad) < Distance(job.ok)
      BY <2>2 DEF Returning
    <3>3. Calls' = Calls /\ Way' < Way
      BY <2>2, <3>1, <3>2 DEF Calls, Way
    <3> QED
      BY <3>3 DEF Less
  <2>3. CASE pc \notin {"start", "get", "put"}
    <3>1. attempt' = attempt /\ pc' \in {"look", "failed"} /\ pc \notin {"off", "failed", "hang"}
          /\ (pc' = "look" => pc \in {"map", "row", "lookmap", "lookrow"})
      BY <1>14, <2>3 DEF FileFails
    <3>2. Distance(pc') < Distance(pc)
      BY <2>3, <3>1 DEF TypeOK, Steps
    <3> QED
      BY <2>3, <3>1, <3>2, Straight
  <2> QED
    BY <2>1, <2>2, <2>3
<1>15. ~Run /\ ~CalmDown
  BY DEF Run, CalmDown, TypeOK
<1> QED
  BY <1>1, <1>2, <1>3, <1>4, <1>5, <1>6, <1>7, <1>8, <1>9, <1>10, <1>11, <1>12,
     <1>13, <1>14, <1>15
  DEF Next, Program, Download, Intel, Amd

\* No run of the scripts can go on for ever but in a request that hangs,
\* whatever fails and whatever files it finds: what remains of it lessens with
\* each step, as the tries of getfile and the calls of parse_map_file are
\* counted and the rows get fewer (scripts/program_utils.py,
\* scripts/pmu_intel_event_download.py).
THEOREM RunsGetShorter == Spec => RunsShorten
<1>1. ASSUME IInv, IInv', Returning, Returning', [Next]_vars
      PROVE  [pc # "off" /\ calm' = calm =>
                /\ Remaining' \in Nat \X Nat \X Nat \X Nat
                /\ Below(Remaining', Remaining)]_vars
  <2> SUFFICES ASSUME Next, pc # "off", calm' = calm
               PROVE  /\ Remaining' \in Nat \X Nat \X Nat \X Nat
                      /\ Below(Remaining', Remaining)
    BY <1>1
  <2>1. /\ Remaining = <<Calls, Way, RowsLeft, Trials>>
        /\ Remaining' = <<Calls', Way', RowsLeft', Trials'>>
    BY DEF Remaining, Calls, Way, RowsLeft, Trials
  <2>2. Calls \in Nat /\ Way \in Nat /\ RowsLeft \in Nat /\ Trials \in Nat
    BY <1>1, RemainingIs DEF IInv
  <2>3. (Calls \in Nat /\ Way \in Nat /\ RowsLeft \in Nat /\ Trials \in Nat)'
    <3>1. TypeOK' /\ Trying' /\ Returning'
      BY <1>1 DEF IInv
    <3> QED
      BY <3>1, RemainingIs, PTL
  <2>4. Less
    BY <1>1, StepsShorten DEF IInv
  <2> HIDE DEF Calls, Way, RowsLeft, Trials
  <2>5. Below(<<Calls', Way', RowsLeft', Trials'>>, <<Calls, Way, RowsLeft, Trials>>)
    <3> DEFINE a == <<Calls', Way', RowsLeft', Trials'>>
               b == <<Calls, Way, RowsLeft, Trials>>
    <3>1. a \in Nat \X Nat \X Nat \X Nat /\ b \in Nat \X Nat \X Nat \X Nat
      BY <2>2, <2>3
    <3>2. \/ a[1] < b[1]
          \/ a[1] = b[1] /\ a[2] < b[2]
          \/ a[1] = b[1] /\ a[2] = b[2] /\ a[3] < b[3]
          \/ a[1] = b[1] /\ a[2] = b[2] /\ a[3] = b[3] /\ a[4] < b[4]
      BY <2>4 DEF Less
    <3> HIDE DEF a, b
    <3>3. Below(a, b)
      BY <3>1, <3>2, BelowIs
    <3> QED
      BY <3>3 DEF a, b
  <2> QED
    BY <2>1, <2>2, <2>3, <2>5
<1> QED
  BY <1>1, Invariant, Returns, PTL DEF Spec, RunsShorten

=============================================================================
