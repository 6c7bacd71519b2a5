------------------------------ MODULE Archive ------------------------------
(***************************************************************************)
(* Monthly archive copies (internal/archive): RunArchiver asks for months  *)
(* that are old enough, the writer takes one request at a time and         *)
(* ArchiveMonthDB exports the month to <month>.db.tmp, compresses it to    *)
(* <month>.db.gz.tmp, renames that to <month>.db.gz and notes the month in *)
(* meta.copied_months.  Every step may fail and the process may die after  *)
(* any of them; the next attempt starts over from what it finds on disk.   *)
(* Between two requests the writer inserts rows and the retention deletes  *)
(* rows whose period is over.                                              *)
(*                                                                         *)
(* Time is counted in months; a row belongs to a month and to a table.  A  *)
(* database file is a bag of rows (the copied tables have no primary key); *)
(* a file that is being compressed holds Half.                             *)
(***************************************************************************)
EXTENDS Integers, Sequences, FiniteSetsExt

CONSTANTS
    Rows, MonthOf, TableOf,  \* MonthOf[r] \in Months, TableOf[r] \in 1..NTables
    NTables,      \* the number of archived tables
    CopyAfter,    \* archive.copy_after_days, in months
    Window,       \* candidate months per check (24)
    Retain,       \* db.retention_days, in months; 0 disables the retention
    ReqCap,       \* capacity of Store.archiveReq (8)
    NoFile, Half, \* what a file is that does not exist, or is half written
    MaxTime, MaxFaults, MaxLosses  \* bounds

Months == (2 - CopyAfter - Window)..MaxTime

ASSUME RowsAssumption ==
    /\ NTables \in Nat \ {0}
    /\ NoFile # Half /\ {NoFile, Half} \cap [Rows -> Nat] = {}
    /\ MonthOf \in [Rows -> Months] /\ TableOf \in [Rows -> 1..NTables]

ASSUME SizesAssumption ==
    /\ {CopyAfter, Window, ReqCap, MaxTime} \subseteq Nat \ {0}
    /\ {Retain, MaxFaults, MaxLosses} \subseteq Nat

VARIABLES
    now,        \* the current month
    cand,       \* the candidate RunArchiver offers next; Window: it waits
    archiveReq, \* the queue of requested months
    main,       \* the rows of the main database
    copied,     \* meta.copied_months
    tmpDB, tmpGZ, final,  \* the three files of each month
    pc, month, tab,       \* where ArchiveMonthDB is
    expired,    \* rows the retention has deleted
    faults, losses,  \* failed steps and deaths, and removed copies, so far
    lost,       \* months whose copy somebody else has deleted from the disk
    saved       \* (history) rows that have been in a copy

requests == <<cand, archiveReq>>
files    == <<tmpDB, tmpGZ, final>>
position == <<pc, month, tab>>
history  == <<faults, losses, lost, saved>>
vars == <<now, requests, main, copied, files, position, expired, history>>

NoTmp == [m \in Months |-> NoFile]
RowsOf(m) == {r \in main : MonthOf[r] = m}
Bag(S) == [r \in Rows |-> IF r \in S THEN 1 ELSE 0]
Held(file) == IF file \in {NoFile, Half} THEN {} ELSE {r \in Rows : file[r] > 0}

Init == /\ now = 1 /\ cand = Window /\ archiveReq = <<>>
        /\ main = {} /\ copied = {} /\ expired = {}
        /\ tmpDB = NoTmp /\ tmpGZ = NoTmp /\ final = NoTmp
        /\ pc = "idle" /\ month = 1 /\ tab = 1
        /\ faults = 0 /\ losses = 0 /\ lost = {} /\ saved = {}

-----------------------------------------------------------------------------
(* RunArchiver and RequestArchive                                          *)

\* An hourly tick on the first day of a month, past monthly_hour.
Check == /\ pc # "off" /\ cand = Window
         /\ cand' = 0
         /\ UNCHANGED <<now, archiveReq, main, copied, files, position,
                        expired, history>>

Candidate(i) == now - CopyAfter - i

\* One candidate after the other, the youngest first; a full queue refuses.
Request ==
    /\ pc # "off" /\ cand < Window
    /\ cand' = cand + 1
    /\ archiveReq' = IF Len(archiveReq) < ReqCap
                     THEN Append(archiveReq, Candidate(cand)) ELSE archiveReq
    /\ UNCHANGED <<now, main, copied, files, position, expired, history>>

-----------------------------------------------------------------------------
(* The writer between two requests                                         *)

\* A batch: rows of the current month, or late ones of an earlier month.
Insert(r) == /\ pc = "idle" /\ r \notin main \cup expired /\ MonthOf[r] <= now
             /\ main' = main \cup {r}
             /\ UNCHANGED <<now, requests, copied, files, position, expired,
                            history>>

\* The retention deletes old rows, some or all: a round may be given up.
Expire == /\ pc = "idle" /\ Retain > 0
          /\ \E S \in (SUBSET {r \in main : MonthOf[r] + Retain <= now}) \ {{}} :
                main' = main \ S /\ expired' = expired \cup S
          /\ UNCHANGED <<now, requests, copied, files, position, history>>

-----------------------------------------------------------------------------
(* execArchive and ArchiveMonthDB                                          *)

\* The next request; on a disk above critical it is dropped.
ExecArchive ==
    /\ pc = "idle" /\ archiveReq # <<>>
    /\ archiveReq' = Tail(archiveReq)
    /\ \/ pc' = "stale" /\ month' = Head(archiveReq) /\ UNCHANGED faults
       \/ /\ faults < MaxFaults /\ faults' = faults + 1
          /\ UNCHANGED <<pc, month>>
    /\ UNCHANGED <<now, cand, main, copied, files, tab, expired, losses, lost,
                   saved>>

\* Remove(tmpDB), Remove(tmpGZ)
RemoveStale ==
    /\ pc = "stale" /\ pc' = "check"
    /\ tmpDB' = [tmpDB EXCEPT ![month] = NoFile]
    /\ tmpGZ' = [tmpGZ EXCEPT ![month] = NoFile]
    /\ UNCHANGED <<now, requests, main, copied, final, month, tab, expired,
                   history>>

\* Mutant: a month on record is skipped without a look at its copy.
CheckCopiedTrusts ==
    /\ pc = "check"
    /\ pc' = IF month \in copied THEN "idle" ELSE "data"
    /\ final' = IF month \in copied THEN final
                ELSE [final EXCEPT ![month] = NoFile]
    /\ UNCHANGED <<now, requests, main, copied, tmpDB, tmpGZ, month, tab,
                   expired, history>>

\* The month is done when it is on record and its copy exists; a record
\* without a copy is removed, and so is a copy without a record.
CheckCopied ==
    /\ pc = "check"
    /\ IF month \in copied /\ final[month] # NoFile
       THEN pc' = "idle" /\ UNCHANGED <<copied, final>>
       ELSE /\ pc' = "data"
            /\ copied' = copied \ {month}
            /\ final' = [final EXCEPT ![month] = NoFile]
    /\ UNCHANGED <<now, requests, main, tmpDB, tmpGZ, month, tab, expired,
                   history>>

\* No file for a month without data; otherwise ATTACH creates <month>.db.tmp.
MonthHasData ==
    /\ pc = "data"
    /\ IF RowsOf(month) = {}
       THEN pc' = "idle" /\ UNCHANGED <<tab, tmpDB>>
       ELSE /\ pc' = "export" /\ tab' = 1
            /\ tmpDB' = [tmpDB EXCEPT
                           ![month] = IF @ = NoFile THEN Bag({}) ELSE @]
    /\ UNCHANGED <<now, requests, main, copied, tmpGZ, final, month, expired,
                   history>>

\* Mutant: the rows of all months are copied.
ExportTableAll ==
    /\ pc = "export" /\ tab <= NTables
    /\ tmpDB' = [tmpDB EXCEPT
          ![month] = [r \in Rows |->
             @[r] + (IF r \in main /\ TableOf[r] = tab THEN 1 ELSE 0)]]
    /\ tab' = tab + 1
    /\ UNCHANGED <<now, requests, main, copied, tmpGZ, final, pc, month,
                   expired, history>>

\* INSERT INTO arc.t SELECT ... FROM main.t, table after table.
ExportTable ==
    /\ pc = "export" /\ tab <= NTables
    /\ tmpDB' = [tmpDB EXCEPT
          ![month] = [r \in Rows |->
             @[r] + (IF r \in RowsOf(month) /\ TableOf[r] = tab THEN 1 ELSE 0)]]
    /\ tab' = tab + 1
    /\ UNCHANGED <<now, requests, main, copied, tmpGZ, final, pc, month,
                   expired, history>>

Count(bag, t) == MapThenSumSet(LAMBDA r : bag[r], {r \in Rows : TableOf[r] = t})

\* Mutant: the month goes on record as soon as the export is verified.
VerifyAndRecord ==
    /\ pc = "export" /\ tab > NTables
    /\ pc' = "gzip" /\ copied' = copied \cup {month}
    /\ UNCHANGED <<now, requests, main, files, month, tab, expired, history>>

\* The number of rows of each table in the copy and in the main database.
Verify ==
    /\ pc = "export" /\ tab > NTables
    /\ pc' = IF \A t \in 1..NTables :
                   Count(tmpDB[month], t) = Count(Bag(RowsOf(month)), t)
             THEN "gzip" ELSE "idle"
    /\ UNCHANGED <<now, requests, main, copied, files, month, tab, expired,
                   history>>

\* Mutant: the copy is compressed into its final file.
GzipInPlace ==
    /\ pc = "gzip" /\ pc' = "zipping"
    /\ tmpGZ' = [tmpGZ EXCEPT ![month] = Half]
    /\ final' = [final EXCEPT ![month] = Half]
    /\ UNCHANGED <<now, requests, main, copied, tmpDB, month, tab, expired,
                   history>>

\* gzipFile creates or truncates <month>.db.gz.tmp ...
GzipBegins ==
    /\ pc = "gzip" /\ pc' = "zipping"
    /\ tmpGZ' = [tmpGZ EXCEPT ![month] = Half]
    /\ UNCHANGED <<now, requests, main, copied, tmpDB, final, month, tab,
                   expired, history>>

\* ... and has written and synced all of it.
GzipEnds ==
    /\ pc = "zipping" /\ pc' = "rename"
    /\ tmpGZ' = [tmpGZ EXCEPT ![month] = tmpDB[month]]
    /\ UNCHANGED <<now, requests, main, copied, tmpDB, final, month, tab,
                   expired, history>>

Rename ==
    /\ pc = "rename" /\ pc' = "unlink"
    /\ final' = [final EXCEPT ![month] = tmpGZ[month]]
    /\ tmpGZ' = [tmpGZ EXCEPT ![month] = NoFile]
    /\ saved' = saved \cup Held(tmpGZ[month])
    /\ lost' = lost \ {month}
    /\ UNCHANGED <<now, requests, main, copied, tmpDB, month, tab, expired,
                   faults, losses>>

RemoveTmp ==
    /\ pc = "unlink" /\ pc' = "record"
    /\ tmpDB' = [tmpDB EXCEPT ![month] = NoFile]
    /\ UNCHANGED <<now, requests, main, copied, tmpGZ, final, month, tab,
                   expired, history>>

RecordCopiedMonth ==
    /\ pc = "record" /\ pc' = "idle"
    /\ copied' = copied \cup {month}
    /\ UNCHANGED <<now, requests, main, files, month, tab, expired, history>>

\* A step returns an error: execArchive reports it, files stay as they are.
StepFails == /\ pc \notin {"idle", "off"} /\ faults < MaxFaults
             /\ faults' = faults + 1
             /\ pc' = "idle"
             /\ UNCHANGED <<now, requests, main, copied, files, month, tab,
                            expired, losses, lost, saved>>

-----------------------------------------------------------------------------
(* The process and the world                                               *)

Crash == /\ pc # "off" /\ faults < MaxFaults
         /\ faults' = faults + 1
         /\ pc' = "off" /\ archiveReq' = <<>> /\ cand' = Window
         /\ UNCHANGED <<now, main, copied, files, month, tab, expired, losses,
                        lost, saved>>

\* NewStore calls CleanStaleTmp before the writer runs.
Restart == /\ pc = "off" /\ pc' = "idle"
           /\ tmpDB' = NoTmp /\ tmpGZ' = NoTmp
           /\ UNCHANGED <<now, requests, main, copied, final, month, tab,
                          expired, history>>

\* Somebody removes a copy from the archive directory (R-08).
LoseCopy(m) == /\ final[m] # NoFile /\ losses < MaxLosses
               /\ final' = [final EXCEPT ![m] = NoFile]
               /\ lost' = lost \cup {m} /\ losses' = losses + 1
               /\ UNCHANGED <<now, requests, main, copied, tmpDB, tmpGZ,
                              position, expired, faults, saved>>

NextMonth == /\ now < MaxTime
             /\ now' = now + 1
             /\ UNCHANGED <<requests, main, copied, files, position, expired,
                            history>>

-----------------------------------------------------------------------------
ArchiveMonthDB == \/ RemoveStale \/ CheckCopied \/ MonthHasData \/ ExportTable
                  \/ Verify \/ GzipBegins \/ GzipEnds \/ Rename \/ RemoveTmp
                  \/ RecordCopiedMonth

Next == \/ Check \/ Request \/ ExecArchive \/ ArchiveMonthDB \/ StepFails
        \/ Crash \/ Restart \/ NextMonth \/ Expire
        \/ \E r \in Rows : Insert(r)
        \/ \E m \in Months : LoseCopy(m)

Spec == Init /\ [][Next]_vars

(* The tick comes every hour, the loop of RunArchiver never blocks, and the *)
(* writer finishes what it has begun and takes the next request.            *)
FairSpec == /\ Spec
            /\ WF_vars(Check) /\ WF_vars(Request) /\ WF_vars(Restart)
            /\ SF_vars(ExecArchive) /\ WF_vars(ArchiveMonthDB)

-----------------------------------------------------------------------------
(* Properties                                                              *)

(* Every variable stays in its range; in particular no row is twice in a    *)
(* file, whatever an earlier attempt has left there.                        *)
TypeOK ==
    /\ now \in 1..MaxTime /\ cand \in 0..Window
    /\ archiveReq \in Seq(Months) /\ Len(archiveReq) <= ReqCap
    /\ main \subseteq Rows /\ expired \subseteq Rows /\ saved \subseteq Rows
    /\ copied \subseteq Months /\ lost \subseteq Months
    /\ tmpDB \in [Months -> [Rows -> 0..1] \cup {NoFile}]
    /\ tmpGZ \in [Months -> [Rows -> 0..1] \cup {NoFile, Half}]
    /\ final \in [Months -> [Rows -> 0..1] \cup {NoFile}]
    /\ pc \in {"idle", "off", "stale", "check", "data", "export", "gzip",
               "zipping", "rename", "unlink", "record"}
    /\ month \in Months /\ tab \in 1..(NTables + 1) /\ faults \in 0..MaxFaults
    /\ losses \in 0..MaxLosses

(* What the steps of an attempt find: ArchiveMonthDB exports into a fresh   *)
(* file, all of the month is in it when gzip begins and in the compressed   *)
(* file when that is renamed, and the copy is there when the month is noted.*)
AttemptInv ==
    /\ pc \in {"check", "data"} => tmpDB[month] = NoFile
    /\ pc = "export" =>
          tmpDB[month] = Bag({r \in RowsOf(month) : TableOf[r] < tab})
    /\ pc \in {"gzip", "zipping"} => tmpDB[month] = Bag(RowsOf(month))
    /\ pc = "rename" => tmpGZ[month] = Bag(RowsOf(month))
    /\ pc \in {"unlink", "record"} => final[month] # NoFile \/ month \in lost

(* Types, and an attempt that finds the files it has left.                  *)
ArchiveInv == TypeOK /\ AttemptInv

(* A copy appears in one step and complete: all rows of all tables that the *)
(* main database holds of the month, each of them once (the order of export,*)
(* check, gzip and rename in ArchiveMonthDB, whatever failed before).       *)
CopiesAppearWhole ==
    [][\A m \in Months :
          final'[m] \notin {final[m], NoFile} => final'[m] = Bag(RowsOf(m))]_vars

(* A month on record has its copy, unless somebody else has removed it: the *)
(* record is written last, and the skip of ArchiveMonthDB is safe.          *)
RecordedHasCopy == \A m \in copied : final[m] # NoFile \/ m \in lost

\* The candidates of the last month that the model reaches.
Last(i) == MaxTime - CopyAfter - i

Due(m) == now = MaxTime /\ RowsOf(m) # {}

Archived(m) == m \in copied /\ final[m] # NoFile

\* Again and again the writer has emptied the queue when the next tick comes.
QueueIsEmptied == []<>(cand = Window /\ archiveReq = <<>>)

(* Whatever failed before, a candidate for which the queue has room when    *)
(* RunArchiver comes to it ends on record, with its copy, or without data:  *)
(* the next attempt starts over (R-01, R-08), and the younger candidates    *)
(* are asked for first, so that the older ones cannot keep them out.  The   *)
(* older ones have no such promise: the younger ones are offered again at   *)
(* every tick, on record or not (archive.go:348), so that the next cycle,   *)
(* of which archive.go:352 speaks, may refuse the same months again.        *)
YoungestArchived ==
    QueueIsEmptied =>
        \A i \in {j \in 0..(Window - 1) : j < ReqCap} :
            Due(Last(i)) ~> (RowsOf(Last(i)) = {} \/ Archived(Last(i)))

(* docs/技术方案.md:1030 says that copies are never deleted by the program,  *)
(* and line 656 that a repeated run has the same result: what has been in a *)
(* copy is in the copy or in the main database, unless somebody else has    *)
(* removed the copy.                                                        *)
ArchivedSurvives ==
    \A r \in saved : \/ r \in main \/ MonthOf[r] \in lost
                     \/ r \in Held(final[MonthOf[r]])
=============================================================================
