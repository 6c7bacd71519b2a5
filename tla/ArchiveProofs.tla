--------------------------- MODULE ArchiveProofs ---------------------------
(***************************************************************************)
(* Theorems about the archive copies, for any months, tables, rows, queue  *)
(* and numbers of failures.                                                *)
(***************************************************************************)
EXTENDS Archive, TLAPS

LEMMA Constants ==
    /\ NTables \in Nat \ {0} /\ CopyAfter \in Nat \ {0} /\ Window \in Nat \ {0}
    /\ ReqCap \in Nat \ {0} /\ MaxTime \in Nat \ {0}
    /\ Retain \in Nat /\ MaxFaults \in Nat /\ MaxLosses \in Nat
    /\ MonthOf \in [Rows -> Months] /\ TableOf \in [Rows -> 1..NTables]
    /\ NoFile # Half
BY RowsAssumption, SizesAssumption

(* The rows of a file are not the mark of a missing or a half written one. *)
LEMMA BagIsAFile ==
    ASSUME NEW S
    PROVE  /\ Bag(S) \in [Rows -> 0..1]
           /\ Bag(S) # NoFile /\ Bag(S) # Half
<1>1. Bag(S) \in [Rows -> 0..1]
  BY DEF Bag
<1>2. Bag(S) \in [Rows -> Nat]
  BY DEF Bag
<1> QED BY <1>1, <1>2, RowsAssumption

(* RunArchiver asks for months in the range of the model only. *)
LEMMA CandidateIsAMonth ==
    ASSUME now \in 1..MaxTime, NEW i \in 0..(Window - 1)
    PROVE  Candidate(i) \in Months
BY Constants DEF Candidate, Months

IInv == TypeOK /\ AttemptInv /\ RecordedHasCopy

LEMMA InitIInv == Init => IInv
<1> SUFFICES ASSUME Init PROVE IInv
  OBVIOUS
<1>1. 1 \in Months /\ <<>> \in Seq(Months) /\ Len(<<>>) = 0
  BY Constants DEF Months
<1>2. NoTmp \in [Months -> {NoFile}]
  BY DEF NoTmp
<1>3. TypeOK
  BY <1>1, <1>2, Constants DEF Init, TypeOK
<1>4. AttemptInv /\ RecordedHasCopy
  BY DEF Init, AttemptInv, RecordedHasCopy
<1> QED BY <1>3, <1>4 DEF IInv

-----------------------------------------------------------------------------
(* Every step preserves the invariant                                      *)

LEMMA StepIInv == IInv /\ [Next]_vars => IInv'
<1> SUFFICES ASSUME TypeOK, AttemptInv, RecordedHasCopy, [Next]_vars PROVE IInv'
  BY DEF IInv
<1> USE Constants
<1>1. CASE Check
  <2>1. TypeOK'
    BY <1>1 DEF Check, TypeOK, requests, files, position, history
  <2>2. AttemptInv'
    BY <1>1 DEF Check, TypeOK, AttemptInv, RowsOf, requests, files, position, history
  <2>3. RecordedHasCopy'
    BY <1>1 DEF Check, TypeOK, AttemptInv, RecordedHasCopy, requests, files, position, history
  <2> QED BY <2>1, <2>2, <2>3 DEF IInv
<1>2. CASE Request
  <2>1. TypeOK'
    <3>1. cand \in 0..(Window - 1) /\ Candidate(cand) \in Months
      BY <1>2, CandidateIsAMonth DEF Request, TypeOK
    <3>2. cand' \in 0..Window /\ now' \in 1..MaxTime
      BY <1>2, <3>1 DEF Request, TypeOK
    <3>3. archiveReq' \in Seq(Months) /\ Len(archiveReq') <= ReqCap
      BY <1>2, <3>1 DEF Request, TypeOK
    <3> QED BY <1>2, <3>2, <3>3 DEF Request, TypeOK, files, position, history
  <2>2. AttemptInv'
    BY <1>2 DEF Request, TypeOK, AttemptInv, RowsOf, requests, files, position, history
  <2>3. RecordedHasCopy'
    BY <1>2 DEF Request, TypeOK, AttemptInv, RecordedHasCopy, requests, files, position, history
  <2> QED BY <2>1, <2>2, <2>3 DEF IInv
<1>3. CASE ExecArchive
  <2>1. TypeOK'
    BY <1>3 DEF ExecArchive, TypeOK, requests, files, position, history
  <2>2. AttemptInv'
    BY <1>3 DEF ExecArchive, TypeOK, AttemptInv, RowsOf, requests, files, position, history
  <2>3. RecordedHasCopy'
    BY <1>3 DEF ExecArchive, TypeOK, AttemptInv, RecordedHasCopy, requests, files, position, history
  <2> QED BY <2>1, <2>2, <2>3 DEF IInv
<1>4. CASE RemoveStale
  <2>1. TypeOK'
    BY <1>4 DEF RemoveStale, TypeOK, requests, files, position, history
  <2>2. AttemptInv'
    BY <1>4 DEF RemoveStale, TypeOK, AttemptInv, RowsOf, requests, files, position, history
  <2>3. RecordedHasCopy'
    BY <1>4 DEF RemoveStale, TypeOK, AttemptInv, RecordedHasCopy, requests, files, position, history
  <2> QED BY <2>1, <2>2, <2>3 DEF IInv
<1>5. CASE CheckCopied
  <2>1. TypeOK'
    BY <1>5 DEF CheckCopied, TypeOK, requests, files, position, history
  <2>2. AttemptInv'
    BY <1>5 DEF CheckCopied, TypeOK, AttemptInv, RowsOf, requests, files, position, history
  <2>3. RecordedHasCopy'
    BY <1>5 DEF CheckCopied, TypeOK, AttemptInv, RecordedHasCopy, requests, files, position, history
  <2> QED BY <2>1, <2>2, <2>3 DEF IInv
<1>6. CASE MonthHasData
  <2>1. TypeOK'
    <3>1. Bag({}) \in [Rows -> 0..1]
      BY BagIsAFile
    <3>2. tmpDB' \in [Months -> [Rows -> 0..1] \cup {NoFile}]
      BY <1>6, <3>1 DEF MonthHasData, TypeOK
    <3> QED BY <1>6, <3>2 DEF MonthHasData, TypeOK, requests, history
  <2>2. AttemptInv'
    <3>1. CASE RowsOf(month) = {}
      BY <1>6, <3>1 DEF MonthHasData, AttemptInv
    <3>2. CASE RowsOf(month) # {}
      <4>1. {r \in RowsOf(month) : TableOf[r] < 1} = {}
        BY DEF TypeOK, RowsOf
      <4>2. tmpDB'[month] = Bag({})
        BY <1>6, <3>2 DEF MonthHasData, TypeOK, AttemptInv
      <4>3. RowsOf(month)' = RowsOf(month) /\ month' = month /\ tab' = 1 /\ pc' = "export"
        BY <1>6, <3>2 DEF MonthHasData, RowsOf
      <4> QED BY <4>1, <4>2, <4>3 DEF AttemptInv
    <3> QED BY <3>1, <3>2
  <2>3. RecordedHasCopy'
    BY <1>6 DEF MonthHasData, TypeOK, AttemptInv, RecordedHasCopy, requests,
       files, position, history
  <2> QED BY <2>1, <2>2, <2>3 DEF IInv
<1>7. CASE ExportTable
  <2> DEFINE Done == {r \in RowsOf(month) : TableOf[r] < tab + 1}
  <2>0. tmpDB' = [tmpDB EXCEPT ![month] = Bag(Done)]
    <3>1. tmpDB[month] = Bag({r \in RowsOf(month) : TableOf[r] < tab})
      BY <1>7 DEF ExportTable, AttemptInv
    <3>2. ASSUME NEW r \in Rows
          PROVE  tmpDB[month][r]
                   + (IF r \in RowsOf(month) /\ TableOf[r] = tab THEN 1 ELSE 0)
                 = (IF r \in Done THEN 1 ELSE 0)
      BY <3>1 DEF Bag, TypeOK
    <3>3. [r \in Rows |-> tmpDB[month][r]
             + (IF r \in RowsOf(month) /\ TableOf[r] = tab THEN 1 ELSE 0)]
          = Bag(Done)
      BY <3>2, Zenon DEF Bag
    <3> QED BY <1>7, <3>3, Zenon DEF ExportTable
  <2>1. TypeOK'
    <3>1. Bag(Done) \in [Rows -> 0..1]
      BY BagIsAFile
    <3>2. tmpDB' \in [Months -> [Rows -> 0..1] \cup {NoFile}]
      BY <2>0, <3>1 DEF TypeOK
    <3> QED BY <1>7, <3>2 DEF ExportTable, TypeOK, requests, history
  <2>2. AttemptInv'
    <3>1. tmpDB'[month] = Bag(Done)
      BY <2>0 DEF TypeOK
    <3>2. /\ RowsOf(month)' = RowsOf(month) /\ month' = month
          /\ tab' = tab + 1 /\ pc' = "export"
      BY <1>7 DEF ExportTable, RowsOf
    <3> QED BY <3>1, <3>2 DEF AttemptInv
  <2>3. RecordedHasCopy'
    BY <1>7 DEF ExportTable, TypeOK, AttemptInv, RecordedHasCopy, requests, files, position, history
  <2> QED BY <2>1, <2>2, <2>3 DEF IInv
<1>8. CASE Verify
  <2>1. TypeOK'
    BY <1>8 DEF Verify, TypeOK, requests, files, position, history
  <2>2. AttemptInv'
    <3>1. {r \in RowsOf(month) : TableOf[r] < tab} = RowsOf(month)
      BY <1>8 DEF Verify, TypeOK, RowsOf
    <3>2. /\ RowsOf(month)' = RowsOf(month) /\ month' = month
          /\ tmpDB' = tmpDB /\ pc' \in {"gzip", "idle"}
      BY <1>8 DEF Verify, RowsOf, files
    <3>3. tmpDB[month] = Bag(RowsOf(month))
      BY <1>8, <3>1 DEF Verify, AttemptInv
    <3> QED BY <3>2, <3>3 DEF AttemptInv
  <2>3. RecordedHasCopy'
    BY <1>8 DEF Verify, TypeOK, AttemptInv, RecordedHasCopy, requests, files, position, history
  <2> QED BY <2>1, <2>2, <2>3 DEF IInv
<1>9. CASE GzipBegins
  <2>1. TypeOK'
    BY <1>9 DEF GzipBegins, TypeOK, requests, files, position, history
  <2>2. AttemptInv'
    BY <1>9 DEF GzipBegins, TypeOK, AttemptInv, RowsOf, requests, files, position, history
  <2>3. RecordedHasCopy'
    BY <1>9 DEF GzipBegins, TypeOK, AttemptInv, RecordedHasCopy, requests, files, position, history
  <2> QED BY <2>1, <2>2, <2>3 DEF IInv
<1>10. CASE GzipEnds
  <2>1. TypeOK'
    BY <1>10 DEF GzipEnds, TypeOK, requests, files, position, history
  <2>2. AttemptInv'
    BY <1>10 DEF GzipEnds, TypeOK, AttemptInv, RowsOf, requests, files, position, history
  <2>3. RecordedHasCopy'
    BY <1>10 DEF GzipEnds, TypeOK, AttemptInv, RecordedHasCopy, requests, files, position, history
  <2> QED BY <2>1, <2>2, <2>3 DEF IInv
<1>11. CASE Rename
  <2> DEFINE copy == Bag(RowsOf(month))
  <2>0. /\ tmpGZ[month] = copy /\ copy \in [Rows -> 0..1]
        /\ copy # NoFile /\ month \in Months
    BY <1>11, BagIsAFile DEF Rename, AttemptInv, TypeOK
  <2>4. final' = [final EXCEPT ![month] = copy]
    BY <1>11, <2>0 DEF Rename
  <2>1. TypeOK'
    <3>1. saved' \subseteq Rows /\ lost' \subseteq Months
      BY <1>11 DEF Rename, Held, TypeOK
    <3>2. final' \in [Months -> [Rows -> 0..1] \cup {NoFile}]
      BY <2>0, <2>4 DEF TypeOK
    <3>3. tmpGZ' \in [Months -> [Rows -> 0..1] \cup {NoFile, Half}]
      BY <1>11 DEF Rename, TypeOK
    <3> QED BY <1>11, <3>1, <3>2, <3>3 DEF Rename, TypeOK, requests
  <2>2. AttemptInv'
    BY <1>11, <2>0, <2>4 DEF Rename, TypeOK, AttemptInv
  <2>3. RecordedHasCopy'
    BY <1>11, <2>0, <2>4 DEF Rename, TypeOK, RecordedHasCopy
  <2> QED BY <2>1, <2>2, <2>3 DEF IInv
<1>12. CASE RemoveTmp
  <2>1. TypeOK'
    BY <1>12 DEF RemoveTmp, TypeOK, requests, files, position, history
  <2>2. AttemptInv'
    BY <1>12 DEF RemoveTmp, TypeOK, AttemptInv, RowsOf, requests, files, position, history
  <2>3. RecordedHasCopy'
    BY <1>12 DEF RemoveTmp, TypeOK, AttemptInv, RecordedHasCopy, requests, files, position, history
  <2> QED BY <2>1, <2>2, <2>3 DEF IInv
<1>13. CASE RecordCopiedMonth
  <2>1. TypeOK'
    BY <1>13 DEF RecordCopiedMonth, TypeOK, requests, files, position, history
  <2>2. AttemptInv'
    BY <1>13 DEF RecordCopiedMonth, TypeOK, AttemptInv, RowsOf, requests, files, position, history
  <2>3. RecordedHasCopy'
    BY <1>13 DEF RecordCopiedMonth, TypeOK, AttemptInv, RecordedHasCopy,
       requests, files, position, history
  <2> QED BY <2>1, <2>2, <2>3 DEF IInv
<1>14. CASE StepFails
  <2>1. TypeOK'
    BY <1>14 DEF StepFails, TypeOK, requests, files, position, history
  <2>2. AttemptInv'
    BY <1>14 DEF StepFails, TypeOK, AttemptInv, RowsOf, requests, files, position, history
  <2>3. RecordedHasCopy'
    BY <1>14 DEF StepFails, TypeOK, AttemptInv, RecordedHasCopy, requests, files, position, history
  <2> QED BY <2>1, <2>2, <2>3 DEF IInv
<1>15. CASE Crash
  <2>1. TypeOK'
    BY <1>15 DEF Crash, TypeOK, requests, files, position, history
  <2>2. AttemptInv'
    BY <1>15 DEF Crash, TypeOK, AttemptInv, RowsOf, requests, files, position, history
  <2>3. RecordedHasCopy'
    BY <1>15 DEF Crash, TypeOK, AttemptInv, RecordedHasCopy, requests, files, position, history
  <2> QED BY <2>1, <2>2, <2>3 DEF IInv
<1>16. CASE Restart
  <2>1. TypeOK'
    <3>1. NoTmp \in [Months -> {NoFile}]
      BY DEF NoTmp
    <3> QED BY <1>16, <3>1 DEF Restart, TypeOK, requests, history
  <2>2. AttemptInv'
    BY <1>16 DEF Restart, TypeOK, AttemptInv, RowsOf, requests, files, position, history
  <2>3. RecordedHasCopy'
    BY <1>16 DEF Restart, TypeOK, AttemptInv, RecordedHasCopy, requests, files, position, history
  <2> QED BY <2>1, <2>2, <2>3 DEF IInv
<1>17. CASE NextMonth
  <2>1. TypeOK'
    BY <1>17 DEF NextMonth, TypeOK, requests, files, position, history
  <2>2. AttemptInv'
    BY <1>17 DEF NextMonth, TypeOK, AttemptInv, RowsOf, requests, files, position, history
  <2>3. RecordedHasCopy'
    BY <1>17 DEF NextMonth, TypeOK, AttemptInv, RecordedHasCopy, requests, files, position, history
  <2> QED BY <2>1, <2>2, <2>3 DEF IInv
<1>18. CASE Expire
  <2>1. TypeOK'
    BY <1>18 DEF Expire, TypeOK, requests, files, position, history
  <2>2. AttemptInv'
    BY <1>18 DEF Expire, TypeOK, AttemptInv, RowsOf, requests, files, position, history
  <2>3. RecordedHasCopy'
    BY <1>18 DEF Expire, TypeOK, AttemptInv, RecordedHasCopy, requests, files, position, history
  <2> QED BY <2>1, <2>2, <2>3 DEF IInv
<1>19. CASE \E r \in Rows : Insert(r)
  <2> PICK r \in Rows : Insert(r)
    BY <1>19
  <2>1. TypeOK'
    BY DEF Insert, TypeOK, requests, files, position, history
  <2>2. AttemptInv'
    BY DEF Insert, AttemptInv, RowsOf, requests, files, position, history
  <2>3. RecordedHasCopy'
    BY DEF Insert, RecordedHasCopy, requests, files, position, history
  <2> QED BY <2>1, <2>2, <2>3 DEF IInv
<1>20. CASE \E m \in Months : LoseCopy(m)
  <2> PICK m \in Months : LoseCopy(m)
    BY <1>20
  <2>1. TypeOK'
    BY DEF LoseCopy, TypeOK, requests, files, position, history
  <2>2. AttemptInv'
    BY DEF LoseCopy, TypeOK, AttemptInv, RowsOf, requests, files, position, history
  <2>3. RecordedHasCopy'
    BY DEF LoseCopy, TypeOK, RecordedHasCopy, requests, files, position, history
  <2> QED BY <2>1, <2>2, <2>3 DEF IInv
<1>21. CASE UNCHANGED vars
  BY <1>21 DEF IInv, TypeOK, AttemptInv, RecordedHasCopy, RowsOf, vars,
     requests, files, position, history
<1> QED BY <1>1, <1>2, <1>3, <1>4, <1>5, <1>6, <1>7, <1>8, <1>9, <1>10, <1>11,
   <1>12, <1>13, <1>14, <1>15, <1>16, <1>17, <1>18, <1>19, <1>20,
   <1>21 DEF Next, ArchiveMonthDB
-----------------------------------------------------------------------------
(* The theorems                                                            *)

LEMMA AlwaysIInv == Spec => []IInv
BY InitIInv, StepIInv, PTL DEF Spec

(* Every variable stays in its range, and no row is twice in a file: an     *)
(* attempt of ArchiveMonthDB exports into a file that it has made.          *)
THEOREM TypeCorrect == Spec => []TypeOK
<1>1. IInv => TypeOK
  BY DEF IInv
<1> QED BY <1>1, AlwaysIInv, PTL

(* meta.copied_months names no month without a copy, unless somebody else   *)
(* has removed the copy: whatever step of ArchiveMonthDB fails and wherever *)
(* the process dies.                                                        *)
THEOREM RecordsHaveCopies == Spec => []RecordedHasCopy
<1>1. IInv => RecordedHasCopy
  BY DEF IInv
<1> QED BY <1>1, AlwaysIInv, PTL

(* An attempt of ArchiveMonthDB finds what its earlier steps have left:     *)
(* the rows of the month up to the table it exports next, in a file of its  *)
(* own, then the verified file, then the compressed one.                    *)
THEOREM AttemptsAreConsistent == Spec => []ArchiveInv
<1>1. IInv => ArchiveInv
  BY DEF IInv, ArchiveInv
<1> QED BY <1>1, AlwaysIInv, PTL

(* The one step that makes a copy appear is the rename, and the file that   *)
(* it renames holds all rows of the month.                                  *)
LEMMA StepWhole ==
    ASSUME IInv, [Next]_vars, NEW m \in Months,
           final'[m] \notin {final[m], NoFile}
    PROVE  final'[m] = Bag(RowsOf(m))
<1>1. final \in [Months -> [Rows -> 0..1] \cup {NoFile}] /\ month \in Months
  BY DEF IInv, TypeOK
<1>2. CASE Rename
  <2>1. final' = [final EXCEPT ![month] = Bag(RowsOf(month))]
    BY <1>2 DEF Rename, IInv, AttemptInv
  <2> QED BY <1>1, <2>1
<1>3. CASE CheckCopied
  BY <1>1, <1>3 DEF CheckCopied
<1>4. CASE \E l \in Months : LoseCopy(l)
  BY <1>1, <1>4 DEF LoseCopy
<1>5. ASSUME ~Rename, ~CheckCopied, ~\E l \in Months : LoseCopy(l)
      PROVE  final' = final
  BY <1>5 DEF Next, ArchiveMonthDB, Check, Request, ExecArchive, StepFails, Crash,
              Restart, NextMonth, Expire, Insert, RemoveStale, MonthHasData,
              ExportTable, Verify, GzipBegins, GzipEnds, RemoveTmp,
              RecordCopiedMonth, vars, files
<1> QED BY <1>2, <1>3, <1>4, <1>5

(* A copy that appears under its final name is complete: every row that the *)
(* main database holds of the month is in it once.                          *)
THEOREM CopiesAreWhole == Spec => CopiesAppearWhole
<1>1. IInv /\ [Next]_vars =>
         [\A m \in Months : final'[m] \notin {final[m], NoFile} =>
              final'[m] = Bag(RowsOf(m))]_vars
  BY StepWhole
<1> QED BY <1>1, AlwaysIInv, PTL DEF Spec, CopiesAppearWhole
=============================================================================
