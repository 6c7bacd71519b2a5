-------------------------- MODULE ServicesProofs --------------------------
(***************************************************************************)
(* Theorems about the small services, for any thresholds and intervals,    *)
(* any addresses, any number of lines, restarts and failures.              *)
(***************************************************************************)
EXTENDS Services, TLAPS

-----------------------------------------------------------------------------
(* DiskMon                                                                 *)

(* What a check knows: the level of the last usage that could be read, the  *)
(* one the reports name, and the ages of the reports.                      *)
DiskKnows == /\ first \in BOOLEAN /\ measured \in Nat
             /\ lastLevel = Classify(measured) /\ announced = lastLevel
             /\ first => lastLevel = "OK"
             /\ levelReport \in [Levels -> 0..RepeatEvery] /\ silence \in 0..RepeatEvery

(* The level that is told again is the one whose last report is old: its    *)
(* age is never less than the silence.                                     *)
AgeCoversSilence == announced # "OK" => /\ silence <= levelReport[announced]
                                        /\ silence < RepeatEvery

DiskIInv == DiskKnows /\ AgeCoversSilence

(* Every usage has one level.                                              *)
LEMMA ClassifyType ==
    ASSUME NEW usage \in Nat
    PROVE  Classify(usage) \in Levels
BY DiskAssumption DEF Classify, Levels

LEMMA AgingType ==
    ASSUME NEW age \in 0..RepeatEvery
    PROVE  /\ Aging(age) \in 0..RepeatEvery /\ age <= Aging(age)
           /\ Aging(age) # RepeatEvery => Aging(age) = age + 1
BY DiskAssumption DEF Aging

LEMMA AgingKeepsOrder ==
    ASSUME NEW age \in 0..RepeatEvery, NEW older \in 0..RepeatEvery, age <= older
    PROVE  Aging(age) <= Aging(older)
BY DiskAssumption DEF Aging

LEMMA AgedType ==
    ASSUME levelReport \in [Levels -> 0..RepeatEvery]
    PROVE  /\ Aged \in [Levels -> 0..RepeatEvery]
           /\ \A l \in Levels : Aged[l] = Aging(levelReport[l])
BY AgingType DEF Aged

(* The level measured = 0 stands for is OK, as in the variable of the code. *)
LEMMA DiskStart == DiskInit => DiskIInv
<1>1. Classify(0) = "OK"
  BY DiskAssumption DEF Classify
<1> QED BY <1>1, DiskAssumption DEF DiskInit, DiskIInv, DiskKnows, AgeCoversSilence, Levels

LEMMA CheckFailsKeeps == DiskIInv /\ CheckFails => DiskIInv'
<1> SUFFICES ASSUME DiskIInv, CheckFails PROVE DiskIInv'
  OBVIOUS
<1>1. lastLevel \in Levels
  BY ClassifyType DEF DiskIInv, DiskKnows
<1>2. /\ Aged \in [Levels -> 0..RepeatEvery]
      /\ \A l \in Levels : levelReport[l] <= Aged[l]
  BY AgedType, AgingType DEF DiskIInv, DiskKnows
<1>3. DiskKnows'
  BY <1>2 DEF DiskIInv, DiskKnows, CheckFails, Classify
<1>4. ASSUME announced # "OK"
      PROVE  silence <= Aged[announced] /\ silence < RepeatEvery
  BY <1>1, <1>2, <1>4, DiskAssumption DEF DiskIInv, DiskKnows, AgeCoversSilence
<1>5. AgeCoversSilence'
  BY <1>4 DEF AgeCoversSilence, CheckFails
<1> QED BY <1>3, <1>5 DEF DiskIInv

LEMMA CheckKeeps ==
    ASSUME DiskIInv, NEW usage \in Usages, Check(usage)
    PROVE  DiskIInv'
<1> DEFINE level == Classify(usage)
<1>1. usage \in Nat /\ level \in Levels /\ lastLevel \in Levels
  BY ClassifyType, DiskAssumption DEF DiskIInv, DiskKnows
<1>2. /\ Aged \in [Levels -> 0..RepeatEvery]
      /\ \A l \in Levels : Aged[l] = Aging(levelReport[l])
  BY AgedType DEF DiskIInv, DiskKnows
<1>3. measured' = usage /\ first' = FALSE /\ lastLevel' = level /\ Classify(measured)' = level
  BY DEF Check, Classify
<1>4. CASE ReportLevel(level)
  <2>1. levelReport' \in [Levels -> 0..RepeatEvery] /\ levelReport'[level] = 0
    BY <1>1, <1>2, <1>4, DiskAssumption DEF ReportLevel
  <2>2. announced' = level /\ silence' = 0
    BY <1>4 DEF ReportLevel
  <2>3. DiskKnows'
    BY <1>1, <1>3, <2>1, <2>2, DiskAssumption DEF DiskKnows
  <2>4. AgeCoversSilence'
    BY <2>1, <2>2, DiskAssumption DEF AgeCoversSilence
  <2> QED BY <2>3, <2>4 DEF DiskIInv
<1>5. CASE ~ReportLevel(level)
  <2>1. /\ Quiet /\ level = (IF first THEN "OK" ELSE lastLevel)
        /\ level # "OK" => Aged[level] # RepeatEvery
    BY <1>5 DEF Check
  <2>2. level = announced /\ announced' = level /\ levelReport' = Aged /\ silence' = Aging(silence)
    BY <2>1 DEF Quiet, DiskIInv, DiskKnows
  <2>3. silence \in 0..RepeatEvery /\ silence' \in 0..RepeatEvery
    BY <2>2, AgingType DEF DiskIInv, DiskKnows
  <2>4. DiskKnows'
    BY <1>1, <1>2, <1>3, <2>2, <2>3 DEF DiskKnows
  <2>5. ASSUME level # "OK"
        PROVE  Aging(silence) <= Aged[level] /\ Aging(silence) < RepeatEvery
    <3>1. silence <= levelReport[level] /\ levelReport[level] \in 0..RepeatEvery
      BY <1>1, <2>2, <2>5 DEF DiskIInv, DiskKnows, AgeCoversSilence
    <3>2. Aging(silence) <= Aged[level] /\ Aged[level] \in 0..RepeatEvery
      BY <1>1, <1>2, <2>3, <3>1, AgingKeepsOrder
    <3>3. Aging(silence) \in 0..RepeatEvery /\ Aged[level] # RepeatEvery
      BY <2>1, <2>2, <2>3, <2>5
    <3> QED BY <3>2, <3>3, DiskAssumption
  <2>6. AgeCoversSilence'
    <3>1. SUFFICES ASSUME announced' # "OK"
                   PROVE  silence' <= levelReport'[announced'] /\ silence' < RepeatEvery
      BY DEF AgeCoversSilence
    <3>2. level # "OK"
      BY <2>2, <3>1
    <3> QED BY <2>2, <2>5, <3>2
  <2> QED BY <2>4, <2>6 DEF DiskIInv
<1> QED BY <1>4, <1>5

LEMMA DiskStep == DiskIInv /\ [DiskNext]_diskVars => DiskIInv'
<1> SUFFICES ASSUME DiskIInv, [DiskNext]_diskVars PROVE DiskIInv'
  OBVIOUS
<1>1. CASE CheckFails
  BY <1>1, CheckFailsKeeps
<1>2. CASE \E usage \in Usages : Check(usage)
  BY <1>2, CheckKeeps
<1>3. CASE UNCHANGED diskVars
  BY <1>3 DEF diskVars, DiskIInv, DiskKnows, AgeCoversSilence, Classify
<1> QED BY <1>1, <1>2, <1>3 DEF DiskNext

(* For any thresholds in order and any period, the level the reports name   *)
(* is that of the last usage that could be read, and a level that is not    *)
(* OK is told again within the period (RunDiskMonitorWithUsage, report).    *)
THEOREM DiskLevelIsTold == DiskSpec => []DiskInv
<1>1. DiskIInv => DiskInv
  BY DEF DiskIInv, DiskKnows, AgeCoversSilence, DiskInv, LevelKnown, StillReported
<1> QED BY <1>1, DiskStart, DiskStep, PTL DEF DiskSpec

-----------------------------------------------------------------------------
(* SshLearn                                                                *)

(* Whoever has a row of a successful login with a key is in everKey, and so *)
(* is everybody on a list.                                                 *)
Rows == [ip : Addresses, key : BOOLEAN, ok : BOOLEAN, age : Nat]
ListsAreEarned ==
    /\ logins \subseteq Rows
    /\ \A l \in logins : l.key /\ l.ok => l.ip \in everKey
    /\ found \subseteq everKey
    /\ slots \in [1..2 -> SUBSET everKey]

(* Nobody learns before the producer has made the slot, so that everybody   *)
(* holds slot 1: the nil pointer that a copy of the filter would keep does  *)
(* not get away.                                                           *)
OneSlot ==
    /\ producer \in {"filter", "publish", "copy", "parse"}
    /\ producer = "filter" => own = 0 /\ lastLearned = {}
    /\ producer # "filter" => own = 1
    /\ ready \/ learner # "wait" => producer \in {"copy", "parse"}
    /\ producer = "parse" => parserSlot = 1
    /\ parserSlot \in {0, 1}
    /\ slots[1] = lastLearned

LearnIInv == ListsAreEarned /\ OneSlot /\ DropsAreEarned

LEMMA LearnStart == LearnInit => LearnIInv
BY DEF LearnInit, LearnIInv, ListsAreEarned, OneSlot, DropsAreEarned

(* A row that ages is the row of the same login.                           *)
LEMMA AgedRow ==
    ASSUME NEW l \in Rows
    PROVE  LET older == [l EXCEPT !.age = @ + 1]
           IN  older \in Rows /\ older.ip = l.ip /\ older.key = l.key /\ older.ok = l.ok
BY DEF Rows

LEMMA LoginKeeps ==
    ASSUME LearnIInv, NEW ip \in Addresses, NEW key \in BOOLEAN, NEW ok \in BOOLEAN,
           Login(ip, key, ok)
    PROVE  LearnIInv'
<1>1. /\ everKey \subseteq everKey' /\ dropped' = {}
      /\ key /\ ok => ip \in everKey'
  BY DEF Login
<1> DEFINE row == [ip |-> ip, key |-> key, ok |-> ok, age |-> 0]
<1>2. row \in Rows /\ row.key = key /\ row.ok = ok /\ row.ip = ip /\ logins' = logins \cup {row}
  BY DEF Login, Rows
<1> HIDE DEF row
<1>3. ListsAreEarned'
  BY <1>1, <1>2 DEF LearnIInv, ListsAreEarned, Login
<1>4. OneSlot'
  BY DEF LearnIInv, OneSlot, Login
<1> QED BY <1>1, <1>3, <1>4 DEF LearnIInv, DropsAreEarned

LEMMA DayPassesKeeps == LearnIInv /\ DayPasses => LearnIInv'
<1> SUFFICES ASSUME LearnIInv, DayPasses PROVE LearnIInv'
  OBVIOUS
<1>1. everKey' = everKey /\ dropped' = {} /\ logins \subseteq Rows
  BY DEF DayPasses, LearnIInv, ListsAreEarned
<1>2. ASSUME NEW r \in logins'
      PROVE  r \in Rows /\ (r.key /\ r.ok => r.ip \in everKey)
  <2>1. PICK l \in logins : r = [l EXCEPT !.age = @ + 1]
    BY <1>2 DEF DayPasses
  <2>2. r \in Rows /\ r.ip = l.ip /\ r.key = l.key /\ r.ok = l.ok
    BY <1>1, <2>1, AgedRow
  <2> QED BY <2>2 DEF LearnIInv, ListsAreEarned
<1>3. ListsAreEarned'
  BY <1>1, <1>2 DEF LearnIInv, ListsAreEarned, DayPasses
<1>4. OneSlot'
  BY DEF LearnIInv, OneSlot, DayPasses
<1> QED BY <1>1, <1>3, <1>4 DEF LearnIInv, DropsAreEarned

LEMMA ProducerKeeps == LearnIInv /\ FwProducer => LearnIInv'
<1> SUFFICES ASSUME LearnIInv, FwProducer PROVE LearnIInv'
  OBVIOUS
<1>1. CASE MakeSlot
  <2>1. own' = 1 /\ slots' = [slots EXCEPT ![1] = {}]
    BY <1>1 DEF MakeSlot, SlotFor, LearnIInv, OneSlot
  <2>2. ListsAreEarned'
    BY <1>1, <2>1 DEF MakeSlot, LearnIInv, ListsAreEarned
  <2>3. OneSlot'
    BY <1>1, <2>1 DEF MakeSlot, LearnIInv, OneSlot, ListsAreEarned
  <2> QED BY <1>1, <2>2, <2>3 DEF MakeSlot, LearnIInv, DropsAreEarned
<1>2. CASE Publish
  BY <1>2 DEF Publish, LearnIInv, ListsAreEarned, OneSlot, DropsAreEarned
<1>3. CASE CopyFilter
  BY <1>3 DEF CopyFilter, LearnIInv, ListsAreEarned, OneSlot, DropsAreEarned
<1> QED BY <1>1, <1>2, <1>3 DEF FwProducer

LEMMA ParseKeeps ==
    ASSUME LearnIInv, NEW src \in Addresses \cup {NoAddress}, ParseLine(src)
    PROVE  LearnIInv'
<1>1. ListOf(parserSlot) \subseteq everKey
  BY DEF ListOf, LearnIInv, ListsAreEarned, OneSlot
<1>2. DropsAreEarned'
  BY <1>1 DEF ParseLine, ShouldDrop, DropsAreEarned
<1> QED BY <1>2 DEF ParseLine, LearnIInv, ListsAreEarned, OneSlot

LEMMA LearnerKeeps == LearnIInv /\ LearnerStep => LearnIInv'
<1> SUFFICES ASSUME LearnIInv, LearnerStep PROVE LearnIInv'
  OBVIOUS
<1>1. CASE FilterReady
  BY <1>1 DEF FilterReady, LearnIInv, ListsAreEarned, OneSlot, DropsAreEarned
<1>2. CASE QueryLogins
  <2>1. found' \subseteq everKey
    BY <1>2 DEF QueryLogins, SuccessfulSSHIPs, LearnIInv, ListsAreEarned
  <2> QED BY <1>2, <2>1 DEF QueryLogins, LearnIInv, ListsAreEarned, OneSlot, DropsAreEarned
<1>3. CASE QueryFails
  BY <1>3 DEF QueryFails, LearnIInv, ListsAreEarned, OneSlot, DropsAreEarned
<1>4. CASE StoreList
  <2>1. own = 1 /\ slots' = [slots EXCEPT ![1] = found] /\ own' = 1
    BY <1>4 DEF StoreList, SlotFor, LearnIInv, OneSlot
  <2>2. ListsAreEarned'
    BY <1>4, <2>1 DEF StoreList, LearnIInv, ListsAreEarned
  <2>3. OneSlot'
    BY <1>4, <2>1 DEF StoreList, LearnIInv, OneSlot, ListsAreEarned
  <2> QED BY <1>4, <2>2, <2>3 DEF StoreList, LearnIInv, DropsAreEarned
<1> QED BY <1>1, <1>2, <1>3, <1>4 DEF LearnerStep

LEMMA LearnStepKeeps == LearnIInv /\ [LearnNext]_learnVars => LearnIInv'
<1> SUFFICES ASSUME LearnIInv, [LearnNext]_learnVars PROVE LearnIInv'
  OBVIOUS
<1>1. CASE UNCHANGED learnVars
  BY <1>1 DEF learnVars, LearnIInv, ListsAreEarned, OneSlot, DropsAreEarned
<1> QED BY <1>1, LoginKeeps, DayPassesKeeps, ProducerKeeps, LearnerKeeps, ParseKeeps DEF LearnNext

(* For any addresses, lists and window: once the parser runs it reads the   *)
(* list of the last round of the learner, and it drops nobody who is        *)
(* neither configured nor has logged in with a key (filter.go, main.go).    *)
THEOREM WhiteListIsEarned == LearnSpec => []FilterInv
<1>1. LearnIInv => FilterInv
  BY DEF LearnIInv, OneSlot, FilterInv, ListReachesParser, ListOf
<1> QED BY <1>1, LearnStart, LearnStepKeeps, PTL DEF LearnSpec

-----------------------------------------------------------------------------
(* Banned                                                                  *)

(* The tables have one row of an address, and fail2ban enforces the rows    *)
(* whose time has not run out: a ban of unknown length, too.               *)
RowsAreBans ==
    /\ now \in 0..MaxTime
    /\ bips \subseteq [ip : V4 \cup V6, until : Nat]
    /\ \A r, s \in bips : r.ip = s.ip => r = s
    /\ enforced = {r.ip : r \in {r \in bips : Active(r)}}

(* The count that is compared is the one that was reported.                *)
CountIsOfList ==
    /\ lastCount = reported
    /\ snapshot.from # "none" => lastCount = Cardinality(snapshot.ips)

BannedIInv == RowsAreBans /\ CountIsOfList /\ SnapshotIsTrue

LEMMA BannedStart == BannedInit => BannedIInv
<1> SUFFICES ASSUME BannedInit PROVE BannedIInv
  OBVIOUS
<1>1. RowsAreBans
  <2>1. bips = {} /\ enforced = {} /\ now = 0
    BY DEF BannedInit
  <2>2. 0 \in 0..MaxTime
    BY BannedAssumption
  <2>3. {r.ip : r \in {r \in bips : Active(r)}} = {}
    BY <2>1
  <2> QED BY <2>1, <2>2, <2>3, Zenon DEF RowsAreBans
<1>2. CountIsOfList /\ SnapshotIsTrue
  BY DEF BannedInit, CountIsOfList, SnapshotIsTrue
<1> QED BY <1>1, <1>2 DEF BannedIInv

LEMMA BanKeeps ==
    ASSUME RowsAreBans, NEW ip \in V4 \cup V6, NEW until \in (now + 1)..Unknown, Ban(ip, until)
    PROVE  RowsAreBans'
<1> DEFINE row == [ip |-> ip, until |-> until]
           kept == {r \in bips : r.ip # ip}
<1>1. row \in [ip : V4 \cup V6, until : Nat] /\ row.ip = ip /\ row.until = until
  BY BannedAssumption DEF Unknown, RowsAreBans
<1>2. bips' = kept \cup {row} /\ enforced' = enforced \cup {ip} /\ now' = now /\ ip \notin enforced
  BY DEF Ban
<1>3. Active(row)
  BY <1>1, BannedAssumption DEF Active, RowsAreBans
<1> HIDE DEF row
<1>4. \A r : Active(r)' <=> Active(r)
  BY <1>2 DEF Active
<1>5. bips' \subseteq [ip : V4 \cup V6, until : Nat] /\ \A r, s \in bips' : r.ip = s.ip => r = s
  BY <1>1, <1>2 DEF RowsAreBans
<1>6. enforced' = {r.ip : r \in {r \in bips' : Active(r)}}
  BY <1>1, <1>2, <1>3 DEF RowsAreBans
<1> QED BY <1>2, <1>4, <1>5, <1>6 DEF RowsAreBans

LEMMA UnbanKeeps ==
    ASSUME RowsAreBans, NEW ip \in enforced, Unban(ip)
    PROVE  RowsAreBans'
<1>1. bips' = {r \in bips : r.ip # ip} /\ enforced' = enforced \ {ip} /\ now' = now
  BY DEF Unban
<1>2. \A r : Active(r)' <=> Active(r)
  BY <1>1 DEF Active
<1>3. enforced' = {r.ip : r \in {r \in bips' : Active(r)}}
  BY <1>1 DEF RowsAreBans
<1> QED BY <1>1, <1>2, <1>3 DEF RowsAreBans

(* A row of an address that is still banned is not among those that run     *)
(* out, for the address has only one.                                      *)
LEMMA BanTimePassesKeeps ==
    ASSUME RowsAreBans, BanTimePasses
    PROVE  RowsAreBans'
<1> DEFINE over == {r \in bips : r.until <= now + 1}
<1>1. /\ now < MaxTime /\ now' = now + 1 /\ now' \in 0..MaxTime
      /\ enforced' = enforced \ {r.ip : r \in over}
      /\ bips' = bips \/ bips' = bips \ over
  BY BannedAssumption DEF BanTimePasses, RowsAreBans
<1>2. ASSUME NEW r \in bips
      PROVE  Active(r)' <=> Active(r) /\ r \notin over
  <2>1. r.until \in Nat /\ now \in Nat /\ MaxTime \in Nat
    BY BannedAssumption DEF RowsAreBans
  <2> QED BY <1>1, <2>1 DEF Active, Forever, Unknown
<1>3. bips' \subseteq bips /\ \A r \in bips : r \notin over => r \in bips'
  BY <1>1
<1> HIDE DEF over
<1>4. enforced' = {r.ip : r \in {r \in bips' : Active(r)'}}
  <2>1. ASSUME NEW ip \in enforced'
        PROVE  \E r \in bips' : Active(r)' /\ r.ip = ip
    <3>1. PICK r \in bips : Active(r) /\ r.ip = ip
      BY <1>1 DEF RowsAreBans
    <3>2. r \notin over
      BY <1>1, <3>1
    <3> QED BY <1>2, <1>3, <3>1, <3>2
  <2>2. ASSUME NEW r \in bips', Active(r)'
        PROVE  r.ip \in enforced'
    <3>1. r \in bips /\ Active(r) /\ r \notin over
      BY <1>2, <1>3, <2>2
    <3>2. r.ip \notin {s.ip : s \in over}
      BY <3>1 DEF RowsAreBans, over
    <3> QED BY <1>1, <3>1, <3>2 DEF RowsAreBans
  <2> QED BY <2>1, <2>2
<1> QED BY <1>1, <1>3, <1>4 DEF RowsAreBans

(* Reading bips with the times gives the bans that are enforced, reading    *)
(* bans gives at least them.                                               *)
LEMMA RefreshKeeps ==
    ASSUME BannedIInv, BipsRows \/ BansRows
    PROVE  BannedIInv'
<1>1. PICK ips, from : /\ Refresh(ips, from) /\ UNCHANGED dbVars
                       /\ enforced \cap V4 \subseteq ips
                       /\ from = "bips" => ips = enforced \cap V4
  <2> DEFINE active == {r \in bips : Active(r)}
  <2>1. Scanned(active) = enforced \cap V4 /\ enforced \cap V4 \subseteq Scanned(bips)
    BY DEF Scanned, BannedIInv, RowsAreBans
  <2>2. CASE BipsRows
    <3>1. Refresh(Scanned(active), "bips") /\ UNCHANGED dbVars
      BY <2>2 DEF BipsRows
    <3> QED BY <2>1, <3>1
  <2>3. CASE BansRows
    <3>1. Refresh(Scanned(bips), "bans") /\ UNCHANGED dbVars /\ "bans" # "bips"
      BY <2>3 DEF BansRows
    <3> QED BY <2>1, <3>1
  <2> QED BY <2>2, <2>3
<1>2. snapshot'.from = from /\ snapshot'.ips = ips /\ truth' = enforced \cap V4
  BY <1>1 DEF Refresh
<1>3. CountIsOfList'
  BY <1>1, <1>2 DEF Refresh, CountIsOfList, BannedIInv
<1>4. RowsAreBans'
  BY <1>1 DEF dbVars, BannedIInv, RowsAreBans, Active
<1> QED BY <1>1, <1>2, <1>3, <1>4 DEF BannedIInv, SnapshotIsTrue

LEMMA BannedStep == BannedIInv /\ [BannedNext]_bannedVars => BannedIInv'
<1> SUFFICES ASSUME BannedIInv, [BannedNext]_bannedVars PROVE BannedIInv'
  OBVIOUS
<1>1. CASE Fail2ban
  <2>1. UNCHANGED refreshVars
    BY <1>1 DEF Fail2ban, Ban, Unban, BanTimePasses, Fail2banDies
  <2>2. Fail2banDies => RowsAreBans'
    BY DEF Fail2banDies, BannedIInv, RowsAreBans, Active
  <2>3. RowsAreBans'
    BY <1>1, <2>2, BanKeeps, UnbanKeeps, BanTimePassesKeeps DEF Fail2ban, BannedIInv
  <2> QED BY <2>1, <2>3 DEF refreshVars, BannedIInv, CountIsOfList, SnapshotIsTrue
<1>2. CASE BipsRows \/ BansRows
  BY <1>2, RefreshKeeps
<1>3. CASE Refreshing /\ ~(BipsRows \/ BansRows)
  <2>1. UNCHANGED <<snapshot, truth, lastCount, reported, dbVars>>
    BY <1>3 DEF Refreshing, ProbeBips, BipsColumns, ProbeBans, BansColumns, ProbeFails, NextRefresh
  <2> QED BY <2>1 DEF dbVars, BannedIInv, RowsAreBans, CountIsOfList, SnapshotIsTrue, Active
<1>4. CASE UNCHANGED bannedVars
  BY <1>4 DEF bannedVars, BannedIInv, RowsAreBans, CountIsOfList, SnapshotIsTrue, Active
<1> QED BY <1>1, <1>2, <1>3, <1>4 DEF BannedNext, Refreshing

(* For any addresses and time, whatever the version of fail2ban and when it *)
(* dies: the list holds what was banned when it was read, from bips nothing *)
(* else, and the count that was told is its size (QueryBanned,             *)
(* refreshBanned).                                                         *)
THEOREM BannedListIsTrue == BannedSpec => []BannedInv
<1>1. BannedIInv => BannedInv
  BY DEF BannedIInv, CountIsOfList, BannedInv, CountKnown
<1> QED BY <1>1, BannedStart, BannedStep, PTL DEF BannedSpec

-----------------------------------------------------------------------------
(* GeoIP                                                                   *)

GeoTypes ==
    /\ {path, bak, tmp, db} \subseteq 0..Bad /\ server \in Versions
    /\ geoAt \in {"down", "idle", "fetch", "write", "probe", "backup", "rename", "open", "save"}

(* What is on its way to db_path has passed the probe when the old library  *)
(* is moved; until it opens there, the old one is in the .bak.             *)
Replacing ==
    /\ geoAt = "write" => body \in Versions \cup {Bad}
    /\ geoAt = "probe" => tmp \in Versions \cup {Bad}
    /\ geoAt \in {"backup", "rename"} => tmp \in Versions
    /\ geoAt = "rename" => path = Nothing
    /\ geoAt \in {"open", "save"} => path \in Versions
    /\ had /\ geoAt \in {"rename", "open"} => bak \in Versions
    /\ had => path # Bad /\ (path \in Versions \/ bak \in Versions)

(* No reader is open while the files move.                                 *)
ReaderClosed == /\ geoAt \in {"down", "rename", "open"} => db = Nothing
                /\ db # Nothing => db = path

GeoIInv == GeoTypes /\ Replacing /\ ReaderClosed

LEMMA GeoKinds == /\ Versions \subseteq 0..Bad /\ Nothing \in 0..Bad /\ Bad \in 0..Bad
                  /\ Nothing \notin Versions /\ Bad \notin Versions /\ Nothing # Bad
                  /\ 0..Bad = Versions \cup {Nothing, Bad} /\ 1 \in Versions
BY GeoAssumption DEF Versions, Bad, Nothing

LEMMA GeoBegins == GeoInit => GeoIInv
BY GeoKinds DEF GeoInit, GeoIInv, GeoTypes, Replacing, ReaderClosed

LEMMA OutsideKeeps == GeoIInv /\ (PublishVersion \/ LoseLibrary \/ GeoDies) => GeoIInv'
<1> SUFFICES ASSUME GeoIInv, PublishVersion \/ LoseLibrary \/ GeoDies PROVE GeoIInv'
  OBVIOUS
<1>1. CASE PublishVersion
  <2>1. server' \in Versions
    BY <1>1, GeoAssumption DEF PublishVersion, Versions, GeoIInv, GeoTypes
  <2> QED BY <1>1, <2>1 DEF PublishVersion, files, GeoIInv, GeoTypes, Replacing, ReaderClosed
<1>2. CASE LoseLibrary
  BY <1>2, GeoKinds DEF LoseLibrary, GeoIInv, GeoTypes, Replacing, ReaderClosed
<1>3. CASE GeoDies
  BY <1>3, GeoKinds DEF GeoDies, GeoIInv, GeoTypes, Replacing, ReaderClosed
<1> QED BY <1>1, <1>2, <1>3

LEMMA FetchKeeps ==
    GeoIInv /\ (GeoStart \/ Daily \/ NotModified \/ Download \/ DownloadFails) => GeoIInv'
<1> SUFFICES ASSUME GeoIInv, GeoStart \/ Daily \/ NotModified \/ Download \/ DownloadFails
             PROVE  GeoIInv'
  OBVIOUS
<1>1. CASE GeoStart
  BY <1>1, GeoKinds DEF GeoStart, Opened, files, GeoIInv, GeoTypes, Replacing, ReaderClosed
<1>2. CASE Daily
  BY <1>2 DEF Daily, files, GeoIInv, GeoTypes, Replacing, ReaderClosed
<1>3. CASE NotModified \/ DownloadFails
  BY <1>3 DEF NotModified, DownloadFails, GiveUp, files, GeoIInv, GeoTypes, Replacing, ReaderClosed
<1>4. CASE Download
  BY <1>4, GeoKinds DEF Download, files, GeoIInv, GeoTypes, Replacing, ReaderClosed
<1> QED BY <1>1, <1>2, <1>3, <1>4

(* Restore puts back what it finds, and had says that this opens.           *)
LEMMA InstallKeeps ==
    GeoIInv /\ (WriteTmp \/ ProbeTmp \/ Backup \/ RenameTmp \/ OpenNew \/ SaveState) => GeoIInv'
<1> SUFFICES ASSUME GeoIInv,
                    WriteTmp \/ ProbeTmp \/ Backup \/ RenameTmp \/ OpenNew \/ SaveState
             PROVE  GeoIInv'
  OBVIOUS
<1> USE GeoKinds
<1>1. CASE WriteTmp
  BY <1>1 DEF WriteTmp, GiveUp, GeoIInv, GeoTypes, Replacing, ReaderClosed
<1>2. CASE ProbeTmp
  BY <1>2 DEF ProbeTmp, GiveUp, GeoIInv, GeoTypes, Replacing, ReaderClosed
<1>3. CASE Backup
  <2>1. CASE path = Nothing
    BY <1>3, <2>1 DEF Backup, files, GeoIInv, GeoTypes, Replacing, ReaderClosed
  <2>2. CASE path # Nothing
    BY <1>3, <2>2 DEF Backup, GiveUp, GeoIInv, GeoTypes, Replacing, ReaderClosed
  <2> QED BY <2>1, <2>2
<1>4. CASE RenameTmp
  <2>1. CASE path' = tmp /\ tmp' = Nothing /\ geoAt' = "open" /\ bak' = bak
    BY <1>4, <2>1 DEF RenameTmp, GeoIInv, GeoTypes, Replacing, ReaderClosed
  <2>2. CASE Restore /\ tmp' = Nothing /\ GiveUp
    BY <1>4, <2>2 DEF RenameTmp, Restore, GiveUp, GeoIInv, GeoTypes, Replacing, ReaderClosed
  <2> QED BY <1>4, <2>1, <2>2 DEF RenameTmp
<1>5. CASE OpenNew
  <2>1. CASE db' = Opened(path) /\ geoAt' = "save" /\ had' = TRUE /\ path' = path /\ bak' = bak
    BY <1>5, <2>1 DEF OpenNew, Opened, GeoIInv, GeoTypes, Replacing, ReaderClosed
  <2>2. CASE /\ Restore /\ GiveUp /\ had' = had
             /\ db' \in {Nothing, IF bak = Nothing THEN Nothing ELSE Opened(path')}
    BY <1>5, <2>2 DEF OpenNew, Restore, Opened, GiveUp, GeoIInv, GeoTypes, Replacing, ReaderClosed
  <2> QED BY <1>5, <2>1, <2>2 DEF OpenNew
<1>6. CASE SaveState
  BY <1>6 DEF SaveState, GiveUp, files, GeoIInv, GeoTypes, Replacing, ReaderClosed
<1> QED BY <1>1, <1>2, <1>3, <1>4, <1>5, <1>6

LEMMA GeoStep == GeoIInv /\ [GeoNext]_geoVars => GeoIInv'
<1> SUFFICES ASSUME GeoIInv, [GeoNext]_geoVars PROVE GeoIInv'
  OBVIOUS
<1>1. CASE UNCHANGED geoVars
  BY <1>1 DEF geoVars, GeoIInv, GeoTypes, Replacing, ReaderClosed
<1> QED BY <1>1, OutsideKeeps, FetchKeeps, InstallKeeps DEF GeoNext, Updater

(* For any versions and however often an operation fails or the process     *)
(* dies: once a library has opened there is one that opens at db_path or in *)
(* the .bak, and the reader serves what is at db_path (ReplaceFrom).        *)
THEOREM LibraryIsKept == GeoSpec => []GeoInv
<1>1. GeoIInv => GeoInv
  BY DEF GeoIInv, Replacing, ReaderClosed, GeoInv, LibraryKept, ReaderServesPath
<1> QED BY <1>1, GeoBegins, GeoStep, PTL DEF GeoSpec

-----------------------------------------------------------------------------
(* Kmsg                                                                    *)

KmsgTypes ==
    /\ newest \in Nat /\ position \in 1..(newest + 1)
    /\ drainSeq \in 0..(position - 1)
    /\ {record, tailAtStart} \subseteq Nat
    /\ delivered \in Seq(Nat) /\ kmsgCtx \in BOOLEAN

(* The loop reads on where the last delivered record was, from the record   *)
(* behind the history.                                                     *)
ReadsOn ==
    /\ kmsgAt = "drain" => delivered = <<>>
    /\ kmsgCtx /\ kmsgAt = "live" => position = tailAtStart + Len(delivered) + 1
    /\ kmsgCtx /\ kmsgAt = "line" => /\ position = tailAtStart + Len(delivered) + 2
                                     /\ record = tailAtStart + Len(delivered) + 1

KmsgIInv == KmsgTypes /\ ReadsOn /\ NoReplayNoGap

LEMMA KmsgStart == KmsgInit => KmsgIInv
<1> SUFFICES ASSUME KmsgInit PROVE KmsgIInv
  OBVIOUS
<1>1. Oldest \in 1..3 /\ newest = 2
  BY KmsgAssumption DEF KmsgInit, Oldest
<1> QED BY <1>1, KmsgAssumption DEF KmsgInit, KmsgIInv, KmsgTypes, ReadsOn, NoReplayNoGap

LEMMA DrainKeeps == KmsgIInv /\ Drain => KmsgIInv'
<1> SUFFICES ASSUME KmsgIInv, Drain PROVE KmsgIInv'
  OBVIOUS
<1>1. kmsgAt = "drain" /\ delivered = <<>> /\ delivered' = <<>> /\ UNCHANGED <<newest, record, kmsgCtx>>
  BY DEF Drain, KmsgIInv, ReadsOn
<1>2. CASE Again /\ kmsgAt' = "live" /\ tailAtStart' = newest /\ UNCHANGED <<position, drainSeq>>
  BY <1>1, <1>2 DEF Again, KmsgIInv, KmsgTypes, ReadsOn, NoReplayNoGap
<1>3. CASE ~Again /\ drainSeq' = position /\ position' = position + 1 /\ UNCHANGED <<kmsgAt, tailAtStart>>
  BY <1>1, <1>3 DEF Again, KmsgIInv, KmsgTypes, ReadsOn, NoReplayNoGap
<1>4. CASE kmsgAt' \in {"returned", "failed"} /\ UNCHANGED <<position, drainSeq, tailAtStart>>
  BY <1>1, <1>4 DEF KmsgIInv, KmsgTypes, ReadsOn, NoReplayNoGap
<1> QED BY <1>2, <1>3, <1>4 DEF Drain

LEMMA OnLineKeeps == KmsgIInv /\ OnLine => KmsgIInv'
<1> SUFFICES ASSUME KmsgIInv, OnLine PROVE KmsgIInv'
  OBVIOUS
<1>1. /\ kmsgAt = "line" /\ kmsgAt' = "live" /\ record' = 0
      /\ UNCHANGED <<newest, position, drainSeq, tailAtStart, kmsgCtx>>
      /\ record \in Nat /\ delivered \in Seq(Nat) /\ tailAtStart \in Nat
  BY DEF OnLine, KmsgIInv, KmsgTypes
<1>2. CASE delivered' = Append(delivered, record)
  <2>1. /\ delivered' \in Seq(Nat) /\ Len(delivered') = Len(delivered) + 1
        /\ \A i \in DOMAIN delivered : delivered'[i] = delivered[i]
        /\ delivered'[Len(delivered) + 1] = record
        /\ DOMAIN delivered' = DOMAIN delivered \cup {Len(delivered) + 1}
    BY <1>1, <1>2
  <2>2. KmsgTypes'
    BY <1>1, <2>1 DEF KmsgIInv, KmsgTypes
  <2>3. ReadsOn'
    BY <1>1, <2>1 DEF KmsgIInv, ReadsOn
  <2>4. NoReplayNoGap'
    BY <1>1, <2>1 DEF KmsgIInv, ReadsOn, NoReplayNoGap
  <2> QED BY <2>2, <2>3, <2>4 DEF KmsgIInv
<1>3. CASE ~kmsgCtx /\ delivered' = delivered
  BY <1>1, <1>3 DEF KmsgIInv, KmsgTypes, ReadsOn, NoReplayNoGap
<1> QED BY <1>2, <1>3 DEF OnLine

LEMMA KmsgStep == KmsgIInv /\ [KmsgNext]_kmsgVars => KmsgIInv'
<1> SUFFICES ASSUME KmsgIInv, [KmsgNext]_kmsgVars PROVE KmsgIInv'
  OBVIOUS
<1>1. CASE KernelLogs
  <2>1. newest' = newest + 1 /\ UNCHANGED <<position, drainSeq, record, delivered, tailAtStart>>
    BY <1>1 DEF KernelLogs
  <2>2. kmsgCtx' = kmsgCtx /\ kmsgAt' = kmsgAt
    BY <1>1 DEF KernelLogs
  <2>3. KmsgTypes'
    BY <2>1, <2>2 DEF KmsgIInv, KmsgTypes
  <2> QED BY <2>1, <2>2, <2>3, Zenon DEF KmsgIInv, ReadsOn, NoReplayNoGap
<1>2. CASE EndKmsg
  <2>1. kmsgCtx' = FALSE /\ UNCHANGED <<newest, position, kmsgAt, drainSeq, record, delivered,
                                        tailAtStart>>
    BY <1>2 DEF EndKmsg
  <2> QED BY <2>1 DEF KmsgIInv, KmsgTypes, ReadsOn, NoReplayNoGap
<1>3. CASE Idle100ms \/ ReadFailsLive
  BY <1>3 DEF Idle100ms, ReadFailsLive, KmsgIInv, KmsgTypes, ReadsOn, NoReplayNoGap
<1>4. CASE ReadLive
  <2>1. /\ kmsgAt = "live" /\ kmsgAt' = "line" /\ position <= newest
        /\ position' = position + 1 /\ record' = position
        /\ UNCHANGED <<newest, drainSeq, delivered, tailAtStart, kmsgCtx>>
    BY <1>4 DEF ReadLive, Again, KmsgIInv, KmsgTypes
  <2>2. KmsgTypes'
    BY <2>1 DEF KmsgIInv, KmsgTypes
  <2>3. ReadsOn'
    BY <2>1 DEF KmsgIInv, KmsgTypes, ReadsOn
  <2>4. NoReplayNoGap'
    BY <2>1 DEF KmsgIInv, NoReplayNoGap
  <2> QED BY <2>2, <2>3, <2>4 DEF KmsgIInv
<1>5. CASE UNCHANGED kmsgVars
  BY <1>5 DEF kmsgVars, KmsgIInv, KmsgTypes, ReadsOn, NoReplayNoGap
<1> QED BY <1>1, <1>2, <1>3, <1>4, <1>5, DrainKeeps, OnLineKeeps DEF KmsgNext, KmsgLoop

(* For any size of the ring: up to the first overrun the records of after   *)
(* the start are delivered one by one, none left out and none of the        *)
(* history (kmsgReadLoop).                                                 *)
THEOREM RecordsComeOnce == KmsgSpec => []NoReplayNoGap
<1>1. KmsgIInv => NoReplayNoGap
  BY DEF KmsgIInv
<1> QED BY <1>1, KmsgStart, KmsgStep, PTL DEF KmsgSpec

-----------------------------------------------------------------------------
(* LogStream                                                               *)

LogCounters ==
    /\ written \in 0..Len(LineKinds) /\ sink \in 0..SinkCap /\ deaths \in 0..MaxDeaths
    /\ backoff \in 1..MaxBackoff /\ waited \in 0..backoff /\ logCtx \in BOOLEAN

(* The two limits of one minute open together: what lastReport lets through *)
(* the limiter lets through.                                               *)
ReportAges == /\ restartAge \in 0..ReportEvery /\ oddAge \in 0..ReportEvery
              /\ lastReport = restartAge

(* A child is there while the loop reads or waits for it; a line is in hand *)
(* in the callback only.                                                   *)
LoopAndChild ==
    /\ loop \in {"spawn", "scan", "line", "wait", "ended", "pause", "returned"}
    /\ child \in {"none", "running", "dead"}
    /\ child = "none" <=> loop \notin {"scan", "line", "wait"}
    /\ child = "none" => copied = 0 /\ pipe = <<>>
    /\ line # 0 <=> loop = "line"

(* The lines that have been sent, the one in hand and those in the pipe are *)
(* in the order of the log, none behind the line the child has read.        *)
PipeOrder ==
    /\ copied \in 0..written /\ line \in Nat /\ pipe \in Seq(Nat \ {0}) /\ Len(pipe) <= PipeCap
    /\ line <= copied
    /\ \A i \in DOMAIN pipe : line < pipe[i] /\ pipe[i] <= copied
    /\ \A i, j \in DOMAIN pipe : i < j => pipe[i] < pipe[j]
SentOrder ==
    /\ sent \in Seq(Nat)
    /\ \A i \in DOMAIN sent : /\ sent[i] <= written
                              /\ child # "none" => sent[i] <= copied
                              /\ line # 0 => sent[i] < line
                              /\ \A j \in DOMAIN pipe : sent[i] < pipe[j]

LogIInv == LogCounters /\ ReportAges /\ LoopAndChild /\ PipeOrder /\ SentOrder /\ NoLineTwice

(* The parts of the invariant say nothing of other variables.              *)
LEMMA LogUntouched ==
    /\ LogCounters /\ UNCHANGED <<written, sink, deaths, backoff, waited, logCtx>> => LogCounters'
    /\ ReportAges /\ UNCHANGED ageVars => ReportAges'
    /\ LoopAndChild /\ UNCHANGED <<childVars, loop, line>> => LoopAndChild'
    /\ PipeOrder /\ UNCHANGED <<written, childVars, line>> => PipeOrder'
    /\ SentOrder /\ UNCHANGED <<written, childVars, line, sent>> => SentOrder'
    /\ NoLineTwice /\ UNCHANGED sent => NoLineTwice'
<1>1. LogCounters /\ UNCHANGED <<written, sink, deaths, backoff, waited, logCtx>> => LogCounters'
  BY DEF LogCounters
<1>2. ReportAges /\ UNCHANGED ageVars => ReportAges'
  BY DEF ReportAges, ageVars
<1>3. LoopAndChild /\ UNCHANGED <<childVars, loop, line>> => LoopAndChild'
  BY DEF LoopAndChild, childVars
<1>4. PipeOrder /\ UNCHANGED <<written, childVars, line>> => PipeOrder'
  BY DEF PipeOrder, childVars
<1>5. SentOrder /\ UNCHANGED <<written, childVars, line, sent>> => SentOrder'
  BY DEF SentOrder, childVars
<1>6. NoLineTwice /\ UNCHANGED sent => NoLineTwice'
  BY DEF NoLineTwice
<1> QED BY <1>1, <1>2, <1>3, <1>4, <1>5, <1>6

LEMMA LogLimits == /\ Len(LineKinds) \in Nat /\ MaxDeaths \in Nat
                   /\ {MaxBackoff, ReportEvery, PipeCap, SinkCap} \subseteq Nat \ {0}
BY LogAssumption

(* What Append and Tail do with the lines of a pipe.                       *)
LEMMA Appended ==
    ASSUME NEW S, NEW s \in Seq(S), NEW n \in S
    PROVE  /\ Append(s, n) \in Seq(S) /\ Len(Append(s, n)) = Len(s) + 1 /\ Len(s) \in Nat
           /\ DOMAIN Append(s, n) = DOMAIN s \cup {Len(s) + 1} /\ DOMAIN s = 1..Len(s)
           /\ Append(s, n)[Len(s) + 1] = n
           /\ \A i \in DOMAIN s : Append(s, n)[i] = s[i]
           /\ Lines(Append(s, n)) = Lines(s) \cup {n}
BY DEF Lines

LEMMA HeadAndTail ==
    ASSUME NEW S, NEW s \in Seq(S), s # <<>>
    PROVE  /\ Head(s) \in S /\ Head(s) = s[1] /\ 1 \in DOMAIN s /\ Tail(s) \in Seq(S)
           /\ Len(Tail(s)) = Len(s) - 1 /\ Len(s) \in Nat
           /\ DOMAIN Tail(s) = 1..(Len(s) - 1) /\ DOMAIN s = 1..Len(s)
           /\ \A i \in DOMAIN Tail(s) : i + 1 \in DOMAIN s /\ Tail(s)[i] = s[i + 1]
           /\ Lines(s) = Lines(Tail(s)) \cup {Head(s)}
<1>1. /\ Head(s) \in S /\ Head(s) = s[1] /\ 1 \in DOMAIN s /\ Tail(s) \in Seq(S)
      /\ Len(Tail(s)) = Len(s) - 1 /\ Len(s) \in Nat /\ Len(s) > 0
      /\ DOMAIN Tail(s) = 1..(Len(s) - 1) /\ DOMAIN s = 1..Len(s)
      /\ \A i \in DOMAIN Tail(s) : i + 1 \in DOMAIN s /\ Tail(s)[i] = s[i + 1]
  OBVIOUS
<1>2. \A i \in DOMAIN s : i = 1 \/ i - 1 \in DOMAIN Tail(s)
  BY <1>1
<1>3. \A i \in DOMAIN s : i = 1 \/ s[i] = Tail(s)[i - 1]
  BY <1>1, <1>2
<1>4. Lines(s) = Lines(Tail(s)) \cup {Head(s)}
  BY <1>1, <1>2, <1>3 DEF Lines
<1> QED BY <1>1, <1>4

LEMMA LogStart == LogInit => LogIInv
<1> SUFFICES ASSUME LogInit PROVE LogIInv
  OBVIOUS
<1> USE LogLimits
<1>1. LogCounters /\ ReportAges /\ LoopAndChild
  BY DEF LogInit, LogCounters, ReportAges, LoopAndChild
<1>2. PipeOrder /\ SentOrder /\ NoLineTwice
  BY DEF LogInit, PipeOrder, SentOrder, NoLineTwice
<1> QED BY <1>1, <1>2 DEF LogIInv

-----------------------------------------------------------------------------
LEMMA WriteLineKeeps == LogIInv /\ WriteLine => LogIInv'
<1> SUFFICES ASSUME LogIInv, WriteLine PROVE LogIInv'
  OBVIOUS
<1>1. /\ written < Len(LineKinds) /\ written' = written + 1
      /\ UNCHANGED <<childVars, loop, line, backoff, waited, ageVars, sink, sent, deaths, logCtx>>
  BY DEF WriteLine
<1>2. LogCounters'
  BY <1>1, LogLimits DEF LogIInv, LogCounters
<1>3. PipeOrder'
  BY <1>1 DEF LogIInv, LogCounters, PipeOrder, childVars
<1>4. SentOrder'
  BY <1>1 DEF LogIInv, LogCounters, SentOrder, childVars
<1> QED BY <1>1, <1>2, <1>3, <1>4, LogUntouched DEF LogIInv

LEMMA ChildCopiesKeeps == LogIInv /\ ChildCopies => LogIInv'
<1> SUFFICES ASSUME LogIInv, ChildCopies PROVE LogIInv'
  OBVIOUS
<1>1. /\ child = "running" /\ copied < written /\ Len(pipe) < PipeCap
      /\ copied' = copied + 1 /\ pipe' = Append(pipe, copied + 1)
      /\ UNCHANGED <<written, child, loop, line, backoff, waited, ageVars, sink, sent, deaths,
                     logCtx>>
  BY DEF ChildCopies
<1>2. written \in Nat /\ copied \in Nat /\ pipe \in Seq(Nat \ {0}) /\ copied + 1 \in Nat \ {0}
  BY LogLimits DEF LogIInv, LogCounters, PipeOrder
<1>3. /\ pipe' \in Seq(Nat \ {0}) /\ Len(pipe') = Len(pipe) + 1 /\ Len(pipe) \in Nat
      /\ DOMAIN pipe' = DOMAIN pipe \cup {Len(pipe) + 1} /\ DOMAIN pipe = 1..Len(pipe)
      /\ pipe'[Len(pipe) + 1] = copied + 1
      /\ \A i \in DOMAIN pipe : pipe'[i] = pipe[i]
  BY <1>1, <1>2, Appended
<1>4. LoopAndChild'
  BY <1>1 DEF LogIInv, LoopAndChild
<1>5. PipeOrder'
  BY <1>1, <1>2, <1>3, LogLimits DEF LogIInv, PipeOrder
<1>6. SentOrder'
  BY <1>1, <1>2, <1>3 DEF LogIInv, SentOrder
<1> QED BY <1>1, <1>4, <1>5, <1>6, LogUntouched DEF LogIInv

(* Steps that move neither lines nor reports.                              *)
LEMMA LogOthersKeep ==
    ASSUME LogIInv, ChildDies \/ ChildKilled \/ Consume \/ EndLog \/ SpawnFails \/ ScanEnds
                       \/ Restart \/ PauseCancelled
    PROVE  LogIInv'
<1>1. UNCHANGED <<written, copied, pipe, line, ageVars, sent>>
  BY DEF ChildDies, ChildKilled, Consume, EndLog, SpawnFails, ScanEnds, Restart, PauseCancelled,
         childVars
<1>2. LogCounters'
  <2>1. /\ logCtx' \in BOOLEAN /\ written' \in 0..Len(LineKinds)
    BY <1>1 DEF LogIInv, LogCounters, ChildDies, ChildKilled, Consume, EndLog, SpawnFails,
                ScanEnds, Restart, PauseCancelled
  <2>2. deaths' \in 0..MaxDeaths
    BY LogLimits DEF LogIInv, LogCounters, ChildDies, ChildKilled, Consume, EndLog, SpawnFails,
                     ScanEnds, Restart, PauseCancelled
  <2>3. sink' \in 0..SinkCap
    BY LogLimits DEF LogIInv, LogCounters, ChildDies, ChildKilled, Consume, EndLog, SpawnFails,
                     ScanEnds, Restart, PauseCancelled
  <2>4. CASE Restart
    <3>1. backoff' \in 1..MaxBackoff /\ waited' = 0
      BY <2>4, LogLimits DEF LogIInv, LogCounters, Restart, Doubled
    <3> QED BY <2>1, <2>2, <2>3, <3>1 DEF LogCounters
  <2>5. CASE ~Restart
    <3>1. backoff' = backoff /\ waited' \in {waited, 0}
      BY <2>5 DEF ChildDies, ChildKilled, Consume, EndLog, SpawnFails, ScanEnds, PauseCancelled
    <3>2. backoff' \in 1..MaxBackoff /\ waited' \in 0..backoff'
      BY <3>1, LogLimits DEF LogIInv, LogCounters
    <3> QED BY <2>1, <2>2, <2>3, <3>2 DEF LogCounters
  <2> QED BY <2>4, <2>5
<1>3. LoopAndChild' /\ (child' # "none" <=> child # "none")
  BY DEF LogIInv, LoopAndChild, ChildDies, ChildKilled, Consume, EndLog, SpawnFails,
         ScanEnds, Restart, PauseCancelled, childVars
<1>4. PipeOrder'
  BY <1>1 DEF LogIInv, PipeOrder
<1>5. SentOrder'
  BY <1>1, <1>3, Zenon DEF LogIInv, SentOrder
<1> QED BY <1>1, <1>2, <1>3, <1>4, <1>5, LogUntouched DEF LogIInv

LEMMA TimePassesKeeps == LogIInv /\ TimePasses => LogIInv'
<1> SUFFICES ASSUME LogIInv, TimePasses PROVE LogIInv'
  OBVIOUS
<1>1. UNCHANGED <<written, childVars, loop, line, backoff, sink, sent, deaths, logCtx>>
  BY DEF TimePasses
<1>2. LogCounters'
  BY <1>1, LogLimits DEF LogIInv, LogCounters, TimePasses
<1>3. ReportAges'
  BY LogLimits DEF LogIInv, ReportAges, TimePasses, Older
<1> QED BY <1>1, <1>2, <1>3, LogUntouched DEF LogIInv

(* -n 0: the child begins after the last line, and every line sent is one   *)
(* of before.                                                              *)
LEMMA SpawnKeeps == LogIInv /\ Spawn => LogIInv'
<1> SUFFICES ASSUME LogIInv, Spawn PROVE LogIInv'
  OBVIOUS
<1>1. /\ loop = "spawn" /\ loop' = "scan" /\ child' = "running" /\ copied' = written
      /\ pipe' = <<>> /\ line' = line
      /\ UNCHANGED <<written, backoff, waited, ageVars, sink, sent, deaths, logCtx>>
  BY DEF Spawn
<1>2. line = 0 /\ written \in Nat
  BY <1>1, LogLimits DEF LogIInv, LoopAndChild, LogCounters
<1>3. LoopAndChild'
  BY <1>1, <1>2 DEF LoopAndChild
<1>4. PipeOrder'
  BY <1>1, <1>2, LogLimits DEF PipeOrder
<1>5. SentOrder'
  BY <1>1, <1>2 DEF LogIInv, SentOrder
<1> QED BY <1>1, <1>3, <1>4, <1>5, LogUntouched DEF LogIInv

LEMMA ScanKeeps == LogIInv /\ Scan => LogIInv'
<1> SUFFICES ASSUME LogIInv, Scan PROVE LogIInv'
  OBVIOUS
<1>1. /\ loop = "scan" /\ pipe # <<>> /\ pipe' = Tail(pipe)
      /\ \/ loop' = "wait" /\ line' = 0
         \/ loop' = "line" /\ line' = Head(pipe)
      /\ UNCHANGED <<written, child, copied, backoff, waited, ageVars, sink, sent, deaths, logCtx>>
  BY DEF Scan
<1>2. pipe \in Seq(Nat \ {0}) /\ line = 0 /\ copied \in Nat
  BY <1>1, LogLimits DEF LogIInv, LogCounters, LoopAndChild, PipeOrder
<1>3. /\ Head(pipe) \in Nat \ {0} /\ Head(pipe) = pipe[1] /\ 1 \in DOMAIN pipe
      /\ pipe' \in Seq(Nat \ {0}) /\ Len(pipe') = Len(pipe) - 1 /\ Len(pipe) \in Nat
      /\ DOMAIN pipe' = 1..(Len(pipe) - 1) /\ DOMAIN pipe = 1..Len(pipe)
      /\ \A i \in DOMAIN pipe' : i + 1 \in DOMAIN pipe /\ pipe'[i] = pipe[i + 1]
  BY <1>1, <1>2, HeadAndTail
<1>4. \A i, j \in DOMAIN pipe : i < j => pipe[i] < pipe[j]
  BY DEF LogIInv, PipeOrder
<1>5. ASSUME NEW i \in DOMAIN pipe'
      PROVE  Head(pipe) < pipe'[i] /\ pipe'[i] <= copied
  <2>1. i + 1 \in DOMAIN pipe /\ 1 < i + 1 /\ pipe'[i] = pipe[i + 1]
    BY <1>3
  <2> QED BY <1>3, <1>4, <2>1 DEF LogIInv, PipeOrder
<1>6. LoopAndChild'
  BY <1>1, <1>3 DEF LogIInv, LoopAndChild
<1>7. PipeOrder'
  <2>1. copied' \in 0..written' /\ copied' = copied /\ line' \in Nat /\ line' <= copied
    BY <1>1, <1>2, <1>3 DEF LogIInv, PipeOrder
  <2>2. \A i \in DOMAIN pipe' : line' < pipe'[i] /\ pipe'[i] <= copied
    BY <1>1, <1>3, <1>5
  <2>3. ASSUME NEW i \in DOMAIN pipe', NEW j \in DOMAIN pipe', i < j
        PROVE  pipe'[i] < pipe'[j]
    <3>1. i + 1 \in DOMAIN pipe /\ j + 1 \in DOMAIN pipe /\ i + 1 < j + 1
      BY <1>3, <2>3
    <3> QED BY <1>3, <1>4, <3>1
  <2>4. Len(pipe') <= PipeCap
    BY <1>3, LogLimits DEF LogIInv, PipeOrder
  <2> QED BY <1>3, <2>1, <2>2, <2>3, <2>4 DEF PipeOrder
<1>8. SentOrder'
  BY <1>1, <1>2, <1>3 DEF LogIInv, SentOrder
<1> QED BY <1>1, <1>6, <1>7, <1>8, LogUntouched DEF LogIInv

LEMMA WaitKeeps == LogIInv /\ Wait => LogIInv'
<1> SUFFICES ASSUME LogIInv, Wait PROVE LogIInv'
  OBVIOUS
<1>1. /\ loop = "wait" /\ loop' = "ended" /\ child' = "none" /\ copied' = 0 /\ pipe' = <<>>
      /\ UNCHANGED <<written, line, backoff, waited, ageVars, sink, sent, deaths, logCtx>>
  BY DEF Wait
<1>2. line = 0 /\ written \in Nat
  BY <1>1, LogLimits DEF LogIInv, LoopAndChild, LogCounters
<1>3. LoopAndChild'
  BY <1>1, <1>2 DEF LoopAndChild
<1>4. PipeOrder'
  BY <1>1, <1>2, LogLimits DEF PipeOrder
<1>5. SentOrder'
  BY <1>1, <1>2 DEF LogIInv, SentOrder
<1> QED BY <1>1, <1>3, <1>4, <1>5, LogUntouched DEF LogIInv

LEMMA SendEventKeeps == LogIInv /\ SendEvent => LogIInv'
<1> SUFFICES ASSUME LogIInv, SendEvent PROVE LogIInv'
  OBVIOUS
<1>1. /\ loop = "line" /\ sink < SinkCap /\ loop' = "scan" /\ line' = 0
      /\ sink' = sink + 1 /\ sent' = Append(sent, line)
      /\ UNCHANGED <<written, childVars, backoff, waited, ageVars, deaths, logCtx>>
  BY DEF SendEvent, NextLine
<1>2. sent \in Seq(Nat) /\ line \in Nat /\ line # 0 /\ line <= copied /\ copied <= written
      /\ copied \in Nat /\ written \in Nat
  BY <1>1, LogLimits DEF LogIInv, LogCounters, LoopAndChild, SentOrder, PipeOrder
<1>3. /\ sent' \in Seq(Nat) /\ Len(sent') = Len(sent) + 1 /\ Len(sent) \in Nat
      /\ DOMAIN sent' = DOMAIN sent \cup {Len(sent) + 1} /\ DOMAIN sent = 1..Len(sent)
      /\ sent'[Len(sent) + 1] = line
      /\ \A i \in DOMAIN sent : sent'[i] = sent[i]
  BY <1>1, <1>2, Appended
<1>4. LogCounters'
  BY <1>1, LogLimits DEF LogIInv, LogCounters
<1>5. LoopAndChild'
  BY <1>1 DEF LogIInv, LoopAndChild, childVars
<1>6. PipeOrder'
  BY <1>1, <1>2 DEF LogIInv, PipeOrder, childVars
<1>7. SentOrder'
  BY <1>1, <1>2, <1>3 DEF LogIInv, SentOrder, PipeOrder, childVars
<1>8. NoLineTwice'
  BY <1>1, <1>2, <1>3 DEF LogIInv, SentOrder, NoLineTwice
<1> QED BY <1>1, <1>4, <1>5, <1>6, <1>7, <1>8, LogUntouched DEF LogIInv

LEMMA LineDoneKeeps == LogIInv /\ (HandleLine \/ GiveUpSend) => LogIInv'
<1> SUFFICES ASSUME LogIInv, HandleLine \/ GiveUpSend PROVE LogIInv'
  OBVIOUS
<1>1. /\ loop = "line" /\ loop' = "scan" /\ line' = 0
      /\ UNCHANGED <<written, childVars, backoff, waited, sink, sent, deaths, logCtx>>
  BY DEF HandleLine, GiveUpSend, NextLine
<1>2. ReportAges'
  BY LogLimits DEF LogIInv, ReportAges, HandleLine, GiveUpSend, ageVars
<1>3. LoopAndChild'
  BY <1>1 DEF LogIInv, LoopAndChild, childVars
<1>4. PipeOrder'
  BY <1>1, LogLimits DEF LogIInv, LogCounters, PipeOrder, childVars
<1>5. SentOrder'
  BY <1>1 DEF LogIInv, SentOrder, childVars
<1> QED BY <1>1, <1>2, <1>3, <1>4, <1>5, LogUntouched DEF LogIInv

LEMMA RunEndedKeeps == LogIInv /\ RunEnded => LogIInv'
<1> SUFFICES ASSUME LogIInv, RunEnded PROVE LogIInv'
  OBVIOUS
<1>1. /\ loop = "ended" /\ loop' \in {"returned", "pause"}
      /\ UNCHANGED <<written, childVars, line, backoff, waited, oddAge, sink, sent, deaths, logCtx>>
  BY DEF RunEnded
<1>2. ReportAges'
  BY <1>1, LogLimits DEF LogIInv, ReportAges, RunEnded, ReportEnd
<1>3. LoopAndChild'
  BY <1>1 DEF LogIInv, LoopAndChild, childVars
<1> QED BY <1>1, <1>2, <1>3, LogUntouched DEF LogIInv

LEMMA LogStep == LogIInv /\ [LogNext]_logVars => LogIInv'
<1> SUFFICES ASSUME LogIInv, [LogNext]_logVars PROVE LogIInv'
  OBVIOUS
<1>1. CASE UNCHANGED logVars
  BY <1>1, LogUntouched DEF logVars, LogIInv, ageVars, childVars
<1> QED BY <1>1, WriteLineKeeps, ChildCopiesKeeps, LogOthersKeep, TimePassesKeeps, SpawnKeeps,
           ScanKeeps, WaitKeeps, SendEventKeeps, LineDoneKeeps, RunEndedKeeps
           DEF LogNext, Child, Collector

(* The invariant gives the types and the order.                            *)
LEMMA LogIInvGives == LogIInv => LogInv
<1> SUFFICES ASSUME LogIInv PROVE LogInv
  OBVIOUS
<1>1. LogCounters /\ ReportAges /\ LoopAndChild /\ PipeOrder
  BY DEF LogIInv
<1>2. written \in Nat /\ line \in 0..written
  BY <1>1, LogLimits DEF LogCounters, PipeOrder
<1>3. \A i \in DOMAIN pipe : pipe[i] \in 1..written
  BY <1>1, <1>2, LogLimits DEF PipeOrder
<1>4. {lastReport, restartAge, oddAge} \subseteq 0..ReportEvery
  BY <1>1 DEF ReportAges
<1>5. LogTypeOK
  BY <1>1, <1>2, <1>3, <1>4 DEF LogTypeOK, LogCounters, LoopAndChild, PipeOrder
<1> QED BY <1>5 DEF LogIInv, LogInv

(* For any log, pipe and channel: the stream is well typed and within its   *)
(* bounds, and the events come out in the order of the log and once,        *)
(* however often the child is started again (Run, runRestarted).           *)
THEOREM StreamInOrder == LogSpec => []LogInv
BY LogIInvGives, LogStart, LogStep, PTL DEF LogSpec

(* The report of an end is at most a minute old when the pause begins: the  *)
(* two limits in a row open together.                                      *)
THEOREM EndsAreTold == LogSpec => EndsAreReported
<1>1. ASSUME LogIInv, [LogNext]_logVars, loop = "ended", loop' = "pause"
      PROVE  restartAge' < ReportEvery
  <2>1. RunEnded
    BY <1>1 DEF LogNext, Child, Collector, WriteLine, Consume, EndLog, TimePasses, ChildCopies,
                ChildDies, ChildKilled, Spawn, SpawnFails, Scan, ScanEnds, Wait, HandleLine,
                SendEvent, GiveUpSend, Restart, PauseCancelled, NextLine, logVars
  <2> QED BY <1>1, <2>1, LogLimits DEF RunEnded, ReportEnd, LogIInv, ReportAges
<1>2. LogIInv /\ [LogNext]_logVars
        => [loop = "ended" /\ loop' = "pause" => restartAge' < ReportEvery]_logVars
  BY <1>1
<1> QED BY <1>2, LogStart, LogStep, PTL DEF LogSpec, EndsAreReported

-----------------------------------------------------------------------------
(* No event is lost between the pipe and the channel.                      *)
LEMMA EventsStay ==
    ASSUME LogIInv, LogNext, logCtx, loop \in {"scan", "line"}, loop' \in {"scan", "line", "wait"}
    PROVE  OnTheWay \subseteq OnTheWay' /\ OnTheWay' \subseteq OnTheWay \cup {copied'}
<1>1. CASE UNCHANGED <<sent, line, pipe>>
  BY <1>1 DEF OnTheWay, InHand
<1>2. CASE ChildCopies
  <2>1. /\ pipe \in Seq(Nat \ {0}) /\ copied' \in Nat \ {0}
        /\ pipe' = Append(pipe, copied') /\ UNCHANGED <<sent, line>>
    BY <1>2, LogLimits DEF ChildCopies, LogIInv, LogCounters, PipeOrder
  <2>2. Lines(pipe') = Lines(pipe) \cup {copied'}
    BY <2>1, Appended
  <2> QED BY <2>1, <2>2 DEF OnTheWay, InHand
<1>3. CASE Scan
  <2>1. pipe \in Seq(Nat \ {0}) /\ pipe # <<>> /\ pipe' = Tail(pipe) /\ line = 0 /\ sent' = sent
    BY <1>3 DEF Scan, LogIInv, LoopAndChild, PipeOrder
  <2>2. Lines(pipe) = Lines(pipe') \cup {Head(pipe)} /\ Head(pipe) # 0
    BY <2>1, HeadAndTail
  <2>3. \/ line' = Head(pipe)
        \/ line' = 0 /\ Kind(Head(pipe)) = "huge"
    BY <1>3 DEF Scan
  <2>4. {n \in InHand' \cup Lines(pipe') : Kind(n) = "event"}
           = {n \in InHand \cup Lines(pipe) : Kind(n) = "event"}
    BY <2>1, <2>2, <2>3 DEF InHand
  <2> QED BY <2>1, <2>4 DEF OnTheWay
<1>4. CASE HandleLine
  BY <1>4 DEF HandleLine, NextLine, childVars, OnTheWay, InHand
<1>5. CASE SendEvent
  <2>1. /\ sent \in Seq(Nat) /\ line \in Nat /\ line # 0 /\ Kind(line) = "event"
        /\ sent' = Append(sent, line) /\ line' = 0 /\ pipe' = pipe
    BY <1>5 DEF SendEvent, NextLine, childVars, LogIInv, LoopAndChild, SentOrder, PipeOrder
  <2>2. Lines(sent') = Lines(sent) \cup {line}
    BY <2>1, Appended
  <2> QED BY <2>1, <2>2 DEF OnTheWay, InHand
<1>6. CASE UNCHANGED <<sent, line, pipe>> \/ ChildCopies \/ Scan \/ HandleLine \/ SendEvent
  BY <1>1, <1>2, <1>3, <1>4, <1>5, <1>6
<1>7. UNCHANGED <<sent, line, pipe>> \/ ChildCopies \/ Scan \/ HandleLine \/ SendEvent
  BY DEF LogNext, Child, Collector, WriteLine, Consume, EndLog, TimePasses, ChildDies, ChildKilled,
         Spawn, SpawnFails, ScanEnds, Wait, GiveUpSend, RunEnded, Restart, PauseCancelled,
         NextLine, childVars
<1> QED BY <1>6, <1>7

(* While one child runs and the context has not ended, an event the child   *)
(* has copied stays on its way until it is sent (onLine waits for room).    *)
THEOREM EventsAreKept == LogSpec => NoEventDropped
<1> DEFINE Reading == /\ logCtx /\ loop \in {"scan", "line"} /\ loop' \in {"scan", "line", "wait"}
           Kept == OnTheWay \subseteq OnTheWay' /\ OnTheWay' \subseteq OnTheWay \cup {copied'}
<1>1. LogIInv /\ [LogNext]_logVars => [Reading => Kept]_logVars
  BY EventsStay
<1> QED BY <1>1, LogStart, LogStep, PTL DEF LogSpec, NoEventDropped

-----------------------------------------------------------------------------
(* The services together                                                   *)

(* One service moves at a time; a step of it is one of its own module, and  *)
(* a stutter of all others.                                                *)
AnyMoves == /\ [LogNext]_logVars /\ [KmsgNext]_kmsgVars /\ [LearnNext]_learnVars
            /\ [BannedNext]_bannedVars /\ [GeoNext]_geoVars /\ [DiskNext]_diskVars
            /\ [Next]_vars /\ [PushNext]_pushVars

LEMMA OneMoves == [ServicesNext]_servicesVars => AnyMoves
<1>1. CASE LogOnly
  BY <1>1 DEF LogOnly, pushSide, AnyMoves
<1>2. CASE KmsgOnly
  BY <1>2 DEF KmsgOnly, pushSide, AnyMoves
<1>3. CASE LearnOnly
  BY <1>3 DEF LearnOnly, pushSide, AnyMoves
<1>4. CASE BannedOnly
  BY <1>4 DEF BannedOnly, pushSide, AnyMoves
<1>5. CASE GeoOnly
  BY <1>5 DEF GeoOnly, pushSide, AnyMoves
<1>6. CASE DiskOnly
  BY <1>6 DEF DiskOnly, pushSide, AnyMoves
<1>7. CASE HubOnly
  BY <1>7 DEF HubOnly, services, AnyMoves
<1>8. CASE PushOnly
  BY <1>8 DEF PushOnly, services, AnyMoves
<1>9. CASE UNCHANGED servicesVars
  BY <1>9 DEF servicesVars, services, pushSide, AnyMoves
<1> QED BY <1>1, <1>2, <1>3, <1>4, <1>5, <1>6, <1>7, <1>8, <1>9 DEF ServicesNext

(* Side by side each service behaves as it does alone, so that what is      *)
(* proved of a service holds of the process that runs them all (main).      *)
THEOREM ServicesRunAsAlone ==
    ServicesSpec => /\ LogSpec /\ KmsgSpec /\ LearnSpec /\ BannedSpec /\ GeoSpec /\ DiskSpec
                    /\ Spec /\ PushSpec
<1>1. ServicesInit => /\ LogInit /\ KmsgInit /\ LearnInit /\ BannedInit /\ GeoInit /\ DiskInit
                      /\ Init /\ PushInit
  BY DEF ServicesInit
<1>2. [ServicesNext]_servicesVars
         => /\ [LogNext]_logVars /\ [KmsgNext]_kmsgVars /\ [LearnNext]_learnVars
            /\ [BannedNext]_bannedVars /\ [GeoNext]_geoVars /\ [DiskNext]_diskVars
            /\ [Next]_vars /\ [PushNext]_pushVars
  BY OneMoves DEF AnyMoves
<1> QED BY <1>1, <1>2, PTL DEF ServicesSpec, LogSpec, KmsgSpec, LearnSpec, BannedSpec, GeoSpec,
        DiskSpec, Spec, PushSpec

(* The readers of a log and of the kernel's ring keep the promise of each,  *)
(* whichever service runs beside them.                                     *)
THEOREM LinesComeInOrder == ServicesSpec => []LinesComeOnce
BY ServicesRunAsAlone, StreamInOrder, RecordsComeOnce, PTL DEF LinesComeOnce
=============================================================================
