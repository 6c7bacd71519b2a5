------------------------------ MODULE DiskMon -----------------------------
(***************************************************************************)
(* The disk monitor (internal/diskmon/diskmon.go): a check per interval,   *)
(* reports on every change of the level and, while it is not OK, again     *)
(* when the last report of that level is old enough.  Time is counted in   *)
(* checks; ages are kept up to RepeatEvery.                                *)
(***************************************************************************)
EXTENDS Naturals

CONSTANTS Warn, Critical, Emergency,  \* the thresholds
          Usages,                     \* percentages that occur
          RepeatEvery                 \* 10 minutes, in checks

\* config.go, validateDisk: 1 to 100, and in this order
ASSUME DiskAssumption == /\ Usages \subseteq Nat /\ RepeatEvery \in Nat \ {0}
                         /\ {Warn, Critical, Emergency} \subseteq 1..100
                         /\ Warn < Critical /\ Critical < Emergency

Levels == {"OK", "warn", "critical", "emergency"}

VARIABLES first, lastLevel,
          levelReport, \* [Levels -> age of the last report], RepeatEvery: never
          measured,    \* the last usage that could be read, 0: none yet
          announced,   \* the level the last report named
          silence      \* successful checks since the last report

diskVars == <<first, lastLevel, levelReport, measured, announced, silence>>

Classify(usage) == CASE usage >= Emergency -> "emergency"
                     [] usage >= Critical /\ usage < Emergency -> "critical"
                     [] usage >= Warn /\ usage < Critical -> "warn"
                     [] usage < Warn -> "OK"

Aging(age) == IF age < RepeatEvery THEN age + 1 ELSE age
Aged == [l \in Levels |-> Aging(levelReport[l])]

DiskInit == /\ first = TRUE /\ lastLevel = "OK" /\ measured = 0
            /\ levelReport = [l \in Levels |-> RepeatEvery]
            /\ announced = "OK" /\ silence = RepeatEvery

ReportLevel(l) == /\ announced' = l /\ silence' = 0
                  /\ levelReport' = [Aged EXCEPT ![l] = 0]
Quiet == /\ announced' = announced /\ silence' = Aging(silence)
         /\ levelReport' = Aged

CheckFails == /\ first' = FALSE
              /\ levelReport' = Aged
              /\ UNCHANGED <<lastLevel, measured, announced, silence>>

\* Mutant: the first check only remembers the level.
CheckFirstSilent(usage) ==
    LET level == Classify(usage) IN
    /\ measured' = usage /\ first' = FALSE /\ lastLevel' = level
    /\ IF ~first /\ (level # lastLevel \/ (level # "OK" /\ Aged[level] = RepeatEvery))
       THEN ReportLevel(level) ELSE Quiet

\* The first round knows no change; an OK level is news only when it was not OK.
Check(usage) ==
    LET level == Classify(usage)
        news == level # (IF first THEN "OK" ELSE lastLevel)
    IN  /\ measured' = usage /\ first' = FALSE /\ lastLevel' = level
        /\ IF news \/ (level # "OK" /\ Aged[level] = RepeatEvery)
           THEN ReportLevel(level) ELSE Quiet

DiskNext == CheckFails \/ \E usage \in Usages : Check(usage)

DiskSpec == DiskInit /\ [][DiskNext]_diskVars

(* The level that the reports tell is that of the last usage that could be  *)
(* read: a rise, a fall and the recovery are all reported, also when the    *)
(* first checks fail.                                                      *)
LevelKnown == announced = Classify(measured)

(* While the disk is too full, the reports never stop for more checks than   *)
(* make up the ten minutes; failed checks do not count.                     *)
StillReported == Classify(measured) # "OK" => silence < RepeatEvery

(* A change is told at once, an unchanged level from time to time.          *)
DiskInv == LevelKnown /\ StillReported
=============================================================================
