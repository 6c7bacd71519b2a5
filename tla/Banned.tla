------------------------------ MODULE Banned ------------------------------
(***************************************************************************)
(* The list of banned addresses: QueryBanned (internal/f2b/f2b.go) probes  *)
(* the database of fail2ban, whose schema depends on its version, while    *)
(* fail2ban writes to it, and refreshBanned (main.go) keeps the last       *)
(* result for the dashboard.                                               *)
(*                                                                         *)
(* fail2ban bans and unbans in both tables; when it is killed, rows of     *)
(* bans that have run out stay behind.                                     *)
(***************************************************************************)
EXTENDS Naturals, FiniteSets

CONSTANTS V4, V6,        \* addresses
          MaxTime,       \* bound: bans run out until then
          MaxProbeFails  \* bound: statements that fail

ASSUME BannedAssumption == V4 \cap V6 = {} /\ {MaxTime, MaxProbeFails} \subseteq Nat

Forever == MaxTime + 1      \* bantime = -1
Unknown == MaxTime + 2      \* bantime or timeofban IS NULL
NoCount == Cardinality(V4) + 1

VARIABLES
    schema,      \* [bips, bans -> what the table of that name is]
    bips,        \* rows [ip, until] of both tables
    enforced,    \* addresses fail2ban bans
    fail2ban,    \* it runs
    now,
    probe,       \* the statement of QueryBanned that comes next
    snapshot,    \* bannedList: the addresses, and where they are from
    truth,       \* the addresses enforced when the snapshot was read
    lastCount, reported,
    probeFails

bannedVars == <<schema, bips, enforced, fail2ban, now, probe, snapshot, truth, lastCount,
                reported, probeFails>>
dbVars == <<schema, bips, enforced, fail2ban, now>>
refreshVars == <<probe, snapshot, truth, lastCount, reported, probeFails>>

BannedInit ==
    /\ schema \in [bips : {"absent", "full", "no time", "no ip"},
                   bans : {"absent", "full", "no ip"}]
    /\ bips = {} /\ enforced = {} /\ fail2ban = TRUE /\ now = 0
    /\ probe = "bips" /\ snapshot = [from |-> "none", ips |-> {}] /\ truth = {}
    /\ lastCount = NoCount /\ reported = NoCount /\ probeFails = 0

-----------------------------------------------------------------------------
(* fail2ban                                                                *)

Ban(ip, until) ==
    /\ fail2ban /\ ip \notin enforced
    /\ bips' = {b \in bips : b.ip # ip} \cup {[ip |-> ip, until |-> until]}
    /\ enforced' = enforced \cup {ip}
    /\ UNCHANGED <<schema, fail2ban, now, refreshVars>>

Unban(ip) == /\ fail2ban /\ ip \in enforced
             /\ bips' = {b \in bips : b.ip # ip}
             /\ enforced' = enforced \ {ip}
             /\ UNCHANGED <<schema, fail2ban, now, refreshVars>>

\* Bans that run out are lifted; the rows go only while fail2ban runs.
BanTimePasses ==
    /\ now < MaxTime /\ now' = now + 1
    /\ LET over == {b \in bips : b.until <= now + 1}
       IN  /\ enforced' = enforced \ {b.ip : b \in over}
           /\ bips' = IF fail2ban THEN bips \ over ELSE bips
    /\ UNCHANGED <<schema, fail2ban, refreshVars>>

Fail2banDies == /\ fail2ban /\ fail2ban' = FALSE
                /\ UNCHANGED <<schema, bips, enforced, now, refreshVars>>

-----------------------------------------------------------------------------
(* QueryBanned; every statement is a query of its own                      *)

ProbeBips == /\ probe = "bips"
             /\ probe' = IF schema.bips = "absent" THEN "bans" ELSE "bips columns"
             /\ UNCHANGED <<snapshot, truth, lastCount, reported, probeFails, dbVars>>

\* A table without ip is an error; without the times of a ban, bans is asked.
BipsColumns == /\ probe = "bips columns"
               /\ probe' = CASE schema.bips = "no ip" -> "wait"
                             [] schema.bips = "no time" -> "bans"
                             [] schema.bips = "full" -> "bips rows"
               /\ UNCHANGED <<snapshot, truth, lastCount, reported, probeFails, dbVars>>

ProbeBans == /\ probe = "bans"
             /\ probe' = IF schema.bans = "absent" THEN "wait" ELSE "bans columns"
             /\ UNCHANGED <<snapshot, truth, lastCount, reported, probeFails, dbVars>>

BansColumns == /\ probe = "bans columns"
               /\ probe' = IF schema.bans = "no ip" THEN "wait" ELSE "bans rows"
               /\ UNCHANGED <<snapshot, truth, lastCount, reported, probeFails, dbVars>>

\* Mutant: bans without a time are compared with the time, too.
ActiveWithoutExemption(b) == b.until \in (now + 1)..MaxTime

\* bipsActiveWhere
Active(b) == b.until \in {Forever, Unknown} \/ b.until > now

\* scanBannedIPs skips IPv6.
Scanned(rs) == {b.ip : b \in rs} \cap V4

\* refreshBanned after a successful query: only a new count is reported.
Refresh(ips, from) ==
    /\ snapshot' = [from |-> from, ips |-> ips] /\ truth' = enforced \cap V4
    /\ IF Cardinality(ips) = lastCount THEN UNCHANGED <<lastCount, reported>>
       ELSE lastCount' = Cardinality(ips) /\ reported' = Cardinality(ips)
    /\ probe' = "wait"

BipsRows == /\ probe = "bips rows"
            /\ Refresh(Scanned({b \in bips : Active(b)}), "bips")
            /\ UNCHANGED <<probeFails, dbVars>>

BansRows == /\ probe = "bans rows"
            /\ Refresh(Scanned(bips), "bans")
            /\ UNCHANGED <<probeFails, dbVars>>

\* Mutant: a failed query leaves an empty list, and the loop ends.
ProbeFailsForGood == /\ probe # "wait" /\ probeFails < MaxProbeFails
                     /\ probeFails' = probeFails + 1 /\ probe' = "ended"
                     /\ UNCHANGED <<snapshot, truth, lastCount, reported, dbVars>>

\* Unreadable, locked, or a hot journal: the old snapshot stays.
ProbeFails == /\ probe # "wait" /\ probeFails < MaxProbeFails
              /\ probeFails' = probeFails + 1 /\ probe' = "wait"
              /\ UNCHANGED <<snapshot, truth, lastCount, reported, dbVars>>

\* util.Periodic, every 60 s
NextRefresh == /\ probe = "wait" /\ probe' = "bips"
               /\ UNCHANGED <<snapshot, truth, lastCount, reported, probeFails, dbVars>>

-----------------------------------------------------------------------------
Fail2ban == \/ \E ip \in V4 \cup V6, until \in (now + 1)..Unknown : Ban(ip, until)
            \/ \E ip \in enforced : Unban(ip)
            \/ BanTimePasses \/ Fail2banDies
Refreshing == \/ ProbeBips \/ BipsColumns \/ ProbeBans \/ BansColumns \/ BipsRows \/ BansRows
              \/ ProbeFails \/ NextRefresh

BannedNext == Fail2ban \/ Refreshing

BannedSpec == BannedInit /\ [][BannedNext]_bannedVars

-----------------------------------------------------------------------------
(* Properties                                                              *)

(* The list holds every IPv4 address that was banned when it was read:      *)
(* permanent bans and bans of unknown length, too.  With the times of bips  *)
(* it holds no other, although a killed fail2ban leaves rows behind.       *)
SnapshotIsTrue == /\ truth \subseteq snapshot.ips
                  /\ snapshot.from = "bips" => snapshot.ips = truth

(* The last count reported is the size of the list that is shown (C3: a     *)
(* change is reported, in either direction).                               *)
CountKnown == snapshot.from # "none" => reported = Cardinality(snapshot.ips)

(* The list and the count that was told with it.                            *)
BannedInv == SnapshotIsTrue /\ CountKnown

(* A ban is listed, or over, although statements fail for a time; whatever  *)
(* the version of fail2ban, if one of its tables can be read.              *)
Readable == schema.bips = "full" \/ (schema.bips # "no ip" /\ schema.bans = "full")
BanListed == \A ip \in V4 : (Readable /\ ip \in enforced) ~>
                                (ip \in snapshot.ips \/ ip \notin enforced)
=============================================================================
