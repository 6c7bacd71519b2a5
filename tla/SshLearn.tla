----------------------------- MODULE SshLearn -----------------------------
(***************************************************************************)
(* The white list of the firewall log: the filter of internal/fw/filter.go *)
(* that the producer of main.go makes and copies, and the learner of       *)
(* internal/fw/ssh_learn.go that fills its shared slot from the SSH logins *)
(* in the database.                                                        *)
(*                                                                         *)
(* A slot is an atomic.Pointer; 0 stands for the nil pointer, so that two  *)
(* copies of the filter share a list when they hold the same slot.         *)
(***************************************************************************)
EXTENDS Naturals

CONSTANTS Addresses,     \* source addresses
          Internal,      \* those within fw.internal_cidrs
          ExcludeIPs,    \* fw.exclude_ips
          Window,        \* fw.ssh_learn_window_days, in learning intervals
          MaxLearnFails  \* bound: queries of the learner that fail

ASSUME LearnAssumption == /\ Internal \subseteq Addresses /\ ExcludeIPs \subseteq Addresses
                          /\ {Window, MaxLearnFails} \subseteq Nat

NoAddress == "no address"     \* SrcIP = 0: IPv6, or it did not parse

VARIABLES
    logins,      \* rows of ssh_attempts: [ip, key, ok, age]
    producer,    \* where the producer of main.go is
    slots,       \* [1..2 -> the list a slot points to], slot 2 is a second allocation
    own,         \* the slot of the filter of the producer, 0: nil
    parserSlot,  \* the slot of the copy that RunFwParser got
    ready,       \* fwFilterReady holds the filter
    learner,     \* where RunSSHLearner is
    found,       \* the result of its query
    learnFails,
    everKey,     \* addresses that have logged in with a key
    lastLearned, \* the list of the last successful round
    dropped      \* the event the filter dropped in the last step, see ParseLine

learnVars == <<logins, producer, slots, own, parserSlot, ready, learner, found, learnFails,
               everKey, lastLearned, dropped>>

LearnInit == /\ logins = {} /\ producer = "filter" /\ slots = [s \in 1..2 |-> {}]
             /\ own = 0 /\ parserSlot = 0 /\ ready = FALSE /\ learner = "wait" /\ found = {}
             /\ learnFails = 0 /\ everKey = {} /\ lastLearned = {} /\ dropped = {}

-----------------------------------------------------------------------------
(* The database                                                            *)

Login(ip, key, ok) ==
    /\ \A l \in logins : l.ip # ip
    /\ logins' = logins \cup {[ip |-> ip, key |-> key, ok |-> ok, age |-> 0]}
    /\ everKey' = IF key /\ ok THEN everKey \cup {ip} ELSE everKey
    /\ dropped' = {}
    /\ UNCHANGED <<producer, slots, own, parserSlot, ready, learner, found,
                   learnFails, lastLearned>>

\* One interval passes; the retention takes a row when it is out of the window.
DayPasses ==
    /\ \E l \in logins : TRUE
    /\ logins' = {[l EXCEPT !.age = @ + 1] : l \in {l \in logins : l.age <= Window}}
    /\ dropped' = {}
    /\ UNCHANGED <<producer, slots, own, parserSlot, ready, learner, found, learnFails, everKey,
                   lastLearned>>

-----------------------------------------------------------------------------
(* The producer of main.go and the parser                                  *)

\* SetDynamicExcludeIPs on a filter with this slot: a nil slot gets a new one.
SlotFor(s, new) == IF s = 0 THEN new ELSE s

\* filter.SetDynamicExcludeIPs(nil)
MakeSlot == /\ producer = "filter" /\ producer' = "publish"
            /\ own' = SlotFor(own, 1)
            /\ slots' = [slots EXCEPT ![SlotFor(own, 1)] = {}]
            /\ dropped' = {}
            /\ UNCHANGED <<logins, parserSlot, ready, learner, found, learnFails,
                           everKey, lastLearned>>

\* fwFilterReady <- &filter
Publish == /\ producer = "publish" /\ producer' = "copy"
           /\ ready' = TRUE /\ dropped' = {}
           /\ UNCHANGED <<logins, slots, own, parserSlot, learner, found, learnFails, everKey,
                          lastLearned>>

\* RunFwParser takes the filter by value.
CopyFilter == /\ producer = "copy" /\ producer' = "parse"
              /\ parserSlot' = own /\ dropped' = {}
              /\ UNCHANGED <<logins, slots, own, ready, learner, found, learnFails, everKey,
                             lastLearned>>

\* ShouldDrop with exclude_internal and without filter_dst_internal
ListOf(s) == IF s = 0 THEN {} ELSE slots[s]
ShouldDrop(src) == src # NoAddress /\ src \in ExcludeIPs \cup ListOf(parserSlot) \cup Internal

ParseLine(src) == /\ producer = "parse"
                  /\ dropped' = IF ShouldDrop(src) THEN {src} ELSE {}
                  /\ UNCHANGED <<logins, producer, slots, own, parserSlot, ready, learner, found,
                                 learnFails, everKey, lastLearned>>

-----------------------------------------------------------------------------
(* RunSSHLearner                                                           *)

FilterReady == /\ learner = "wait" /\ ready
               /\ learner' = "learn" /\ ready' = FALSE /\ dropped' = {}
               /\ UNCHANGED <<logins, producer, slots, own, parserSlot, found, learnFails, everKey,
                              lastLearned>>

\* Mutant: every successful login counts.
SuccessfulAny == {l \in logins : l.ok /\ l.age <= Window}

\* WHERE result = ok AND auth_method = 'publickey' AND ts >= cutoff
SuccessfulSSHIPs == {l \in logins : l.ok /\ l.key /\ l.age <= Window}

QueryLogins == /\ learner = "learn" /\ learner' = "store"
               /\ found' = {l.ip : l \in SuccessfulSSHIPs} /\ dropped' = {}
               /\ UNCHANGED <<logins, producer, slots, own, parserSlot, ready, learnFails, everKey,
                              lastLearned>>

\* Mutant: a failed query ends the learner.
QueryFailsReturning == /\ learner = "learn" /\ learner' = "ended"
                       /\ learnFails < MaxLearnFails /\ learnFails' = learnFails + 1
                       /\ dropped' = {}
                       /\ UNCHANGED <<logins, producer, slots, own, parserSlot, ready, found,
                                      everKey, lastLearned>>

\* Reported, and the list stays; the next interval asks again.
QueryFails == /\ learner = "learn"
              /\ learnFails < MaxLearnFails /\ learnFails' = learnFails + 1
              /\ dropped' = {}
              /\ UNCHANGED <<logins, producer, slots, own, parserSlot, ready, learner, found,
                             everKey, lastLearned>>

\* filter.SetDynamicExcludeIPs(parsed), through the pointer to the filter of main
StoreList == /\ learner = "store" /\ learner' = "learn"
             /\ own' = SlotFor(own, 2)
             /\ slots' = [slots EXCEPT ![SlotFor(own, 2)] = found]
             /\ lastLearned' = found /\ found' = {} /\ dropped' = {}
             /\ UNCHANGED <<logins, producer, parserSlot, ready, learnFails, everKey>>

-----------------------------------------------------------------------------
FwProducer == MakeSlot \/ Publish \/ CopyFilter
LearnerStep == FilterReady \/ QueryLogins \/ QueryFails \/ StoreList

LearnNext ==
    \/ \E ip \in Addresses, key, ok \in BOOLEAN : Login(ip, key, ok)
    \/ DayPasses \/ FwProducer \/ LearnerStep
    \/ \E src \in Addresses \cup {NoAddress} : ParseLine(src)

LearnSpec == LearnInit /\ [][LearnNext]_learnVars

-----------------------------------------------------------------------------
(* Properties                                                              *)

(* The learner writes the list that the parser reads, although the filter   *)
(* was copied in between, at whatever moment the learner got it.           *)
ListReachesParser == producer = "parse" => ListOf(parserSlot) = lastLearned

(* An event is dropped only for a configured source, or for one that has    *)
(* logged in with a key before: no password, no failed login, no list that  *)
(* was half replaced, and never for a line without an IPv4 source.         *)
DropsAreEarned == dropped \subseteq Internal \cup ExcludeIPs \cup everKey

(* Parser and learner agree on the list, and the list is earned.            *)
FilterInv == ListReachesParser /\ DropsAreEarned

(* A login with a key is learned, or has left the window, although queries  *)
(* fail for a time.                                                        *)
LoginLearned == \A ip \in Addresses :
    (\E l \in SuccessfulSSHIPs : l.ip = ip) ~>
        (ip \in ListOf(parserSlot) \/ \A l \in SuccessfulSSHIPs : l.ip # ip)
=============================================================================
