------------------------------ MODULE Services -----------------------------
(***************************************************************************)
(* The small services and the push side of the dashboard side by side.     *)
(* They share no state: a behaviour runs the one in focus, so that TLC     *)
(* explores the sum of their state spaces instead of the product.          *)
(***************************************************************************)
EXTENDS LogStream, Kmsg, SshLearn, Banned, GeoIP, DiskMon, WsHub, Push

CONSTANT Focuses    \* the services a run explores

VARIABLE focus

services == <<logVars, kmsgVars, learnVars, bannedVars, geoVars, diskVars>>
pushSide == <<vars, pushVars>>
servicesVars == <<focus, services, pushSide>>

ServicesInit == /\ focus \in Focuses
                /\ LogInit /\ KmsgInit /\ LearnInit /\ BannedInit /\ GeoInit /\ DiskInit
                /\ Init /\ PushInit
                /\ focus # "banned" => schema = [bips |-> "absent", bans |-> "absent"]

LogOnly == /\ focus = "log" /\ LogNext
           /\ UNCHANGED <<focus, kmsgVars, learnVars, bannedVars, geoVars, diskVars, pushSide>>
KmsgOnly == /\ focus = "kmsg" /\ KmsgNext
            /\ UNCHANGED <<focus, logVars, learnVars, bannedVars, geoVars, diskVars, pushSide>>
LearnOnly == /\ focus = "learn" /\ LearnNext
             /\ UNCHANGED <<focus, logVars, kmsgVars, bannedVars, geoVars, diskVars, pushSide>>
BannedOnly == /\ focus = "banned" /\ BannedNext
              /\ UNCHANGED <<focus, logVars, kmsgVars, learnVars, geoVars, diskVars, pushSide>>
GeoOnly == /\ focus = "geo" /\ GeoNext
           /\ UNCHANGED <<focus, logVars, kmsgVars, learnVars, bannedVars, diskVars, pushSide>>
DiskOnly == /\ focus = "disk" /\ DiskNext
            /\ UNCHANGED <<focus, logVars, kmsgVars, learnVars, bannedVars, geoVars, pushSide>>

HubOnly == focus = "hub" /\ Next /\ UNCHANGED <<focus, services, pushVars>>
PushOnly == focus = "push" /\ PushNext /\ UNCHANGED <<focus, services, vars>>

ServicesNext == LogOnly \/ KmsgOnly \/ LearnOnly \/ BannedOnly \/ GeoOnly \/ DiskOnly
                \/ HubOnly \/ PushOnly

(* Goroutines run, the kernel kills the child of a cancelled context, timers *)
(* fire.                                                                   *)
ServicesFairness ==
    /\ WF_logVars(focus = "log" /\ Collector) /\ WF_logVars(focus = "log" /\ ChildKilled)
    /\ WF_logVars(focus = "log" /\ TimePasses)
    /\ WF_kmsgVars(focus = "kmsg" /\ KmsgLoop)
    /\ WF_learnVars(focus = "learn" /\ FwProducer)
    /\ WF_learnVars(focus = "learn" /\ LearnerStep)
    /\ WF_bannedVars(focus = "banned" /\ Refreshing)
    /\ WF_geoVars(focus = "geo" /\ Updater)
    /\ Fairness /\ WF_pushVars(focus = "push" /\ PushLoop)

(* A line of a log and a record of the kernel come out once and in order,   *)
(* over all restarts of the child and the overruns of the ring.            *)
LinesComeOnce == LogInv /\ NoReplayNoGap

(* The readers end with the context: main waits for them (runRestarted,    *)
(* kmsgReadLoop).                                                         *)
ReadersReturn == CollectorReturns /\ KmsgReturns

ServicesSpec == ServicesInit /\ [][ServicesNext]_servicesVars /\ ServicesFairness
=============================================================================
