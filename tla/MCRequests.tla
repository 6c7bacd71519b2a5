----------------------------- MODULE MCRequests ----------------------------
(***************************************************************************)
(* Requests for TLC: three endpoints, two of them heavy, two of them       *)
(* statistics.  To keep the graph small, a behaviour asks for one of them  *)
(* in the old view and for all in the new one, or for two and two; other   *)
(* clients come in where the view does not change.                         *)
(***************************************************************************)
EXTENDS Requests

CONSTANTS summary, ssh, ports

VARIABLE focus

MCPaths == {summary, ssh, ports}
MCHeavy == {summary, ssh}
MCStats == {summary, ports}

Asked(k) == IF focus = "one" THEN k[1] = MaxSeq \/ k[2] = summary
            ELSE k[2] = summary \/ k[2] = IF k[1] = MaxSeq THEN ssh ELSE ports

MCRequestsInit == /\ focus \in {"one", "two"} /\ RequestsInit
                  /\ public => seq = MaxSeq

MCRequestsNext == /\ RequestsNext
                  /\ \A k \in active' \cup Queued' : Asked(k)
                  /\ UNCHANGED focus

MCRequestsSpec == /\ MCRequestsInit /\ [][MCRequestsNext]_<<focus, requestsVars>>
                  /\ RequestsFairness
=============================================================================
