------------------------------ MODULE MCStore ------------------------------
(***************************************************************************)
(* Store for TLC: one data kind whose producer blocks on a full channel,   *)
(* like the log parsers and conntrack, one that drops, like the honeypot,  *)
(* and the system events.                                                  *)
(***************************************************************************)
EXTENDS Store, TLC

CONSTANTS conn, cred, system

MCDataKinds == {conn, cred}
MCBoth == conn :> 2 @@ cred :> 1
MCOneKind == cred :> 2
MCOneOfEach == conn :> 1 @@ cred :> 1
MCConnOnly == conn :> 2 @@ cred :> 0
MCDrainOrder == <<conn, cred, system>>
MCDrainOne == <<cred, system>>
MCCleanOne == <<system>>
MCCleanOrder == <<conn, system>>
=============================================================================
