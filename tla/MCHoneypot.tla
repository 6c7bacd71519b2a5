----------------------------- MODULE MCHoneypot -----------------------------
(***************************************************************************)
(* Honeypot for TLC: each of the ten protocols on one port, RDP on the     *)
(* other, more connections than slots and more sources than buckets.       *)
(***************************************************************************)
EXTENDS Honeypot, TLC

CONSTANTS c1, c2, s1, s2, p1, p2

MCSetups == {p1 :> p @@ p2 :> "rdp" : p \in Protos}
=============================================================================
