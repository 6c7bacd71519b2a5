------------------------------- MODULE MCConn -------------------------------
(***************************************************************************)
(* Conn for TLC: two groups that move the table; two five-tuples in two     *)
(* states for ss, of which a channel that begins there takes three          *)
(* snapshots.                                                               *)
(***************************************************************************)
EXTENDS Conn

CONSTANTS k1, k2, estab, closing, gone

MCMaxSnaps == [auto |-> 0, fallback |-> 3]
=============================================================================
