----------------------------- MODULE MCArchive -----------------------------
(***************************************************************************)
(* Archive for TLC: two tables, two rows of the first month, one of the    *)
(* second.                                                                 *)
(***************************************************************************)
EXTENDS Archive, TLC

CONSTANTS r1, r2, r3

MCRows == {r1, r2, r3}
MCMonthOf == r1 :> 1 @@ r2 :> 1 @@ r3 :> 2
MCTableOf == r1 :> 1 @@ r2 :> 2 @@ r3 :> 1
=============================================================================
