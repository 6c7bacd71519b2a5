------------------------------- MODULE Push --------------------------------
(***************************************************************************)
(* What the dashboard is told of new rows (PushLoop of internal/api/ws.go).*)
(* Every second the loop counts the connection events with an id above a   *)
(* cursor per event type, and sends the system events above a third cursor.*)
(* It reads the tables through a connection of its own while the writer    *)
(* inserts and the retention deletes.                                      *)
(*                                                                         *)
(* The tables have no AUTOINCREMENT: when the row with the highest id is   *)
(* deleted, SQLite gives the id out again.                                 *)
(***************************************************************************)
EXTENDS Naturals, FiniteSets

CONSTANTS
    SysLimit,      \* LIMIT of the query of frameSystem (20)
    MaxRows,       \* bound: rows ever inserted
    MaxQueryFails  \* bound: queries that fail

ASSUME PushAssumption == SysLimit \in Nat \ {0} /\ {MaxRows, MaxQueryFails} \subseteq Nat

VARIABLES
    rows,        \* rows of connections and system_events, see Row
    given,       \* [Tables -> the highest id given out so far]
    inserted,    \* rows inserted so far
    cursor,      \* lastNewID, lastDestID and lastSysID
    ticking,     \* the tick has counted connections and not yet read system events
    told,        \* numbers of the rows that were in a frame of this loop
    counted,     \* numbers of the rows that the last step put into a frame
    queryFails

pushVars == <<rows, given, inserted, cursor, ticking, told, counted, queryFails>>

EvTypes == {"new", "destroy"}      \* ev_type 1 and 3
PushKinds == EvTypes \cup {"system"}
Tables == {"connections", "system_events"}
Table(k) == IF k = "system" THEN "system_events" ELSE "connections"

\* n: its place in the order of insertion; again: the id was given out before.
Row == [id : 1..MaxRows, kind : PushKinds, n : 1..MaxRows, again : BOOLEAN]

RowsOf(k) == {r \in rows : r.kind = k}
Above(k) == {r \in RowsOf(k) : r.id > cursor[k]}
Numbers(R) == {r.n : r \in R}

\* COALESCE(MAX(id), null)
MaxId(R, null) == IF R = {} THEN null
                  ELSE CHOOSE i \in {r.id : r \in R} : \A r \in R : r.id <= i

PushInit == /\ rows = {} /\ given = [t \in Tables |-> 0] /\ inserted = 0
            /\ cursor = [k \in PushKinds |-> 0] /\ ticking = FALSE
            /\ told = {} /\ counted = {} /\ queryFails = 0

-----------------------------------------------------------------------------
(* The writer and the retention                                            *)

NextId(t) == MaxId({r \in rows : Table(r.kind) = t}, 0) + 1

InsertRow(k) ==
    /\ inserted < MaxRows
    /\ inserted' = inserted + 1
    /\ LET id == NextId(Table(k))
           top == given[Table(k)]
       IN  /\ rows' = rows \cup {[id |-> id, kind |-> k, n |-> inserted + 1,
                                  again |-> id <= top]}
           /\ given' = [given EXCEPT ![Table(k)] = IF id <= top THEN top ELSE id]
    /\ counted' = {}
    /\ UNCHANGED <<cursor, ticking, told, queryFails>>

\* Events come late and carry their own time, so any row may expire first.
DeleteRow(r) == /\ rows' = rows \ {r}
                /\ counted' = {}
                /\ UNCHANGED <<given, inserted, cursor, ticking, told, queryFails>>

-----------------------------------------------------------------------------
(* PushLoop                                                                *)

Broadcast(R) == /\ counted' = Numbers(R)
                /\ told' = told \cup Numbers(R)

\* The one SELECT of frameConnStats: counts and cursors of one snapshot.
FrameConnStats ==
    /\ ~ticking /\ ticking' = TRUE
    /\ Broadcast(UNION {Above(k) : k \in EvTypes})
    /\ cursor' = [k \in PushKinds |->
                    IF k \in EvTypes THEN MaxId(RowsOf(k), cursor[k]) ELSE cursor[k]]
    /\ UNCHANGED <<rows, given, inserted, queryFails>>

\* Mutant: the counts are lost, the cursors move on.
ConnStatsFailLosing ==
    /\ ~ticking /\ ticking' = TRUE
    /\ queryFails < MaxQueryFails /\ queryFails' = queryFails + 1
    /\ counted' = {}
    /\ cursor' = [k \in PushKinds |-> MaxId(RowsOf(k), cursor[k])]
    /\ UNCHANGED <<rows, given, inserted, told>>

\* Locked, or longer than 2 s: no frame, and the cursors stay.
ConnStatsFail ==
    /\ ~ticking /\ ticking' = TRUE
    /\ queryFails < MaxQueryFails /\ queryFails' = queryFails + 1
    /\ counted' = {}
    /\ UNCHANGED <<rows, given, inserted, cursor, told>>

\* What a SELECT ... ORDER BY id LIMIT 20 can have returned so far.
Prefixes == {R \in SUBSET Above("system") :
                /\ Cardinality(R) <= SysLimit
                /\ \A r \in R, s \in Above("system") : s.id < r.id => s \in R}
Whole(R) == R = Above("system") \/ Cardinality(R) = SysLimit

\* Mutant: the cursor moves to the end of the table, past the LIMIT.
SendSystemToEnd(R) ==
    /\ ticking /\ ticking' = FALSE
    /\ Broadcast(R)
    /\ cursor' = [cursor EXCEPT !["system"] = MaxId(RowsOf("system"), @)]
    /\ UNCHANGED <<rows, given, inserted>>

\* Mutant: the cursor stays where it was.
SendSystemAgain(R) == /\ ticking /\ ticking' = FALSE
                      /\ Broadcast(R)
                      /\ UNCHANGED <<rows, given, inserted, cursor>>

\* One frame for each row read; the cursor moves to the last of them.
SendSystem(R) ==
    /\ ticking /\ ticking' = FALSE
    /\ Broadcast(R)
    /\ cursor' = [cursor EXCEPT !["system"] = MaxId(R, @)]
    /\ UNCHANGED <<rows, given, inserted>>

FrameSystem == \E R \in Prefixes : /\ Whole(R)
                                   /\ SendSystem(R)
                                   /\ UNCHANGED queryFails

\* The query fails, or ends early at a row it cannot read.
SystemFail == /\ queryFails < MaxQueryFails /\ queryFails' = queryFails + 1
              /\ \E R \in Prefixes : ~Whole(R) /\ SendSystem(R)

-----------------------------------------------------------------------------
PushLoop == FrameConnStats \/ ConnStatsFail \/ FrameSystem \/ SystemFail

PushNext == \/ \E k \in PushKinds : InsertRow(k)
            \/ \E r \in rows : DeleteRow(r)
            \/ PushLoop

PushSpec == PushInit /\ [][PushNext]_pushVars

-----------------------------------------------------------------------------
(* Properties                                                              *)

(* The type invariant of PushLoop: no cursor is ahead of the ids given out,  *)
(* an id belongs to one row of its table.                                   *)
PushTypeOK == /\ rows \subseteq Row
              /\ given \in [Tables -> 0..MaxRows]
              /\ inserted \in 0..MaxRows
              /\ cursor \in [PushKinds -> 0..MaxRows]
              /\ \A k \in PushKinds : cursor[k] <= given[Table(k)]
              /\ \A r, s \in rows : Table(r.kind) = Table(s.kind) /\ r.id = s.id => r = s
              /\ ticking \in BOOLEAN
              /\ told \subseteq 1..inserted /\ counted \subseteq told
              /\ queryFails \in 0..MaxQueryFails

(* No row is counted or sent twice, although the cursor of a connection    *)
(* type moves back when the retention has deleted its highest row, and a   *)
(* failed query is asked again.                                            *)
CountedOnce == [][counted' \cap told = {}]_pushVars

(* A row that a cursor has passed was counted or sent (W-01: failed queries *)
(* and late rows lose nothing), unless its id had been given out before to  *)
(* a row that is gone.                                                     *)
NoneSkipped == \A r \in rows : r.id <= cursor[r.kind] => r.n \in told \/ r.again

(* Every row with an id of its own is counted or sent in the end, or was    *)
(* deleted before.                                                         *)
EveryRowPushed ==
    \A n \in 1..MaxRows :
        (\E r \in rows : r.n = n /\ ~r.again) ~> (n \in told \/ n \notin Numbers(rows))
=============================================================================
