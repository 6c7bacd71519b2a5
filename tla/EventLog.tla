------------------------------ MODULE EventLog ------------------------------
(***************************************************************************)
(* What the storage module promises to everything around it, without the   *)
(* channels, the batches and the transactions that implement it.           *)
(*                                                                         *)
(* An accepted event is in flight until it is stored; it is stored at most *)
(* once; the events of a kind in Ordered are stored in the order in which  *)
(* they were accepted; a stored event disappears only when its retention   *)
(* period is over; and the log closes only when nothing of a kind in       *)
(* Drained is in flight (internal/store/store.go:3-4: after the producers  *)
(* have left, the channels are drained and the last batch is committed --  *)
(* zero loss).  A crash loses what is in flight and nothing else.          *)
(***************************************************************************)
EXTENDS Integers

CONSTANTS Kinds,     \* the kinds of events, one table each
          Ordered,   \* the kinds stored in the order of acceptance
          Drained,   \* the kinds of which nothing is in flight at Close
          Keep       \* the retention period of each kind, 0 when kept for ever

VARIABLES inflight,  \* [Kinds -> sets of events]: accepted, not yet stored
          stored,    \* [Kinds -> sets of events]: committed to the database
          accepted,  \* [Kinds -> Nat]: the events accepted, numbered from 1
          clock,     \* the time, in the unit of the time stamps
          status     \* "up", "closed" (database closed) or "down"

vars == <<inflight, stored, accepted, clock, status>>

Nothing == [k \in Kinds |-> {}]

Init == /\ inflight = Nothing
        /\ stored = Nothing
        /\ accepted = [k \in Kinds |-> 0]
        /\ clock \in Nat
        /\ status = "down"

Start == /\ status = "down"
         /\ status' = "up"
         /\ UNCHANGED <<inflight, stored, accepted, clock>>

\* An event enters.  After Close only kinds that Close does not drain can.
Accept(k) ==
    /\ \/ status = "up"
       \/ status = "closed" /\ k \notin Drained
    /\ \E ts \in 0..clock :
          inflight' = [inflight EXCEPT
                         ![k] = @ \cup {[id |-> accepted[k] + 1, ts |-> ts]}]
    /\ accepted' = [accepted EXCEPT ![k] = @ + 1]
    /\ UNCHANGED <<stored, clock, status>>

\* Some events in flight become durable together.
Commit ==
    /\ status = "up"
    /\ \A k \in Kinds : inflight'[k] \subseteq inflight[k]
    /\ inflight' = [k \in Kinds |-> inflight'[k]]
    /\ stored' = [k \in Kinds |-> stored[k] \cup (inflight[k] \ inflight'[k])]
    /\ \A k \in Ordered : \A e \in inflight[k] \ inflight'[k], f \in inflight'[k] :
          e.id < f.id
    /\ UNCHANGED <<accepted, clock, status>>

Expired(k, e) == Keep[k] > 0 /\ e.ts > 0 /\ e.ts + Keep[k] < clock

\* The retention takes rows of one kind that are past their period.
Expire(k) ==
    /\ status = "up"
    /\ stored' = [stored EXCEPT ![k] = stored'[k]]
    /\ stored'[k] \subseteq stored[k]
    /\ \A e \in stored[k] \ stored'[k] : Expired(k, e)
    /\ UNCHANGED <<inflight, accepted, clock, status>>

Close == /\ status = "up"
         /\ \A k \in Drained : inflight[k] = {}
         /\ status' = "closed"
         /\ UNCHANGED <<inflight, stored, accepted, clock>>

\* The process ends: by itself once the log is closed, or by a crash.
Stop == /\ status # "down"
        /\ status' = "down"
        /\ inflight' = Nothing
        /\ UNCHANGED <<stored, accepted, clock>>

Tick == clock' > clock /\ UNCHANGED <<inflight, stored, accepted, status>>

Next == \/ Start \/ Commit \/ Close \/ Stop \/ Tick
        \/ \E k \in Kinds : Accept(k) \/ Expire(k)

Spec == Init /\ [][Next]_vars
=============================================================================
