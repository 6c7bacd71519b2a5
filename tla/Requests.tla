------------------------------ MODULE Requests -----------------------------
(***************************************************************************)
(* The requests of one page of the dashboard: the scheduler of             *)
(* internal/web/static/app.js (createFetchJSONScheduler), which queues     *)
(* them, and the limits of internal/api that they meet (limitAPI,          *)
(* limitHeavy, limitStats).                                                *)
(*                                                                         *)
(* A request belongs to the sequence number of the view that asked for it: *)
(* a new range or filter invalidates all others.  The unit of time is a    *)
(* second, the gap between heavy requests and the refill of the heavy      *)
(* bucket.  The general bucket (10 rps, burst 20) refuses at any moment.   *)
(***************************************************************************)
EXTENDS Naturals, FiniteSets

CONSTANTS
    Paths, HeavyPaths, StatsPaths,  \* those of limitHeavy, those of limitStats
    MaxConcurrency,  \* FETCH_JSON_MAX_CONCURRENCY (2)
    StatsSlots,      \* capacity of statsSlots (2)
    HeavyBurst,      \* burst of heavyLimiter (6)
    MaxSeq           \* bound: views of the page

ASSUME RequestsAssumption ==
    /\ HeavyPaths \cup StatsPaths \subseteq Paths
    /\ IsFiniteSet(Paths)
    /\ {MaxConcurrency, StatsSlots} \subseteq Nat \ {0} /\ HeavyBurst \in Nat \ {0, 1}
    /\ MaxConcurrency <= StatsSlots /\ MaxSeq \in Nat

VARIABLES
    seq,        \* currentSeq
    queue,      \* the order of the requests that wait in the page: <<j, k>> when
                \* k waits and j is k or waits ahead of it
    active,     \* started requests whose fetch has not settled
    activeCount,
    expired,    \* active requests whose timeout has fired
    owed,       \* requests with callbacks that have not been called
    heavyIn,    \* seconds until the next heavy request may start
    cooldown,   \* seconds until cooldownUntil
    wake,       \* seconds until the wake timer, NoWake without one
    net,        \* [Keys -> where the request is on the way or at the server]
    tokens,     \* tokens in the heavy bucket
    elsewhere,  \* slots held for requests that have timed out in the page
    public      \* whether other clients use the API, up to its limits

pageVars == <<seq, queue, active, activeCount, expired, owed>>
timerVars == <<heavyIn, cooldown, wake>>
serverVars == <<tokens, elsewhere>>
requestsVars == <<pageVars, timerVars, net, serverVars, public>>

Keys == (0..MaxSeq) \X Paths
Current(k) == k[1] = seq
Heavy(k) == k[2] \in HeavyPaths
Stats(k) == k[2] \in StatsPaths
Waiting(q) == {e[1] : e \in q}
Queued == Waiting(queue)
PutLast(q, k) == q \cup ((Waiting(q) \cup {k}) \X {k})

NoWake == 99
Travelling == {"sent", "late"}
AtServer == {"slot", "runs"}
Refused == {"limited", "heavy", "busy"}    \* 429 of the three limits
NetStates == {"none", "answered"} \cup Travelling \cup AtServer \cup Refused

RequestsInit ==
    /\ seq \in 0..MaxSeq /\ queue = {} /\ active = {} /\ activeCount = 0
    /\ expired = {} /\ owed = {}
    /\ heavyIn = 0 /\ cooldown = 0 /\ wake = NoWake
    /\ net = [k \in Keys |-> "none"]
    /\ tokens = HeavyBurst /\ elsewhere = 0 /\ public \in BOOLEAN

AtMost(a, b) == IF a <= b THEN a ELSE b
Less(n) == IF n = 0 THEN 0 ELSE n - 1

GoesOn(k) == ~Current(k) /\ net[k] \in Travelling \cup AtServer

-----------------------------------------------------------------------------
(* pump                                                                    *)

\* What pump may start now: of the heavy requests the first, after the gap.
Ready(q) == {k \in Waiting(q) : Heavy(k) => /\ heavyIn = 0
                                            /\ \A e \in q : e[2] = k /\ Heavy(e[1]) => e[1] = k}

\* It starts the first n of them; heavy ones that have to wait are passed over.
First(n, ready, q) == {k \in ready : Cardinality({j \in ready : <<j, k>> \in q}) <= n}
Left(q, started) == {e \in q : e[1] \notin started /\ e[2] \notin started}

\* scheduleWake: the earlier of the pending timer and the new one.
Earlier(w, at) == IF w <= at THEN w ELSE at

\* The requests that start now; what has settled leaves the page, and a
\* request that was cancelled on the way goes on without it.
Sent(started, act) ==
    [k \in Keys |-> IF k \in started THEN "sent"
                    ELSE IF k \in active \ act /\ ~GoesOn(k) THEN "none" ELSE net[k]]

\* Mutant: the start of a heavy request is not noted.
PumpNoGap(q, act, n, cool, w) ==
    LET started == First(MaxConcurrency - n, IF cool > 0 THEN {} ELSE Ready(q), q)
        left == Left(q, started)
    IN  /\ queue' = left /\ active' = act \cup started
        /\ activeCount' = n + Cardinality(started)
        /\ net' = Sent(started, act)
        /\ wake' = IF left = {} THEN w ELSE Earlier(w, 1)
        /\ UNCHANGED heavyIn

\* Mutant: nothing wakes the queue when the cooldown is over.
PumpNoWake(q, act, n, cool, w) ==
    LET started == First(MaxConcurrency - n, IF cool > 0 THEN {} ELSE Ready(q), q)
    IN  /\ queue' = Left(q, started)
        /\ active' = act \cup started
        /\ activeCount' = n + Cardinality(started)
        /\ net' = Sent(started, act)
        /\ heavyIn' = IF \E k \in started : Heavy(k) THEN 1 ELSE heavyIn
        /\ wake' = w

\* q: the queue, act and n: active and activeCount, cool: the cooldown, w: the
\* wake timer, as the caller leaves them.
Pump(q, act, n, cool, w) ==
    LET pending == IF w = 0 THEN NoWake ELSE w
        free == MaxConcurrency - n
        ready == IF cool > 0 THEN {} ELSE Ready(q)
        started == First(free, ready, q)
        left == Left(q, started)
        gap == IF \E k \in started : Heavy(k) THEN 1 ELSE heavyIn
    IN  /\ queue' = left
        /\ active' = act \cup started
        /\ activeCount' = n + Cardinality(started)
        /\ net' = Sent(started, act)
        /\ heavyIn' = gap
        /\ wake' = IF left = {} THEN pending
                   ELSE IF cool > 0 THEN Earlier(pending, cool)
                   ELSE IF free > Cardinality(ready) THEN Earlier(pending, gap) ELSE pending

WakeFires == /\ wake = 0
             /\ Pump(queue, active, activeCount, cooldown, NoWake)
             /\ UNCHANGED <<seq, expired, owed, cooldown, serverVars, public>>

-----------------------------------------------------------------------------
(* The page asks                                                           *)

\* fetchJSON, by a timer or a click.  A request that is queued or under way
\* takes the new callbacks, unless it has timed out.
Enqueue(p) ==
    LET k == <<seq, p>>
    IN  /\ owed' = IF k \in expired THEN owed ELSE owed \cup {k}
        /\ IF k \in Queued \cup active
           THEN UNCHANGED <<queue, active, activeCount, net, heavyIn, wake>>
           ELSE Pump(PutLast(queue, k), active, activeCount, cooldown, wake)
        /\ UNCHANGED <<seq, expired, cooldown, serverVars, public>>

\* Mutant: the requests that are aborted are taken off activeCount at once.
InvalidateAndRelease ==
    /\ seq < MaxSeq /\ seq' = seq + 1
    /\ owed' = {} /\ queue' = {} /\ activeCount' = 0
    /\ UNCHANGED <<active, expired, timerVars, net, serverVars, public>>

\* nextReqSeq: what waits is dropped, what is under way aborted.  The aborted
\* requests stay in activeCount until their promises settle.
Invalidate == /\ seq < MaxSeq /\ seq' = seq + 1
              /\ owed' = {}
              /\ Pump({}, active, activeCount, cooldown, wake)
              /\ UNCHANGED <<expired, cooldown, serverVars, public>>

\* timeoutTask, after 35 s: the error callback is called and the fetch aborted.
TimeoutTask(k) ==
    /\ k \in active \ expired /\ Current(k) /\ net[k] \notin Travelling
    /\ expired' = expired \cup {k}
    /\ owed' = owed \ {k}
    /\ UNCHANGED <<seq, queue, active, activeCount, timerVars, net, serverVars, public>>

-----------------------------------------------------------------------------
(* The promise of fetch settles: callback, finishTask, pump                *)

Aborted(k) == k \in expired \/ ~Current(k)

FinishTask(k, cool) == /\ expired' = expired \ {k}
                       /\ Pump(queue, active \ {k}, activeCount - 1, cool, wake)

\* The callback, or without an answer of 200 the error callback, of the newest
\* poll.
Settle(k) == /\ k \in active /\ net[k] = "answered" /\ ~Aborted(k)
             /\ owed' = owed \ {k}
             /\ FinishTask(k, cooldown)
             /\ UNCHANGED <<seq, cooldown, serverVars, public>>

\* 429: nothing starts for Retry-After seconds.
SettleRefused(k) ==
    /\ k \in active /\ net[k] \in Refused
    /\ LET retryAfter == IF net[k] = "busy" THEN 2 ELSE 1
           cool == IF cooldown < retryAfter THEN retryAfter ELSE cooldown
       IN  /\ cooldown' = cool
           /\ FinishTask(k, cool)
    /\ owed' = IF Aborted(k) THEN owed ELSE owed \ {k}
    /\ UNCHANGED <<seq, serverVars, public>>

\* AbortError, or an answer that comes after the abort: no callback.  The
\* handler of a request that timed out may go on.
SettleAborted(k) ==
    /\ k \in active /\ Aborted(k) /\ net[k] \notin Refused
    /\ elsewhere' = IF Current(k) /\ net[k] = "slot" THEN elsewhere + 1 ELSE elsewhere
    /\ FinishTask(k, cooldown)
    /\ UNCHANGED <<seq, owed, cooldown, tokens, public>>

-----------------------------------------------------------------------------
(* The server                                                              *)

Held == Cardinality({k \in Keys : net[k] = "slot"}) + elsewhere

Answered(k, state) == net' = [net EXCEPT ![k] = state]

\* limitStats: a free slot at once, or 429.
LimitStats(k) ==
    \/ ~Stats(k) /\ Answered(k, "runs")
    \/ Stats(k) /\ Held < StatsSlots /\ Answered(k, "slot")
    \/ Stats(k) /\ (Held >= StatsSlots \/ public) /\ Answered(k, "busy")

\* limitAPI and limitHeavy: the heavy bucket is asked after the general one.
Arrive(k) ==
    /\ net[k] \in Travelling
    /\ \/ Answered(k, "limited") /\ UNCHANGED tokens
       \/ Heavy(k) /\ (tokens = 0 \/ public) /\ Answered(k, "heavy") /\ UNCHANGED tokens
       \/ Heavy(k) /\ tokens > 0 /\ LimitStats(k) /\ tokens' = tokens - 1
       \/ ~Heavy(k) /\ LimitStats(k) /\ UNCHANGED tokens
    /\ UNCHANGED <<pageVars, timerVars, elsewhere, public>>

\* The end of the answer reaches the page after the handler has returned, and
\* with it the slot.
Return(k) == /\ net[k] \in AtServer
             /\ Answered(k, IF k \in active THEN "answered" ELSE "none")
             /\ UNCHANGED <<pageVars, timerVars, serverVars, public>>

StrayReturns == /\ elsewhere > 0 /\ elsewhere' = elsewhere - 1
                /\ UNCHANGED <<pageVars, timerVars, net, tokens, public>>

\* A second passes; a request is under way for less than two.
Tick == /\ \A k \in Keys : net[k] # "late"
        /\ net' = [k \in Keys |-> IF net[k] = "sent" THEN "late" ELSE net[k]]
        /\ heavyIn' = Less(heavyIn) /\ cooldown' = Less(cooldown)
        /\ wake' = IF wake = NoWake THEN NoWake ELSE Less(wake)
        /\ tokens' = AtMost(HeavyBurst, tokens + 1)
        /\ UNCHANGED <<pageVars, elsewhere, public>>

-----------------------------------------------------------------------------
MovesOn(k) == Settle(k) \/ SettleRefused(k) \/ SettleAborted(k) \/ Arrive(k) \/ Return(k)

RequestsNext == \/ WakeFires \/ Invalidate \/ Tick \/ StrayReturns
                \/ \E p \in Paths : Enqueue(p)
                \/ \E k \in Keys : TimeoutTask(k) \/ MovesOn(k)

RequestsSpec == RequestsInit /\ [][RequestsNext]_requestsVars

(* Timers fire, fetch settles (it has an AbortController), handlers have    *)
(* deadlines.  Nobody has to ask again for a queue to move.                *)
RequestsFairness == /\ WF_requestsVars(Tick) /\ WF_requestsVars(WakeFires)
                    /\ \A k \in Keys : WF_requestsVars(MovesOn(k))

-----------------------------------------------------------------------------
(* Properties                                                              *)

(* The type invariant; the fetches that have not settled are counted, and   *)
(* are no more than FETCH_JSON_MAX_CONCURRENCY, also after an abort.        *)
RequestsTypeOK ==
    /\ seq \in 0..MaxSeq /\ queue \subseteq Keys \X Keys
    /\ active \subseteq Keys /\ expired \subseteq active /\ owed \subseteq Keys
    /\ activeCount = Cardinality(active) /\ activeCount <= MaxConcurrency
    /\ heavyIn \in 0..1 /\ cooldown \in 0..2 /\ wake \in (0..2) \cup {NoWake}
    /\ net \in [Keys -> NetStates]
    /\ tokens \in 0..HeavyBurst /\ elsewhere \in Nat /\ public \in BOOLEAN

(* A callback waits exactly while its request is queued or under way in the *)
(* current view: none is called twice or for a view that is gone (N-1), and *)
(* none is left behind.                                                    *)
OwedIsPending ==
    owed = {k \in Queued \cup active : ~Aborted(k)} /\ \A k \in Queued : Current(k)

(* A request waits only while no place is free, or for a timer that is set: *)
(* neither the gap, nor a cooldown, nor an abort leaves it to the next      *)
(* click (pump, scheduleWake).                                             *)
QueueIsServed == queue # {} => wake # NoWake \/ activeCount = MaxConcurrency

(* What the queue, the counter and the timer of the page agree on.         *)
RequestsInv == RequestsTypeOK /\ OwedIsPending /\ QueueIsServed

(* The page and the limits fit (createFetchJSONScheduler, routes): a request *)
(* somebody waits for is refused by the heavy bucket only when others use   *)
(* the API, and for want of a slot only when one is held by others or by a  *)
(* request the page has given up.                                          *)
RefusedForOthers ==
    [][\A k \in owed : net[k] \in Travelling =>
          /\ net'[k] = "heavy" => public
          /\ net'[k] = "busy" => \/ public \/ elsewhere > 0
                                 \/ \E j \in Keys \ active : net[j] = "slot"]_requestsVars

(* Every request that the scheduler has taken is answered by one of its     *)
(* callbacks or dropped with its view, although refusals stop the queue and *)
(* nobody may ask again.  (What is asked for while the task of the same key *)
(* has timed out and not yet ended is not taken, app.js:1623-1629: it has   *)
(* no callback and is not owed.)                                            *)
EveryRequestAnswered == \A p \in Paths : <<seq, p>> \in owed ~> <<seq, p>> \notin owed
=============================================================================
