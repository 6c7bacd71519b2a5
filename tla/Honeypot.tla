------------------------------ MODULE Honeypot ------------------------------
(***************************************************************************)
(* The honeypot server (internal/honeypot): Run with an accept loop per     *)
(* listener (serveProto), the limits at the entrance (acceptConn, allow),   *)
(* one goroutine per connection (handleConn) with its protocol handler, and *)
(* the shutdown.                                                            *)
(*                                                                         *)
(* Deadlines are events: the 30 s of a connection (connTimeout) and the     *)
(* minute of a source (ipWindow) may end at any time.  A name of Conns is   *)
(* used again when the connection of that name is gone.                     *)
(***************************************************************************)
EXTENDS HoneypotProtos, FiniteSets

CONSTANTS
    Ports, Conns,
    Srcs,        \* source addresses; every IPv6 source is the address 0
    Setups,      \* the configurations of a run: protocols on the ports
    maxConns,    \* 200
    ipConnLimit, \* 10
    MaxBuckets,  \* rateLimiterMaxBuckets
    SweepEvery,  \* 1024
    None         \* no connection, port or source

ASSUME HoneypotAssumption ==
    /\ IsFiniteSet(Conns) /\ IsFiniteSet(Srcs) /\ Setups \subseteq [Ports -> Protos]
    /\ {maxConns, ipConnLimit, SweepEvery} \subseteq Nat \ {0} /\ MaxBuckets \in Nat
    /\ None \notin Conns

VARIABLES
    \* ipRateLimiter
    count, window, \* the table of buckets: connections in the window of a source; "none"
                   \* has no bucket, "over" a bucket that begins anew
    calls,         \* modulo SweepEvery
    granted,       \* history: how often allow has said yes to a source in its minute,
                   \* up to ipConnLimit + 1, whatever the table remembers of it
    forgot,        \* history: the table was cleared in the minute of the source
    \* Server
    ctx, run,      \* context ended; where Run is
    proto, open,   \* protocol of each port; ports whose listener is open
    loop,          \* [Ports -> where serveProto is]
    hand,          \* [Ports -> the connection the accept loop holds]
    sem, connWG, active,
    conn           \* [Conns -> the connection, or Idle when there is none of this name]

limiterVars == <<count, window, calls, granted, forgot>>
runVars == <<ctx, run, proto, open>>
counters == <<sem, connWG, active>>
vars == <<limiterVars, runVars, loop, hand, counters, conn>>

Idle == [at |-> "away", port |-> None, src |-> None, session |-> Begin("ftp"),
         logged |-> 0, gave |-> FALSE]

\* Listeners that fail to bind are skipped, the others serve.
Init ==
    /\ count = [s \in Srcs |-> 0] /\ window = [s \in Srcs |-> "none"]
    /\ calls = 0 /\ granted = count /\ forgot = [s \in Srcs |-> FALSE]
    /\ ctx = FALSE /\ run = "serving" /\ proto \in Setups /\ open \in SUBSET Ports
    /\ loop = [p \in Ports |-> IF p \in open THEN "accept" ELSE "gone"]
    /\ hand = [p \in Ports |-> None]
    /\ sem = 0 /\ connWG = 0 /\ active = 0
    /\ conn = [c \in Conns |-> Idle]

-----------------------------------------------------------------------------
(* The limiter, under its mutex                                            *)

Allowed(s) == count[s] < ipConnLimit

Open(w) == {s \in Srcs : w[s] = "open"}

Bucket(w) == {s \in Srcs : w[s] # "none"}

\* Mutant: the sweep takes a window that is still open.
sweepAll(w) == [s \in Srcs |-> "none"]

\* Windows that are over go; when that is not enough, all go.
sweep(w) == IF Cardinality(Open(w)) > MaxBuckets THEN [s \in Srcs |-> "none"]
            ELSE [s \in Srcs |-> IF w[s] = "over" THEN "none" ELSE w[s]]

\* When allow says yes.
allow(s) ==
    LET w == [window EXCEPT ![s] = "open"]
        swept == (calls + 1) % SweepEvery = 0 \/ Cardinality(Bucket(w)) > MaxBuckets
        after == IF swept THEN sweep(w) ELSE w
        cleared == swept /\ Cardinality(Open(w)) > MaxBuckets
    IN  /\ Allowed(s)
        /\ window' = after
        /\ count' = [t \in Srcs |-> IF after[t] # "open" THEN 0
                                    ELSE IF t = s THEN count[t] + 1 ELSE count[t]]
        /\ calls' = (calls + 1) % SweepEvery
        /\ granted' = [granted EXCEPT ![s] = IF @ > ipConnLimit THEN @ ELSE @ + 1]
        /\ forgot' = [t \in Srcs |-> forgot[t] \/ (cleared /\ w[t] = "open")]

\* now.After(b.reset)
WindowEnds(s) == /\ window[s] = "open" /\ ~forgot[s]
                 /\ window' = [window EXCEPT ![s] = "over"]
                 /\ count' = [count EXCEPT ![s] = 0]
                 /\ granted' = [granted EXCEPT ![s] = 0]
                 /\ UNCHANGED <<calls, forgot, runVars, loop, hand, counters, conn>>

\* The minute of which the table has lost the bucket; the next one counts from the
\* bucket that has begun since, which ends later.
MinuteEnds(s) == /\ forgot[s]
                 /\ forgot' = [forgot EXCEPT ![s] = FALSE]
                 /\ granted' = [granted EXCEPT ![s] = count[s]]
                 /\ UNCHANGED <<count, window, calls, runVars, loop, hand, counters, conn>>

-----------------------------------------------------------------------------
(* Clients                                                                 *)

Dial(c, p, s) == /\ conn[c].at = "away" /\ p \in open
                 /\ conn' = [conn EXCEPT ![c] =
                        [Idle EXCEPT !.at = "queued", !.port = p, !.src = s,
                                     !.session = Begin(proto[p])]]
                 /\ UNCHANGED <<limiterVars, runVars, loop, hand, counters>>

\* acceptConn closes what it refuses.
Refuse(p, c) == /\ loop' = [loop EXCEPT ![p] = "accept"]
                /\ hand' = [hand EXCEPT ![p] = None]
                /\ conn' = [conn EXCEPT ![c] = Idle]

\* Accept, then the limit of the source, which the model forgets here.
Accept(p, c) ==
    /\ loop[p] = "accept" /\ conn[c].at = "queued" /\ conn[c].port = p
    /\ \/ /\ allow(conn[c].src)
          /\ loop' = [loop EXCEPT ![p] = "govern"] /\ hand' = [hand EXCEPT ![p] = c]
          /\ conn' = [conn EXCEPT ![c] = [@ EXCEPT !.at = "hand", !.src = None]]
       \/ /\ ~Allowed(conn[c].src) /\ Refuse(p, c)
          /\ UNCHANGED limiterVars
    /\ UNCHANGED <<runVars, counters>>

\* Then the limit of connections.
TakeSlot(p) ==
    /\ loop[p] = "govern"
    /\ \/ /\ sem < maxConns
          /\ sem' = sem + 1
          /\ loop' = [loop EXCEPT ![p] = "spawn"]
          /\ conn' = [conn EXCEPT ![hand[p]].at = "slot"]
          /\ UNCHANGED hand
       \/ /\ sem >= maxConns /\ Refuse(p, hand[p])
          /\ UNCHANGED sem
    /\ UNCHANGED <<limiterVars, runVars, connWG, active>>

\* Mutant: connWG.Add inside the goroutine, when it has begun.
SpawnAddsLater(p) == /\ loop[p] = "spawn"
                     /\ loop' = [loop EXCEPT ![p] = "accept"]
                     /\ hand' = [hand EXCEPT ![p] = None]
                     /\ conn' = [conn EXCEPT ![hand[p]].at = "started"]
                     /\ UNCHANGED <<limiterVars, runVars, counters>>

Spawn(p) == /\ loop[p] = "spawn"
            /\ connWG' = connWG + 1
            /\ loop' = [loop EXCEPT ![p] = "accept"]
            /\ hand' = [hand EXCEPT ![p] = None]
            /\ conn' = [conn EXCEPT ![hand[p]].at = "started"]
            /\ UNCHANGED <<limiterVars, runVars, sem, active>>

\* The listener is closed and the context has ended.
LoopEnds(p) == /\ loop[p] = "accept" /\ p \notin open
               /\ loop' = [loop EXCEPT ![p] = "gone"]
               /\ UNCHANGED <<limiterVars, runVars, hand, counters, conn>>

-----------------------------------------------------------------------------
(* handleConn                                                              *)

HandlerBegins(c) == /\ conn[c].at = "started"
                    /\ conn' = [conn EXCEPT ![c].at = "session"]
                    /\ active' = active + 1
                    /\ UNCHANGED <<limiterVars, runVars, loop, hand, sem, connWG>>

\* One message.  A record with control characters is not emitted; whether the
\* channel takes it is the concern of Store.
Receive(c, r, valid) ==
    LET k == conn[c]
        s == k.session
        logged == IF Records(s, r) /\ valid THEN k.logged + 1 ELSE k.logged
        gave == k.gave \/ (valid /\ (Records(s, r) \/ r.to = "short"))
    IN  /\ k.at = "session" /\ r \in Rules(s)
        /\ conn' = [conn EXCEPT ![c] =
               [k EXCEPT !.session = AfterRule(s, r), !.logged = logged, !.gave = gave]]
        /\ UNCHANGED <<limiterVars, runVars, loop, hand, counters>>

\* Mutant: a connection has no deadline; one that says nothing stays.
HandlerEndsByItself(c) == /\ conn[c].at = "session" /\ conn[c].session.step = "end"
                          /\ sem' = sem - 1
                          /\ conn' = [conn EXCEPT ![c].at = "closing"]
                          /\ UNCHANGED <<limiterVars, runVars, loop, hand, connWG, active>>

\* The handler returns: at its end, on a message it refuses, when the client is
\* gone or the deadline has come, or by a panic.  The slot goes back first.
HandlerEnds(c) == /\ conn[c].at = "session"
                  /\ sem' = sem - 1
                  /\ conn' = [conn EXCEPT ![c].at = "closing"]
                  /\ UNCHANGED <<limiterVars, runVars, loop, hand, connWG, active>>

Closed(c) == /\ conn[c].at = "closing"
             /\ active' = active - 1 /\ connWG' = connWG - 1
             /\ conn' = [conn EXCEPT ![c] = Idle]
             /\ UNCHANGED <<limiterVars, runVars, loop, hand, sem>>

-----------------------------------------------------------------------------
(* Run                                                                     *)

Cancel == /\ ~ctx /\ ctx' = TRUE
          /\ UNCHANGED <<limiterVars, run, proto, open, loop, hand, counters, conn>>

\* What waits in the backlog of a listener is reset with it.
CloseListeners ==
    /\ run = "serving" /\ ctx
    /\ run' = "loops" /\ open' = {}
    /\ conn' = [c \in Conns |-> IF conn[c].at = "queued" THEN Idle ELSE conn[c]]
    /\ UNCHANGED <<limiterVars, ctx, proto, loop, hand, counters>>

\* Mutant: Run waits for the connections only.
WaitNotForLoops == /\ run = "loops"
                   /\ run' = "conns"
                   /\ UNCHANGED <<limiterVars, ctx, proto, open, loop, hand, counters, conn>>

\* wg.Wait
WaitLoops == /\ run = "loops" /\ \A p \in Ports : loop[p] = "gone"
             /\ run' = "conns"
             /\ UNCHANGED <<limiterVars, ctx, proto, open, loop, hand, counters, conn>>

\* connWG.Wait
WaitConns == /\ run = "conns" /\ connWG = 0
             /\ run' = "done"
             /\ UNCHANGED <<limiterVars, ctx, proto, open, loop, hand, counters, conn>>

-----------------------------------------------------------------------------
Listener(p) == (\E c \in Conns : Accept(p, c)) \/ TakeSlot(p) \/ Spawn(p) \/ LoopEnds(p)

Handler(c) == \/ HandlerBegins(c) \/ HandlerEnds(c) \/ Closed(c)
              \/ \E r \in Rules(conn[c].session), valid \in BOOLEAN : Receive(c, r, valid)

Run == CloseListeners \/ WaitLoops \/ WaitConns

Next == \/ Cancel \/ Run
        \/ \E s \in Srcs : WindowEnds(s) \/ MinuteEnds(s)
        \/ \E c \in Conns, p \in Ports, s \in Srcs : Dial(c, p, s)
        \/ \E p \in Ports : Listener(p)
        \/ \E c \in Conns : Handler(c)

Spec == Init /\ [][Next]_vars

(* Goroutines run; a session ends within 30 s.                             *)
Fairness == /\ WF_vars(Run)
            /\ \A p \in Ports : WF_vars(TakeSlot(p) \/ Spawn(p) \/ LoopEnds(p))
            /\ \A c \in Conns : WF_vars(HandlerBegins(c) \/ HandlerEnds(c) \/ Closed(c))

FairSpec == Spec /\ Fairness

-----------------------------------------------------------------------------
(* Properties                                                              *)

\* Connections that hold a slot: from the semaphore to the return of the handler.
At(places) == {c \in Conns : conn[c].at \in places}
WithSlot == At({"slot", "started", "session"})

TypeOK ==
    /\ count \in [Srcs -> 0 .. ipConnLimit]
    /\ window \in [Srcs -> {"none", "open", "over"}]
    /\ calls \in 0 .. SweepEvery - 1
    /\ granted \in [Srcs -> 0 .. ipConnLimit + 1] /\ forgot \in [Srcs -> BOOLEAN]
    /\ ctx \in BOOLEAN /\ run \in {"serving", "loops", "conns", "done"}
    /\ proto \in [Ports -> Protos] /\ open \subseteq Ports
    /\ loop \in [Ports -> {"accept", "govern", "spawn", "gone"}]
    /\ hand \in [Ports -> Conns \cup {None}]
    /\ conn \in [Conns ->
           [at : {"away", "queued", "hand", "slot", "started", "session", "closing"},
            port : Ports \cup {None}, src : Srcs \cup {None}, session : Session,
            logged : Nat, gave : BOOLEAN]]

(* In the same minute a source gets no more than ipConnLimit connections    *)
(* (ratelimit.go:9), and clearing the table changes nothing about it        *)
(* (ratelimit.go:57).                                                       *)
WithinWindowLimit == \A s \in Srcs : granted[s] <= ipConnLimit

(* A source gets no more than ipConnLimit connections in its minute,        *)
(* whatever the sweeps take and the other sources do, unless the whole      *)
(* table was cleared in that minute for its size (ipRateLimiter.allow).     *)
LimitUnlessCleared == \A s \in Srcs : granted[s] <= ipConnLimit \/ forgot[s]

(* The semaphore, connWG and the counter of the API say how many           *)
(* connections hold a slot, are waited for and are served: none is lost or *)
(* given back twice, however a handler ends (acceptConn, handleConn), and  *)
(* there are never more than maxConns.                                     *)
SlotAccounting ==
    /\ sem = Cardinality(WithSlot) /\ sem <= maxConns
    /\ connWG = Cardinality(At({"started", "session", "closing"}))
    /\ active = Cardinality(At({"session", "closing"}))

(* When Run has returned no goroutine of it runs and no connection waits:  *)
(* main may go on to drain the channel of the credentials (Run).           *)
NothingAfterRun ==
    run = "done" => /\ \A c \in Conns : conn[c].at = "away"
                    /\ \A p \in Ports : loop[p] = "gone"

(* A connection records no more than its protocol allows: credsPerConnLimit *)
(* where the handler goes on after a record, loginRoundsMax at telnet, one  *)
(* elsewhere.                                                               *)
RecordsBounded ==
    \A c \in Conns :
        conn[c].logged <= CASE conn[c].session.proto \in Counting -> CredsLimit
                            [] conn[c].session.proto = "telnet" -> LoginRounds
                            [] OTHER -> 1

(* Types, counters and records together: no message and no end of a handler *)
(* disturbs one of them.                                                   *)
HoneypotInv == TypeOK /\ SlotAccounting /\ RecordsBounded

(* When the context ends Run returns, however long clients stay silent.    *)
RunReturns == ctx ~> run = "done"

(* A handler whose client has sent a complete login, valid as text, does   *)
(* not end without a record of it.  docs/技术方案.md:452 says so of every   *)
(* PasswordMessage, and protos_plain_test.go:260 that the length of a      *)
(* message counts its own four bytes.                                      *)
LoginRecorded == \A c \in Conns :
    conn[c].at = "closing" /\ conn[c].gave => conn[c].logged > 0
=============================================================================
