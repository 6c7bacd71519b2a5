-------------------------------- MODULE Conn --------------------------------
(***************************************************************************)
(* The connection channel (internal/conn): the subscription of the kernel's *)
(* conntrack events with its restarts (runConntrackLoop, runConntrackOnce), *)
(* the checks on it, and, when it cannot be started, the differences of     *)
(* snapshots of ss (runFallbackConnListener).                               *)
(*                                                                         *)
(* The library and the kernel are external: a socket has the groups it has *)
(* joined, a receive buffer, and a count of the events dropped for it; an  *)
(* overflow ends the library's receive loop.                               *)
(***************************************************************************)
EXTENDS Naturals, FiniteSets

CONSTANTS
    Groups,     \* NEW, UPDATE, DESTROY; "new" and "destroy" move the table
    BufStart,   \* buffer_size_kb, in events
    BufMax,     \* netlinkBufferMax (8 MB), in events
    StartFails, \* maxConntrackStartFails
    SinkCap,    \* capacity of Channels.Conn
    Keys,       \* five-tuples in the output of ss
    States,     \* states of a connection in that output
    Gone,       \* a five-tuple that is not in it
    MaxEvents,  \* bounds the events of the kernel
    MaxSnaps    \* [modes -> Nat]: bounds the snapshots

Modes == {"auto", "fallback"}

ASSUME ConnAssumption ==
    /\ {BufStart, BufMax, StartFails, SinkCap} \subseteq Nat \ {0} /\ BufStart <= BufMax
    /\ MaxEvents \in Nat /\ MaxSnaps \in [Modes -> Nat] /\ Gone \notin States

VARIABLES
    mode,          \* conntrack.mode
    ctx, denied,   \* context ended; the kernel refuses every subscription (no NET_ADMIN)
    loop,          \* where runConnChannel is
    fails, buf,    \* locals of runConntrackLoop; its backoff is a time and left out
    sock,          \* the socket of runConntrackOnce
    leaked,        \* groups of the sockets a failed Register has left open
    hook,          \* the library's receive goroutine
    late,          \* hooks of runs that are over that still hold an event
    sink,          \* events in Channels.Conn
    moved, lastCnt, warned, \* freshness: evts has advanced since it was loaded; the last
                   \* count; the verdict
    table,         \* entries of the conntrack table
    first, lastDrops, counter, \* overrun: locals, and overrunTotal of main
    emitted, dropped, \* events of the kernel; those the sockets could not hold
    starts,        \* starts that failed since the last that succeeded
    prev, cur, todo, snaps, \* snapshots, and the events to send
    view           \* the five-tuples that a reader of the events knows of

envVars == <<mode, ctx, denied>>
loopVars == <<loop, fails, buf, starts>>
freshVars == <<moved, lastCnt, warned>>
overVars == <<first, lastDrops, counter>>
kernelVars == <<table, emitted, dropped>>
ssVars == <<prev, cur, todo, view, snaps>>
vars == <<envVars, loopVars, sock, leaked, hook, late, sink, freshVars, overVars, kernelVars,
          ssVars>>

NoSocket == [buf |-> 0, joined |-> {}, queue |-> 0, drops |-> 0]
NoSnapshot == [k \in Keys |-> Gone]

\* A count that cannot be read, -1
Unreadable == 2

\* Mode fallback goes to ss at once.
Init ==
    /\ mode \in Modes
    /\ ctx = FALSE /\ denied = FALSE
    /\ loop = (IF mode = "auto" THEN "starting" ELSE "fallback")
    /\ fails = 0 /\ buf = BufStart /\ starts = 0
    /\ sock = NoSocket /\ leaked = {} /\ hook = "none" /\ late = 0 /\ sink = 0
    /\ moved = FALSE /\ lastCnt = Unreadable /\ warned = FALSE
    /\ first = TRUE /\ lastDrops = 0 /\ counter = 0
    /\ table \in {0, 1} /\ emitted = 0 /\ dropped = 0
    /\ prev = NoSnapshot /\ cur = NoSnapshot /\ todo = {} /\ view = {} /\ snaps = 0

-----------------------------------------------------------------------------
(* Starting                                                                *)

\* Counted up to one more than the limit.
OneMoreStart == IF starts > StartFails THEN starts ELSE starts + 1

\* Mutant: a failed start is not told from a run that ended.
StartFailedForgiven == /\ ~ctx /\ fails' = 0 /\ starts' = OneMoreStart
                       /\ loop' = "backoff"
                       /\ UNCHANGED buf

\* The third failure in a row gives the channel up; the locals of the loop are gone.
\* (When the context has ended the loop stops instead: Stops.)
StartFailed ==
    /\ ~ctx /\ starts' = OneMoreStart
    /\ IF fails + 1 >= StartFails
       THEN loop' = "fallback" /\ fails' = 0 /\ buf' = BufStart
       ELSE loop' = "backoff" /\ fails' = fails + 1 /\ UNCHANGED buf

OpenFails ==
    /\ loop = "starting" /\ StartFailed
    /\ UNCHANGED <<envVars, sock, leaked, hook, late, sink, freshVars, overVars, kernelVars,
                   ssVars>>

\* The socket is not closed: Close would wait for ever.  It stays in what it has joined.
RegisterFails(joined) ==
    /\ loop = "starting" /\ joined # Groups /\ (denied => joined = {})
    /\ leaked' = leaked \cup joined
    /\ StartFailed
    /\ UNCHANGED <<envVars, sock, hook, late, sink, freshVars, overVars, kernelVars, ssVars>>

\* The groups of all sockets of the process.
verifyGroups(joined) == Groups \subseteq joined \cup leaked

\* The hook has been called when a run returns that it does not wait for.
CalledEarly == /\ emitted < MaxEvents /\ emitted' = emitted + 1
               /\ table' \in {0, 1} /\ late' = late + 1

\* Register has returned nil; it may have joined less than it was asked to.
Registered(joined, readable) ==
    /\ loop = "starting" /\ ~denied
    /\ \/ /\ readable => verifyGroups(joined)
          /\ loop' = "listening" /\ starts' = 0
          /\ sock' = [NoSocket EXCEPT !.buf = buf, !.joined = joined]
          /\ hook' = "waiting"
          /\ moved' = FALSE /\ lastCnt' = Unreadable /\ warned' = FALSE
          /\ first' = TRUE /\ lastDrops' = 0
          /\ UNCHANGED <<fails, buf, late, table, emitted>>
       \/ /\ readable /\ ~verifyGroups(joined)
          /\ StartFailed
          /\ UNCHANGED <<late, table, emitted>> \/ (joined # {} /\ CalledEarly)
          /\ UNCHANGED <<sock, hook, freshVars, first, lastDrops>>
    /\ UNCHANGED <<envVars, leaked, sink, counter, dropped, ssVars>>

-----------------------------------------------------------------------------
(* The kernel and the hook                                                 *)

\* Between the steps of a check the socket is open as well.
Open == loop \in {"listening", "verdict", "baseline"}

\* A connection begins, changes or ends while a socket listens.  A leaked socket has
\* no reader: when its buffer is full it drops the event too (spill), and the Drops
\* of all sockets of the process are added up.
KernelEvent(g, spill) ==
    LET held == g \notin sock.joined \/ sock.queue < sock.buf
        d == (IF held THEN 0 ELSE 1) + (IF spill THEN 1 ELSE 0)
    IN  /\ Open /\ emitted < MaxEvents /\ emitted' = emitted + 1
        /\ spill => g \in leaked
        /\ g = "new" => table = 0
        /\ g = "destroy" => table = 1
        /\ table' = CASE g = "new" -> 1 [] g = "destroy" -> 0 [] OTHER -> table
        /\ sock' = [sock EXCEPT !.queue = IF g \in sock.joined /\ held THEN @ + 1 ELSE @,
                               !.drops = @ + d]
        /\ dropped' = dropped + d
        /\ UNCHANGED <<envVars, loopVars, leaked, hook, late, sink, freshVars, overVars, ssVars>>

\* evts is counted first; an event without addresses is skipped (connEventFromCon).
HookCalled(complete) ==
    /\ hook = "waiting" /\ sock.queue > 0
    /\ sock' = [sock EXCEPT !.queue = @ - 1]
    /\ moved' = TRUE
    /\ hook' = IF complete THEN "sending" ELSE "waiting"
    /\ UNCHANGED <<envVars, loopVars, leaked, late, sink, lastCnt, warned, overVars, kernelVars,
                   ssVars>>

HookSends ==
    /\ hook = "sending" /\ sink < SinkCap
    /\ sink' = sink + 1 /\ hook' = "waiting"
    /\ UNCHANGED <<envVars, loopVars, sock, leaked, late, freshVars, overVars, kernelVars, ssVars>>

HookStops ==
    /\ hook \in {"sending", "waiting"} /\ ctx
    /\ hook' = "none"
    /\ UNCHANGED <<envVars, loopVars, sock, leaked, late, sink, freshVars, overVars, kernelVars,
                   ssVars>>

\* The select of a hook whose run is over: nobody waits for it.
LateSends ==
    /\ late > 0 /\ sink < SinkCap
    /\ late' = late - 1 /\ sink' = sink + 1
    /\ UNCHANGED <<envVars, loopVars, sock, leaked, hook, freshVars, overVars, kernelVars, ssVars>>

\* Mutant: the hook does not watch the context.
LateStopsNever == late > 0 /\ ctx /\ UNCHANGED vars

LateStops ==
    /\ late > 0 /\ ctx
    /\ late' = late - 1
    /\ UNCHANGED <<envVars, loopVars, sock, leaked, hook, sink, freshVars, overVars, kernelVars,
                   ssVars>>

\* An overflow or another netlink error.
ReceiveFails ==
    /\ hook = "waiting"
    /\ hook' = "dead"
    /\ UNCHANGED <<envVars, loopVars, sock, leaked, late, sink, freshVars, overVars, kernelVars,
                   ssVars>>

Stored == /\ sink > 0 /\ sink' = sink - 1
          /\ UNCHANGED <<envVars, loopVars, sock, leaked, hook, late, freshVars,
                         overVars, kernelVars, ssVars>>

-----------------------------------------------------------------------------
(* The select of runConntrackOnce                                          *)

Doubled(n) == IF 2 * n > BufMax THEN BufMax ELSE 2 * n

\* The locals of a run; what is left in the socket is lost and not counted.  The hook is
\* not waited for: it may hold an event, or be called with one it is about to be given.
RunOver == /\ sock' = NoSocket /\ hook' = "none"
           /\ late' \in {late + n : n \in CASE hook = "sending" -> {1}
                                              [] hook = "waiting" /\ sock.queue > 0 -> {0, 1}
                                              [] OTHER -> {0}}
           /\ moved' = FALSE /\ lastCnt' = Unreadable /\ warned' = FALSE
           /\ first' = TRUE /\ lastDrops' = 0

\* A run that ends: the next one gets twice the buffer this one was started with.
DeadSeen ==
    /\ loop = "listening" /\ hook = "dead" /\ ~ctx
    /\ loop' = "backoff" /\ fails' = 0 /\ buf' = Doubled(buf)
    /\ RunOver
    /\ UNCHANGED <<envVars, starts, leaked, sink, counter, kernelVars, ssVars>>

\* staleVerdict: the table is not what it was.
tableActive(cnt) == Unreadable \notin {lastCnt, cnt} /\ lastCnt # cnt

\* Mutant: the entries of the table alone decide.
loadEvtsAlways ==
    /\ loop = "listening" /\ loop' = "verdict" /\ moved' = FALSE
    /\ UNCHANGED <<envVars, fails, buf, starts, sock, leaked, hook, late, sink, lastCnt,
                   warned, overVars, kernelVars, ssVars>>

\* evts is loaded: the next check compares with what is loaded now.
loadEvts ==
    /\ loop = "listening"
    /\ loop' = (IF moved THEN "baseline" ELSE "verdict") /\ moved' = FALSE
    /\ UNCHANGED <<envVars, fails, buf, starts, sock, leaked, hook, late, sink, lastCnt,
                   warned, overVars, kernelVars, ssVars>>

\* The count is read for the verdict ...
staleVerdict(cnt) ==
    /\ loop = "verdict" /\ loop' = "baseline"
    /\ warned' = tableActive(cnt)
    /\ UNCHANGED <<envVars, fails, buf, starts, sock, leaked, hook, late, sink, moved,
                   lastCnt, overVars, kernelVars, ssVars>>

\* ... and again for the next check.
newBaseline(cnt) ==
    /\ loop = "baseline" /\ loop' = "listening"
    /\ lastCnt' = cnt /\ warned' = FALSE
    /\ UNCHANGED <<envVars, fails, buf, starts, sock, leaked, hook, late, sink, moved,
                   overVars, kernelVars, ssVars>>

\* The hook and the kernel go on between its reads; the select does not.
checkFreshness == \/ loadEvts
                  \/ \E cnt \in {table, Unreadable} : staleVerdict(cnt) \/ newBaseline(cnt)

\* Mutant: the baseline stays where it was.
checkOverrunBaseline ==
    /\ loop = "listening"
    /\ IF first THEN first' = FALSE /\ lastDrops' = sock.drops /\ UNCHANGED <<counter, sock>>
       ELSE /\ counter' = counter + sock.drops - lastDrops
            /\ UNCHANGED <<first, lastDrops, sock>>
    /\ UNCHANGED <<envVars, loopVars, leaked, hook, late, sink, freshVars, kernelVars, ssVars>>

\* The first tick takes the baseline.  The growth stays with this socket.
checkOverrun ==
    /\ loop = "listening"
    /\ first' = FALSE /\ lastDrops' = sock.drops
    /\ IF first \/ sock.drops = lastDrops THEN UNCHANGED <<counter, sock>>
       ELSE /\ counter' = counter + sock.drops - lastDrops
            /\ sock' = [sock EXCEPT !.buf = IF @ < BufMax THEN Doubled(@) ELSE @]
    /\ UNCHANGED <<envVars, loopVars, leaked, hook, late, sink, freshVars, kernelVars, ssVars>>

\* time.After(backoff).
BackoffEnds ==
    /\ loop = "backoff"
    /\ loop' = "starting"
    /\ UNCHANGED <<envVars, fails, buf, starts, sock, leaked, hook, late, sink, freshVars,
                   overVars, kernelVars, ssVars>>

-----------------------------------------------------------------------------
(* Fallback: every interval the difference of two snapshots                *)

Event(k, t) == [key |-> k, type |-> t]

\* Mutant: a connection that has ended is no event.
diffWithoutGone(p, c) ==
    {Event(k, IF p[k] = Gone THEN "new" ELSE "update") :
        k \in {j \in Keys : p[j] # c[j] /\ c[j] # Gone}}

\* NEW, UPDATE or DESTROY for each five-tuple that is not what it was.
diffSnapshots(p, c) ==
    {Event(k, CASE p[k] = Gone -> "new" [] c[k] = Gone -> "destroy" [] OTHER -> "update") :
        k \in {j \in Keys : p[j] # c[j]}}

\* ss that fails leaves everything as it is.
Snapshot(c) ==
    /\ loop = "fallback" /\ todo = {} /\ prev = cur
    /\ snaps < MaxSnaps[mode] /\ snaps' = snaps + 1
    /\ cur' = c /\ todo' = diffSnapshots(prev, c)
    /\ prev' = IF todo' = {} THEN c ELSE prev
    /\ UNCHANGED <<envVars, loopVars, sock, leaked, hook, late, sink, freshVars, overVars,
                   kernelVars, view>>

\* In the order of a Go map; the last one makes the snapshot the previous one.  An event
\* carries no state (approxEvent).
sendApprox(e) ==
    /\ loop = "fallback" /\ e \in todo /\ sink < SinkCap
    /\ sink' = sink + 1 /\ todo' = todo \ {e}
    /\ view' = CASE e.type = "new" -> view \cup {e.key}
                 [] e.type = "destroy" -> view \ {e.key}
                 [] OTHER -> view
    /\ prev' = IF todo = {e} THEN cur ELSE prev
    /\ UNCHANGED <<envVars, loopVars, sock, leaked, hook, late, freshVars, overVars, kernelVars,
                   cur, snaps>>

-----------------------------------------------------------------------------
Cancel == /\ ~ctx /\ ctx' = TRUE
          /\ UNCHANGED <<mode, denied, loopVars, sock, leaked, hook, late, sink, freshVars,
                         overVars, kernelVars, ssVars>>

Deny == /\ ~denied /\ denied' = TRUE
        /\ UNCHANGED <<mode, ctx, loopVars, sock, leaked, hook, late, sink, freshVars, overVars,
                       kernelVars, ssVars>>

\* Every select of the channel has a case for the context; the one of a run returns
\* whatever the hook does.
Stops == /\ ctx /\ loop \notin {"verdict", "baseline", "stopped"}
         /\ loop' = "stopped" /\ RunOver
         /\ UNCHANGED <<envVars, fails, buf, starts, leaked, sink, counter,
                        kernelVars, ssVars>>
-----------------------------------------------------------------------------
Start == \/ OpenFails
         \/ \E joined \in SUBSET Groups : RegisterFails(joined)
         \/ \E joined \in SUBSET Groups, readable \in BOOLEAN : Registered(joined, readable)

Kernel == \/ \E g \in Groups, spill \in BOOLEAN : KernelEvent(g, spill)
          \/ \E complete \in BOOLEAN : HookCalled(complete)
          \/ HookSends \/ HookStops \/ ReceiveFails \/ LateSends \/ LateStops

Listen == DeadSeen \/ checkOverrun \/ checkFreshness

Fallback == \/ \E c \in [Keys -> States \cup {Gone}] : Snapshot(c)
            \/ \E e \in todo : sendApprox(e)

Next == Start \/ Kernel \/ Listen \/ BackoffEnds \/ Fallback \/ Stored \/ Cancel \/ Deny \/ Stops

Spec == Init /\ [][Next]_vars

(* Goroutines run, timers fire; a select whose case for the context is      *)
(* ready again and again takes it.                                         *)
Fairness == /\ WF_vars(Start) /\ WF_vars(BackoffEnds)
            /\ WF_vars(loop # "listening" /\ checkFreshness)
            /\ WF_vars(LateStops) /\ SF_vars(Stops)

FairSpec == Spec /\ Fairness

-----------------------------------------------------------------------------
(* Properties                                                              *)

Snapshots == [Keys -> States \cup {Gone}]

TypeOK ==
    /\ mode \in Modes /\ ctx \in BOOLEAN /\ denied \in BOOLEAN
    /\ loop \in {"starting", "listening", "verdict", "baseline", "backoff", "fallback", "stopped"}
    /\ fails \in 0 .. StartFails - 1 /\ buf \in BufStart .. BufMax
    /\ sock \in [buf : 0 .. BufMax, joined : SUBSET Groups, queue : 0 .. BufMax, drops : Nat]
    /\ sock.queue <= sock.buf /\ leaked \subseteq Groups
    /\ hook \in {"none", "waiting", "sending", "dead"} /\ late \in Nat /\ sink \in 0 .. SinkCap
    /\ moved \in BOOLEAN /\ lastCnt \in {0, 1, Unreadable} /\ warned \in BOOLEAN
    /\ first \in BOOLEAN /\ lastDrops \in Nat /\ counter \in Nat
    /\ table \in {0, 1} /\ emitted \in 0 .. MaxEvents /\ dropped \in Nat
    /\ starts \in 0 .. StartFails + 1
    /\ prev \in Snapshots /\ cur \in Snapshots /\ view \subseteq Keys
    /\ todo \subseteq [key : Keys, type : {"new", "update", "destroy"}] /\ snaps \in Nat

(* The channel goes to ss after exactly StartFails starts in a row that    *)
(* failed; a run in between begins the count anew, a subscription that is  *)
(* not effective does not (connStartTracker.record, verifyGroups).         *)
GivesUpInTime ==
    /\ starts <= StartFails
    /\ mode = "auto" /\ loop = "fallback" => starts = StartFails
    /\ starts = StartFails => loop \in {"fallback", "stopped"}

(* The state of the loop and what it has tried.                            *)
ConnInv == TypeOK /\ GivesUpInTime

(* overrunTotal never says more than the sockets of the process have       *)
(* dropped, over any number of restarts (checkOverrun, netlinkDrops).      *)
CountedWereDropped == counter <= dropped /\ (first \/ lastDrops <= sock.drops)

(* A warning that the events have stopped while the table moves has a      *)
(* cause: an event waits in the socket, was dropped, or its group is not   *)
(* joined, or the hook has counted one since evts was loaded               *)
(* (checkFreshness, staleVerdict).                                         *)
WarningsHaveACause ==
    [][warned' /\ ~warned =>
           sock.queue > 0 \/ sock.drops > 0 \/ sock.joined # Groups \/ moved]_vars

(* The events of the fallback, replayed, give the five-tuples of the last  *)
(* snapshot of ss, through failures of ss and a send that stops in the     *)
(* middle: each NEW is for one a reader does not know of, each UPDATE and  *)
(* DESTROY for one it does (runFallbackConnListener, diffSnapshots).       *)
PresenceIsReplayed ==
    /\ view = {k \in Keys : (IF \E e \in todo : e.key = k THEN prev[k] ELSE cur[k]) # Gone}
    /\ \A e \in todo : e.type = "new" <=> e.key \notin view
    /\ todo = {} => prev = cur

(* Without NET_ADMIN the channel does not restart for ever.                *)
DegradesWhenDenied ==
    denied /\ loop \in {"starting", "backoff"} ~> loop \in {"fallback", "stopped"}

(* The context ends the channel and every hook it has left behind, also    *)
(* while the sink is full (the cases ctx.Done of every select).            *)
ChannelStops == ctx ~> loop = "stopped" /\ late = 0
=============================================================================
