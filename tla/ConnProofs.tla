----------------------------- MODULE ConnProofs -----------------------------
(***************************************************************************)
(* Theorems about the connection channel, for any groups, buffers, limits   *)
(* and snapshots: when it gives up, what its counter and its warning say,   *)
(* and what the events of the fallback amount to.                           *)
(***************************************************************************)
EXTENDS Conn, TLAPS

-----------------------------------------------------------------------------
(* The invariant                                                           *)

(* fails is what the history says: the starts that have failed in a row.    *)
LoopInv ==
    /\ loop \in {"starting", "backoff"} => starts = fails
    /\ Open => starts = 0

(* What the next tick adds to the counter has been dropped and not counted. *)
DropsInv == CountedWereDropped
            /\ (~first => counter + (sock.drops - lastDrops) <= dropped)

(* A table that is not what it was at the last check while no event has     *)
(* been seen: the event has not reached the hook.  Between the load of evts *)
(* and the new count, when no verdict is to come, nothing is said.          *)
WarnInv == /\ lastCnt # Unreadable => Open
           /\ loop # "baseline" /\ ~moved /\ lastCnt # Unreadable /\ lastCnt # table =>
                  sock.queue > 0 \/ sock.drops > 0 \/ sock.joined # Groups

(* The types, by the groups of variables that steps leave alone together.   *)
Socket == [buf : 0 .. BufMax, joined : SUBSET Groups, queue : 0 .. BufMax, drops : Nat]

EnvTypes == mode \in Modes /\ ctx \in BOOLEAN /\ denied \in BOOLEAN
LoopTypes == /\ loop \in {"starting", "listening", "verdict", "baseline", "backoff",
                           "fallback", "stopped"}
             /\ fails \in 0 .. StartFails - 1 /\ buf \in BufStart .. BufMax
             /\ starts \in 0 .. StartFails + 1
SockTypes == sock \in Socket /\ sock.queue <= sock.buf
LeakTypes == leaked \subseteq Groups
HookTypes == hook \in {"none", "waiting", "sending", "dead"}
LateTypes == late \in Nat
SinkTypes == sink \in 0 .. SinkCap
FreshTypes == moved \in BOOLEAN /\ lastCnt \in {0, 1, Unreadable} /\ warned \in BOOLEAN
OverTypes == first \in BOOLEAN /\ lastDrops \in Nat /\ counter \in Nat
KernelTypes == table \in {0, 1} /\ emitted \in 0 .. MaxEvents /\ dropped \in Nat
SsTypes == /\ prev \in Snapshots /\ cur \in Snapshots /\ view \subseteq Keys
           /\ todo \subseteq [key : Keys, type : {"new", "update", "destroy"}]
           /\ snaps \in Nat

TypeParts == /\ EnvTypes /\ LoopTypes /\ SockTypes /\ LeakTypes /\ HookTypes /\ LateTypes
             /\ SinkTypes /\ FreshTypes /\ OverTypes /\ KernelTypes /\ SsTypes

(* What is left to send is of the difference, one event for a five-tuple.   *)
DiffInv == /\ \A e \in todo : e.type = "destroy" <=> cur[e.key] = Gone
           /\ \A e, f \in todo : e.key = f.key => e = f

IInv == /\ TypeParts /\ GivesUpInTime /\ LoopInv /\ DropsInv /\ WarnInv
        /\ PresenceIsReplayed /\ DiffInv

-----------------------------------------------------------------------------
(* Sockets                                                                 *)

IsSocket(s) == s = [buf |-> s.buf, joined |-> s.joined, queue |-> s.queue, drops |-> s.drops]

(* The updates of a socket, field by field.                                 *)
LEMMA BeginSocket ==
    ASSUME NEW s, NEW t, NEW m, NEW n, IsSocket(s), t = [s EXCEPT !.buf = m, !.joined = n]
    PROVE  t = [buf |-> m, joined |-> n, queue |-> s.queue, drops |-> s.drops]
BY DEF IsSocket

LEMMA FillSocket ==
    ASSUME NEW s, NEW t, NEW m, NEW n, IsSocket(s), t = [s EXCEPT !.queue = m, !.drops = n]
    PROVE  t = [buf |-> s.buf, joined |-> s.joined, queue |-> m, drops |-> n]
BY DEF IsSocket

LEMMA ReadSocket ==
    ASSUME NEW s, NEW t, NEW m, IsSocket(s), t = [s EXCEPT !.queue = m]
    PROVE  t = [buf |-> s.buf, joined |-> s.joined, queue |-> m, drops |-> s.drops]
BY DEF IsSocket

LEMMA GrowSocket ==
    ASSUME NEW s, NEW t, NEW m, IsSocket(s), t = [s EXCEPT !.buf = m]
    PROVE  t = [buf |-> m, joined |-> s.joined, queue |-> s.queue, drops |-> s.drops]
BY DEF IsSocket

LEMMA Limits ==
    /\ BufStart \in 1 .. BufMax /\ BufMax \in Nat \ {0}
    /\ StartFails \in Nat \ {0} /\ SinkCap \in Nat \ {0} /\ MaxEvents \in Nat /\ MaxSnaps \in [Modes -> Nat]
BY ConnAssumption

LEMMA DoubledInRange ==
    ASSUME NEW n \in 0 .. BufMax
    PROVE  Doubled(n) \in n .. BufMax
BY ConnAssumption DEF Doubled

(* What a step leaves alone keeps its types and its part of the invariant.  *)
LEMMA Untouched ==
    ASSUME IInv
    PROVE  /\ UNCHANGED envVars => EnvTypes'
           /\ UNCHANGED loopVars => LoopTypes'
           /\ UNCHANGED sock => SockTypes'
           /\ UNCHANGED leaked => LeakTypes'
           /\ UNCHANGED hook => HookTypes'
           /\ UNCHANGED late => LateTypes'
           /\ UNCHANGED sink => SinkTypes'
           /\ UNCHANGED freshVars => FreshTypes'
           /\ UNCHANGED overVars => OverTypes'
           /\ UNCHANGED kernelVars => KernelTypes'
           /\ UNCHANGED ssVars => SsTypes' /\ PresenceIsReplayed' /\ DiffInv'
           /\ UNCHANGED <<envVars, loopVars>> => GivesUpInTime' /\ LoopInv'
           /\ UNCHANGED <<sock, overVars, kernelVars>> => DropsInv'
<1>1. UNCHANGED envVars => EnvTypes'
  BY DEF IInv, TypeParts, EnvTypes, envVars
<1>2. UNCHANGED loopVars => LoopTypes'
  BY DEF IInv, TypeParts, LoopTypes, loopVars
<1>3. /\ UNCHANGED sock => SockTypes'
      /\ UNCHANGED leaked => LeakTypes'
      /\ UNCHANGED hook => HookTypes'
      /\ UNCHANGED late => LateTypes'
      /\ UNCHANGED sink => SinkTypes'
  BY DEF IInv, TypeParts, SockTypes, LeakTypes, HookTypes, LateTypes, SinkTypes
<1>4. UNCHANGED freshVars => FreshTypes'
  BY DEF IInv, TypeParts, FreshTypes, freshVars
<1>5. UNCHANGED overVars => OverTypes'
  BY DEF IInv, TypeParts, OverTypes, overVars
<1>6. UNCHANGED kernelVars => KernelTypes'
  BY DEF IInv, TypeParts, KernelTypes, kernelVars
<1>7. UNCHANGED ssVars => SsTypes' /\ PresenceIsReplayed' /\ DiffInv'
  BY DEF IInv, TypeParts, SsTypes, Snapshots, ssVars, PresenceIsReplayed, DiffInv
<1>8. UNCHANGED <<envVars, loopVars>> => GivesUpInTime' /\ LoopInv'
  BY DEF IInv, GivesUpInTime, LoopInv, Open, envVars, loopVars
<1>9. UNCHANGED <<sock, overVars, kernelVars>> => DropsInv'
  BY DEF IInv, DropsInv, CountedWereDropped, overVars, kernelVars
<1> QED BY <1>1, <1>2, <1>3, <1>4, <1>5, <1>6, <1>7, <1>8, <1>9

-----------------------------------------------------------------------------
LEMMA InvInit == Init => IInv
<1> SUFFICES ASSUME Init PROVE IInv
  OBVIOUS
<1>1. SockTypes
  BY Limits DEF Init, NoSocket, Socket, SockTypes
<1>2. SsTypes
  BY Limits DEF Init, NoSnapshot, Snapshots, SsTypes
<1>3. LoopTypes /\ SinkTypes
  BY Limits DEF Init, LoopTypes, SinkTypes
<1>4. EnvTypes /\ LeakTypes /\ HookTypes /\ LateTypes /\ FreshTypes /\ OverTypes /\ KernelTypes
  <2>1. EnvTypes /\ LeakTypes /\ HookTypes /\ LateTypes
    BY DEF Init, EnvTypes, LeakTypes, HookTypes, LateTypes
  <2>2. FreshTypes
    BY DEF Init, FreshTypes
  <2>3. OverTypes /\ KernelTypes
    BY Limits DEF Init, OverTypes, KernelTypes
  <2> QED BY <2>1, <2>2, <2>3
<1>5. GivesUpInTime /\ LoopInv
  BY Limits DEF Init, GivesUpInTime, LoopInv, Open
<1>6. DropsInv /\ WarnInv
  BY DEF Init, DropsInv, CountedWereDropped, WarnInv, NoSocket
<1>7. PresenceIsReplayed /\ DiffInv
  BY DEF Init, PresenceIsReplayed, NoSnapshot, DiffInv
<1> QED BY <1>1, <1>2, <1>3, <1>4, <1>5, <1>6, <1>7 DEF IInv, TypeParts

-----------------------------------------------------------------------------
(* Starting                                                                *)

(* A start that fails.                                                      *)
LEMMA StartFailedCounts ==
    ASSUME IInv, loop = "starting", StartFailed, UNCHANGED mode
    PROVE  GivesUpInTime' /\ LoopInv' /\ LoopTypes' /\ ~Open'
<1>1. /\ starts = fails /\ fails \in 0 .. StartFails - 1 /\ StartFails \in Nat \ {0}
      /\ buf \in BufStart .. BufMax
  BY Limits DEF IInv, TypeParts, LoopInv, LoopTypes
<1>2. starts' = fails + 1
  BY <1>1 DEF StartFailed, OneMoreStart
<1>3. CASE fails + 1 >= StartFails
  <2>1. loop' = "fallback" /\ fails' = 0 /\ buf' = BufStart
    BY <1>3 DEF StartFailed
  <2>2. starts' = StartFails
    BY <1>1, <1>2, <1>3
  <2> QED BY <1>1, <2>1, <2>2, Limits DEF GivesUpInTime, LoopInv, LoopTypes, Open
<1>4. CASE ~(fails + 1 >= StartFails)
  <2>1. loop' = "backoff" /\ fails' = fails + 1 /\ UNCHANGED buf
    BY <1>4 DEF StartFailed
  <2> QED BY <1>1, <1>2, <1>4, <2>1 DEF GivesUpInTime, LoopInv, LoopTypes, Open
<1> QED BY <1>3, <1>4

LEMMA StartKeepsInv == IInv /\ Start => IInv'
<1> SUFFICES ASSUME IInv, Start PROVE IInv'
  OBVIOUS
<1>1. ASSUME NEW joined \in SUBSET Groups, loop = "starting", StartFailed,
             leaked' = leaked \cup joined \/ UNCHANGED leaked,
             CalledEarly \/ UNCHANGED <<late, table, emitted>>,
             UNCHANGED <<envVars, sock, hook, sink, freshVars, overVars, dropped, ssVars>>
      PROVE  IInv'
  <2>1. UNCHANGED mode
    BY <1>1 DEF envVars
  <2>2. GivesUpInTime' /\ LoopInv' /\ LoopTypes' /\ ~Open'
    BY <1>1, <2>1, StartFailedCounts
  <2>3. LeakTypes' /\ LateTypes' /\ KernelTypes'
    BY <1>1, Limits DEF IInv, TypeParts, LeakTypes, LateTypes, KernelTypes, CalledEarly
  <2>4. WarnInv'
    BY <1>1, <2>2 DEF IInv, WarnInv, Open, freshVars
  <2>5. DropsInv'
    BY <1>1 DEF IInv, DropsInv, CountedWereDropped, overVars
  <2> QED BY <1>1, <2>2, <2>3, <2>4, <2>5, Untouched DEF IInv, TypeParts
<1>2. CASE OpenFails
  <2>1. {} \in SUBSET Groups
    OBVIOUS
  <2> QED BY <1>1, <1>2, <2>1 DEF OpenFails, kernelVars
<1>3. ASSUME NEW joined \in SUBSET Groups, RegisterFails(joined) PROVE IInv'
  BY <1>1, <1>3 DEF RegisterFails, kernelVars
<1>4. ASSUME NEW joined \in SUBSET Groups, NEW readable \in BOOLEAN, Registered(joined, readable)
      PROVE  IInv'
  <2>0. /\ loop = "starting"
        /\ UNCHANGED <<envVars, leaked, sink, counter, dropped, ssVars>>
    BY <1>4 DEF Registered
  <2>1. CASE /\ StartFailed /\ (CalledEarly \/ UNCHANGED <<late, table, emitted>>)
             /\ UNCHANGED <<sock, hook, freshVars, first, lastDrops>>
    BY <1>1, <2>0, <2>1 DEF overVars
  <2>2. CASE /\ loop' = "listening" /\ starts' = 0
             /\ sock' = [NoSocket EXCEPT !.buf = buf, !.joined = joined]
             /\ hook' = "waiting"
             /\ moved' = FALSE /\ lastCnt' = Unreadable /\ warned' = FALSE
             /\ first' = TRUE /\ lastDrops' = 0
             /\ UNCHANGED <<fails, buf, late, table, emitted>>
    <3>1. PICK s : s = sock'
      OBVIOUS
    <3>2. s = [buf |-> buf, joined |-> joined, queue |-> 0, drops |-> 0]
      <4>1. IsSocket(NoSocket) /\ NoSocket.queue = 0 /\ NoSocket.drops = 0
        BY DEF NoSocket, IsSocket
      <4>2. s = [NoSocket EXCEPT !.buf = buf, !.joined = joined]
        BY <2>2, <3>1, Zenon
      <4>3. s = [buf |-> buf, joined |-> joined, queue |-> NoSocket.queue,
                 drops |-> NoSocket.drops]
        BY <4>1, <4>2, BeginSocket, Zenon
      <4> QED BY <4>1, <4>3
    <3>3. SockTypes' /\ LoopTypes' /\ HookTypes' /\ FreshTypes'
      <4>1. SockTypes'
        BY <3>1, <3>2, Limits DEF IInv, TypeParts, LoopTypes, SockTypes, Socket
      <4>2. LoopTypes' /\ HookTypes' /\ FreshTypes'
        <5>1. LoopTypes'
          BY <2>2, Limits DEF IInv, TypeParts, LoopTypes
        <5>2. HookTypes'
          BY <2>2 DEF HookTypes
        <5>3. FreshTypes'
          BY <2>2 DEF FreshTypes
        <5> QED BY <5>1, <5>2, <5>3
      <4> QED BY <4>1, <4>2
    <3>4. GivesUpInTime' /\ LoopInv'
      BY <2>2, Limits DEF GivesUpInTime, LoopInv, Open
    <3>5. OverTypes' /\ DropsInv'
      BY <2>0, <2>2 DEF IInv, TypeParts, OverTypes, DropsInv, CountedWereDropped
    <3>6. WarnInv'
      BY <2>2 DEF WarnInv
    <3>7. UNCHANGED <<late, kernelVars>>
      BY <2>0, <2>2 DEF kernelVars
    <3> QED BY <2>0, <3>3, <3>4, <3>5, <3>6, <3>7, Untouched DEF IInv, TypeParts
  <2> QED BY <1>4, <2>1, <2>2 DEF Registered
<1> QED BY <1>2, <1>3, <1>4 DEF Start

-----------------------------------------------------------------------------
(* The kernel and the hook                                                 *)

LEMMA KernelEventKeepsInv ==
    ASSUME IInv, NEW g \in Groups, NEW spill \in BOOLEAN, KernelEvent(g, spill)
    PROVE  IInv'
<1> DEFINE held == g \notin sock.joined \/ sock.queue < sock.buf
           d == (IF held THEN 0 ELSE 1) + (IF spill THEN 1 ELSE 0)
           q == IF g \in sock.joined /\ held THEN sock.queue + 1 ELSE sock.queue
<1>1. /\ emitted < MaxEvents /\ emitted' = emitted + 1
      /\ dropped' = dropped + d
      /\ table' = CASE g = "new" -> 1 [] g = "destroy" -> 0 [] OTHER -> table
      /\ UNCHANGED <<envVars, loopVars, leaked, hook, late, sink, freshVars, overVars, ssVars>>
  BY DEF KernelEvent
<1>2. PICK s : s = sock'
  OBVIOUS
<1>3. s = [sock EXCEPT !.queue = q, !.drops = sock.drops + d]
  BY <1>2 DEF KernelEvent
<1>4. sock \in Socket /\ sock.queue <= sock.buf
  BY DEF IInv, TypeParts, SockTypes
<1>5. d \in Nat /\ (d = 0 => held)
  OBVIOUS
<1>6. /\ q \in 0 .. BufMax /\ q <= sock.buf
      /\ held /\ g \in sock.joined => q > 0
  BY <1>4, Limits DEF Socket
<1> HIDE DEF d, q, held
<1>7. s = [buf |-> sock.buf, joined |-> sock.joined, queue |-> q, drops |-> sock.drops + d]
  <2>1. IsSocket(sock)
    BY <1>4 DEF Socket, IsSocket
  <2> QED BY <1>3, <2>1, FillSocket, Zenon
<1>8. SockTypes'
  BY <1>2, <1>4, <1>5, <1>6, <1>7 DEF Socket, SockTypes
<1>9. KernelTypes'
  <2>1. table' \in {0, 1}
    BY <1>1 DEF IInv, TypeParts, KernelTypes
  <2> QED BY <1>1, <1>5, <2>1, Limits DEF IInv, TypeParts, KernelTypes
<1>10. DropsInv'
  BY <1>1, <1>2, <1>4, <1>5, <1>7
     DEF IInv, TypeParts, OverTypes, KernelTypes, DropsInv, CountedWereDropped, overVars, Socket
\* The event waits in the socket, was dropped, or its group is not joined.
<1>11. s.queue > 0 \/ s.drops > 0 \/ s.joined # Groups
  BY <1>4, <1>5, <1>6, <1>7 DEF Socket
<1>12. WarnInv'
  BY <1>1, <1>2, <1>11 DEF IInv, WarnInv, Open, freshVars, loopVars
<1> QED BY <1>1, <1>8, <1>9, <1>10, <1>12, Untouched DEF IInv, TypeParts

LEMMA HookKeepsInv ==
    ASSUME IInv,
           \/ \E complete \in BOOLEAN : HookCalled(complete)
           \/ HookSends \/ HookStops \/ ReceiveFails \/ LateSends \/ LateStops
    PROVE  IInv'
<1>1. ASSUME NEW complete \in BOOLEAN, HookCalled(complete) PROVE IInv'
  <2>1. /\ sock.queue > 0 /\ moved' = TRUE
        /\ hook' = IF complete THEN "sending" ELSE "waiting"
        /\ UNCHANGED <<envVars, loopVars, leaked, late, sink, lastCnt, warned, overVars,
                       kernelVars, ssVars>>
    BY <1>1 DEF HookCalled
  <2>2. PICK s : s = sock'
    OBVIOUS
  <2>3. s = [sock EXCEPT !.queue = sock.queue - 1]
    BY <1>1, <2>2 DEF HookCalled
  <2>4. sock \in Socket /\ sock.queue <= sock.buf
    BY DEF IInv, TypeParts, SockTypes
  <2>5. s = [buf |-> sock.buf, joined |-> sock.joined, queue |-> sock.queue - 1,
             drops |-> sock.drops]
    <3>1. IsSocket(sock)
      BY <2>4 DEF Socket, IsSocket
    <3> QED BY <2>3, <3>1, ReadSocket, Zenon
  <2>6. SockTypes'
    BY <2>1, <2>2, <2>4, <2>5, Limits DEF Socket, SockTypes
  <2>7. HookTypes' /\ FreshTypes'
    <3>1. HookTypes'
      BY <2>1 DEF HookTypes
    <3>2. FreshTypes'
      BY <2>1 DEF IInv, TypeParts, FreshTypes
    <3> QED BY <3>1, <3>2
  <2>8. DropsInv'
    BY <2>1, <2>2, <2>5 DEF IInv, DropsInv, CountedWereDropped, overVars, kernelVars
  <2>9. WarnInv'
    BY <2>1 DEF IInv, WarnInv, Open, loopVars
  <2> QED BY <2>1, <2>6, <2>7, <2>8, <2>9, Untouched DEF IInv, TypeParts
<1>2. ASSUME HookTypes', LateTypes', SinkTypes',
             UNCHANGED <<envVars, loopVars, sock, leaked, freshVars, overVars, kernelVars, ssVars>>
      PROVE  IInv'
  <2>1. WarnInv'
    BY <1>2 DEF IInv, WarnInv, Open, loopVars, freshVars, kernelVars
  <2> QED BY <1>2, <2>1, Untouched DEF IInv, TypeParts
<1>3. CASE HookSends
  <2>1. HookTypes' /\ LateTypes' /\ SinkTypes'
    BY <1>3, Limits DEF HookSends, IInv, TypeParts, HookTypes, LateTypes, SinkTypes
  <2> QED BY <1>2, <1>3, <2>1 DEF HookSends
<1>4. CASE HookStops
  <2>1. HookTypes' /\ LateTypes' /\ SinkTypes'
    BY <1>4 DEF HookStops, IInv, TypeParts, HookTypes, LateTypes, SinkTypes
  <2> QED BY <1>2, <1>4, <2>1 DEF HookStops
<1>5. CASE ReceiveFails
  <2>1. HookTypes' /\ LateTypes' /\ SinkTypes'
    BY <1>5 DEF ReceiveFails, IInv, TypeParts, HookTypes, LateTypes, SinkTypes
  <2> QED BY <1>2, <1>5, <2>1 DEF ReceiveFails
<1>6. CASE LateSends
  <2>1. HookTypes' /\ LateTypes' /\ SinkTypes'
    BY <1>6, Limits DEF LateSends, IInv, TypeParts, HookTypes, LateTypes, SinkTypes
  <2> QED BY <1>2, <1>6, <2>1 DEF LateSends
<1>7. CASE LateStops
  <2>1. HookTypes' /\ LateTypes' /\ SinkTypes'
    BY <1>7 DEF LateStops, IInv, TypeParts, HookTypes, LateTypes, SinkTypes
  <2> QED BY <1>2, <1>7, <2>1 DEF LateStops
<1> QED BY <1>1, <1>3, <1>4, <1>5, <1>6, <1>7

-----------------------------------------------------------------------------
(* The select of runConntrackOnce, the timer and the end                   *)

(* The locals of a run that is over.                                        *)
LEMMA RunOverKeepsInv ==
    ASSUME IInv, RunOver, UNCHANGED <<counter, kernelVars>>
    PROVE  /\ SockTypes' /\ HookTypes' /\ LateTypes' /\ FreshTypes' /\ OverTypes'
           /\ DropsInv' /\ WarnInv'
<1>1. SockTypes'
  BY Limits DEF RunOver, NoSocket, Socket, SockTypes
<1>2. HookTypes'
  BY DEF RunOver, HookTypes
<1>3. FreshTypes'
  BY DEF RunOver, FreshTypes
<1>4. OverTypes' /\ DropsInv'
  BY DEF RunOver, IInv, TypeParts, OverTypes, DropsInv, CountedWereDropped, kernelVars
<1>5. WarnInv'
  BY DEF RunOver, WarnInv
<1>6. LateTypes'
  BY DEF RunOver, IInv, TypeParts, LateTypes
<1> QED BY <1>1, <1>2, <1>3, <1>4, <1>5, <1>6

(* A step from one line of a check to the next.                             *)
LEMMA CheckGoesOn ==
    ASSUME IInv, Open, loop' \in {"listening", "verdict", "baseline"},
           UNCHANGED <<mode, fails, buf, starts>>
    PROVE  Open' /\ LoopTypes' /\ GivesUpInTime' /\ LoopInv'
<1>1. Open' /\ LoopTypes'
  BY DEF IInv, TypeParts, LoopTypes, Open
<1>2. starts' = 0 /\ StartFails # 0
  BY Limits DEF IInv, LoopInv
<1>3. GivesUpInTime'
  BY <1>2, Limits DEF GivesUpInTime
<1>4. LoopInv'
  BY <1>1, <1>2 DEF LoopInv, Open
<1> QED BY <1>1, <1>3, <1>4

LEMMA CheckFreshnessKeepsInv == IInv /\ checkFreshness => IInv'
<1> SUFFICES ASSUME IInv, checkFreshness PROVE IInv'
  OBVIOUS
<1>1. /\ UNCHANGED <<envVars, fails, buf, starts, sock, leaked, hook, late, sink>>
      /\ UNCHANGED <<overVars, kernelVars, ssVars>>
  BY DEF checkFreshness, loadEvts, staleVerdict, newBaseline
<1>2. Open /\ loop' \in {"listening", "verdict", "baseline"}
  BY DEF checkFreshness, loadEvts, staleVerdict, newBaseline, Open
<1>3. Open' /\ LoopTypes' /\ GivesUpInTime' /\ LoopInv'
  BY <1>1, <1>2, CheckGoesOn DEF envVars
<1>4. FreshTypes' /\ WarnInv'
  <2>1. CASE loadEvts
    BY <1>1, <1>3, <2>1 DEF loadEvts, IInv, TypeParts, FreshTypes, WarnInv, kernelVars
  <2>2. ASSUME NEW cnt \in {table, Unreadable}, staleVerdict(cnt)
        PROVE  FreshTypes' /\ WarnInv'
    <3>1. tableActive(cnt) \in BOOLEAN
      BY DEF tableActive
    <3> QED BY <1>1, <1>3, <2>2, <3>1 DEF staleVerdict, IInv, TypeParts, FreshTypes, WarnInv
  <2>3. ASSUME NEW cnt \in {table, Unreadable}, newBaseline(cnt)
        PROVE  FreshTypes' /\ WarnInv'
    <3>1. cnt \in {0, 1, Unreadable}
      BY DEF IInv, TypeParts, KernelTypes
    <3> QED BY <1>1, <1>3, <2>3, <3>1
            DEF newBaseline, IInv, TypeParts, FreshTypes, WarnInv, kernelVars
  <2> QED BY <2>1, <2>2, <2>3 DEF checkFreshness
<1> QED BY <1>1, <1>3, <1>4, Untouched DEF IInv, TypeParts

LEMMA CheckOverrunKeepsInv == IInv /\ checkOverrun => IInv'
<1> SUFFICES ASSUME IInv, checkOverrun PROVE IInv'
  OBVIOUS
<1>1. /\ loop = "listening" /\ first' = FALSE /\ lastDrops' = sock.drops
      /\ UNCHANGED <<envVars, loopVars, leaked, hook, late, sink, freshVars, kernelVars, ssVars>>
  BY DEF checkOverrun
<1>2. /\ sock \in Socket /\ sock.queue <= sock.buf /\ DropsInv
      /\ lastDrops \in Nat /\ counter \in Nat /\ dropped \in Nat
  BY DEF IInv, TypeParts, SockTypes, OverTypes, KernelTypes
<1>3. CASE UNCHANGED <<counter, sock>> /\ (first \/ sock.drops = lastDrops)
  <2>1. OverTypes'
    BY <1>1, <1>2, <1>3 DEF OverTypes, Socket
  <2>2. DropsInv'
    BY <1>1, <1>2, <1>3 DEF DropsInv, CountedWereDropped, kernelVars, Socket
  <2>3. WarnInv'
    BY <1>1, <1>3 DEF IInv, WarnInv, Open, loopVars, freshVars, kernelVars
  <2> QED BY <1>1, <1>3, <2>1, <2>2, <2>3, Untouched DEF IInv, TypeParts
<1>4. CASE /\ ~first
           /\ counter' = counter + sock.drops - lastDrops
           /\ sock' = [sock EXCEPT !.buf = IF @ < BufMax THEN Doubled(@) ELSE @]
  <2> DEFINE b == IF sock.buf < BufMax THEN Doubled(sock.buf) ELSE sock.buf
  <2>1. b \in sock.buf .. BufMax
    BY <1>2, DoubledInRange, Limits DEF Socket
  <2>2. PICK s : s = sock'
    OBVIOUS
  <2>3. s = [sock EXCEPT !.buf = b]
    BY <1>4, <2>2
  <2> HIDE DEF b
  <2>4. s = [buf |-> b, joined |-> sock.joined, queue |-> sock.queue, drops |-> sock.drops]
    <3>1. IsSocket(sock)
      BY <1>2 DEF Socket, IsSocket
    <3> QED BY <2>3, <3>1, GrowSocket, Zenon
  <2>5. SockTypes'
    BY <1>2, <2>1, <2>2, <2>4, Limits DEF Socket, SockTypes
  <2>6. lastDrops <= sock.drops /\ counter + (sock.drops - lastDrops) <= dropped
    BY <1>2, <1>4 DEF DropsInv, CountedWereDropped
  <2>7. OverTypes'
    <3>1. first' \in BOOLEAN
      BY <1>1
    <3>2. sock.drops \in Nat
      BY <1>2 DEF Socket
    <3>3. counter' \in Nat /\ lastDrops' \in Nat
      BY <1>1, <1>2, <1>4, <2>6, <3>2
    <3> QED BY <3>1, <3>3 DEF OverTypes
  <2>8. DropsInv'
    BY <1>1, <1>2, <1>4, <2>2, <2>4, <2>6
       DEF DropsInv, CountedWereDropped, kernelVars, Socket
  <2>9. WarnInv'
    BY <1>1, <2>2, <2>4 DEF IInv, WarnInv, Open, loopVars, freshVars, kernelVars
  <2> QED BY <1>1, <2>5, <2>7, <2>8, <2>9, Untouched DEF IInv, TypeParts
<1> QED BY <1>3, <1>4 DEF checkOverrun

LEMMA DeadSeenKeepsInv == IInv /\ DeadSeen => IInv'
<1> SUFFICES ASSUME IInv, DeadSeen PROVE IInv'
  OBVIOUS
<1>1. /\ loop = "listening" /\ loop' = "backoff" /\ fails' = 0 /\ buf' = Doubled(buf) /\ RunOver
      /\ UNCHANGED <<envVars, starts, leaked, sink, counter, kernelVars, ssVars>>
  BY DEF DeadSeen
<1>2. LoopTypes'
  <2>1. buf \in BufStart .. BufMax /\ buf \in 0 .. BufMax
    BY Limits DEF IInv, TypeParts, LoopTypes
  <2>2. buf' \in BufStart .. BufMax
    BY <1>1, <2>1, DoubledInRange, Limits
  <2> QED BY <1>1, <2>2, Limits DEF IInv, TypeParts, LoopTypes
<1>3. GivesUpInTime' /\ LoopInv'
  BY <1>1, Limits DEF IInv, LoopInv, GivesUpInTime, Open
<1> QED BY <1>1, <1>2, <1>3, RunOverKeepsInv, Untouched DEF IInv, TypeParts

LEMMA StopsKeepsInv == IInv /\ Stops => IInv'
<1> SUFFICES ASSUME IInv, Stops PROVE IInv'
  OBVIOUS
<1>1. /\ loop' = "stopped" /\ RunOver
      /\ UNCHANGED <<envVars, fails, buf, starts, leaked, sink, counter, kernelVars,
                     ssVars>>
  BY DEF Stops
<1>2. LoopTypes' /\ GivesUpInTime' /\ LoopInv'
  BY <1>1 DEF IInv, TypeParts, LoopTypes, GivesUpInTime, LoopInv, Open
<1> QED BY <1>1, <1>2, RunOverKeepsInv, Untouched DEF IInv, TypeParts

LEMMA BackoffEndsKeepsInv == IInv /\ BackoffEnds => IInv'
<1> SUFFICES ASSUME IInv, BackoffEnds PROVE IInv'
  OBVIOUS
<1>1. /\ loop = "backoff" /\ loop' = "starting"
      /\ UNCHANGED <<envVars, fails, buf, starts, sock, leaked, hook, late, sink, freshVars,
                     overVars, kernelVars, ssVars>>
  BY DEF BackoffEnds
<1>2. LoopTypes'
  BY <1>1 DEF IInv, TypeParts, LoopTypes
<1>3. GivesUpInTime' /\ LoopInv'
  BY <1>1 DEF IInv, LoopInv, GivesUpInTime, Open, envVars
<1>4. WarnInv'
  BY <1>1 DEF IInv, WarnInv, Open, freshVars, kernelVars
<1> QED BY <1>1, <1>2, <1>3, <1>4, Untouched DEF IInv, TypeParts

-----------------------------------------------------------------------------
(* Fallback                                                                *)

(* The events of a difference: one for each five-tuple that has changed.    *)
LEMMA DiffEvents ==
    ASSUME NEW p \in Snapshots, NEW c \in Snapshots
    PROVE  /\ diffSnapshots(p, c) \subseteq [key : Keys, type : {"new", "update", "destroy"}]
           /\ \A k \in Keys : p[k] # c[k] => \E e \in diffSnapshots(p, c) : e.key = k
           /\ \A e \in diffSnapshots(p, c) :
                  /\ p[e.key] # c[e.key]
                  /\ e.type = "new" <=> p[e.key] = Gone
                  /\ e.type = "destroy" <=> c[e.key] = Gone
           /\ \A e, f \in diffSnapshots(p, c) : e.key = f.key => e = f
<1> DEFINE type(k) == CASE p[k] = Gone -> "new" [] c[k] = Gone -> "destroy" [] OTHER -> "update"
<1>1. diffSnapshots(p, c) = {Event(k, type(k)) : k \in {j \in Keys : p[j] # c[j]}}
  BY DEF diffSnapshots
<1>2. \A k, t : Event(k, t).key = k /\ Event(k, t).type = t
  BY DEF Event
<1>3. \A e \in diffSnapshots(p, c) :
          /\ e.key \in Keys /\ p[e.key] # c[e.key]
          /\ e = Event(e.key, type(e.key)) /\ e.type = type(e.key)
  BY <1>1, <1>2
<1>4. \A k \in Keys : /\ type(k) \in {"new", "update", "destroy"}
                      /\ p[k] # c[k] => /\ type(k) = "new" <=> p[k] = Gone
                                        /\ type(k) = "destroy" <=> c[k] = Gone
  OBVIOUS
<1>5. diffSnapshots(p, c) \subseteq [key : Keys, type : {"new", "update", "destroy"}]
  BY <1>3, <1>4 DEF Event
<1>6. \A k \in Keys : p[k] # c[k] => \E e \in diffSnapshots(p, c) : e.key = k
  BY <1>1, <1>2
<1> QED BY <1>3, <1>4, <1>5, <1>6

(* The events that are left are those of the difference, and what a reader  *)
(* knows of is what the previous snapshot, changed by the others, says.     *)
LEMMA SnapshotKeepsInv ==
    ASSUME IInv, NEW c \in Snapshots, Snapshot(c)
    PROVE  IInv'
<1>1. /\ todo = {} /\ prev = cur /\ snaps < MaxSnaps[mode] /\ snaps' = snaps + 1
      /\ cur' = c /\ todo' = diffSnapshots(prev, c)
      /\ prev' = IF todo' = {} THEN c ELSE prev
      /\ UNCHANGED <<envVars, loopVars, sock, leaked, hook, late, sink, freshVars, overVars,
                     kernelVars, view>>
  BY DEF Snapshot
<1>2. prev \in Snapshots /\ snaps \in Nat /\ view \subseteq Keys
  BY DEF IInv, TypeParts, SsTypes
<1>3. SsTypes'
  <2>1. prev' \in Snapshots
    BY <1>1, <1>2
  <2>2. todo' \subseteq [key : Keys, type : {"new", "update", "destroy"}]
    BY <1>1, <1>2, DiffEvents
  <2> QED BY <1>1, <1>2, <2>1, <2>2, Limits DEF SsTypes, Snapshots
<1>4. DiffInv'
  BY <1>1, <1>2, DiffEvents DEF DiffInv
<1>5. view = {k \in Keys : prev[k] # Gone}
  BY <1>1 DEF IInv, PresenceIsReplayed
<1>6. PresenceIsReplayed'
  <2>1. CASE todo' = {}
    <3>1. prev' = c /\ \A k \in Keys : prev[k] = c[k]
      BY <1>1, <1>2, <2>1, DiffEvents
    <3>2. view' = {k \in Keys : c[k] # Gone}
      BY <1>1, <1>5, <3>1
    <3> QED BY <1>1, <2>1, <3>1, <3>2 DEF PresenceIsReplayed
  <2>2. CASE todo' # {}
    <3>1. prev' = prev /\ view' = view
      BY <1>1, <2>2
    <3>2. \A k \in Keys : (\E e \in todo' : e.key = k) \/ prev[k] = c[k]
      BY <1>1, <1>2, DiffEvents
    <3>3. \A e \in todo' : e.key \in Keys /\ (e.type = "new" <=> prev[e.key] = Gone)
      BY <1>1, <1>2, DiffEvents
    <3>4. view' = {k \in Keys : (IF \E e \in todo' : e.key = k THEN prev'[k] ELSE cur'[k])
                                 # Gone}
      BY <1>1, <1>5, <3>1, <3>2
    <3>5. \A e \in todo' : e.type = "new" <=> e.key \notin view'
      BY <1>5, <3>1, <3>3
    <3> QED BY <2>2, <3>4, <3>5 DEF PresenceIsReplayed
  <2> QED BY <2>1, <2>2
<1>7. WarnInv'
  BY <1>1 DEF IInv, WarnInv, Open, loopVars, freshVars, kernelVars
<1> QED BY <1>1, <1>3, <1>4, <1>6, <1>7, Untouched DEF IInv, TypeParts

LEMMA SendKeepsInv ==
    ASSUME IInv, NEW e \in todo, sendApprox(e)
    PROVE  IInv'
<1>1. /\ sink < SinkCap /\ sink' = sink + 1 /\ todo' = todo \ {e}
      /\ view' = CASE e.type = "new" -> view \cup {e.key}
                   [] e.type = "destroy" -> view \ {e.key}
                   [] OTHER -> view
      /\ prev' = IF todo = {e} THEN cur ELSE prev
      /\ UNCHANGED <<envVars, loopVars, sock, leaked, hook, late, freshVars, overVars, kernelVars,
                     cur, snaps>>
  BY DEF sendApprox
<1>2. /\ prev \in Snapshots /\ cur \in Snapshots /\ view \subseteq Keys
      /\ todo \subseteq [key : Keys, type : {"new", "update", "destroy"}]
      /\ snaps \in Nat
  BY DEF IInv, TypeParts, SsTypes
<1>3. e.key \in Keys
  BY <1>2
<1>4. SsTypes' /\ SinkTypes'
  <2>1. prev' \in Snapshots /\ view' \subseteq Keys
    BY <1>1, <1>2, <1>3
  <2>2. SsTypes'
    BY <1>1, <1>2, <2>1 DEF SsTypes, Snapshots
  <2>3. SinkTypes'
    BY <1>1, Limits DEF IInv, TypeParts, SinkTypes
  <2> QED BY <2>2, <2>3
<1>5. DiffInv
  BY DEF IInv
<1>6. DiffInv'
  BY <1>1, <1>5 DEF DiffInv
<1>7. \A f \in todo : f.key = e.key => f = e
  BY <1>5 DEF DiffInv
\* The five-tuple of the event is now what the new snapshot says; the others stay.
<1>8. \A k \in Keys : /\ k = e.key => (k \in view' <=> cur[k] # Gone)
                      /\ k # e.key => (k \in view' <=> k \in view)
  <2>1. e.type \in {"new", "update", "destroy"} /\ (e.type = "destroy" <=> cur[e.key] = Gone)
    BY <1>2, <1>5 DEF DiffInv
  <2>2. e.type = "new" <=> e.key \notin view
    BY DEF IInv, PresenceIsReplayed
  <2> QED BY <1>1, <2>1, <2>2
<1>9. \A k \in Keys : k \in view <=> (IF \E f \in todo : f.key = k THEN prev[k] ELSE cur[k]) # Gone
  BY DEF IInv, PresenceIsReplayed
<1>10. \A f \in todo' : f.type = "new" <=> f.key \notin view'
  <2> SUFFICES ASSUME NEW f \in todo' PROVE f.type = "new" <=> f.key \notin view'
    OBVIOUS
  <2>1. f \in todo /\ f.key # e.key /\ f.key \in Keys
    BY <1>1, <1>2, <1>7
  <2>2. f.type = "new" <=> f.key \notin view
    BY <2>1 DEF IInv, PresenceIsReplayed
  <2> QED BY <1>8, <2>1, <2>2
<1>11. PresenceIsReplayed'
  <2>1. CASE todo = {e}
    <3>1. todo' = {} /\ prev' = cur /\ cur' = cur
      BY <1>1, <2>1
    <3>2. \A k \in Keys : k \in view' <=> cur[k] # Gone
      BY <1>8, <1>9, <2>1
    <3>3. view' = {k \in Keys : cur[k] # Gone}
      BY <1>4, <3>2 DEF SsTypes
    <3> QED BY <3>1, <3>3 DEF PresenceIsReplayed
  <2>2. CASE todo # {e}
    <3>1. todo' # {} /\ prev' = prev /\ cur' = cur
      BY <1>1, <2>2
    <3>2. \A k \in Keys : (\E f \in todo' : f.key = k) <=> k # e.key /\ \E f \in todo : f.key = k
      BY <1>1, <1>7
    <3>3. \A k \in Keys :
             k \in view' <=> (IF \E f \in todo' : f.key = k THEN prev[k] ELSE cur[k]) # Gone
      BY <1>8, <1>9, <3>2
    <3>4. view' = {k \in Keys : (IF \E f \in todo' : f.key = k THEN prev'[k] ELSE cur'[k])
                                 # Gone}
      BY <1>4, <3>1, <3>3 DEF SsTypes
    <3> QED BY <1>10, <3>1, <3>4 DEF PresenceIsReplayed
  <2> QED BY <2>1, <2>2
<1>12. WarnInv'
  BY <1>1 DEF IInv, WarnInv, Open, loopVars, freshVars, kernelVars
<1> QED BY <1>1, <1>4, <1>6, <1>11, <1>12, Untouched DEF IInv, TypeParts

-----------------------------------------------------------------------------
(* The writer takes an event; the environment changes; nothing happens.     *)
LEMMA OthersKeepInv == IInv /\ (Stored \/ Cancel \/ Deny \/ UNCHANGED vars) => IInv'
<1> SUFFICES ASSUME IInv, Stored \/ Cancel \/ Deny \/ UNCHANGED vars PROVE IInv'
  OBVIOUS
<1>1. UNCHANGED <<mode, loopVars, sock, leaked, hook, late, freshVars, overVars, kernelVars,
                ssVars>>
  BY DEF Stored, Cancel, Deny, vars, envVars
<1>2. EnvTypes'
  BY DEF IInv, TypeParts, EnvTypes, Stored, Cancel, Deny, vars, envVars
<1>3. SinkTypes'
  <2>1. CASE Stored
    BY <2>1, Limits DEF IInv, TypeParts, SinkTypes, Stored
  <2>2. CASE Cancel \/ Deny \/ UNCHANGED vars
    BY <2>2 DEF IInv, TypeParts, SinkTypes, Cancel, Deny, vars
  <2> QED BY <2>1, <2>2
<1>4. GivesUpInTime' /\ LoopInv'
  BY <1>1 DEF IInv, GivesUpInTime, LoopInv, Open, loopVars
<1>5. WarnInv'
  BY <1>1 DEF IInv, WarnInv, Open, loopVars, freshVars, kernelVars
<1> QED BY <1>1, <1>2, <1>3, <1>4, <1>5, Untouched DEF IInv, TypeParts

LEMMA InvStep == IInv /\ [Next]_vars => IInv'
<1> SUFFICES ASSUME IInv, [Next]_vars PROVE IInv'
  OBVIOUS
<1>1. CASE Start
  BY <1>1, StartKeepsInv
<1>2. CASE Kernel
  BY <1>2, KernelEventKeepsInv, HookKeepsInv DEF Kernel
<1>3. CASE Listen
  BY <1>3, DeadSeenKeepsInv, CheckOverrunKeepsInv, CheckFreshnessKeepsInv DEF Listen
<1>4. CASE Fallback
  BY <1>4, SnapshotKeepsInv, SendKeepsInv DEF Fallback, Snapshots
<1>5. CASE BackoffEnds
  BY <1>5, BackoffEndsKeepsInv
<1>6. CASE Stops
  BY <1>6, StopsKeepsInv
<1>7. CASE Stored \/ Cancel \/ Deny \/ UNCHANGED vars
  BY <1>7, OthersKeepInv
<1> QED BY <1>1, <1>2, <1>3, <1>4, <1>5, <1>6, <1>7 DEF Next

-----------------------------------------------------------------------------
(* Theorems                                                                *)

THEOREM Invariant == Spec => []IInv
BY InvInit, InvStep, PTL DEF Spec

(* The channel goes to ss after exactly StartFails failed starts in a row   *)
(* (connStartTracker.record): fails counts what the history says.           *)
THEOREM GivesUpAfterFailures == Spec => []ConnInv
<1>1. IInv => ConnInv
  <2>1. TypeParts => TypeOK
    BY DEF TypeOK, TypeParts, EnvTypes, LoopTypes, SockTypes, LeakTypes, HookTypes,
           LateTypes, SinkTypes, FreshTypes, OverTypes, KernelTypes, SsTypes, Socket
  <2> QED BY <2>1 DEF IInv, ConnInv
<1> QED BY <1>1, Invariant, PTL

(* The counter of lost events never runs ahead of the kernel's              *)
(* (checkOverrun): a tick adds what was dropped since the baseline only.    *)
THEOREM CounterIsHonest == Spec => []CountedWereDropped
<1>1. IInv => CountedWereDropped
  BY DEF IInv, DropsInv
<1> QED BY <1>1, Invariant, PTL

(* The warning has a cause in the kernel or in the race of its own reads    *)
(* (checkFreshness, staleVerdict): an event waits, was dropped or is not    *)
(* subscribed to, or was counted after evts had been loaded.                *)
THEOREM NoWarningWithoutCause == Spec => WarningsHaveACause
<1> DEFINE Caused == warned' /\ ~warned =>
                         sock.queue > 0 \/ sock.drops > 0 \/ sock.joined # Groups \/ moved
<1>1. IInv /\ [Next]_vars => [Caused]_vars
  <2> SUFFICES ASSUME IInv, Next, warned', ~warned
               PROVE  sock.queue > 0 \/ sock.drops > 0 \/ sock.joined # Groups \/ moved
    OBVIOUS
  <2>1. checkFreshness
    BY DEF Next, Start, OpenFails, RegisterFails, Registered, Kernel, KernelEvent, HookCalled,
           HookSends, HookStops, ReceiveFails, LateSends, LateStops, Listen, DeadSeen,
           checkOverrun, RunOver, BackoffEnds, Fallback, Snapshot, sendApprox, Stored, Cancel,
           Deny, Stops, freshVars
  <2>2. PICK cnt \in {table, Unreadable} : staleVerdict(cnt)
    BY <2>1 DEF checkFreshness, loadEvts, newBaseline
  <2>3. loop = "verdict" /\ lastCnt # Unreadable /\ lastCnt # table
    BY <2>2 DEF staleVerdict, tableActive
  <2> QED BY <2>3 DEF IInv, WarnInv
<1> QED BY <1>1, Invariant, PTL DEF Spec, WarningsHaveACause

(* Replaying the events of the fallback gives the five-tuples of the last   *)
(* snapshot of ss (diffSnapshots, sendApprox).                              *)
THEOREM ReplayGivesPresence == Spec => []PresenceIsReplayed
<1>1. IInv => PresenceIsReplayed
  BY DEF IInv
<1> QED BY <1>1, Invariant, PTL
=============================================================================
