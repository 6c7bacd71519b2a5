----------------------------- MODULE ApiProofs ----------------------------
(***************************************************************************)
(* Theorems about the push side of the API and about its limits: WsHub for *)
(* any clients, limit and size of the buffer, Push for any number of rows, *)
(* any LIMIT and failing queries, Requests for any endpoints, views, slots *)
(* and rates.                                                              *)
(***************************************************************************)
EXTENDS WsHub, Push, Requests, FiniteSetTheorems, WellFoundedInduction, TLAPS

-----------------------------------------------------------------------------
(* WsHub                                                                   *)

(* The limit and the slots                                                 *)

(* The limit survives tryAdd, which counts before it inserts.              *)
LEMMA TryAddWithinLimit ==
    ASSUME TypeOK, NEW c \in Clients, tryAdd(c)
    PROVE  clients' \subseteq Clients /\ Cardinality(clients') <= MaxConns
<1>1. IsFiniteSet(clients)
  BY HubAssumption, FS_Subset DEF TypeOK
<1>2. Cardinality(clients) \in Nat /\ MaxConns \in Nat
  BY <1>1, FS_CardinalityType, HubAssumption
<1>3. Cardinality(clients') = Cardinality(clients)
      \/ Cardinality(clients') = Cardinality(clients) + 1
  <2>1. clients' = clients \cup {c}
    BY DEF tryAdd
  <2>2. CASE c \in clients
    <3>1. clients' = clients
      BY <2>1, <2>2
    <3> QED BY <3>1
  <2>3. CASE c \notin clients
    <3>1. Cardinality(clients \cup {c}) = Cardinality(clients) + 1
      BY <1>1, <2>3, FS_AddElement, Zenon
    <3> QED BY <2>1, <3>1
  <2> QED BY <2>2, <2>3
<1>4. Cardinality(clients') \in Nat
  BY <1>1, FS_AddElement, FS_CardinalityType DEF tryAdd
<1> QED BY <1>2, <1>3, <1>4 DEF tryAdd, TypeOK

(* remove does not make the hub larger.                                    *)
LEMMA RemoveWithinLimit ==
    ASSUME TypeOK, NEW c \in Clients, remove(c)
    PROVE  clients' \subseteq Clients /\ Cardinality(clients') <= MaxConns
<1>1. IsFiniteSet(clients) /\ clients' \subseteq clients
  BY HubAssumption, FS_Subset DEF TypeOK, remove
<1>2. Cardinality(clients') <= Cardinality(clients)
  BY <1>1, FS_Subset
<1>3. Cardinality(clients) \in Nat /\ Cardinality(clients') \in Nat
  BY <1>1, FS_Subset, FS_CardinalityType
<1> QED BY <1>1, <1>2, <1>3, HubAssumption DEF TypeOK

LEMMA TypeInit == Init => TypeOK
<1> SUFFICES ASSUME Init PROVE TypeOK
  OBVIOUS
<1>1. Cardinality(clients) <= MaxConns
  BY FS_EmptySet, HubAssumption DEF Init
<1> QED BY <1>1, HubAssumption DEF Init, TypeOK, Zero

(* One step of the hub or of a handler keeps TypeOK.                       *)
LEMMA TypeStep == TypeOK /\ [Next]_vars => TypeOK'
<1> SUFFICES ASSUME TypeOK, [Next]_vars PROVE TypeOK'
  OBVIOUS
<1> USE HubAssumption
<1>1. CASE broadcast
  <2>1. frame' \in 1..MaxFrames
    BY <1>1 DEF broadcast, TypeOK
  <2>2. send' \in [Clients -> Seq(1..MaxFrames)]
    <3>1. \A c \in Clients : Append(send[c], frame') \in Seq(1..MaxFrames)
      BY <2>1 DEF TypeOK
    <3> QED BY <1>1, <3>1 DEF broadcast, TypeOK
  <2> QED BY <1>1, <2>1, <2>2 DEF broadcast, TypeOK, connVars
<1>2. ASSUME NEW c \in Clients, Connects(c) PROVE TypeOK'
  <2>1. clients' \subseteq Clients /\ Cardinality(clients') <= MaxConns
    BY <1>2, TryAddWithinLimit DEF Connects
  <2> QED BY <1>2, <2>1 DEF Connects, tryAdd, TypeOK
<1>3. ASSUME NEW c \in Clients, UpgradeFails(c) PROVE TypeOK'
  <2>1. clients' \subseteq Clients /\ Cardinality(clients') <= MaxConns
    BY <1>3, RemoveWithinLimit DEF UpgradeFails
  <2> QED BY <1>3, <2>1 DEF UpgradeFails, remove, TypeOK, frameVars
<1>4. ASSUME NEW c \in Clients, Leave(c) PROVE TypeOK'
  <2>1. clients' \subseteq Clients /\ Cardinality(clients') <= MaxConns
    BY <1>4, RemoveWithinLimit DEF Leave
  <2> QED BY <1>4, <2>1 DEF Leave, remove, TypeOK
<1>5. ASSUME NEW c \in Clients, Upgraded(c) PROVE TypeOK'
  BY <1>5 DEF Upgraded, TypeOK, hubVars, frameVars
<1>6. ASSUME NEW c \in Clients, ReadFails(c) PROVE TypeOK'
  BY <1>6 DEF ReadFails, TypeOK, hubVars, frameVars
<1>7. ASSUME NEW c \in Clients, TakeFrame(c) PROVE TypeOK'
  <2>1. Head(send[c]) \in 1..MaxFrames /\ Tail(send[c]) \in Seq(1..MaxFrames)
    BY <1>7 DEF TakeFrame, TypeOK
  <2> QED BY <1>7, <2>1 DEF TakeFrame, TypeOK
<1>8. ASSUME NEW c \in Clients, WriteSucceeds(c) PROVE TypeOK'
  BY <1>8 DEF WriteSucceeds, TypeOK, hubVars
<1>9. CASE UNCHANGED vars
  BY <1>9 DEF vars, hubVars, connVars, frameVars, TypeOK
<1> QED BY <1>1, <1>2, <1>3, <1>4, <1>5, <1>6, <1>7, <1>8, <1>9
        DEF Next, Handler, DoneSeen, WriteFails

(* Every reachable state of the hub is well typed and no more than          *)
(* ws_max_conns connections have a slot (tryAdd and remove in ws.go).       *)
THEOREM TypeCorrect == Spec => []TypeOK
BY TypeInit, TypeStep, PTL DEF Spec

(* A step keeps the slots and the handlers in step with each other.        *)
LEMMA SlotStep == TypeOK /\ SlotPerHandler /\ [Next]_vars => SlotPerHandler'
<1> SUFFICES ASSUME TypeOK, SlotPerHandler, [Next]_vars PROVE SlotPerHandler'
  OBVIOUS
<1>1. CASE broadcast
  BY <1>1 DEF broadcast, connVars, SlotPerHandler
<1>2. ASSUME NEW c \in Clients, Connects(c) PROVE SlotPerHandler'
  BY <1>2 DEF Connects, tryAdd, SlotPerHandler, TypeOK
<1>3. ASSUME NEW c \in Clients, UpgradeFails(c) PROVE SlotPerHandler'
  BY <1>3 DEF UpgradeFails, remove, SlotPerHandler, TypeOK
<1>4. ASSUME NEW c \in Clients, Leave(c) PROVE SlotPerHandler'
  BY <1>4 DEF Leave, remove, SlotPerHandler, TypeOK
<1>5. ASSUME NEW c \in Clients, Upgraded(c) PROVE SlotPerHandler'
  BY <1>5 DEF Upgraded, hubVars, SlotPerHandler, TypeOK
<1>6. ASSUME NEW c \in Clients, ReadFails(c) PROVE SlotPerHandler'
  BY <1>6 DEF ReadFails, hubVars, SlotPerHandler
<1>7. ASSUME NEW c \in Clients, TakeFrame(c) PROVE SlotPerHandler'
  BY <1>7 DEF TakeFrame, SlotPerHandler, TypeOK
<1>8. ASSUME NEW c \in Clients, WriteSucceeds(c) PROVE SlotPerHandler'
  BY <1>8 DEF WriteSucceeds, hubVars, SlotPerHandler, TypeOK
<1>9. CASE UNCHANGED vars
  BY <1>9 DEF vars, hubVars, connVars, SlotPerHandler
<1> QED BY <1>1, <1>2, <1>3, <1>4, <1>5, <1>6, <1>7, <1>8, <1>9
        DEF Next, Handler, DoneSeen, WriteFails

(* Whatever ends a connection (failed upgrade, failed read, failed write),  *)
(* its slot is given back when its handler returns, and not before.         *)
THEOREM SlotsBelongToHandlers == Spec => []SlotPerHandler
<1>1. Init => SlotPerHandler
  BY DEF Init, SlotPerHandler
<1> QED BY <1>1, TypeCorrect, SlotStep, PTL DEF Spec

-----------------------------------------------------------------------------
(* The order of the frames                                                 *)

(* Of one client: the buffer increases and lies above the frame in hand,    *)
(* that above the frame last seen, that above the moment of joining.        *)
InOrder(c) ==
    /\ joined[c] <= frame
    /\ at[c] # "write" => inHand[c] = 0
    /\ seen[c] # 0 => seen[c] > joined[c]
    /\ inHand[c] # 0 => inHand[c] > seen[c] /\ inHand[c] > joined[c]
    /\ seen[c] <= frame /\ inHand[c] <= frame
    /\ \A i \in DOMAIN send[c] :
           /\ send[c][i] > joined[c] /\ send[c][i] > seen[c]
           /\ send[c][i] > inHand[c] /\ send[c][i] <= frame
    /\ \A i, j \in DOMAIN send[c] : i < j => send[c][i] < send[c][j]

FrameInv == \A c \in Clients : InOrder(c)

LEMMA FrameInit == Init => FrameInv
BY DEF Init, Zero, FrameInv, InOrder

(* What a step does to the frames of a client is done by broadcast or by    *)
(* the handler of that client.                                              *)
LEMMA FrameStep == TypeOK /\ FrameInv /\ [Next]_vars => FrameInv'
<1> SUFFICES ASSUME TypeOK, FrameInv, [Next]_vars, NEW d \in Clients
             PROVE  InOrder(d)'
  BY DEF FrameInv
<1> USE HubAssumption
<1>0. InOrder(d)
  BY DEF FrameInv
<1>t. /\ send[d] \in Seq(1..MaxFrames) /\ frame \in Nat
      /\ joined[d] \in Nat /\ inHand[d] \in Nat /\ seen[d] \in Nat
  BY DEF TypeOK
<1>1. CASE broadcast
  <2>1. /\ frame' = frame + 1 /\ frame' \in 1..MaxFrames
        /\ UNCHANGED <<at, joined, inHand, seen>>
    BY <1>1 DEF broadcast, connVars, TypeOK
  <2>2. send'[d] = send[d] \/ send'[d] = Append(send[d], frame')
    BY <1>1 DEF broadcast
  <2>3. CASE send'[d] = send[d]
    BY <1>0, <1>t, <2>1, <2>3 DEF InOrder
  <2>4. CASE send'[d] = Append(send[d], frame')
    <3>1. /\ DOMAIN send'[d] = 1..(Len(send[d]) + 1)
          /\ DOMAIN send[d] = 1..Len(send[d])
          /\ Len(send[d]) \in Nat
      BY <1>t, <2>1, <2>4
    <3>2. /\ \A i \in 1..Len(send[d]) : send'[d][i] = send[d][i]
          /\ send'[d][Len(send[d]) + 1] = frame'
      BY <1>t, <2>1, <2>4
    <3>3. \A i \in 1..Len(send[d]) : send[d][i] \in Nat
      BY <1>t
    <3>4. \A i \in DOMAIN send'[d] :
             \/ i \in 1..Len(send[d]) /\ send'[d][i] = send[d][i]
             \/ i = Len(send[d]) + 1 /\ send'[d][i] = frame'
      BY <3>1, <3>2
    <3>5. \A i \in 1..Len(send[d]) :
             /\ send[d][i] > joined[d] /\ send[d][i] > seen[d]
             /\ send[d][i] > inHand[d] /\ send[d][i] < frame'
      BY <1>0, <1>t, <2>1, <3>1, <3>3 DEF InOrder
    <3>6. \A i, j \in 1..Len(send[d]) : i < j => send[d][i] < send[d][j]
      BY <1>0, <3>1 DEF InOrder
    <3>7. /\ frame' > joined[d] /\ frame' > seen[d] /\ frame' > inHand[d]
      BY <1>0, <1>t, <2>1 DEF InOrder
    <3>8. \A i \in DOMAIN send'[d] :
             /\ send'[d][i] > joined[d] /\ send'[d][i] > seen[d]
             /\ send'[d][i] > inHand[d] /\ send'[d][i] <= frame'
      <4> TAKE i \in DOMAIN send'[d]
      <4>1. CASE i \in 1..Len(send[d]) /\ send'[d][i] = send[d][i]
        <5>1. send[d][i] \in Nat /\ send[d][i] <= frame'
          BY <2>1, <3>3, <3>5, <4>1
        <5> QED BY <3>5, <4>1, <5>1
      <4>2. CASE i = Len(send[d]) + 1 /\ send'[d][i] = frame'
        BY <2>1, <3>7, <4>2
      <4> QED BY <3>4, <4>1, <4>2
    <3>9. \A i, j \in DOMAIN send'[d] : i < j => send'[d][i] < send'[d][j]
      <4> SUFFICES ASSUME NEW i \in DOMAIN send'[d], NEW j \in DOMAIN send'[d], i < j
                   PROVE  send'[d][i] < send'[d][j]
        OBVIOUS
      <4>1. i \in 1..Len(send[d]) /\ send'[d][i] = send[d][i]
        BY <3>1, <3>2
      <4>2. CASE j \in 1..Len(send[d]) /\ send'[d][j] = send[d][j]
        BY <3>6, <4>1, <4>2
      <4>3. CASE j = Len(send[d]) + 1 /\ send'[d][j] = frame'
        BY <3>5, <4>1, <4>3
      <4> QED BY <3>4, <4>2, <4>3
    <3> QED BY <1>0, <1>t, <2>1, <3>8, <3>9 DEF InOrder
  <2> QED BY <2>2, <2>3, <2>4
<1>2. ASSUME NEW c \in Clients, c # d, Handler(c) PROVE InOrder(d)'
  <2>1. /\ send'[d] = send[d] /\ at'[d] = at[d] /\ joined'[d] = joined[d]
        /\ inHand'[d] = inHand[d] /\ seen'[d] = seen[d] /\ frame' = frame
    BY <1>2 DEF TypeOK, Handler, Connects, UpgradeFails, Upgraded, ReadFails, DoneSeen,
       TakeFrame, WriteSucceeds, WriteFails, Leave, tryAdd, remove, hubVars, frameVars
  <2> QED BY <1>0, <2>1 DEF InOrder
<1>3. CASE Connects(d)
  <2>1. /\ send'[d] = <<>> /\ joined'[d] = frame /\ seen'[d] = 0
        /\ inHand'[d] = 0 /\ frame' = frame
    BY <1>3, <1>0 DEF Connects, tryAdd, TypeOK, InOrder
  <2> QED BY <1>t, <2>1 DEF InOrder
<1>4. CASE UpgradeFails(d)
  BY <1>4, <1>0 DEF UpgradeFails, remove, frameVars, TypeOK, InOrder
<1>5. CASE Upgraded(d)
  BY <1>5, <1>0 DEF Upgraded, hubVars, frameVars, TypeOK, InOrder
<1>6. CASE ReadFails(d)
  BY <1>6, <1>0 DEF ReadFails, hubVars, frameVars, InOrder
<1>7. CASE Leave(d)
  <2>1. /\ send' = send /\ joined' = joined /\ seen' = seen /\ frame' = frame
        /\ inHand'[d] = 0
    BY <1>7 DEF Leave, remove, TypeOK
  <2>2. \A i \in DOMAIN send[d] : send[d][i] > 0
    BY <1>t
  <2> QED BY <1>0, <1>t, <2>1, <2>2 DEF InOrder
<1>8. CASE TakeFrame(d)
  <2>1. /\ send'[d] = Tail(send[d]) /\ inHand'[d] = Head(send[d])
        /\ at'[d] = "write" /\ UNCHANGED <<frame, joined, seen>> /\ send[d] # <<>>
    BY <1>8 DEF TakeFrame, TypeOK
  <2>2. /\ Len(send[d]) \in Nat \ {0} /\ DOMAIN send[d] = 1..Len(send[d])
        /\ DOMAIN send'[d] = 1..(Len(send[d]) - 1)
        /\ inHand'[d] = send[d][1]
        /\ \A i \in 1..(Len(send[d]) - 1) : send'[d][i] = send[d][i + 1]
    BY <1>t, <2>1
  <2>3. /\ \A i \in 1..Len(send[d]) :
              /\ send[d][i] \in Nat /\ send[d][i] <= frame
              /\ send[d][i] > joined[d] /\ send[d][i] > seen[d]
        /\ \A i, j \in 1..Len(send[d]) : i < j => send[d][i] < send[d][j]
    <3>1. \A i \in 1..Len(send[d]) : send[d][i] \in Nat
      BY <1>t
    <3>2. DOMAIN send[d] = 1..Len(send[d])
      BY <2>2
    <3> QED BY <1>0, <3>1, <3>2 DEF InOrder
  <2>4. \A i \in DOMAIN send'[d] : i + 1 \in 1..Len(send[d]) /\ i \in 1..(Len(send[d]) - 1)
    BY <2>2
  <2>5. \A i \in DOMAIN send'[d] :
           /\ send'[d][i] > joined[d] /\ send'[d][i] > seen[d]
           /\ send'[d][i] > inHand'[d] /\ send'[d][i] <= frame
    <3> TAKE i \in DOMAIN send'[d]
    <3>1. /\ send'[d][i] = send[d][i + 1] /\ i + 1 \in 1..Len(send[d])
          /\ 1 \in 1..Len(send[d]) /\ 1 < i + 1
      BY <2>2, <2>4
    <3>2. send[d][1] < send[d][i + 1]
      BY <2>3, <3>1
    <3>3. /\ send[d][i + 1] > joined[d] /\ send[d][i + 1] > seen[d]
          /\ send[d][i + 1] <= frame
      BY <2>3, <3>1
    <3> QED BY <2>2, <3>1, <3>2, <3>3
  <2>6. \A i, j \in DOMAIN send'[d] : i < j => send'[d][i] < send'[d][j]
    <3> SUFFICES ASSUME NEW i \in DOMAIN send'[d], NEW j \in DOMAIN send'[d], i < j
                 PROVE  send'[d][i] < send'[d][j]
      OBVIOUS
    <3>1. send'[d][i] = send[d][i + 1] /\ send'[d][j] = send[d][j + 1]
      BY <2>2, <2>4
    <3>2. i + 1 \in 1..Len(send[d]) /\ j + 1 \in 1..Len(send[d])
      BY <2>4
    <3>3. i + 1 < j + 1
      BY <2>4
    <3>4. send[d][i + 1] < send[d][j + 1]
      BY <2>3, <3>2, <3>3
    <3> QED BY <3>1, <3>4
  <2>7. 1 \in 1..Len(send[d])
    BY <2>2
  <2>8. inHand'[d] > seen[d] /\ inHand'[d] > joined[d] /\ inHand'[d] <= frame
    BY <2>2, <2>3, <2>7
  <2> QED BY <1>0, <2>1, <2>5, <2>6, <2>8 DEF InOrder
<1>9. CASE WriteSucceeds(d)
  <2>1. /\ UNCHANGED <<send, frame, joined>> /\ at'[d] = "select"
        /\ seen'[d] = inHand[d] /\ inHand'[d] = 0
    BY <1>9 DEF WriteSucceeds, hubVars, TypeOK
  <2>2. \A i \in DOMAIN send[d] : send[d][i] > 0
    BY <1>t
  <2> QED BY <1>0, <1>t, <2>1, <2>2 DEF InOrder
<1>10. CASE UNCHANGED vars
  BY <1>10, <1>0 DEF vars, hubVars, connVars, frameVars, InOrder
<1> QED BY <1>1, <1>2, <1>3, <1>4, <1>5, <1>6, <1>7, <1>8, <1>9, <1>10
        DEF Next, Handler, DoneSeen, WriteFails

(* The frames on the way are at most two and then the buffer.              *)
LEMMA PipelineInOrder ==
    ASSUME TypeOK, NEW c \in Clients, InOrder(c)
    PROVE  /\ \A i, j \in DOMAIN Pipeline(c) : i < j => Pipeline(c)[i] < Pipeline(c)[j]
           /\ \A i \in DOMAIN Pipeline(c) : Pipeline(c)[i] > joined[c]
<1> DEFINE s == send[c]
           a == Nonzero(seen[c])
           b == Nonzero(inHand[c])
<1> USE HubAssumption
<1>1. /\ s \in Seq(Nat) /\ seen[c] \in Nat /\ inHand[c] \in Nat /\ joined[c] \in Nat
  BY DEF TypeOK
<1>2. /\ Len(s) \in Nat /\ DOMAIN s = 1..Len(s) /\ \A i \in 1..Len(s) : s[i] \in Nat
  BY <1>1
<1>3. /\ a \in Seq(Nat) /\ b \in Seq(Nat) /\ a \o b \in Seq(Nat)
      /\ Len(a) \in {0, 1} /\ Len(b) \in {0, 1}
      /\ Len(a) = 1 => a[1] = seen[c] /\ seen[c] # 0
      /\ Len(b) = 1 => b[1] = inHand[c] /\ inHand[c] # 0
  BY <1>1 DEF Nonzero
<1> HIDE DEF a, b
<1> DEFINE p == a \o b \o s
<1>4. /\ Pipeline(c) = p
      /\ DOMAIN p = 1..(Len(a) + Len(b) + Len(s))
      /\ Len(a) = 1 => p[1] = seen[c]
      /\ Len(b) = 1 => p[Len(a) + 1] = inHand[c]
      /\ \A i \in 1..Len(s) : p[Len(a) + Len(b) + i] = s[i]
  <2>1. Pipeline(c) = p
    BY DEF Pipeline, a, b
  <2> DEFINE ab == a \o b
  <2>2. /\ Len(ab) = Len(a) + Len(b)
        /\ \A i \in 1..Len(a) : ab[i] = a[i]
        /\ \A i \in 1..Len(b) : ab[Len(a) + i] = b[i]
    BY <1>3
  <2>3. /\ DOMAIN p = 1..(Len(ab) + Len(s))
        /\ \A i \in 1..Len(ab) : p[i] = ab[i]
        /\ \A i \in 1..Len(s) : p[Len(ab) + i] = s[i]
    BY <1>1, <1>2, <1>3
  <2> HIDE DEF ab, p
  <2>4. /\ Len(a) = 1 => p[1] = seen[c]
        /\ Len(b) = 1 => p[Len(a) + 1] = inHand[c]
    <3>1. Len(a) = 1 => 1 \in 1..Len(a) /\ 1 \in 1..Len(ab)
      BY <1>3, <2>2
    <3>2. Len(b) = 1 => 1 \in 1..Len(b) /\ Len(a) + 1 \in 1..Len(ab)
      BY <1>3, <2>2
    <3>3. Len(a) = 1 => p[1] = ab[1] /\ ab[1] = a[1]
      BY <2>2, <2>3, <3>1
    <3>4. Len(b) = 1 => p[Len(a) + 1] = b[1]
      BY <2>2, <2>3, <3>2
    <3> QED BY <1>3, <3>3, <3>4
  <2> QED BY <1>2, <2>1, <2>2, <2>3, <2>4
<1> HIDE DEF p, s
<1>5. /\ seen[c] # 0 => seen[c] > joined[c]
      /\ inHand[c] # 0 => inHand[c] > seen[c] /\ inHand[c] > joined[c]
      /\ \A i \in 1..Len(s) : s[i] > joined[c] /\ s[i] > seen[c] /\ s[i] > inHand[c]
      /\ \A i, j \in 1..Len(s) : i < j => s[i] < s[j]
  BY <1>2 DEF InOrder, s
<1>6. \A i \in DOMAIN p :
         \/ Len(a) = 1 /\ i = 1
         \/ Len(b) = 1 /\ i = Len(a) + 1
         \/ \E k \in 1..Len(s) : i = Len(a) + Len(b) + k
  <2> TAKE i \in DOMAIN p
  <2>1. CASE i > Len(a) + Len(b)
    <3>1. i - Len(a) - Len(b) \in 1..Len(s)
      BY <1>2, <1>3, <1>4, <2>1
    <3> QED BY <1>3, <1>4, <3>1
  <2>2. CASE i <= Len(a) + Len(b)
    <3>1. i \in Nat /\ i >= 1 /\ Len(a) \in Nat /\ Len(b) \in Nat
      BY <1>2, <1>3, <1>4
    <3>2. \/ Len(a) = 1 /\ i = 1
          \/ Len(b) = 1 /\ i = Len(a) + 1
      <4>1. CASE Len(a) = 0 /\ Len(b) = 0
        BY <2>2, <3>1, <4>1
      <4>2. CASE Len(a) = 0 /\ Len(b) = 1
        BY <2>2, <3>1, <4>2
      <4>3. CASE Len(a) = 1 /\ Len(b) = 0
        BY <2>2, <3>1, <4>3
      <4>4. CASE Len(a) = 1 /\ Len(b) = 1
        BY <2>2, <3>1, <4>4
      <4> QED BY <1>3, <4>1, <4>2, <4>3, <4>4
    <3> QED BY <3>2
  <2>3. i \in Nat /\ Len(a) \in Nat /\ Len(b) \in Nat
    BY <1>2, <1>3, <1>4
  <2> QED BY <2>1, <2>2, <2>3
<1>7. \A i, j \in DOMAIN p : i < j => p[i] < p[j]
  BY <1>1, <1>2, <1>3, <1>4, <1>5, <1>6, SMTT(30)
<1>8. \A i \in DOMAIN p : p[i] > joined[c]
  BY <1>1, <1>2, <1>3, <1>4, <1>5, <1>6, SMTT(30)
<1> QED BY <1>4, <1>7, <1>8

(* Every client gets frames in the order of broadcast, none twice and none  *)
(* of before its connection, however slow it is and whatever is dropped.    *)
THEOREM FramesComeInOrder == Spec => []FramesInOrder
<1>1. TypeOK /\ FrameInv => FramesInOrder
  <2> SUFFICES ASSUME TypeOK, FrameInv PROVE FramesInOrder
    OBVIOUS
  <2>1. \A c \in clients : c \in Clients /\ InOrder(c)
    BY DEF TypeOK, FrameInv
  <2> QED BY <2>1, PipelineInOrder DEF FramesInOrder
<1> QED BY <1>1, FrameInit, TypeCorrect, FrameStep, PTL DEF Spec

-----------------------------------------------------------------------------
(* Push                                                                    *)

(* MAX(id)                                                                 *)

(* A set of numbers that is not empty has a least element.                 *)
LEMMA LeastNumber ==
    ASSUME NEW T \in SUBSET Nat, T # {}
    PROVE  \E x \in T : \A y \in T : x <= y
<1> DEFINE R == OpToRel(<, Nat)
<1>1. IsWellFoundedOn(R, Nat)
  BY NatLessThanWellFounded
<1> HIDE DEF R
<1>2. PICK x \in T : \A y \in T : <<y, x>> \notin R
  BY <1>1, WFMin
<1>3. \A y \in T : ~(y < x)
  BY <1>2 DEF R, OpToRel
<1> QED BY <1>3

(* A set of numbers below a bound has a greatest element: the least of its *)
(* upper bounds.                                                           *)
LEMMA GreatestNumber ==
    ASSUME NEW N \in Nat, NEW S \in SUBSET (1..N), S # {}
    PROVE  \E i \in S : \A j \in S : j <= i
<1> DEFINE T == {m \in Nat : \A j \in S : j <= m}
<1>1. N \in T
  OBVIOUS
<1>2. PICK m \in T : \A y \in T : m <= y
  BY <1>1, LeastNumber
<1>3. m \in S
  <2>1. SUFFICES ASSUME m \notin S PROVE FALSE
    OBVIOUS
  <2>2. m \in Nat /\ \A j \in S : j <= m
    BY <1>2
  <2>3. m - 1 \in Nat /\ \A j \in S : j <= m - 1
    <3>1. \A j \in S : j \in 1..N /\ j <= m /\ j # m
      BY <2>1, <2>2
    <3>2. 1 <= m
      <4>1. PICK j \in S : TRUE
        OBVIOUS
      <4>2. j \in 1..N /\ j <= m
        BY <3>1, <4>1
      <4> QED BY <2>2, <4>2
    <3>3. ASSUME NEW j \in S PROVE j <= m - 1
      BY <2>2, <3>1
    <3> QED BY <2>2, <3>2, <3>3
  <2>4. m - 1 \in T
    BY <2>3
  <2> QED BY <2>2, <2>4, <1>2
<1> QED BY <1>2, <1>3

(* MaxId of rows is the id of one of them, and no other is greater.        *)
LEMMA MaxIdIsGreatest ==
    ASSUME NEW R, R \subseteq Row, R # {}, NEW null
    PROVE  /\ \E r \in R : r.id = MaxId(R, null)
           /\ \A r \in R : r.id <= MaxId(R, null)
<1> DEFINE S == {r.id : r \in R}
<1>1. S \in SUBSET (1..MaxRows) /\ S # {}
  BY DEF Row
<1>2. \E i \in S : \A j \in S : j <= i
  BY <1>1, GreatestNumber, PushAssumption
<1>3. \E i \in S : \A r \in R : r.id <= i
  BY <1>2
<1> DEFINE m == CHOOSE i \in S : \A r \in R : r.id <= i
<1>4. m \in S /\ \A r \in R : r.id <= m
  BY <1>3
<1>5. MaxId(R, null) = m
  BY DEF MaxId
<1> QED BY <1>4, <1>5

LEMMA MaxIdOfNone == \A null : MaxId({}, null) = null
BY DEF MaxId
-----------------------------------------------------------------------------
(* The invariant: the ids of a table are below the highest one given out,  *)
(* a number of insertion belongs to one row, and what was told is not      *)
(* above its cursor any more.                                              *)

Numbered ==
    /\ IsFiniteSet(rows)
    /\ \A t \in Tables : given[t] <= inserted
    /\ \A r \in rows : r.id <= given[Table(r.kind)] /\ r.n <= inserted
    /\ \A r, s \in rows : r.n = s.n => r = s

ToldIsPassed == \A r \in rows : r.n \in told => r.id <= cursor[r.kind]

IInv == PushTypeOK /\ Numbered /\ ToldIsPassed /\ NoneSkipped

LEMMA TableOfKind == \A k \in PushKinds : Table(k) \in Tables
BY DEF PushKinds, EvTypes, Table, Tables

LEMMA Constants == SysLimit \in Nat \ {0} /\ MaxRows \in Nat /\ MaxQueryFails \in Nat
BY PushAssumption

LEMMA InitIInv == PushInit => IInv
<1> SUFFICES ASSUME PushInit PROVE IInv
  OBVIOUS
<1> USE Constants DEF PushInit
<1>1. PushTypeOK
  <2>1. \A k \in PushKinds : cursor[k] <= given[Table(k)]
    BY TableOfKind
  <2>2. given \in [Tables -> 0..MaxRows] /\ cursor \in [PushKinds -> 0..MaxRows]
    OBVIOUS
  <2>3. \A r, s \in rows : Table(r.kind) = Table(s.kind) /\ r.id = s.id => r = s
    OBVIOUS
  <2>4. rows \subseteq Row /\ told \subseteq 1..inserted /\ counted \subseteq told
    OBVIOUS
  <2>5. inserted \in 0..MaxRows /\ queryFails \in 0..MaxQueryFails
    OBVIOUS
  <2>6. ticking \in BOOLEAN
    OBVIOUS
  <2> HIDE DEF PushInit
  <2> QED BY <2>1, <2>2, <2>3, <2>4, <2>5, <2>6 DEF PushTypeOK
<1>2. Numbered
  BY FS_EmptySet DEF Numbered
<1> QED BY <1>1, <1>2 DEF IInv, ToldIsPassed, NoneSkipped

(* The id of a new row is above the ids of its table.                      *)
LEMMA NextIdIsNew ==
    ASSUME PushTypeOK, Numbered, inserted < MaxRows, NEW t \in Tables
    PROVE  /\ NextId(t) \in 1..MaxRows
           /\ NextId(t) <= given[t] + 1
           /\ \A r \in rows : Table(r.kind) = t => r.id < NextId(t)
<1> DEFINE R == {r \in rows : Table(r.kind) = t}
<1>1. R \subseteq Row /\ \A r \in R : r.id \in 1..MaxRows
  BY DEF PushTypeOK, Row
<1>2. given[t] \in Nat /\ inserted \in Nat /\ given[t] <= inserted /\ MaxRows \in Nat
  BY PushAssumption DEF PushTypeOK, Numbered
<1>3. NextId(t) = MaxId(R, 0) + 1
  BY DEF NextId
<1>4. CASE R = {}
  <2>1. NextId(t) = 1
    BY <1>3, <1>4, MaxIdOfNone
  <2> QED BY <1>2, <1>4, <2>1
<1>5. CASE R # {}
  <2>1. PICK r \in R : r.id = MaxId(R, 0)
    BY <1>1, <1>5, MaxIdIsGreatest
  <2>2. \A s \in R : s.id <= MaxId(R, 0)
    BY <1>1, <1>5, MaxIdIsGreatest
  <2>3. r.id \in 1..MaxRows /\ r.id <= given[t]
    BY <1>1, <2>1 DEF Numbered
  <2>4. NextId(t) = r.id + 1
    BY <1>3, <2>1
  <2>5. \A s \in R : s.id < NextId(t)
    BY <1>1, <2>1, <2>2, <2>3, <2>4
  <2> QED BY <1>2, <2>3, <2>4, <2>5
<1> QED BY <1>4, <1>5

-----------------------------------------------------------------------------
(* The writer and the retention                                            *)

LEMMA InsertStep ==
    ASSUME IInv, NEW k \in PushKinds, InsertRow(k)
    PROVE  IInv'
<1> DEFINE t == Table(k)
           id == NextId(t)
           new == [id |-> id, kind |-> k, n |-> inserted + 1, again |-> id <= given[t]]
           top == IF id <= given[t] THEN given[t] ELSE id
<1>1. t \in Tables /\ t = Table(k)
  BY TableOfKind
<1>2. /\ id \in 1..MaxRows /\ id <= given[t] + 1
      /\ \A r \in rows : Table(r.kind) = t => r.id < id
  BY <1>1, NextIdIsNew DEF IInv, InsertRow
<1> HIDE DEF t, id
<1>3. /\ inserted \in Nat /\ inserted < MaxRows /\ inserted' = inserted + 1
      /\ rows' = rows \cup {new} /\ given' = [given EXCEPT ![t] = top]
      /\ counted' = {} /\ cursor' = cursor /\ told' = told
      /\ queryFails' = queryFails
  BY DEF IInv, PushTypeOK, InsertRow, t, id
<1>4. /\ given \in [Tables -> 0..MaxRows] /\ given[t] \in Nat
      /\ \A u \in Tables : given[u] <= inserted
  BY <1>1 DEF IInv, PushTypeOK, Numbered
<1>5. top \in 0..MaxRows /\ given[t] <= top /\ id <= top /\ top <= inserted + 1
  BY <1>1, <1>2, <1>3, <1>4, Constants
<1>6. given' \in [Tables -> 0..MaxRows] /\ given'[t] = top
      /\ \A u \in Tables : given[u] <= given'[u] /\ given'[u] <= inserted'
  BY <1>1, <1>3, <1>4, <1>5
<1>7. new \in Row
  BY <1>2, <1>3, Constants DEF Row
<1>8. \A r \in rows : r \in Row /\ r.kind \in PushKinds /\ r.n <= inserted /\ r.n # new.n
  BY <1>3 DEF IInv, PushTypeOK, Numbered, Row
<1>9. PushTypeOK'
  <2>1. rows' \subseteq Row
    BY <1>3, <1>7, <1>8
  <2>2. \A j \in PushKinds : cursor'[j] <= given'[Table(j)]
    <3> TAKE j \in PushKinds
    <3>1. Table(j) \in Tables /\ cursor[j] \in Nat /\ cursor[j] <= given[Table(j)]
      BY TableOfKind DEF IInv, PushTypeOK
    <3>2. given[Table(j)] \in Nat /\ given'[Table(j)] \in Nat
      BY <1>4, <1>6, <3>1
    <3> QED BY <1>3, <1>6, <3>1, <3>2
  <2>3. \A r, s \in rows' : Table(r.kind) = Table(s.kind) /\ r.id = s.id => r = s
    <3>1. \A r \in rows : Table(r.kind) = t => r.id # id
      BY <1>2, <1>8 DEF Row
    <3>2. new.id = id /\ Table(new.kind) = t
      BY <1>1
    <3> QED BY <1>3, <3>1, <3>2 DEF IInv, PushTypeOK
  <2>4. told' \subseteq 1..inserted' /\ counted' \subseteq told'
    BY <1>3 DEF IInv, PushTypeOK
  <2>5. inserted' \in 0..MaxRows /\ queryFails' \in 0..MaxQueryFails
        /\ cursor' \in [PushKinds -> 0..MaxRows]
    BY <1>3, Constants DEF IInv, PushTypeOK
  <2>6. ticking' \in BOOLEAN
    BY DEF IInv, PushTypeOK, InsertRow
  <2> QED BY <1>6, <2>1, <2>2, <2>3, <2>4, <2>5, <2>6 DEF PushTypeOK
<1>10. Numbered'
  <2>1. IsFiniteSet(rows')
    BY <1>3, FS_AddElement DEF IInv, Numbered
  <2>2. \A r \in rows' : r.id <= given'[Table(r.kind)] /\ r.n <= inserted'
    <3> TAKE r \in rows'
    <3>1. CASE r = new
      BY <1>1, <1>3, <1>5, <1>6, <3>1
    <3>2. CASE r \in rows
      <4>1. r.id \in Nat /\ r.n \in Nat /\ Table(r.kind) \in Tables
        BY <1>8, <3>2, TableOfKind DEF Row
      <4>2. r.id <= given[Table(r.kind)] /\ r.n <= inserted
        BY <3>2 DEF IInv, Numbered
      <4>3. given[Table(r.kind)] \in Nat /\ given'[Table(r.kind)] \in Nat
        BY <1>4, <1>6, <4>1
      <4> QED BY <1>3, <1>6, <4>1, <4>2, <4>3
    <3> QED BY <1>3, <3>1, <3>2
  <2>3. \A r, s \in rows' : r.n = s.n => r = s
    BY <1>3, <1>8 DEF IInv, Numbered
  <2> QED BY <1>6, <2>1, <2>2, <2>3 DEF Numbered
<1>11. new.n \notin told
  BY <1>3 DEF IInv, PushTypeOK
<1>12. ToldIsPassed'
  BY <1>3, <1>11 DEF IInv, ToldIsPassed
<1>13. NoneSkipped'
  <2>1. new.id <= cursor[k] => new.again
    <3>1. cursor[k] \in Nat /\ cursor[k] <= given[t]
      BY <1>1 DEF IInv, PushTypeOK
    <3>2. id <= cursor[k] => id <= given[t]
      BY <1>2, <1>4, <3>1
    <3>3. new.id = id /\ new.again = (id <= given[t])
      OBVIOUS
    <3> HIDE DEF new
    <3> QED BY <3>2, <3>3, Zenon
  <2> QED BY <1>3, <2>1 DEF IInv, NoneSkipped
<1> QED BY <1>9, <1>10, <1>12, <1>13 DEF IInv

LEMMA DeleteStep ==
    ASSUME IInv, NEW q \in rows, DeleteRow(q)
    PROVE  IInv'
<1>1. rows' \subseteq rows /\ IsFiniteSet(rows')
  BY FS_Subset DEF IInv, Numbered, DeleteRow
<1>2. /\ given' = given /\ inserted' = inserted /\ cursor' = cursor
      /\ told' = told /\ counted' = {} /\ queryFails' = queryFails
  BY DEF DeleteRow
<1>3. ticking' \in BOOLEAN
  BY DEF IInv, PushTypeOK, DeleteRow
<1>4. PushTypeOK'
  BY <1>1, <1>2, <1>3 DEF IInv, PushTypeOK
<1>5. Numbered'
  BY <1>1, <1>2 DEF IInv, Numbered
<1> QED BY <1>1, <1>2, <1>4, <1>5 DEF IInv, ToldIsPassed, NoneSkipped

-----------------------------------------------------------------------------
(* PushLoop                                                                *)

(* Rows of one kind are rows, and their ids are not above what was given.  *)
LEMMA RowsOfKind ==
    ASSUME IInv, NEW k \in PushKinds
    PROVE  /\ RowsOf(k) \subseteq rows /\ RowsOf(k) \subseteq Row
           /\ cursor[k] \in 0..MaxRows /\ given[Table(k)] \in Nat
           /\ cursor[k] <= given[Table(k)]
           /\ \A r \in RowsOf(k) : /\ r.kind = k /\ r.id \in 1..MaxRows
                                   /\ r.id <= given[Table(k)]
<1>1. Table(k) \in Tables
  BY TableOfKind
<1> QED BY <1>1 DEF IInv, PushTypeOK, Numbered, RowsOf, Row

(* What every step of the loop leaves alone.                               *)
Untouched == rows' = rows /\ given' = given /\ inserted' = inserted

(* A step that tells the rows R and moves the cursors keeps the invariant, *)
(* if the rows told are rows, no cursor gets ahead of the ids, every row   *)
(* told is passed, none that was passed comes back without having been     *)
(* told, and every row passed now was told.                                *)
LEMMA BroadcastStep ==
    ASSUME IInv, Untouched, NEW R, R \subseteq rows, Broadcast(R),
           cursor' \in [PushKinds -> 0..MaxRows],
           \A k \in PushKinds : cursor'[k] <= given[Table(k)],
           \A r \in rows : r.id <= cursor[r.kind] => r.id <= cursor'[r.kind],
           \A r \in R : r.id <= cursor'[r.kind],
           \A r \in rows : r.id <= cursor'[r.kind] => r.id <= cursor[r.kind] \/ r \in R,
           ticking' \in BOOLEAN, queryFails' \in 0..MaxQueryFails
    PROVE  IInv'
<1> USE DEF Untouched
<1>1. counted' = Numbers(R) /\ told' = told \cup Numbers(R)
  BY DEF Broadcast
<1>2. \A r \in rows : r.n \in 1..inserted
  BY DEF IInv, PushTypeOK, Numbered, Row
<1>3. Numbers(R) \subseteq 1..inserted
  BY <1>2 DEF Numbers
<1>4. \A r \in rows : r.n \in Numbers(R) => r \in R
  BY DEF IInv, Numbered, Numbers
<1>5. PushTypeOK'
  <2>1. told' \subseteq 1..inserted' /\ counted' \subseteq told'
    BY <1>1, <1>3 DEF IInv, PushTypeOK
  <2> QED BY <2>1 DEF IInv, PushTypeOK
<1>6. Numbered'
  BY DEF IInv, Numbered
<1>7. ToldIsPassed'
  BY <1>1, <1>4 DEF IInv, ToldIsPassed
<1>8. NoneSkipped'
  BY <1>1 DEF IInv, NoneSkipped, Numbers
<1> QED BY <1>5, <1>6, <1>7, <1>8 DEF IInv

LEMMA FrameConnStatsStep ==
    ASSUME IInv, FrameConnStats
    PROVE  IInv'
<1> DEFINE R == UNION {Above(k) : k \in EvTypes}
<1>1. Untouched /\ Broadcast(R)
  BY DEF FrameConnStats, Untouched
<1>2. ticking' \in BOOLEAN
  BY DEF FrameConnStats
<1>3. queryFails' \in 0..MaxQueryFails
  BY DEF FrameConnStats, IInv, PushTypeOK
<1>4. R \subseteq rows /\ \A r \in R : r.kind \in EvTypes /\ r.id > cursor[r.kind]
  BY DEF Above, RowsOf
<1>5. \A r \in rows : r.kind \in EvTypes /\ r.id > cursor[r.kind] => r \in R
  BY DEF Above, RowsOf
<1> HIDE DEF R
<1>6. EvTypes \subseteq PushKinds
  BY DEF PushKinds
<1>7. ASSUME NEW k \in PushKinds
      PROVE  /\ cursor'[k] \in 0..MaxRows /\ cursor'[k] <= given[Table(k)]
             /\ k \in EvTypes => \A r \in RowsOf(k) : r.id <= cursor'[k]
             /\ k \notin EvTypes => cursor'[k] = cursor[k]
  <2>1. CASE k \notin EvTypes \/ RowsOf(k) = {}
    <3>1. cursor'[k] = cursor[k]
      BY <2>1, MaxIdOfNone DEF FrameConnStats
    <3> QED BY <2>1, <3>1, RowsOfKind
  <2>2. CASE k \in EvTypes /\ RowsOf(k) # {}
    <3>1. cursor'[k] = MaxId(RowsOf(k), cursor[k])
      BY <2>2 DEF FrameConnStats
    <3>2. /\ \E r \in RowsOf(k) : r.id = cursor'[k]
          /\ \A r \in RowsOf(k) : r.id <= cursor'[k]
      <4>1. RowsOf(k) \subseteq Row /\ RowsOf(k) # {}
        BY <2>2, RowsOfKind
      <4>2. /\ \E r \in RowsOf(k) : r.id = MaxId(RowsOf(k), cursor[k])
            /\ \A r \in RowsOf(k) : r.id <= MaxId(RowsOf(k), cursor[k])
        BY <4>1, MaxIdIsGreatest
      <4> QED BY <3>1, <4>2
    <3> QED BY <2>2, <3>2, RowsOfKind
  <2> QED BY <2>1, <2>2
<1>8. cursor' \in [PushKinds -> 0..MaxRows]
  BY <1>7 DEF FrameConnStats
<1>9. \A r \in rows : /\ r.kind \in PushKinds /\ r.id \in Nat
                       /\ r \in RowsOf(r.kind) /\ cursor[r.kind] \in Nat
  BY DEF IInv, PushTypeOK, Row, RowsOf
<1>10. \A r \in rows : r.id <= cursor[r.kind] => r.id <= cursor'[r.kind]
  BY <1>7, <1>9
<1>11. \A r \in R : r.id <= cursor'[r.kind]
  BY <1>4, <1>7, <1>9
<1>12. \A r \in rows : r.id <= cursor'[r.kind] => r.id <= cursor[r.kind] \/ r \in R
  BY <1>5, <1>7, <1>9
<1> QED BY <1>1, <1>2, <1>3, <1>4, <1>7, <1>8, <1>10, <1>11, <1>12, BroadcastStep

LEMMA ConnStatsFailStep ==
    ASSUME IInv, ConnStatsFail
    PROVE  IInv'
<1>1. /\ rows' = rows /\ given' = given /\ inserted' = inserted /\ cursor' = cursor
      /\ told' = told /\ counted' = {}
  BY DEF ConnStatsFail
<1>2. ticking' \in BOOLEAN
  BY DEF ConnStatsFail
<1>3. queryFails' \in 0..MaxQueryFails
  BY Constants DEF ConnStatsFail, IInv, PushTypeOK
<1>4. PushTypeOK'
  BY <1>1, <1>2, <1>3 DEF IInv, PushTypeOK
<1> QED BY <1>1, <1>4 DEF IInv, Numbered, ToldIsPassed, NoneSkipped

LEMMA SendSystemStep ==
    ASSUME IInv, NEW R \in Prefixes, SendSystem(R), queryFails' \in 0..MaxQueryFails
    PROVE  IInv'
<1> DEFINE last == cursor'["system"]
<1>1. Untouched /\ Broadcast(R)
  BY DEF SendSystem, Untouched
<1>2. ticking' \in BOOLEAN
  BY DEF SendSystem
<1>3. "system" \in PushKinds /\ cursor \in [PushKinds -> 0..MaxRows]
  BY DEF PushKinds, IInv, PushTypeOK
<1>4. cursor' = [cursor EXCEPT !["system"] = MaxId(R, cursor["system"])]
  BY DEF SendSystem
<1>5. last = MaxId(R, cursor["system"])
  BY <1>3, <1>4
<1>6. /\ R \subseteq RowsOf("system") /\ \A r \in R : r.id > cursor["system"]
      /\ \A r \in R, s \in RowsOf("system") :
            s.id > cursor["system"] /\ s.id < r.id => s \in R
  BY DEF Prefixes, Above
<1>7. /\ RowsOf("system") \subseteq rows /\ RowsOf("system") \subseteq Row
      /\ cursor["system"] \in 0..MaxRows /\ given[Table("system")] \in Nat
      /\ cursor["system"] <= given[Table("system")]
      /\ \A r \in RowsOf("system") : /\ r.kind = "system" /\ r.id \in 1..MaxRows
                                      /\ r.id <= given[Table("system")]
  BY <1>3, RowsOfKind
<1> HIDE DEF last
<1>8. /\ last \in 0..MaxRows /\ last <= given[Table("system")]
      /\ cursor["system"] <= last
      /\ \A r \in R : r.id <= last
      /\ \A r \in RowsOf("system") : r.id <= last => r.id <= cursor["system"] \/ r \in R
  <2>1. CASE R = {}
    <3>1. last = cursor["system"]
      BY <1>5, <2>1, MaxIdOfNone
    <3> QED BY <1>7, <2>1, <3>1
  <2>2. CASE R # {}
    <3>1. R \subseteq Row
      BY <1>6, <1>7
    <3>2. PICK q \in R : q.id = last
      BY <1>5, <2>2, <3>1, MaxIdIsGreatest
    <3>3. \A r \in R : r.id <= last
      BY <1>5, <2>2, <3>1, MaxIdIsGreatest
    <3>4. q \in RowsOf("system") /\ q \in rows /\ q.kind = "system"
      BY <1>6, <1>7
    <3>5. /\ last \in 1..MaxRows /\ last <= given[Table("system")]
          /\ cursor["system"] <= last
      BY <1>6, <1>7, <3>2, <3>4
    <3>6. ASSUME NEW r \in RowsOf("system"), r.id <= last, r.id > cursor["system"]
          PROVE  r \in R
      <4>1. CASE r.id < last
        BY <1>6, <3>2, <3>6, <4>1
      <4>2. CASE r.id = last
        <5>1. r = q
          BY <1>7, <3>2, <3>4, <4>2 DEF IInv, PushTypeOK
        <5> QED BY <5>1
      <4> QED BY <1>7, <3>5, <3>6, <4>1, <4>2
    <3> QED BY <1>7, <3>3, <3>5, <3>6
  <2> QED BY <2>1, <2>2
<1>9. \A k \in PushKinds : k # "system" => cursor'[k] = cursor[k]
  BY <1>3, <1>4
<1>10. cursor'["system"] = last
  BY DEF last
<1>11. cursor' \in [PushKinds -> 0..MaxRows]
  BY <1>3, <1>4, <1>5, <1>8
<1>12. \A k \in PushKinds : cursor'[k] <= given[Table(k)]
  BY <1>8, <1>9, <1>10, RowsOfKind
<1>13. \A r \in rows : /\ r.kind \in PushKinds /\ r.id \in Nat /\ r \in RowsOf(r.kind)
  BY DEF IInv, PushTypeOK, Row, RowsOf
<1>14. \A r \in rows : r.id <= cursor[r.kind] => r.id <= cursor'[r.kind]
  BY <1>7, <1>8, <1>9, <1>10, <1>13
<1>15. \A r \in R : r.id <= cursor'[r.kind]
  BY <1>6, <1>7, <1>8, <1>10
<1>16. \A r \in rows : r.id <= cursor'[r.kind] => r.id <= cursor[r.kind] \/ r \in R
  BY <1>8, <1>9, <1>10, <1>13
<1>17. R \subseteq rows
  BY <1>6, <1>7
<1> QED BY <1>1, <1>2, <1>11, <1>12, <1>14, <1>15, <1>16, <1>17, BroadcastStep

-----------------------------------------------------------------------------
(* Theorems                                                                *)

LEMMA StepIInv == IInv /\ [PushNext]_pushVars => IInv'
<1> SUFFICES ASSUME IInv, [PushNext]_pushVars PROVE IInv'
  OBVIOUS
<1>1. ASSUME NEW k \in PushKinds, InsertRow(k) PROVE IInv'
  BY <1>1, InsertStep
<1>2. ASSUME NEW r \in rows, DeleteRow(r) PROVE IInv'
  BY <1>2, DeleteStep
<1>3. CASE FrameConnStats
  BY <1>3, FrameConnStatsStep
<1>4. CASE ConnStatsFail
  BY <1>4, ConnStatsFailStep
<1>5. CASE FrameSystem
  <2>1. PICK R \in Prefixes : SendSystem(R) /\ UNCHANGED queryFails
    BY <1>5 DEF FrameSystem
  <2>2. queryFails' \in 0..MaxQueryFails
    BY <2>1 DEF IInv, PushTypeOK
  <2> QED BY <2>1, <2>2, SendSystemStep
<1>6. CASE SystemFail
  <2>1. PICK R \in Prefixes : SendSystem(R)
    BY <1>6 DEF SystemFail
  <2>2. queryFails' \in 0..MaxQueryFails
    BY <1>6, Constants DEF SystemFail, IInv, PushTypeOK
  <2> QED BY <2>1, <2>2, SendSystemStep
<1>7. CASE UNCHANGED pushVars
  BY <1>7 DEF pushVars, IInv, PushTypeOK, Numbered, ToldIsPassed, NoneSkipped
<1> QED BY <1>1, <1>2, <1>3, <1>4, <1>5, <1>6, <1>7 DEF PushNext, PushLoop

LEMMA Invariance == PushSpec => []IInv
BY InitIInv, StepIInv, PTL DEF PushSpec

(* PushLoop: the cursors stay within the ids given out.                    *)
THEOREM PushTypeCorrect == PushSpec => []PushTypeOK
<1>1. IInv => PushTypeOK
  BY DEF IInv
<1> QED BY <1>1, Invariance, PTL

(* PushLoop: a row that a cursor has passed was told, whatever is deleted  *)
(* and whatever query fails, unless it has the id of a row that is gone.   *)
THEOREM NoRowIsSkipped == PushSpec => []NoneSkipped
<1>1. IInv => NoneSkipped
  BY DEF IInv
<1> QED BY <1>1, Invariance, PTL

(* A step that puts rows above their cursors into a frame puts no row into *)
(* it that was told before.                                                *)
LEMMA AboveIsNew ==
    ASSUME IInv, NEW R, R \subseteq rows, \A r \in R : r.id > cursor[r.kind]
    PROVE  Numbers(R) \cap told = {}
<1>1. \A r \in R : r.id \in Nat /\ cursor[r.kind] \in Nat
  BY DEF IInv, PushTypeOK, Row
<1>2. \A r \in R : r.n \notin told
  BY <1>1 DEF IInv, ToldIsPassed
<1> QED BY <1>2 DEF Numbers

(* PushLoop: no row is counted or sent twice, although cursors move back   *)
(* after deletions and failed queries are asked again.                     *)
THEOREM ToldOnce == PushSpec => CountedOnce
<1>1. IInv /\ [PushNext]_pushVars => [counted' \cap told = {}]_pushVars
  <2> SUFFICES ASSUME IInv, PushNext PROVE counted' \cap told = {}
    OBVIOUS
  <2>1. CASE (\E k \in PushKinds : InsertRow(k)) \/ (\E r \in rows : DeleteRow(r)) \/ ConnStatsFail
    BY <2>1 DEF InsertRow, DeleteRow, ConnStatsFail
  <2>2. CASE FrameConnStats
    <3> DEFINE R == UNION {Above(k) : k \in EvTypes}
    <3>1. R \subseteq rows /\ \A r \in R : r.id > cursor[r.kind]
      BY DEF Above, RowsOf
    <3>2. counted' = Numbers(R)
      BY <2>2 DEF FrameConnStats, Broadcast
    <3> HIDE DEF R
    <3> QED BY <3>1, <3>2, AboveIsNew
  <2>3. CASE FrameSystem \/ SystemFail
    <3>1. PICK R \in Prefixes : SendSystem(R)
      BY <2>3 DEF FrameSystem, SystemFail
    <3>2. R \subseteq rows /\ \A r \in R : r.id > cursor[r.kind]
      BY DEF Prefixes, Above, RowsOf
    <3>3. counted' = Numbers(R)
      BY <3>1 DEF SendSystem, Broadcast
    <3> QED BY <3>2, <3>3, AboveIsNew
  <2> QED BY <2>1, <2>2, <2>3 DEF PushNext, PushLoop
<1> QED BY <1>1, Invariance, PTL DEF PushSpec, CountedOnce

-----------------------------------------------------------------------------
(* Requests                                                                *)

(* The queue of the page is an order of the requests that wait: as the      *)
(* array of the code has it, each of them once.                            *)
IsOrder(q) ==
    /\ q \subseteq Keys \X Keys
    /\ \A e \in q : <<e[1], e[1]>> \in q /\ <<e[2], e[2]>> \in q
    /\ \A j, k \in Waiting(q) : <<j, k>> \in q \/ <<k, j>> \in q
    /\ \A j, k \in Waiting(q) : <<j, k>> \in q /\ <<k, j>> \in q => j = k
    /\ \A i, j, k \in Waiting(q) : <<i, j>> \in q /\ <<j, k>> \in q => <<i, k>> \in q

-----------------------------------------------------------------------------
(* The queue                                                               *)

LEMMA WaitingType ==
    ASSUME NEW q, IsOrder(q)
    PROVE  /\ Waiting(q) \subseteq Keys
           /\ \A k : k \in Waiting(q) <=> <<k, k>> \in q
           /\ \A j, k : <<j, k>> \in q => j \in Waiting(q) /\ k \in Waiting(q)
<1>1. \A e \in q : e = <<e[1], e[2]>> /\ e[1] \in Keys /\ e[2] \in Keys
  BY DEF IsOrder
<1>2. \A j, k : <<j, k>> \in q => <<j, j>> \in q /\ <<k, k>> \in q
  <2> SUFFICES ASSUME NEW j, NEW k, <<j, k>> \in q PROVE <<j, j>> \in q /\ <<k, k>> \in q
    OBVIOUS
  <2>1. <<j, k>>[1] = j /\ <<j, k>>[2] = k
    OBVIOUS
  <2> QED BY <2>1 DEF IsOrder
<1>3. \A k : <<k, k>> \in q => k \in Waiting(q)
  <2> SUFFICES ASSUME NEW k, <<k, k>> \in q PROVE k \in Waiting(q)
    OBVIOUS
  <2>1. <<k, k>>[1] = k
    OBVIOUS
  <2> QED BY <2>1, Zenon DEF Waiting
<1>4. \A k : k \in Waiting(q) => <<k, k>> \in q /\ k \in Keys
  BY <1>1 DEF Waiting, IsOrder
<1> QED BY <1>2, <1>3, <1>4

LEMMA EmptyOrder == IsOrder({}) /\ Waiting({}) = {}
BY DEF IsOrder, Waiting

(* push: the new request is the last.                                      *)
LEMMA PutLastOrder ==
    ASSUME NEW q, IsOrder(q), NEW k \in Keys, k \notin Waiting(q)
    PROVE  IsOrder(PutLast(q, k)) /\ Waiting(PutLast(q, k)) = Waiting(q) \cup {k}
<1> DEFINE p == PutLast(q, k)
           W == Waiting(q) \cup {k}
<1>1. \A i, j : <<i, j>> \in p <=> <<i, j>> \in q \/ (i \in W /\ j = k)
  BY DEF PutLast
<1>2. \A e \in p : e = <<e[1], e[2]>> /\ e[1] \in W /\ e[2] \in W
  BY WaitingType DEF PutLast, IsOrder
<1>3. \A i, j : <<i, j>> \in q => i # k /\ j # k
  BY WaitingType
<1>4. \A i \in W : <<i, i>> \in p
  BY <1>1, WaitingType
<1>5. Waiting(p) = W
  BY <1>2, <1>4 DEF Waiting
<1>6. p \subseteq Keys \X Keys
  BY <1>2, WaitingType
<1>7. \A i, j \in W : <<i, j>> \in p \/ <<j, i>> \in p
  BY <1>1 DEF IsOrder
<1>8. \A i, j \in W : <<i, j>> \in p /\ <<j, i>> \in p => i = j
  BY <1>1, <1>3 DEF IsOrder
<1>9. \A h, i, j \in W : <<h, i>> \in p /\ <<i, j>> \in p => <<h, j>> \in p
  BY <1>1, <1>3 DEF IsOrder
<1> HIDE DEF p, W
<1>10. IsOrder(p)
  BY <1>2, <1>4, <1>5, <1>6, <1>7, <1>8, <1>9 DEF IsOrder
<1> QED BY <1>5, <1>10 DEF p, W

(* splice: the others keep their order.                                    *)
LEMMA LeftOrder ==
    ASSUME NEW q, IsOrder(q), NEW started
    PROVE  IsOrder(Left(q, started)) /\ Waiting(Left(q, started)) = Waiting(q) \ started
<1> DEFINE p == Left(q, started)
           W == Waiting(q) \ started
<1>1. \A i, j : <<i, j>> \in p <=> <<i, j>> \in q /\ i \notin started /\ j \notin started
  BY DEF Left
<1>2. \A e \in p : e = <<e[1], e[2]>> /\ e[1] \in W /\ e[2] \in W
  BY WaitingType DEF Left, IsOrder
<1>3. \A i \in W : <<i, i>> \in p
  BY <1>1, WaitingType
<1>4. Waiting(p) = W
  BY <1>2, <1>3 DEF Waiting
<1>5. p \subseteq Keys \X Keys
  BY <1>2, WaitingType
<1>6. \A i, j \in W : <<i, j>> \in p \/ <<j, i>> \in p
  BY <1>1 DEF IsOrder
<1>7. \A i, j \in W : <<i, j>> \in p /\ <<j, i>> \in p => i = j
  BY <1>1 DEF IsOrder
<1>8. \A h, i, j \in W : <<h, i>> \in p /\ <<i, j>> \in p => <<h, j>> \in p
  BY <1>1 DEF IsOrder
<1> HIDE DEF p, W
<1>9. IsOrder(p)
  BY <1>2, <1>3, <1>4, <1>5, <1>6, <1>7, <1>8 DEF IsOrder
<1> QED BY <1>4, <1>9 DEF p, W

LEMMA KeysAreFinite == IsFiniteSet(Keys)
<1>1. IsFiniteSet(0..MaxSeq)
  BY FS_Interval, RequestsAssumption
<1> QED BY <1>1, FS_Product, RequestsAssumption DEF Keys

(* The number of a request among those that are ready.                     *)
Ahead(k, ready, q) == {j \in ready : <<j, k>> \in q}

LEMMA NumberType ==
    ASSUME NEW q, IsOrder(q), NEW ready \in SUBSET Waiting(q), NEW k \in ready
    PROVE  /\ IsFiniteSet(Ahead(k, ready, q)) /\ k \in Ahead(k, ready, q)
           /\ IsFiniteSet(ready) /\ Cardinality(ready) \in Nat
           /\ Cardinality(Ahead(k, ready, q)) \in 1..Cardinality(ready)
<1>1. IsFiniteSet(ready)
  BY KeysAreFinite, WaitingType, FS_Subset
<1>2. Ahead(k, ready, q) \subseteq ready /\ k \in Ahead(k, ready, q)
  BY WaitingType DEF Ahead
<1>3. /\ IsFiniteSet(Ahead(k, ready, q)) /\ Cardinality(Ahead(k, ready, q)) \in Nat
      /\ Cardinality(ready) \in Nat /\ Cardinality(Ahead(k, ready, q)) <= Cardinality(ready)
  BY <1>1, <1>2, FS_Subset, FS_CardinalityType
<1>4. Cardinality(Ahead(k, ready, q)) # 0
  BY <1>2, <1>3, FS_EmptySet
<1> QED BY <1>1, <1>2, <1>3, <1>4

(* Each request that is ready has a number of its own: there are no more    *)
(* requests with numbers from a + 1 to b than numbers.                      *)
LEMMA Numbering ==
    ASSUME NEW q, IsOrder(q), NEW ready \in SUBSET Waiting(q), NEW F \in SUBSET ready,
           NEW a \in Nat, NEW b \in Nat, a <= b,
           \A k \in F : Cardinality(Ahead(k, ready, q)) \in (a + 1)..b
    PROVE  Cardinality(F) <= b - a
<1> DEFINE number == [k \in F |-> Cardinality(Ahead(k, ready, q))]
<1>1. ASSUME NEW j \in F, NEW k \in F, j # k, <<j, k>> \in q
      PROVE  number[j] # number[k]
  <2>1. Ahead(j, ready, q) \subseteq Ahead(k, ready, q)
    BY <1>1 DEF IsOrder, Ahead
  <2>2. k \in Ahead(k, ready, q) /\ k \notin Ahead(j, ready, q)
    BY <1>1, NumberType DEF IsOrder, Ahead
  <2>3. IsFiniteSet(Ahead(k, ready, q))
    BY NumberType
  <2> QED BY <2>1, <2>2, <2>3, FS_Subset
<1>2. number \in Injection(F, (a + 1)..b)
  <2>1. number \in [F -> (a + 1)..b]
    OBVIOUS
  <2>2. \A j, k \in F : j # k => number[j] # number[k]
    BY <1>1 DEF IsOrder
  <2> HIDE DEF number
  <2> QED BY <2>1, <2>2 DEF Injection, IsInjective
<1>3. IsFiniteSet((a + 1)..b) /\ Cardinality((a + 1)..b) = b - a
  <2>1. a + 1 \in Int /\ b \in Int
    OBVIOUS
  <2>2. IsFiniteSet((a + 1)..b)
    BY <2>1, FS_Interval
  <2>3. CASE a = b
    <3>1. (a + 1)..b = {}
      BY <2>3
    <3> QED BY <2>2, <2>3, <3>1, FS_EmptySet
  <2>4. CASE a < b
    <3>1. Cardinality((a + 1)..b) = b - (a + 1) + 1
      BY <2>1, <2>4, FS_Interval
    <3> QED BY <2>2, <3>1
  <2> QED BY <2>3, <2>4
<1> QED BY <1>2, <1>3, FS_Injection

(* As many start as there are free places, or all that are ready.           *)
LEMMA FirstBound ==
    ASSUME NEW q, IsOrder(q), NEW ready \in SUBSET Waiting(q), NEW n \in Nat
    PROVE  /\ First(n, ready, q) \subseteq ready /\ IsFiniteSet(First(n, ready, q))
           /\ Cardinality(First(n, ready, q)) <= n
           /\ Cardinality(ready) \in Nat
           /\ n <= Cardinality(ready) => Cardinality(First(n, ready, q)) = n
<1> DEFINE F == First(n, ready, q)
           R == ready \ F
<1>1. F \subseteq ready /\ IsFiniteSet(ready) /\ IsFiniteSet(F)
  BY KeysAreFinite, WaitingType, FS_Subset DEF First
<1>2. Cardinality(ready) \in Nat /\ Cardinality(F) \in Nat
  BY <1>1, FS_CardinalityType
<1>3. \A k \in ready : k \in F <=> Cardinality(Ahead(k, ready, q)) <= n
  BY DEF First, Ahead
<1>4. \A k \in ready : Cardinality(Ahead(k, ready, q)) \in 1..Cardinality(ready)
  BY NumberType
<1> HIDE DEF F
<1>5. \A k \in F : Cardinality(Ahead(k, ready, q)) \in (0 + 1)..n
  BY <1>1, <1>2, <1>3, <1>4
<1>6. \A k \in R : Cardinality(Ahead(k, ready, q)) \in (n + 1)..Cardinality(ready)
  BY <1>1, <1>2, <1>3, <1>4
<1> HIDE DEF R
<1>7. Cardinality(F) <= n
  <2>1. 0 \in Nat /\ 0 <= n /\ n - 0 = n
    OBVIOUS
  <2>2. Cardinality(F) <= n - 0
    BY <1>1, <1>5, <2>1, Numbering
  <2> QED BY <2>1, <2>2
<1>8. ASSUME n <= Cardinality(ready) PROVE Cardinality(F) = n
  <2>1. R \subseteq ready
    BY DEF R
  <2>2. Cardinality(R) <= Cardinality(ready) - n
    BY <1>2, <1>6, <1>8, <2>1, Numbering
  <2>3. Cardinality(R) = Cardinality(ready) - Cardinality(ready \cap F)
    BY <1>1, FS_Difference DEF R
  <2>4. Cardinality(ready \cap F) = Cardinality(F)
    <3>1. ready \cap F = F
      BY <1>1
    <3> QED BY <3>1
  <2> QED BY <1>2, <1>7, <2>2, <2>3, <2>4
<1> QED BY <1>1, <1>2, <1>7, <1>8 DEF F

(* One heavy request is ready at a time, and only after the gap.            *)
LEMMA OneHeavyReady ==
    ASSUME NEW q, IsOrder(q)
    PROVE  /\ Ready(q) \subseteq Waiting(q)
           /\ \A k \in Ready(q) : Heavy(k) => heavyIn = 0
           /\ \A j, k \in Ready(q) : Heavy(j) /\ Heavy(k) => j = k
<1>1. Ready(q) \subseteq Waiting(q) /\ \A k \in Ready(q) : Heavy(k) => heavyIn = 0
  BY DEF Ready
<1>2. ASSUME NEW j \in Ready(q), NEW k \in Ready(q), Heavy(j), Heavy(k), <<j, k>> \in q
      PROVE  j = k
  <2>1. <<j, k>>[1] = j /\ <<j, k>>[2] = k
    OBVIOUS
  <2> QED BY <1>2, <2>1 DEF Ready
<1> QED BY <1>1, <1>2 DEF IsOrder

-----------------------------------------------------------------------------
(* The invariant                                                           *)

PageOK == /\ seq \in 0..MaxSeq /\ IsOrder(queue)
          /\ active \subseteq Keys /\ expired \subseteq active
          /\ activeCount = Cardinality(active) /\ activeCount <= MaxConcurrency
          /\ Queued \cap active = {}
          /\ \A k \in Queued : Current(k)
          /\ \A k \in active : k[1] <= seq

Owing == owed = {k \in Queued \cup active : ~Aborted(k)}

Timers == (0..2) \cup {NoWake}
TimersOK == /\ heavyIn \in 0..1 /\ cooldown \in 0..2 /\ wake \in Timers
            /\ elsewhere \in Nat /\ public \in BOOLEAN

(* The network has nothing of a request that is not under way, if it can    *)
(* still be asked for; and no answer is awaited that was given up before it *)
(* arrived at the server.                                                  *)
NetOK == /\ net \in [Keys -> NetStates]
         /\ \A k \in Keys \ active : k[1] >= seq => net[k] = "none"
         /\ \A k \in expired : net[k] \notin Travelling

(* The bucket: the page has at most one heavy request that left in this     *)
(* second and one that left in the last, and nobody else's requests         *)
(* interfering there is a token for each of them, and one for the next.     *)
Underway(state) == IF \E k \in Keys : Heavy(k) /\ net[k] = state THEN 1 ELSE 0
HeavyOK ==
    /\ tokens \in 0..HeavyBurst
    /\ \A j, k \in Keys : Heavy(j) /\ Heavy(k) /\ net[j] = "sent" /\ net[k] = "sent" => j = k
    /\ \A j, k \in Keys : Heavy(j) /\ Heavy(k) /\ net[j] = "late" /\ net[k] = "late" => j = k
    /\ \A k \in Keys : Heavy(k) /\ net[k] = "sent" => heavyIn = 1
    /\ ~public => tokens + heavyIn >= 1 + Underway("sent") + Underway("late")

RequestsIInv == PageOK /\ Owing /\ TimersOK /\ NetOK /\ HeavyOK /\ QueueIsServed

LEMMA UnderwayType ==
    ASSUME NEW state
    PROVE  /\ Underway(state) \in 0..1
           /\ Underway(state) = 1 <=> \E k \in Keys : Heavy(k) /\ net[k] = state
BY DEF Underway

LEMMA RequestsLimits == /\ MaxConcurrency \in Nat \ {0} /\ StatsSlots \in Nat \ {0}
                        /\ MaxConcurrency <= StatsSlots /\ MaxSeq \in Nat
                        /\ HeavyBurst \in Nat /\ HeavyBurst >= 2
BY RequestsAssumption

LEMMA RequestsStart == RequestsInit => RequestsIInv
<1> SUFFICES ASSUME RequestsInit PROVE RequestsIInv
  OBVIOUS
<1>1. PageOK /\ Owing
  BY EmptyOrder, FS_EmptySet, RequestsLimits DEF RequestsInit, PageOK, Owing, Queued
<1>2. TimersOK /\ NetOK
  BY DEF RequestsInit, TimersOK, Timers, NetOK, NetStates
<1>3. HeavyOK
  BY RequestsLimits DEF RequestsInit, HeavyOK, Underway
<1>4. QueueIsServed
  BY DEF RequestsInit, QueueIsServed
<1> QED BY <1>1, <1>2, <1>3, <1>4 DEF RequestsIInv

-----------------------------------------------------------------------------
(* What pump does, whoever calls it                                        *)

Starts(started, q, act) ==
    /\ started \subseteq Waiting(q) /\ started \subseteq Keys /\ started \cap act = {}
    /\ IsOrder(queue') /\ Waiting(queue') = Waiting(q) \ started
    /\ active' = act \cup started
    /\ activeCount' = Cardinality(active') /\ activeCount' <= MaxConcurrency
    /\ net' = Sent(started, act)
    /\ \A j, k \in started : Heavy(j) /\ Heavy(k) => j = k
    /\ \A k \in started : Heavy(k) => heavyIn = 0 /\ heavyIn' = 1
    /\ (\A k \in started : ~Heavy(k)) => heavyIn' = heavyIn
    /\ heavyIn' \in 0..1 /\ wake' \in Timers
    /\ QueueIsServed'

LEMMA PumpStarts ==
    ASSUME NEW q, IsOrder(q), NEW act \in SUBSET active, active \subseteq Keys,
           NEW n \in Nat, n = Cardinality(act), n <= MaxConcurrency, Waiting(q) \cap act = {},
           NEW cool \in 0..2, NEW w \in Timers, heavyIn \in 0..1, Pump(q, act, n, cool, w)
    PROVE  \E started : Starts(started, q, act)
<1> DEFINE pending == IF w = 0 THEN NoWake ELSE w
           free == MaxConcurrency - n
           ready == IF cool > 0 THEN {} ELSE Ready(q)
           started == First(free, ready, q)
           gap == IF \E k \in started : Heavy(k) THEN 1 ELSE heavyIn
<1>1. /\ queue' = Left(q, started) /\ active' = act \cup started
      /\ activeCount' = n + Cardinality(started)
      /\ net' = Sent(started, act) /\ heavyIn' = gap
      /\ wake' \in {pending, Earlier(pending, cool), Earlier(pending, gap)}
  BY DEF Pump
<1>2. free \in Nat /\ ready \subseteq Waiting(q) /\ ready \subseteq Ready(q)
  BY OneHeavyReady, RequestsLimits
<1>3. started \subseteq ready /\ IsFiniteSet(started) /\ Cardinality(started) <= free
  BY <1>2, FirstBound
<1>4. Cardinality(ready) \in Nat /\ (free <= Cardinality(ready) => Cardinality(started) = free)
  BY <1>2, FirstBound
<1>5. wake' = IF queue' = {} THEN pending
               ELSE IF cool > 0 THEN Earlier(pending, cool)
               ELSE IF free > Cardinality(ready) THEN Earlier(pending, gap) ELSE pending
  BY DEF Pump
<1>6. /\ \A j, k \in started : Heavy(j) /\ Heavy(k) => j = k
      /\ \A k \in started : Heavy(k) => heavyIn = 0
  BY <1>2, <1>3, OneHeavyReady
<1>7. gap \in 0..1 /\ pending \in Timers
  BY DEF Timers
<1>8. wake' \in Timers
  BY <1>1, <1>7 DEF Earlier, Timers, NoWake
<1> HIDE DEF pending, ready, started
<1>9. /\ started \subseteq Waiting(q) /\ started \subseteq Keys /\ started \cap act = {}
      /\ IsOrder(queue') /\ Waiting(queue') = Waiting(q) \ started
  BY <1>1, <1>2, <1>3, LeftOrder, WaitingType
<1>10. activeCount' = Cardinality(active') /\ activeCount' <= MaxConcurrency
  <2>1. IsFiniteSet(act)
    BY KeysAreFinite, FS_Subset
  <2>2. Cardinality(act \cap started) = 0
    <3>1. act \cap started = {}
      BY <1>9
    <3> QED BY <3>1, FS_EmptySet, Zenon
  <2>3. Cardinality(act) \in Nat /\ Cardinality(started) \in Nat
    BY <1>3, <2>1, FS_CardinalityType
  <2>4. Cardinality(act \cup started)
           = Cardinality(act) + Cardinality(started) - Cardinality(act \cap started)
    BY <1>3, <2>1, FS_Union
  <2> QED BY <1>1, <1>3, <2>2, <2>3, <2>4, RequestsLimits
<1>11. QueueIsServed'
  <2>1. CASE queue' = {}
    BY <2>1 DEF QueueIsServed
  <2>2. CASE queue' # {} /\ cool > 0
    <3>1. wake' = Earlier(pending, cool)
      BY <1>5, <2>2
    <3> QED BY <1>7, <3>1 DEF QueueIsServed, Earlier, Timers, NoWake
  <2>3. CASE queue' # {} /\ ~(cool > 0) /\ free > Cardinality(ready)
    <3>1. wake' = Earlier(pending, gap)
      BY <1>5, <2>3
    <3> QED BY <1>7, <3>1 DEF QueueIsServed, Earlier, Timers, NoWake
  <2>4. CASE ~(free > Cardinality(ready))
    <3>1. Cardinality(started) = free
      BY <1>2, <1>4, <2>4
    <3> QED BY <1>1, <3>1, RequestsLimits DEF QueueIsServed
  <2> QED BY <2>1, <2>2, <2>3, <2>4
<1>12. Starts(started, q, act)
  BY <1>1, <1>6, <1>7, <1>8, <1>9, <1>10, <1>11 DEF Starts
<1> QED BY <1>12

(* The requests that start leave; those that settle leave nothing behind,   *)
(* unless their view is gone.                                              *)
LEMMA StartsNet ==
    ASSUME NetOK, NEW q, NEW act \in SUBSET active, NEW started, Starts(started, q, act),
           active \subseteq Keys, seq \in Nat, seq' \in Nat, seq <= seq',
           expired' \subseteq act \cap expired,
           \A k \in active \ act : k[1] >= seq' => ~GoesOn(k)
    PROVE  NetOK'
<1>1. net' = Sent(started, act) /\ active' = act \cup started /\ started \cap act = {}
      /\ started \subseteq Keys
  BY DEF Starts
<1>2. \A k \in Keys : /\ k \in started => net'[k] = "sent"
                      /\ k \notin started /\ k \in active \ act /\ ~GoesOn(k) => net'[k] = "none"
                      /\ k \notin started /\ (k \notin active \ act \/ GoesOn(k)) => net'[k] = net[k]
  BY <1>1 DEF Sent
<1>3. net' \in [Keys -> NetStates]
  BY <1>1 DEF Sent, NetOK, NetStates, Travelling
<1>4. ASSUME NEW k \in Keys \ active', k[1] >= seq'
      PROVE  net'[k] = "none"
  <2>1. k \notin started /\ k \notin act
    BY <1>1
  <2>2. CASE k \in active
    BY <1>2, <1>4, <2>1, <2>2
  <2>3. CASE k \notin active
    <3>1. k[1] \in Nat
      BY RequestsLimits DEF Keys
    <3>2. k[1] >= seq
      BY <1>4, <3>1
    <3> QED BY <1>2, <2>1, <2>3, <3>2 DEF NetOK
  <2> QED BY <2>2, <2>3
<1>5. ASSUME NEW k \in expired'
      PROVE  net'[k] \notin Travelling
  <2>1. k \in act /\ k \in expired /\ k \in Keys /\ k \notin started
    BY <1>1
  <2> QED BY <1>2, <2>1 DEF NetOK
<1> QED BY <1>3, <1>4, <1>5 DEF NetOK

(* A heavy request starts when the gap is over: then the one of before has  *)
(* been on the way for a second, and its token has come back.              *)
LEMMA StartsHeavy ==
    ASSUME HeavyOK, NEW q, NEW act, NEW started, Starts(started, q, act), UNCHANGED <<tokens, public>>,
           heavyIn \in 0..1, public \in BOOLEAN
    PROVE  HeavyOK'
<1>1. net' = Sent(started, act) /\ started \subseteq Keys
  BY DEF Starts
<1>2. \A k \in Keys : net'[k] \in {"none", net[k]} \/ (k \in started /\ net'[k] = "sent")
  BY <1>1 DEF Sent
<1>3. \A k \in Keys : net'[k] = "late" => net[k] = "late"
  BY <1>2
<1>4. \A k \in Keys : net'[k] = "sent" => net[k] = "sent" \/ k \in started
  BY <1>2
<1>5. /\ tokens' = tokens /\ tokens \in 0..HeavyBurst /\ public' = public
      /\ ~public => tokens + heavyIn >= 1 + Underway("sent") + Underway("late")
  BY DEF HeavyOK
<1>6. /\ Underway("sent") \in 0..1 /\ Underway("late") \in 0..1
      /\ Underway("sent")' \in 0..1 /\ Underway("late")' \in 0..1
  BY DEF Underway
<1>7. Underway("late")' <= Underway("late")
  BY <1>3 DEF Underway
<1>8. \A j, k \in Keys : Heavy(j) /\ Heavy(k) /\ net'[j] = "late" /\ net'[k] = "late" => j = k
  BY <1>3 DEF HeavyOK
<1>9. CASE \E k \in started : Heavy(k)
  <2>1. heavyIn = 0 /\ heavyIn' = 1
    BY <1>9 DEF Starts
  <2>2. \A k \in Keys : Heavy(k) => net[k] # "sent"
    BY <2>1 DEF HeavyOK
  <2>3. Underway("sent") = 0
    BY <2>2 DEF Underway
  <2>4. \A j, k \in Keys : Heavy(j) /\ Heavy(k) /\ net'[j] = "sent" /\ net'[k] = "sent" => j = k
    BY <1>4, <2>2 DEF Starts
  <2>5. ~public => tokens' + heavyIn' >= 1 + Underway("sent")' + Underway("late")'
    BY <1>5, <1>6, <1>7, <2>1, <2>3, RequestsLimits
  <2> QED BY <1>5, <1>8, <2>1, <2>4, <2>5 DEF HeavyOK, Heavy
<1>10. CASE \A k \in started : ~Heavy(k)
  <2>1. heavyIn' = heavyIn
    BY <1>10 DEF Starts
  <2>2. \A k \in Keys : Heavy(k) /\ net'[k] = "sent" => net[k] = "sent"
    BY <1>4, <1>10
  <2>3. Underway("sent")' <= Underway("sent")
    BY <2>2 DEF Underway, Heavy
  <2>4. \A j, k \in Keys : Heavy(j) /\ Heavy(k) /\ net'[j] = "sent" /\ net'[k] = "sent" => j = k
    BY <2>2 DEF HeavyOK
  <2>5. ~public => tokens' + heavyIn' >= 1 + Underway("sent")' + Underway("late")'
    BY <1>5, <1>6, <1>7, <2>1, <2>3, RequestsLimits
  <2>6. \A k \in Keys : Heavy(k) /\ net'[k] = "sent" => heavyIn' = 1
    BY <2>1, <2>2 DEF HeavyOK
  <2> QED BY <1>5, <1>8, <2>4, <2>5, <2>6 DEF HeavyOK, Heavy
<1> QED BY <1>9, <1>10

-----------------------------------------------------------------------------
(* The actions                                                             *)

(* Calls of pump that take nothing off active.                             *)
LEMMA WakeKeeps == RequestsIInv /\ WakeFires => RequestsIInv'
<1> SUFFICES ASSUME RequestsIInv, WakeFires PROVE RequestsIInv'
  OBVIOUS
<1>1. /\ Pump(queue, active, activeCount, cooldown, NoWake)
      /\ UNCHANGED <<seq, expired, owed, cooldown, tokens, elsewhere, public>>
  BY DEF WakeFires, serverVars
<1>2. PageOK /\ TimersOK /\ NetOK /\ HeavyOK /\ Owing
  BY DEF RequestsIInv
<1>3. activeCount \in Nat /\ active \subseteq Keys /\ seq \in Nat
  BY <1>2, KeysAreFinite, FS_Subset, FS_CardinalityType, RequestsLimits DEF PageOK
<1>4. NoWake \in Timers
  BY DEF Timers
<1>5. PICK started : Starts(started, queue, active)
  BY <1>1, <1>2, <1>3, <1>4, PumpStarts DEF PageOK, TimersOK, Queued
<1>6. NetOK'
  BY <1>1, <1>2, <1>3, <1>5, StartsNet DEF PageOK
<1>7. HeavyOK'
  BY <1>1, <1>2, <1>5, StartsHeavy DEF TimersOK
<1>8. PageOK'
  BY <1>1, <1>2, <1>5 DEF Starts, PageOK, Queued, Current
<1>9. Owing'
  BY <1>1, <1>2, <1>5 DEF Starts, Owing, Queued, Aborted, Current
<1>10. TimersOK' /\ QueueIsServed'
  BY <1>1, <1>2, <1>5 DEF Starts, TimersOK
<1> QED BY <1>6, <1>7, <1>8, <1>9, <1>10 DEF RequestsIInv

LEMMA EnqueueKeeps == ASSUME RequestsIInv, NEW p \in Paths, Enqueue(p) PROVE RequestsIInv'
<1> DEFINE k == <<seq, p>>
<1>1. PageOK /\ TimersOK /\ NetOK /\ HeavyOK /\ Owing /\ QueueIsServed
  BY DEF RequestsIInv
<1>2. /\ activeCount \in Nat /\ active \subseteq Keys /\ seq \in Nat
      /\ k \in Keys /\ k[1] = seq /\ Current(k)
  BY <1>1, KeysAreFinite, FS_Subset, FS_CardinalityType, RequestsLimits DEF PageOK, Keys, Current
<1>3. /\ owed' = IF k \in expired THEN owed ELSE owed \cup {k}
      /\ UNCHANGED <<seq, expired, cooldown, tokens, elsewhere, public>>
  BY DEF Enqueue, serverVars
<1> HIDE DEF k
<1>4. CASE k \in Queued \cup active
  <2>1. UNCHANGED <<queue, active, activeCount, net, heavyIn, wake>>
    BY <1>4 DEF Enqueue, k
  <2>2. PageOK' /\ TimersOK' /\ NetOK' /\ QueueIsServed'
    BY <1>1, <1>3, <2>1 DEF PageOK, TimersOK, NetOK, Queued, Current, QueueIsServed
  <2>3. HeavyOK'
    BY <1>1, <1>3, <2>1 DEF HeavyOK, Underway
  <2>4. Owing'
    BY <1>1, <1>2, <1>3, <1>4, <2>1 DEF Owing, Aborted, Current, Queued
  <2> QED BY <2>2, <2>3, <2>4 DEF RequestsIInv
<1>5. CASE k \notin Queued \cup active
  <2>1. Pump(PutLast(queue, k), active, activeCount, cooldown, wake)
    BY <1>5 DEF Enqueue, k
  <2>2. /\ IsOrder(PutLast(queue, k)) /\ Waiting(PutLast(queue, k)) = Queued \cup {k}
    BY <1>1, <1>2, <1>5, PutLastOrder DEF PageOK, Queued
  <2>3. Waiting(PutLast(queue, k)) \cap active = {}
    BY <1>1, <1>5, <2>2 DEF PageOK
  <2>4. PICK started : Starts(started, PutLast(queue, k), active)
    BY <1>1, <1>2, <2>1, <2>2, <2>3, PumpStarts DEF PageOK, TimersOK
  <2>5. NetOK'
    BY <1>1, <1>2, <1>3, <2>4, StartsNet DEF PageOK
  <2>6. HeavyOK'
    BY <1>1, <1>3, <2>4, StartsHeavy DEF TimersOK
  <2>7. PageOK'
    <3>1. Queued' \subseteq Queued \cup {k} /\ active' \subseteq active \cup Queued \cup {k}
      BY <2>2, <2>4 DEF Starts, Queued
    <3>2. \A j \in Queued \cup {k} : j[1] = seq
      BY <1>1, <1>2 DEF PageOK, Current
    <3>3. \A j \in Queued' : Current(j)'
      BY <1>3, <3>1, <3>2 DEF Current
    <3>4. \A j \in active' : j[1] <= seq'
      BY <1>1, <1>2, <1>3, <3>1, <3>2 DEF PageOK
    <3>5. Queued' \cap active' = {} /\ expired' \subseteq active' /\ active' \subseteq Keys
      BY <1>1, <1>2, <1>3, <1>5, <2>2, <2>4 DEF Starts, PageOK, Queued
    <3> QED BY <1>1, <1>3, <2>4, <3>3, <3>4, <3>5 DEF Starts, PageOK
  <2>8. Owing'
    <3>1. k \notin expired
      BY <1>1, <1>5 DEF PageOK
    <3>2. Queued' \cup active' = Queued \cup active \cup {k}
      BY <2>2, <2>4 DEF Starts, Queued
    <3> QED BY <1>1, <1>2, <1>3, <3>1, <3>2 DEF Owing, Aborted, Current
  <2>9. TimersOK' /\ QueueIsServed'
    BY <1>1, <1>3, <2>4 DEF Starts, TimersOK
  <2> QED BY <2>5, <2>6, <2>7, <2>8, <2>9 DEF RequestsIInv
<1> QED BY <1>4, <1>5

(* nextReqSeq: nothing waits, and what is under way is aborted.             *)
LEMMA InvalidateKeeps == RequestsIInv /\ Invalidate => RequestsIInv'
<1> SUFFICES ASSUME RequestsIInv, Invalidate PROVE RequestsIInv'
  OBVIOUS
<1>1. /\ seq < MaxSeq /\ seq' = seq + 1 /\ owed' = {}
      /\ Pump({}, active, activeCount, cooldown, wake)
      /\ UNCHANGED <<expired, cooldown, tokens, elsewhere, public>>
  BY DEF Invalidate, serverVars
<1>2. PageOK /\ TimersOK /\ NetOK /\ HeavyOK
  BY DEF RequestsIInv
<1>3. /\ activeCount \in Nat /\ active \subseteq Keys
      /\ seq \in Nat /\ seq' \in 0..MaxSeq /\ seq <= seq' /\ seq < seq'
  BY <1>1, <1>2, KeysAreFinite, FS_Subset, FS_CardinalityType, RequestsLimits DEF PageOK
<1>4. PICK started : Starts(started, {}, active)
  BY <1>1, <1>2, <1>3, EmptyOrder, PumpStarts DEF PageOK, TimersOK
<1>5. Waiting(queue') = {} /\ active' = active /\ IsOrder(queue')
  BY <1>4, EmptyOrder DEF Starts
<1>6. \A k \in active : k[1] \in Nat /\ k[1] <= seq
  BY <1>2, <1>3 DEF PageOK, Keys
<1>7. NetOK'
  BY <1>1, <1>2, <1>3, <1>4, StartsNet DEF PageOK
<1>8. HeavyOK'
  BY <1>1, <1>2, <1>4, StartsHeavy DEF TimersOK
<1>9. PageOK'
  BY <1>1, <1>2, <1>3, <1>4, <1>5, <1>6 DEF Starts, PageOK, Queued
<1>10. Owing'
  BY <1>1, <1>3, <1>5, <1>6 DEF Owing, Queued, Aborted, Current
<1>11. TimersOK' /\ QueueIsServed'
  BY <1>1, <1>2, <1>4 DEF Starts, TimersOK
<1> QED BY <1>7, <1>8, <1>9, <1>10, <1>11 DEF RequestsIInv

LEMMA TimeoutKeeps == ASSUME RequestsIInv, NEW k \in Keys, TimeoutTask(k) PROVE RequestsIInv'
<1>1. /\ k \in active \ expired /\ Current(k) /\ net[k] \notin Travelling
      /\ expired' = expired \cup {k} /\ owed' = owed \ {k}
      /\ UNCHANGED <<seq, queue, active, activeCount, heavyIn, cooldown, wake, net, tokens,
                     elsewhere, public>>
  BY DEF TimeoutTask, timerVars, serverVars
<1>2. PageOK' /\ TimersOK' /\ NetOK' /\ QueueIsServed'
  BY <1>1 DEF RequestsIInv, PageOK, TimersOK, NetOK, Queued, Current, QueueIsServed
<1>3. HeavyOK'
  BY <1>1 DEF RequestsIInv, HeavyOK, Underway
<1>4. Owing'
  BY <1>1 DEF RequestsIInv, Owing, Aborted, Current, Queued
<1> QED BY <1>2, <1>3, <1>4 DEF RequestsIInv

(* The fetch of k settles; its callbacks are gone before.                  *)
LEMMA FinishKeeps ==
    ASSUME RequestsIInv, NEW k \in active, NEW cool \in 0..2, FinishTask(k, cool), cooldown' = cool,
           UNCHANGED <<seq, tokens, public>>, elsewhere' \in Nat,
           owed' = owed \ {k}, Current(k) => ~GoesOn(k)
    PROVE  RequestsIInv'
<1>1. expired' = expired \ {k} /\ Pump(queue, active \ {k}, activeCount - 1, cool, wake)
  BY DEF FinishTask
<1>2. PageOK /\ TimersOK /\ NetOK /\ HeavyOK /\ Owing
  BY DEF RequestsIInv
<1>3. IsFiniteSet(active) /\ active \subseteq Keys /\ seq \in Nat
  BY <1>2, KeysAreFinite, FS_Subset, RequestsLimits DEF PageOK
<1>4. /\ Cardinality(active \ {k}) = activeCount - 1 /\ activeCount - 1 \in Nat
      /\ activeCount - 1 <= MaxConcurrency
  <2>1. Cardinality(active \ {k}) = Cardinality(active) - 1 /\ IsFiniteSet(active \ {k})
    BY <1>3, FS_RemoveElement
  <2>2. Cardinality(active \ {k}) \in Nat /\ Cardinality(active) \in Nat
    BY <1>3, <2>1, FS_CardinalityType
  <2> QED BY <1>2, <2>1, <2>2, RequestsLimits DEF PageOK
<1>5. Waiting(queue) \cap (active \ {k}) = {} /\ active \ {k} \in SUBSET active
  BY <1>2 DEF PageOK, Queued
<1>6. PICK started : Starts(started, queue, active \ {k})
  BY <1>1, <1>2, <1>3, <1>4, <1>5, PumpStarts DEF PageOK, TimersOK
<1>7. \A j \in active \ (active \ {k}) : j[1] >= seq' => ~GoesOn(j)
  <2>1. k[1] \in Nat /\ k[1] <= seq
    BY <1>2, <1>3 DEF PageOK, Keys
  <2>2. k[1] >= seq => Current(k)
    BY <1>3, <2>1 DEF Current
  <2> QED BY <2>2
<1>8. NetOK'
  BY <1>1, <1>2, <1>3, <1>5, <1>6, <1>7, StartsNet DEF PageOK
<1>9. HeavyOK'
  BY <1>2, <1>6, StartsHeavy DEF TimersOK
<1>10. PageOK'
  BY <1>1, <1>2, <1>6 DEF Starts, PageOK, Queued, Current
<1>11. Owing'
  <2>1. Queued' \cup active' = (Queued \cup active) \ {k}
    BY <1>2, <1>6 DEF Starts, PageOK, Queued
  <2> QED BY <1>1, <1>2, <2>1 DEF Owing, Aborted, Current
<1>12. TimersOK' /\ QueueIsServed'
  BY <1>2, <1>6 DEF Starts, TimersOK
<1> QED BY <1>8, <1>9, <1>10, <1>11, <1>12 DEF RequestsIInv

LEMMA SettleKeeps ==
    ASSUME RequestsIInv, NEW k \in Keys, Settle(k) \/ SettleRefused(k) \/ SettleAborted(k)
    PROVE  RequestsIInv'
<1>1. k \in active
  BY DEF Settle, SettleRefused, SettleAborted
<1>2. /\ cooldown \in 0..2 /\ elsewhere \in Nat
      /\ owed = {j \in Queued \cup active : ~Aborted(j)}
      /\ k \in expired => net[k] \notin Travelling
  BY DEF RequestsIInv, TimersOK, Owing, NetOK
<1>3. CASE Settle(k)
  <2>1. Current(k) => ~GoesOn(k)
    BY DEF GoesOn
  <2> QED BY <1>1, <1>2, <1>3, <2>1, FinishKeeps DEF Settle, serverVars
<1>4. CASE SettleRefused(k)
  <2>1. PICK cool \in 0..2 : cooldown' = cool /\ FinishTask(k, cool)
    <3> DEFINE retryAfter == IF net[k] = "busy" THEN 2 ELSE 1
               cool == IF cooldown < retryAfter THEN retryAfter ELSE cooldown
    <3>1. cool \in 0..2
      BY <1>2
    <3> QED BY <1>4, <3>1 DEF SettleRefused
  <2>2. owed' = owed \ {k}
    BY <1>2, <1>4 DEF SettleRefused
  <2>3. Current(k) => ~GoesOn(k)
    BY DEF GoesOn
  <2> QED BY <1>1, <1>2, <1>4, <2>1, <2>2, <2>3, FinishKeeps DEF SettleRefused, serverVars
<1>5. CASE SettleAborted(k)
  <2>1. owed' = owed \ {k} /\ elsewhere' \in Nat
    BY <1>2, <1>5 DEF SettleAborted
  <2>2. Current(k) => ~GoesOn(k)
    BY DEF GoesOn
  <2> QED BY <1>1, <1>2, <1>5, <2>1, <2>2, FinishKeeps DEF SettleAborted
<1> QED BY <1>3, <1>4, <1>5

(* A request at the server moves on: the page does not notice.             *)
LEMMA ServerUntouched ==
    ASSUME RequestsIInv, UNCHANGED <<pageVars, timerVars, public>>, elsewhere' \in Nat
    PROVE  PageOK' /\ Owing' /\ TimersOK' /\ QueueIsServed'
<1>1. PageOK /\ UNCHANGED pageVars => PageOK'
  BY DEF PageOK, pageVars, Queued, Current
<1>2. Owing /\ UNCHANGED pageVars => Owing'
  BY DEF Owing, pageVars, Queued, Aborted, Current
<1>3. TimersOK' /\ QueueIsServed'
  BY DEF RequestsIInv, TimersOK, QueueIsServed, timerVars, pageVars
<1> QED BY <1>1, <1>2, <1>3 DEF RequestsIInv

LEMMA ArriveKeeps == ASSUME RequestsIInv, NEW k \in Keys, Arrive(k) PROVE RequestsIInv'
<1>1. /\ net[k] \in Travelling /\ UNCHANGED <<pageVars, timerVars, elsewhere, public>>
      /\ elsewhere \in Nat /\ heavyIn \in 0..1 /\ public \in BOOLEAN
  BY DEF Arrive, RequestsIInv, TimersOK
<1>2. PICK state \in AtServer \cup Refused : net' = [net EXCEPT ![k] = state]
  BY DEF Arrive, LimitStats, Answered, AtServer, Refused
<1>3. NetOK /\ HeavyOK /\ UNCHANGED <<seq, active, expired, heavyIn>>
  BY <1>1 DEF RequestsIInv, pageVars, timerVars
<1>4. /\ net \in [Keys -> NetStates] /\ state \in NetStates /\ state \notin Travelling
      /\ state # "sent" /\ state # "late"
  BY <1>2, <1>3 DEF NetOK, NetStates, AtServer, Refused, Travelling
<1>5. /\ \A j \in Keys : j # k => net'[j] = net[j]
      /\ net'[k] = state /\ net' \in [Keys -> NetStates]
  BY <1>2, <1>4
<1>6. NetOK'
  <2>1. ASSUME NEW j \in Keys \ active', j[1] >= seq'
        PROVE  net'[j] = "none"
    <3>1. net[j] = "none"
      BY <1>3, <2>1 DEF NetOK
    <3>2. j # k
      BY <1>1, <3>1 DEF Travelling
    <3> QED BY <1>5, <3>1, <3>2
  <2>2. \A j \in expired' : net'[j] \notin Travelling
    BY <1>3, <1>4, <1>5, <1>2 DEF NetOK
  <2> QED BY <1>5, <2>1, <2>2 DEF NetOK
<1>7. HeavyOK'
  <2>1. \A j \in Keys : net'[j] \in {"sent", "late"} => net[j] = net'[j] /\ j # k
    BY <1>4, <1>5
  <2>2. /\ \A i, j \in Keys : Heavy(i) /\ Heavy(j) /\ net'[i] = "sent" /\ net'[j] = "sent" => i = j
        /\ \A i, j \in Keys : Heavy(i) /\ Heavy(j) /\ net'[i] = "late" /\ net'[j] = "late" => i = j
        /\ \A j \in Keys : Heavy(j) /\ net'[j] = "sent" => heavyIn' = 1
    BY <1>3, <2>1 DEF HeavyOK
  <2>3. /\ Underway("sent")' <= Underway("sent") /\ Underway("late")' <= Underway("late")
        /\ {Underway("sent"), Underway("late"), Underway("sent")', Underway("late")'} \subseteq 0..1
    BY <2>1 DEF Underway, Heavy
  <2>4. CASE tokens' = tokens
    <3>1. tokens' \in 0..HeavyBurst
      BY <1>3, <2>4 DEF HeavyOK
    <3>2. ~public => tokens' + heavyIn' >= 1 + Underway("sent")' + Underway("late")'
      BY <1>1, <1>3, <2>3, <2>4, RequestsLimits DEF HeavyOK
    <3> QED BY <1>1, <2>2, <3>1, <3>2 DEF HeavyOK, Heavy
  <2>5. CASE Heavy(k) /\ tokens > 0 /\ tokens' = tokens - 1
    <3>1. tokens' \in 0..HeavyBurst
      BY <1>3, <2>5, RequestsLimits DEF HeavyOK
    <3>2. Underway("sent")' + Underway("late")' <= Underway("sent") + Underway("late") - 1
      <4>1. CASE net[k] = "sent"
        <5>1. \A j \in Keys : Heavy(j) => net'[j] # "sent"
          BY <1>3, <2>1, <2>5, <4>1 DEF HeavyOK
        <5>2. Underway("sent")' = 0 /\ Underway("sent") = 1
          BY <2>5, <4>1, <5>1 DEF Underway, Heavy
        <5> QED BY <2>3, <5>2
      <4>2. CASE net[k] = "late"
        <5>1. \A j \in Keys : Heavy(j) => net'[j] # "late"
          BY <1>3, <2>1, <2>5, <4>2 DEF HeavyOK
        <5>2. Underway("late")' = 0 /\ Underway("late") = 1
          BY <2>5, <4>2, <5>1 DEF Underway, Heavy
        <5> QED BY <2>3, <5>2
      <4> QED BY <1>1, <4>1, <4>2 DEF Travelling
    <3>3. ~public => tokens' + heavyIn' >= 1 + Underway("sent")' + Underway("late")'
      BY <1>1, <1>3, <2>3, <2>5, <3>2, RequestsLimits DEF HeavyOK
    <3> QED BY <1>1, <2>2, <3>1, <3>3 DEF HeavyOK, Heavy
  <2> QED BY <2>4, <2>5 DEF Arrive
<1> QED BY <1>1, <1>6, <1>7, ServerUntouched DEF RequestsIInv

LEMMA ReturnKeeps == ASSUME RequestsIInv, NEW k \in Keys, Return(k) PROVE RequestsIInv'
<1>1. /\ net[k] \in AtServer /\ UNCHANGED <<pageVars, timerVars, tokens, elsewhere, public>>
      /\ elsewhere \in Nat
  BY DEF Return, serverVars, RequestsIInv, TimersOK
<1>2. NetOK /\ HeavyOK /\ UNCHANGED <<seq, active, expired, heavyIn>>
  BY <1>1 DEF RequestsIInv, pageVars, timerVars
<1>3. PICK state \in {"answered", "none"} : net' = [net EXCEPT ![k] = state]
  BY DEF Return, Answered
<1>4. net \in [Keys -> NetStates] /\ state \in NetStates /\ state \notin Travelling
  BY <1>2, <1>3 DEF NetOK, NetStates, Travelling
<1>5. /\ \A j \in Keys : j # k => net'[j] = net[j]
      /\ net'[k] = state /\ net' \in [Keys -> NetStates]
  BY <1>3, <1>4
<1>6. NetOK'
  <2>1. ASSUME NEW j \in Keys \ active', j[1] >= seq'
        PROVE  net'[j] = "none"
    <3>1. net[j] = "none"
      BY <1>2, <2>1 DEF NetOK
    <3>2. j # k
      BY <1>1, <3>1 DEF AtServer
    <3> QED BY <1>5, <3>1, <3>2
  <2>2. \A j \in expired' : net'[j] \notin Travelling
    BY <1>2, <1>3, <1>4, <1>5 DEF NetOK
  <2> QED BY <1>5, <2>1, <2>2 DEF NetOK
<1>7. HeavyOK'
  <2>1. \A j \in Keys : /\ net'[j] = "sent" <=> net[j] = "sent"
                        /\ net'[j] = "late" <=> net[j] = "late"
    BY <1>1, <1>3, <1>5 DEF AtServer
  <2>2. Underway("sent")' = Underway("sent") /\ Underway("late")' = Underway("late")
    BY <2>1 DEF Underway, Heavy
  <2> QED BY <1>1, <1>2, <2>1, <2>2 DEF HeavyOK, Heavy
<1> QED BY <1>1, <1>6, <1>7, ServerUntouched DEF RequestsIInv

(* A second: the gap is over, a token comes back, and what left in it is    *)
(* late.                                                                   *)
LEMMA TickKeeps == RequestsIInv /\ Tick => RequestsIInv'
<1> SUFFICES ASSUME RequestsIInv, Tick PROVE RequestsIInv'
  OBVIOUS
<1>1. /\ \A k \in Keys : net[k] # "late"
      /\ net' = [k \in Keys |-> IF net[k] = "sent" THEN "late" ELSE net[k]]
      /\ heavyIn' = Less(heavyIn) /\ cooldown' = Less(cooldown)
      /\ wake' = IF wake = NoWake THEN NoWake ELSE Less(wake)
      /\ tokens' = AtMost(HeavyBurst, tokens + 1)
      /\ UNCHANGED <<seq, queue, active, activeCount, expired, owed, elsewhere, public>>
  BY DEF Tick, pageVars
<1>2. PageOK /\ Owing /\ TimersOK /\ NetOK /\ HeavyOK
  BY DEF RequestsIInv
<1>3. PageOK' /\ Owing'
  BY <1>1, <1>2 DEF PageOK, Owing, Queued, Current, Aborted
<1>4. TimersOK' /\ heavyIn' = 0
  BY <1>1, <1>2 DEF TimersOK, Less, Timers, NoWake
<1>5. QueueIsServed'
  BY <1>1, <1>2 DEF RequestsIInv, TimersOK, QueueIsServed, Less, Timers, NoWake
<1>6. NetOK'
  <2>1. /\ net' \in [Keys -> NetStates]
        /\ \A k \in Keys : net'[k] = IF net[k] = "sent" THEN "late" ELSE net[k]
    BY <1>1, <1>2 DEF NetOK, NetStates, Travelling
  <2>2. ASSUME NEW k \in expired'
        PROVE  net'[k] \notin Travelling
    <3>1. k \in Keys /\ net[k] \notin Travelling
      BY <1>1, <1>2, <2>2 DEF NetOK, PageOK
    <3> QED BY <2>1, <3>1 DEF Travelling
  <2> QED BY <1>1, <1>2, <2>1, <2>2 DEF NetOK
<1>7. HeavyOK'
  <2>1. \A k \in Keys : net'[k] # "sent" /\ (net'[k] = "late" <=> net[k] = "sent")
    BY <1>1
  <2>2. Underway("sent")' = 0 /\ Underway("late")' = Underway("sent") /\ Underway("late") = 0
    BY <1>1, <2>1 DEF Underway, Heavy
  <2>3. tokens' \in 0..HeavyBurst /\ (tokens' = tokens + 1 \/ tokens' = HeavyBurst)
    BY <1>1, <1>2, RequestsLimits DEF HeavyOK, AtMost
  <2>4. ~public => tokens' + heavyIn' >= 1 + Underway("sent")' + Underway("late")'
    <3>1. Underway("sent") \in 0..1 /\ heavyIn \in 0..1 /\ tokens \in Nat
      BY <1>2, UnderwayType, RequestsLimits DEF TimersOK, HeavyOK
    <3>2. ~public => tokens + heavyIn >= 1 + Underway("sent")
      BY <1>2, <2>2, <3>1 DEF HeavyOK
    <3> QED BY <1>4, <2>2, <2>3, <3>1, <3>2, RequestsLimits
  <2>5. \A j, k \in Keys : Heavy(j) /\ Heavy(k) /\ net'[j] = "late" /\ net'[k] = "late" => j = k
    BY <1>2, <2>1 DEF HeavyOK
  <2> QED BY <1>1, <2>1, <2>3, <2>4, <2>5 DEF HeavyOK, Heavy
<1> QED BY <1>3, <1>4, <1>6, <1>7, <1>5 DEF RequestsIInv

LEMMA StrayKeeps == RequestsIInv /\ StrayReturns => RequestsIInv'
<1> SUFFICES ASSUME RequestsIInv, StrayReturns PROVE RequestsIInv'
  OBVIOUS
<1>1. UNCHANGED <<pageVars, timerVars, net, tokens, public>> /\ elsewhere' \in Nat
  BY DEF StrayReturns, RequestsIInv, TimersOK
<1>2. NetOK' /\ HeavyOK'
  BY <1>1 DEF RequestsIInv, NetOK, HeavyOK, Underway, pageVars, timerVars
<1> QED BY <1>1, <1>2, ServerUntouched DEF RequestsIInv

LEMMA RequestsStep == RequestsIInv /\ [RequestsNext]_requestsVars => RequestsIInv'
<1> SUFFICES ASSUME RequestsIInv, [RequestsNext]_requestsVars PROVE RequestsIInv'
  OBVIOUS
<1>1. CASE UNCHANGED requestsVars
  <2>1. UNCHANGED <<pageVars, timerVars, public>> /\ elsewhere' \in Nat
    BY <1>1 DEF requestsVars, serverVars, RequestsIInv, TimersOK
  <2>2. NetOK' /\ HeavyOK'
    BY <1>1 DEF RequestsIInv, NetOK, HeavyOK, Underway, requestsVars, pageVars, timerVars, serverVars
  <2> QED BY <2>1, <2>2, ServerUntouched DEF RequestsIInv
<1>2. CASE \E k \in Keys : TimeoutTask(k) \/ MovesOn(k)
  BY <1>2, TimeoutKeeps, SettleKeeps, ArriveKeeps, ReturnKeeps DEF MovesOn
<1>3. CASE \E p \in Paths : Enqueue(p)
  BY <1>3, EnqueueKeeps
<1> QED BY <1>1, <1>2, <1>3, WakeKeeps, InvalidateKeeps, TickKeeps, StrayKeeps DEF RequestsNext

(* For any paths, limits and number of views: the fetches that have not     *)
(* settled are counted and within the bound, and a callback waits exactly   *)
(* while its request is queued or under way in the current view; and what  *)
(* waits in the queue has a timer or no free place                         *)
(* (createFetchJSONScheduler).                                             *)
THEOREM CallbacksArePending == RequestsSpec => []RequestsInv
<1>1. ASSUME RequestsIInv PROVE RequestsInv
  <2>1. owed \subseteq Keys
    BY <1>1, WaitingType DEF RequestsIInv, PageOK, Owing, Queued
  <2>2. RequestsTypeOK
    BY <1>1, <2>1 DEF RequestsIInv, PageOK, TimersOK, Timers, NetOK, HeavyOK, RequestsTypeOK, IsOrder
  <2>3. OwedIsPending
    BY <1>1 DEF RequestsIInv, PageOK, Owing, OwedIsPending
  <2> QED BY <1>1, <2>2, <2>3 DEF RequestsInv, RequestsIInv
<1>2. RequestsIInv => RequestsInv
  BY <1>1
<1> QED BY <1>2, RequestsStart, RequestsStep, PTL DEF RequestsSpec

-----------------------------------------------------------------------------
(* Refusals                                                                *)

(* Without others the page holds at most MaxConcurrency - 1 slots while one *)
(* of its requests is on the way.                                          *)
LEMMA SlotFree ==
    ASSUME RequestsIInv, NEW k \in active, net[k] # "slot", elsewhere = 0,
           \A j \in Keys \ active : net[j] # "slot"
    PROVE  Held < StatsSlots
<1> DEFINE S == {j \in Keys : net[j] = "slot"}
<1>1. IsFiniteSet(active) /\ S \subseteq active \ {k} /\ Cardinality(active) <= MaxConcurrency
  BY KeysAreFinite, FS_Subset DEF RequestsIInv, PageOK
<1>2. Cardinality(active \ {k}) = Cardinality(active) - 1 /\ IsFiniteSet(active \ {k})
  BY <1>1, FS_RemoveElement
<1>3. Cardinality(S) <= Cardinality(active \ {k}) /\ IsFiniteSet(S)
  BY <1>1, <1>2, FS_Subset
<1>4. {Cardinality(S), Cardinality(active \ {k}), Cardinality(active)} \subseteq Nat
  BY <1>1, <1>2, <1>3, FS_CardinalityType
<1>5. Held = Cardinality(S) + elsewhere
  BY DEF Held
<1> HIDE DEF S
<1> QED BY <1>1, <1>2, <1>3, <1>4, <1>5, RequestsLimits

(* A request somebody waits for and that is on the way is under way in the  *)
(* page.                                                                   *)
LEMMA OwedIsActive ==
    ASSUME RequestsIInv, NEW k \in owed, net[k] \in Travelling
    PROVE  k \in active /\ k \in Keys
<1>1. k \in Queued \cup active /\ k \in Keys
  BY WaitingType DEF RequestsIInv, Owing, PageOK, Queued
<1>2. ASSUME k \notin active
      PROVE  FALSE
  <2>1. k[1] = seq /\ seq \in Nat
    BY <1>1, <1>2, RequestsLimits DEF RequestsIInv, PageOK, Current
  <2>2. net[k] = "none"
    BY <1>1, <1>2, <2>1 DEF RequestsIInv, NetOK
  <2> QED BY <2>2 DEF Travelling
<1> QED BY <1>1, <1>2

(* Only the limits refuse: a request that is refused in this step arrives.  *)
LEMMA RefusedArrives ==
    ASSUME RequestsIInv, RequestsNext, NEW k \in Keys, net[k] \in Travelling,
           net'[k] \in {"heavy", "busy"}
    PROVE  Arrive(k)
<1>1. net \in [Keys -> NetStates] /\ net[k] \notin {"heavy", "busy", "none"} /\ net[k] # net'[k]
  BY DEF RequestsIInv, NetOK, Travelling
<1>2. ASSUME NEW q, NEW act, NEW n, NEW cool, NEW w, Pump(q, act, n, cool, w)
      PROVE  FALSE
  <2>1. PICK started : net' = Sent(started, act)
    BY <1>2 DEF Pump
  <2>2. net'[k] \in {"sent", "none", net[k]}
    BY <2>1 DEF Sent
  <2> QED BY <1>1, <2>2
<1>3. \A j \in Keys : j # k => ~Arrive(j) /\ ~Return(j)
  BY <1>1 DEF Arrive, Return, LimitStats, Answered
<1>4. ~Return(k)
  BY DEF Return, AtServer, Travelling
<1>5. \A j \in Keys : ~TimeoutTask(j) /\ ~Settle(j) /\ ~SettleRefused(j) /\ ~SettleAborted(j)
  BY <1>1, <1>2 DEF TimeoutTask, Settle, SettleRefused, SettleAborted, FinishTask
<1>6. ~WakeFires /\ ~Invalidate /\ ~StrayReturns
  BY <1>1, <1>2 DEF WakeFires, Invalidate, StrayReturns
<1>7. ~Tick
  BY <1>1 DEF Tick
<1>8. \A p \in Paths : ~Enqueue(p)
  BY <1>1, <1>2 DEF Enqueue
<1> QED BY <1>3, <1>4, <1>5, <1>6, <1>7, <1>8 DEF RequestsNext, MovesOn

(* For any limits that are not below the concurrency of the page: a request *)
(* somebody waits for is refused by the heavy bucket only when others use   *)
(* the API, and for want of a slot only when one is held by others or by a  *)
(* request the page has given up (limitHeavy, limitStats).                 *)
THEOREM RefusalsComeFromOthers == RequestsSpec => RefusedForOthers
<1>1. ASSUME RequestsIInv, RequestsNext, NEW k \in owed, net[k] \in Travelling
      PROVE  /\ net'[k] = "heavy" => public
             /\ net'[k] = "busy" => \/ public \/ elsewhere > 0
                                    \/ \E j \in Keys \ active : net[j] = "slot"
  <2>1. k \in active /\ k \in Keys /\ net \in [Keys -> NetStates]
    BY <1>1, OwedIsActive DEF RequestsIInv, NetOK
  <2>2. ASSUME net'[k] = "heavy" PROVE public
    <3>1. Heavy(k) /\ (tokens = 0 \/ public)
      BY <1>1, <2>1, <2>2, RefusedArrives DEF Arrive, LimitStats, Answered
    <3>2. \/ Underway("sent") = 1 /\ heavyIn \in 0..1 /\ Underway("late") \in 0..1
          \/ Underway("late") = 1 /\ heavyIn \in 0..1 /\ Underway("sent") \in 0..1
      BY <1>1, <2>1, <3>1 DEF Underway, Travelling, RequestsIInv, TimersOK
    <3>3. ~public => tokens + heavyIn >= 1 + Underway("sent") + Underway("late")
      BY <1>1 DEF RequestsIInv, HeavyOK
    <3>4. Underway("sent") = 1 => heavyIn = 1
      BY <1>1 DEF Underway, RequestsIInv, HeavyOK
    <3>5. Underway("late") = 1 /\ heavyIn = 1 /\ ~public => tokens > 0
      BY <1>1, <3>2, <3>3, RequestsLimits DEF RequestsIInv, HeavyOK
    <3>6. tokens = 0 => public
      BY <3>2, <3>3, <3>4, <3>5
    <3> QED BY <3>1, <3>6
  <2>3. ASSUME net'[k] = "busy"
        PROVE  public \/ elsewhere > 0 \/ \E j \in Keys \ active : net[j] = "slot"
    <3>1. Held >= StatsSlots \/ public
      BY <1>1, <2>1, <2>3, RefusedArrives DEF Arrive, LimitStats, Answered
    <3>2. elsewhere \in Nat
      BY <1>1 DEF RequestsIInv, TimersOK
    <3>3. CASE elsewhere = 0 /\ \A j \in Keys \ active : net[j] # "slot"
      <4>1. net[k] # "slot"
        BY <1>1 DEF Travelling
      <4>2. Held < StatsSlots
        BY <1>1, <2>1, <3>3, <4>1, SlotFree
      <4>3. Held \in Nat /\ StatsSlots \in Nat
        <5>1. IsFiniteSet({j \in Keys : net[j] = "slot"})
          BY KeysAreFinite, FS_Subset
        <5> QED BY <3>2, <5>1, FS_CardinalityType, RequestsLimits DEF Held
      <4> QED BY <3>1, <4>2, <4>3
    <3> QED BY <3>2, <3>3
  <2> QED BY <2>2, <2>3
<1>2. RequestsIInv /\ [RequestsNext]_requestsVars
        => [\A k \in owed : net[k] \in Travelling =>
              /\ net'[k] = "heavy" => public
              /\ net'[k] = "busy" => \/ public \/ elsewhere > 0
                                     \/ \E j \in Keys \ active : net[j] = "slot"]_requestsVars
  BY <1>1
<1> QED BY <1>2, RequestsStart, RequestsStep, PTL DEF RequestsSpec, RefusedForOthers
=============================================================================
