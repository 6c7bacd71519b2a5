--------------------------- MODULE HoneypotProofs ---------------------------
(***************************************************************************)
(* Theorems about the honeypot server, for any ports, connections, sources *)
(* and limits: the counters count, Run leaves nothing behind, a source is   *)
(* limited, and a connection records what its protocol allows.             *)
(***************************************************************************)
EXTENDS Honeypot, FiniteSetTheorems, TLAPS

-----------------------------------------------------------------------------
(* The invariant                                                           *)

Places == {"away", "queued", "hand", "slot", "started", "session", "closing"}

\* A connection has its fields; what a session holds is of no concern here.
IsConnection(k) == k = [at |-> k.at, port |-> k.port, src |-> k.src, session |-> k.session,
                        logged |-> k.logged, gave |-> k.gave]

LoopsOK == /\ loop \in [Ports -> {"accept", "govern", "spawn", "gone"}]
           /\ hand \in [Ports -> Conns \cup {None}]

Shape ==
    /\ conn = [c \in Conns |-> conn[c]]
    /\ \A c \in Conns : IsConnection(conn[c]) /\ conn[c].at \in Places
    /\ LoopsOK

(* The accept loop of a port holds a connection of its port, and what is    *)
(* held is held by the loop of its port.                                    *)
HandInv ==
    /\ \A p \in Ports :
          /\ loop[p] = "govern" => hand[p] \in Conns /\ conn[hand[p]].at = "hand"
                                                     /\ conn[hand[p]].port = p
          /\ loop[p] = "spawn" => hand[p] \in Conns /\ conn[hand[p]].at = "slot"
                                                    /\ conn[hand[p]].port = p
    /\ \A c \in Conns :
          /\ conn[c].at = "hand" => /\ conn[c].port \in Ports /\ hand[conn[c].port] = c
                                    /\ loop[conn[c].port] = "govern"
          /\ conn[c].at = "slot" => /\ conn[c].port \in Ports /\ hand[conn[c].port] = c
                                    /\ loop[conn[c].port] = "spawn"

(* How far Run has come.                                                    *)
RunInv ==
    /\ run # "serving" => open = {} /\ \A c \in Conns : conn[c].at # "queued"
    /\ run \in {"conns", "done"} => \A p \in Ports : loop[p] = "gone"
    /\ run = "done" => connWG = 0
    /\ run \in {"serving", "loops", "conns", "done"}

IInv == Shape /\ HandInv /\ SlotAccounting /\ RunInv

-----------------------------------------------------------------------------
(* Counting                                                                *)

(* A set of connections is finite, and one more or less is counted.         *)
LEMMA OneMoreOrLess ==
    ASSUME NEW S \in SUBSET Conns, NEW c \in Conns
    PROVE  /\ Cardinality(S) \in Nat
           /\ c \notin S => Cardinality(S \cup {c}) = Cardinality(S) + 1
           /\ c \in S => Cardinality(S \ {c}) = Cardinality(S) - 1
           /\ Cardinality(S) = 0 => S = {}
<1>1. IsFiniteSet(S)
  BY HoneypotAssumption, FS_Subset
<1>2. Cardinality(S) \in Nat
  BY <1>1, FS_CardinalityType
<1>3. ASSUME c \notin S PROVE Cardinality(S \cup {c}) = Cardinality(S) + 1
  BY <1>1, <1>3, FS_AddElement, Zenon
<1>4. ASSUME c \in S PROVE Cardinality(S \ {c}) = Cardinality(S) - 1
  <2>1. IsFiniteSet(S \ {c}) /\ (S \ {c}) \cup {c} = S /\ c \notin S \ {c}
    BY <1>1, <1>4, FS_Subset
  <2>2. Cardinality((S \ {c}) \cup {c}) = Cardinality(S \ {c}) + 1
    BY <2>1, FS_AddElement, Zenon
  <2>3. Cardinality(S \ {c}) \in Nat
    BY <2>1, FS_CardinalityType
  <2>4. Cardinality(S) = Cardinality(S \ {c}) + 1
    BY <2>1, <2>2, Zenon
  <2> QED BY <2>3, <2>4
<1>5. Cardinality(S) = 0 => S = {}
  BY <1>1, FS_EmptySet
<1> QED BY <1>2, <1>3, <1>4, <1>5

(* A connection that moves into a set of places, out of it, or neither.     *)
LEMMA MoveIsCounted ==
    ASSUME NEW c \in Conns, NEW places,
           \A j \in Conns : j # c => conn'[j].at = conn[j].at
    PROVE  /\ Cardinality(At(places)) \in Nat
           /\ conn[c].at \notin places /\ conn'[c].at \in places =>
                  Cardinality(At(places)') = Cardinality(At(places)) + 1
           /\ conn[c].at \in places /\ conn'[c].at \notin places =>
                  Cardinality(At(places)') = Cardinality(At(places)) - 1
           /\ (conn[c].at \in places <=> conn'[c].at \in places) =>
                  At(places)' = At(places)
<1>1. At(places) \in SUBSET Conns
  BY DEF At
<1>2. ASSUME conn[c].at \notin places, conn'[c].at \in places
      PROVE  At(places)' = At(places) \cup {c} /\ c \notin At(places)
  BY <1>2 DEF At
<1>3. ASSUME conn[c].at \in places, conn'[c].at \notin places
      PROVE  At(places)' = At(places) \ {c} /\ c \in At(places)
  BY <1>3 DEF At
<1>4. ASSUME conn[c].at \in places <=> conn'[c].at \in places
      PROVE  At(places)' = At(places)
  BY <1>4 DEF At
<1> QED BY <1>1, <1>2, <1>3, <1>4, OneMoreOrLess

LEMMA InvInit == Init => IInv
<1> SUFFICES ASSUME Init PROVE IInv
  OBVIOUS
<1>1. Shape /\ HandInv
  BY DEF Init, Shape, HandInv, Idle, Places, IsConnection, LoopsOK
<1>2. \A places : "away" \notin places => Cardinality(At(places)) = 0
  <2>1. ASSUME NEW places, "away" \notin places PROVE At(places) = {}
    BY <2>1 DEF Init, At, Idle
  <2> QED BY <2>1, FS_EmptySet
<1>3. SlotAccounting
  <2>1. /\ Cardinality(At({"slot", "started", "session"})) = 0
        /\ Cardinality(At({"started", "session", "closing"})) = 0
        /\ Cardinality(At({"session", "closing"})) = 0
    BY <1>2
  <2> QED BY <2>1, HoneypotAssumption DEF Init, SlotAccounting, WithSlot
<1>4. RunInv
  BY DEF Init, RunInv
<1> QED BY <1>1, <1>3, <1>4 DEF IInv

-----------------------------------------------------------------------------
(* Steps of a connection                                                   *)

\* What the invariant sees of a step that takes connection c to a place.
Moved(c, place) == /\ Shape'
                   /\ conn'[c].at = place
                   /\ \A j \in Conns : j # c => conn'[j] = conn[j]

(* What becomes of a connection that is replaced.                           *)
LEMMA IsReplaced ==
    ASSUME Shape, LoopsOK', NEW c \in Conns, NEW k, IsConnection(k), NEW place \in Places,
           k.at = place, conn' = [conn EXCEPT ![c] = k]
    PROVE  Moved(c, place) /\ conn'[c] = k
<1>1. /\ conn'[c] = k /\ \A j \in Conns : j # c => conn'[j] = conn[j]
      /\ conn' = [j \in Conns |-> conn'[j]]
  BY DEF Shape
<1>2. \A j \in Conns : IsConnection(conn'[j]) /\ conn'[j].at \in Places
  BY <1>1 DEF Shape
<1> QED BY <1>1, <1>2 DEF Moved, Shape

(* A connection that changes only its place.                                *)
LEMMA ChangesPlace ==
    ASSUME Shape, LoopsOK', NEW c \in Conns, NEW place \in Places,
           conn' = [conn EXCEPT ![c].at = place]
    PROVE  Moved(c, place) /\ conn'[c].port = conn[c].port
<1> DEFINE k == [conn[c] EXCEPT !.at = place]
<1>1. IsConnection(conn[c]) /\ conn' = [conn EXCEPT ![c] = k]
  BY DEF Shape
<1>2. PICK u : u = k
  OBVIOUS
<1>3. u = [at |-> place, port |-> conn[c].port, src |-> conn[c].src,
           session |-> conn[c].session, logged |-> conn[c].logged, gave |-> conn[c].gave]
  BY <1>1, <1>2 DEF IsConnection
<1>4. IsConnection(u) /\ u.at = place /\ u.port = conn[c].port
  BY <1>3 DEF IsConnection
<1>5. conn' = [conn EXCEPT ![c] = u]
  BY <1>1, <1>2
<1> QED BY <1>4, <1>5, IsReplaced

(* The connection that Accept lets in: its source is forgotten.             *)
LEMMA GoesToHand ==
    ASSUME Shape, LoopsOK', NEW c \in Conns,
           conn' = [conn EXCEPT ![c] = [@ EXCEPT !.at = "hand", !.src = None]]
    PROVE  Moved(c, "hand") /\ conn'[c].port = conn[c].port
<1> DEFINE k == [conn[c] EXCEPT !.at = "hand", !.src = None]
<1>1. IsConnection(conn[c]) /\ conn' = [conn EXCEPT ![c] = k]
  BY DEF Shape
<1>2. PICK u : u = k
  OBVIOUS
<1>3. u = [at |-> "hand", port |-> conn[c].port, src |-> None,
           session |-> conn[c].session, logged |-> conn[c].logged, gave |-> conn[c].gave]
  BY <1>1, <1>2 DEF IsConnection
<1>4. IsConnection(u) /\ u.at = "hand" /\ "hand" \in Places /\ u.port = conn[c].port
  BY <1>3 DEF IsConnection, Places
<1>5. conn' = [conn EXCEPT ![c] = u]
  BY <1>1, <1>2
<1> QED BY <1>4, <1>5, IsReplaced

(* The updates of Dial and of Receive.                                      *)
LEMMA FieldsOfNew ==
    ASSUME NEW i, NEW j, IsConnection(i), NEW port, NEW src, NEW session,
           j = [i EXCEPT !.at = "queued", !.port = port, !.src = src, !.session = session]
    PROVE  IsConnection(j) /\ j.at = "queued"
<1>1. j = [at |-> "queued", port |-> port, src |-> src, session |-> session,
           logged |-> i.logged, gave |-> i.gave]
  BY DEF IsConnection
<1> QED BY <1>1 DEF IsConnection

LEMMA FieldsAfterMessage ==
    ASSUME NEW i, NEW j, IsConnection(i), NEW session, NEW logged, NEW gave,
           j = [i EXCEPT !.session = session, !.logged = logged, !.gave = gave]
    PROVE  IsConnection(j) /\ j.at = i.at
<1>1. j = [at |-> i.at, port |-> i.port, src |-> i.src, session |-> session,
           logged |-> logged, gave |-> gave]
  BY DEF IsConnection
<1> QED BY <1>1 DEF IsConnection

(* The counters follow the connection that moves: each counts the places    *)
(* of a part of its way.                                                    *)
LEMMA CountersFollow ==
    ASSUME SlotAccounting, NEW c \in Conns, NEW place, Moved(c, place),
           sem' <= maxConns,
           LET from == conn[c].at
               In(places, n, m) ==
                   IF from \in places
                   THEN IF place \in places THEN m = n ELSE m = n - 1
                   ELSE IF place \in places THEN m = n + 1 ELSE m = n
           IN  /\ In({"slot", "started", "session"}, sem, sem')
               /\ In({"started", "session", "closing"}, connWG, connWG')
               /\ In({"session", "closing"}, active, active')
    PROVE  SlotAccounting'
<1>1. \A j \in Conns : j # c => conn'[j].at = conn[j].at
  BY DEF Moved
<1>2. conn'[c].at = place
  BY DEF Moved
<1>3. sem' = Cardinality(At({"slot", "started", "session"})')
  BY <1>1, <1>2, MoveIsCounted DEF SlotAccounting, WithSlot
<1>4. connWG' = Cardinality(At({"started", "session", "closing"})')
  BY <1>1, <1>2, MoveIsCounted DEF SlotAccounting
<1>5. active' = Cardinality(At({"session", "closing"})')
  BY <1>1, <1>2, MoveIsCounted DEF SlotAccounting
<1> QED BY <1>3, <1>4, <1>5 DEF SlotAccounting, WithSlot

(* The counters are numbers, and no connection is where none is counted.    *)
LEMMA CountersAreNat ==
    ASSUME SlotAccounting
    PROVE  /\ sem \in Nat /\ connWG \in Nat /\ active \in Nat
           /\ connWG = 0 => \A c \in Conns :
                                conn[c].at \notin {"started", "session", "closing"}
<1>1. \A S \in SUBSET Conns : Cardinality(S) \in Nat /\ (Cardinality(S) = 0 => S = {})
  BY HoneypotAssumption, FS_Subset, FS_CardinalityType, FS_EmptySet
<1>2. \A places : At(places) \in SUBSET Conns
  BY DEF At
<1>3. /\ sem = Cardinality(At({"slot", "started", "session"}))
      /\ connWG = Cardinality(At({"started", "session", "closing"}))
      /\ active = Cardinality(At({"session", "closing"}))
  BY DEF SlotAccounting, WithSlot
<1>4. connWG = 0 => At({"started", "session", "closing"}) = {}
  BY <1>1, <1>2, <1>3
<1>5. At({"started", "session", "closing"}) = {} =>
          \A c \in Conns : conn[c].at \notin {"started", "session", "closing"}
  BY DEF At
<1> QED BY <1>1, <1>2, <1>3, <1>4, <1>5

(* A step behind the accept loop leaves the loops and the progress of Run   *)
(* alone.                                                                   *)
LEMMA BehindTheLoop ==
    ASSUME HandInv, RunInv, NEW c \in Conns, NEW place, Moved(c, place),
           conn[c].at \notin {"hand", "slot"}, place \notin {"hand", "slot"},
           place = "queued" => run = "serving",
           UNCHANGED <<run, open, loop, hand>>,
           run = "done" => connWG' = 0
    PROVE  HandInv' /\ RunInv'
<1>1. HandInv'
  BY DEF HandInv, Moved
<1>2. RunInv'
  BY DEF RunInv, Moved
<1> QED BY <1>1, <1>2

-----------------------------------------------------------------------------
(* The steps                                                               *)

(* A client dials; there is a listener only while Run serves.               *)
LEMMA DialKeepsInv ==
    ASSUME IInv, NEW c \in Conns, NEW p \in Ports, NEW s \in Srcs, Dial(c, p, s)
    PROVE  IInv'
<1> DEFINE new == [Idle EXCEPT !.at = "queued", !.port = p, !.src = s,
                               !.session = Begin(proto[p])]
<1>1. PICK k : k = new
  OBVIOUS
<1>2. IsConnection(Idle)
  BY DEF Idle, IsConnection
<1>3. IsConnection(k) /\ k.at = "queued"
  BY <1>1, <1>2, FieldsOfNew
<1>4. conn' = [conn EXCEPT ![c] = k]
  BY <1>1 DEF Dial
<1>5. Shape /\ LoopsOK'
  BY DEF IInv, Shape, LoopsOK, Dial
<1>6. Moved(c, "queued")
  BY <1>3, <1>4, <1>5, IsReplaced DEF Places
<1>7. /\ conn[c].at = "away" /\ p \in open
      /\ UNCHANGED <<run, open, loop, hand, sem, connWG, active>>
  BY DEF Dial, runVars, counters
<1>8. HandInv' /\ RunInv'
  BY <1>6, <1>7, BehindTheLoop DEF IInv, RunInv
<1>9. SlotAccounting'
  BY <1>6, <1>7, CountersFollow DEF IInv, SlotAccounting
<1> QED BY <1>6, <1>8, <1>9 DEF IInv, Moved

(* A connection that the accept loop of port p gives up: it came from the   *)
(* backlog or from the hand of the loop.                                    *)
LEMMA RefuseKeepsInv ==
    ASSUME IInv, NEW p \in Ports, NEW c \in Conns, Refuse(p, c),
           \/ loop[p] = "accept" /\ conn[c].at = "queued"
           \/ loop[p] = "govern" /\ hand[p] = c,
           UNCHANGED <<run, open, sem, connWG, active>>
    PROVE  IInv'
<1>1. IsConnection(Idle) /\ Idle.at = "away"
  BY DEF Idle, IsConnection
<1>2. /\ loop' = [loop EXCEPT ![p] = "accept"] /\ hand' = [hand EXCEPT ![p] = None]
      /\ conn' = [conn EXCEPT ![c] = Idle]
  BY DEF Refuse
<1>3. Shape /\ LoopsOK'
  BY <1>2 DEF IInv, Shape, LoopsOK
<1>4. Moved(c, "away")
  BY <1>1, <1>2, <1>3, IsReplaced DEF Places
<1>5. \/ conn[c].at = "queued" /\ loop[p] = "accept"
      \/ conn[c].at = "hand" /\ conn[c].port = p /\ loop[p] = "govern"
  BY DEF IInv, HandInv
<1>6. HandInv'
  <2>1. \A q \in Ports : q # p => loop'[q] = loop[q] /\ hand'[q] = hand[q]
    BY <1>2, <1>3 DEF Shape, LoopsOK
  <2>2. loop'[p] = "accept" /\ conn'[c].at = "away"
    BY <1>2, <1>3, <1>4 DEF Shape, LoopsOK, Moved
  <2>3. \A j \in Conns : j # c => conn'[j] = conn[j]
    BY <1>4 DEF Moved
  <2>4. \A j \in Conns : j # c /\ conn[j].at \in {"hand", "slot"} => conn[j].port # p
    BY <1>5 DEF IInv, HandInv
  <2>5. \A q \in Ports : q # p /\ loop[q] \in {"govern", "spawn"} => hand[q] # c
    BY <1>5 DEF IInv, HandInv
  <2> QED BY <2>1, <2>2, <2>3, <2>4, <2>5 DEF IInv, HandInv
<1>7. RunInv'
  BY <1>4, <1>2, <1>5 DEF IInv, RunInv, Moved
<1>8. SlotAccounting'
  BY <1>4, <1>5, CountersFollow DEF IInv, SlotAccounting
<1> QED BY <1>4, <1>6, <1>7, <1>8 DEF IInv, Moved

LEMMA AcceptKeepsInv ==
    ASSUME IInv, NEW p \in Ports, NEW c \in Conns, Accept(p, c)
    PROVE  IInv'
<1>0. UNCHANGED <<run, open, sem, connWG, active>>
  BY DEF Accept, runVars, counters
<1>1. CASE loop[p] = "accept" /\ conn[c].at = "queued" /\ Refuse(p, c)
  BY <1>0, <1>1, RefuseKeepsInv
<1>2. CASE /\ loop[p] = "accept" /\ conn[c].at = "queued" /\ conn[c].port = p
           /\ loop' = [loop EXCEPT ![p] = "govern"] /\ hand' = [hand EXCEPT ![p] = c]
           /\ conn' = [conn EXCEPT ![c] = [@ EXCEPT !.at = "hand", !.src = None]]
  <2>1. Shape /\ LoopsOK'
    BY <1>2 DEF IInv, Shape, LoopsOK
  <2>2. Moved(c, "hand") /\ conn'[c].port = p
    BY <1>2, <2>1, GoesToHand
  <2>3. /\ loop'[p] = "govern" /\ hand'[p] = c
        /\ \A q \in Ports : q # p => loop'[q] = loop[q] /\ hand'[q] = hand[q]
    BY <1>2 DEF IInv, Shape, LoopsOK
  <2>4. HandInv'
    BY <1>2, <2>2, <2>3 DEF IInv, HandInv, Moved
  <2>5. RunInv'
    BY <1>0, <1>2, <2>2, <2>3 DEF IInv, RunInv, Moved
  <2>6. SlotAccounting'
    BY <1>0, <1>2, <2>2, CountersFollow DEF IInv, SlotAccounting
  <2> QED BY <2>2, <2>4, <2>5, <2>6 DEF IInv, Moved
<1> QED BY <1>1, <1>2 DEF Accept

LEMMA TakeSlotKeepsInv ==
    ASSUME IInv, NEW p \in Ports, TakeSlot(p)
    PROVE  IInv'
<1>0. loop[p] = "govern" /\ UNCHANGED <<run, open, connWG, active>>
  BY DEF TakeSlot, runVars
<1>1. PICK c \in Conns : c = hand[p] /\ conn[c].at = "hand" /\ conn[c].port = p
  BY <1>0 DEF IInv, HandInv
<1>2. CASE Refuse(p, hand[p]) /\ UNCHANGED sem
  BY <1>0, <1>1, <1>2, RefuseKeepsInv
<1>3. CASE /\ sem < maxConns /\ sem' = sem + 1 /\ UNCHANGED hand
           /\ loop' = [loop EXCEPT ![p] = "spawn"]
           /\ conn' = [conn EXCEPT ![hand[p]].at = "slot"]
  <2>1. Shape /\ LoopsOK' /\ conn' = [conn EXCEPT ![c].at = "slot"]
    BY <1>1, <1>3 DEF IInv, Shape, LoopsOK
  <2>2. Moved(c, "slot") /\ conn'[c].port = p
    BY <1>1, <2>1, ChangesPlace DEF Places
  <2>3. /\ loop'[p] = "spawn" /\ hand' = hand
        /\ \A q \in Ports : q # p => loop'[q] = loop[q]
    BY <1>3 DEF IInv, Shape, LoopsOK
  <2>4. HandInv'
    BY <1>0, <1>1, <2>2, <2>3 DEF IInv, HandInv, Moved
  <2>5. RunInv'
    BY <1>0, <2>2, <2>3 DEF IInv, RunInv, Moved
  <2>6. sem' <= maxConns
    BY <1>3, CountersAreNat, HoneypotAssumption DEF IInv
  <2>7. SlotAccounting'
    BY <1>0, <1>1, <1>3, <2>2, <2>6, CountersFollow DEF IInv
  <2> QED BY <2>2, <2>4, <2>5, <2>7 DEF IInv, Moved
<1> QED BY <1>2, <1>3 DEF TakeSlot

LEMMA SpawnKeepsInv ==
    ASSUME IInv, NEW p \in Ports, Spawn(p)
    PROVE  IInv'
<1>0. loop[p] = "spawn" /\ connWG' = connWG + 1 /\ UNCHANGED <<run, open, sem, active>>
  BY DEF Spawn, runVars
<1>1. PICK c \in Conns : c = hand[p] /\ conn[c].at = "slot" /\ conn[c].port = p
  BY <1>0 DEF IInv, HandInv
<1>2. Shape /\ LoopsOK' /\ conn' = [conn EXCEPT ![c].at = "started"]
  BY <1>1 DEF IInv, Shape, LoopsOK, Spawn
<1>3. Moved(c, "started")
  BY <1>2, ChangesPlace DEF Places
<1>4. /\ loop'[p] = "accept"
      /\ \A q \in Ports : q # p => loop'[q] = loop[q] /\ hand'[q] = hand[q]
  BY DEF IInv, Shape, LoopsOK, Spawn
<1>5. HandInv'
  <2>1. \A j \in Conns : j # c /\ conn[j].at \in {"hand", "slot"} => conn[j].port # p
    BY <1>1 DEF IInv, HandInv
  <2>2. \A q \in Ports : q # p /\ loop[q] \in {"govern", "spawn"} => hand[q] # c
    BY <1>1 DEF IInv, HandInv
  <2> QED BY <1>3, <1>4, <2>1, <2>2 DEF IInv, HandInv, Moved
<1>6. RunInv'
  BY <1>0, <1>3, <1>4 DEF IInv, RunInv, Moved
<1>7. SlotAccounting'
  BY <1>0, <1>1, <1>3, CountersFollow DEF IInv, SlotAccounting
<1> QED BY <1>3, <1>5, <1>6, <1>7 DEF IInv, Moved

LEMMA HandlerBeginsKeepsInv ==
    ASSUME IInv, NEW c \in Conns, HandlerBegins(c)
    PROVE  IInv'
<1>1. /\ conn[c].at = "started" /\ active' = active + 1
      /\ UNCHANGED <<run, open, loop, hand, sem, connWG>>
  BY DEF HandlerBegins, runVars
<1>2. Shape /\ LoopsOK' /\ conn' = [conn EXCEPT ![c].at = "session"]
  BY <1>1 DEF IInv, Shape, LoopsOK, HandlerBegins
<1>3. Moved(c, "session")
  BY <1>2, ChangesPlace DEF Places
<1>4. HandInv' /\ RunInv'
  BY <1>1, <1>3, BehindTheLoop DEF IInv, RunInv
<1>5. SlotAccounting'
  BY <1>1, <1>3, CountersFollow DEF IInv, SlotAccounting
<1> QED BY <1>3, <1>4, <1>5 DEF IInv, Moved

LEMMA ReceiveKeepsInv ==
    ASSUME IInv, NEW c \in Conns, NEW r, NEW valid, Receive(c, r, valid)
    PROVE  IInv'
<1> DEFINE s == conn[c].session
           session == AfterRule(s, r)
           logged == IF Records(s, r) /\ valid THEN conn[c].logged + 1 ELSE conn[c].logged
           gave == conn[c].gave \/ (valid /\ (Records(s, r) \/ r.to = "short"))
<1>1. /\ conn[c].at = "session"
      /\ UNCHANGED <<run, open, loop, hand, sem, connWG, active>>
  BY DEF Receive, runVars, counters
<1>2. conn' = [conn EXCEPT ![c] = [conn[c] EXCEPT !.session = session, !.logged = logged,
                                                  !.gave = gave]]
  BY DEF Receive, IInv, Shape
<1>3. PICK k : k = [conn[c] EXCEPT !.session = session, !.logged = logged, !.gave = gave]
  OBVIOUS
<1> HIDE DEF s, session, logged, gave
<1>4. Shape /\ LoopsOK' /\ conn' = [conn EXCEPT ![c] = k] /\ IsConnection(conn[c])
  BY <1>1, <1>2, <1>3 DEF IInv, Shape, LoopsOK
<1>5. IsConnection(k) /\ k.at = "session"
  BY <1>1, <1>3, <1>4, FieldsAfterMessage
<1>6. Moved(c, "session")
  BY <1>4, <1>5, IsReplaced DEF Places
<1>7. HandInv' /\ RunInv'
  BY <1>1, <1>6, BehindTheLoop DEF IInv, RunInv
<1>8. SlotAccounting'
  BY <1>1, <1>6, CountersFollow DEF IInv, SlotAccounting
<1> QED BY <1>6, <1>7, <1>8 DEF IInv, Moved

LEMMA HandlerEndsKeepsInv ==
    ASSUME IInv, NEW c \in Conns, HandlerEnds(c)
    PROVE  IInv'
<1>1. /\ conn[c].at = "session" /\ sem' = sem - 1
      /\ UNCHANGED <<run, open, loop, hand, connWG, active>>
  BY DEF HandlerEnds, runVars
<1>2. Shape /\ LoopsOK' /\ conn' = [conn EXCEPT ![c].at = "closing"]
  BY <1>1 DEF IInv, Shape, LoopsOK, HandlerEnds
<1>3. Moved(c, "closing")
  BY <1>2, ChangesPlace DEF Places
<1>4. HandInv' /\ RunInv'
  BY <1>1, <1>3, BehindTheLoop DEF IInv, RunInv
<1>5. sem' <= maxConns
  BY <1>1, CountersAreNat, HoneypotAssumption DEF IInv, SlotAccounting
<1>6. SlotAccounting'
  BY <1>1, <1>3, <1>5, CountersFollow DEF IInv
<1> QED BY <1>3, <1>4, <1>6 DEF IInv, Moved

LEMMA ClosedKeepsInv ==
    ASSUME IInv, NEW c \in Conns, Closed(c)
    PROVE  IInv'
<1>1. /\ conn[c].at = "closing" /\ active' = active - 1 /\ connWG' = connWG - 1
      /\ UNCHANGED <<run, open, loop, hand, sem>>
  BY DEF Closed, runVars
<1>2. Shape /\ LoopsOK' /\ conn' = [conn EXCEPT ![c] = Idle]
  BY <1>1 DEF IInv, Shape, LoopsOK, Closed
<1>3. IsConnection(Idle) /\ Idle.at = "away"
  BY DEF Idle, IsConnection
<1>4. Moved(c, "away")
  BY <1>2, <1>3, IsReplaced DEF Places
\* Run still waits for this connection.
<1>5. run # "done"
  BY <1>1, CountersAreNat DEF IInv, RunInv
<1>6. HandInv' /\ RunInv'
  BY <1>1, <1>4, <1>5, BehindTheLoop DEF IInv, RunInv
<1>7. SlotAccounting'
  BY <1>1, <1>4, CountersFollow DEF IInv, SlotAccounting
<1> QED BY <1>4, <1>6, <1>7 DEF IInv, Moved

(* Closing the listeners resets what waits in their backlogs, which no      *)
(* counter counts.                                                          *)
LEMMA CloseListenersKeepsInv == IInv /\ CloseListeners => IInv'
<1> SUFFICES ASSUME IInv, CloseListeners PROVE IInv'
  OBVIOUS
<1>1. /\ run = "serving" /\ run' = "loops" /\ open' = {}
      /\ UNCHANGED <<loop, hand, sem, connWG, active>>
      /\ conn' = [c \in Conns |-> IF conn[c].at = "queued" THEN Idle ELSE conn[c]]
  BY DEF CloseListeners, counters
<1>2. /\ IsConnection(Idle) /\ Idle.at = "away"
  BY DEF Idle, IsConnection
<1>3. \A c \in Conns : /\ conn[c].at = "queued" => conn'[c] = Idle
                       /\ conn[c].at # "queued" => conn'[c] = conn[c]
  <2>1. ASSUME NEW c \in Conns, conn[c].at = "queued" PROVE conn'[c] = Idle
    BY <1>1, <2>1
  <2>2. ASSUME NEW c \in Conns, conn[c].at # "queued" PROVE conn'[c] = conn[c]
    BY <1>1, <2>2
  <2> QED BY <2>1, <2>2
<1>4. Shape'
  <2>1. conn' = [c \in Conns |-> conn'[c]]
    BY <1>1
  <2>2. \A c \in Conns : IsConnection(conn'[c]) /\ conn'[c].at \in Places
    BY <1>2, <1>3 DEF IInv, Shape, Places
  <2> QED BY <1>1, <2>1, <2>2 DEF IInv, Shape, LoopsOK
<1>5. HandInv'
  BY <1>1, <1>2, <1>3 DEF IInv, HandInv
<1>6. RunInv'
  BY <1>1, <1>2, <1>3 DEF RunInv
<1>7. SlotAccounting'
  <2>1. \A c \in Conns : /\ conn[c].at = "queued" => conn'[c].at = "away"
                         /\ conn[c].at # "queued" => conn'[c].at = conn[c].at
    BY <1>2, <1>3
  <2>2. /\ At({"slot", "started", "session"})' = At({"slot", "started", "session"})
        /\ At({"started", "session", "closing"})' = At({"started", "session", "closing"})
        /\ At({"session", "closing"})' = At({"session", "closing"})
    BY <2>1 DEF At
  <2> QED BY <1>1, <2>2 DEF IInv, SlotAccounting, WithSlot
<1> QED BY <1>4, <1>5, <1>6, <1>7 DEF IInv

(* Steps that touch no connection and no counter.                           *)
LEMMA OthersKeepInv ==
    ASSUME IInv,
           \/ UNCHANGED vars \/ Cancel \/ WaitLoops \/ WaitConns
           \/ \E s \in Srcs : WindowEnds(s) \/ MinuteEnds(s)
           \/ \E p \in Ports : LoopEnds(p)
    PROVE  IInv'
<1>1. UNCHANGED <<open, hand, sem, connWG, active, conn>>
  BY DEF vars, Cancel, WaitLoops, WaitConns, WindowEnds, MinuteEnds, LoopEnds, runVars, counters
<1>2. /\ At({"slot", "started", "session"})' = At({"slot", "started", "session"})
      /\ At({"started", "session", "closing"})' = At({"started", "session", "closing"})
      /\ At({"session", "closing"})' = At({"session", "closing"})
  BY <1>1 DEF At
<1>3. SlotAccounting'
  BY <1>1, <1>2 DEF IInv, SlotAccounting, WithSlot
<1>4. CASE UNCHANGED <<run, loop>>
  <2>1. Shape' /\ HandInv' /\ RunInv'
    BY <1>1, <1>4 DEF IInv, Shape, LoopsOK, HandInv, RunInv
  <2> QED BY <1>3, <2>1 DEF IInv
<1>5. CASE WaitLoops \/ WaitConns
  <2>1. /\ UNCHANGED loop
        /\ \/ run = "loops" /\ run' = "conns" /\ \A p \in Ports : loop[p] = "gone"
           \/ run = "conns" /\ run' = "done" /\ connWG = 0
    BY <1>5 DEF WaitLoops, WaitConns
  <2>2. Shape' /\ HandInv' /\ RunInv'
    BY <1>1, <2>1 DEF IInv, Shape, LoopsOK, HandInv, RunInv
  <2> QED BY <1>3, <2>2 DEF IInv
<1>6. ASSUME NEW p \in Ports, LoopEnds(p) PROVE IInv'
  <2>1. UNCHANGED run /\ loop[p] = "accept" /\ loop' = [loop EXCEPT ![p] = "gone"]
    BY <1>6 DEF LoopEnds, runVars
  <2>2. Shape' /\ loop'[p] = "gone" /\ \A q \in Ports : q # p => loop'[q] = loop[q]
    BY <1>1, <2>1 DEF IInv, Shape, LoopsOK
  <2>3. HandInv'
    BY <1>1, <2>1, <2>2 DEF IInv, HandInv
  <2>4. RunInv'
    BY <1>1, <2>1, <2>2 DEF IInv, RunInv
  <2> QED BY <1>3, <2>2, <2>3, <2>4 DEF IInv
<1>7. (\E s \in Srcs : WindowEnds(s) \/ MinuteEnds(s)) \/ Cancel \/ UNCHANGED vars
          => UNCHANGED <<run, loop>>
  BY DEF WindowEnds, MinuteEnds, Cancel, vars, runVars
<1> QED BY <1>4, <1>5, <1>6, <1>7

LEMMA InvStep == IInv /\ [Next]_vars => IInv'
<1> SUFFICES ASSUME IInv, [Next]_vars PROVE IInv'
  OBVIOUS
<1>1. CASE CloseListeners
  BY <1>1, CloseListenersKeepsInv
<1>2. CASE UNCHANGED vars \/ Cancel \/ WaitLoops \/ WaitConns
           \/ \E s \in Srcs : WindowEnds(s) \/ MinuteEnds(s)
  BY <1>2, OthersKeepInv
<1>3. ASSUME NEW c \in Conns, NEW p \in Ports, NEW s \in Srcs, Dial(c, p, s) PROVE IInv'
  BY <1>3, DialKeepsInv
<1>4. ASSUME NEW p \in Ports, Listener(p) PROVE IInv'
  <2>1. ASSUME NEW c \in Conns, Accept(p, c) PROVE IInv'
    BY <2>1, AcceptKeepsInv
  <2>2. CASE TakeSlot(p)
    BY <2>2, TakeSlotKeepsInv
  <2>3. CASE Spawn(p)
    BY <2>3, SpawnKeepsInv
  <2>4. CASE LoopEnds(p)
    BY <2>4, OthersKeepInv
  <2> QED BY <1>4, <2>1, <2>2, <2>3, <2>4 DEF Listener
<1>5. ASSUME NEW c \in Conns, Handler(c) PROVE IInv'
  <2>1. CASE HandlerBegins(c)
    BY <2>1, HandlerBeginsKeepsInv
  <2>2. CASE HandlerEnds(c)
    BY <2>2, HandlerEndsKeepsInv
  <2>3. CASE Closed(c)
    BY <2>3, ClosedKeepsInv
  <2>4. ASSUME NEW r, NEW valid, Receive(c, r, valid) PROVE IInv'
    BY <2>4, ReceiveKeepsInv
  <2> QED BY <1>5, <2>1, <2>2, <2>3, <2>4 DEF Handler
<1> QED BY <1>1, <1>2, <1>3, <1>4, <1>5 DEF Next, Run

-----------------------------------------------------------------------------
(* The limiter                                                             *)

(* Where the table has not been cleared, what a source has been granted in  *)
(* its minute is what its bucket counts; only an open window counts.        *)
LimitInv ==
    /\ count \in [Srcs -> 0 .. ipConnLimit] /\ granted \in [Srcs -> 0 .. ipConnLimit + 1]
    /\ window \in [Srcs -> {"none", "open", "over"}] /\ forgot \in [Srcs -> BOOLEAN]
    /\ \A s \in Srcs : /\ forgot[s] \/ granted[s] = count[s]
                       /\ window[s] # "open" => count[s] = 0

(* When the table is cleared it has more buckets than it may have.          *)
Full == \E w \in [Srcs -> {"none", "open", "over"}] : Cardinality(Open(w)) > MaxBuckets

(* A sweep that does not clear the table leaves open windows open and       *)
(* opens none; one that clears it forgets every minute that runs.           *)
LEMMA AllowKeepsLimit ==
    ASSUME LimitInv, NEW s, allow(s)
    PROVE  /\ LimitInv'
           /\ ~Full /\ (\A t \in Srcs : ~forgot[t]) => \A t \in Srcs : ~forgot'[t]
<1> DEFINE w == [window EXCEPT ![s] = "open"]
           swept == (calls + 1) % SweepEvery = 0 \/ Cardinality(Bucket(w)) > MaxBuckets
           after == IF swept THEN sweep(w) ELSE w
           cleared == swept /\ Cardinality(Open(w)) > MaxBuckets
<1>1. /\ Allowed(s) /\ window' = after
      /\ count' = [t \in Srcs |-> IF after[t] # "open" THEN 0
                                  ELSE IF t = s THEN count[t] + 1 ELSE count[t]]
      /\ granted' = [granted EXCEPT
                       ![s] = IF granted[s] > ipConnLimit THEN granted[s] ELSE granted[s] + 1]
      /\ forgot' = [t \in Srcs |-> forgot[t] \/ (cleared /\ w[t] = "open")]
  BY DEF allow
<1>2. /\ w \in [Srcs -> {"none", "open", "over"}]
      /\ \A t \in Srcs : w[t] = IF t = s THEN "open" ELSE window[t]
  BY DEF LimitInv
<1>3. /\ after \in [Srcs -> {"none", "open", "over"}]
      /\ cleared => \A t \in Srcs : after[t] # "open"
      /\ ~cleared => \A t \in Srcs : after[t] = "open" <=> w[t] = "open"
  <2>1. CASE cleared
    <3>1. after = [t \in Srcs |-> "none"]
      BY <2>1 DEF sweep
    <3> QED BY <2>1, <3>1
  <2>2. CASE swept /\ ~cleared
    <3>1. after = [t \in Srcs |-> IF w[t] = "over" THEN "none" ELSE w[t]]
      BY <2>2 DEF sweep
    <3> QED BY <1>2, <2>2, <3>1
  <2>3. CASE ~swept
    BY <1>2, <2>3
  <2> QED BY <2>1, <2>2, <2>3
<1>4. ~Full => ~cleared
  BY <1>2 DEF Full
<1> HIDE DEF w, swept, after, cleared
<1>5. s \in Srcs => count[s] + 1 \in 0 .. ipConnLimit
  BY <1>1, HoneypotAssumption DEF LimitInv, Allowed
<1>6. ASSUME NEW t \in Srcs
      PROVE  /\ count'[t] \in 0 .. ipConnLimit /\ granted'[t] \in 0 .. ipConnLimit + 1
             /\ forgot'[t] \in BOOLEAN /\ (window'[t] # "open" => count'[t] = 0)
  <2>1. count'[t] = IF after[t] # "open" THEN 0
                    ELSE IF t = s THEN count[t] + 1 ELSE count[t]
    BY <1>1
  <2>2. granted'[t] = IF t = s /\ ~(granted[t] > ipConnLimit) THEN granted[t] + 1
                      ELSE granted[t]
    BY <1>1 DEF LimitInv
  <2>3. granted[t] \in 0 .. ipConnLimit + 1 /\ count[t] \in 0 .. ipConnLimit
    BY DEF LimitInv
  <2>4. count'[t] \in 0 .. ipConnLimit
    BY <1>5, <2>1, <2>3, HoneypotAssumption
  <2>5. granted'[t] \in 0 .. ipConnLimit + 1
    BY <2>2, <2>3, HoneypotAssumption
  <2>6. forgot'[t] = (forgot[t] \/ (cleared /\ w[t] = "open"))
    BY <1>1
  <2>7. forgot'[t] \in BOOLEAN
    BY <2>6
  <2> QED BY <1>1, <2>1, <2>4, <2>5, <2>7
<1>7. ASSUME NEW t \in Srcs PROVE forgot'[t] \/ granted'[t] = count'[t]
  <2>1. forgot'[t] = (forgot[t] \/ (cleared /\ w[t] = "open"))
    BY <1>1
  <2>2. CASE forgot[t] \/ (cleared /\ w[t] = "open")
    BY <2>1, <2>2
  <2>3. CASE ~forgot[t] /\ t = s /\ ~(cleared /\ w[t] = "open")
    <3>1. granted[t] = count[t] /\ w[t] = "open" /\ ~cleared
      BY <1>2, <2>3 DEF LimitInv
    <3>2. count'[t] = count[t] + 1
      BY <1>1, <1>3, <2>3, <3>1
    <3>3. ~(granted[t] > ipConnLimit)
      BY <1>5, <2>3, <3>1, HoneypotAssumption DEF LimitInv
    <3>4. granted'[t] = granted[t] + 1
      BY <1>1, <2>3, <3>3 DEF LimitInv
    <3> QED BY <3>1, <3>2, <3>4
  <2>4. CASE ~forgot[t] /\ t # s /\ ~(cleared /\ w[t] = "open")
    <3>1. granted'[t] = count[t]
      BY <1>1, <2>4 DEF LimitInv
    <3>2. count'[t] = IF after[t] # "open" THEN 0 ELSE count[t]
      BY <1>1, <2>4
    <3>3. after[t] # "open" => count[t] = 0
      BY <1>2, <1>3, <2>4 DEF LimitInv
    <3> QED BY <3>1, <3>2, <3>3
  <2> QED BY <2>2, <2>3, <2>4
<1>8. LimitInv'
  <2>1. /\ count' = [t \in Srcs |-> count'[t]] /\ granted' = [t \in Srcs |-> granted'[t]]
        /\ forgot' = [t \in Srcs |-> forgot'[t]]
    BY <1>1 DEF LimitInv
  <2>2. count' \in [Srcs -> 0 .. ipConnLimit]
    BY <1>6, <2>1
  <2>3. granted' \in [Srcs -> 0 .. ipConnLimit + 1]
    BY <1>6, <2>1
  <2>4. forgot' \in [Srcs -> BOOLEAN]
    BY <1>6, <2>1
  <2> QED BY <1>1, <1>3, <1>6, <1>7, <2>2, <2>3, <2>4 DEF LimitInv
<1>9. ASSUME ~Full, \A t \in Srcs : ~forgot[t] PROVE \A t \in Srcs : ~forgot'[t]
  BY <1>1, <1>4, <1>9
<1> QED BY <1>8, <1>9

LEMMA LimitInit == Init => LimitInv
BY HoneypotAssumption DEF Init, LimitInv

LEMMA LimitStep == LimitInv /\ [Next]_vars => LimitInv'
<1> SUFFICES ASSUME LimitInv, [Next]_vars PROVE LimitInv'
  OBVIOUS
<1>1. ASSUME NEW s \in Srcs, WindowEnds(s) PROVE LimitInv'
  <2>1. /\ window' = [window EXCEPT ![s] = "over"] /\ count' = [count EXCEPT ![s] = 0]
        /\ granted' = [granted EXCEPT ![s] = 0] /\ forgot' = forgot
    BY <1>1 DEF WindowEnds
  <2> QED BY <2>1, HoneypotAssumption DEF LimitInv
<1>8. ASSUME NEW s \in Srcs, MinuteEnds(s) PROVE LimitInv'
  <2>1. /\ UNCHANGED <<window, count>> /\ forgot' = [forgot EXCEPT ![s] = FALSE]
        /\ granted' = [granted EXCEPT ![s] = count[s]]
    BY <1>8 DEF MinuteEnds
  <2>2. count[s] \in 0 .. ipConnLimit + 1
    BY HoneypotAssumption DEF LimitInv
  <2> QED BY <2>1, <2>2 DEF LimitInv
<1>2. ASSUME NEW p \in Ports, NEW c \in Conns, Accept(p, c) PROVE LimitInv'
  <2>1. CASE allow(conn[c].src)
    BY <2>1, AllowKeepsLimit
  <2>2. CASE UNCHANGED limiterVars
    BY <2>2 DEF LimitInv, limiterVars
  <2> QED BY <1>2, <2>1, <2>2 DEF Accept
<1>3. CASE UNCHANGED limiterVars
  BY <1>3 DEF LimitInv, limiterVars
<1>4. ASSUME NEW p \in Ports, Listener(p) PROVE LimitInv'
  <2>1. CASE TakeSlot(p) \/ Spawn(p) \/ LoopEnds(p)
    BY <1>3, <2>1 DEF TakeSlot, Spawn, LoopEnds
  <2> QED BY <1>2, <1>4, <2>1 DEF Listener
<1>5. ASSUME NEW c \in Conns, Handler(c) PROVE LimitInv'
  BY <1>3, <1>5 DEF Handler, HandlerBegins, Receive, HandlerEnds, Closed
<1>6. CASE Cancel \/ Run \/ UNCHANGED vars
  BY <1>3, <1>6 DEF Cancel, Run, CloseListeners, WaitLoops, WaitConns, vars
<1>7. ASSUME NEW c \in Conns, NEW p \in Ports, NEW s \in Srcs, Dial(c, p, s) PROVE LimitInv'
  BY <1>3, <1>7 DEF Dial
<1> QED BY <1>1, <1>4, <1>5, <1>6, <1>7, <1>8 DEF Next

-----------------------------------------------------------------------------
(* Theorems                                                                *)

THEOREM Invariant == Spec => []IInv
BY InvInit, InvStep, PTL DEF Spec

(* The semaphore, the wait group and the counter of the API always say how  *)
(* many connections hold a slot, are waited for and are served              *)
(* (acceptConn, handleConn).                                                *)
THEOREM CountersCount == Spec => []SlotAccounting
<1>1. IInv => SlotAccounting
  BY DEF IInv
<1> QED BY <1>1, Invariant, PTL

(* When Run has returned nothing of it is left: connWG is empty, so no      *)
(* handler runs; the loops are gone, so none holds a connection; and the    *)
(* backlogs went with the listeners (Run).                                  *)
THEOREM RunLeavesNothing == Spec => []NothingAfterRun
<1>1. IInv => NothingAfterRun
  <2> SUFFICES ASSUME IInv, run = "done" PROVE NothingAfterRun
    BY DEF NothingAfterRun
  <2>1. \A p \in Ports : loop[p] = "gone"
    BY DEF IInv, RunInv
  <2>2. ASSUME NEW c \in Conns PROVE conn[c].at = "away"
    <3>1. conn[c].at \notin {"hand", "slot"}
      BY <2>1 DEF IInv, HandInv
    <3>2. conn[c].at \notin {"started", "session", "closing"}
      BY CountersAreNat DEF IInv, RunInv
    <3>3. conn[c].at # "queued"
      BY DEF IInv, RunInv
    <3> QED BY <3>1, <3>2, <3>3 DEF IInv, Shape, Places
  <2> QED BY <2>1, <2>2 DEF NothingAfterRun
<1> QED BY <1>1, Invariant, PTL

(* In its minute a source is let in ipConnLimit times at most, unless the   *)
(* table was cleared for its size in that minute: neither the sweep of      *)
(* every SweepEvery-th call nor the end of another window gives it more     *)
(* (ipRateLimiter.allow, sweep).                                            *)
THEOREM LimitHoldsUnlessCleared == Spec => []LimitUnlessCleared
<1>1. Spec => []LimitInv
  BY LimitInit, LimitStep, PTL DEF Spec
<1>2. LimitInv => LimitUnlessCleared
  BY HoneypotAssumption DEF LimitInv, LimitUnlessCleared
<1> QED BY <1>1, <1>2, PTL

(* No step forgets a minute when there are no more sources than buckets.    *)
LEMMA NothingForgotten ==
    ASSUME ~Full, LimitInv, \A s \in Srcs : ~forgot[s], [Next]_vars
    PROVE  \A s \in Srcs : ~forgot'[s]
<1>1. CASE UNCHANGED forgot
  BY <1>1
<1>2. ASSUME NEW s \in Srcs, MinuteEnds(s) PROVE \A t \in Srcs : ~forgot'[t]
  BY <1>2 DEF MinuteEnds
<1>3. ASSUME NEW p \in Ports, Listener(p) PROVE \A t \in Srcs : ~forgot'[t]
  <2>1. ASSUME NEW c \in Conns, Accept(p, c) PROVE \A t \in Srcs : ~forgot'[t]
    <3>1. CASE allow(conn[c].src)
      BY <3>1, AllowKeepsLimit
    <3>2. CASE UNCHANGED limiterVars
      BY <1>1, <3>2 DEF limiterVars
    <3> QED BY <2>1, <3>1, <3>2 DEF Accept
  <2>2. CASE TakeSlot(p) \/ Spawn(p) \/ LoopEnds(p)
    BY <1>1, <2>2 DEF TakeSlot, Spawn, LoopEnds, limiterVars
  <2> QED BY <1>3, <2>1, <2>2 DEF Listener
<1>4. ASSUME NEW c \in Conns, Handler(c) PROVE UNCHANGED forgot
  BY <1>4 DEF Handler, HandlerBegins, Receive, HandlerEnds, Closed, limiterVars
<1>5. ASSUME Cancel \/ Run \/ UNCHANGED vars \/ \E s \in Srcs : WindowEnds(s)
      PROVE  UNCHANGED forgot
  BY <1>5 DEF Cancel, Run, CloseListeners, WaitLoops, WaitConns, WindowEnds, vars, limiterVars
<1>6. ASSUME NEW c \in Conns, NEW p \in Ports, NEW s \in Srcs, Dial(c, p, s)
      PROVE  UNCHANGED forgot
  BY <1>6 DEF Dial, limiterVars
<1> QED BY <1>1, <1>2, <1>3, <1>4, <1>5, <1>6 DEF Next

(* Where there are never more sources than the table may have buckets, the  *)
(* limit is what ratelimit.go:9 says of it: ipConnLimit in any minute.      *)
THEOREM LimitHolds ==
    ASSUME Cardinality(Srcs) <= MaxBuckets
    PROVE  Spec => []WithinWindowLimit
<1>1. ~Full
  <2> SUFFICES ASSUME NEW w PROVE ~(Cardinality(Open(w)) > MaxBuckets)
    BY DEF Full
  <2>1. Open(w) \subseteq Srcs /\ IsFiniteSet(Srcs)
    BY HoneypotAssumption DEF Open
  <2>2. Cardinality(Open(w)) <= Cardinality(Srcs)
    BY <2>1, FS_Subset
  <2>3. Cardinality(Open(w)) \in Nat /\ Cardinality(Srcs) \in Nat
    BY <2>1, FS_Subset, FS_CardinalityType
  <2> QED BY <2>2, <2>3, HoneypotAssumption
<1> DEFINE Inv == LimitInv /\ \A s \in Srcs : ~forgot[s]
<1>2. Init => Inv
  BY LimitInit DEF Init
<1>3. Inv /\ [Next]_vars => Inv'
  BY <1>1, LimitStep, NothingForgotten
<1>4. Inv => WithinWindowLimit
  BY HoneypotAssumption DEF LimitInv, WithinWindowLimit
<1> HIDE DEF Inv
<1> QED BY <1>2, <1>3, <1>4, PTL DEF Spec

-----------------------------------------------------------------------------
(* Types and records                                                       *)

Connection == [at : Places, port : Ports \cup {None}, src : Srcs \cup {None},
               session : Session, logged : Nat, gave : BOOLEAN]

(* What a session has recorded is bounded by its attempts; a handler that   *)
(* does not count them has nothing to record after its first record.        *)
Bounded(s, logged) ==
    /\ s.proto \in Counting => logged <= s.tries /\ s.tries <= CredsLimit
    /\ s.proto = "telnet" => /\ logged <= s.tries /\ s.tries <= LoginRounds
                             /\ s.tries = LoginRounds => s.step = "end"
    /\ s.proto \notin Counting \cup {"telnet"}
          => logged = 0 \/ (logged = 1 /\ s.step \in {"end", "discard"})

RecordsInv ==
    /\ calls \in 0 .. SweepEvery - 1 /\ ctx \in BOOLEAN
    /\ proto \in [Ports -> Protos] /\ open \subseteq Ports
    /\ conn \in [Conns -> Connection]
    /\ \A c \in Conns : Bounded(conn[c].session, conn[c].logged)

LEMMA HandlersOf ==
    /\ Protos = {"telnet", "ftp", "redis", "memcached", "postgres", "mysql", "rdp", "mssql",
                 "smb", "mongodb"}
    /\ protoHandlers["telnet"] = Telnet /\ protoHandlers["ftp"] = FTP
    /\ protoHandlers["redis"] = Redis /\ protoHandlers["memcached"] = Memcached
    /\ protoHandlers["postgres"] = Postgres /\ protoHandlers["mysql"] = MySQL
    /\ protoHandlers["rdp"] = RDP /\ protoHandlers["mssql"] = MSSQL
    /\ protoHandlers["smb"] = SMB /\ protoHandlers["mongodb"] = MongoDB
BY DEF Protos, protoHandlers

LEMMA RuleFields ==
    ASSUME NEW step, NEW msg, NEW rec, NEW to
    PROVE  /\ Rule(step, msg, rec, to).step = step /\ Rule(step, msg, rec, to).rec = rec
           /\ Rule(step, msg, rec, to).to = to
BY DEF Rule

LEMMA StepOfRule ==
    ASSUME NEW p \in Protos, NEW step, NEW msg, NEW rec, NEW to,
           Rule(step, msg, rec, to) \in protoHandlers[p]
    PROVE  step \in Steps
<1>1. step \in {r.step : r \in protoHandlers[p]}
  BY RuleFields
<1> QED BY <1>1 DEF Steps

(* The steps of the ten handlers.                                           *)
LEMMA KnownSteps ==
    /\ "end" \in Steps /\ "short" \in Steps /\ "login" \in Steps /\ "password" \in Steps
    /\ "command" \in Steps /\ "discard" \in Steps /\ "startup" \in Steps
    /\ "response" \in Steps /\ "request" \in Steps /\ "packet" \in Steps
    /\ "message" \in Steps
<1>1. /\ Rule("login", "line", FALSE, "password") \in protoHandlers["telnet"]
      /\ Rule("password", "line", TRUE, "login") \in protoHandlers["telnet"]
  BY HandlersOf DEF Telnet
<1>2. /\ Rule("command", "line", TRUE, "discard") \in protoHandlers["memcached"]
      /\ Rule("discard", "line", FALSE, "discard") \in protoHandlers["memcached"]
  BY HandlersOf DEF Memcached
<1>3. Rule("startup", "v3", FALSE, "password") \in protoHandlers["postgres"]
  BY HandlersOf DEF Postgres
<1>4. /\ Rule("response", "login", TRUE, "end") \in protoHandlers["mysql"]
      /\ Rule("request", "X.224 CR", TRUE, "end") \in protoHandlers["rdp"]
  BY HandlersOf DEF MySQL, RDP
<1>5. Rule("packet", <<"NEGOTIATE", 0, {}>>, FALSE, "packet") \in protoHandlers["smb"]
  BY HandlersOf DEF SMB
<1>6. PICK doc : doc \in [1 .. 2 -> {"sasl", "payload", "bad"}]
  <2>1. [i \in 1 .. 2 |-> "sasl"] \in [1 .. 2 -> {"sasl", "payload", "bad"}]
    OBVIOUS
  <2> QED BY <2>1
<1>7. Rule("message", doc, parseMongoCommand(doc), "message") \in protoHandlers["mongodb"]
  BY <1>6, HandlersOf DEF MongoDB
<1>8. {"telnet", "memcached", "postgres", "mysql", "rdp", "smb", "mongodb"} \subseteq Protos
  BY HandlersOf
<1>9. "login" \in Steps /\ "password" \in Steps
  BY <1>1, <1>8, StepOfRule
<1>10. "command" \in Steps /\ "discard" \in Steps
  BY <1>2, <1>8, StepOfRule
<1>11. "startup" \in Steps /\ "response" \in Steps
  BY <1>3, <1>4, <1>8, StepOfRule
<1>12. "request" \in Steps /\ "packet" \in Steps
  BY <1>4, <1>5, <1>8, StepOfRule
<1>13. "message" \in Steps
  BY <1>7, <1>8, StepOfRule
<1>14. "end" \in Steps /\ "short" \in Steps
  BY DEF Steps
<1> QED BY <1>9, <1>10, <1>11, <1>12, <1>13, <1>14

(* What the rules of a handler have in common.  A handler that counts goes  *)
(* on after a record; one that does not ends, or listens only.              *)
RuleOf(p, r) ==
    /\ r.rec \in BOOLEAN /\ r.to \in Steps
    /\ r.step # "end"
    /\ p \in Counting \cup {"telnet"} => (r.rec => r.to # "end")
    /\ p \notin Counting \cup {"telnet"}
          => (r.rec => r.step # "discard" /\ r.to \in {"end", "discard"})
    /\ p \notin Counting \cup {"telnet"} /\ r.step = "discard" => r.to = "discard"

LEMMA RuleOfCounting ==
    ASSUME NEW p \in {"ftp", "redis", "mongodb", "telnet"}, NEW step, NEW msg,
           NEW rec \in BOOLEAN, NEW to \in Steps, step # "end", rec => to # "end"
    PROVE  RuleOf(p, Rule(step, msg, rec, to))
<1>1. p \in Counting \cup {"telnet"}
  BY DEF Counting
<1> QED BY <1>1, RuleFields DEF RuleOf

LEMMA RuleOfOther ==
    ASSUME NEW p \in {"memcached", "postgres", "mysql", "rdp", "mssql", "smb"}, NEW step,
           NEW msg, NEW rec \in BOOLEAN, NEW to \in Steps, step # "end",
           rec => step # "discard" /\ to \in {"end", "discard"},
           step = "discard" => to = "discard"
    PROVE  RuleOf(p, Rule(step, msg, rec, to))
<1>1. p \notin Counting \cup {"telnet"}
  BY DEF Counting
<1> QED BY <1>1, RuleFields DEF RuleOf

LEMMA RulesOfHandlers ==
    ASSUME NEW p \in Protos, NEW r \in protoHandlers[p]
    PROVE  RuleOf(p, r)
<1>2. CASE p = "telnet"
  <2>1. \/ r = Rule("login", "line", FALSE, "password")
        \/ r = Rule("password", "line", TRUE, "login")
    BY <1>2, HandlersOf DEF Telnet
  <2> QED BY <1>2, <2>1, KnownSteps, RuleOfCounting
<1>3. CASE p = "memcached"
  <2>1. \/ r = Rule("command", "line", TRUE, "discard")
        \/ r = Rule("command", "blank", FALSE, "end")
        \/ r = Rule("discard", "line", FALSE, "discard")
    BY <1>3, HandlersOf DEF Memcached
  <2> QED BY <1>3, <2>1, KnownSteps, RuleOfOther
<1>4. CASE p = "postgres"
  <2>1. \/ r = Rule("startup", "v3", FALSE, "password")
        \/ r = Rule("password", "p", TRUE, "end")
        \/ r = Rule("password", "p+4", FALSE, "short")
    BY <1>4, HandlersOf DEF Postgres
  <2> QED BY <1>4, <2>1, KnownSteps, RuleOfOther
<1>5. CASE p \in {"mysql", "rdp"}
  <2>1. \/ r = Rule("response", "login", TRUE, "end")
        \/ r = Rule("response", "anonymous", FALSE, "end")
        \/ r = Rule("request", "X.224 CR", TRUE, "end")
    BY <1>5, HandlersOf DEF MySQL, RDP
  <2> QED BY <1>5, <2>1, KnownSteps, RuleOfOther
<1>6. CASE p \in {"ftp", "redis"}
  <2>1. \E m, rec, to : /\ r = Rule("command", m, rec, to) /\ rec \in BOOLEAN
                        /\ to \in {"end", "command"} /\ (rec => to = "command")
    <3>1. CASE p = "ftp"
      <4>1. PICK m \in splitCommand :
                r = Rule("command", m, m = "PASS", IF m = "QUIT" THEN "end" ELSE "command")
        BY <3>1, HandlersOf DEF FTP
      <4>2. /\ (m = "PASS") \in BOOLEAN
            /\ (IF m = "QUIT" THEN "end" ELSE "command") \in {"end", "command"}
            /\ m = "PASS" => (IF m = "QUIT" THEN "end" ELSE "command") = "command"
        OBVIOUS
      <4> QED BY <4>1, <4>2
    <3>2. CASE p = "redis"
      <4> DEFINE Auth == {"AUTH pass", "AUTH user pass", "HELLO 3 AUTH user pass"}
      <4>1. PICK m \in readRESPCommand :
                r = Rule("command", m, m \in Auth, IF m = "QUIT" THEN "end" ELSE "command")
        BY <3>2, HandlersOf DEF Redis
      <4>2. m \in Auth => m # "QUIT"
        OBVIOUS
      <4> HIDE DEF Auth
      <4>3. PICK rec, to : /\ rec = (m \in Auth)
                           /\ to = IF m = "QUIT" THEN "end" ELSE "command"
        OBVIOUS
      <4>4. to \in {"end", "command"} /\ (rec => to = "command")
        BY <4>2, <4>3
      <4>5. rec \in BOOLEAN
        BY <4>3, SMT
      <4> QED BY <4>1, <4>3, <4>4, <4>5
    <3> QED BY <1>6, <3>1, <3>2
  <2>2. PICK m, rec, to : /\ r = Rule("command", m, rec, to) /\ rec \in BOOLEAN
                          /\ to \in {"end", "command"} /\ (rec => to = "command")
    BY <2>1
  <2>3. to \in Steps
    BY <2>2, KnownSteps
  <2> QED BY <1>6, <2>2, <2>3, RuleOfCounting
<1>7. CASE p \in {"mssql", "smb"}
  <2>1. \E m, rec, to : /\ r = Rule("packet", m, rec, to) /\ rec \in BOOLEAN
                        /\ to \in {"end", "packet"} /\ (rec => to = "end")
    <3>1. CASE p = "mssql"
      <4>1. \/ \E m \in readTDSPacket \ {"LOGIN7"} :
                  r = Rule("packet", <<m, {}>>, FALSE, IF m = "attention" THEN "end" ELSE "packet")
            \/ \E fields \in SUBSET {"HostName", "UserName", "Password"} :
                  r = Rule("packet", <<"LOGIN7", fields>>, parseLogin7(fields),
                           IF parseLogin7(fields) THEN "end" ELSE "packet")
        BY <3>1, HandlersOf DEF MSSQL
      <4>2. \A fields : parseLogin7(fields) \in BOOLEAN
        BY DEF parseLogin7
      <4> QED BY <4>1, <4>2
    <3>2. CASE p = "smb"
      <4> DEFINE Negotiate == Rule("packet", <<"NEGOTIATE", 0, {}>>, FALSE, "packet")
                 SetUp(type, fields) ==
                    Rule("packet", <<"SESSION_SETUP", type, fields>>,
                         parseNTLMSSPAuth(type, fields),
                         IF parseNTLMSSPAuth(type, fields) THEN "end" ELSE "packet")
                 types == {1, 3}
                 parts == SUBSET {"user", "ntResp"}
      <4>1. SMB = {Negotiate} \cup {SetUp(type, fields) : type \in types, fields \in parts}
        BY SMT DEF SMB
      <4> HIDE DEF types, parts, SetUp, Negotiate
      <4>2. r = Negotiate \/ \E type \in types, fields \in parts : r = SetUp(type, fields)
        BY <3>2, <4>1, HandlersOf
      <4>3. \A type, fields : parseNTLMSSPAuth(type, fields) \in BOOLEAN
        BY DEF parseNTLMSSPAuth
      <4> QED BY <4>2, <4>3 DEF SetUp, Negotiate
    <3> QED BY <1>7, <3>1, <3>2
  <2>2. PICK m, rec, to : /\ r = Rule("packet", m, rec, to) /\ rec \in BOOLEAN
                          /\ to \in {"end", "packet"} /\ (rec => to = "end")
    BY <2>1
  <2>3. to \in Steps
    BY <2>2, KnownSteps
  <2> QED BY <1>7, <2>2, <2>3, RuleOfOther
<1>8. CASE p = "mongodb"
  <2>1. PICK doc : r = Rule("message", doc, parseMongoCommand(doc), "message")
    BY <1>8, HandlersOf DEF MongoDB
  <2>2. parseMongoCommand(doc) \in BOOLEAN
    BY DEF parseMongoCommand
  <2> QED BY <1>8, <2>1, <2>2, KnownSteps, RuleOfCounting
<1> QED BY <1>2, <1>3, <1>4, <1>5, <1>6, <1>7, <1>8, HandlersOf

(* A dialogue begins with nothing recorded.                                 *)
LEMMA BeginIsBounded ==
    ASSUME NEW p \in Protos
    PROVE  Begin(p) \in Session /\ Bounded(Begin(p), 0)
<1>1. FirstStep[p] \in Steps
  BY KnownSteps, HandlersOf DEF FirstStep
<1> QED BY <1>1, ProtosAssumption DEF Begin, Session, Bounded

LEMMA SessionFields ==
    ASSUME NEW s, NEW u, NEW tries, NEW step, u = [s EXCEPT !.tries = tries, !.step = step],
           s = [proto |-> s.proto, step |-> s.step, tries |-> s.tries]
    PROVE  u = [proto |-> s.proto, step |-> step, tries |-> tries]
OBVIOUS

(* A message records once at most, and what it records is an attempt.       *)
LEMMA MessageIsBounded ==
    ASSUME NEW s \in Session, NEW n \in Nat, Bounded(s, n), NEW r \in Rules(s),
           NEW valid \in BOOLEAN
    PROVE  LET m == IF Records(s, r) /\ valid THEN n + 1 ELSE n
           IN  m \in Nat /\ AfterRule(s, r) \in Session /\ Bounded(AfterRule(s, r), m)
<1> DEFINE m == IF Records(s, r) /\ valid THEN n + 1 ELSE n
           tries == IF r.rec /\ r.to # "end" THEN s.tries + 1 ELSE s.tries
           kept == IF s.proto \in Counting /\ tries > CredsLimit THEN CredsLimit ELSE tries
           to == IF s.proto = "telnet" /\ tries >= LoginRounds THEN "end" ELSE r.to
<1>1. s.proto \in Protos /\ s.tries \in Nat /\ s.step \in Steps
      /\ s = [proto |-> s.proto, step |-> s.step, tries |-> s.tries]
  BY DEF Session
<1>2. r \in protoHandlers[s.proto] /\ r.step = s.step
  BY DEF Rules
<1>3. RuleOf(s.proto, r)
  BY <1>1, <1>2, RulesOfHandlers
<1>4. AfterRule(s, r) = [proto |-> s.proto, step |-> to, tries |-> kept]
  <2>1. AfterRule(s, r) = [s EXCEPT !.tries = kept, !.step = to]
    BY DEF AfterRule
  <2> HIDE DEF kept, to
  <2> QED BY <1>1, <2>1, SessionFields
<1>5. m \in Nat /\ tries \in Nat /\ kept \in Nat
  BY <1>1, ProtosAssumption
<1>6. to \in Steps
  BY <1>3, KnownSteps DEF RuleOf
<1>7. AfterRule(s, r) \in Session
  BY <1>1, <1>4, <1>5, <1>6 DEF Session
<1>8. s.proto \in Counting => m <= kept /\ kept <= CredsLimit
  BY <1>1, <1>3, ProtosAssumption DEF Bounded, Records, RuleOf
<1>9. s.proto = "telnet" => /\ m <= kept /\ kept <= LoginRounds
                            /\ kept = LoginRounds => to = "end"
  BY <1>1, <1>2, <1>3, ProtosAssumption DEF Bounded, Records, RuleOf, Counting
<1>10. s.proto \notin Counting \cup {"telnet"}
          => m = 0 \/ (m = 1 /\ to \in {"end", "discard"})
  BY <1>2, <1>3 DEF Bounded, Records, RuleOf
<1> HIDE DEF m, tries, kept, to
<1>11. Bounded(AfterRule(s, r), m)
  BY <1>4, <1>8, <1>9, <1>10 DEF Bounded
<1> QED BY <1>5, <1>7, <1>11 DEF m

LEMMA RecordsStart == Init => RecordsInv
<1> SUFFICES ASSUME Init PROVE RecordsInv
  OBVIOUS
<1>1. Begin("ftp") \in Session /\ Bounded(Begin("ftp"), 0)
  BY BeginIsBounded, HandlersOf
<1>2. Idle \in Connection /\ Idle.session = Begin("ftp") /\ Idle.logged = 0
  BY <1>1 DEF Idle, Connection, Places
<1>3. conn \in [Conns -> Connection] /\ \A c \in Conns : Bounded(conn[c].session, conn[c].logged)
  BY <1>1, <1>2 DEF Init
<1>4. proto \in [Ports -> Protos] /\ calls \in 0 .. SweepEvery - 1
  BY HoneypotAssumption DEF Init
<1> QED BY <1>3, <1>4 DEF Init, RecordsInv

(* A step that replaces a connection by one in the same bounds.             *)
ConnsOK == /\ conn \in [Conns -> Connection]
           /\ \A c \in Conns : Bounded(conn[c].session, conn[c].logged)

LEMMA OneReplaced ==
    ASSUME ConnsOK, NEW c, NEW k \in Connection, Bounded(k.session, k.logged),
           conn' = [conn EXCEPT ![c] = k]
    PROVE  ConnsOK'
<1>1. conn' \in [Conns -> Connection]
  BY DEF ConnsOK
<1>2. \A j \in Conns : conn'[j] = IF j = c THEN k ELSE conn[j]
  BY DEF ConnsOK
<1> QED BY <1>1, <1>2 DEF ConnsOK

LEMMA IdleIsBounded == Idle \in Connection /\ Bounded(Idle.session, Idle.logged)
<1>1. Begin("ftp") \in Session /\ Bounded(Begin("ftp"), 0)
  BY BeginIsBounded, HandlersOf
<1> QED BY <1>1 DEF Idle, Connection, Places

LEMMA PlaceChanges ==
    ASSUME ConnsOK, NEW c, NEW place \in Places, conn' = [conn EXCEPT ![c].at = place]
    PROVE  ConnsOK'
<1>1. CASE c \in Conns
  <2>1. PICK k : k = [conn[c] EXCEPT !.at = place]
    OBVIOUS
  <2>2. conn[c] \in Connection /\ Bounded(conn[c].session, conn[c].logged)
    BY <1>1 DEF ConnsOK
  <2>3. k \in Connection /\ k.session = conn[c].session /\ k.logged = conn[c].logged
    BY <2>1, <2>2 DEF Connection
  <2>4. conn' = [conn EXCEPT ![c] = k]
    BY <2>1
  <2> QED BY <2>2, <2>3, <2>4, OneReplaced
<1>2. CASE c \notin Conns
  BY <1>2 DEF ConnsOK
<1> QED BY <1>1, <1>2

LEMMA HandKeepsRecords ==
    ASSUME ConnsOK, NEW c \in Conns,
           conn' = [conn EXCEPT ![c] = [@ EXCEPT !.at = "hand", !.src = None]]
    PROVE  ConnsOK'
<1>1. PICK k : k = [conn[c] EXCEPT !.at = "hand", !.src = None]
  OBVIOUS
<1>2. conn[c] \in Connection /\ Bounded(conn[c].session, conn[c].logged)
  BY DEF ConnsOK
<1>3. k \in Connection /\ k.session = conn[c].session /\ k.logged = conn[c].logged
  BY <1>1, <1>2 DEF Connection, Places
<1>4. conn' = [conn EXCEPT ![c] = k]
  BY <1>1, <1>2 DEF ConnsOK
<1> QED BY <1>2, <1>3, <1>4, OneReplaced

LEMMA DialKeepsRecords ==
    ASSUME ConnsOK, NEW c \in Conns, NEW p \in Ports, NEW s \in Srcs, proto[p] \in Protos,
           Dial(c, p, s)
    PROVE  ConnsOK'
<1>1. PICK x : x = Begin(proto[p])
  OBVIOUS
<1>2. x \in Session /\ Bounded(x, 0)
  BY <1>1, BeginIsBounded
<1>3. PICK k : k = [Idle EXCEPT !.at = "queued", !.port = p, !.src = s, !.session = x]
  OBVIOUS
<1>4. k = [at |-> "queued", port |-> p, src |-> s, session |-> x, logged |-> 0, gave |-> FALSE]
  BY <1>3 DEF Idle
<1>5. k \in Connection /\ Bounded(k.session, k.logged)
  BY <1>2, <1>4 DEF Connection, Places
<1>6. conn' = [conn EXCEPT ![c] = k]
  BY <1>1, <1>3 DEF Dial
<1> QED BY <1>5, <1>6, OneReplaced

LEMMA ReceiveKeepsRecords ==
    ASSUME ConnsOK, NEW c \in Conns, NEW r, NEW valid \in BOOLEAN, Receive(c, r, valid)
    PROVE  ConnsOK'
<1> DEFINE s == conn[c].session
           session == AfterRule(s, r)
           logged == IF Records(s, r) /\ valid THEN conn[c].logged + 1 ELSE conn[c].logged
           gave == conn[c].gave \/ (valid /\ (Records(s, r) \/ r.to = "short"))
<1>1. r \in Rules(s) /\ conn' = [conn EXCEPT ![c] = [conn[c] EXCEPT
          !.session = session, !.logged = logged, !.gave = gave]]
  BY DEF Receive, ConnsOK
<1>2. conn[c] \in Connection /\ Bounded(conn[c].session, conn[c].logged)
  BY DEF ConnsOK
<1>3. s \in Session /\ conn[c].logged \in Nat
  BY <1>2 DEF Connection
<1>4. logged \in Nat /\ session \in Session /\ Bounded(session, logged)
  BY <1>1, <1>2, <1>3, MessageIsBounded
<1>5. gave \in BOOLEAN
  BY <1>2 DEF Connection
<1> HIDE DEF s, session, logged, gave
<1>6. PICK k : k = [conn[c] EXCEPT !.session = session, !.logged = logged, !.gave = gave]
  OBVIOUS
<1>7. k \in Connection /\ k.session = session /\ k.logged = logged
  BY <1>2, <1>4, <1>5, <1>6 DEF Connection
<1> QED BY <1>1, <1>4, <1>6, <1>7, OneReplaced

LEMMA RecordsStep == RecordsInv /\ [Next]_vars => RecordsInv'
<1> SUFFICES ASSUME RecordsInv, [Next]_vars PROVE RecordsInv'
  OBVIOUS
<1>1. ConnsOK
  BY DEF RecordsInv, ConnsOK
<1> DEFINE OthersOK == /\ calls \in 0 .. SweepEvery - 1 /\ ctx \in BOOLEAN
                       /\ proto \in [Ports -> Protos] /\ open \subseteq Ports
<1>2. OthersOK
  BY DEF RecordsInv
<1>3. SUFFICES ConnsOK' /\ OthersOK'
  BY DEF RecordsInv, ConnsOK
<1>4. ASSUME UNCHANGED <<calls, ctx, proto, open>> PROVE OthersOK'
  BY <1>2, <1>4
<1>5. ASSUME UNCHANGED conn PROVE ConnsOK'
  BY <1>1, <1>5 DEF ConnsOK
<1>6. ASSUME NEW c, conn' = [conn EXCEPT ![c] = Idle] PROVE ConnsOK'
  BY <1>1, <1>6, IdleIsBounded, OneReplaced
<1>7. CASE CloseListeners
  <2>1. conn' = [c \in Conns |-> IF conn[c].at = "queued" THEN Idle ELSE conn[c]]
    BY <1>7 DEF CloseListeners
  <2>2. ConnsOK'
    BY <1>1, <2>1, IdleIsBounded DEF ConnsOK
  <2> QED BY <1>2, <1>7, <2>2 DEF CloseListeners, limiterVars
<1>8. CASE UNCHANGED vars \/ Cancel \/ WaitLoops \/ WaitConns
           \/ \E s \in Srcs : WindowEnds(s) \/ MinuteEnds(s)
  BY <1>2, <1>5, <1>8 DEF vars, limiterVars, runVars, Cancel, WaitLoops, WaitConns, WindowEnds,
     MinuteEnds
<1>9. ASSUME NEW c \in Conns, NEW p \in Ports, NEW s \in Srcs, Dial(c, p, s)
      PROVE  ConnsOK' /\ OthersOK'
  <2>1. proto[p] \in Protos
    BY <1>2
  <2>2. UNCHANGED <<calls, ctx, proto, open>>
    BY <1>9 DEF Dial, limiterVars, runVars
  <2> QED BY <1>1, <1>4, <1>9, <2>1, <2>2, DialKeepsRecords
<1>10. ASSUME NEW p \in Ports, Listener(p) PROVE ConnsOK' /\ OthersOK'
  <2>1. ASSUME NEW c \in Conns, Accept(p, c) PROVE ConnsOK' /\ OthersOK'
    <3>1. CASE /\ allow(conn[c].src)
               /\ conn' = [conn EXCEPT ![c] = [@ EXCEPT !.at = "hand", !.src = None]]
      <4>1. calls' = (calls + 1) % SweepEvery
        BY <3>1 DEF allow
      <4>2. calls' \in 0 .. SweepEvery - 1
        BY <1>2, <4>1, HoneypotAssumption
      <4> QED BY <1>1, <1>2, <2>1, <3>1, <4>2, HandKeepsRecords DEF Accept, runVars
    <3>2. CASE Refuse(p, c) /\ UNCHANGED limiterVars
      BY <1>4, <1>6, <2>1, <3>2 DEF Accept, Refuse, runVars, limiterVars
    <3> QED BY <2>1, <3>1, <3>2 DEF Accept
  <2>2. CASE TakeSlot(p)
    <3>1. UNCHANGED <<calls, ctx, proto, open>>
      BY <2>2 DEF TakeSlot, limiterVars, runVars
    <3>2. \/ conn' = [conn EXCEPT ![hand[p]].at = "slot"]
          \/ conn' = [conn EXCEPT ![hand[p]] = Idle]
      BY <2>2 DEF TakeSlot, Refuse
    <3> QED BY <1>1, <1>4, <1>6, <3>1, <3>2, PlaceChanges DEF Places
  <2>3. CASE Spawn(p)
    BY <1>1, <1>4, <2>3, PlaceChanges DEF Spawn, limiterVars, runVars, Places
  <2>4. CASE LoopEnds(p)
    BY <1>4, <1>5, <2>4 DEF LoopEnds, limiterVars, runVars
  <2> QED BY <1>10, <2>1, <2>2, <2>3, <2>4 DEF Listener
<1>11. ASSUME NEW c \in Conns, Handler(c) PROVE ConnsOK' /\ OthersOK'
  <2>1. UNCHANGED <<calls, ctx, proto, open>>
    BY <1>11 DEF Handler, HandlerBegins, HandlerEnds, Closed, Receive, limiterVars, runVars
  <2>2. CASE HandlerBegins(c) \/ HandlerEnds(c)
    BY <1>1, <1>4, <2>1, <2>2, PlaceChanges DEF HandlerBegins, HandlerEnds, Places
  <2>3. CASE Closed(c)
    BY <1>4, <1>6, <2>1, <2>3 DEF Closed
  <2>4. ASSUME NEW r, NEW valid \in BOOLEAN, Receive(c, r, valid) PROVE ConnsOK'
    BY <1>1, <2>4, ReceiveKeepsRecords
  <2> QED BY <1>4, <1>11, <2>1, <2>2, <2>3, <2>4 DEF Handler
<1> HIDE DEF OthersOK
<1> QED BY <1>7, <1>8, <1>9, <1>10, <1>11 DEF Next, Run

(* A connection records as often as its protocol allows, whatever messages  *)
(* come in which order, and every counter is right meanwhile: handlers that *)
(* go on after a record count their attempts (credsPerConnLimit,            *)
(* loginRoundsMax), the others end or only listen (honeypot/*.go).          *)
THEOREM RecordsAreLimited == Spec => []HoneypotInv
<1>1. Spec => []LimitInv
  BY LimitInit, LimitStep, PTL DEF Spec
<1>2. Spec => []RecordsInv
  BY RecordsStart, RecordsStep, PTL DEF Spec
<1>3. IInv /\ LimitInv /\ RecordsInv => HoneypotInv
  <2> SUFFICES ASSUME IInv, LimitInv, RecordsInv PROVE HoneypotInv
    OBVIOUS
  <2>1. TypeOK
    <3>1. granted \in [Srcs -> 0 .. ipConnLimit + 1] /\ forgot \in [Srcs -> BOOLEAN]
      BY DEF LimitInv
    <3>2. conn \in [Conns ->
            [at : {"away", "queued", "hand", "slot", "started", "session", "closing"},
             port : Ports \cup {None}, src : Srcs \cup {None}, session : Session,
             logged : Nat, gave : BOOLEAN]]
      BY DEF RecordsInv, Connection, Places
    <3> QED BY <3>1, <3>2 DEF TypeOK, IInv, Shape, LoopsOK, RunInv, LimitInv, RecordsInv
  <2>2. RecordsBounded
    <3> SUFFICES ASSUME NEW c \in Conns
                 PROVE  conn[c].logged <= CASE conn[c].session.proto \in Counting -> CredsLimit
                                            [] conn[c].session.proto = "telnet" -> LoginRounds
                                            [] OTHER -> 1
      BY DEF RecordsBounded
    <3>1. conn[c] \in Connection /\ Bounded(conn[c].session, conn[c].logged)
      BY DEF RecordsInv
    <3>2. conn[c].logged \in Nat /\ conn[c].session.tries \in Nat
      BY <3>1 DEF Connection, Session
    <3>3. "telnet" \notin Counting
      BY DEF Counting
    <3> QED BY <3>1, <3>2, <3>3, ProtosAssumption DEF Bounded
  <2> QED BY <2>1, <2>2 DEF HoneypotInv, IInv
<1> QED BY <1>1, <1>2, <1>3, Invariant, PTL
=============================================================================
