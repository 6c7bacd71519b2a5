------------------------------- MODULE WsHub -------------------------------
(***************************************************************************)
(* The WebSocket hub of the dashboard (internal/api/ws.go): a handler      *)
(* (hWS) per connection takes a slot before the upgrade, runs a read loop  *)
(* that only notices the end of the connection, and a write loop that      *)
(* sends what broadcast has put into the buffer of the connection.         *)
(*                                                                         *)
(* A frame is its number in the order of broadcast.  What a connection     *)
(* leaves behind is a goroutine of its read loop: the model gives the name *)
(* of a client to a new connection when that goroutine has ended.          *)
(***************************************************************************)
EXTENDS Naturals, Sequences, FiniteSets

CONSTANTS
    Clients,    \* connections that may exist at the same time
    MaxConns,   \* web.ws_max_conns
    SendCap,    \* capacity of wsClient.send (64)
    MaxFrames   \* bound

ASSUME HubAssumption ==
    /\ IsFiniteSet(Clients)
    /\ {MaxConns, SendCap} \subseteq Nat \ {0} /\ MaxFrames \in Nat

VARIABLES
    clients,  \* wsHub.clients
    send,     \* [Clients -> Seq]: the buffer of frames
    at,       \* [Clients -> where hWS is]
    reader,   \* connections whose read loop runs
    done,     \* connections whose read loop has closed done
    frame,    \* the number of the last broadcast
    joined,   \* [Clients -> the last broadcast before the slot was taken]
    inHand,   \* [Clients -> the frame being written], 0: none
    seen      \* [Clients -> the last frame written in this connection], 0: none

hubVars == <<clients, send>>
connVars == <<at, reader, done>>
frameVars == <<frame, joined, inHand, seen>>
vars == <<hubVars, connVars, frameVars>>

Zero == [c \in Clients |-> 0]

Init == /\ clients = {} /\ send = [c \in Clients |-> <<>>]
        /\ at = [c \in Clients |-> "away"] /\ reader = {} /\ done = {}
        /\ frame = 0 /\ joined = Zero /\ inHand = Zero /\ seen = Zero

-----------------------------------------------------------------------------
(* The hub, under its mutex                                                *)

\* Mutant: the slot is given back, the buffer of the old connection is kept.
tryAddKeepsBuffer(c) ==
    /\ Cardinality(clients) < MaxConns
    /\ clients' = clients \cup {c}
    /\ UNCHANGED send

\* A new wsClient has an empty buffer; a full hub refuses (503).
tryAdd(c) == /\ Cardinality(clients) < MaxConns
             /\ clients' = clients \cup {c}
             /\ send' = [send EXCEPT ![c] = <<>>]

\* Mutant: the handler returns without giving the slot back.
removeNot(c) == UNCHANGED hubVars

\* delete and close(c.send); only the handler of c calls it, so that its own
\* receive never finds the channel closed.
remove(c) == /\ clients' = clients \ {c}
             /\ UNCHANGED send

\* One frame for every client; where the buffer is full, it is dropped.
broadcast ==
    /\ frame < MaxFrames
    /\ frame' = frame + 1
    /\ send' = [c \in Clients |->
                  IF c \in clients /\ Len(send[c]) < SendCap
                  THEN Append(send[c], frame') ELSE send[c]]
    /\ UNCHANGED <<clients, connVars, joined, inHand, seen>>

-----------------------------------------------------------------------------
(* hWS                                                                     *)

Connects(c) ==
    /\ at[c] = "away" /\ c \notin reader
    /\ tryAdd(c)
    /\ at' = [at EXCEPT ![c] = "upgrade"]
    /\ done' = done \ {c}
    /\ joined' = [joined EXCEPT ![c] = frame]
    /\ seen' = [seen EXCEPT ![c] = 0]
    /\ UNCHANGED <<reader, frame, inHand>>

\* The upgrade fails (no handshake, 5 s): the slot goes back.
UpgradeFails(c) == /\ at[c] = "upgrade"
                   /\ remove(c)
                   /\ at' = [at EXCEPT ![c] = "away"]
                   /\ UNCHANGED <<reader, done, frameVars>>

Upgraded(c) == /\ at[c] = "upgrade"
               /\ at' = [at EXCEPT ![c] = "select"]
               /\ reader' = reader \cup {c}
               /\ UNCHANGED <<hubVars, done, frameVars>>

\* The peer or the handler has closed the connection: ReadMessage fails.
ReadFails(c) == /\ c \in reader
                /\ reader' = reader \ {c} /\ done' = done \cup {c}
                /\ UNCHANGED <<hubVars, at, frameVars>>

Leave(c) == /\ remove(c)
            /\ at' = [at EXCEPT ![c] = "away"]
            /\ inHand' = [inHand EXCEPT ![c] = 0]
            /\ UNCHANGED <<reader, done, frame, joined, seen>>

\* Mutant: the write loop waits for frames only (the state before VS-03).
DoneSeenNever(c) == FALSE

\* case <-done
DoneSeen(c) == /\ at[c] = "select" /\ c \in done
               /\ Leave(c)

\* case frame := <-c.send
TakeFrame(c) == /\ at[c] = "select" /\ send[c] # <<>>
                /\ at' = [at EXCEPT ![c] = "write"]
                /\ inHand' = [inHand EXCEPT ![c] = Head(send[c])]
                /\ send' = [send EXCEPT ![c] = Tail(@)]
                /\ UNCHANGED <<clients, reader, done, frame, joined, seen>>

WriteSucceeds(c) == /\ at[c] = "write"
                    /\ at' = [at EXCEPT ![c] = "select"]
                    /\ seen' = [seen EXCEPT ![c] = inHand[c]]
                    /\ inHand' = [inHand EXCEPT ![c] = 0]
                    /\ UNCHANGED <<hubVars, reader, done, frame, joined>>

\* The connection is broken, or nothing could be written for 10 s.
WriteFails(c) == /\ at[c] = "write"
                 /\ Leave(c)

-----------------------------------------------------------------------------
Handler(c) == \/ Connects(c) \/ UpgradeFails(c) \/ Upgraded(c) \/ ReadFails(c)
              \/ DoneSeen(c) \/ TakeFrame(c) \/ WriteSucceeds(c) \/ WriteFails(c)

Next == broadcast \/ \E c \in Clients : Handler(c)

Spec == Init /\ [][Next]_vars

(* Upgrade and write have deadlines; the select of the write loop picks     *)
(* among the ready cases at random.                                         *)
Fairness == \A c \in Clients : /\ WF_vars(UpgradeFails(c) \/ Upgraded(c))
                               /\ WF_vars(WriteSucceeds(c) \/ WriteFails(c))
                               /\ SF_vars(DoneSeen(c))

FairSpec == Spec /\ Fairness

-----------------------------------------------------------------------------
(* Properties                                                              *)

(* The type invariant of the hub; tryAdd, which checks and inserts under    *)
(* one lock, never lets more than ws_max_conns connections in.              *)
TypeOK == /\ clients \subseteq Clients /\ Cardinality(clients) <= MaxConns
          /\ send \in [Clients -> Seq(1..MaxFrames)]
          /\ at \in [Clients -> {"away", "upgrade", "select", "write"}]
          /\ reader \subseteq Clients /\ done \subseteq Clients
          /\ frame \in 0..MaxFrames
          /\ {joined, inHand, seen} \subseteq [Clients -> 0..MaxFrames]

(* A slot is taken exactly while its handler runs: every way out of hWS     *)
(* gives it back once, and no handler is left that broadcast does not reach.*)
SlotPerHandler == clients = {c \in Clients : at[c] # "away"}

(* The frames on the way to a client, the oldest first. *)
Nonzero(n) == IF n = 0 THEN <<>> ELSE <<n>>
Pipeline(c) == Nonzero(seen[c]) \o Nonzero(inHand[c]) \o send[c]

(* A client gets frames in the order of broadcast, none of them twice, and  *)
(* none from before its connection; a full buffer makes gaps only.          *)
FramesInOrder ==
    \A c \in clients :
        /\ \A i, j \in DOMAIN Pipeline(c) : i < j => Pipeline(c)[i] < Pipeline(c)[j]
        /\ \A i \in DOMAIN Pipeline(c) : Pipeline(c)[i] > joined[c]

(* A connection that has ended gives its slot back, also when there is      *)
(* nothing to broadcast any more (VS-03 in hWS: a write loop that only      *)
(* waits for frames uses up ws_max_conns).                                  *)
SlotsComeBack == \A c \in Clients : c \in done /\ at[c] # "away" ~> c \notin clients
=============================================================================
