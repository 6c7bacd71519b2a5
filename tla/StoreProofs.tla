---------------------------- MODULE StoreProofs ----------------------------
(***************************************************************************)
(* Theorems about the write path, for any kinds of events, any capacities  *)
(* and any bounds.                                                         *)
(***************************************************************************)
EXTENDS Store, TLAPS

-----------------------------------------------------------------------------
(* The operators                                                           *)

LEMMA Constants ==
    /\ Cap \in Nat \ {0} /\ BatchSize \in Nat \ {0}
    /\ RetentionDays \in Nat /\ CredRetentionDays \in Nat
    /\ DataKinds \subseteq Kinds /\ Kinds = DataKinds \cup {System}
    /\ Cred \in DataKinds /\ System \notin DataKinds /\ System \in Kinds
    /\ DrainOrder \in Seq(Kinds) /\ CleanOrder \in Seq(Kinds)
    /\ Len(DrainOrder) \in Nat /\ Len(CleanOrder) \in Nat
    /\ CredPos \in Nat /\ DonePos \in Nat
    /\ CredPos = Len(CleanOrder) + 1 /\ DonePos = Len(CleanOrder) + 2
<1>1. DrainOrder \in Seq(Kinds) /\ CleanOrder \in Seq(Kinds)
  BY KindsAssumption
<1>2. Len(DrainOrder) \in Nat /\ Len(CleanOrder) \in Nat
  BY <1>1
<1>3. DataKinds \subseteq Kinds /\ System \in Kinds /\ Kinds = DataKinds \cup {System}
  BY DEF Kinds
<1>4. System \notin DataKinds /\ Cred \in DataKinds
  BY KindsAssumption
<1>5. /\ Cap \in Nat \ {0} /\ BatchSize \in Nat \ {0}
      /\ RetentionDays \in Nat /\ CredRetentionDays \in Nat
  BY SizesAssumption
<1> QED BY <1>1, <1>2, <1>3, <1>4, <1>5 DEF CredPos, DonePos

LEMMA FirstPositions ==
    1 \in 1..(Len(DrainOrder) + 1) /\ 1 \in 1..DonePos
<1>1. Len(DrainOrder) \in Nat /\ Len(CleanOrder) \in Nat /\ DonePos = Len(CleanOrder) + 2
  BY Constants
<1> QED BY <1>1

LEMMA EmptyType == Empty \in [Kinds -> Seq(Event)]
BY DEF Empty

(* What ReportSys, a send and a receive leave in the channels is well typed. *)
LEMMA ReportSysType ==
    ASSUME chan \in [Kinds -> Seq(Event)], accepted \in [Kinds -> Nat], now \in Nat,
           ReportSys
    PROVE  chan' \in [Kinds -> Seq(Event)] /\ accepted' \in [Kinds -> Nat]
<1> DEFINE e == [id |-> accepted[System] + 1, ts |-> now]
<1>1. System \in Kinds
  BY Constants
<1>2. e \in Event /\ accepted[System] + 1 \in Nat
  BY <1>1 DEF Event
<1>3. Append(chan[System], e) \in Seq(Event)
  BY <1>1, <1>2
<1>4. CASE Len(chan[System]) < Cap
  <2>1. /\ chan' = [chan EXCEPT ![System] = Append(chan[System], e)]
        /\ accepted' = [accepted EXCEPT ![System] = accepted[System] + 1]
    BY <1>4 DEF ReportSys
  <2> QED BY <1>1, <1>2, <1>3, <2>1
<1>5. CASE ~(Len(chan[System]) < Cap)
  BY <1>5 DEF ReportSys, chanVars
<1> QED BY <1>4, <1>5

LEMMA AcceptType ==
    ASSUME chan \in [Kinds -> Seq(Event)], accepted \in [Kinds -> Nat],
           NEW k \in DataKinds, NEW t \in Nat, Accept(k, t)
    PROVE  chan' \in [Kinds -> Seq(Event)] /\ accepted' \in [Kinds -> Nat]
<1> DEFINE e == [id |-> accepted[k] + 1, ts |-> t]
<1>1. k \in Kinds
  BY Constants
<1>2. e \in Event /\ accepted[k] + 1 \in Nat
  BY <1>1 DEF Event
<1>3. Append(chan[k], e) \in Seq(Event)
  BY <1>1, <1>2
<1>4. /\ chan' = [chan EXCEPT ![k] = Append(chan[k], e)]
      /\ accepted' = [accepted EXCEPT ![k] = accepted[k] + 1]
  BY DEF Accept
<1> QED BY <1>1, <1>2, <1>3, <1>4

LEMMA EnqueueType ==
    ASSUME chan \in [Kinds -> Seq(Event)], pending \in [Kinds -> Seq(Event)],
           nInBatch \in Nat, NEW k \in Kinds, chan[k] # <<>>, enqueue(k)
    PROVE  /\ pending' \in [Kinds -> Seq(Event)] /\ nInBatch' \in Nat
           /\ chan' \in [Kinds -> Seq(Event)]
<1>1. Head(chan[k]) \in Event /\ Tail(chan[k]) \in Seq(Event)
  OBVIOUS
<1>2. Append(pending[k], Head(chan[k])) \in Seq(Event)
  BY <1>1
<1> QED BY <1>1, <1>2 DEF enqueue

(* The largest rowid of a set of rows, or 0, is a number.                   *)
LEMMA LastRowidType ==
    ASSUME NEW rows \in SUBSET Row
    PROVE  LastRowid(rows) \in Nat
BY DEF LastRowid, LastRow, Row

LEMMA InsertedType ==
    ASSUME NEW rows \in SUBSET Row, NEW batch \in Seq(Event)
    PROVE  Inserted(rows, batch) \in SUBSET Row
<1>1. LastRowid(rows) \in Nat
  BY LastRowidType
<1>2. ASSUME NEW i \in DOMAIN batch
      PROVE  [rowid |-> LastRowid(rows) + i, id |-> batch[i].id, ts |-> batch[i].ts]
                 \in Row
  <2>1. i \in Nat /\ batch[i] \in Event
    BY <1>2
  <2> QED BY <1>1, <2>1 DEF Row, Event
<1> QED BY <1>2 DEF Inserted

LEMMA StartDrainType ==
    ASSUME DrainType, accepted \in [Kinds -> Nat], NEW returnTo, StartDrain(returnTo)
    PROVE  DrainType'
<1>1. got' = FALSE /\ dpos' = 1
  BY DEF StartDrain
<1>2. got' \in BOOLEAN
  BY <1>1, Zenon
<1>3. settled' \in [DataKinds -> Nat]
  <2>1. [k \in DataKinds |-> accepted[k]] \in [DataKinds -> Nat]
    BY Constants
  <2> QED BY <2>1 DEF StartDrain, DrainType
<1> QED BY <1>1, <1>2, <1>3, FirstPositions DEF DrainType

LEMMA VictimsType ==
    ASSUME NEW rows \in SUBSET Row
    PROVE  rows \ Victims(rows) \in SUBSET Row
OBVIOUS

(* A process that has died, or that has just begun, is well typed.          *)
LEMMA VolatileType ==
    ASSUME NEW at \in {"off", "boot"}, Volatile(at), services' \in BOOLEAN
    PROVE  /\ EnvType' /\ chan' \in [Kinds -> Seq(Event)] /\ BatchType'
           /\ ControlType' /\ DrainType' /\ CleanType'
<1>1. EnvType'
  <2>1. [k \in DataKinds |-> <<>>] \in [DataKinds -> Seq(Nat)]
    OBVIOUS
  <2> QED BY <2>1 DEF EnvType, Volatile
<1>2. chan' \in [Kinds -> Seq(Event)] /\ BatchType'
  <2>1. <<>> \in Seq(Event)
    OBVIOUS
  <2> QED BY <2>1, EmptyType DEF BatchType, Volatile
<1>3. ControlType'
  <2>1. chmodDone' \in BOOLEAN
    BY Zenon DEF Volatile
  <2> QED BY <2>1 DEF ControlType, Volatile
<1>4. DrainType'
  <2>1. got' \in BOOLEAN
    BY Zenon DEF Volatile
  <2>2. settled' \in [DataKinds -> Nat]
    BY DEF Volatile
  <2> QED BY <2>1, <2>2, FirstPositions DEF DrainType, Volatile
<1>5. CleanType'
  <2>1. yieldErr' \in BOOLEAN
    BY Zenon DEF Volatile
  <2>2. cpos' \in 1..DonePos /\ cutoff' \in Int
    BY FirstPositions DEF Volatile
  <2> QED BY <2>1, <2>2 DEF CleanType
<1> QED BY <1>1, <1>2, <1>3, <1>4, <1>5

LEMMA ProcessDiesType ==
    ASSUME TypeOK, ProcessDies, BoundType'
    PROVE  TypeOK'
<1>1. /\ EnvType' /\ chan' \in [Kinds -> Seq(Event)] /\ BatchType'
      /\ ControlType' /\ DrainType' /\ CleanType'
  BY VolatileType DEF ProcessDies
<1>2. ChanType' /\ TableType'
  BY <1>1 DEF ChanType, TableType, TypeOK, ProcessDies
<1> QED BY <1>1, <1>2 DEF TypeOK

-----------------------------------------------------------------------------
(* The type invariant                                                      *)

LEMMA TypeInit == Init => TypeOK
<1> SUFFICES ASSUME Init PROVE TypeOK
  OBVIOUS
<1>1. EnvType
  <2>1. [k \in DataKinds |-> <<>>] \in [DataKinds -> Seq(Nat)]
    OBVIOUS
  <2> QED BY <2>1 DEF EnvType, Init
<1>2. ChanType /\ TableType /\ BoundType
  BY EmptyType DEF ChanType, TableType, BoundType, Init
<1>3. BatchType
  <2>1. <<>> \in Seq(Event)
    OBVIOUS
  <2> QED BY <2>1, EmptyType DEF BatchType, Init
<1>4. got \in BOOLEAN /\ yieldErr \in BOOLEAN /\ chmodDone \in BOOLEAN
  BY Zenon DEF Init
<1>5. ControlType /\ DrainType
  <2>1. settled \in [DataKinds -> Nat]
    BY DEF Init
  <2> QED BY <1>4, <2>1, FirstPositions DEF ControlType, DrainType, Init
<1>6. CleanType
  <2>1. cpos \in 1..DonePos /\ cutoff \in Int
    BY FirstPositions DEF Init
  <2> QED BY <1>4, <2>1 DEF CleanType
<1> QED BY <1>1, <1>2, <1>3, <1>5, <1>6 DEF TypeOK

(* Every step keeps it; under each action only what the action touches.     *)
LEMMA TypeStep == TypeOK /\ [Next]_vars => TypeOK'
<1> SUFFICES ASSUME TypeOK, [Next]_vars PROVE TypeOK'
  OBVIOUS
<1> USE DEF TypeOK
<1>1. ASSUME NEW k \in DataKinds, StartProducer(k) PROVE TypeOK'
  BY <1>1 DEF StartProducer, EnvType, ChanType, BatchType, ControlType,
     DrainType, CleanType, TableType, BoundType, runVars, batchVars,
     drainVars, cleanVars, envVars, chanVars, boundVars
<1>2. ASSUME NEW k \in DataKinds, Produce(k) PROVE TypeOK'
  <2>1. EnvType'
    <3>1. PICK ts \in Stamps(k) : offer' = [offer EXCEPT ![k] = <<ts>>]
      BY <1>2 DEF Produce
    <3>2. <<ts>> \in Seq(Nat)
      BY <3>1 DEF Stamps, BoundType
    <3> QED BY <1>2, <3>1, <3>2 DEF Produce, EnvType
  <2>2. ChanType' /\ BatchType' /\ ControlType' /\ DrainType' /\ CleanType' /\
     TableType' /\ BoundType'
    BY <1>2 DEF Produce, ChanType, BatchType, ControlType, DrainType,
       CleanType, TableType, BoundType, runVars, batchVars, drainVars,
       cleanVars, envVars, chanVars, boundVars
  <2> QED BY <2>1, <2>2
<1>3. ASSUME NEW k \in DataKinds, Send(k) PROVE TypeOK'
  <2>1. EnvType'
    <3>1. <<>> \in Seq(Nat)
      OBVIOUS
    <3> QED BY <1>3, <3>1 DEF Send, EnvType
  <2>2. ChanType'
    <3>1. offer[k] \in Seq(Nat) /\ offer[k] # <<>> /\ Accept(k, offer[k][1])
      BY <1>3 DEF Send, EnvType
    <3>2. offer[k][1] \in Nat
      BY <3>1
    <3> QED BY <3>1, <3>2, AcceptType DEF ChanType
  <2>3. BatchType' /\ ControlType' /\ DrainType' /\ CleanType' /\ TableType'
     /\ BoundType'
    BY <1>3 DEF Send, BatchType, ControlType, DrainType, CleanType, TableType,
       BoundType, runVars, batchVars, drainVars, cleanVars, envVars, chanVars,
       boundVars
  <2> QED BY <2>1, <2>2, <2>3
<1>4. ASSUME NEW k \in DataKinds, AbandonSend(k) PROVE TypeOK'
  <2>1. EnvType'
    <3>1. <<>> \in Seq(Nat)
      OBVIOUS
    <3> QED BY <1>4, <3>1 DEF AbandonSend, EnvType
  <2>2. ChanType' /\ BatchType' /\ ControlType' /\ DrainType' /\ CleanType' /\
     TableType' /\ BoundType'
    BY <1>4 DEF AbandonSend, ChanType, BatchType, ControlType, DrainType,
       CleanType, TableType, BoundType, runVars, batchVars, drainVars,
       cleanVars, envVars, chanVars, boundVars
  <2> QED BY <2>1, <2>2
<1>5. ASSUME NEW k \in DataKinds, Emit(k) PROVE TypeOK'
  <2>1. ChanType'
    <3>1. PICK ts \in Stamps(k) : Accept(k, ts)
      BY <1>5 DEF Emit
    <3>2. ts \in Nat
      BY <3>1 DEF Stamps, BoundType
    <3> QED BY <3>1, <3>2, AcceptType DEF ChanType
  <2>2. EnvType' /\ BatchType' /\ ControlType' /\ DrainType' /\ CleanType' /\
     TableType' /\ BoundType'
    BY <1>5 DEF Emit, EnvType, BatchType, ControlType, DrainType, CleanType,
       TableType, BoundType, runVars, batchVars, drainVars, cleanVars,
       envVars, chanVars, boundVars
  <2> QED BY <2>1, <2>2
<1>6. ASSUME NEW k \in DataKinds, ProducerStops(k) PROVE TypeOK'
  BY <1>6 DEF ProducerStops, EnvType, ChanType, BatchType, ControlType,
     DrainType, CleanType, TableType, BoundType, runVars, batchVars,
     drainVars, cleanVars, envVars, chanVars, boundVars
<1>7. ASSUME NEW k \in DataKinds, ProducerGivesUp(k) PROVE TypeOK'
  <2>1. ChanType'
    BY <1>7, ReportSysType DEF ProducerGivesUp, ChanType, BoundType
  <2>2. EnvType' /\ BatchType' /\ ControlType' /\ DrainType' /\ CleanType' /\
     TableType' /\ BoundType'
    BY <1>7 DEF ProducerGivesUp, EnvType, BatchType, ControlType, DrainType,
       CleanType, TableType, BoundType, runVars, batchVars, drainVars,
       cleanVars, envVars, chanVars, boundVars
  <2> QED BY <2>1, <2>2
<1>8. ASSUME NEW k \in DataKinds, TakeEvent(k) PROVE TypeOK'
  <2>1. ChanType'
    <3>1. k \in Kinds
      BY Constants
    <3> QED BY <1>8, <3>1, EnqueueType DEF TakeEvent, ChanType, BatchType
  <2>2. BatchType'
    <3>1. k \in Kinds
      BY Constants
    <3> QED BY <1>8, <3>1, EnqueueType DEF TakeEvent, ChanType, BatchType
  <2>3. ControlType'
    BY <1>8 DEF TakeEvent, BottomOfLoop, ControlType
  <2>4. EnvType' /\ DrainType' /\ CleanType' /\ TableType' /\ BoundType'
    BY <1>8 DEF TakeEvent, EnvType, DrainType, CleanType, TableType,
       BoundType, runVars, batchVars, drainVars, cleanVars, envVars, chanVars,
       boundVars
  <2> QED BY <2>1, <2>2, <2>3, <2>4
<1>9. CASE RunBegins
  <2>1. ChanType'
    BY <1>9, ReportSysType DEF RunBegins, ChanType, BoundType, chanVars
  <2>2. EnvType' /\ BatchType' /\ ControlType' /\ DrainType' /\ CleanType' /\
     TableType' /\ BoundType'
    BY <1>9 DEF RunBegins, EnvType, BatchType, ControlType, DrainType,
       CleanType, TableType, BoundType, runVars, batchVars, drainVars,
       cleanVars, envVars, chanVars, boundVars
  <2> QED BY <2>1, <2>2
<1>10. CASE ProducersWait
  <2>1. DrainType'
    <3>1. StartDrain("exit")
      BY <1>10 DEF ProducersWait
    <3> QED BY <3>1, StartDrainType DEF DrainType, ChanType
  <2>2. EnvType' /\ ChanType' /\ BatchType' /\ ControlType' /\ CleanType' /\
     TableType' /\ BoundType'
    BY <1>10 DEF ProducersWait, EnvType, ChanType, BatchType, ControlType,
       CleanType, TableType, BoundType, runVars, batchVars, drainVars,
       cleanVars, envVars, chanVars, boundVars, StartDrain
  <2> QED BY <2>1, <2>2
<1>11. CASE Poll
  <2>1. ChanType'
    <3>1. DrainOrder[dpos] \in Kinds
      BY <1>11, Constants DEF Poll, DrainType
    <3> QED BY <1>11, <3>1, EnqueueType DEF Poll, ChanType, BatchType, batchVars
  <2>2. BatchType'
    <3>1. DrainOrder[dpos] \in Kinds
      BY <1>11, Constants DEF Poll, DrainType
    <3> QED BY <1>11, <3>1, EnqueueType DEF Poll, ChanType, BatchType, batchVars
  <2>3. DrainType'
    <3>1. got' \in BOOLEAN
      BY <1>11, Zenon DEF Poll, DrainType
    <3>2. dpos' \in 1..(Len(DrainOrder) + 1)
      BY <1>11, Constants DEF Poll, DrainType
    <3>3. settled' \in [DataKinds -> Nat]
      BY <1>11 DEF Poll, DrainType
    <3> QED BY <3>1, <3>2, <3>3 DEF DrainType
  <2>4. EnvType' /\ ControlType' /\ CleanType' /\ TableType' /\ BoundType'
    BY <1>11 DEF Poll, EnvType, ControlType, CleanType, TableType, BoundType,
       runVars, batchVars, drainVars, cleanVars, envVars, chanVars, boundVars
  <2> QED BY <2>1, <2>2, <2>3, <2>4
<1>12. CASE NextRound
  <2>1. DrainType'
    <3>1. got' = FALSE /\ dpos' = 1 /\ settled' = settled
      BY <1>12 DEF NextRound
    <3>2. got' \in BOOLEAN
      BY <3>1, Zenon
    <3> QED BY <3>1, <3>2, FirstPositions DEF DrainType
  <2>2. EnvType' /\ ChanType' /\ BatchType' /\ ControlType' /\ CleanType' /\
     TableType' /\ BoundType'
    BY <1>12 DEF NextRound, EnvType, ChanType, BatchType, ControlType,
       CleanType, TableType, BoundType, runVars, batchVars, drainVars,
       cleanVars, envVars, chanVars, boundVars
  <2> QED BY <2>1, <2>2
<1>13. CASE DrainEnds
  <2>1. DrainType'
    <3>1. got' = FALSE /\ dpos' = 1 /\ settled' = settled
      BY <1>13 DEF DrainEnds
    <3>2. got' \in BOOLEAN
      BY <3>1, Zenon
    <3> QED BY <3>1, <3>2, FirstPositions DEF DrainType
  <2>2. EnvType' /\ ChanType' /\ BatchType' /\ ControlType' /\ CleanType' /\
     TableType' /\ BoundType'
    BY <1>13 DEF DrainEnds, EnvType, ChanType, BatchType, ControlType,
       CleanType, TableType, BoundType, runVars, batchVars, drainVars,
       cleanVars, envVars, chanVars, boundVars
  <2> QED BY <2>1, <2>2
<1>14. CASE CommitBatch
  <2>1. BatchType'
    BY <1>14, EmptyType DEF CommitBatch, ResetBatch, BatchType
  <2>2. TableType'
    <3>1. ASSUME NEW k \in Kinds PROVE Inserted(table[k], pending[k]) \in SUBSET Row
      BY InsertedType DEF TableType, BatchType
    <3> QED BY <1>14, <3>1 DEF CommitBatch, TableType
  <2>3. EnvType' /\ ChanType' /\ ControlType' /\ DrainType' /\ CleanType' /\
     BoundType'
    BY <1>14 DEF CommitBatch, EnvType, ChanType, ControlType, DrainType,
       CleanType, BoundType, runVars, batchVars, drainVars, cleanVars,
       envVars, chanVars, boundVars
  <2> QED BY <2>1, <2>2, <2>3
<1>15. CASE ChmodFails
  <2>1. ChanType'
    BY <1>15, ReportSysType DEF ChmodFails, ChanType, BoundType
  <2>2. ControlType'
    <3>1. chmodDone' \in BOOLEAN
      BY <1>15, Zenon DEF ChmodFails
    <3> QED BY <1>15, <3>1 DEF ChmodFails, ControlType
  <2>3. EnvType' /\ BatchType' /\ DrainType' /\ CleanType' /\ TableType' /\
     BoundType'
    BY <1>15 DEF ChmodFails, EnvType, BatchType, DrainType, CleanType,
       TableType, BoundType, runVars, batchVars, drainVars, cleanVars,
       envVars, chanVars, boundVars
  <2> QED BY <2>1, <2>2, <2>3
<1>16. CASE FlushReturns
  <2>1. ControlType'
    <3>1. chmodDone' \in BOOLEAN
      BY <1>16, Zenon DEF FlushReturns
    <3> QED BY <1>16, <3>1 DEF FlushReturns, AfterFlush, ControlType
  <2>2. EnvType' /\ ChanType' /\ BatchType' /\ DrainType' /\ CleanType' /\
     TableType' /\ BoundType'
    BY <1>16 DEF FlushReturns, EnvType, ChanType, BatchType, DrainType,
       CleanType, TableType, BoundType, runVars, batchVars, drainVars,
       cleanVars, envVars, chanVars, boundVars
  <2> QED BY <2>1, <2>2
<1>17. CASE FlushFails
  <2>1. BoundType'
    BY <1>17 DEF FlushFails, BoundType
  <2>2. CASE ret = "clean"
    <3>1. CleanType'
      <4>1. yieldErr' \in BOOLEAN
        BY <1>17, <2>2, Zenon DEF FlushFails
      <4> QED BY <1>17, <2>2, <4>1 DEF FlushFails, CleanType
    <3>2. /\ EnvType' /\ ChanType' /\ BatchType' /\ ControlType' /\ DrainType'
          /\ TableType'
      BY <1>17, <2>2 DEF FlushFails, EnvType, ChanType, BatchType, ControlType,
         DrainType, TableType, batchVars, drainVars, envVars, chanVars
    <3> QED BY <2>1, <3>1, <3>2
  <2>3. CASE ret # "clean"
    BY <1>17, <2>1, <2>3, ProcessDiesType DEF FlushFails
  <2> QED BY <2>2, <2>3
<1>18. CASE CommitSystem
  <2>1. BatchType'
    <3>1. <<>> \in Seq(Event)
      OBVIOUS
    <3> QED BY <1>18, <3>1 DEF CommitSystem, BatchType
  <2>2. TableType'
    <3>1. Inserted(table[System], urgent) \in SUBSET Row /\ System \in Kinds
      BY InsertedType, Constants DEF TableType, BatchType
    <3> QED BY <1>18, <3>1 DEF CommitSystem, TableType
  <2>3. EnvType' /\ ChanType' /\ ControlType' /\ DrainType' /\ CleanType' /\
     BoundType'
    BY <1>18 DEF CommitSystem, EnvType, ChanType, ControlType, DrainType,
       CleanType, BoundType, runVars, batchVars, drainVars, cleanVars,
       envVars, chanVars, boundVars, BottomOfLoop
  <2> QED BY <2>1, <2>2, <2>3
<1>19. CASE SystemFails
  <2>1. ProcessDies /\ BoundType'
    BY <1>19 DEF SystemFails, BoundType, boundVars
  <2> QED BY <2>1, ProcessDiesType
<1>20. CASE CleanStep
  <2> DEFINE t == IF cpos = CredPos THEN Cred ELSE CleanOrder[cpos]
  <2>1. CleanTable(t) /\ cpos < DonePos /\ pc = "clean"
    BY <1>20 DEF CleanStep
  <2>2. t \in Kinds
    <3>1. CASE cpos = CredPos
      BY <3>1, Constants
    <3>2. CASE cpos # CredPos
      <4>1. cpos \in 1..Len(CleanOrder)
        BY <2>1, <3>2, Constants DEF CleanType
      <4> QED BY <3>2, <4>1, Constants
    <3> QED BY <3>1, <3>2
  <2>3. EnvType' /\ BatchType' /\ BoundType'
    BY <1>20 DEF CleanStep, EnvType, BatchType, BoundType, batchVars, envVars, boundVars
  <2>4. yieldErr' \in BOOLEAN /\ chmodDone' \in BOOLEAN
    BY <1>20 DEF CleanStep, CleanType, ControlType
  <2> HIDE DEF t
  <2>5. TableType'
    BY <2>1, <2>2, VictimsType DEF CleanTable, TableType
  <2>6. ChanType'
    BY <2>1, ReportSysType DEF CleanTable, ChanType, BoundType, chanVars
  <2>7. ControlType'
    BY <2>1, <2>4 DEF CleanTable, StartDrain, ControlType
  <2>8. DrainType'
    <3>1. CASE UNCHANGED drainVars
      BY <3>1 DEF DrainType, drainVars
    <3>2. CASE StartDrain("clean")
      BY <3>2, StartDrainType DEF DrainType, ChanType
    <3> QED BY <2>1, <3>1, <3>2 DEF CleanTable
  <2>9. CleanType'
    <3>1. cpos' \in {cpos, cpos + 1, CredPos, DonePos}
      BY <2>1 DEF CleanTable, StartCred
    <3>2. cpos' \in 1..DonePos
      BY <2>1, <3>1, Constants DEF CleanType
    <3>3. cutoff' \in {cutoff, now - CredRetentionDays}
      BY <2>1 DEF CleanTable, StartCred
    <3>4. cutoff' \in Int
      BY <3>3, Constants DEF CleanType, BoundType
    <3> QED BY <2>4, <3>2, <3>4 DEF CleanType
  <2> QED BY <2>3, <2>5, <2>6, <2>7, <2>8, <2>9
<1>21. CASE RetentionEnds
  <2>1. CleanType'
    BY <1>21, FirstPositions DEF RetentionEnds, RetentionReturns, CleanType
  <2>2. EnvType' /\ ChanType' /\ BatchType' /\ ControlType' /\ DrainType' /\
     TableType' /\ BoundType'
    BY <1>21 DEF RetentionEnds, EnvType, ChanType, BatchType, ControlType,
       DrainType, TableType, BoundType, runVars, batchVars, drainVars,
       cleanVars, envVars, chanVars, boundVars, RetentionReturns, BottomOfLoop
  <2> QED BY <2>1, <2>2
<1>22. CASE RetentionFails
  <2>1. ChanType'
    BY <1>22, ReportSysType DEF RetentionFails, ChanType, BoundType
  <2>2. CleanType'
    BY <1>22, FirstPositions DEF RetentionFails, RetentionReturns, CleanType
  <2>3. EnvType' /\ BatchType' /\ ControlType' /\ DrainType' /\ TableType' /\
     BoundType'
    BY <1>22 DEF RetentionFails, EnvType, BatchType, ControlType, DrainType,
       TableType, BoundType, runVars, batchVars, drainVars, cleanVars,
       envVars, chanVars, boundVars, RetentionReturns, BottomOfLoop,
       RoundFails
  <2> QED BY <2>1, <2>2, <2>3
<1>23. CASE RetentionFatal
  <2>1. ProcessDies /\ BoundType'
    BY <1>23 DEF RetentionFatal, BoundType, boundVars, RoundFails
  <2> QED BY <2>1, ProcessDiesType
<1>24. CASE EndArchive
  <2>1. ChanType'
    BY <1>24, ReportSysType DEF EndArchive, ChanType, BoundType
  <2>2. EnvType' /\ BatchType' /\ ControlType' /\ DrainType' /\ CleanType' /\
     TableType' /\ BoundType'
    BY <1>24 DEF EndArchive, EnvType, BatchType, ControlType, DrainType,
       CleanType, TableType, BoundType, runVars, batchVars, drainVars,
       cleanVars, envVars, chanVars, boundVars, BottomOfLoop
  <2> QED BY <2>1, <2>2
<1>25. CASE TakeSystem
  <2>1. ChanType'
    <3>1. System \in Kinds /\ Tail(chan[System]) \in Seq(Event)
      BY <1>25, Constants DEF TakeSystem, ChanType
    <3> QED BY <1>25, <3>1 DEF TakeSystem, ChanType
  <2>2. BatchType'
    <3>1. Head(chan[System]) \in Event
      BY <1>25, Constants DEF TakeSystem, ChanType
    <3>2. <<Head(chan[System])>> \in Seq(Event)
      BY <3>1
    <3> QED BY <1>25, <3>2 DEF TakeSystem, BatchType, batchVars
  <2>3. EnvType' /\ ControlType' /\ DrainType' /\ CleanType' /\ TableType' /\
     BoundType'
    BY <1>25 DEF TakeSystem, EnvType, ControlType, DrainType, CleanType,
       TableType, BoundType, runVars, batchVars, drainVars, cleanVars,
       envVars, chanVars, boundVars
  <2> QED BY <2>1, <2>2, <2>3
<1>26. CASE BatchTicker
  BY <1>26 DEF BatchTicker, EnvType, ChanType, BatchType, ControlType,
     DrainType, CleanType, TableType, BoundType, runVars, batchVars,
     drainVars, cleanVars, envVars, chanVars, boundVars
<1>27. CASE ContextDone
  BY <1>27 DEF ContextDone, EnvType, ChanType, BatchType, ControlType,
     DrainType, CleanType, TableType, BoundType, runVars, batchVars,
     drainVars, cleanVars, envVars, chanVars, boundVars
<1>28. CASE RetentionTimer
  <2>1. CleanType'
    <3>1. /\ cpos' \in {1, CredPos, DonePos}
          /\ cutoff' \in {now - RetentionDays, now - CredRetentionDays}
          /\ yieldErr' = yieldErr
      BY <1>28 DEF RetentionTimer, StartCred
    <3>2. CredPos \in 1..DonePos /\ DonePos \in 1..DonePos
      BY Constants
    <3>3. cutoff' \in Int
      BY <3>1, Constants DEF BoundType
    <3> QED BY <3>1, <3>2, <3>3, FirstPositions DEF CleanType
  <2>2. EnvType' /\ ChanType' /\ BatchType' /\ ControlType' /\ DrainType' /\
     TableType' /\ BoundType'
    BY <1>28 DEF RetentionTimer, EnvType, ChanType, BatchType, ControlType,
       DrainType, TableType, BoundType, runVars, batchVars, drainVars,
       cleanVars, envVars, chanVars, boundVars
  <2> QED BY <2>1, <2>2
<1>29. CASE StartArchive
  <2>1. ChanType'
    BY <1>29, ReportSysType DEF StartArchive, ChanType, BoundType
  <2>2. EnvType' /\ BatchType' /\ ControlType' /\ DrainType' /\ CleanType' /\
     TableType' /\ BoundType'
    BY <1>29 DEF StartArchive, EnvType, BatchType, ControlType, DrainType,
       CleanType, TableType, BoundType, runVars, batchVars, drainVars,
       cleanVars, envVars, chanVars, boundVars
  <2> QED BY <2>1, <2>2
<1>30. CASE Boot
  <2>1. Volatile("boot") /\ services' \in BOOLEAN
    BY <1>30, Zenon DEF Boot
  <2>2. /\ EnvType' /\ chan' \in [Kinds -> Seq(Event)] /\ BatchType'
        /\ ControlType' /\ DrainType' /\ CleanType'
    BY <2>1, VolatileType
  <2>3. ChanType' /\ TableType' /\ BoundType'
    BY <1>30, <2>2 DEF Boot, ChanType, TableType, BoundType
  <2> QED BY <2>2, <2>3
<1>31. CASE Report
  <2>1. ChanType'
    BY <1>31, ReportSysType DEF Report, ChanType, BoundType
  <2>2. EnvType' /\ BatchType' /\ ControlType' /\ DrainType' /\ CleanType' /\
     TableType' /\ BoundType'
    BY <1>31 DEF Report, EnvType, BatchType, ControlType, DrainType,
       CleanType, TableType, BoundType, runVars, batchVars, drainVars,
       cleanVars, envVars, chanVars, boundVars
  <2> QED BY <2>1, <2>2
<1>32. CASE RequestArchive
  <2>1. ChanType'
    BY <1>32, ReportSysType DEF RequestArchive, ChanType, BoundType, chanVars
  <2>2. EnvType' /\ BatchType' /\ ControlType' /\ DrainType' /\ CleanType' /\
     TableType' /\ BoundType'
    BY <1>32 DEF RequestArchive, EnvType, BatchType, ControlType, DrainType,
       CleanType, TableType, BoundType, runVars, batchVars, drainVars,
       cleanVars, envVars, chanVars, boundVars
  <2> QED BY <2>1, <2>2
<1>33. CASE ServicesStop
  BY <1>33 DEF ServicesStop, EnvType, ChanType, BatchType, ControlType,
     DrainType, CleanType, TableType, BoundType, runVars, batchVars,
     drainVars, cleanVars, envVars, chanVars, boundVars
<1>34. CASE Cancel
  BY <1>34 DEF Cancel, EnvType, ChanType, BatchType, ControlType, DrainType,
     CleanType, TableType, BoundType, runVars, batchVars, drainVars,
     cleanVars, envVars, chanVars, boundVars
<1>35. CASE ProcessExits
  <2>1. ProcessDies /\ BoundType'
    BY <1>35 DEF ProcessExits, BoundType, boundVars
  <2> QED BY <2>1, ProcessDiesType
<1>36. CASE ForceExit
  <2>1. ProcessDies /\ BoundType'
    BY <1>36 DEF ForceExit, BoundType, boundVars
  <2> QED BY <2>1, ProcessDiesType
<1>37. CASE Crash
  <2>1. ProcessDies /\ BoundType'
    BY <1>37 DEF Crash, BoundType, boundVars
  <2> QED BY <2>1, ProcessDiesType
<1>38. CASE Tick
  BY <1>38 DEF Tick, EnvType, ChanType, BatchType, ControlType, DrainType,
     CleanType, TableType, BoundType, runVars, batchVars, drainVars,
     cleanVars, envVars, chanVars, boundVars
<1>39. CASE Stopped
  BY <1>39 DEF Stopped, EnvType, ChanType, BatchType, ControlType, DrainType,
     CleanType, TableType, BoundType, runVars, batchVars, drainVars,
     cleanVars, envVars, chanVars, boundVars, vars
<1>40. CASE UNCHANGED vars
  BY <1>40 DEF vars, EnvType, ChanType, BatchType, ControlType, DrainType,
     CleanType, TableType, BoundType, runVars, batchVars, drainVars,
     cleanVars, envVars, chanVars, boundVars
<1>41. ASSUME NEW k \in DataKinds, HookEnds(k) PROVE TypeOK'
  BY <1>41 DEF HookEnds, EnvType, ChanType, BatchType, ControlType,
     DrainType, CleanType, TableType, BoundType, runVars, batchVars,
     drainVars, cleanVars, envVars, chanVars, boundVars
<1> QED BY <1>1, <1>2, <1>3, <1>4, <1>5, <1>6, <1>7, <1>8, <1>9, <1>10, <1>11,
   <1>12, <1>13, <1>14, <1>15, <1>16, <1>17, <1>18, <1>19, <1>20, <1>21,
   <1>22, <1>23, <1>24, <1>25, <1>26, <1>27, <1>28, <1>29, <1>30, <1>31,
   <1>32, <1>33, <1>34, <1>35, <1>36, <1>37, <1>38, <1>39, <1>40, <1>41 DEF Next,
   Writer, Select, Producer, Process

(* The state of the write path is well typed in every reachable state: the   *)
(* counters of the loop, the drain and the cleanup stay in range and no      *)
(* channel, batch or table holds anything but events (Store.Run).            *)
THEOREM TypeCorrect == Spec => []TypeOK
<1>1. Init => TypeOK
  BY TypeInit
<1>2. TypeOK /\ [Next]_vars => TypeOK'
  BY TypeStep
<1> QED BY <1>1, <1>2, PTL DEF Spec

-----------------------------------------------------------------------------
(* Two-phase shutdown                                                     *)

(* ReportSys touches no channel of a data kind.                             *)
LEMMA ReportSysKeepsData ==
    ASSUME chan \in [Kinds -> Seq(Event)], accepted \in [Kinds -> Nat], ReportSys
    PROVE  \A k \in DataKinds : chan'[k] = chan[k] /\ accepted'[k] = accepted[k]
<1>1. System \notin DataKinds /\ DataKinds \subseteq Kinds
  BY Constants
<1> QED BY <1>1 DEF ReportSys, chanVars

(* A process that has ended holds nothing that could be lost.               *)
LEMMA DeathKeepsShutdownInv ==
    ASSUME NEW at \in {"off", "boot"}, Volatile(at), accepted \in [Kinds -> Nat],
           UNCHANGED accepted
    PROVE  ShutdownInv'
<1>1. /\ pc' = at /\ ret' = "loop" /\ cancelled' = FALSE /\ nInBatch' = 0
      /\ pending' = [k \in Kinds |-> <<>>]
  BY DEF Volatile, Empty
<1>2. LeftAreLoose' /\ SettledWasAccepted'
  BY Constants DEF Volatile, LeftAreLoose, SettledWasAccepted
<1>3. CancelAfterStart' /\ ExitAfterCancel' /\ ExitAfterProducers' /\ BatchIsCounted'
  BY <1>1 DEF CancelAfterStart, ExitAfterCancel, ExitAfterProducers, BatchIsCounted, Exiting
<1>4. PolledAreEmpty' /\ DrainedAreEmpty'
  BY <1>1 DEF PolledAreEmpty, DrainedAreEmpty, Exiting
<1> QED BY <1>2, <1>3, <1>4 DEF ShutdownInv

LEMMA ShutdownInit == Init => ShutdownInv
<1> SUFFICES ASSUME Init PROVE ShutdownInv
  OBVIOUS
<1>1. LeftAreLoose /\ SettledWasAccepted
  BY Constants DEF Init, LeftAreLoose, SettledWasAccepted
<1>2. CancelAfterStart /\ ExitAfterCancel /\ ExitAfterProducers /\ BatchIsCounted
  BY DEF Init, Empty, CancelAfterStart, ExitAfterCancel, ExitAfterProducers, BatchIsCounted,
         Exiting
<1>3. PolledAreEmpty /\ DrainedAreEmpty
  BY DEF Init, PolledAreEmpty, DrainedAreEmpty, Exiting
<1> QED BY <1>1, <1>2, <1>3 DEF ShutdownInv

LEMMA AcceptKeepsSettled ==
    ASSUME accepted \in [Kinds -> Nat], settled \in [DataKinds -> Nat], SettledWasAccepted,
           NEW k \in DataKinds, NEW t, Accept(k, t), UNCHANGED settled
    PROVE  SettledWasAccepted'
<1> SUFFICES ASSUME NEW j \in DataKinds PROVE settled[j] <= accepted'[j]
  BY DEF SettledWasAccepted
<1>1. /\ settled[j] \in Nat /\ accepted[j] \in Nat
      /\ accepted'[j] \in {accepted[j], accepted[j] + 1}
  BY Constants DEF Accept
<1>2. settled[j] <= accepted[j]
  BY DEF SettledWasAccepted
<1> QED BY <1>1, <1>2

(* An event that is accepted after producers.Wait() has a later number.     *)
LEMMA AcceptKeepsCleared ==
    ASSUME chan \in [Kinds -> Seq(Event)], accepted \in [Kinds -> Nat],
           settled \in [DataKinds -> Nat], SettledWasAccepted,
           NEW k \in Loose, NEW t, Accept(k, t), UNCHANGED settled,
           NEW j \in DataKinds, Cleared(j)
    PROVE  Cleared(j)'
<1> DEFINE e == [id |-> accepted[k] + 1, ts |-> t]
<1>1. k \in DataKinds /\ DataKinds \subseteq Kinds
  BY Constants, KindsAssumption
<1>2. chan' = [chan EXCEPT ![k] = Append(chan[k], e)]
  BY DEF Accept
<1>3. CASE j # k
  <2>1. chan'[j] = chan[j]
    BY <1>1, <1>2, <1>3
  <2> QED BY <2>1 DEF Cleared
<1>4. CASE j = k
  <2>1. chan'[k] = Append(chan[k], e) /\ chan[k] \in Seq(Event)
    BY <1>1, <1>2
  <2>2. e.id > settled[k]
    BY <1>1 DEF SettledWasAccepted
  <2>3. \A i \in DOMAIN chan'[k] : chan'[k][i].id > settled[k]
    <3> SUFFICES ASSUME NEW i \in DOMAIN chan'[k] PROVE chan'[k][i].id > settled[k]
      OBVIOUS
    <3>1. CASE i \in DOMAIN chan[k]
      <4>1. chan'[k][i] = chan[k][i]
        BY <2>1, <3>1
      <4> QED BY <1>4, <3>1, <4>1 DEF Cleared
    <3>2. CASE i \notin DOMAIN chan[k]
      <4>1. chan'[k][i] = e
        BY <2>1, <3>2
      <4> QED BY <2>2, <4>1
    <3> QED BY <3>1, <3>2
  <2> QED BY <1>4, <2>3 DEF Cleared
<1> QED BY <1>3, <1>4

(* Every step keeps the argument of the two-phase shutdown.                 *)
LEMMA ShutdownStep ==
    ASSUME EarlyCancel = FALSE, TypeOK, ShutdownInv, [Next]_vars
    PROVE  ShutdownInv'
<1>a. /\ chan \in [Kinds -> Seq(Event)] /\ pending \in [Kinds -> Seq(Event)]
      /\ nInBatch \in Nat /\ dpos \in 1..(Len(DrainOrder) + 1)
      /\ prod \in [DataKinds -> {"unborn", "running", "left", "exited"}]
      /\ accepted \in [Kinds -> Nat] /\ settled \in [DataKinds -> Nat]
      /\ DataKinds \subseteq Kinds
  BY Constants DEF TypeOK, ChanType, BatchType, DrainType, EnvType
<1> USE DEF Cleared, Returned, LeftAreLoose, SettledWasAccepted
<1>1. ASSUME NEW k \in DataKinds, StartProducer(k) PROVE ShutdownInv'
  BY <1>1 DEF StartProducer, ShutdownInv, CancelAfterStart, ExitAfterCancel,
     ExitAfterProducers, PolledAreEmpty, DrainedAreEmpty, BatchIsCounted,
     Exiting, runVars, batchVars, drainVars, chanVars
<1>2. ASSUME NEW k \in DataKinds, Produce(k) PROVE ShutdownInv'
  BY <1>2 DEF Produce, ShutdownInv, CancelAfterStart, ExitAfterCancel,
     ExitAfterProducers, PolledAreEmpty, DrainedAreEmpty, BatchIsCounted,
     Exiting, runVars, batchVars, drainVars, chanVars
<1>3. ASSUME NEW k \in DataKinds, Send(k) PROVE ShutdownInv'
  <2> HIDE DEF Cleared
  <2>1. /\ prod[k] \in {"running", "left"} /\ Accept(k, offer[k][1])
        /\ UNCHANGED <<pc, ret, pending, nInBatch, dpos, got, settled, cancelled, prod>>
    BY <1>3 DEF Send, Sending, runVars, batchVars, drainVars
  <2>2. \A j \in DataKinds : j # k => chan'[j] = chan[j]
    BY <2>1, <1>a DEF Accept
  <2>3. /\ CancelAfterStart' /\ ExitAfterCancel' /\ LeftAreLoose' /\ ExitAfterProducers'
        /\ BatchIsCounted'
    BY <2>1 DEF ShutdownInv, CancelAfterStart, ExitAfterCancel, ExitAfterProducers,
       BatchIsCounted, Exiting
  <2>4. SettledWasAccepted'
    BY <2>1, AcceptKeepsSettled, <1>a DEF ShutdownInv
  <2>5. CASE ~Exiting /\ pc # "closed"
    BY <2>1, <2>3, <2>4, <2>5 DEF ShutdownInv, PolledAreEmpty, DrainedAreEmpty, Exiting
  <2>6. CASE Exiting \/ pc = "closed"
    <3>1. k \in Loose
      BY <2>1, <2>6 DEF ShutdownInv, ExitAfterProducers
    <3>2. \A j \in DataKinds : Cleared(j) => Cleared(j)'
      BY <2>1, <3>1, <1>a, AcceptKeepsCleared DEF ShutdownInv
    <3> QED BY <2>1, <2>3, <2>4, <3>2 DEF ShutdownInv, PolledAreEmpty, DrainedAreEmpty, Exiting
  <2> QED BY <2>5, <2>6
<1>4. ASSUME NEW k \in DataKinds, AbandonSend(k) PROVE ShutdownInv'
  BY <1>4 DEF AbandonSend, ShutdownInv, CancelAfterStart, ExitAfterCancel,
     ExitAfterProducers, PolledAreEmpty, DrainedAreEmpty, BatchIsCounted,
     Exiting, runVars, batchVars, drainVars, chanVars
<1>5. ASSUME NEW k \in DataKinds, Emit(k) PROVE ShutdownInv'
  <2>1. prod[k] = "running" /\ \A j \in DataKinds : j # k => chan'[j] = chan[j]
    BY <1>5, <1>a, Constants DEF Emit, Running, Accept
  <2>2. ~Exiting /\ pc # "closed"
    BY <2>1 DEF ShutdownInv, ExitAfterProducers
  <2>3. /\ UNCHANGED <<pc, ret, pending, nInBatch, dpos, got, settled, cancelled, prod>>
        /\ \E ts : Accept(k, ts)
    BY <1>5 DEF Emit, runVars, batchVars, drainVars, envVars
  <2>4. SettledWasAccepted'
    BY <2>3, AcceptKeepsSettled, <1>a DEF ShutdownInv
  <2> QED BY <2>2, <2>3, <2>4 DEF ShutdownInv, CancelAfterStart, ExitAfterCancel,
        ExitAfterProducers, PolledAreEmpty, DrainedAreEmpty, BatchIsCounted,
        Exiting
<1>6. ASSUME NEW k \in DataKinds, ProducerStops(k) PROVE ShutdownInv'
  BY <1>6, <1>a DEF ProducerStops, Running, ShutdownInv, CancelAfterStart, ExitAfterCancel,
     ExitAfterProducers, PolledAreEmpty, DrainedAreEmpty, BatchIsCounted,
     Exiting, runVars, batchVars, drainVars, chanVars
<1>7. ASSUME NEW k \in DataKinds, ProducerGivesUp(k) PROVE ShutdownInv'
  BY <1>7, ReportSysKeepsData, <1>a DEF ProducerGivesUp, ShutdownInv,
     CancelAfterStart, ExitAfterCancel, ExitAfterProducers, PolledAreEmpty,
     DrainedAreEmpty, BatchIsCounted, Exiting, runVars, batchVars, drainVars
<1>8. ASSUME NEW k \in DataKinds, TakeEvent(k) PROVE ShutdownInv'
  <2>1. /\ pc = "select" /\ pc' \in {"select", "flush"} /\ ret' = "loop"
        /\ UNCHANGED <<cancelled, prod, settled, accepted>>
    BY <1>8 DEF TakeEvent, BottomOfLoop, drainVars, envVars
  <2>2. nInBatch' = nInBatch + 1
    BY <1>8 DEF TakeEvent, enqueue
  <2>3. BatchIsCounted'
    BY <2>1, <2>2, <1>a DEF BatchIsCounted
  <2> QED BY <2>1, <2>3 DEF ShutdownInv, CancelAfterStart, ExitAfterCancel,
        ExitAfterProducers, PolledAreEmpty, DrainedAreEmpty, Exiting
<1>9. CASE RunBegins
  BY <1>9, ReportSysKeepsData, <1>a DEF RunBegins, ShutdownInv,
     CancelAfterStart, ExitAfterCancel, ExitAfterProducers, PolledAreEmpty,
     DrainedAreEmpty, BatchIsCounted, Exiting, batchVars, drainVars, envVars,
     chanVars
<1>10. CASE ProducersWait
  <2>1. \A k \in DataKinds : Returned(k)
    BY <1>10, <1>a DEF ProducersWait, ShutdownInv, CancelAfterStart, ExitAfterCancel
  <2>2. /\ pc = "wait" /\ pc' = "drain" /\ ret' = "exit" /\ dpos' = 1
        /\ UNCHANGED <<pending, nInBatch, cancelled, prod, chan, accepted>>
        /\ settled' = [k \in DataKinds |-> accepted[k]]
    BY <1>10 DEF ProducersWait, StartDrain, batchVars, envVars, chanVars
  <2>3. SettledWasAccepted'
    BY <2>2, <1>a
  <2>4. PolledAreEmpty' /\ DrainedAreEmpty'
    BY <2>2 DEF PolledAreEmpty, DrainedAreEmpty, Exiting
  <2> QED BY <2>1, <2>2, <2>3, <2>4 DEF ShutdownInv, CancelAfterStart, ExitAfterCancel,
        ExitAfterProducers, BatchIsCounted, Exiting
<1>11. CASE Poll
  <2> DEFINE j == DrainOrder[dpos]
  <2>1. dpos \in 1..Len(DrainOrder) /\ dpos' = dpos + 1 /\ j \in Kinds
    BY <1>11, <1>a, Constants DEF Poll
  <2>2. pc' = pc /\ ret' = ret /\ cancelled' = cancelled /\ prod' = prod
    BY <1>11 DEF Poll, envVars
  <2>3. CASE chan[j] # <<>>
    <3>1. enqueue(j) /\ got' = TRUE
      BY <1>11, <2>3 DEF Poll
    <3>2. nInBatch' # 0
      BY <3>1, <1>a DEF enqueue
    <3> QED BY <1>11, <2>2, <3>1, <3>2 DEF Poll, ShutdownInv, CancelAfterStart,
          ExitAfterCancel, ExitAfterProducers, PolledAreEmpty, DrainedAreEmpty,
          BatchIsCounted, Exiting
  <2>4. CASE chan[j] = <<>>
    <3>1. UNCHANGED <<pending, nInBatch, chan, got, accepted, settled>>
      BY <1>11, <2>4 DEF Poll, batchVars
    <3>2. PolledAreEmpty'
      <4> SUFFICES ASSUME pc = "drain", ret = "exit", ~got,
                          NEW i \in 1..dpos, DrainOrder[i] \in DataKinds
                   PROVE  Cleared(DrainOrder[i])
        BY <2>1, <2>2, <3>1 DEF PolledAreEmpty
      <4>1. CASE i = dpos
        BY <4>1, <2>4
      <4>2. CASE i # dpos
        <5>1. i \in 1..(dpos - 1)
          BY <4>2, <2>1, Constants
        <5> QED BY <5>1 DEF ShutdownInv, PolledAreEmpty
      <4> QED BY <4>1, <4>2
    <3> QED BY <1>11, <2>2, <3>1, <3>2 DEF Poll, ShutdownInv, CancelAfterStart,
          ExitAfterCancel, ExitAfterProducers, DrainedAreEmpty, BatchIsCounted,
          Exiting
  <2> QED BY <2>3, <2>4
<1>12. CASE NextRound
  BY <1>12 DEF NextRound, batchVars, envVars, chanVars, ShutdownInv,
     CancelAfterStart, ExitAfterCancel, ExitAfterProducers, PolledAreEmpty,
     DrainedAreEmpty, BatchIsCounted, Exiting
<1>13. CASE DrainEnds
  <2>1. /\ UNCHANGED <<ret, pending, nInBatch, cancelled, prod, chan, accepted, settled>>
        /\ pc = "drain" /\ ~got /\ dpos = Len(DrainOrder) + 1
        /\ pc' \in {"flush", "closed", "clean"}
        /\ pc' = "closed" => ret = "exit" /\ nInBatch = 0
        /\ pc' = "clean" => ret # "exit"
    BY <1>13, <1>a, Constants DEF DrainEnds, Drained, batchVars, envVars, chanVars
  <2>2. ASSUME ret = "exit", NEW k \in DataKinds
        PROVE  Cleared(k)
    <3>1. PICK i \in DOMAIN DrainOrder : DrainOrder[i] = k
      BY KindsAssumption DEF Elements, Kinds
    <3>2. i \in 1..(dpos - 1)
      BY <2>1, <3>1, Constants
    <3> QED BY <2>1, <2>2, <3>1, <3>2 DEF ShutdownInv, PolledAreEmpty
  <2> QED BY <2>1, <2>2 DEF ShutdownInv, CancelAfterStart, ExitAfterCancel,
        ExitAfterProducers, PolledAreEmpty, DrainedAreEmpty, BatchIsCounted,
        Exiting
<1>14. CASE CommitBatch
  BY <1>14, <1>a DEF CommitBatch, ShutdownInv, CancelAfterStart,
     ExitAfterCancel, ExitAfterProducers, PolledAreEmpty, DrainedAreEmpty,
     BatchIsCounted, Exiting, batchVars, drainVars, envVars, chanVars,
     ResetBatch, Empty
<1>15. CASE ChmodFails
  BY <1>15, ReportSysKeepsData, <1>a DEF ChmodFails, ShutdownInv,
     CancelAfterStart, ExitAfterCancel, ExitAfterProducers, PolledAreEmpty,
     DrainedAreEmpty, BatchIsCounted, Exiting, batchVars, drainVars, envVars,
     chanVars
<1>16. CASE FlushReturns
  BY <1>16, <1>a DEF FlushReturns, ShutdownInv, CancelAfterStart,
     ExitAfterCancel, ExitAfterProducers, PolledAreEmpty, DrainedAreEmpty,
     BatchIsCounted, Exiting, batchVars, drainVars, envVars, chanVars,
     AfterFlush
<1>17. CASE FlushFails
  <2>1. CASE ret = "clean"
    BY <1>17, <2>1 DEF FlushFails, batchVars, drainVars, envVars, chanVars,
       ShutdownInv, CancelAfterStart, ExitAfterCancel, ExitAfterProducers,
       PolledAreEmpty, DrainedAreEmpty, BatchIsCounted, Exiting
  <2>2. CASE ret # "clean"
    <3>1. ProcessDies
      BY <1>17, <2>2 DEF FlushFails
    <3> QED BY <3>1, DeathKeepsShutdownInv, <1>a DEF ProcessDies
  <2> QED BY <2>1, <2>2
<1>18. CASE CommitSystem
  BY <1>18 DEF CommitSystem, ShutdownInv, CancelAfterStart, ExitAfterCancel,
     ExitAfterProducers, PolledAreEmpty, DrainedAreEmpty, BatchIsCounted,
     Exiting, batchVars, drainVars, envVars, chanVars, BottomOfLoop
<1>19. CASE SystemFails
  <2>1. ProcessDies
    BY <1>19 DEF SystemFails
  <2> QED BY <2>1, DeathKeepsShutdownInv, <1>a DEF ProcessDies
<1>20. CASE CleanStep
  <2> DEFINE t == IF cpos = CredPos THEN Cred ELSE CleanOrder[cpos]
  <2>1. /\ pc = "clean" /\ UNCHANGED <<pending, nInBatch, cancelled, prod>>
        /\ CleanTable(t)
    BY <1>20 DEF CleanStep, batchVars, envVars
  <2> HIDE DEF t
  <2>2. pc' = "clean" \/ (pc' = "drain" /\ ret' = "clean")
    BY <2>1 DEF CleanTable, StartDrain
  <2>3. settled' = settled /\ \A k \in DataKinds : accepted'[k] = accepted[k]
    BY <2>1, <1>a, ReportSysKeepsData DEF CleanTable, StartDrain, drainVars, chanVars
  <2>4. SettledWasAccepted'
    BY <2>3 DEF ShutdownInv
  <2> QED BY <2>1, <2>2, <2>4 DEF ShutdownInv, CancelAfterStart, ExitAfterCancel,
        ExitAfterProducers, PolledAreEmpty, DrainedAreEmpty, BatchIsCounted,
        Exiting
<1>21. CASE RetentionEnds
  BY <1>21 DEF RetentionEnds, ShutdownInv, CancelAfterStart, ExitAfterCancel,
     ExitAfterProducers, PolledAreEmpty, DrainedAreEmpty, BatchIsCounted,
     Exiting, batchVars, drainVars, envVars, chanVars, BottomOfLoop,
     RetentionReturns
<1>22. CASE RetentionFails
  BY <1>22, ReportSysKeepsData, <1>a DEF RetentionFails, ShutdownInv,
     CancelAfterStart, ExitAfterCancel, ExitAfterProducers, PolledAreEmpty,
     DrainedAreEmpty, BatchIsCounted, Exiting, batchVars, drainVars, envVars,
     chanVars, BottomOfLoop, RetentionReturns
<1>23. CASE RetentionFatal
  <2>1. ProcessDies
    BY <1>23 DEF RetentionFatal
  <2> QED BY <2>1, DeathKeepsShutdownInv, <1>a DEF ProcessDies
<1>24. CASE EndArchive
  BY <1>24, ReportSysKeepsData, <1>a DEF EndArchive, ShutdownInv,
     CancelAfterStart, ExitAfterCancel, ExitAfterProducers, PolledAreEmpty,
     DrainedAreEmpty, BatchIsCounted, Exiting, batchVars, drainVars, envVars,
     chanVars, BottomOfLoop
<1>25. CASE TakeSystem
  BY <1>25, <1>a, Constants DEF TakeSystem, ShutdownInv, CancelAfterStart,
     ExitAfterCancel, ExitAfterProducers, PolledAreEmpty, DrainedAreEmpty,
     BatchIsCounted, Exiting, batchVars, drainVars, envVars, chanVars
<1>26. CASE BatchTicker
  BY <1>26 DEF BatchTicker, ShutdownInv, CancelAfterStart, ExitAfterCancel,
     ExitAfterProducers, PolledAreEmpty, DrainedAreEmpty, BatchIsCounted,
     Exiting, batchVars, drainVars, envVars, chanVars
<1>27. CASE ContextDone
  BY <1>27 DEF ContextDone, ShutdownInv, CancelAfterStart, ExitAfterCancel,
     ExitAfterProducers, PolledAreEmpty, DrainedAreEmpty, BatchIsCounted,
     Exiting, batchVars, drainVars, envVars, chanVars
<1>28. CASE RetentionTimer
  BY <1>28 DEF RetentionTimer, ShutdownInv, CancelAfterStart, ExitAfterCancel,
     ExitAfterProducers, PolledAreEmpty, DrainedAreEmpty, BatchIsCounted,
     Exiting, batchVars, drainVars, envVars, chanVars
<1>29. CASE StartArchive
  BY <1>29, ReportSysKeepsData, <1>a DEF StartArchive, ShutdownInv,
     CancelAfterStart, ExitAfterCancel, ExitAfterProducers, PolledAreEmpty,
     DrainedAreEmpty, BatchIsCounted, Exiting, batchVars, drainVars, envVars,
     chanVars
<1>30. CASE Boot
  BY <1>30, DeathKeepsShutdownInv, <1>a DEF Boot
<1>31. CASE Report
  BY <1>31, ReportSysKeepsData, <1>a DEF Report, ShutdownInv,
     CancelAfterStart, ExitAfterCancel, ExitAfterProducers, PolledAreEmpty,
     DrainedAreEmpty, BatchIsCounted, Exiting, runVars, batchVars, drainVars,
     envVars
<1>32. CASE RequestArchive
  BY <1>32, ReportSysKeepsData, <1>a DEF RequestArchive, ShutdownInv,
     CancelAfterStart, ExitAfterCancel, ExitAfterProducers, PolledAreEmpty,
     DrainedAreEmpty, BatchIsCounted, Exiting, runVars, batchVars, drainVars,
     envVars, chanVars
<1>33. CASE ServicesStop
  BY <1>33 DEF ServicesStop, ShutdownInv, CancelAfterStart, ExitAfterCancel,
     ExitAfterProducers, PolledAreEmpty, DrainedAreEmpty, BatchIsCounted,
     Exiting, runVars, batchVars, drainVars, chanVars
<1>34. CASE Cancel
  BY <1>34 DEF Cancel, ShutdownInv, CancelAfterStart, ExitAfterCancel,
     ExitAfterProducers, PolledAreEmpty, DrainedAreEmpty, BatchIsCounted,
     Exiting, runVars, batchVars, drainVars, chanVars
<1>35. CASE ProcessExits
  <2>1. ProcessDies
    BY <1>35 DEF ProcessExits
  <2> QED BY <2>1, DeathKeepsShutdownInv, <1>a DEF ProcessDies
<1>36. CASE ForceExit
  <2>1. ProcessDies
    BY <1>36 DEF ForceExit
  <2> QED BY <2>1, DeathKeepsShutdownInv, <1>a DEF ProcessDies
<1>37. CASE Crash
  <2>1. ProcessDies
    BY <1>37 DEF Crash
  <2> QED BY <2>1, DeathKeepsShutdownInv, <1>a DEF ProcessDies
<1>38. CASE Tick
  BY <1>38 DEF Tick, ShutdownInv, CancelAfterStart, ExitAfterCancel,
     ExitAfterProducers, PolledAreEmpty, DrainedAreEmpty, BatchIsCounted,
     Exiting, runVars, batchVars, drainVars, envVars, chanVars
<1>39. CASE Stopped
  BY <1>39 DEF Stopped, ShutdownInv, CancelAfterStart, ExitAfterCancel,
     ExitAfterProducers, PolledAreEmpty, DrainedAreEmpty, BatchIsCounted,
     Exiting, vars, runVars, batchVars, drainVars, envVars, chanVars
<1>40. CASE UNCHANGED vars
  BY <1>40 DEF vars, runVars, batchVars, drainVars, envVars, chanVars,
     ShutdownInv, CancelAfterStart, ExitAfterCancel, ExitAfterProducers,
     PolledAreEmpty, DrainedAreEmpty, BatchIsCounted, Exiting
<1>41. ASSUME NEW k \in DataKinds, HookEnds(k) PROVE ShutdownInv'
  BY <1>41, <1>a DEF HookEnds, ShutdownInv, CancelAfterStart, ExitAfterCancel,
     ExitAfterProducers, PolledAreEmpty, DrainedAreEmpty, BatchIsCounted,
     Exiting, runVars, batchVars, drainVars, chanVars
<1> QED BY <1>1, <1>2, <1>3, <1>4, <1>5, <1>6, <1>7, <1>8, <1>9, <1>10, <1>11,
   <1>12, <1>13, <1>14, <1>15, <1>16, <1>17, <1>18, <1>19, <1>20, <1>21,
   <1>22, <1>23, <1>24, <1>25, <1>26, <1>27, <1>28, <1>29, <1>30, <1>31,
   <1>32, <1>33, <1>34, <1>35, <1>36, <1>37, <1>38, <1>39, <1>40, <1>41 DEF Next,
   Writer, Select, Producer, Process

LEMMA AlwaysShutdownInv ==
    ASSUME EarlyCancel = FALSE
    PROVE  Spec => [](TypeOK /\ ShutdownInv)
<1>1. Init => TypeOK /\ ShutdownInv
  BY TypeInit, ShutdownInit
<1>2. TypeOK /\ ShutdownInv /\ [Next]_vars => (TypeOK /\ ShutdownInv)'
  BY TypeStep, ShutdownStep
<1> QED BY <1>1, <1>2, PTL DEF Spec

(* The shutdown keeps its order, which Run and main share out among         *)
(* themselves: the context ends after the producers have started, Run goes  *)
(* on after they have returned, and from then on a channel that a round of  *)
(* the drain has polled, and that gave it nothing, has only what the hooks  *)
(* outside the WaitGroup send late; the batch is counted.                   *)
THEOREM ShutdownIsOrderly ==
    ASSUME EarlyCancel = FALSE
    PROVE  Spec => []ShutdownInv
<1>1. TypeOK /\ ShutdownInv => ShutdownInv
  OBVIOUS
<1> QED BY <1>1, AlwaysShutdownInv, PTL

LEMMA ShutdownIsComplete == ShutdownInv => DrainIsComplete
<1>1. DataKinds \subseteq Kinds
  BY Constants
<1> QED BY <1>1 DEF ShutdownInv, DrainedAreEmpty, BatchIsCounted, DrainIsComplete

(* While the context cannot end before main has started every producer, a   *)
(* closed database has everything that the channels had accepted when       *)
(* producers.Wait() returned: Run drains the channels and commits the last  *)
(* batch before it returns (Store.Run, Channels.Drain).                     *)
THEOREM ShutdownLosesNothing ==
    ASSUME EarlyCancel = FALSE
    PROVE  Spec => []DrainIsComplete
<1>1. TypeOK /\ ShutdownInv => DrainIsComplete
  BY ShutdownIsComplete
<1> QED BY <1>1, AlwaysShutdownInv, PTL

(* If moreover nobody sends from outside the WaitGroup (conntrack.mode is   *)
(* fallback), nothing at all is lost, as store.go:3-4 says.  Without either *)
(* of the two assumptions that is false.                                    *)
THEOREM NothingLostWithoutHooks ==
    ASSUME EarlyCancel = FALSE, Loose = {}
    PROVE  Spec => []ClosedIsDurable
<1>1. TypeOK /\ ShutdownInv => ClosedIsDurable
  BY ShutdownIsComplete DEF DrainIsComplete, Cleared, ClosedIsDurable
<1> QED BY <1>1, AlwaysShutdownInv, PTL

=============================================================================
