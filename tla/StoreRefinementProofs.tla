----------------------- MODULE StoreRefinementProofs -----------------------
(***************************************************************************)
(* The write path implements EventLog, for any kinds, capacities, batch    *)
(* sizes and bounds: every step of Store is a step of the log or leaves it *)
(* as it is.                                                               *)
(***************************************************************************)
EXTENDS StoreOrderProofs

-----------------------------------------------------------------------------
(* The log behind a state of the write path                                *)

Flight == [k \in Kinds |-> Elements(InFlight(k))]
Stored == [k \in Kinds |-> {[id |-> r.id, ts |-> r.ts] : r \in table[k]}]
Phase == IF pc = "off" THEN "down" ELSE IF pc = "closed" THEN "closed" ELSE "up"

(* Moving an event between the parts of the flight keeps it in flight.      *)
LEMMA ElementsOfParts ==
    ASSUME NEW p \in Seq(Event), NEW u \in Seq(Event), NEW c \in Seq(Event)
    PROVE  /\ Elements(p \o u \o c) = Elements(p) \cup Elements(u) \cup Elements(c)
           /\ \A e \in Event : /\ Elements(Append(c, e)) = Elements(c) \cup {e}
                               /\ Elements(<<e>>) = {e}
           /\ c # <<>> => Elements(c) = {Head(c)} \cup Elements(Tail(c))
           /\ Elements(<<>>) = {}
<1>1. Elements(p \o u \o c) = Elements(p) \cup Elements(u) \cup Elements(c)
  <2>1. /\ p \o u \in Seq(Event) /\ Len(p \o u) = Len(p) + Len(u)
        /\ Len(p) \in Nat /\ Len(u) \in Nat /\ Len(c) \in Nat
        /\ DOMAIN (p \o u \o c) = 1..(Len(p) + Len(u) + Len(c))
        /\ DOMAIN p = 1..Len(p) /\ DOMAIN u = 1..Len(u) /\ DOMAIN c = 1..Len(c)
    OBVIOUS
  <2> DEFINE f == p \o u \o c
  <2>2. ASSUME NEW i \in DOMAIN f
        PROVE  f[i] \in Elements(p) \cup Elements(u) \cup Elements(c)
    <3>1. CASE i <= Len(p)
      <4>1. i \in DOMAIN p /\ f[i] = p[i]
        BY <2>1, <3>1
      <4> QED BY <4>1 DEF Elements
    <3>2. CASE Len(p) < i /\ i <= Len(p) + Len(u)
      <4>1. i - Len(p) \in DOMAIN u /\ f[i] = u[i - Len(p)]
        BY <2>1, <3>2
      <4> QED BY <4>1 DEF Elements
    <3>3. CASE Len(p) + Len(u) < i
      <4>1. i - Len(p) - Len(u) \in DOMAIN c /\ f[i] = c[i - Len(p) - Len(u)]
        BY <2>1, <3>3
      <4> QED BY <4>1 DEF Elements
    <3> QED BY <2>1, <3>1, <3>2, <3>3
  <2>3. ASSUME NEW i \in DOMAIN p PROVE i \in DOMAIN f /\ f[i] = p[i]
    BY <2>1
  <2>4. ASSUME NEW i \in DOMAIN u PROVE Len(p) + i \in DOMAIN f /\ f[Len(p) + i] = u[i]
    BY <2>1
  <2>5. ASSUME NEW i \in DOMAIN c
        PROVE  Len(p) + Len(u) + i \in DOMAIN f /\ f[Len(p) + Len(u) + i] = c[i]
    BY <2>1
  <2> HIDE DEF f
  <2>6. Elements(f) = Elements(p) \cup Elements(u) \cup Elements(c)
    BY <2>2, <2>3, <2>4, <2>5 DEF Elements
  <2> QED BY <2>6 DEF f
<1>2. ASSUME NEW e \in Event
      PROVE  Elements(Append(c, e)) = Elements(c) \cup {e} /\ Elements(<<e>>) = {e}
  <2>1. /\ Len(c) \in Nat /\ DOMAIN c = 1..Len(c)
        /\ DOMAIN Append(c, e) = 1..(Len(c) + 1) /\ Append(c, e)[Len(c) + 1] = e
        /\ \A i \in DOMAIN c : Append(c, e)[i] = c[i]
    OBVIOUS
  <2>2. \A i \in DOMAIN Append(c, e) : i \in DOMAIN c \/ i = Len(c) + 1
    BY <2>1
  <2>3. Len(c) + 1 \in DOMAIN Append(c, e) /\ DOMAIN c \subseteq DOMAIN Append(c, e)
    BY <2>1
  <2>4. Elements(Append(c, e)) = Elements(c) \cup {e}
    BY <2>1, <2>2, <2>3 DEF Elements
  <2>5. Elements(<<e>>) = {e}
    BY DEF Elements
  <2> QED BY <2>4, <2>5
<1>3. ASSUME c # <<>> PROVE Elements(c) = {Head(c)} \cup Elements(Tail(c))
  <2>1. /\ Len(c) \in Nat \ {0} /\ DOMAIN c = 1..Len(c) /\ Head(c) = c[1]
        /\ DOMAIN Tail(c) = 1..(Len(c) - 1)
        /\ \A i \in DOMAIN Tail(c) : Tail(c)[i] = c[i + 1]
    BY <1>3
  <2>2. \A i \in DOMAIN c : i = 1 \/ (i - 1 \in DOMAIN Tail(c) /\ Tail(c)[i - 1] = c[i])
    BY <2>1
  <2>3. 1 \in DOMAIN c /\ \A i \in DOMAIN Tail(c) : i + 1 \in DOMAIN c
    BY <2>1
  <2>4. ASSUME NEW x PROVE x \in Elements(c) <=> x = c[1] \/ x \in Elements(Tail(c))
    <3>1. ASSUME x \in Elements(c) PROVE x = c[1] \/ x \in Elements(Tail(c))
      <4>1. PICK i \in DOMAIN c : x = c[i]
        BY <3>1 DEF Elements
      <4> QED BY <2>2, <4>1 DEF Elements
    <3>2. ASSUME x = c[1] PROVE x \in Elements(c)
      BY <2>3, <3>2 DEF Elements
    <3>3. ASSUME x \in Elements(Tail(c)) PROVE x \in Elements(c)
      <4>1. PICK i \in DOMAIN Tail(c) : x = Tail(c)[i]
        BY <3>3 DEF Elements
      <4>2. i + 1 \in DOMAIN c /\ x = c[i + 1]
        BY <2>1, <2>3, <4>1
      <4> QED BY <4>2 DEF Elements
    <3> QED BY <3>1, <3>2, <3>3
  <2> QED BY <2>1, <2>4
<1>4. Elements(<<>>) = {}
  BY DEF Elements
<1> QED BY <1>1, <1>2, <1>3, <1>4

-----------------------------------------------------------------------------
(* What the steps need to know beyond the order: what a producer offers is  *)
(* not from the future, a machine that is off has nothing in flight, a      *)
(* system event is taken and written without anything in between, and the   *)
(* cutoff of a cleanup is at least a retention period old.                  *)

Stamped == \A k \in DataKinds : \A i \in DOMAIN offer[k] : offer[k][i] <= now

OffIsEmpty == pc = "off" => \A k \in Kinds : chan[k] = <<>> /\ pending[k] = <<>>

UrgentIsWritten == pc # "system" => urgent = <<>>

Cleaning == \/ pc = "clean"
            \/ pc = "drain" /\ ret # "exit"
            \/ pc \in {"flush", "chmod"} /\ ret = "clean"

CutoffIsPast ==
    Cleaning =>
        /\ cpos < CredPos => RetentionDays > 0 /\ cutoff + RetentionDays <= now
        /\ cpos = CredPos => CredRetentionDays > 0 /\ cutoff + CredRetentionDays <= now

TimeInv == Stamped /\ OffIsEmpty /\ UrgentIsWritten /\ CutoffIsPast

(* A machine that is off and new offers nothing and cleans nothing.         *)
LEMMA TimeInit == Init => TimeInv
BY DEF Init, TimeInv, Stamped, OffIsEmpty, UrgentIsWritten, CutoffIsPast, Cleaning, Empty

(* Every step keeps what the refinement needs of time and of the flight.    *)
LEMMA TimeStep ==
    ASSUME TypeOK, TimeInv, [Next]_vars
    PROVE  TimeInv'
<1>1. /\ now \in Nat /\ offer \in [DataKinds -> Seq(Nat)] /\ cutoff \in Int
      /\ RetentionDays \in Nat /\ CredRetentionDays \in Nat
      /\ CredPos \in Nat /\ DonePos = CredPos + 1 /\ CredPos = Len(CleanOrder) + 1
      /\ cpos \in 1..DonePos /\ Len(CleanOrder) \in Nat \ {0}
  BY Constants, KindsAssumption DEF TypeOK, BoundType, EnvType, CleanType, DonePos
<1>2. ASSUME NEW at \in {"off", "boot"}, Volatile(at) PROVE TimeInv'
  BY <1>2 DEF Volatile, TimeInv, Stamped, OffIsEmpty, UrgentIsWritten, CutoffIsPast,
     Cleaning, Empty
<1>3. ASSUME UNCHANGED <<pc, ret, urgent, cpos, cutoff, now>>, pc # "off", Stamped'
      PROVE  TimeInv'
  BY <1>3 DEF TimeInv, OffIsEmpty, UrgentIsWritten, CutoffIsPast, Cleaning
<1>4. ASSUME UNCHANGED <<offer, now>>, pc' # "off", UrgentIsWritten', CutoffIsPast'
      PROVE  TimeInv'
  BY <1>4 DEF TimeInv, Stamped, OffIsEmpty
<1>5. ASSUME NEW k \in DataKinds,
             \/ StartProducer(k) \/ Produce(k) \/ Send(k) \/ AbandonSend(k)
             \/ Emit(k) \/ ProducerStops(k) \/ HookEnds(k) \/ ProducerGivesUp(k)
      PROVE  TimeInv'
  <2>1. UNCHANGED <<pc, ret, urgent, cpos, cutoff, now>> /\ pc # "off"
    BY <1>5 DEF StartProducer, Produce, Send, AbandonSend, Emit, ProducerStops,
       HookEnds, ProducerGivesUp, Sending, Running, Up, runVars, cleanVars, boundVars
  <2>2. \/ UNCHANGED offer
        \/ offer' = [offer EXCEPT ![k] = <<>>]
        \/ \E ts \in Stamps(k) : offer' = [offer EXCEPT ![k] = <<ts>>]
    BY <1>5 DEF StartProducer, Produce, Send, AbandonSend, Emit, ProducerStops,
       HookEnds, ProducerGivesUp, envVars
  <2>3. \A ts \in Stamps(k) : ts \in Nat /\ ts <= now
    BY <1>1 DEF Stamps
  <2>4. ASSUME NEW j \in DataKinds, NEW i \in DOMAIN offer'[j] PROVE offer'[j][i] <= now
    <3>1. CASE offer'[j] = offer[j]
      BY <3>1 DEF TimeInv, Stamped
    <3>2. CASE offer'[j] # offer[j]
      <4>1. offer'[j] = <<>> \/ \E ts \in Stamps(k) : offer'[j] = <<ts>>
        BY <1>1, <2>2, <3>2
      <4> QED BY <2>3, <2>4, <4>1
    <3> QED BY <3>1, <3>2
  <2> QED BY <1>3, <2>1, <2>4 DEF Stamped
<1>6. CASE Report \/ RequestArchive \/ ServicesStop \/ Cancel
  BY <1>3, <1>6 DEF Report, RequestArchive, ServicesStop, Cancel, Up, runVars, cleanVars,
     envVars, boundVars, TimeInv, Stamped
<1>7. CASE Tick
  <2>1. now' \in Nat /\ now < now'
    BY <1>1, <1>7 DEF Tick
  <2>2. UNCHANGED <<pc, ret, cpos, cutoff, offer, chan, pending, urgent>>
    BY <1>7 DEF Tick, runVars, batchVars, cleanVars, envVars, chanVars
  <2>3. Stamped'
    <3>1. ASSUME NEW j \in DataKinds, NEW i \in DOMAIN offer[j] PROVE offer[j][i] <= now'
      <4>1. offer[j][i] \in Nat /\ offer[j][i] <= now
        BY <1>1 DEF TimeInv, Stamped
      <4> QED BY <1>1, <2>1, <4>1
    <3> QED BY <2>2, <3>1 DEF Stamped
  <2>4. CutoffIsPast'
    BY <1>1, <2>1, <2>2 DEF TimeInv, CutoffIsPast, Cleaning
  <2> QED BY <2>2, <2>3, <2>4 DEF TimeInv, OffIsEmpty, UrgentIsWritten
<1>8. CASE Stopped \/ UNCHANGED vars
  BY <1>8 DEF Stopped, vars, runVars, batchVars, cleanVars, envVars, chanVars, boundVars,
     TimeInv, Stamped, OffIsEmpty, UrgentIsWritten, CutoffIsPast, Cleaning
<1>9. CASE FlushFails \/ SystemFails \/ RetentionFatal \/ Boot \/ ProcessExits
           \/ ForceExit \/ Crash
  <2>1. \/ Volatile("off") \/ Volatile("boot")
        \/ /\ pc = "flush" /\ ret = "clean" /\ pc' = "clean"
           /\ UNCHANGED <<offer, now, urgent, cpos, cutoff>>
    BY <1>9 DEF FlushFails, SystemFails, RetentionFatal, Boot, ProcessExits, ForceExit,
       Crash, ProcessDies, envVars
  <2> QED BY <1>2, <1>4, <2>1 DEF TimeInv, UrgentIsWritten, CutoffIsPast, Cleaning
<1>10. CASE TakeSystem \/ BatchTicker \/ ContextDone \/ StartArchive \/ RunBegins
            \/ CommitSystem \/ RetentionEnds \/ RetentionFails \/ EndArchive
            \/ ProducersWait \/ \E k \in DataKinds : TakeEvent(k)
  <2>1. UNCHANGED <<offer, now>>
    BY <1>10 DEF TakeSystem, BatchTicker, ContextDone, StartArchive, RunBegins,
       CommitSystem, RetentionEnds, RetentionFails, RetentionReturns, EndArchive,
       ProducersWait, TakeEvent, envVars, boundVars
  <2>2. pc' # "off" /\ ~Cleaning'
    BY <1>10 DEF TakeSystem, BatchTicker, ContextDone, StartArchive, RunBegins,
       CommitSystem, RetentionEnds, RetentionFails, RetentionReturns, EndArchive,
       ProducersWait, TakeEvent, BottomOfLoop, StartDrain, Cleaning
  <2>3. UrgentIsWritten'
    <3>1. \/ pc' = "system" \/ urgent' = <<>>
          \/ pc # "system" /\ UNCHANGED urgent
      BY <1>10 DEF TakeSystem, BatchTicker, ContextDone, StartArchive, RunBegins,
         CommitSystem, RetentionEnds, RetentionFails, RetentionReturns, EndArchive,
         ProducersWait, TakeEvent
    <3> QED BY <3>1 DEF TimeInv, UrgentIsWritten
  <2> QED BY <1>4, <2>1, <2>2, <2>3 DEF CutoffIsPast
<1>11. CASE Poll \/ NextRound \/ DrainEnds \/ CommitBatch \/ ChmodFails \/ FlushReturns
  <2>1. UNCHANGED <<offer, now, urgent, ret, cpos, cutoff>> /\ pc # "system"
    BY <1>11 DEF Poll, NextRound, DrainEnds, CommitBatch, ChmodFails, FlushReturns,
       cleanVars, envVars, boundVars
  <2>2. pc' # "off" /\ (Cleaning' => Cleaning)
    BY <1>11, <2>1 DEF Poll, NextRound, DrainEnds, CommitBatch, ChmodFails, FlushReturns,
       AfterFlush, Cleaning
  <2> QED BY <1>4, <2>1, <2>2 DEF TimeInv, UrgentIsWritten, CutoffIsPast
<1>12. CASE RetentionTimer
  <2>1. UNCHANGED <<offer, now, urgent>> /\ pc = "select" /\ pc' = "clean"
    BY <1>12 DEF RetentionTimer, envVars
  <2>2. CutoffIsPast'
    <3>1. CASE RetentionDays > 0
      BY <1>1, <1>12, <2>1, <3>1 DEF RetentionTimer, CutoffIsPast
    <3>2. CASE ~(RetentionDays > 0)
      BY <1>1, <1>12, <2>1, <3>2 DEF RetentionTimer, StartCred, CutoffIsPast
    <3> QED BY <3>1, <3>2
  <2> QED BY <1>4, <2>1, <2>2 DEF TimeInv, UrgentIsWritten
<1>13. CASE CleanStep
  <2> DEFINE t == IF cpos = CredPos THEN Cred ELSE CleanOrder[cpos]
  <2>1. UNCHANGED <<offer, now, urgent>> /\ pc = "clean" /\ cpos < DonePos /\ CleanTable(t)
    BY <1>13 DEF CleanStep, envVars, boundVars
  <2> HIDE DEF t
  <2>2. pc' \in {"clean", "drain"}
    BY <2>1 DEF CleanTable, StartDrain
  <2>3. \/ UNCHANGED <<cpos, cutoff>>
        \/ cpos < Len(CleanOrder) /\ cpos' = cpos + 1 /\ UNCHANGED cutoff
        \/ StartCred
        \/ cpos' = DonePos
    BY <2>1 DEF CleanTable
  <2>4. CutoffIsPast'
    BY <1>1, <2>1, <2>3 DEF StartCred, TimeInv, CutoffIsPast, Cleaning
  <2> QED BY <1>4, <2>1, <2>2, <2>4 DEF TimeInv, UrgentIsWritten
<1> QED BY <1>5, <1>6, <1>7, <1>8, <1>9, <1>10, <1>11, <1>12, <1>13
   DEF Next, Writer, Select, Producer, Process

-----------------------------------------------------------------------------
(* The refinement                                                          *)

RefineInv == TypeOK /\ OrderInv /\ CountInv /\ ShutdownInv /\ TimeInv

(* A new machine is a log that is down, with nothing in it.                 *)
LEMMA RefineInit == Init => Log!Init
<1> SUFFICES ASSUME Init PROVE Log!Init
  OBVIOUS
<1>1. ASSUME NEW k \in Kinds PROVE Elements(InFlight(k)) = {}
  <2>1. InFlight(k) = <<>> \o <<>> \o <<>>
    BY DEF Init, InFlight, Empty
  <2>2. <<>> \o <<>> \o <<>> = <<>>
    OBVIOUS
  <2> QED BY <2>1, <2>2 DEF Elements
<1>2. ASSUME NEW k \in Kinds
      PROVE  {[id |-> r.id, ts |-> r.ts] : r \in table[k]} = {}
  BY DEF Init
<1> QED BY <1>1, <1>2 DEF Init, Log!Init, Log!Nothing

(* A step of the write path is a step of the log, or the log stays as it is: *)
(* what moves between channel and batch stutters, a commit is a Commit, a   *)
(* DELETE is an Expire, and Run returns with a Close.                       *)
LEMMA RefineStep ==
    ASSUME RefineInv, RefineInv', [Next]_vars
    PROVE  [Log!Next]_(Log!vars)
<1>1. /\ chan \in [Kinds -> Seq(Event)] /\ accepted \in [Kinds -> Nat] /\ now \in Nat
      /\ pending \in [Kinds -> Seq(Event)] /\ urgent \in Seq(Event)
      /\ table \in [Kinds -> SUBSET Row]
      /\ \A k \in Kinds : UrgentOf(k) \in Seq(Event)
      /\ chan' \in [Kinds -> Seq(Event)] /\ pending' \in [Kinds -> Seq(Event)]
      /\ \A k \in Kinds : UrgentOf(k)' \in Seq(Event)
  BY DEF RefineInv, TypeOK, ChanType, BatchType, TableType, BoundType, UrgentOf
<1>e. /\ \A c \in Seq(Event), e \in Event : /\ Elements(Append(c, e)) = Elements(c) \cup {e}
                                            /\ Elements(<<e>>) = {e}
      /\ \A c \in Seq(Event) : c # <<>> => Elements(c) = {Head(c)} \cup Elements(Tail(c))
      /\ Elements(<<>>) = {}
  <2>1. <<>> \in Seq(Event)
    OBVIOUS
  <2> QED BY <2>1, ElementsOfParts
<1>2. ASSUME NEW k \in Kinds
      PROVE  /\ Flight[k] = Elements(pending[k]) \cup Elements(UrgentOf(k))
                                                  \cup Elements(chan[k])
             /\ Flight'[k] = Elements(pending'[k]) \cup Elements(UrgentOf(k)')
                                                    \cup Elements(chan'[k])
  <2>1. /\ Flight[k] = Elements(pending[k] \o UrgentOf(k) \o chan[k])
        /\ Flight'[k] = Elements(pending'[k] \o UrgentOf(k)' \o chan'[k])
    BY DEF Flight, InFlight, UrgentOf
  <2> QED BY <1>1, <2>1, ElementsOfParts
<1>3. DOMAIN Flight = Kinds /\ DOMAIN Flight' = Kinds /\ Flight = [k \in Kinds |-> Flight[k]]
      /\ Flight' = [k \in Kinds |-> Flight'[k]]
  BY DEF Flight
<1>4. ASSUME \A k \in Kinds : Flight'[k] = Flight[k], UNCHANGED <<table, accepted, now>>,
             Phase' = Phase
      PROVE  UNCHANGED Log!vars
  <2>1. Flight' = Flight
    BY <1>3, <1>4
  <2> QED BY <1>4, <2>1 DEF Log!vars, Flight, Phase
<1>5. ASSUME UNCHANGED <<chan, pending, urgent, table, accepted, now>>, Phase' = Phase
      PROVE  UNCHANGED Log!vars
  BY <1>2, <1>4, <1>5 DEF UrgentOf
<1>6. ASSUME NEW k \in Kinds, NEW t \in 0..now, Accept(k, t),
             UNCHANGED <<pending, urgent, table, now>>, Phase' = Phase,
             Phase = "up" \/ (Phase = "closed" /\ k \notin DataKinds \ Loose)
      PROVE  Log!Next
  <2> DEFINE e == [id |-> accepted[k] + 1, ts |-> t]
  <2>1. e \in Event /\ chan' = [chan EXCEPT ![k] = Append(chan[k], e)]
        /\ accepted' = [accepted EXCEPT ![k] = accepted[k] + 1]
    BY <1>1, <1>6 DEF Accept, Event
  <2> HIDE DEF e
  <2>2. Flight'[k] = Flight[k] \cup {e}
    <3>1. Elements(chan'[k]) = Elements(chan[k]) \cup {e}
      BY <1>1, <1>e, <2>1
    <3>2. pending'[k] = pending[k] /\ UrgentOf(k)' = UrgentOf(k)
      BY <1>6 DEF UrgentOf
    <3> QED BY <1>2, <3>1, <3>2
  <2>3. \A j \in Kinds : j # k => Flight'[j] = Flight[j]
    BY <1>1, <1>2, <1>6, <2>1 DEF UrgentOf
  <2>4. Flight' = [Flight EXCEPT ![k] = Flight[k] \cup {e}]
    BY <1>3, <2>2, <2>3
  <2>5. Log!Accept(k)
    BY <1>6, <2>1, <2>4 DEF Log!Accept, Flight, Phase, e
  <2> QED BY <2>5 DEF Log!Next
<1>7. ASSUME ReportSys, UNCHANGED <<pending, urgent, table, now>>, Phase' = Phase, pc # "off"
      PROVE  [Log!Next]_(Log!vars)
  <2>1. CASE Len(chan[System]) < Cap
    <3>1. Accept(System, now) /\ System \in Kinds /\ System \notin DataKinds
      BY <1>7, <2>1, Constants DEF ReportSys, Accept
    <3>2. now \in 0..now /\ Phase \in {"up", "closed"}
      BY <1>1, <1>7 DEF Phase
    <3> QED BY <1>6, <1>7, <3>1, <3>2
  <2>2. CASE ~(Len(chan[System]) < Cap)
    BY <1>5, <1>7, <2>2 DEF ReportSys, chanVars
  <2> QED BY <2>1, <2>2
<1>8. ASSUME NEW k \in Kinds, chan[k] # <<>>, enqueue(k),
             UNCHANGED <<accepted, urgent, table, now>>, Phase' = Phase
      PROVE  UNCHANGED Log!vars
  <2>1. chan'[k] = Tail(chan[k]) /\ pending'[k] = Append(pending[k], Head(chan[k]))
        /\ Head(chan[k]) \in Event
        /\ \A j \in Kinds : j # k => chan'[j] = chan[j] /\ pending'[j] = pending[j]
    BY <1>1, <1>8 DEF enqueue
  <2>2. Elements(pending'[k]) = Elements(pending[k]) \cup {Head(chan[k])}
    BY <1>1, <1>e, <2>1
  <2>3. Elements(chan[k]) = {Head(chan[k])} \cup Elements(chan'[k])
    BY <1>1, <1>e, <1>8, <2>1
  <2>4. ASSUME NEW j \in Kinds PROVE Flight'[j] = Flight[j]
    <3>1. UrgentOf(j)' = UrgentOf(j)
      BY <1>8 DEF UrgentOf
    <3>2. CASE j = k
      BY <1>2, <2>2, <2>3, <3>1, <3>2
    <3>3. CASE j # k
      BY <1>2, <2>1, <3>1, <3>3
    <3> QED BY <3>2, <3>3
  <2> QED BY <1>4, <1>8, <2>4
<1>9. ASSUME \A k \in Kinds : chan'[k] = <<>> /\ pending'[k] = <<>>, urgent' = <<>>
      PROVE  Flight' = [k \in Kinds |-> {}]
  <2>1. ASSUME NEW k \in Kinds PROVE Flight'[k] = {}
    <3>1. UrgentOf(k)' = <<>>
      BY <1>9 DEF UrgentOf
    <3> QED BY <1>e, <1>2, <1>9, <3>1
  <2> QED BY <1>3, <2>1
<1>10. ASSUME ProcessDies, UNCHANGED now, pc # "off" PROVE Log!Next
  <2>1. Flight' = [k \in Kinds |-> {}] /\ Phase' = "down" /\ Phase # "down"
    BY <1>9, <1>10 DEF ProcessDies, Volatile, Empty, Phase
  <2>2. UNCHANGED <<table, accepted, now>>
    BY <1>10 DEF ProcessDies
  <2>3. Log!Stop
    BY <2>1, <2>2 DEF Log!Stop, Log!Nothing, Flight, Phase
  <2> QED BY <2>3 DEF Log!Next
<1>11. ASSUME Volatile("boot"), pc = "off", UNCHANGED <<accepted, table, now>>
       PROVE  Log!Next
  <2>1. Flight' = [k \in Kinds |-> {}] /\ Phase' = "up" /\ Phase = "down"
    BY <1>9, <1>11 DEF Volatile, Empty, Phase
  <2>2. Flight = [k \in Kinds |-> {}]
    <3>1. ASSUME NEW k \in Kinds PROVE Flight[k] = {}
      <4>1. chan[k] = <<>> /\ pending[k] = <<>> /\ UrgentOf(k) = <<>>
        BY <1>11 DEF RefineInv, TimeInv, OffIsEmpty, UrgentIsWritten, UrgentOf
      <4> QED BY <1>e, <1>2, <4>1
    <3> QED BY <1>3, <3>1
  <2>3. Log!Start
    BY <1>11, <2>1, <2>2 DEF Log!Start, Flight, Phase
  <2> QED BY <2>3 DEF Log!Next
<1>12. ASSUME pc' = "closed", pc \notin {"off", "closed"},
              UNCHANGED <<chan, pending, urgent, table, accepted, now>>
       PROVE  Log!Next
  <2>1. Flight' = Flight
    BY <1>2, <1>3, <1>12 DEF UrgentOf
  <2>2. \A k \in DataKinds \ Loose : Flight[k] = {}
    <3>1. ASSUME NEW k \in DataKinds \ Loose PROVE Flight[k] = {}
      <4>1. chan'[k] = <<>> /\ pending'[k] = <<>> /\ k \in Kinds /\ UrgentOf(k) = <<>>
        BY <1>12, Constants DEF RefineInv, ShutdownInv, DrainedAreEmpty, Cleared,
           BatchIsCounted, UrgentOf
      <4> QED BY <1>e, <1>2, <1>12, <4>1
    <3> QED BY <3>1
  <2>3. Phase = "up" /\ Phase' = "closed"
    BY <1>12 DEF Phase
  <2>4. Log!Close
    BY <1>12, <2>1, <2>2, <2>3 DEF Log!Close, Flight, Phase
  <2> QED BY <2>4 DEF Log!Next
\* The producers
<1>13. ASSUME NEW k \in DataKinds, StartProducer(k) \/ Produce(k) \/ AbandonSend(k)
                                   \/ ProducerStops(k) \/ HookEnds(k)
       PROVE  UNCHANGED Log!vars
  BY <1>5, <1>13 DEF StartProducer, Produce, AbandonSend, ProducerStops, HookEnds, runVars,
     batchVars, chanVars, boundVars, Phase
<1>14. ASSUME NEW k \in DataKinds, Sending(k), NEW t \in 0..now, Accept(k, t),
              UNCHANGED <<pc, pending, urgent, table, now>>
       PROVE  Log!Next
  <2>1. Phase \in {"up", "closed"} /\ Phase' = Phase /\ k \in Kinds
    BY <1>14, Constants DEF Sending, Up, Phase
  <2>2. ASSUME Phase = "closed" PROVE k \in Loose
    <3>1. pc = "closed"
      BY <2>2 DEF Phase
    <3>2. Returned(k)
      BY <3>1 DEF RefineInv, ShutdownInv, ExitAfterProducers
    <3> QED BY <1>14, <3>2 DEF Returned, Sending, RefineInv, ShutdownInv, LeftAreLoose
  <2> QED BY <1>6, <1>14, <2>1, <2>2
<1>15. ASSUME NEW k \in DataKinds, Send(k) PROVE Log!Next
  <2>1. offer[k] \in Seq(Nat) /\ offer[k] # <<>> /\ Accept(k, offer[k][1]) /\ Sending(k)
    BY <1>15 DEF Send, RefineInv, TypeOK, EnvType
  <2>2. 1 \in DOMAIN offer[k] /\ offer[k][1] \in Nat
    BY <2>1
  <2>3. offer[k][1] \in 0..now
    BY <1>1, <2>2 DEF RefineInv, TimeInv, Stamped
  <2>4. UNCHANGED <<pc, pending, urgent, table, now>>
    BY <1>15 DEF Send, runVars, batchVars, boundVars
  <2> QED BY <1>14, <2>1, <2>3, <2>4
<1>16. ASSUME NEW k \in DataKinds, Emit(k) PROVE Log!Next
  <2>1. PICK ts \in Stamps(k) : Accept(k, ts)
    BY <1>16 DEF Emit
  <2>2. ts \in 0..now
    BY <1>1, <2>1 DEF Stamps
  <2>3. Sending(k) /\ UNCHANGED <<pc, pending, urgent, table, now>>
    BY <1>16 DEF Emit, Running, Sending, runVars, batchVars, boundVars
  <2> QED BY <1>14, <2>1, <2>2, <2>3
<1>17. ASSUME NEW k \in DataKinds, ProducerGivesUp(k) PROVE [Log!Next]_(Log!vars)
  BY <1>7, <1>17 DEF ProducerGivesUp, Running, Up, runVars, batchVars, boundVars, Phase
\* The writer and the other goroutines
<1>18. CASE RunBegins \/ ChmodFails \/ RetentionFails \/ EndArchive \/ StartArchive
            \/ Report \/ RequestArchive
  <2>1. UNCHANGED <<pending, urgent, table, now>> /\ (ReportSys \/ UNCHANGED chanVars)
        /\ pc # "off" /\ Phase' = Phase
    BY <1>18 DEF RunBegins, ChmodFails, RetentionFails, RetentionReturns, BottomOfLoop,
       EndArchive, StartArchive, Report, RequestArchive, Up, runVars, batchVars,
       boundVars, Phase
  <2> QED BY <1>5, <1>7, <2>1 DEF chanVars
<1>19. ASSUME NEW k \in DataKinds, TakeEvent(k) PROVE UNCHANGED Log!vars
  BY <1>8, <1>19, Constants DEF TakeEvent, BottomOfLoop, Phase, boundVars
<1>20. CASE Poll
  <2>1. DrainOrder[dpos] \in Kinds
    BY <1>20, Constants DEF Poll, RefineInv, TypeOK, DrainType
  <2> QED BY <1>5, <1>8, <1>20, <2>1 DEF Poll, batchVars, boundVars, Phase
<1>21. CASE TakeSystem
  <2>1. /\ UNCHANGED <<accepted, pending, table, now>> /\ chan[System] # <<>>
        /\ urgent' = <<Head(chan[System])>> /\ pc = "select" /\ pc' = "system"
        /\ chan' = [chan EXCEPT ![System] = Tail(chan[System])]
    BY <1>21 DEF TakeSystem, batchVars, boundVars
  <2>2. urgent = <<>> /\ System \in Kinds
    BY <2>1, Constants DEF RefineInv, TimeInv, UrgentIsWritten
  <2>3. ASSUME NEW j \in Kinds PROVE Flight'[j] = Flight[j]
    <3>1. CASE j = System
      <4>1. /\ UrgentOf(j) = <<>> /\ UrgentOf(j)' = <<Head(chan[j])>>
            /\ chan'[j] = Tail(chan[j]) /\ Head(chan[j]) \in Event
        BY <1>1, <2>1, <2>2, <3>1 DEF UrgentOf
      <4>2. Elements(UrgentOf(j)') = {Head(chan[j])} /\ Elements(UrgentOf(j)) = {}
        BY <1>1, <1>e, <4>1
      <4>3. Elements(chan[j]) = {Head(chan[j])} \cup Elements(chan'[j])
        BY <1>1, <1>e, <2>1, <3>1, <4>1
      <4>4. pending'[j] = pending[j]
        BY <2>1
      <4> QED BY <1>2, <4>2, <4>3, <4>4
    <3>2. CASE j # System
      BY <1>1, <1>2, <2>1, <3>2 DEF UrgentOf
    <3> QED BY <3>1, <3>2
  <2> QED BY <1>4, <2>1, <2>3 DEF Phase
<1>22. CASE FlushFails \/ SystemFails \/ RetentionFatal \/ ProcessExits \/ ForceExit
            \/ Crash \/ Boot
  <2>1. \/ ProcessDies /\ UNCHANGED now /\ pc # "off"
        \/ Volatile("boot") /\ pc = "off" /\ UNCHANGED <<accepted, table, now>>
        \/ /\ UNCHANGED <<chan, pending, urgent, table, accepted, now>>
           /\ pc = "flush" /\ pc' = "clean"
    BY <1>22 DEF FlushFails, SystemFails, RetentionFatal, ProcessExits, ForceExit, Crash,
       Boot, Up, batchVars, chanVars, boundVars
  <2> QED BY <1>5, <1>10, <1>11, <2>1 DEF Phase
<1>23. CASE ProducersWait \/ NextRound \/ DrainEnds \/ FlushReturns \/ RetentionEnds
            \/ BatchTicker \/ ContextDone \/ RetentionTimer
  <2>1. UNCHANGED <<chan, pending, urgent, table, accepted, now>>
    BY <1>23 DEF ProducersWait, NextRound, DrainEnds, FlushReturns, RetentionEnds,
       RetentionReturns, BatchTicker, ContextDone, RetentionTimer, batchVars, chanVars,
       boundVars
  <2>2. pc \notin {"off", "closed"} /\ pc' # "off"
    BY <1>23 DEF ProducersWait, NextRound, DrainEnds, FlushReturns, RetentionEnds,
       RetentionReturns, BatchTicker, ContextDone, RetentionTimer, StartDrain, AfterFlush,
       BottomOfLoop
  <2> QED BY <1>5, <1>12, <2>1, <2>2 DEF Phase
<1>24. CASE ServicesStop \/ Cancel \/ Stopped \/ UNCHANGED vars
  BY <1>5, <1>24 DEF ServicesStop, Cancel, Stopped, vars, runVars, batchVars, chanVars,
     boundVars, Phase
<1>25. CASE Tick
  <2>1. Flight' = Flight /\ Phase' = Phase /\ UNCHANGED <<table, accepted>>
    BY <1>2, <1>3, <1>25 DEF Tick, runVars, batchVars, chanVars, UrgentOf, Phase
  <2>2. now' > now
    BY <1>1, <1>25 DEF Tick
  <2>3. Log!Tick
    BY <2>1, <2>2 DEF Log!Tick, Flight, Phase
  <2> QED BY <2>3 DEF Log!Next
<1>26. ASSUME NEW k \in Kinds, NEW s \in Seq(Event)
       PROVE  {[id |-> r.id, ts |-> r.ts] : r \in Inserted(table[k], s)}
                = Stored[k] \cup Elements(s)
  <2> DEFINE row(i) == [rowid |-> LastRowid(table[k]) + i, id |-> s[i].id, ts |-> s[i].ts]
             ev(r) == [id |-> r.id, ts |-> r.ts]
  <2>1. ASSUME NEW i \in DOMAIN s PROVE ev(row(i)) = s[i]
    <3>1. s[i] \in Event
      OBVIOUS
    <3> QED BY <3>1 DEF Event
  <2>2. Inserted(table[k], s) = table[k] \cup {row(i) : i \in DOMAIN s}
    BY DEF Inserted
  <2> HIDE DEF row
  <2>3. {ev(r) : r \in Inserted(table[k], s)} = {ev(r) : r \in table[k]} \cup Elements(s)
    BY <2>1, <2>2 DEF Elements
  <2> QED BY <2>3 DEF Stored
<1>27. ASSUME NEW k \in Kinds
       PROVE  /\ \A x \in Elements(pending[k]) : /\ x \notin Elements(UrgentOf(k))
                                               /\ x \notin Elements(chan[k])
              /\ \A x \in Elements(UrgentOf(k)) : x \notin Elements(chan[k])
              /\ \A x \in Elements(pending[k]), y \in Elements(chan[k]) : x.id < y.id
  <2>1. FlightOrder(chan[k], pending[k], UrgentOf(k), accepted[k])
    BY DEF RefineInv, OrderInv, KindOrder
  <2>2. /\ \A i \in DOMAIN chan[k] : chan[k][i].id \in Nat
        /\ \A i \in DOMAIN pending[k] : pending[k][i].id \in Nat
        /\ \A i \in DOMAIN UrgentOf(k) : UrgentOf(k)[i].id \in Nat
    BY <1>1, IdsAreNumbers
  <2>3. /\ \A i \in DOMAIN pending[k], j \in DOMAIN chan[k] : pending[k][i].id # chan[k][j].id
        /\ \A i \in DOMAIN UrgentOf(k), j \in DOMAIN chan[k] :
               UrgentOf(k)[i].id # chan[k][j].id
        /\ \A i \in DOMAIN UrgentOf(k), j \in DOMAIN pending[k] :
               UrgentOf(k)[i].id # pending[k][j].id
    BY <2>1, <2>2 DEF FlightOrder, Below
  <2> QED BY <2>1, <2>3 DEF FlightOrder, Below, Elements
<1>28. ASSUME \A k \in Kinds : Flight'[k] \subseteq Flight[k],
              Stored' = [k \in Kinds |-> Stored[k] \cup (Flight[k] \ Flight'[k])],
              \A k \in DataKinds :
                  \A x \in Flight[k] \ Flight'[k], y \in Flight'[k] : x.id < y.id,
              UNCHANGED <<accepted, now>>, Phase = "up", Phase' = "up"
       PROVE  Log!Next
  <2>1. Log!Commit
    BY <1>3, <1>28 DEF Log!Commit, Flight, Stored, Phase
  <2> QED BY <2>1 DEF Log!Next
<1>29. CASE CommitBatch
  <2>1. /\ UNCHANGED <<chan, accepted, urgent, now>> /\ pending' = Empty
        /\ table' = [k \in Kinds |-> Inserted(table[k], pending[k])]
        /\ Phase = "up" /\ Phase' = "up"
    BY <1>29 DEF CommitBatch, ResetBatch, chanVars, boundVars, Phase
  <2>2. ASSUME NEW k \in Kinds
        PROVE  /\ Flight'[k] = Elements(UrgentOf(k)) \cup Elements(chan[k])
               /\ Flight'[k] \subseteq Flight[k]
               /\ Flight[k] \ Flight'[k] = Elements(pending[k])
    <3>1. pending'[k] = <<>> /\ UrgentOf(k)' = UrgentOf(k) /\ chan'[k] = chan[k]
      BY <2>1 DEF Empty, UrgentOf
    <3>2. Flight'[k] = Elements(UrgentOf(k)) \cup Elements(chan[k])
      BY <1>2, <1>e, <3>1
    <3> QED BY <1>2, <1>27, <3>2
  <2>3. Stored' = [k \in Kinds |-> Stored[k] \cup (Flight[k] \ Flight'[k])]
    <3>1. ASSUME NEW k \in Kinds
          PROVE  {[id |-> r.id, ts |-> r.ts] : r \in table'[k]}
                   = Stored[k] \cup (Flight[k] \ Flight'[k])
      <4>1. table'[k] = Inserted(table[k], pending[k]) /\ pending[k] \in Seq(Event)
        BY <1>1, <2>1
      <4> QED BY <1>26, <2>2, <4>1
    <3> QED BY <3>1 DEF Stored
  <2>4. ASSUME NEW k \in DataKinds, NEW x \in Flight[k] \ Flight'[k], NEW y \in Flight'[k]
        PROVE  x.id < y.id
    <3>1. k \in Kinds /\ UrgentOf(k) = <<>>
      BY Constants DEF UrgentOf
    <3>2. x \in Elements(pending[k]) /\ y \in Elements(chan[k])
      BY <1>e, <2>2, <2>4, <3>1
    <3> QED BY <1>27, <3>1, <3>2
  <2> QED BY <1>28, <2>1, <2>2, <2>3, <2>4
<1>30. CASE CommitSystem
  <2>1. /\ UNCHANGED <<chan, accepted, pending, now>> /\ urgent' = <<>>
        /\ table' = [table EXCEPT ![System] = Inserted(table[System], urgent)]
        /\ Phase = "up" /\ Phase' = "up" /\ System \in Kinds
    BY <1>30, Constants DEF CommitSystem, BottomOfLoop, chanVars, boundVars, Phase
  <2>2. ASSUME NEW k \in Kinds
        PROVE  /\ Flight'[k] \subseteq Flight[k]
               /\ Flight[k] \ Flight'[k] = Elements(UrgentOf(k))
    <3>1. pending'[k] = pending[k] /\ UrgentOf(k)' = <<>> /\ chan'[k] = chan[k]
      BY <2>1 DEF UrgentOf
    <3>2. Flight'[k] = Elements(pending[k]) \cup Elements(chan[k])
      BY <1>2, <1>e, <3>1
    <3> QED BY <1>2, <1>27, <3>2
  <2>3. Stored' = [k \in Kinds |-> Stored[k] \cup (Flight[k] \ Flight'[k])]
    <3>1. ASSUME NEW k \in Kinds
          PROVE  {[id |-> r.id, ts |-> r.ts] : r \in table'[k]}
                   = Stored[k] \cup (Flight[k] \ Flight'[k])
      <4>1. CASE k = System
        <5>1. table'[k] = Inserted(table[k], urgent) /\ UrgentOf(k) = urgent
          BY <1>1, <2>1, <4>1 DEF UrgentOf
        <5> QED BY <1>1, <1>26, <2>2, <5>1
      <4>2. CASE k # System
        <5>1. table'[k] = table[k] /\ Elements(UrgentOf(k)) = {}
          BY <1>1, <1>e, <2>1, <4>2 DEF UrgentOf
        <5>2. {[id |-> r.id, ts |-> r.ts] : r \in table[k]} = Stored[k]
          BY DEF Stored
        <5> QED BY <2>2, <5>1, <5>2
      <4> QED BY <4>1, <4>2
    <3> QED BY <3>1 DEF Stored
  <2>4. ASSUME NEW k \in DataKinds PROVE Flight[k] \ Flight'[k] = {}
    <3>1. k \in Kinds /\ UrgentOf(k) = <<>>
      BY Constants DEF UrgentOf
    <3> QED BY <1>e, <2>2, <3>1
  <2> QED BY <1>28, <2>1, <2>2, <2>3, <2>4
<1>31. CASE CleanStep
  <2> DEFINE t == IF cpos = CredPos THEN Cred ELSE CleanOrder[cpos]
  <2>1. /\ UNCHANGED <<pending, urgent, now>> /\ pc = "clean" /\ CleanTable(t)
        /\ cpos < DonePos /\ Phase = "up"
    BY <1>31 DEF CleanStep, batchVars, boundVars, Phase
  <2>2. pc' \in {"clean", "drain"} /\ Phase' = "up"
    BY <2>1 DEF CleanTable, StartDrain, Phase
  <2>3. CASE UNCHANGED table
    <3>1. ReportSys \/ UNCHANGED <<chan, accepted>>
      BY <2>1, <2>3 DEF CleanTable, chanVars
    <3> QED BY <1>5, <1>7, <2>1, <2>2, <2>3, <3>1
  <2>4. CASE ~ UNCHANGED table
    <3>1. /\ table' = [table EXCEPT ![t] = table[t] \ Victims(table[t])]
          /\ UNCHANGED <<chan, accepted>>
      BY <2>1, <2>4 DEF CleanTable, chanVars
    <3>2. /\ t \in Kinds /\ Keep[t] \in Nat /\ Keep[t] > 0
          /\ cutoff \in Int /\ cutoff + Keep[t] <= now
      <4>1. /\ cpos \in 1..DonePos /\ CredPos \in Nat /\ DonePos = CredPos + 1
            /\ CredPos = Len(CleanOrder) + 1 /\ cutoff \in Int /\ Len(CleanOrder) \in Nat
            /\ RetentionDays \in Nat /\ CredRetentionDays \in Nat
        BY Constants DEF RefineInv, TypeOK, CleanType, DonePos
      <4>2. CASE cpos = CredPos
        <5>1. t = Cred /\ Cred \in Kinds
          BY <4>2, Constants
        <5>2. Keep[t] = CredRetentionDays
          BY <5>1 DEF Keep
        <5> QED BY <2>1, <4>1, <4>2, <5>1, <5>2 DEF RefineInv, TimeInv, CutoffIsPast, Cleaning
      <4>3. CASE cpos # CredPos
        <5>1. cpos \in DOMAIN CleanOrder /\ cpos < CredPos
          BY <2>1, <4>1, <4>3, Constants
        <5>2. t \in Elements(CleanOrder) /\ t \in Kinds /\ t # Cred
          BY <4>3, <5>1, KindsAssumption DEF Elements
        <5>3. Keep[t] = RetentionDays
          BY <5>2 DEF Keep
        <5> QED BY <2>1, <4>1, <5>1, <5>2, <5>3 DEF RefineInv, TimeInv, CutoffIsPast, Cleaning
      <4> QED BY <4>2, <4>3
    <3> HIDE DEF t
    <3>3. Flight' = Flight
      BY <1>2, <1>3, <2>1, <3>1 DEF UrgentOf
    <3>t. PICK k \in Kinds : k = t
      BY <3>2
    <3>k. /\ table' = [table EXCEPT ![k] = table[k] \ Victims(table[k])]
          /\ Keep[k] \in Nat /\ Keep[k] > 0 /\ cutoff + Keep[k] <= now /\ cutoff \in Int
      BY <3>1, <3>2, <3>t
    <3>4. /\ Stored'[k] \subseteq Stored[k]
          /\ Stored' = [Stored EXCEPT ![k] = Stored'[k]]
      <4>1. table'[k] \subseteq table[k] /\ \A j \in Kinds : j # k => table'[j] = table[j]
        BY <1>1, <3>k
      <4>2. \A j \in Kinds : j # k => Stored'[j] = Stored[j]
        BY <4>1 DEF Stored
      <4>3. Stored'[k] \subseteq Stored[k]
        BY <3>k, <4>1 DEF Stored
      <4>4. Stored = [j \in Kinds |-> Stored[j]] /\ Stored' = [j \in Kinds |-> Stored'[j]]
        BY DEF Stored
      <4> QED BY <4>2, <4>3, <4>4
    <3>5. ASSUME NEW x \in Stored[k] \ Stored'[k]
          PROVE  x.ts > 0 /\ x.ts + Keep[k] < now
      <4>1. PICK r \in table[k] : x = [id |-> r.id, ts |-> r.ts]
        BY <3>k DEF Stored
      <4>2. r \notin table'[k]
        BY <3>k, <3>5, <4>1 DEF Stored
      <4>3. r \in Victims(table[k])
        BY <1>1, <3>k, <4>1, <4>2
      <4>4. r.ts > 0 /\ r.ts < cutoff /\ r.ts \in Nat
        BY <1>1, <3>k, <4>3 DEF Victims, Row
      <4> QED BY <1>1, <3>k, <4>1, <4>4
    <3>6. Log!Expire(k)
      BY <2>1, <2>2, <3>1, <3>k, <3>3, <3>4, <3>5 DEF Log!Expire, Log!Expired,
         Flight, Stored, Phase
    <3> QED BY <3>6 DEF Log!Next
  <2> QED BY <2>3, <2>4
<1> QED BY <1>13, <1>15, <1>16, <1>17, <1>18, <1>19, <1>20, <1>21, <1>22, <1>23, <1>24,
   <1>25, <1>29, <1>30, <1>31 DEF Next, Writer, Select, Producer, Process

(* The storage module keeps its promise (store.go:3-4) whatever its bounds, *)
(* if the context cannot end before main has started every producer:        *)
(* what is accepted is stored at most once and in order, and that of every  *)
(* kind but those of a library's hook completely before the database closes *)
(* and never after; only the retention removes it again.                    *)
THEOREM StoreImplementsEventLog ==
    ASSUME EarlyCancel = FALSE
    PROVE  Spec => ImplementsEventLog
<1>1. Spec => []RefineInv
  <2>1. Init => RefineInv
    BY TypeInit, OrderInit, CountInit, ShutdownInit, TimeInit DEF RefineInv
  <2>2. RefineInv /\ [Next]_vars => RefineInv'
    BY TypeStep, OrderStep, CountStep, ShutdownStep, TimeStep DEF RefineInv
  <2> QED BY <2>1, <2>2, PTL DEF Spec
<1>2. Init => Log!Init
  BY RefineInit
<1>3. RefineInv /\ RefineInv' /\ [Next]_vars => [Log!Next]_(Log!vars)
  BY RefineStep
<1> QED BY <1>1, <1>2, <1>3, PTL DEF Spec, ImplementsEventLog, Log!Spec
=============================================================================
