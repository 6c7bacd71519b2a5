------------------------------- MODULE Store -------------------------------
(***************************************************************************)
(* The write path of sentry-agent: the collectors (producers) send events  *)
(* into one bounded channel per kind (internal/event), and one goroutine,  *)
(* Store.Run (internal/store), takes them in batches to the SQLite         *)
(* database, deletes what is older than the retention period, runs archive *)
(* requests, and closes the database in two phases when the context is     *)
(* cancelled.  main() starts all of them and restarts after a crash.       *)
(*                                                                         *)
(* An event is [id, ts]: ids number the events of a kind in the order in   *)
(* which its channel accepted them, ts is the time stamp the retention     *)
(* looks at.  A table is a set of rows [rowid, id, ts]; SQLite gives a new *)
(* row the largest rowid of the table plus one.  The pending batch of the  *)
(* code is one slice of all kinds; since each kind has a table of its own, *)
(* only the order within a kind can be observed and pending keeps that.    *)
(***************************************************************************)
EXTENDS Integers, Sequences, FiniteSets

CONSTANTS
    DataKinds,      \* event kinds sent by producers (Resource, Conn, SSH, ...)
    System,         \* the kind of system events, reported by everybody
    Cred,           \* the data kind with a retention period of its own
    NonBlocking,    \* data kinds whose producer drops when the channel is full
    Loose,          \* data kinds sent by a goroutine of a library, which nobody
                    \* waits for (the hook of conntrack; none in mode fallback)
    SourceStamped,  \* data kinds stamped by their source, not on acceptance
    DrainOrder,     \* Channels.Drain polls the kinds in this order
    CleanOrder,     \* archive.ArchivedTables(): retention cleans in this order
    Cap,            \* capacity of every channel
    BatchSize,      \* db.batch_size
    DeleteLimit,    \* retentionBatchSize: rows per DELETE
    RetentionDays, CredRetentionDays,   \* 0 disables the cleanup
    CopySpan,       \* archive.copy_after_days + 31
    ReqCap,         \* capacity of the archive request queue
    EarlyCancel,    \* may the context end while main still starts producers?
    MaxEvents, MaxReports, MaxTime, MaxFaults, MaxBoots, MaxJobs  \* bounds

Kinds == DataKinds \cup {System}

Elements(s) == {s[i] : i \in DOMAIN s}

ASSUME KindsAssumption ==
    /\ IsFiniteSet(DataKinds) /\ System \notin DataKinds /\ Cred \in DataKinds
    /\ NonBlocking \subseteq DataKinds /\ SourceStamped \subseteq DataKinds
    /\ Loose \subseteq DataKinds \ NonBlocking
    /\ DrainOrder \in Seq(Kinds) /\ Elements(DrainOrder) = Kinds
    /\ CleanOrder \in Seq(Kinds) /\ Elements(CleanOrder) \subseteq Kinds \ {Cred}
    /\ CleanOrder # <<>>

ASSUME SizesAssumption ==
    /\ {Cap, BatchSize, DeleteLimit, ReqCap} \subseteq Nat \ {0}
    /\ {RetentionDays, CredRetentionDays, CopySpan} \subseteq Nat
    /\ EarlyCancel \in BOOLEAN
    /\ MaxEvents \in [DataKinds -> Nat]
    /\ {MaxReports, MaxTime, MaxFaults, MaxBoots, MaxJobs} \subseteq Nat

VARIABLES
    cancelled,  \* ctx.Done() is closed
    services,   \* some goroutine that is not in the producers WaitGroup runs
    prod,       \* [DataKinds -> {"unborn", "running", "left", "exited"}]: "left"
                \* when the producer has returned and its hook has not
    offer,      \* [DataKinds -> Seq]: the event a producer or its hook is blocked on
    chan,       \* [Kinds -> Seq(Event)]: the channels
    accepted,   \* [Kinds -> Nat]: how many events the channels have accepted
    pc,         \* where Run is
    ret,        \* whom flush and drainInto return to: "loop", "clean", "exit"
    pending, nInBatch,  \* the batch to be written
    urgent,     \* the system event being written outside the batch
    dpos, got,  \* the position of Drain and whether this round found anything
    settled,    \* history: accepted, when producers.Wait() returned
    cpos, cutoff,       \* the table being cleaned and the cutoff of its segment
    yieldErr,   \* a flush between two DELETEs failed
    chmodDone,  \* walChmodDone
    archReq,    \* the number of queued archive requests
    table,      \* [Kinds -> sets of rows]: what is committed
    now, faults, boots, jobs  \* time, and counters that bound the model

batchVars == <<pending, nInBatch>>
drainVars == <<dpos, got, settled>>
cleanVars == <<cpos, cutoff, yieldErr>>
runVars   == <<pc, ret, batchVars, urgent, drainVars, cleanVars, chmodDone>>
envVars   == <<cancelled, services, prod, offer>>
chanVars  == <<chan, accepted>>
boundVars == <<now, faults, boots, jobs>>
vars == <<runVars, envVars, chanVars, archReq, table, boundVars>>

-----------------------------------------------------------------------------
Empty == [k \in Kinds |-> <<>>]

\* ReportSys: a system event, dropped when the channel is full.
ReportSys ==
    IF Len(chan[System]) < Cap
    THEN /\ chan' = [chan EXCEPT ![System] =
                       Append(@, [id |-> accepted[System] + 1, ts |-> now])]
         /\ accepted' = [accepted EXCEPT ![System] = @ + 1]
    ELSE UNCHANGED chanVars

\* What a process that is not running holds: nothing survives but the tables.
Volatile(at) ==
    /\ pc' = at
    /\ ret' = "loop"
    /\ pending' = Empty /\ nInBatch' = 0 /\ urgent' = <<>>
    /\ dpos' = 1 /\ got' = FALSE /\ cpos' = 1 /\ cutoff' = 0
    /\ settled' = [k \in DataKinds |-> 0]
    /\ yieldErr' = FALSE /\ chmodDone' = FALSE
    /\ cancelled' = FALSE
    /\ prod' = [k \in DataKinds |-> "unborn"]
    /\ offer' = [k \in DataKinds |-> <<>>]
    /\ chan' = Empty
    /\ archReq' = 0

ProcessDies == /\ Volatile("off") /\ services' = FALSE
               /\ UNCHANGED <<accepted, table>>

Init ==
    /\ pc = "off" /\ ret = "loop"
    /\ pending = Empty /\ nInBatch = 0 /\ urgent = <<>>
    /\ dpos = 1 /\ got = FALSE /\ cpos = 1 /\ cutoff = 0
    /\ settled = [k \in DataKinds |-> 0]
    /\ yieldErr = FALSE /\ chmodDone = FALSE
    /\ cancelled = FALSE /\ services = FALSE
    /\ prod = [k \in DataKinds |-> "unborn"]
    /\ offer = [k \in DataKinds |-> <<>>]
    /\ chan = Empty /\ accepted = [k \in Kinds |-> 0]
    /\ archReq = 0
    /\ table = [k \in Kinds |-> {}]
    /\ now = 1 /\ faults = 0 /\ boots = 0 /\ jobs = 0

-----------------------------------------------------------------------------
(* main(): start, producers, services, cancellation                        *)

\* NewStore, then Run is started as a service before any producer exists.
Boot == /\ pc = "off" /\ boots < MaxBoots
        /\ Volatile("boot") /\ services' = TRUE
        /\ boots' = boots + 1
        /\ UNCHANGED <<accepted, table, now, faults, jobs>>

Up == pc # "off"

StartProducer(k) ==
    /\ Up /\ prod[k] = "unborn"
    /\ prod' = [prod EXCEPT ![k] = "running"]
    /\ UNCHANGED <<runVars, cancelled, services, offer, chanVars, archReq,
                   table, boundVars>>

Running(k) == Up /\ prod[k] = "running"

\* A hook is called, and sends, also when the function that registered it has returned.
Sending(k) == Up /\ prod[k] \in {"running", "left"}

Stamps(k) == IF k \in SourceStamped THEN 0..now ELSE {now}

\* A producer has an event and enters select { sink <- ev ; <-ctx.Done() }.
Produce(k) ==
    /\ Sending(k) /\ k \notin NonBlocking /\ offer[k] = <<>>
    /\ accepted[k] < MaxEvents[k]
    /\ \E ts \in Stamps(k) : offer' = [offer EXCEPT ![k] = <<ts>>]
    /\ UNCHANGED <<runVars, cancelled, services, prod, chanVars, archReq,
                   table, boundVars>>

Accept(k, ts) ==
    /\ Len(chan[k]) < Cap
    /\ chan' = [chan EXCEPT ![k] = Append(@, [id |-> accepted[k] + 1, ts |-> ts])]
    /\ accepted' = [accepted EXCEPT ![k] = @ + 1]

Send(k) ==
    /\ Sending(k) /\ offer[k] # <<>>
    /\ Accept(k, offer[k][1])
    /\ offer' = [offer EXCEPT ![k] = <<>>]
    /\ UNCHANGED <<runVars, cancelled, services, prod, archReq, table,
                   boundVars>>

\* Mutant: a plain send, without the case of the cancelled context.
AbandonSendNever(k) == FALSE

\* The select takes <-ctx.Done(): the event is given up.  A hook then ends.
AbandonSend(k) ==
    /\ Sending(k) /\ offer[k] # <<>> /\ cancelled
    /\ offer' = [offer EXCEPT ![k] = <<>>]
    /\ prod' = [prod EXCEPT ![k] = IF @ = "left" THEN "exited" ELSE @]
    /\ UNCHANGED <<runVars, cancelled, services, chanVars, archReq, table,
                   boundVars>>

\* honeypot emit: select with default.
Emit(k) ==
    /\ Running(k) /\ k \in NonBlocking /\ accepted[k] < MaxEvents[k]
    /\ \E ts \in Stamps(k) : Accept(k, ts)
    /\ UNCHANGED <<runVars, envVars, archReq, table, boundVars>>

\* The producer function returns because the context ended; that of a loose kind may
\* leave its hook behind, in its select or about to be called ...
ProducerStops(k) ==
    /\ Running(k) /\ cancelled
    /\ \/ offer[k] = <<>> /\ prod' = [prod EXCEPT ![k] = "exited"]
       \/ k \in Loose /\ prod' = [prod EXCEPT ![k] = "left"]
    /\ UNCHANGED <<runVars, cancelled, services, offer, chanVars, archReq,
                   table, boundVars>>

\* The receive loop of the library ends.
HookEnds(k) ==
    /\ Up /\ prod[k] = "left" /\ offer[k] = <<>> /\ cancelled
    /\ prod' = [prod EXCEPT ![k] = "exited"]
    /\ UNCHANGED <<runVars, cancelled, services, offer, chanVars, archReq,
                   table, boundVars>>

\* ... or gives up with an error that main reports.
ProducerGivesUp(k) ==
    /\ Running(k) /\ offer[k] = <<>> /\ ~cancelled
    /\ prod' = [prod EXCEPT ![k] = "exited"]
    /\ ReportSys
    /\ UNCHANGED <<runVars, cancelled, services, offer, archReq, table,
                   boundVars>>

\* Any goroutine but the writer reports something of its own; so does
\* NewStore when it cannot restrict the mode of the data files.
Report ==
    /\ Up /\ (services \/ \E k \in DataKinds : Running(k))
    /\ accepted[System] < MaxReports /\ Len(chan[System]) < Cap
    /\ ReportSys
    /\ UNCHANGED <<runVars, envVars, archReq, table, boundVars>>

\* RunArchiver -> RequestArchive, and the report when the queue is full.
RequestArchive ==
    /\ Up /\ services /\ jobs < MaxJobs
    /\ jobs' = jobs + 1
    /\ IF archReq < ReqCap
       THEN archReq' = archReq + 1 /\ UNCHANGED chanVars
       ELSE ReportSys /\ UNCHANGED archReq
    /\ UNCHANGED <<runVars, envVars, table, now, faults, boots>>

ServicesStop == /\ Up /\ services /\ cancelled
                /\ services' = FALSE
                /\ UNCHANGED <<runVars, cancelled, prod, offer, chanVars,
                               archReq, table, boundVars>>

\* SIGTERM or the end of -duration; without EarlyCancel only once main has
\* started every producer.
Cancel == /\ Up /\ ~cancelled
          /\ EarlyCancel \/ \A k \in DataKinds : prod[k] # "unborn"
          /\ cancelled' = TRUE
          /\ UNCHANGED <<runVars, services, prod, offer, chanVars, archReq,
                         table, boundVars>>

\* The function that main started has returned.
Returned(k) == prod[k] \in {"left", "exited"}

\* main returns once everything it has started has ended (all.Wait).
ProcessExits == /\ pc = "closed" /\ ~services
                /\ \A k \in DataKinds : Returned(k)
                /\ ProcessDies /\ UNCHANGED boundVars

\* main gives up waiting after 60 seconds.
ForceExit == /\ Up /\ cancelled /\ \A k \in DataKinds : prod[k] # "unborn"
             /\ \/ pc # "closed" \/ services
                \/ \E k \in DataKinds : ~Returned(k)
             /\ ProcessDies /\ UNCHANGED boundVars

Crash == /\ Up /\ faults < MaxFaults
         /\ faults' = faults + 1
         /\ ProcessDies /\ UNCHANGED <<now, boots, jobs>>

Tick == /\ now < MaxTime
        /\ now' = now + 1
        /\ UNCHANGED <<runVars, envVars, chanVars, archReq, table, faults,
                       boots, jobs>>

-----------------------------------------------------------------------------
(* Run: the select loop                                                    *)

\* warnRetentionArchiveGap, before the loop.
RunBegins ==
    /\ pc = "boot" /\ pc' = "select"
    /\ IF RetentionDays > 0 /\ RetentionDays < CopySpan
       THEN ReportSys ELSE UNCHANGED chanVars
    /\ UNCHANGED <<ret, batchVars, urgent, drainVars, cleanVars, chmodDone,
                   envVars, archReq, table, boundVars>>

\* The check below the select: a full batch is flushed.
BottomOfLoop == /\ pc' = IF nInBatch' >= BatchSize THEN "flush" ELSE "select"
                /\ ret' = "loop"

\* Mutant: the batch is a stack.
enqueueFront(k) ==
    /\ pending' = [pending EXCEPT ![k] = <<Head(chan[k])>> \o @]
    /\ nInBatch' = nInBatch + 1
    /\ chan' = [chan EXCEPT ![k] = Tail(@)]

enqueue(k) ==
    /\ pending' = [pending EXCEPT ![k] = Append(@, Head(chan[k]))]
    /\ nInBatch' = nInBatch + 1
    /\ chan' = [chan EXCEPT ![k] = Tail(@)]

TakeEvent(k) ==
    /\ pc = "select" /\ chan[k] # <<>>
    /\ enqueue(k) /\ BottomOfLoop
    /\ UNCHANGED <<urgent, drainVars, cleanVars, chmodDone, envVars, accepted,
                   archReq, table, boundVars>>

\* A system event is written at once, in a transaction of its own.
TakeSystem ==
    /\ pc = "select" /\ chan[System] # <<>>
    /\ urgent' = <<Head(chan[System])>>
    /\ chan' = [chan EXCEPT ![System] = Tail(@)]
    /\ pc' = "system"
    /\ UNCHANGED <<ret, batchVars, drainVars, cleanVars, chmodDone, envVars,
                   accepted, archReq, table, boundVars>>

\* Mutant: the ticker, too, only flushes a full batch.
BatchTickerFull == /\ pc = "select" /\ nInBatch >= BatchSize
                   /\ pc' = "flush" /\ ret' = "loop"
                   /\ UNCHANGED <<batchVars, urgent, drainVars, cleanVars,
                                  chmodDone, envVars, chanVars, archReq, table,
                                  boundVars>>

\* The batch ticker; flush returns at once when the batch is empty.
BatchTicker ==
    /\ pc = "select" /\ nInBatch # 0
    /\ pc' = "flush" /\ ret' = "loop"
    /\ UNCHANGED <<batchVars, urgent, drainVars, cleanVars, chmodDone, envVars,
                   chanVars, archReq, table, boundVars>>

\* <-ctx.Done()
ContextDone ==
    /\ pc = "select" /\ cancelled
    /\ pc' = "wait"
    /\ UNCHANGED <<ret, batchVars, urgent, drainVars, cleanVars, chmodDone,
                   envVars, chanVars, archReq, table, boundVars>>

StartDrain(returnTo) ==
    /\ pc' = "drain" /\ ret' = returnTo
    /\ dpos' = 1 /\ got' = FALSE
    /\ settled' = IF returnTo = "exit" THEN [k \in DataKinds |-> accepted[k]] ELSE settled

\* Mutant: the drain starts without waiting for the producers.
ProducersWaitSkipped ==
    /\ pc = "wait"
    /\ StartDrain("exit")
    /\ UNCHANGED <<batchVars, urgent, cleanVars, chmodDone, envVars, chanVars,
                   archReq, table, boundVars>>

\* producers.Wait() returns when no registered producer is left.
ProducersWait ==
    /\ pc = "wait" /\ \A k \in DataKinds : prod[k] # "running"
    /\ StartDrain("exit")
    /\ UNCHANGED <<batchVars, urgent, cleanVars, chmodDone, envVars, chanVars,
                   archReq, table, boundVars>>

(* Channels.Drain: one non-blocking poll per kind, round after round, until *)
(* a round finds nothing.                                                   *)
Poll ==
    /\ pc = "drain" /\ dpos <= Len(DrainOrder)
    /\ dpos' = dpos + 1
    /\ LET k == DrainOrder[dpos]
       IN  IF chan[k] # <<>>
           THEN enqueue(k) /\ got' = TRUE
           ELSE UNCHANGED <<batchVars, chan, got>>
    /\ UNCHANGED <<pc, ret, settled, urgent, cleanVars, chmodDone, envVars, accepted,
                   archReq, table, boundVars>>

\* The round found nothing: if !got { return }
Drained == ~got

NextRound ==
    /\ pc = "drain" /\ dpos > Len(DrainOrder) /\ ~Drained
    /\ dpos' = 1 /\ got' = FALSE
    /\ UNCHANGED <<pc, ret, settled, batchVars, urgent, cleanVars, chmodDone, envVars,
                   chanVars, archReq, table, boundVars>>

\* After the drain: yield flushes a full batch, Run whatever there is.
DrainEnds ==
    /\ pc = "drain" /\ dpos > Len(DrainOrder) /\ Drained
    /\ pc' = IF ret = "exit"
             THEN IF nInBatch # 0 THEN "flush" ELSE "closed"
             ELSE IF nInBatch >= BatchSize THEN "flush" ELSE "clean"
    /\ dpos' = 1 /\ got' = FALSE
    /\ UNCHANGED <<ret, settled, batchVars, urgent, cleanVars, chmodDone, envVars,
                   chanVars, archReq, table, boundVars>>

-----------------------------------------------------------------------------
(* writeBatch: BEGIN IMMEDIATE ... COMMIT                                  *)

LastRow(rows) == {r \in rows : \A q \in rows : q.rowid <= r.rowid}
LastRowid(rows) ==
    IF LastRow(rows) = {} THEN 0 ELSE (CHOOSE r \in LastRow(rows) : TRUE).rowid

Inserted(rows, batch) ==
    rows \cup {[rowid |-> LastRowid(rows) + i, id |-> batch[i].id, ts |-> batch[i].ts] :
                  i \in DOMAIN batch}

AfterFlush == IF ret = "exit" THEN "closed"
              ELSE IF ret = "clean" THEN "clean" ELSE "select"

\* pending = pending[:0], nInBatch = 0
ResetBatch == pending' = Empty /\ nInBatch' = 0

\* The batch commits; pending is reset by the same goroutine.
CommitBatch ==
    /\ pc = "flush"
    /\ table' = [k \in Kinds |-> Inserted(table[k], pending[k])]
    /\ ResetBatch
    /\ pc' = "chmod"
    /\ UNCHANGED <<ret, urgent, drainVars, cleanVars, chmodDone, envVars,
                   chanVars, archReq, boundVars>>

\* After the first batch chmodDataFiles is called; a failure is reported only.
ChmodFails ==
    /\ pc = "chmod" /\ ~chmodDone /\ faults < MaxFaults
    /\ chmodDone' = TRUE
    /\ faults' = faults + 1
    /\ ReportSys
    /\ UNCHANGED <<pc, ret, batchVars, urgent, drainVars, cleanVars, envVars,
                   archReq, table, now, boots, jobs>>

FlushReturns ==
    /\ pc = "chmod" /\ pc' = AfterFlush /\ chmodDone' = TRUE
    /\ UNCHANGED <<ret, batchVars, urgent, drainVars, cleanVars, envVars,
                   chanVars, archReq, table, boundVars>>

\* Mutant: a failed batch is dropped and the loop goes on.
FlushFailsSilently ==
    /\ pc = "flush" /\ faults < MaxFaults
    /\ faults' = faults + 1
    /\ pending' = Empty /\ nInBatch' = 0 /\ pc' = AfterFlush
    /\ UNCHANGED <<ret, urgent, drainVars, cleanVars, chmodDone, envVars, chanVars,
                   archReq, table, now, boots, jobs>>

\* BEGIN, an INSERT or COMMIT fails and the transaction is rolled back: the
\* batch is kept.  Between two DELETEs the error waits for the end of the
\* cleanup; anywhere else Run returns it and main ends the process.
FlushFails ==
    /\ pc = "flush" /\ faults < MaxFaults
    /\ faults' = faults + 1
    /\ IF ret = "clean"
       THEN /\ pc' = "clean" /\ yieldErr' = TRUE
            /\ UNCHANGED <<ret, batchVars, urgent, drainVars, cpos, cutoff,
                           chmodDone, envVars, chanVars, archReq, table>>
       ELSE ProcessDies
    /\ UNCHANGED <<now, boots, jobs>>

CommitSystem ==
    /\ pc = "system"
    /\ table' = [table EXCEPT ![System] = Inserted(@, urgent)]
    /\ urgent' = <<>>
    /\ UNCHANGED nInBatch /\ BottomOfLoop
    /\ UNCHANGED <<pending, drainVars, cleanVars, chmodDone, envVars, chanVars,
                   archReq, boundVars>>

SystemFails == /\ pc = "system" /\ faults < MaxFaults
               /\ faults' = faults + 1
               /\ ProcessDies /\ UNCHANGED <<now, boots, jobs>>

-----------------------------------------------------------------------------
(* runRetentionOnce: the event tables, then cred_events, each segment with  *)
(* a cutoff of its own; cpos = Len(CleanOrder) + 1 is cred_events.          *)

CredPos == Len(CleanOrder) + 1
DonePos == CredPos + 1

StartCred == /\ cpos' = IF CredRetentionDays > 0 THEN CredPos ELSE DonePos
             /\ cutoff' = now - CredRetentionDays

\* retentionNow at the start, retentionC every day: at any time here.
RetentionTimer ==
    /\ pc = "select" /\ jobs < MaxJobs
    /\ RetentionDays > 0 \/ CredRetentionDays > 0
    /\ jobs' = jobs + 1
    /\ pc' = "clean"
    /\ IF RetentionDays > 0
       THEN cpos' = 1 /\ cutoff' = now - RetentionDays
       ELSE StartCred
    /\ UNCHANGED <<ret, batchVars, urgent, drainVars, yieldErr, chmodDone,
                   envVars, chanVars, archReq, table, now, faults, boots>>

\* Mutant: rows without a time stamp (ts = 0) are deleted, too.
VictimsUnguarded(rows) ==
    LET old == {r \in rows : r.ts < cutoff}
    IN  {r \in old : Cardinality({q \in old : q.rowid < r.rowid}) < DeleteLimit}

Victims(rows) ==
    LET old == {r \in rows : r.ts > 0 /\ r.ts < cutoff}
    IN  {r \in old : Cardinality({q \in old : q.rowid < r.rowid}) < DeleteLimit}

CleanTable(k) ==
    \/ \* some rows are deleted and the writer yields to the channels
       /\ Victims(table[k]) # {}
       /\ table' = [table EXCEPT ![k] = @ \ Victims(@)]
       /\ StartDrain("clean")
       /\ UNCHANGED <<cpos, cutoff, chanVars>>
    \/ \* nothing is left: the next table of the segment
       /\ Victims(table[k]) = {} /\ cpos < Len(CleanOrder)
       /\ cpos' = cpos + 1
       /\ UNCHANGED <<pc, ret, drainVars, cutoff, chanVars, table>>
    \/ \* the segment ends with a report
       /\ Victims(table[k]) = {} /\ cpos >= Len(CleanOrder)
       /\ IF cpos < CredPos THEN StartCred ELSE cpos' = DonePos /\ UNCHANGED cutoff
       /\ ReportSys
       /\ UNCHANGED <<pc, ret, drainVars, table>>

CleanStep ==
    /\ pc = "clean" /\ cpos < DonePos /\ ~cancelled
    /\ CleanTable(IF cpos = CredPos THEN Cred ELSE CleanOrder[cpos])
    /\ UNCHANGED <<batchVars, urgent, yieldErr, chmodDone, envVars, archReq,
                   boundVars>>

RetentionReturns ==
    /\ cpos' = 1 /\ cutoff' = 0
    /\ UNCHANGED nInBatch /\ BottomOfLoop
    /\ UNCHANGED <<pending, urgent, drainVars, yieldErr, chmodDone, envVars,
                   archReq, table>>

\* The round is complete: last_retention_ts is written.
RetentionEnds ==
    /\ pc = "clean" /\ cpos = DonePos /\ ~yieldErr
    /\ RetentionReturns
    /\ UNCHANGED <<chanVars, boundVars>>

\* ctx.Err() before a DELETE, or a DELETE or the meta write that failed.
RoundFails == \/ cancelled /\ cpos < DonePos /\ UNCHANGED faults
              \/ faults < MaxFaults /\ faults' = faults + 1

\* The rest of the round is given up and reported; the writer goes on.
RetentionFails ==
    /\ pc = "clean" /\ ~yieldErr /\ RoundFails
    /\ ReportSys
    /\ RetentionReturns
    /\ UNCHANGED <<now, boots, jobs>>

\* A flush failed during the round: Run returns the error, main exits.
RetentionFatal ==
    /\ pc = "clean" /\ yieldErr
    /\ (cpos = DonePos /\ UNCHANGED faults) \/ RoundFails
    /\ ProcessDies
    /\ UNCHANGED <<now, boots, jobs>>

-----------------------------------------------------------------------------
(* execArchive, synchronous in the writer                                  *)

\* Skipped (disk above critical) or begun, both with a report.
StartArchive ==
    /\ pc = "select" /\ archReq > 0
    /\ archReq' = archReq - 1
    /\ ReportSys
    /\ pc' \in {"select", "archive"}
    /\ UNCHANGED <<ret, batchVars, urgent, drainVars, cleanVars, chmodDone,
                   envVars, table, boundVars>>

\* Completed or failed, both with a report.
EndArchive ==
    /\ pc = "archive"
    /\ ReportSys
    /\ UNCHANGED nInBatch /\ BottomOfLoop
    /\ UNCHANGED <<pending, urgent, drainVars, cleanVars, chmodDone, envVars,
                   archReq, table, boundVars>>

-----------------------------------------------------------------------------
(* The specification                                                       *)

Writer == \/ RunBegins \/ ProducersWait \/ Poll \/ NextRound \/ DrainEnds
          \/ CommitBatch \/ ChmodFails \/ FlushReturns \/ FlushFails
          \/ CommitSystem \/ SystemFails
          \/ CleanStep \/ RetentionEnds \/ RetentionFails \/ RetentionFatal
          \/ EndArchive

Select == \/ TakeSystem \/ BatchTicker \/ ContextDone \/ RetentionTimer
          \/ StartArchive
          \/ \E k \in DataKinds : TakeEvent(k)

Producer(k) == \/ StartProducer(k) \/ Produce(k) \/ Send(k) \/ AbandonSend(k)
               \/ Emit(k) \/ ProducerStops(k) \/ HookEnds(k) \/ ProducerGivesUp(k)

Process == \/ Boot \/ Report \/ RequestArchive \/ ServicesStop \/ Cancel
           \/ ProcessExits \/ ForceExit \/ Crash \/ Tick

\* The machine is off for good: the bound on restarts is reached.
Stopped == pc = "off" /\ boots = MaxBoots /\ UNCHANGED vars

Next == Writer \/ Select \/ Process \/ Stopped \/ \E k \in DataKinds : Producer(k)

Spec == Init /\ [][Next]_vars

(* The writer never stops in the middle of a branch; a select whose case    *)
(* stays ready takes it sooner or later, since Go picks among the ready     *)
(* cases at random; a cancelled context ends the source of every producer,  *)
(* so that it leaves after finitely many more events.                       *)
Fairness ==
    /\ WF_vars(Writer)
    /\ SF_vars(TakeSystem) /\ SF_vars(BatchTicker) /\ SF_vars(ContextDone)
    /\ \A k \in DataKinds : /\ SF_vars(TakeEvent(k))
                            /\ SF_vars(Send(k) \/ AbandonSend(k))
                            /\ SF_vars(ProducerStops(k))

FairSpec == Spec /\ Fairness

-----------------------------------------------------------------------------
(* Properties                                                              *)

Event == [id : Nat, ts : Nat]
Row == [rowid : Nat, id : Nat, ts : Nat]

EnvType == /\ cancelled \in BOOLEAN /\ services \in BOOLEAN
           /\ prod \in [DataKinds -> {"unborn", "running", "left", "exited"}]
           /\ offer \in [DataKinds -> Seq(Nat)]
           /\ archReq \in Nat
ChanType == /\ chan \in [Kinds -> Seq(Event)]
            /\ accepted \in [Kinds -> Nat]
BatchType == /\ pending \in [Kinds -> Seq(Event)]
             /\ nInBatch \in Nat
             /\ urgent \in Seq(Event)
ControlType == /\ pc \in {"off", "boot", "select", "wait", "drain", "flush",
                          "chmod", "system", "clean", "archive", "closed"}
               /\ ret \in {"loop", "clean", "exit"}
               /\ chmodDone \in BOOLEAN
DrainType == /\ dpos \in 1..(Len(DrainOrder) + 1) /\ got \in BOOLEAN
             /\ settled \in [DataKinds -> Nat]
CleanType == cpos \in 1..DonePos /\ cutoff \in Int /\ yieldErr \in BOOLEAN
TableType == table \in [Kinds -> SUBSET Row]
BoundType == now \in Nat /\ faults \in Nat /\ boots \in Nat /\ jobs \in Nat

\* The type invariant of the write path.
TypeOK == /\ EnvType /\ ChanType /\ BatchType /\ ControlType /\ DrainType
          /\ CleanType /\ TableType /\ BoundType

(* Two-phase shutdown loses no event of a collector: once the database is   *)
(* closed neither a channel nor the batch holds an event of a data kind     *)
(* (store.go:3-4).                                                          *)
ClosedIsDurable ==
    pc = "closed" => \A k \in DataKinds : chan[k] = <<>> /\ pending[k] = <<>>

(* What Run does for it (producers.Wait, Channels.Drain, the last flush):   *)
(* once the database is closed, everything is stored that the channels had  *)
(* accepted when producers.Wait() returned, and nothing else is in them but *)
(* what the hooks that nobody waits for have sent since.                    *)
Cleared(k) == /\ k \notin Loose => chan[k] = <<>>
              /\ \A i \in DOMAIN chan[k] : chan[k][i].id > settled[k]

DrainIsComplete ==
    pc = "closed" => \A k \in DataKinds : Cleared(k) /\ pending[k] = <<>>

(* Why it does: from producers.Wait() on, no producer runs and none is still *)
(* to come; the drain has cleared each channel it has polled since the last *)
(* event it found; and what it took leaves the batch only by a commit.      *)
Exiting == pc \in {"drain", "flush", "chmod"} /\ ret = "exit"

CancelAfterStart == cancelled => \A k \in DataKinds : prod[k] # "unborn"

ExitAfterCancel == pc = "wait" \/ Exiting \/ pc = "closed" => cancelled

LeftAreLoose == \A k \in DataKinds : prod[k] = "left" => k \in Loose

ExitAfterProducers ==
    Exiting \/ pc = "closed" => \A k \in DataKinds : Returned(k)

SettledWasAccepted == \A k \in DataKinds : settled[k] <= accepted[k]

PolledAreEmpty ==
    pc = "drain" /\ ret = "exit" /\ ~got =>
        \A i \in 1..(dpos - 1) :
            DrainOrder[i] \in DataKinds => Cleared(DrainOrder[i])

DrainedAreEmpty ==
    (Exiting /\ pc # "drain") \/ pc = "closed" => \A k \in DataKinds : Cleared(k)

BatchIsCounted ==
    nInBatch = 0 \/ pc \in {"chmod", "closed"} => \A k \in Kinds : pending[k] = <<>>

ShutdownInv == /\ CancelAfterStart /\ ExitAfterCancel /\ LeftAreLoose
               /\ ExitAfterProducers /\ SettledWasAccepted /\ PolledAreEmpty
               /\ DrainedAreEmpty /\ BatchIsCounted

(* An event is in one place only, and a table never holds it twice: a batch *)
(* kept after a failed flush, the yields of the retention and restarts do   *)
(* not write anything a second time.                                        *)
InFlight(k) == pending[k] \o (IF k = System THEN urgent ELSE <<>>) \o chan[k]

AtMostOnce ==
    \A k \in Kinds :
        /\ \A i, j \in DOMAIN InFlight(k) :
              InFlight(k)[i].id = InFlight(k)[j].id => i = j
        /\ \A r \in table[k] :
              /\ \A q \in table[k] : r.id = q.id \/ r.rowid = q.rowid => r = q
              /\ \A e \in Elements(InFlight(k)) : r.id # e.id

(* The rowids of a data table follow the order in which its events were     *)
(* accepted, though they are taken by two different consumers (the select   *)
(* and the yield) and rowids are reused after deletions.                    *)
RowOrder ==
    \A k \in DataKinds : \A r, q \in table[k] : r.rowid < q.rowid => r.id < q.id

(* The loop never waits with a full batch, and never loses count of it.     *)
LoopBelowThreshold ==
    /\ pc = "select" => nInBatch < BatchSize
    /\ nInBatch = 0 <=> pending = Empty

(* What the loop keeps between its branches, whoever consumes the channels. *)
WriterInv == AtMostOnce /\ RowOrder /\ LoopBelowThreshold

(* The write path keeps the promise of EventLog.                            *)
Keep == [k \in Kinds |-> IF k = Cred THEN CredRetentionDays
                         ELSE IF k \in Elements(CleanOrder) THEN RetentionDays
                         ELSE 0]

Log == INSTANCE EventLog WITH
          Ordered <- DataKinds, Drained <- DataKinds \ Loose,
          inflight <- [k \in Kinds |-> Elements(InFlight(k))],
          stored <- [k \in Kinds |-> {[id |-> r.id, ts |-> r.ts] : r \in table[k]}],
          clock <- now,
          status <- IF pc = "off" THEN "down"
                    ELSE IF pc = "closed" THEN "closed" ELSE "up"

ImplementsEventLog == Log!Spec

(* A cancelled context ends in a closed database without the help of the    *)
(* 60-second limit: nobody waits for a producer that waits for the writer.  *)
ShutdownTerminates == cancelled ~> pc \in {"closed", "off"}

(* An accepted event of a data kind does not stay in flight: the ticker     *)
(* flushes what the batch size does not.  (What a hook sends after Close is *)
(* never taken.)                                                            *)
EventuallyStored ==
    \A k \in DataKinds \ Loose : \A i \in 1..MaxEvents[k] :
        (\E e \in Elements(InFlight(k)) : e.id = i)
            ~> ~(\E e \in Elements(InFlight(k)) : e.id = i)
=============================================================================
