# sentry-agent: TLA+ model

TLA+ modules, TLC configurations and TLAPS proofs for the agent of
vps-safe-dashboard (`src/`, Go and one page of JavaScript). The modules are
written from the code; a comment names the function where that is not obvious,
and `PROJECT.json` maps each definition to its lines.

## The system

One process. Collectors send events into one bounded channel per kind (4096
places); a single goroutine, `Store.Run`, writes them in batches to SQLite. The
same goroutine runs the retention and the archive. Everything else reads the
database or reports *system events* into a channel of its own.

    log readers, conn, honeypot --chan--> Store.Run --batch--> SQLite
          ^      services --System--^      |  ^                  | read-only
          | white list                     |  +-- archiveReq     v
          +---- learner <------------------+      RunArchiver   API, WS push --> browser

| Component | State | Operations | Correct means |
|---|---|---|---|
| `event` | channels | send, `ReportSys` (drops when full), `Drain` | a drain after the last send leaves nothing |
| `store` | pending batch, tables, `yieldErr`, archive queue | select loop, flush, ticker, retention with yield, two-phase shutdown | no loss at shutdown, no duplicate, order kept, only expired rows deleted |
| `archive` | files of each month, `meta.copied_months` | `RunArchiver`, `ArchiveMonthDB`, `CleanStaleTmp` | a copy is complete or absent; the record has a copy; a month the queue has room for is copied |
| `main` | context, `producers` and `all` WaitGroups | start, cancel, 60 s limit, fallback of conntrack, refresh of the ban list | services and collectors end, the store ends last |
| `conn` | failed starts, backoff, buffer size, counters, last snapshot | listen, restart, fallback, freshness and overrun checks | gives up only after the last failed start in a row; a silent subscription is noticed; no drop is counted twice |
| `ssh`, `fw`, `f2b`, `logstream` | child process, backoff, report times, white list, ban list | read lines, restart, learn, snapshot of bans | a dead stream is restarted and reported; the white list holds only addresses that earned it |
| `honeypot` | slots, buckets, connections, ten dialogues | accept, limit, emit, shutdown | slots come back, no connection outlives `Run`, a complete login is recorded |
| `api` | WebSocket clients, cursors, token buckets, statistics slots | handlers, push loop, limits, exports | each row is pushed once, limits hold, a slow client blocks nobody |
| `web` (`app.js`) | queue of requests, active fetches, timers | enqueue, pump, abort, time-out | each callback once, for the current view; nothing stays in the queue |
| `geoip` | database file, `.bak`, state file | lookup, update, replace | there is a usable file after a failed update |
| `diskmon` | last level, last reports | periodic check | every change of level is reported |
| `out`, `config`, `util`, `dbdsn`, tools, scripts, deploy | – | – | not modelled |

What is hard to test: the order of shutdown against collectors that block on
full channels; the yield of the retention, a second consumer of the channels
in the middle of a cleanup; a batch kept after a failed flush; rowids given out
again after deletions; a month archived in eleven steps with a failure or a
death after any of them; restart loops whose counters, backoffs and report
intervals interact; a library replaced in four steps; slots and counters that
have to come back on every way out. `PROJECT.json` lists each at its line under
`hazards`.

## Modules

| Module | Models |
|---|---|
| `EventLog` | the promise of the store to everybody else: in flight, stored once, in order, deleted only when expired, closed only when drained, a crash loses only what is in flight |
| `Store` | `event` channels, `Store.Run` with `writeBatch`, retention and archive as a step, the collectors as producers, `main` with cancel, exit, kill and restart; refines `EventLog` |
| `Archive` | `RunArchiver`, the request queue, `ArchiveMonthDB` file by file, `CleanStaleTmp`, with the retention and late rows around it |
| `Conn` | `runConnChannel`, `runConntrackLoop`, `runConntrackOnce`, `checkFreshness`, `checkOverrun`, `runFallbackConnListener`, against the kernel and the library |
| `Honeypot` | `Run`, `serveProto`, `acceptConn`, `handleConn`, the limiter with its sweep |
| `HoneypotProtos` | the ten protocol handlers as automata |
| `LogStream` | `Run` and `runRestarted` of the log readers, with child, pipe and channel |
| `Kmsg` | `kmsgReadLoop` against the ring of the kernel |
| `SshLearn` | `RunSSHLearner`, the filter it shares with the parser of the firewall log, `ShouldDrop` |
| `Banned` | `QueryBanned` over both schemas of fail2ban, `refreshBanned` |
| `GeoIP` | `RunUpdater`, `Reader.Load`, `ReplaceFrom` |
| `DiskMon` | the checks and reports of the disk monitor |
| `WsHub` | the hub of the WebSocket push with its limit, the handler of each connection with read and write loop |
| `Push` | the cursors of `PushLoop` over tables whose ids are given out again |
| `Requests` | the scheduler of the page and the limits of the API it meets |
| `Services` | `LogStream`, `Kmsg`, `SshLearn`, `Banned`, `GeoIP`, `DiskMon`, `WsHub` and `Push` side by side |
| `StoreProofs`, `StoreOrderProofs`, `StoreRefinementProofs`, `ArchiveProofs`, `HoneypotProofs`, `ConnProofs` | theorems about the module of the name |
| `ApiProofs` | theorems about `WsHub`, `Push` and `Requests` |
| `ServicesProofs` | theorems about `LogStream`, `Kmsg`, `SshLearn`, `Banned`, `GeoIP`, `DiskMon` and `Services` |
| `MCStore`, `MCArchive`, `MCConn`, `MCHoneypot`, `MCRequests`, `MCServices` | constants for TLC |

### Store

`pc` is the position of `Run`: `boot` (after `NewStore`), `select`, `flush` and
`chmod` (inside and after `writeBatch`), `system` (a system event in a
transaction of its own), `wait` (`producers.Wait`), `drain`, `clean` (between
two DELETEs), `archive`, `closed`, and `off` when there is no process. `ret`
says to whom `drainInto` and `flush` return: the loop, the yield of the
retention or the exit. A producer is `unborn`, `running`, `left` or `exited`,
and `offer` holds the event it is blocked on; the honeypot's producer drops
instead. The kinds of `Loose` are sent by a goroutine that is in no WaitGroup:
`runConntrackOnce` returns on `ctx.Done` whatever its hook does (conn.go:257),
and the hook may be in its select, or be called once more, when everybody has
stopped waiting (`left`). It may still send after the drain, until it takes the
end of the context (`AbandonSend`, `HookEnds`) or the process exits. `Loose` is
empty in mode fallback. `chan`, `pending`, `table` are the channels, the batch
and the committed rows. The batch of the code is one slice; each kind has a
table of its own, so `pending` keeps the order within a kind only. An event
carries its number and its time stamp; the stamp of a kind in `SourceStamped`
comes from a log line and may be old or zero.

Losses are modelled where they happen: `ReportSys` and `Emit` drop on a full
channel, `AbandonSend` gives up at a cancelled context, `FlushFails`,
`SystemFails` and `RetentionFatal` end the process as main does, `Crash` and
`ForceExit` end it anywhere; a restart begins with empty channels and the
tables as they are. Services are not in the WaitGroup, so a report after the
drain stays in a channel nobody reads; `ClosedIsDurable` and `EventLog` are
therefore about the data kinds. `settled` remembers what each channel had
accepted when `producers.Wait` returned. `DrainIsComplete`, what `Run` does
achieve, says that all of it is stored in a closed database, and that nothing
else is in a channel but what a hook has sent since. `ClosedIsDurable`, what
store.go:3-4 promises, says that the channels are empty; it is proved for an
empty `Loose` and a context that does not end too early, and
`MCStoreEarlyCancel` shows what happens when it does.

`Log` is `EventLog` with everything between the acceptance by a channel and the
commit as `inflight`, and the rows without their rowids as `stored`. It lets
kinds outside `Drained` (the system kind and those of `Loose`) be accepted after
`Close` and be in flight when it closes.

### Archive

Time is counted in months and a row has a month and a table. `pc` walks through
`ArchiveMonthDB`; `tmpDB`, `tmpGZ` and `final` are the three files of a month,
a bag of rows each, because the copied tables have no primary key and rows
exported twice into a leftover file would be there twice. `StepFails` is an
error of any step, `Crash` and `Restart` a death and `CleanStaleTmp`,
`LoseCopy` an operator who removes a copy (R-08 in the code), `Insert` and
`Expire` what the writer does to the source between two requests. `Verify`
compares the numbers of rows; the comparison of `MAX(ts)` adds nothing at this
grain. At each tick `RunArchiver` offers `Window` candidates, youngest first, to
a queue of `ReqCap` places; the code has 24 and 8.

### Conn

`loop` is where `runConnChannel` is: `starting`, `listening`, `verdict` and
`baseline` (inside a check of freshness), `backoff`, `fallback`, `stopped`. The
kernel and go-conntrack are external: a socket (`sock`) has groups, a buffer, a
queue and a count of drops; an overflow ends the receive goroutine, whose place
is `hook`. A `Register` that fails in the middle leaves its socket open, and
`verifyGroups` reads `/proc/net/netlink` per process, so `leaked` groups count
as joined there and deliver nothing. A run does not wait for its hook when it
returns (`RunOver`, `Stops`, and `CalledEarly` for a subscription that is not
effective): a hook that holds an event, or is about to be called with one, goes
on as one of the `late` ones, which send into the same channel or see the end of
the context. `checkFreshness` is three steps, its three reads: `loadEvts`
(conn.go:274), `staleVerdict` (276) and `newBaseline` (287). The kernel and the
hook run between them, so the count of the verdict, that of the baseline and the
loaded `evts` need not belong together; `moved` says that `evts` has advanced
since it was loaded. `checkOverrun` keeps its baseline in `first` and
`lastDrops` while `counter` is `overrunTotal` of main, which lives on over
restarts. `starts` counts failed starts independently of the code's `fails`. In
the fallback, `prev` is the previous snapshot of ss and `todo` the events that
are still to be sent. An event has a five-tuple and NEW, UPDATE or DESTROY but
no state (`approxEvent`), so `view`, what a reader can know, is the set of
five-tuples that are there.

### Honeypot and HoneypotProtos

An accept loop is at `accept`, `govern` (the connection in hand waits for
`allow` and a slot), `spawn` or `gone`; a connection goes through `queued`,
`hand`, `slot`, `started`, `session`, `closing`. `sem`, `connWG` and `active`
are the semaphore, the WaitGroup and the counter of the API, each changed at
its own line: between two of them the others run. The limiter is `count` and
`window` of each source, with the sweep after every `SweepEvery` calls that
first drops old buckets and then, above `MaxBuckets`, all of them. `granted`
counts what a source was let in for within its minute and is not cleared with
the table; `forgot` marks the minute of a source in which the table was cleared,
and `MinuteEnds` ends it. A connection's source is forgotten once `allow` has
let it in. A minute and the deadline of a connection may end at
any time. A protocol handler is a set
of rules over classes of messages: what it reads in a step, whether it records
a credential, where it goes. What is not in a rule ends the handler.

### LogStream, Kmsg, SshLearn, Banned, GeoIP, DiskMon

- `LogStream`: a line is its number in the log. `child`, `copied` and `pipe`
  are the process and its stdout, `loop` the goroutine: `spawn`, `scan`,
  `line` (in the callback), `wait` (`cmd.Wait`), `ended`, `pause`,
  `returned`. Ages of the three report limiters are counted in units of the
  first backoff. A child reads the log from its end (`-n 0`), so what is
  written while none runs is lost; a `huge` line stops the scanner.
- `Kmsg`: records are sequence numbers, the ring holds the last `RingSize`. The
  history is drained to the first EAGAIN while the kernel goes on writing.
- `SshLearn`: the filter is handed to the learner before the parser copies it;
  a slot is an `atomic.Pointer` that both copies share. Queries fail, and the
  old list stays.
- `Banned`: `schema` says which of the tables of fail2ban are there and which
  columns they have; the statements of `QueryBanned` are steps, between which
  fail2ban bans, unbans or is killed.
- `GeoIP`: files `path`, `bak`, `tmp` and the state file with its ETag. Each
  file operation can fail or be the last before a death; the files are seen by
  the next start.
- `DiskMon`: a check per unit of time, over usages at and next to each
  threshold; a level has an age of its last report.

### WsHub and Push

`at` is the place of a handler `hWS`: `upgrade` (slot taken, no connection
yet), `select` (in the write loop), `write`. `reader` and `done` are the read
loop and the channel it closes. A frame is its number in the order of
`broadcast`; `joined`, `inHand` and `seen` say which broadcasts a client has
behind it. `remove` closes `send` under the mutex under which `broadcast`
sends, so no send meets a closed channel while `clients` is right, which is
what `SlotPerHandler` says. The checks of the origin before `tryAdd` change no
state and are left out.

In `Push`, a row has an id, a kind, its place `n` in the order of insertion and
`again`, whether its id had belonged to a row that is gone. The tables have no
AUTOINCREMENT, so `NextId` is the highest id present plus one. A tick counts
the two connection types in one query each (`FrameConnStats`: the cursor
becomes `MAX(id)`, also when that is lower) and then reads system events above
the third cursor (`SendSystem`, at most `SysLimit`); either may fail.

### Requests

A request belongs to the sequence number of the view that asked for it. The page
side is `createFetchJSONScheduler`: `queue` (the array of the code as an order:
the pairs of a request and itself or one ahead of it), `active`, `activeCount`,
the gap between heavy requests, the cool-down after 429 and the one wake timer;
`owed` holds the requests whose callbacks have not been called. The server side
is `limitAPI` (refuses at any moment), `limitHeavy` (`tokens`) and `limitStats`
(the slots held by requests of this page, by those it has given up, `elsewhere`,
and, when `public`, by other clients). `Tick` is a second.

## Runs

| Run | Asks | Result |
|---|---|---|
| `MCStoreShutdown` | shutdown with a hook that outlives its collector, failing flush, crash, restart on the same database: `DrainIsComplete`, `ImplementsEventLog` | holds |
| `MCStoreRetention` | cleanup with yields and failures, archive requests, rowid reuse: `WriterInv` (no event in two places, rows in order, the loop below its threshold), `ImplementsEventLog` | holds |
| `MCStoreLive` | `ShutdownTerminates`, `EventuallyStored` under fairness | holds |
| `MCStoreEarlyCancel` | `ClosedIsDurable` when the context ends while main still starts collectors | violated: `Run`'s `Wait` sees no collector yet (main.go:140, store.go:364) |
| `MCArchive` | two failures, a lost copy, late rows, two candidates for one place: `ArchiveInv`, `RecordedHasCopy`, `CopiesAppearWhole`, `YoungestArchived` | holds |
| `MCArchiveSurvival` | does every row that was in a copy survive (技术方案.md:656, 1030) | violated: a complete copy without a record is deleted (archive.go:113) |
| `MCConn` | failed, partial and unverified subscriptions, overflows, restarts, hooks left over, events between the reads of a check: `ConnInv`, `CountedWereDropped`, `WarningsHaveACause`; the differences of snapshots, sent one by one: `PresenceIsReplayed`; under fairness `DegradesWhenDenied` and `ChannelStops` | holds |
| `MCHoneypot` | slots, records, the limiter with its sweep, and shutdown with every protocol: `HoneypotInv`, `LimitUnlessCleared`, `NothingAfterRun`, `RunReturns` | holds |
| `MCHoneypotLogin` | `LoginRecorded`: is a complete login recorded (技术方案.md:452) | violated: the postgres handler reads four bytes too many (postgres.go:61-66) |
| `MCServices` | the log readers (`LinesComeOnce`, `NoEventDropped`, `EndsAreReported`, `ReadersReturn`), the white list (`FilterInv`, `LoginLearned`), the bans (`BannedInv`, `BanListed`), the library (`GeoInv`, `NewVersionArrives`), the disk (`DiskInv`), the hub (`SlotPerHandler`, `FramesInOrder`, `SlotsComeBack`), the push loop (`NoneSkipped`, `CountedOnce`, `EveryRowPushed`) | holds |
| `MCServicesHuge` | `StreamIsRestarted` after a line of more than 1 MB (logstream.go:43, 63) | violated: `cmd.Wait` waits for a child nobody stops (logstream.go:45) |
| `MCRequests` | the page against the limits: `RequestsInv`, `RefusedForOthers`, `EveryRequestAnswered` | holds |

The early cancel needs a signal in the milliseconds in which main starts its
goroutines. The yield of the retention is harmless as far as the model shows:
`WriterInv` and `ImplementsEventLog` hold with it, although the batch may grow
past `batch_size` there. The postgres handler works against its own test, which
sends a length without the four bytes.

Some exceptions are written into the properties. Each is a limit of the code,
and the first four are at odds with its comments:

- `DrainIsComplete` excuses what a hook of conntrack sends after the wait. The
  hook is in no WaitGroup, `runConntrackOnce` returns without it (conn.go:257),
  and Go chooses at random between the two ready cases of its select
  (conn.go:213): when it chooses the sink after the drain, one event stays in a
  channel nobody reads, although store.go:3-4 promises that none is lost and
  store.go:294 that nobody sends any more.
- `WarningsHaveACause` excuses an event that was delivered between the load of
  `evts` (conn.go:274) and the verdict (276). The warning then says that there
  was no event, and there was one. It costs a line in the log.
- `LimitUnlessCleared` excuses a table that was cleared. With more than
  `MaxBuckets` open windows `sweep` drops them all (ratelimit.go:76), and a
  source at its limit is let in again within its minute, although ratelimit.go:9
  excludes it and ratelimit.go:57 calls the sweep harmless.
- `YoungestArchived` is about the candidates the queue has room for, and assumes
  that the writer has emptied it when a tick comes, again and again. An older
  month can be refused at every tick, because the younger ones are offered again
  whether they are on record or not (archive.go:348); archive.go:352 leaves it
  to the next cycle. It takes more candidates with data than places; in steady
  operation one month a month becomes due, and it is the first to be offered.
- `NoneSkipped` excuses a row whose id was given out `again`: after the
  retention has deleted the highest row, a new row can lie at or below a cursor.
- `NewVersionArrives` excuses a library removed or damaged by somebody else: its
  ETag is still on record, so it returns only with the next version.
- `BannedInv` promises exactness only with the times of `bips`; with `bans`
  alone rows of a killed fail2ban stay listed.
- `NoEventDropped` is about lines a running child has copied.
- `RefusedForOthers` excuses slots held by requests the page has timed out.

### Bounds and why they are enough

- `Store`: channels of 1 or 2 places and batches of 2: a channel is full, a
  batch is full in the select, in the drain and in the yield, and more events
  come than fit in both. Two data kinds, a blocking and a dropping producer,
  suffice for the order of polls in `Drain` to matter; `MCStoreLive` uses one
  kind to keep the liveness check small, so the writer faces two channels.
  `DeleteLimit` 1: a table with two old rows needs two DELETEs with a yield
  between them. `MaxTime` 3 with one day of retention: rows expire while others
  stay. One fault, and two boots in `MCStoreShutdown`, where the blocking kind
  is `Loose`; in the other passing runs `Loose` is empty (mode fallback), which
  keeps them small.
- `Archive`: two rows of one month in two tables and one row of the next, so
  an export can be half done and months can be confused; two failures let an
  attempt meet what two earlier ones have left. Two candidates (`Window` 2) and
  one place (`ReqCap` 1): the queue refuses one at every tick unless the writer
  has taken the other in between. In the last month the ticks go on for ever;
  they stand for the hourly ticks of as many first days as a month stays a
  candidate.
- `Conn`: two failed starts end the main channel, the buffer doubles once and
  reaches its limit, two events of the kernel overflow a buffer of one. The drop
  counters can go wrong only over a restart; restarts are not bounded.
  `CalledEarly` takes an event too, so that two bound the hooks left over. A
  channel that begins in mode fallback takes three snapshots (`MaxSnaps`) of two
  five-tuples in two states, which give every difference, its repetition and a
  send that stops in the middle; one that begins with conntrack takes none,
  since the fallback does not depend on what came before. How long a backoff is,
  is left out.
- `Honeypot`: two listeners over every protocol (each with RDP), two clients and
  one slot: a connection waits for a slot, another for its loop. Two sources
  against a limit of one connection in a minute and a table of one bucket, swept
  at every call: a sweep finds a window that is over, one that is open, or more
  than the table may hold, and clears it. Larger limits and tables are left to
  the theorems.
- `MCServices`: the modules share no variable, so a behaviour of `Services` runs
  the one in `focus`, and TLC explores the sum of the state spaces and not the
  product. Four lines of every kind that matters, three deaths and a backoff
  that reaches its maximum; a ring of two records that is overrun; two
  addresses; usages on both sides of each threshold; three versions and three
  failures, so that a failed update, its rollback and a death meet; for the hub
  two clients and one slot (both of its invariants are proved for any number),
  one frame of buffer, two frames: a client is refused, a frame is dropped, and
  a name is used again with a frame left in the old buffer; three rows and one
  failing query in `Push`: an id is given out again below a cursor.
- `Requests`: three endpoints (heavy, statistics, both), two slots, a bucket of
  two and one change of view; a behaviour asks for one endpoint in the old view
  and all in the new one, or for two and two.

`CHECK_DEADLOCK FALSE` stands where the system really stops: the context has
ended and everything has returned, or the bounds are used up.

### Fairness

No module has fairness for faults, for what users, clients, the kernel or other
programs do, or for `Cancel`.

- `Store`: the writer goroutine never stops in the middle of a branch (weak
  fairness of `Writer`); Go's `select` chooses at random among ready cases, so
  one that is ready again and again is taken (strong fairness of its cases and
  of a blocked send); a collector returns after its context has ended, which
  `ReadersReturn`, `ChannelStops` and `RunReturns` check for the readers, the
  connection channel and the honeypot.
- `Archive`: the ticker fires every hour and `RunArchiver` never blocks
  (`Check`, `Request`); a dead process is restarted (systemd,
  `Restart=on-failure`); the writer goes on within `ArchiveMonthDB` and takes a
  request that is there again and again (strong fairness, a case of the select).
- `Conn`: a start ends, a backoff ends, a check of freshness that has
  begun goes on (`Start`, `BackoffEnds`, `checkFreshness`); the select of a run
  takes the end of the context when it is ready again and again (strong fairness
  of `Stops`, since the tickers make other cases ready in between); a hook left
  over, in its select or about to be in it, sees the end of the context
  (`LateStops`). Nothing makes the writer take an event: `ChannelStops` holds
  with a full sink.
- `Honeypot`: goroutines run, and every connection has a deadline
  (`HandlerEnds`); nothing makes a client speak.
- `LogStream`: the collector's goroutine runs, `CommandContext` kills the child
  of a cancelled context, time passes. The child itself may do nothing for
  ever, which is what `MCServicesHuge` shows. `Kmsg`, `SshLearn`, `Banned`,
  `GeoIP`: the loop of each runs; its timers fire.
- `WsHub`: an upgrade ends within 5 s and a write within 10 s, with success or
  not (weak fairness of each pair); the select of the write loop picks at
  random, so `done` is taken when it is ready again and again (strong fairness
  of `DoneSeen`). Nothing makes a read fail: there is no read deadline, and
  `SlotsComeBack` is about connections whose read loop has ended. `Push`: the
  ticker of one second (`PushLoop`).
- `Requests`: time passes, the wake timer fires, a fetch and its handler end
  (they have deadlines). Nobody has to ask again.

## Proofs

Checked by TLAPS for all values of the constants that satisfy the assumptions
(the `ASSUME`s of the modules: capacities, sizes and intervals are positive,
connections, sources and endpoints are finitely many, the drain polls every
kind, the retention has at least one table besides the credentials, marks of
missing files are no files, the thresholds of the disk are percentages above 0
as `validateDisk` has them, the heavy bucket holds at least two tokens: it holds
6). Every safety invariant and every action property that a passing run checks
is stated by a theorem.

- `StoreProofs!TypeCorrect`: `Spec => []TypeOK`. One lemma for each group
  of operators, one step for each action.
- `StoreProofs!ShutdownLosesNothing`: `Spec => []DrainIsComplete` when
  `EarlyCancel = FALSE`, and `ShutdownIsOrderly`: `Spec => []ShutdownInv`.
  `DrainIsComplete` is not inductive: `ShutdownInv` adds
  that the context ends only after every collector has started, that the exit
  is entered only when all have returned (`ExitAfterProducers`), that only the
  collectors of `Loose` kinds leave a hook behind (`LeftAreLoose`), that the
  channels polled since the last event found hold only what hooks have sent
  since the wait (`PolledAreEmpty`, `DrainedAreEmpty`; nothing, for a kind that
  is not `Loose`) and that `nInBatch = 0` means an empty batch
  (`BatchIsCounted`), without which the last flush could be skipped. The
  assumption is needed: the step of `Cancel` fails without it, as
  `MCStoreEarlyCancel` shows. `NothingLostWithoutHooks`:
  `Spec => []ClosedIsDurable` when moreover `Loose = {}`: a kind with a hook is
  the first exception above.
- `StoreOrderProofs!WriterKeepsOrder`: `Spec => []WriterInv`. Inductive is an
  order for each kind (`KindOrder`) over its channel, its part of the batch, the
  urgent write, its rows and the number of accepted events: channel and batch
  ascend, the batch lies below the channel, rows lie below the channel and, but
  for system events, below the batch; a system event may overtake the batch,
  but is not in it. The six ways to move an event (accept, enqueue, take
  urgently, commit, delete, die) are lemmas without state. That an insert
  continues above every rowid needs the rowids to have a bound; the largest is
  found by the well-foundedness of the numbers. `CountInv` adds where the loop
  comes to with an empty batch.
- `StoreRefinementProofs!StoreImplementsEventLog`: `Spec => ImplementsEventLog`
  when `EarlyCancel = FALSE`. Under the two invariants above and `ShutdownInv`,
  each step maps to one of the log: a send is an `Accept`, a commit a `Commit`
  (the batch lies below what stays), a DELETE an `Expire`, the end of `Run` a
  `Close` (its guard asks for empty channels of the kinds that are not `Loose`),
  a send of a hook after it an `Accept` of a kind outside `Drained`, any death a
  `Stop`; what moves between channel and batch stutters.
  `TimeInv` has what is left: no offer is from the future, the urgent write is
  empty outside its branch, and the cutoff of the segment in work is a retention
  period old (`CutoffIsPast`, which is why the two segments need a cutoff each).
- `ArchiveProofs!TypeCorrect`, `AttemptsAreConsistent`, `RecordsHaveCopies`,
  `CopiesAreWhole`: `Spec => []TypeOK`, `[]ArchiveInv`, `[]RecordedHasCopy` and
  `CopiesAppearWhole`. The inductive invariant is
  `TypeOK /\ AttemptInv /\ RecordedHasCopy`; `AttemptInv` says which file holds
  what at each step of an attempt: the export starts from a fresh file, holds
  exactly the tables done, and is complete when gzip begins and when the file
  is renamed. The proof does not use the count of `Verify`: without faults
  inside SQLite the check can never fail.
- `ApiProofs!TypeCorrect`, `SlotsBelongToHandlers`, `FramesComeInOrder`:
  `Spec => []TypeOK` (with the limit: `tryAdd` counts and inserts in one step),
  `[]SlotPerHandler` and `[]FramesInOrder`. The last needs `FrameInv`: the
  buffer increases and lies above the frame in hand, that above the frame seen,
  that above the moment of joining.
- `ApiProofs!PushTypeCorrect`, `NoRowIsSkipped`, `ToldOnce`:
  `PushSpec => []PushTypeOK`, `[]NoneSkipped` and `CountedOnce`. The inductive
  invariant adds to `PushTypeOK` and `NoneSkipped` that numbers belong to one
  row (`Numbered`) and that a row told is at or below its cursor, or had its id
  again (`ToldIsPassed`): so a row above a cursor has not been told. `MaxId` is
  a `CHOOSE`; that it is the greatest id follows from the well-foundedness of
  the numbers below the bound.
- `ApiProofs!CallbacksArePending`, `RefusalsComeFromOthers`:
  `RequestsSpec => []RequestsInv` and `RefusedForOthers`. `RequestsIInv` says
  that the queue is an order in which each request is once (`PageOK`); that what
  waits in it has a timer or no free place (`QueueIsServed`, a part of
  `RequestsInv` and the safety half of `EveryRequestAnswered`); that the
  network has nothing of a request that can still be asked for, and no request
  is given up before it has arrived (`NetOK`); and it keeps an account of the
  bucket (`HeavyOK`): at most one heavy request that left in this second and one
  that left in the last are still on their way, and without other clients there
  is a token for each of them and one for the next, counting the one that the
  end of the gap brings. With a bucket of one token a slow request and the next
  would meet one token, which is why the assumption asks for two. That `pump`
  starts as many as there are free places, or all that are ready, is
  `FirstBound` (an order of at least `n` has exactly `n` first ones, by
  `Numbering`), and that it starts one heavy request at a time `OneHeavyReady`.
- `HoneypotProofs!CountersCount`, `RunLeavesNothing`, `LimitHoldsUnlessCleared`,
  `LimitHolds`, `RecordsAreLimited`: `Spec => []SlotAccounting`,
  `[]NothingAfterRun`, `[]LimitUnlessCleared`, `[]WithinWindowLimit` and
  `[]HoneypotInv`. `LimitHolds` assumes that there are no more sources than the
  table may hold, so that it is never cleared. The first two share an invariant:
  `HandInv` ties an accept loop to the connection in its hand (a loop that holds
  none cannot leave one behind), and `RunInv` says how far `Run` has come
  (closed listeners have no backlog, the loops are gone before the connections
  are waited for). A connection that moves is counted by one lemma for all three
  counters (`MoveIsCounted`, `CountersFollow`). When `connWG` is 0 no handler is
  left, when the loops are gone none holds a connection: so nothing is left. For
  the limit, `LimitInv` says that, unless the table was cleared in the minute of
  a source, what the minute has granted is what its bucket counts, and that only
  an open window has granted anything; a sweep takes no open window unless it
  clears all. That the table is not cleared while it has a place for every
  source is a matter of cardinalities. For the records, `RulesOfHandlers` goes
  through the ten automata once: a rule that records goes on in the handlers
  that count their attempts, and ends, or listens only, in the others. `Bounded`
  relates the records of a connection to its attempts or to its step, and a
  message preserves it (`MessageIsBounded`). `HoneypotInv` is the conjunction of
  the three invariants.
- `ConnProofs!GivesUpAfterFailures`, `CounterIsHonest`, `NoWarningWithoutCause`,
  `ReplayGivesPresence`: `Spec => []ConnInv`, `[]CountedWereDropped`,
  `WarningsHaveACause` and `[]PresenceIsReplayed`. `LoopInv` says that `fails`
  is the number of starts failed in a row wherever the loop uses it; `DropsInv`
  that what the next tick adds to the counter has been dropped and not counted;
  `WarnInv` that when the table is not what it was at the last check and no
  event was seen, the event waits, was dropped, or was not subscribed to: this
  relates the baseline of one check to all that happened since, and is suspended
  between the load of `evts` and the new count. For the replay, `DiffInv` says
  that there is one event for a five-tuple and which of them are DESTROY.

- `ServicesProofs!DiskLevelIsTold`: `DiskSpec => []DiskInv`. `DiskIInv` adds
  that the age of the last report of the present level is at least the silence,
  so that the limit of that level cannot hold a report back for longer.
- `ServicesProofs!WhiteListIsEarned`: `LearnSpec => []FilterInv`. `LearnIInv`
  says that every list in a slot is earned, and that nobody learns before the
  filter has been published, so that the parser copies the slot the learner
  writes to.
- `ServicesProofs!BannedListIsTrue`: `BannedSpec => []BannedInv`, with the rows
  as what fail2ban enforces (one of an address, and those whose time has not run
  out) and the count of the last list as the one reported.
- `ServicesProofs!LibraryIsKept`: `GeoSpec => []GeoInv`. `GeoIInv` says at each
  step of the replacement which of the three files is whole: what is renamed has
  passed the probe, and until it opens the old one is in the `.bak`.
- `ServicesProofs!RecordsComeOnce`: `KmsgSpec => []NoReplayNoGap`. Inductive
  with the position of the reader, which is behind the history by the number of
  records delivered.
- `ServicesProofs!StreamInOrder`, `EndsAreTold`, `EventsAreKept`: `LogSpec =>
  []LogInv`, `EndsAreReported` and `NoEventDropped`. `LogIInv` says that what
  was sent, the line in hand, the lines in the pipe and those not yet read
  follow each other in the log, also over a restart; and that the two limits a
  report of an end has to pass, that of `runRestarted` and that of the rate
  limiter, have the same age.
- `ServicesProofs!ServicesRunAsAlone`: `ServicesSpec` implies the specification
  of each of its eight services, so that their theorems hold of the composition
  `MCServices` runs; `LinesComeInOrder` is `ServicesSpec => []LinesComeOnce`.

`WithinWindowLimit`, what ratelimit.go:9 says, is proved only where the table is
never cleared, and `ClosedIsDurable` where there is no hook; no passing run has
them. Type correctness of `Store`, `Archive`, `WsHub` and `Push`, and
`ShutdownInv`, are not repeated as invariants of the runs, and `SlotAccounting`
is a part of `HoneypotInv`, `LogInv` and `NoReplayNoGap` are the parts of
`LinesComeOnce`; the other theorems state properties a run checks too.

Only model-checked: liveness (TLAPS has no ENABLED and no fairness here):
`ShutdownTerminates`, `EventuallyStored`, `YoungestArchived`,
`DegradesWhenDenied`, `ChannelStops`, `RunReturns`, `ReadersReturn`,
`LoginLearned`, `BanListed`, `NewVersionArrives`, `SlotsComeBack`,
`EveryRowPushed`, `EveryRequestAnswered`.

## Not modelled

- SQL text, queries and exports of the API, JSON and wire formats: functions of
  the tables without state. Parsing of log lines, of ss and of `/proc`; the
  bytes of the ten honeypot dialogues, of which only classes of messages remain.
- `config` (read once before anything runs), `out` (debugging), `util`, `dbdsn`,
  `diskutil`, tools, scripts, deploy; rendering and the WebSocket client of the
  page; file permissions.
- The calendar: months have one length and no days, so neither
  `nextRetentionTime`, `monthly_hour` nor the bound `copy_after_days + 31` is
  checked.
- A collector offers one event at a time, and so does a hook that is left over,
  in `Store`; several hooks left over by restarts are in `Conn` only, where they
  are told apart by nothing but their number.
- What a page shows after the newest frame was dropped (ws.go:78): `WsHub` has
  the drop, but frames have no content.
- The growth of the receive buffer in `checkOverrun` is lost at a restart
  (conn.go:264): the model has both sizes, no property says which is wanted.
- What `database/sql` does between the learner, the API and the writer on one
  connection.

## Plan

1. Proofs: the safety half of the liveness properties: what holds at each
   moment of a wait. `QueueIsServed` says it of the page; next, that a collector
   that waits for a place in its channel always sees the end of the context.
2. A calendar module: `nextRetentionTime`, `monthly_hour`, the bound
   `copy_after_days + 31`, against a definition in days.
3. `out` as another consumer of the channels, and main with services started by
   services.
