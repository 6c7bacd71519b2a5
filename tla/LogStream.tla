----------------------------- MODULE LogStream -----------------------------
(***************************************************************************)
(* A collector that reads a log through a child process (tail -F -n 0,     *)
(* journalctl -f -n 0): the consuming loop Run and the restarting loop     *)
(* runRestarted of internal/logstream/logstream.go, with the callbacks of  *)
(* the parsers of ssh, fw and f2b.                                         *)
(*                                                                         *)
(* A line is its number in the log.  The child copies lines into the pipe, *)
(* the scanner takes them out.  Time is counted in units of the first      *)
(* backoff (2 s); ages are kept up to ReportEvery.                         *)
(***************************************************************************)
EXTENDS Naturals, Sequences

CONSTANTS
    LineKinds,    \* what each line of the log is, a sequence over Kinds
    MaxBackoff,   \* restartMaxBackoff (60 s)
    ReportEvery,  \* reportInterval and the limit of the RateLimiter (1 min)
    PipeCap,      \* lines the pipe holds
    SinkCap,      \* capacity of the channel of events
    MaxDeaths     \* bound: ends of a child that nobody asked for

\* "noise" is no line of ours, "odd" has the prefix but does not parse, "own"
\* is parsed and filtered, "event" is sent, "huge" is longer than 1 MB.
LogKinds == {"noise", "odd", "own", "event", "huge"}

ASSUME LogAssumption ==
    /\ LineKinds \in Seq(LogKinds)
    /\ {MaxBackoff, ReportEvery, PipeCap, SinkCap} \subseteq Nat \ {0}
    /\ MaxDeaths \in Nat

VARIABLES
    written,   \* lines written to the log
    child,     \* the child process
    copied,    \* the last line the child has read, 0 when there is no child
    pipe,      \* stdout of the child
    loop,      \* where the goroutine of the collector is
    line,      \* the line in the callback, 0: none
    backoff,   \* backoff of runRestarted
    waited,    \* time spent in the backoff
    lastReport,\* age of lastReport of runRestarted
    restartAge,\* age of the last report that repRestart let through
    oddAge,    \* age of the last report that rep let through
    sink,      \* events in the channel
    sent,      \* every event sent, in order
    deaths,
    logCtx     \* the context has not ended

logVars == <<written, child, copied, pipe, loop, line, backoff, waited, lastReport,
             restartAge, oddAge, sink, sent, deaths, logCtx>>
childVars == <<child, copied, pipe>>
ageVars == <<lastReport, restartAge, oddAge>>

Kind(n) == LineKinds[n]
Older(age) == IF age < ReportEvery THEN age + 1 ELSE age

LogInit == /\ written = 0 /\ child = "none" /\ copied = 0 /\ pipe = <<>>
           /\ loop = "spawn" /\ line = 0 /\ backoff = 1 /\ waited = 0
           /\ lastReport = ReportEvery /\ restartAge = ReportEvery /\ oddAge = ReportEvery
           /\ sink = 0 /\ sent = <<>> /\ deaths = 0 /\ logCtx = TRUE

-----------------------------------------------------------------------------
(* The log, the child, the consumer of the events, time                    *)

WriteLine == /\ written < Len(LineKinds)
             /\ written' = written + 1
             /\ UNCHANGED <<childVars, loop, line, backoff, waited, ageVars, sink, sent,
                            deaths, logCtx>>

\* A full pipe blocks the child.
ChildCopies == /\ child = "running" /\ copied < written /\ Len(pipe) < PipeCap
               /\ copied' = copied + 1
               /\ pipe' = Append(pipe, copied + 1)
               /\ UNCHANGED <<written, child, loop, line, backoff, waited, ageVars, sink,
                              sent, deaths, logCtx>>

\* OOM, a failing log rotation, a broken pipe
ChildDies == /\ child = "running" /\ deaths < MaxDeaths
             /\ child' = "dead" /\ deaths' = deaths + 1
             /\ UNCHANGED <<written, copied, pipe, loop, line, backoff, waited, ageVars,
                            sink, sent, logCtx>>

\* exec.CommandContext kills the child.
ChildKilled == /\ child = "running" /\ ~logCtx
               /\ child' = "dead"
               /\ UNCHANGED <<written, copied, pipe, loop, line, backoff, waited, ageVars,
                              sink, sent, deaths, logCtx>>

Consume == /\ sink > 0 /\ sink' = sink - 1
           /\ UNCHANGED <<written, childVars, loop, line, backoff, waited, ageVars, sent,
                          deaths, logCtx>>

EndLog == /\ logCtx /\ logCtx' = FALSE
          /\ UNCHANGED <<written, childVars, loop, line, backoff, waited, ageVars, sink,
                         sent, deaths>>

TimePasses ==
    /\ \/ loop = "pause" /\ waited < backoff /\ waited' = waited + 1
       \/ loop # "pause" /\ UNCHANGED waited
    /\ lastReport' = Older(lastReport)
    /\ restartAge' = Older(restartAge) /\ oddAge' = Older(oddAge)
    /\ UNCHANGED <<written, childVars, loop, line, backoff, sink, sent, deaths, logCtx>>

-----------------------------------------------------------------------------
(* Run                                                                     *)

\* Mutant: the child starts at the beginning of the log.
SpawnFromTop == /\ loop = "spawn" /\ loop' = "scan"
                /\ child' = "running" /\ copied' = 0 /\ pipe' = <<>>
                /\ UNCHANGED <<written, line, backoff, waited, ageVars, sink, sent, deaths,
                               logCtx>>

\* StdoutPipe and Start: with -n 0 the child begins after the last line.
Spawn == /\ loop = "spawn" /\ loop' = "scan"
         /\ child' = "running" /\ copied' = written /\ pipe' = <<>>
         /\ UNCHANGED <<written, line, backoff, waited, ageVars, sink, sent, deaths, logCtx>>

SpawnFails == /\ loop = "spawn" /\ deaths < MaxDeaths
              /\ loop' = "ended" /\ deaths' = deaths + 1
              /\ UNCHANGED <<written, childVars, line, backoff, waited, ageVars, sink, sent,
                             logCtx>>

\* scanner.Scan returns a line; the scanner gives up on one of over 1 MB.
Scan == /\ loop = "scan" /\ pipe # <<>>
        /\ pipe' = Tail(pipe)
        /\ IF Kind(Head(pipe)) = "huge" THEN loop' = "wait" /\ line' = 0
                                        ELSE loop' = "line" /\ line' = Head(pipe)
        /\ UNCHANGED <<written, child, copied, backoff, waited, ageVars, sink, sent, deaths,
                       logCtx>>

\* The child is gone and the pipe is empty.
ScanEnds == /\ loop = "scan" /\ pipe = <<>> /\ child = "dead"
            /\ loop' = "wait"
            /\ UNCHANGED <<written, childVars, line, backoff, waited, ageVars, sink, sent,
                           deaths, logCtx>>

\* cmd.Wait waits for the child, and closes our end of the pipe only then.
Wait == /\ loop = "wait" /\ child = "dead"
        /\ loop' = "ended" /\ child' = "none" /\ copied' = 0 /\ pipe' = <<>>
        /\ UNCHANGED <<written, line, backoff, waited, ageVars, sink, sent, deaths, logCtx>>

-----------------------------------------------------------------------------
(* onLine: the callbacks of runJournald, runRsyslog, runJournaldKernel and *)
(* RunF2BListener with their handleLine                                    *)

NextLine == loop' = "scan" /\ line' = 0

HandleLine ==
    /\ loop = "line" /\ Kind(line) # "event"
    /\ NextLine
    /\ IF Kind(line) = "odd" /\ oddAge = ReportEvery THEN oddAge' = 0 ELSE UNCHANGED oddAge
    /\ UNCHANGED <<written, childVars, backoff, waited, lastReport, restartAge, sink, sent,
                   deaths, logCtx>>

\* Mutant: an event that does not fit into the channel is dropped.
SendOrDrop == /\ loop = "line" /\ Kind(line) = "event"
              /\ NextLine
              /\ IF sink < SinkCap THEN sink' = sink + 1 /\ sent' = Append(sent, line)
                                   ELSE UNCHANGED <<sink, sent>>
              /\ UNCHANGED <<written, childVars, backoff, waited, ageVars, deaths, logCtx>>

SendEvent == /\ loop = "line" /\ Kind(line) = "event" /\ sink < SinkCap
             /\ NextLine
             /\ sink' = sink + 1 /\ sent' = Append(sent, line)
             /\ UNCHANGED <<written, childVars, backoff, waited, ageVars, deaths, logCtx>>

\* Mutant: a plain send.
GiveUpSendNever == FALSE

\* case <-ctx.Done()
GiveUpSend == /\ loop = "line" /\ Kind(line) = "event" /\ ~logCtx
              /\ NextLine
              /\ UNCHANGED <<written, childVars, backoff, waited, ageVars, sink, sent, deaths,
                             logCtx>>

-----------------------------------------------------------------------------
(* runRestarted                                                            *)

\* Mutant: every end sets lastReport, reported or not.
ReportEndAlwaysStamps ==
    /\ lastReport' = 0
    /\ restartAge' = IF lastReport = ReportEvery THEN 0 ELSE restartAge

\* The first end, then at most one in a minute, through a limiter of its own.
ReportEnd == IF lastReport < ReportEvery THEN UNCHANGED <<lastReport, restartAge>>
             ELSE lastReport' = 0 /\ (IF restartAge = ReportEvery THEN restartAge' = 0
                                                                  ELSE UNCHANGED restartAge)

RunEnded ==
    /\ loop = "ended"
    /\ \/ ~logCtx /\ loop' = "returned" /\ UNCHANGED <<lastReport, restartAge>>
       \/ logCtx /\ loop' = "pause" /\ ReportEnd
    /\ UNCHANGED <<written, childVars, line, backoff, waited, oddAge, sink, sent, deaths, logCtx>>

Doubled == IF 2 * backoff > MaxBackoff THEN MaxBackoff ELSE 2 * backoff

Restart == /\ loop = "pause" /\ waited = backoff
           /\ loop' = "spawn" /\ waited' = 0
           /\ backoff' = Doubled
           /\ UNCHANGED <<written, childVars, line, ageVars, sink, sent, deaths, logCtx>>

PauseCancelled == /\ loop = "pause" /\ ~logCtx
                  /\ loop' = "returned" /\ waited' = 0
                  /\ UNCHANGED <<written, childVars, line, backoff, ageVars, sink, sent, deaths,
                                 logCtx>>

-----------------------------------------------------------------------------
Child == ChildCopies \/ ChildDies \/ ChildKilled
Collector == \/ Spawn \/ SpawnFails \/ Scan \/ ScanEnds \/ Wait \/ HandleLine \/ SendEvent
             \/ GiveUpSend \/ RunEnded \/ Restart \/ PauseCancelled

LogNext == WriteLine \/ Consume \/ EndLog \/ TimePasses \/ Child \/ Collector

LogSpec == LogInit /\ [][LogNext]_logVars

-----------------------------------------------------------------------------
(* Properties                                                              *)

LogTypeOK ==
    /\ written \in 0..Len(LineKinds) /\ copied \in 0..written
    /\ child \in {"none", "running", "dead"}
    /\ Len(pipe) <= PipeCap /\ \A i \in DOMAIN pipe : pipe[i] \in 1..written
    /\ loop \in {"spawn", "scan", "line", "wait", "ended", "pause", "returned"}
    /\ line \in 0..written /\ backoff \in 1..MaxBackoff /\ waited \in 0..backoff
    /\ {lastReport, restartAge, oddAge} \subseteq 0..ReportEvery
    /\ sink \in 0..SinkCap /\ deaths \in 0..MaxDeaths /\ logCtx \in BOOLEAN

(* The events come out in the order of the log and none of them twice,      *)
(* however often the child is started again (-n 0: no line is replayed).    *)
NoLineTwice == \A i, j \in DOMAIN sent : i < j => sent[i] < sent[j]

(* The stream and its child keep to their bounds, and lines to their order. *)
LogInv == LogTypeOK /\ NoLineTwice

(* What the child has taken from the log is sent or still on its way; only  *)
(* lines written while no child runs, or behind a line the scanner gives    *)
(* up on, are lost.  Stated step by step: while one child runs and the      *)
(* scanner reads, the events it copied leave the pipe only into sent, and   *)
(* none but the line it copies next joins them.                            *)
Lines(s) == {s[i] : i \in DOMAIN s}
InHand == IF line = 0 THEN {} ELSE {line}
OnTheWay == Lines(sent) \cup {n \in InHand \cup Lines(pipe) : Kind(n) = "event"}
NoEventDropped ==
    [][logCtx /\ loop \in {"scan", "line"} /\ loop' \in {"scan", "line", "wait"}
         => OnTheWay \subseteq OnTheWay' /\ OnTheWay' \subseteq OnTheWay \cup {copied'}]_logVars

(* The end of a child is reported, or was less than a minute ago (M-1: no   *)
(* collector freezes in silence): two limits of one minute in a row do not  *)
(* swallow what each of them would let through.                             *)
EndsAreReported == [][loop = "ended" /\ loop' = "pause" => restartAge' < ReportEvery]_logVars

(* When the context has ended the collector returns, although nobody reads  *)
(* the channel any more and whatever the child was doing.                   *)
CollectorReturns == ~logCtx ~> loop = "returned"

(* A scanner that no longer reads is followed by a new child, or the end.   *)
StreamIsRestarted == loop = "wait" ~> loop \in {"spawn", "returned"}
=============================================================================
