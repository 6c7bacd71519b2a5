------------------------------- MODULE Kmsg -------------------------------
(***************************************************************************)
(* kmsgReadLoop (internal/fw/fw_kmsg_linux.go) against the ring of the     *)
(* kernel, which drops its oldest records and tells a reader it has        *)
(* overtaken (EPIPE).  A record is its SEQUENCE.                           *)
(***************************************************************************)
EXTENDS Naturals, Sequences

CONSTANTS RingSize,   \* records the ring of the kernel holds
          MaxSeq      \* bound: the last SEQUENCE

ASSUME KmsgAssumption == {RingSize, MaxSeq} \subseteq Nat \ {0}

VARIABLES newest,     \* the last record of the kernel
          position,   \* the record this descriptor reads next
          kmsgAt,     \* where kmsgReadLoop is
          drainSeq, record,
          delivered,  \* records handed to the channel of events
          tailAtStart,\* the last record when the history was drained
          kmsgCtx     \* the context has not ended

kmsgVars == <<newest, position, kmsgAt, drainSeq, record, delivered, tailAtStart, kmsgCtx>>

Oldest == IF newest > RingSize THEN newest - RingSize + 1 ELSE 1
Overrun == position < Oldest
Again == position > newest     \* EAGAIN

KmsgInit == /\ newest = 2 /\ position = Oldest /\ kmsgAt = "drain" /\ drainSeq = 0
            /\ record = 0 /\ delivered = <<>> /\ tailAtStart = MaxSeq /\ kmsgCtx = TRUE

KernelLogs == /\ newest < MaxSeq /\ newest' = newest + 1
              /\ UNCHANGED <<position, kmsgAt, drainSeq, record, delivered, tailAtStart, kmsgCtx>>

EndKmsg == /\ kmsgCtx /\ kmsgCtx' = FALSE
           /\ UNCHANGED <<newest, position, kmsgAt, drainSeq, record, delivered, tailAtStart>>

\* Phase one reads the history away and remembers its last SEQUENCE.
Drain ==
    /\ kmsgAt = "drain"
    /\ \/ ~kmsgCtx /\ kmsgAt' = "returned" /\ UNCHANGED <<position, drainSeq, tailAtStart>>
       \/ /\ Again /\ kmsgAt' = "live" /\ tailAtStart' = newest
          /\ UNCHANGED <<position, drainSeq>>
       \/ Overrun /\ kmsgAt' = "failed" /\ UNCHANGED <<position, drainSeq, tailAtStart>>
       \/ /\ ~Overrun /\ ~Again
          /\ drainSeq' = position /\ position' = position + 1
          /\ UNCHANGED <<kmsgAt, tailAtStart>>
    /\ UNCHANGED <<newest, record, delivered, kmsgCtx>>

\* The context is looked at only when there is nothing to read.
Idle100ms == /\ kmsgAt = "live" /\ Again /\ ~kmsgCtx
             /\ kmsgAt' = "returned"
             /\ UNCHANGED <<newest, position, drainSeq, record, delivered, tailAtStart, kmsgCtx>>

\* Any other error than EAGAIN ends the loop, an overrun too.
ReadFailsLive == /\ kmsgAt = "live" /\ Overrun
                 /\ kmsgAt' = IF kmsgCtx THEN "failed" ELSE "returned"
                 /\ UNCHANGED <<newest, position, drainSeq, record, delivered,
                                tailAtStart, kmsgCtx>>

ReadLive == /\ kmsgAt = "live" /\ ~Again /\ ~Overrun
            /\ position' = position + 1
            /\ IF position <= drainSeq THEN UNCHANGED <<kmsgAt, record>>
                                       ELSE kmsgAt' = "line" /\ record' = position
            /\ UNCHANGED <<newest, drainSeq, delivered, tailAtStart, kmsgCtx>>

\* onLine: the send waits for room or for the end of the context.
OnLine == /\ kmsgAt = "line" /\ kmsgAt' = "live" /\ record' = 0
          /\ \/ delivered' = Append(delivered, record)
             \/ ~kmsgCtx /\ UNCHANGED delivered
          /\ UNCHANGED <<newest, position, drainSeq, tailAtStart, kmsgCtx>>

KmsgLoop == Drain \/ Idle100ms \/ ReadFailsLive \/ ReadLive \/ OnLine
KmsgNext == KernelLogs \/ EndKmsg \/ KmsgLoop

KmsgSpec == KmsgInit /\ [][KmsgNext]_kmsgVars

(* Every record of after the start comes out once and in order, none of the *)
(* history does (N messages make N events), up to the first overrun.       *)
NoReplayNoGap == kmsgCtx => \A i \in DOMAIN delivered : delivered[i] = tailAtStart + i

(* The loop ends with the context: it notices at the next EAGAIN (D-08).    *)
KmsgReturns == ~kmsgCtx ~> kmsgAt \in {"returned", "failed"}
=============================================================================
