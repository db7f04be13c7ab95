----------------------------- MODULE EventQueue -----------------------------
(***************************************************************************)
(* The agent's event path: the eBPF probes write records into the kernel's *)
(* ring buffer, ReadEvents takes them out, decodes, filters and offers     *)
(* them to a bounded Go channel, and a pool of workers handles them.  A    *)
(* signal cancels the context, after which the reader stops, the workers   *)
(* drain the channel and leave, and main exits two seconds later whether   *)
(* or not they have finished.                                              *)
(*                                                                         *)
(* Events are numbered in the order in which the probes see them.          *)
(***************************************************************************)
EXTENDS Naturals, Sequences, FiniteSets

CONSTANTS
    Workers,            \* the worker goroutines of the queue
    BufSize,            \* capacity of the Go channel
    RingSize,           \* capacity of the kernel's ring buffer, in records
    MaxEvents           \* bound: how many events the probes see

ASSUME WorkersFinite == IsFiniteSet(Workers) /\ Workers # {}
ASSUME BufSizePos == BufSize \in Nat \ {0}
ASSUME RingSizePos == RingSize \in Nat \ {0}
ASSUME MaxEventsNat == MaxEvents \in Nat

VARIABLES
    alive,              \* FALSE once main has returned
    cancelled,          \* the context is cancelled
    rdClosed,           \* cleanup has closed the ring-buffer reader
    ring,               \* records the probes submitted and nobody has read
    seen,               \* how many events the probes have seen
    rpc,                \* where ReadEvents is
    rec,                \* the event ReadEvents holds
    spc,                \* Start: "spawning", "waiting" or "returned"
    ch,                 \* the queue's channel
    wpc,                \* where each worker is
    hand,               \* the event each worker holds
    processed,          \* the queue's atomic counters
    dropped,
    tpc,                \* where statsLoop is
    snap,               \* what statsLoop has read in this tick, or last logged
    offered,            \* history: how many times Enqueue was called
    runs,               \* history: how often the handler ran for an event
    filtered,           \* history: events a filter of ReadEvents skipped
    lostKernel,         \* history: events lost for want of room in the ring
    lostFull            \* history: events dropped by a full channel

readerVars == <<rpc, rec>>
workerVars == <<wpc, hand>>
statsVars  == <<tpc, snap>>
ctxVars    == <<alive, cancelled, rdClosed>>
lossVars   == <<filtered, lostKernel, lostFull>>
vars == <<ctxVars, ring, seen, readerVars, spc, ch, workerVars, processed,
          dropped, statsVars, offered, runs, lossVars>>

NoEvent == 0
Events == 1..MaxEvents

(* A worker is in its outer select ("idle", "handling", "counting"), in its *)
(* drain loop, not yet started, or gone.                                    *)
WorkerStates == {"unborn", "idle", "handling", "counting", "draining",
                 "drainHandling", "drainCounting", "exited"}
Holding == {"handling", "counting", "drainHandling", "drainCounting"}

(* Workers that hold an event processed does not count yet. *)
InFlight == {w \in Workers : wpc[w] \in Holding}

EmptySnap == [processed |-> 0, dropped |-> 0, pending |-> 0]

Init ==
    /\ alive = TRUE /\ cancelled = FALSE /\ rdClosed = FALSE
    /\ ring = <<>> /\ seen = 0
    /\ rpc = "check" /\ rec = NoEvent
    /\ spc = "spawning"
    /\ ch = <<>>
    /\ wpc = [w \in Workers |-> "unborn"]
    /\ hand = [w \in Workers |-> NoEvent]
    /\ processed = 0 /\ dropped = 0
    /\ tpc = "idle" /\ snap = EmptySnap
    /\ offered = 0
    /\ runs = [e \in Events |-> 0]
    /\ filtered = {} /\ lostKernel = {} /\ lostFull = {}

-----------------------------------------------------------------------------
(* The kernel side. *)

(* A probe sees an event: it reserves a record and submits it, or finds the *)
(* ring full and returns without a trace.                                   *)
Capture ==
    /\ alive /\ ~rdClosed
    /\ seen < MaxEvents
    /\ seen' = seen + 1
    /\ \/ /\ Len(ring) < RingSize
          /\ ring' = Append(ring, seen')
          /\ UNCHANGED lostKernel
       \/ /\ Len(ring) = RingSize
          /\ lostKernel' = lostKernel \cup {seen'}
          /\ UNCHANGED ring
    /\ UNCHANGED <<ctxVars, readerVars, spc, ch, workerVars, processed,
                   dropped, statsVars, offered, runs, filtered, lostFull>>

-----------------------------------------------------------------------------
(* ReadEvents. *)

readerRest == <<ctxVars, seen, spc, workerVars, processed, statsVars, runs,
                lostKernel>>

(* Mutant of ReaderCheck: the loop never looks at the context. *)
ReaderNeverChecks ==
    /\ alive /\ rpc = "check"
    /\ rpc' = "read"
    /\ UNCHANGED <<readerRest, ring, rec, ch, dropped, offered, filtered, lostFull>>

ReaderCheck ==
    /\ alive /\ rpc = "check"
    /\ rpc' = IF cancelled THEN "stopped" ELSE "read"
    /\ UNCHANGED <<readerRest, ring, rec, ch, dropped, offered, filtered, lostFull>>

(* rd.Read blocks until there is a record or the reader is closed. *)
ReaderRead ==
    /\ alive /\ rpc = "read" /\ ~rdClosed
    /\ ring # <<>>
    /\ rec' = Head(ring)
    /\ ring' = Tail(ring)
    /\ rpc' = "decode"
    /\ UNCHANGED <<readerRest, ch, dropped, offered, filtered, lostFull>>

(* Read fails on a closed reader: with ErrClosed itself the loop returns,   *)
(* with any other error it goes round and finds the context cancelled.      *)
ReaderReadClosed ==
    /\ alive /\ rpc = "read" /\ rdClosed
    /\ rpc' \in {"stopped", "check"}
    /\ UNCHANGED <<readerRest, ring, rec, ch, dropped, offered, filtered, lostFull>>

(* The record does not decode, or its process, container, pod or namespace  *)
(* is one the agent skips.                                                  *)
ReaderSkip ==
    /\ alive /\ rpc = "decode"
    /\ filtered' = filtered \cup {rec}
    /\ rec' = NoEvent
    /\ rpc' = "check"
    /\ UNCHANGED <<readerRest, ring, ch, dropped, offered, lostFull>>

ReaderKeep ==
    /\ alive /\ rpc = "decode"
    /\ rpc' = "enqueue"
    /\ UNCHANGED <<readerRest, ring, rec, ch, dropped, offered, filtered, lostFull>>

(* Mutant of TryEnqueue: room for one event too many. *)
TryEnqueueOffByOne(e) ==
    \/ /\ Len(ch) <= BufSize
       /\ ch' = Append(ch, e)
       /\ UNCHANGED <<dropped, lostFull>>
    \/ /\ Len(ch) > BufSize
       /\ dropped' = dropped + 1
       /\ lostFull' = lostFull \cup {e}
       /\ UNCHANGED ch

(* Mutant of TryEnqueue: a full queue discards its oldest event to make     *)
(* room, and still counts the new one as dropped.                           *)
TryEnqueueEvicts(e) ==
    \/ /\ Len(ch) < BufSize
       /\ ch' = Append(ch, e)
       /\ UNCHANGED <<dropped, lostFull>>
    \/ /\ Len(ch) >= BufSize
       /\ dropped' = dropped + 1
       /\ lostFull' = lostFull \cup {e}
       /\ ch' = Append(Tail(ch), e)

(* The channel part of Enqueue: a non-blocking send, whose default branch   *)
(* counts the event as dropped.                                             *)
TryEnqueue(e) ==
    \/ /\ Len(ch) < BufSize
       /\ ch' = Append(ch, e)
       /\ UNCHANGED <<dropped, lostFull>>
    \/ /\ Len(ch) >= BufSize
       /\ dropped' = dropped + 1
       /\ lostFull' = lostFull \cup {e}
       /\ UNCHANGED ch

Enqueue ==
    /\ alive /\ rpc = "enqueue"
    /\ TryEnqueue(rec)
    /\ offered' = offered + 1
    /\ rec' = NoEvent
    /\ rpc' = "check"
    /\ UNCHANGED <<readerRest, ring, filtered>>

Reader ==
    \/ ReaderCheck \/ ReaderRead \/ ReaderReadClosed
    \/ ReaderSkip \/ ReaderKeep \/ Enqueue

-----------------------------------------------------------------------------
(* Start and its workers. *)

workerRest == <<ctxVars, ring, seen, readerVars, dropped, statsVars, offered,
                lossVars>>

(* Start launches its workers one by one. *)
Spawn(w) ==
    /\ alive /\ spc = "spawning" /\ wpc[w] = "unborn"
    /\ wpc' = [wpc EXCEPT ![w] = "idle"]
    /\ spc' = IF \A v \in Workers : wpc'[v] # "unborn" THEN "waiting" ELSE spc
    /\ UNCHANGED <<workerRest, ch, hand, processed, runs>>

(* wg.Wait returns once every worker has left. *)
StartReturns ==
    /\ alive /\ spc = "waiting"
    /\ \A w \in Workers : wpc[w] = "exited"
    /\ spc' = "returned"
    /\ UNCHANGED <<workerRest, ch, workerVars, processed, runs>>

(* A receive from the channel, in the outer select or in the drain loop. *)
Take(w) ==
    /\ alive /\ wpc[w] \in {"idle", "draining"}
    /\ ch # <<>>
    /\ hand' = [hand EXCEPT ![w] = Head(ch)]
    /\ ch' = Tail(ch)
    /\ wpc' = [wpc EXCEPT ![w] =
                 IF wpc[w] = "idle" THEN "handling" ELSE "drainHandling"]
    /\ UNCHANGED <<workerRest, spc, processed, runs>>

(* Mutant of BeginDrain: a cancelled worker leaves without draining. *)
LeaveWithoutDrain(w) ==
    /\ alive /\ wpc[w] = "idle" /\ cancelled
    /\ wpc' = [wpc EXCEPT ![w] = "exited"]
    /\ UNCHANGED <<workerRest, spc, ch, hand, processed, runs>>

(* The outer select may pick ctx.Done even when events are waiting. *)
BeginDrain(w) ==
    /\ alive /\ wpc[w] = "idle" /\ cancelled
    /\ wpc' = [wpc EXCEPT ![w] = "draining"]
    /\ UNCHANGED <<workerRest, spc, ch, hand, processed, runs>>

(* Mutant of EndDrain: "break" for "return" leaves only the select. *)
EndDrainBreaks(w) ==
    /\ alive /\ wpc[w] = "draining" /\ ch = <<>>
    /\ UNCHANGED <<workerRest, spc, ch, workerVars, processed, runs>>

(* The drain loop finds the channel empty and the worker returns. *)
EndDrain(w) ==
    /\ alive /\ wpc[w] = "draining" /\ ch = <<>>
    /\ wpc' = [wpc EXCEPT ![w] = "exited"]
    /\ UNCHANGED <<workerRest, spc, ch, hand, processed, runs>>

(* Mutant of SafeHandle: a handler that panicked is called again. *)
SafeHandleRetries(w) ==
    /\ alive /\ wpc[w] \in {"handling", "drainHandling"}
    /\ runs[hand[w]] < 3
    /\ runs' = [runs EXCEPT ![hand[w]] = @ + 1]
    /\ \/ UNCHANGED wpc
       \/ wpc' = [wpc EXCEPT ![w] =
                    IF wpc[w] = "handling" THEN "counting" ELSE "drainCounting"]
    /\ UNCHANGED <<workerRest, spc, ch, hand, processed>>

(* Mutant of SafeHandle: after a panic the worker takes up its loop again   *)
(* without counting the event.                                              *)
SafeHandleForgets(w) ==
    /\ alive /\ wpc[w] \in {"handling", "drainHandling"}
    /\ runs' = [runs EXCEPT ![hand[w]] = @ + 1]
    /\ \E panics \in BOOLEAN :
         /\ wpc' = [wpc EXCEPT ![w] =
              IF wpc[w] = "handling" THEN IF panics THEN "idle" ELSE "counting"
                                     ELSE IF panics THEN "draining" ELSE "drainCounting"]
         /\ hand' = IF panics THEN [hand EXCEPT ![w] = NoEvent] ELSE hand
    /\ UNCHANGED <<workerRest, spc, ch, processed>>

(* safeHandle: the handler returns, or panics and is recovered; the worker  *)
(* goes on in the same way.                                                 *)
SafeHandle(w) ==
    /\ alive /\ wpc[w] \in {"handling", "drainHandling"}
    /\ runs' = [runs EXCEPT ![hand[w]] = @ + 1]
    /\ wpc' = [wpc EXCEPT ![w] =
                 IF wpc[w] = "handling" THEN "counting" ELSE "drainCounting"]
    /\ UNCHANGED <<workerRest, spc, ch, hand, processed>>

CountProcessed(w) ==
    /\ alive /\ wpc[w] \in {"counting", "drainCounting"}
    /\ processed' = processed + 1
    /\ hand' = [hand EXCEPT ![w] = NoEvent]
    /\ wpc' = [wpc EXCEPT ![w] =
                 IF wpc[w] = "counting" THEN "idle" ELSE "draining"]
    /\ UNCHANGED <<workerRest, spc, ch, runs>>

Worker(w) ==
    \/ Take(w) \/ BeginDrain(w) \/ EndDrain(w)
    \/ SafeHandle(w) \/ CountProcessed(w)

-----------------------------------------------------------------------------
(* statsLoop: three reads of three counters, one after the other. *)

statsRest == <<ctxVars, ring, seen, readerVars, spc, ch, workerVars,
               processed, dropped, offered, runs, lossVars>>

StatsReadProcessed ==
    /\ alive /\ tpc = "idle"
    /\ snap' = [EmptySnap EXCEPT !.processed = processed]
    /\ tpc' = "readDropped"
    /\ UNCHANGED statsRest

StatsReadDropped ==
    /\ alive /\ tpc = "readDropped"
    /\ snap' = [snap EXCEPT !.dropped = dropped]
    /\ tpc' = "readPending"
    /\ UNCHANGED statsRest

StatsReadPending ==
    /\ alive /\ tpc = "readPending"
    /\ snap' = [snap EXCEPT !.pending = Len(ch)]
    /\ tpc' = "idle"
    /\ UNCHANGED statsRest

StatsStop ==
    /\ alive /\ tpc = "idle" /\ cancelled
    /\ tpc' = "stopped"
    /\ UNCHANGED <<statsRest, snap>>

Stats == StatsReadProcessed \/ StatsReadDropped \/ StatsReadPending \/ StatsStop

-----------------------------------------------------------------------------
(* Shutdown. *)

ctxRest == <<ring, seen, readerVars, spc, ch, workerVars, processed, dropped,
             statsVars, offered, runs, lossVars>>

(* main receives a signal and cancels the context. *)
Cancel ==
    /\ alive /\ ~cancelled
    /\ cancelled' = TRUE
    /\ UNCHANGED <<ctxRest, alive, rdClosed>>

(* LoadProgram's goroutine closes the reader and detaches the probes. *)
Cleanup ==
    /\ alive /\ cancelled /\ ~rdClosed
    /\ rdClosed' = TRUE
    /\ UNCHANGED <<ctxRest, alive, cancelled>>

(* The two seconds are over and main returns, with every other goroutine.   *)
Exit ==
    /\ alive /\ cancelled
    /\ alive' = FALSE
    /\ UNCHANGED <<ctxRest, cancelled, rdClosed>>

-----------------------------------------------------------------------------
Next ==
    \/ Capture
    \/ Reader
    \/ StartReturns
    \/ \E w \in Workers : Spawn(w) \/ Worker(w)
    \/ Stats
    \/ Cancel \/ Cleanup \/ Exit

(* The Go scheduler runs every goroutine that can run.  Nothing forces a    *)
(* probe to fire, a ticker to tick, a signal to come, or main to wait.      *)
Fairness ==
    /\ WF_vars(Reader)
    /\ WF_vars(StartReturns)
    /\ WF_vars(Cleanup)
    /\ \A w \in Workers : WF_vars(Spawn(w)) /\ WF_vars(Worker(w))

Spec == Init /\ [][Next]_vars
FairSpec == Spec /\ Fairness

-----------------------------------------------------------------------------
(* Properties. *)

Counts == [processed : Nat, dropped : Nat, pending : Nat]

AllExited == \A w \in Workers : wpc[w] = "exited"

ContextType == alive \in BOOLEAN /\ cancelled \in BOOLEAN /\ rdClosed \in BOOLEAN
RingType == seen \in 0..MaxEvents /\ ring \in Seq(Events) /\ Len(ring) <= RingSize
ChannelType == ch \in Seq(Events) /\ Len(ch) <= BufSize
ReaderType ==
    /\ rpc \in {"check", "read", "decode", "enqueue", "stopped"}
    /\ rec \in Events \cup {NoEvent}
WorkerType ==
    /\ spc \in {"spawning", "waiting", "returned"}
    /\ wpc \in [Workers -> WorkerStates]
    /\ hand \in [Workers -> Events \cup {NoEvent}]
StatsType ==
    /\ tpc \in {"idle", "readDropped", "readPending", "stopped"}
    /\ snap \in Counts
CounterType ==
    processed \in Nat /\ dropped \in Nat /\ offered \in Nat /\ runs \in [Events -> Nat]
LossType ==
    filtered \subseteq Events /\ lostKernel \subseteq Events /\ lostFull \subseteq Events

(* Every variable has its type, and neither buffer exceeds its capacity. *)
TypeOK ==
    /\ ContextType /\ RingType /\ ChannelType /\ ReaderType
    /\ WorkerType /\ StatsType /\ CounterType /\ LossType

(* However the workers share the channel, and whether they take an event in *)
(* their loop or while draining, the handler runs at most once per event:   *)
(* a kill or an alert is never repeated by the queue.                       *)
AtMostOnce == \A e \in Events : runs[e] <= 1

(* The counters Stats() reports add up: every event given to Enqueue is     *)
(* counted as processed or as dropped, waits in the channel, or is in a     *)
(* worker's hands.                                                          *)
Accounting == offered = processed + dropped + Len(ch) + Cardinality(InFlight)

(* ReadEvents looks at the context before each read only, so it may offer   *)
(* an event to a queue whose workers have all drained and left; that        *)
(* happens to one event at most.                                            *)
StrandedBound == AllExited => Len(ch) <= 1

(* statsLoop reads three counters that move between its reads; what it logs *)
(* may miss events but never counts one twice.                              *)
SnapshotNeverOvercounts ==
    snap.processed + snap.dropped + snap.pending <= offered

(* What is in the channel while any worker is left gets handled, through    *)
(* cancellation and drain, unless the process ends first: the events being  *)
(* finitely many, a time comes when nothing waits and nobody holds any.     *)
EventuallyHandled ==
    (ch # <<>> /\ ~AllExited) ~> ((ch = <<>> /\ InFlight = {}) \/ ~alive)

(* Cancelling the context brings every worker to its end, and Start with    *)
(* them, unless the process ends first.                                     *)
WorkersStop == cancelled ~> ((AllExited /\ spc = "returned") \/ ~alive)

(* The whole path implements EventDelivery: an event is handled or lost,    *)
(* never both, and never handled twice.  What a filter skips counts as lost *)
(* there; what the end of the process takes away is neither.                *)
Delivery == INSTANCE EventDelivery WITH
    delivered <- {e \in Events : runs[e] > 0},
    lost <- filtered \cup lostKernel \cup lostFull

DeliverySpec == Delivery!Spec

=============================================================================
