-------------------------- MODULE EventQueueProofs --------------------------
(***************************************************************************)
(* Proofs about EventQueue, for any number of workers, any capacities and  *)
(* any number of events.                                                   *)
(***************************************************************************)
EXTENDS EventQueue, FiniteSetTheorems, TLAPS

-----------------------------------------------------------------------------
(* First stage: types, and who holds an event at which step. *)

(* ReadEvents and the workers hold an event exactly between taking it and   *)
(* passing it on.                                                           *)
ReaderHeld == rec # NoEvent <=> rpc \in {"decode", "enqueue"}
WorkerHeld == \A w \in Workers : hand[w] # NoEvent <=> wpc[w] \in Holding
Held == ReaderHeld /\ WorkerHeld

TypeInv == TypeOK /\ Held

USE DEF NoEvent

(* A message taken off a sequence and the rest of the sequence. *)
LEMMA HeadTail ==
    ASSUME NEW S, NEW s \in Seq(S), s # <<>>
    PROVE  /\ Head(s) = s[1] /\ Head(s) \in S
           /\ Len(s) \in Nat /\ Len(s) >= 1
           /\ Tail(s) \in Seq(S) /\ Len(Tail(s)) = Len(s) - 1
           /\ \A i \in 1..Len(Tail(s)) : Tail(s)[i] = s[i + 1]
    OBVIOUS

(* A message put at the end of a sequence. *)
LEMMA AppendLast ==
    ASSUME NEW S, NEW s \in Seq(S), NEW e \in S
    PROVE  /\ Append(s, e) \in Seq(S)
           /\ Len(s) \in Nat /\ Len(Append(s, e)) = Len(s) + 1
           /\ \A i \in 1..Len(s) : Append(s, e)[i] = s[i]
           /\ Append(s, e)[Len(s) + 1] = e
    OBVIOUS

LEMMA InitTypeInv == Init => TypeInv
<1> SUFFICES ASSUME Init PROVE TypeInv
    OBVIOUS
<1> USE DEF Init
<1>1. RingType /\ ChannelType
    BY BufSizePos, RingSizePos, MaxEventsNat DEF RingType, ChannelType
<1>2. ContextType /\ ReaderType /\ LossType
    BY DEF ContextType, ReaderType, LossType
<1>3. WorkerType
    BY DEF WorkerType, WorkerStates
<1>4. StatsType /\ CounterType
    BY DEF StatsType, CounterType, Counts, EmptySnap
<1>5. Held
    BY DEF Held, ReaderHeld, WorkerHeld, Holding
<1> QED
    BY <1>1, <1>2, <1>3, <1>4, <1>5 DEF TypeInv, TypeOK

(* Which actions change which variable. *)
LEMMA WhoChanges ==
    ASSUME [Next]_vars
    PROVE  /\ UNCHANGED <<ring, seen>> \/ Capture \/ ReaderRead
           /\ UNCHANGED ch \/ Enqueue \/ \E w \in Workers : Take(w)
           /\ UNCHANGED <<rpc, rec>> \/ Reader
           /\ UNCHANGED <<spc, wpc, hand, processed, runs>>
                \/ StartReturns \/ \E w \in Workers : Spawn(w) \/ Worker(w)
           /\ UNCHANGED <<tpc, snap>> \/ Stats
           /\ UNCHANGED <<dropped, offered, lostFull>> \/ Enqueue
           /\ UNCHANGED filtered \/ ReaderSkip
           /\ UNCHANGED lostKernel \/ Capture
           /\ UNCHANGED <<alive, cancelled, rdClosed>> \/ Cancel \/ Cleanup \/ Exit
<1> USE DEF ctxVars, readerVars, workerVars, statsVars, lossVars
<1>1. CASE Capture
    BY <1>1 DEF Capture
<1>2. CASE Reader
    BY <1>2 DEF Reader, ReaderCheck, ReaderRead, ReaderReadClosed, ReaderSkip,
                ReaderKeep, Enqueue, readerRest
<1>3. CASE StartReturns
    BY <1>3 DEF StartReturns, workerRest
<1>4. ASSUME NEW w \in Workers, Spawn(w) \/ Worker(w)
      PROVE  /\ UNCHANGED <<workerRest, ch>> \/ Take(w)
             /\ UNCHANGED workerRest
    BY <1>4 DEF Spawn, Worker, Take, BeginDrain, EndDrain, SafeHandle, CountProcessed
<1>5. CASE \E w \in Workers : Spawn(w) \/ Worker(w)
    BY <1>4, <1>5 DEF workerRest
<1>6. CASE Stats
    BY <1>6 DEF Stats, StatsReadProcessed, StatsReadDropped, StatsReadPending,
                StatsStop, statsRest
<1>7. CASE Cancel \/ Cleanup \/ Exit
    BY <1>7 DEF Cancel, Cleanup, Exit, ctxRest
<1>8. CASE UNCHANGED vars
    BY <1>8 DEF vars
<1> QED
    BY <1>1, <1>2, <1>3, <1>5, <1>6, <1>7, <1>8 DEF Next

(* How the channel changes: an event at its end, or its head taken. *)
LEMMA ChannelStep ==
    ASSUME TypeInv, [Next]_vars
    PROVE  \/ UNCHANGED ch
           \/ Enqueue /\ rec \in Events /\ Len(ch) < BufSize /\ ch' = Append(ch, rec)
           \/ /\ \E w \in Workers : Take(w) /\ hand'[w] = Head(ch)
              /\ ch # <<>> /\ ch' = Tail(ch) /\ Head(ch) \in Events
<1>1. CASE Enqueue
    BY <1>1 DEF Enqueue, TryEnqueue, TypeInv, TypeOK, ReaderType, Held, ReaderHeld
<1>2. ASSUME NEW w \in Workers, Take(w)
      PROVE  ch # <<>> /\ ch' = Tail(ch) /\ Head(ch) \in Events /\ hand'[w] = Head(ch)
    BY <1>2, HeadTail DEF Take, TypeInv, TypeOK, ChannelType, WorkerType
<1> QED
    BY <1>1, <1>2, WhoChanges

LEMMA NextTypeInv == TypeInv /\ [Next]_vars => TypeInv'
<1> SUFFICES ASSUME TypeInv, [Next]_vars PROVE TypeInv'
    OBVIOUS
<1>1. RingType'
    <2>1. CASE Capture
        <3>1. seen' \in 0..MaxEvents /\ seen' \in Events
            BY <2>1, MaxEventsNat DEF Capture, TypeInv, TypeOK, RingType, Events
        <3>2. CASE ring' = Append(ring, seen') /\ Len(ring) < RingSize
            BY <3>1, <3>2, AppendLast, RingSizePos DEF TypeInv, TypeOK, RingType
        <3>3. CASE UNCHANGED ring
            BY <3>1, <3>3 DEF TypeInv, TypeOK, RingType
        <3> QED
            BY <2>1, <3>2, <3>3 DEF Capture
    <2>2. CASE ReaderRead
        BY <2>2, HeadTail, RingSizePos
        DEF ReaderRead, readerRest, TypeInv, TypeOK, RingType
    <2>3. CASE UNCHANGED <<ring, seen>>
        BY <2>3 DEF TypeInv, TypeOK, RingType
    <2> QED
        BY <2>1, <2>2, <2>3, WhoChanges
<1>2. ChannelType'
    BY ChannelStep, AppendLast, HeadTail, BufSizePos DEF TypeInv, TypeOK, ChannelType
<1>3. ReaderType' /\ ReaderHeld'
    <2>1. CASE ReaderRead
        <3>1. Head(ring) \in Events /\ Head(ring) # NoEvent
            BY <2>1, HeadTail, MaxEventsNat
            DEF ReaderRead, TypeInv, TypeOK, RingType, Events
        <3> QED
            BY <2>1, <3>1 DEF ReaderRead, ReaderType, ReaderHeld
    <2>2. CASE Reader /\ ~ReaderRead
        BY <2>2 DEF Reader, ReaderCheck, ReaderReadClosed, ReaderSkip, ReaderKeep, Enqueue,
           TypeInv, TypeOK, ReaderType, Held, ReaderHeld
    <2>3. CASE UNCHANGED <<rpc, rec>>
        BY <2>3 DEF TypeInv, TypeOK, ReaderType, Held, ReaderHeld
    <2> QED
        BY <2>1, <2>2, <2>3, WhoChanges
<1>4. WorkerType' /\ WorkerHeld'
    <2>1. ASSUME NEW w \in Workers, Take(w) PROVE WorkerType' /\ WorkerHeld'
        <3>1. Head(ch) \in Events /\ Head(ch) # NoEvent
            BY <2>1, HeadTail, MaxEventsNat DEF Take, TypeInv, TypeOK, ChannelType, Events
        <3> QED
            BY <2>1, <3>1 DEF Take, TypeInv, TypeOK, WorkerType, WorkerStates, Held,
               WorkerHeld, Holding
    <2>2. ASSUME NEW w \in Workers, Spawn(w) \/ (Worker(w) /\ ~Take(w))
          PROVE  WorkerType' /\ WorkerHeld'
        BY <2>2 DEF Spawn, Worker, BeginDrain, EndDrain, SafeHandle, CountProcessed, workerVars,
           TypeInv, TypeOK, WorkerType, WorkerStates, Held, WorkerHeld, Holding
    <2>3. CASE StartReturns
        BY <2>3 DEF StartReturns, workerVars, TypeInv, TypeOK, WorkerType, Held, WorkerHeld
    <2>4. CASE UNCHANGED <<spc, wpc, hand>>
        BY <2>4 DEF TypeInv, TypeOK, WorkerType, Held, WorkerHeld
    <2> QED
        BY <2>1, <2>2, <2>3, <2>4, WhoChanges
<1>5. StatsType'
    <2> USE DEF TypeInv, TypeOK, StatsType, Counts, EmptySnap
    <2>1. CASE StatsReadProcessed
        BY <2>1 DEF StatsReadProcessed, CounterType
    <2>2. CASE StatsReadDropped
        BY <2>2 DEF StatsReadDropped, CounterType
    <2>3. CASE StatsReadPending
        <3>1. Len(ch) \in Nat
            BY DEF ChannelType
        <3> QED
            BY <2>3, <3>1 DEF StatsReadPending
    <2>4. CASE StatsStop
        BY <2>4 DEF StatsStop
    <2>5. CASE UNCHANGED <<tpc, snap>>
        BY <2>5
    <2> QED
        BY <2>1, <2>2, <2>3, <2>4, <2>5, WhoChanges DEF Stats
<1>6. CounterType' /\ lostFull' \subseteq Events
    <2>1. dropped' \in Nat /\ offered' \in Nat /\ lostFull' \subseteq Events
        BY WhoChanges DEF TypeInv, TypeOK, CounterType, LossType, Enqueue, TryEnqueue, Held,
           ReaderHeld, ReaderType
    <2>2. processed' \in Nat /\ runs' \in [Events -> Nat]
        <3>1. ASSUME NEW w \in Workers, SafeHandle(w)
              PROVE  processed' \in Nat /\ runs' \in [Events -> Nat]
            <4>1. hand[w] \in Events
                BY <3>1 DEF SafeHandle, TypeInv, TypeOK, Held, WorkerHeld, Holding, WorkerType
            <4> QED
                BY <3>1, <4>1 DEF SafeHandle, TypeInv, TypeOK, CounterType
        <3>2. ASSUME NEW w \in Workers, Spawn(w) \/ (Worker(w) /\ ~SafeHandle(w))
              PROVE  processed' \in Nat /\ runs' \in [Events -> Nat]
            BY <3>2 DEF Spawn, Worker, Take, BeginDrain, EndDrain, CountProcessed,
               TypeInv, TypeOK, CounterType
        <3>3. CASE StartReturns \/ UNCHANGED <<processed, runs>>
            BY <3>3 DEF StartReturns, TypeInv, TypeOK, CounterType
        <3> QED
            BY <3>1, <3>2, <3>3, WhoChanges
    <2> QED
        BY <2>1, <2>2 DEF CounterType
<1>7. LossType'
    <2>1. filtered' \subseteq Events
        BY WhoChanges DEF TypeInv, TypeOK, LossType, ReaderSkip, ReaderType,
           Held, ReaderHeld
    <2>2. lostKernel' \subseteq Events
        <3>1. CASE Capture
            <4>1. seen' \in Events
                BY <3>1, MaxEventsNat DEF Capture, TypeInv, TypeOK, RingType, Events
            <4> QED
                BY <3>1, <4>1 DEF Capture, TypeInv, TypeOK, LossType
        <3> QED
            BY <3>1, WhoChanges DEF TypeInv, TypeOK, LossType
    <2> QED
        BY <2>1, <2>2, <1>6 DEF LossType
<1>8. ContextType'
    BY WhoChanges DEF TypeInv, TypeOK, ContextType, Cancel, Cleanup, Exit
<1> QED
    BY <1>1, <1>2, <1>3, <1>4, <1>5, <1>6, <1>7, <1>8 DEF TypeInv, TypeOK, Held

LEMMA TypeInvariant == Spec => []TypeInv
    BY InitTypeInv, NextTypeInv, PTL DEF Spec

(* Every reachable state has the types, and the buffers keep within their   *)
(* capacities, whatever the capacities and the number of workers.           *)
THEOREM TypeCorrect == Spec => []TypeOK
<1>1. TypeInv => TypeOK
    BY DEF TypeInv
<1> QED
    BY <1>1, TypeInvariant, PTL

-----------------------------------------------------------------------------
(* Second stage: the counters. *)

(* What is in flight changes by the worker that acts, if at all. *)
InFlightChange ==
    \/ UNCHANGED <<InFlight, ch, processed>>
    \/ UNCHANGED <<InFlight, processed>> /\ Enqueue
    \/ \E w \in Workers :
         /\ w \notin InFlight /\ InFlight' = InFlight \cup {w}
         /\ ch # <<>> /\ ch' = Tail(ch) /\ UNCHANGED <<processed, dropped, offered>>
    \/ \E w \in Workers :
         /\ w \in InFlight /\ InFlight' = InFlight \ {w}
         /\ processed' = processed + 1 /\ UNCHANGED <<ch, dropped, offered>>

LEMMA InFlightStep == TypeInv /\ [Next]_vars => InFlightChange
<1> SUFFICES ASSUME TypeInv, [Next]_vars PROVE InFlightChange
    OBVIOUS
<1>0. wpc \in [Workers -> WorkerStates]
    BY DEF TypeInv, TypeOK, WorkerType
<1>1. ASSUME NEW w \in Workers, Take(w) PROVE InFlightChange
    <2>1. w \notin InFlight /\ InFlight' = InFlight \cup {w}
        BY <1>0, <1>1 DEF Take, InFlight, Holding
    <2> QED
        BY <1>1, <2>1 DEF Take, workerRest, InFlightChange
<1>2. ASSUME NEW w \in Workers, CountProcessed(w) PROVE InFlightChange
    <2>1. w \in InFlight /\ InFlight' = InFlight \ {w}
        BY <1>0, <1>2 DEF CountProcessed, InFlight, Holding
    <2> QED
        BY <1>2, <2>1 DEF CountProcessed, workerRest, InFlightChange
<1>3. ASSUME NEW w \in Workers,
             Spawn(w) \/ BeginDrain(w) \/ EndDrain(w) \/ SafeHandle(w)
      PROVE  InFlightChange
    <2>1. UNCHANGED InFlight
        BY <1>0, <1>3 DEF Spawn, BeginDrain, EndDrain, SafeHandle, InFlight, Holding
    <2> QED
        BY <1>3, <2>1 DEF Spawn, BeginDrain, EndDrain, SafeHandle, workerRest,
           InFlightChange
<1>4. CASE UNCHANGED <<wpc, processed>> /\ (UNCHANGED ch \/ Enqueue)
    BY <1>4 DEF InFlight, InFlightChange
<1>5. ASSUME StartReturns PROVE UNCHANGED <<wpc, processed, ch>>
    BY <1>5 DEF StartReturns, workerVars
<1>6. ASSUME NEW w \in Workers, Spawn(w) \/ Worker(w) PROVE InFlightChange
    BY <1>1, <1>2, <1>3, <1>6 DEF Worker
<1>7. ASSUME ~\E w \in Workers : Spawn(w) \/ Worker(w)
      PROVE  UNCHANGED <<wpc, processed>> /\ (UNCHANGED ch \/ Enqueue)
    BY <1>5, <1>7, WhoChanges DEF Worker
<1> QED
    BY <1>4, <1>6, <1>7

LEMMA InFlightFinite == IsFiniteSet(InFlight) /\ Cardinality(InFlight) \in Nat
<1>1. InFlight \in SUBSET Workers
    BY DEF InFlight
<1>2. IsFiniteSet(InFlight)
    BY <1>1, WorkersFinite, FS_Subset
<1> QED
    BY <1>2, FS_CardinalityType

LEMMA InitAccounting == Init => Accounting
<1> SUFFICES ASSUME Init PROVE Accounting
    OBVIOUS
<1>1. InFlight = {}
    BY DEF Init, InFlight, Holding
<1> QED
    BY <1>1, FS_EmptySet DEF Init, Accounting

LEMMA NextAccounting == TypeInv /\ Accounting /\ [Next]_vars => Accounting'
<1> SUFFICES ASSUME TypeInv, Accounting, [Next]_vars PROVE Accounting'
    OBVIOUS
<1>1. IsFiniteSet(InFlight) /\ Cardinality(InFlight) \in Nat
    BY InFlightFinite
<1>2. /\ Len(ch) \in Nat /\ ch \in Seq(Events)
      /\ processed \in Nat /\ dropped \in Nat /\ offered \in Nat
    BY DEF TypeInv, TypeOK, ChannelType, CounterType
<1>3. CASE Enqueue /\ UNCHANGED <<InFlight, processed>>
    <2>1. rec \in Events
        BY <1>3 DEF Enqueue, TypeInv, TypeOK, ReaderType, Held, ReaderHeld
    <2>2. offered' = offered + 1 /\ processed' = processed
          /\ Cardinality(InFlight') = Cardinality(InFlight)
        BY <1>3 DEF Enqueue
    <2>3. offered = processed + dropped + Len(ch) + Cardinality(InFlight)
        BY DEF Accounting
    <2>4. CASE ch' = Append(ch, rec) /\ dropped' = dropped
        <3>1. Len(ch') = Len(ch) + 1
            BY <1>2, <2>1, <2>4, AppendLast
        <3> QED
            BY <1>1, <1>2, <2>2, <2>3, <2>4, <3>1 DEF Accounting
    <2>5. CASE ch' = ch /\ dropped' = dropped + 1
        BY <1>1, <1>2, <2>2, <2>3, <2>5 DEF Accounting
    <2> QED
        BY <1>3, <2>4, <2>5 DEF Enqueue, TryEnqueue
<1>4. ASSUME NEW w \in Workers, w \notin InFlight, InFlight' = InFlight \cup {w},
             ch # <<>>, ch' = Tail(ch), UNCHANGED <<processed, dropped, offered>>
      PROVE  Accounting'
    <2>1. Cardinality(InFlight') = Cardinality(InFlight) + 1
        BY <1>1, <1>4, FS_AddElement
    <2>2. Len(ch') = Len(ch) - 1
        BY <1>2, <1>4, HeadTail
    <2> QED
        BY <1>1, <1>2, <1>4, <2>1, <2>2 DEF Accounting
<1>5. ASSUME NEW w \in Workers, w \in InFlight, InFlight' = InFlight \ {w},
             processed' = processed + 1, UNCHANGED <<ch, dropped, offered>>
      PROVE  Accounting'
    <2>1. Cardinality(InFlight') = Cardinality(InFlight) - 1
        BY <1>1, <1>5, FS_RemoveElement
    <2> QED
        BY <1>1, <1>2, <1>5, <2>1 DEF Accounting
<1>6. ASSUME UNCHANGED <<InFlight, ch, processed>>, ~Enqueue PROVE Accounting'
    <2>1. UNCHANGED <<dropped, offered>>
        BY <1>6, WhoChanges
    <2> QED
        BY <1>6, <2>1 DEF Accounting
<1>7. ASSUME UNCHANGED <<InFlight, processed>>, Enqueue PROVE Accounting'
    BY <1>3, <1>7
<1> QED
    BY <1>4, <1>5, <1>6, <1>7, InFlightStep DEF InFlightChange

(* The counters add up in every reachable state, for any number of workers: *)
(* no event that was given to Enqueue escapes Stats().                      *)
THEOREM AccountingCorrect == Spec => []Accounting
<1>1. Spec => [](TypeInv /\ Accounting)
    BY InitTypeInv, NextTypeInv, InitAccounting, NextAccounting, PTL DEF Spec
<1> QED
    BY <1>1, PTL

(* What statsLoop has read in this tick is not more than the counters are   *)
(* now, because they only grow.                                             *)
SnapBelow ==
    /\ snap.processed <= processed /\ snap.dropped <= dropped
    /\ tpc \in {"readDropped", "readPending"} => snap.pending = 0
    /\ tpc = "readDropped" => snap.dropped = 0
    /\ SnapshotNeverOvercounts

LEMMA CountersGrow ==
    ASSUME TypeInv, [Next]_vars
    PROVE  processed <= processed' /\ dropped <= dropped' /\ offered <= offered'
<1>1. processed \in Nat /\ dropped \in Nat /\ offered \in Nat
    BY DEF TypeInv, TypeOK, CounterType
<1>2. dropped <= dropped' /\ offered <= offered'
    BY <1>1, WhoChanges DEF Enqueue, TryEnqueue
<1>3. processed <= processed'
    BY <1>1, InFlightStep DEF InFlightChange
<1> QED
    BY <1>2, <1>3

LEMMA InitSnapBelow == Init => SnapBelow
    BY DEF Init, SnapBelow, SnapshotNeverOvercounts, EmptySnap

LEMMA NextSnapBelow ==
    TypeInv /\ TypeInv' /\ Accounting /\ SnapBelow /\ [Next]_vars => SnapBelow'
<1> SUFFICES ASSUME TypeInv, TypeInv', Accounting, SnapBelow, [Next]_vars
             PROVE  SnapBelow'
    OBVIOUS
<1> USE DEF SnapBelow, SnapshotNeverOvercounts
<1>1. /\ processed \in Nat /\ dropped \in Nat /\ offered \in Nat
      /\ processed' \in Nat /\ dropped' \in Nat /\ offered' \in Nat
      /\ snap \in Counts
    BY DEF TypeInv, TypeOK, CounterType, StatsType
<1>2. Len(ch) \in Nat /\ Cardinality(InFlight) \in Nat
    BY InFlightFinite DEF TypeInv, TypeOK, ChannelType
<1>b. processed + dropped <= offered
    BY <1>1, <1>2 DEF Accounting
<1>3. CASE StatsReadProcessed
    BY <1>1, <1>b, <1>3 DEF StatsReadProcessed, statsRest, Counts, EmptySnap
<1>4. CASE StatsReadDropped
    BY <1>1, <1>b, <1>4 DEF StatsReadDropped, statsRest, Counts
<1>5. CASE StatsReadPending
    <2>1. snap.processed + snap.dropped + Len(ch) <= offered
        <3>1. snap.processed \in Nat /\ snap.dropped \in Nat
            BY <1>1 DEF Counts
        <3>2. offered = processed + dropped + Len(ch) + Cardinality(InFlight)
            BY DEF Accounting
        <3>3. snap.processed <= processed /\ snap.dropped <= dropped
            OBVIOUS
        <3> QED
            BY <1>1, <1>2, <3>1, <3>2, <3>3
    <2>2. /\ snap' = [snap EXCEPT !.pending = Len(ch)] /\ tpc' = "idle"
          /\ UNCHANGED <<processed, dropped, offered>>
        BY <1>5 DEF StatsReadPending, statsRest
    <2> QED
        BY <1>1, <2>1, <2>2 DEF Counts
<1>6. CASE UNCHANGED snap /\ (UNCHANGED tpc \/ tpc' = "stopped")
    BY <1>1, <1>6, CountersGrow DEF Counts
<1> QED
    BY <1>3, <1>4, <1>5, <1>6, WhoChanges DEF Stats, StatsStop

(* What statsLoop logs never counts an event twice, however many steps of   *)
(* other goroutines fall between its three reads.                           *)
THEOREM SnapshotCorrect == Spec => []SnapshotNeverOvercounts
<1>1. Spec => []TypeInv /\ []Accounting
    BY TypeInvariant, AccountingCorrect
<1>2. SnapBelow => SnapshotNeverOvercounts
    BY DEF SnapBelow
<1> QED
    BY <1>1, <1>2, InitSnapBelow, NextSnapBelow, PTL DEF Spec

-----------------------------------------------------------------------------
(* Third stage: an event is in one place at a time.  Events are numbered in *)
(* the order in which the probes see them and both buffers are first-in     *)
(* first-out, so what is further along the path has the smaller number.     *)

RingOrder ==
    /\ \A i \in 1..Len(ring) : ring[i] <= seen /\ rec < ring[i]
    /\ \A i, j \in 1..Len(ring) : i < j => ring[i] < ring[j]
    /\ rec <= seen

ChannelOrder ==
    /\ \A i \in 1..Len(ch) : ch[i] <= seen /\ (rec # NoEvent => ch[i] < rec)
    /\ \A i \in 1..Len(ch) : \A j \in 1..Len(ring) : ch[i] < ring[j]
    /\ \A i, j \in 1..Len(ch) : i < j => ch[i] < ch[j]

Order == RingOrder /\ ChannelOrder

(* A worker has, or had, the event. *)
Taken(e) == runs[e] > 0 \/ \E w \in Workers : hand[w] = e

TakenBelow ==
    \A e \in Events : Taken(e) =>
        /\ e <= seen /\ (rec # NoEvent => e < rec)
        /\ \A i \in 1..Len(ring) : e < ring[i]
        /\ \A i \in 1..Len(ch) : e < ch[i]

(* No two workers hold the same event, and one that is about to call the    *)
(* handler is the first to do so.                                           *)
Hands ==
    /\ \A v, w \in Workers : hand[v] = hand[w] /\ hand[v] # NoEvent => v = w
    /\ \A w \in Workers : wpc[w] \in {"handling", "drainHandling"} => runs[hand[w]] = 0
    /\ AtMostOnce

Lost == filtered \cup lostKernel \cup lostFull

(* What is lost is nowhere on the path, and stays so. *)
Gone(e) ==
    /\ e <= seen /\ e # rec /\ ~Taken(e)
    /\ \A i \in 1..Len(ring) : ring[i] # e
    /\ \A i \in 1..Len(ch) : ch[i] # e
LostGone == \A e \in Lost : Gone(e)

PathInv == Order /\ TakenBelow /\ Hands /\ LostGone

LEMMA InitPathInv == Init => PathInv
<1> SUFFICES ASSUME Init PROVE PathInv
    OBVIOUS
<1> USE DEF Init
<1>1. Order
    BY DEF Order, RingOrder, ChannelOrder
<1>2. ASSUME NEW e \in Events PROVE ~Taken(e)
    BY MaxEventsNat DEF Taken, Events
<1>3. TakenBelow /\ LostGone
    BY <1>2 DEF TakenBelow, LostGone, Lost
<1>4. Hands
    BY DEF Hands, AtMostOnce
<1> QED
    BY <1>1, <1>3, <1>4 DEF PathInv

(* The path an event takes is changed by six kinds of step. *)
PathChange ==
    \/ /\ UNCHANGED <<rec, ch, wpc, hand, runs, filtered, lostFull>>
       /\ seen' = seen + 1 /\ seen' \in Events
       /\ \/ ring' = Append(ring, seen') /\ UNCHANGED lostKernel
          \/ lostKernel' = lostKernel \cup {seen'} /\ UNCHANGED ring
    \/ /\ UNCHANGED <<seen, ch, wpc, hand, runs, Lost>>
       /\ rec = NoEvent /\ ring # <<>> /\ rec' = Head(ring) /\ ring' = Tail(ring)
    \/ /\ UNCHANGED <<seen, ring, wpc, hand, runs>>
       /\ rec \in Events /\ rec' = NoEvent
       /\ \/ ch' = Append(ch, rec) /\ UNCHANGED Lost
          \/ Lost' = Lost \cup {rec} /\ UNCHANGED ch
    \/ /\ UNCHANGED <<seen, ring, rec, runs, Lost>>
       /\ ch # <<>> /\ ch' = Tail(ch)
       /\ \E w \in Workers :
            /\ hand[w] = NoEvent
            /\ hand' = [hand EXCEPT ![w] = Head(ch)]
            /\ \E pc \in {"handling", "drainHandling"} : wpc' = [wpc EXCEPT ![w] = pc]
    \/ /\ UNCHANGED <<seen, ring, rec, ch, hand, Lost>>
       /\ \E w \in Workers :
            /\ wpc[w] \in {"handling", "drainHandling"} /\ hand[w] \in Events
            /\ runs' = [runs EXCEPT ![hand[w]] = @ + 1]
            /\ \E pc \in {"counting", "drainCounting"} : wpc' = [wpc EXCEPT ![w] = pc]
    \/ /\ UNCHANGED <<seen, ring, rec, ch, runs, Lost>>
       /\ \/ UNCHANGED <<hand, wpc>>
          \/ \E w \in Workers :
               /\ hand' = [hand EXCEPT ![w] = NoEvent]
               /\ \E pc \in WorkerStates \ {"handling", "drainHandling"} :
                    wpc' = [wpc EXCEPT ![w] = pc]

LEMMA PathStep == TypeInv /\ [Next]_vars => PathChange
<1> SUFFICES ASSUME TypeInv, [Next]_vars PROVE PathChange
    OBVIOUS
<1> USE DEF TypeInv, TypeOK, Held
<1>1. CASE Capture
    <2>1. seen' = seen + 1 /\ seen' \in Events
        BY <1>1, MaxEventsNat DEF Capture, RingType, Events
    <2> QED
        BY <1>1, <2>1 DEF Capture, readerVars, workerVars, PathChange
<1>2. CASE Reader
    <2>1. UNCHANGED <<seen, wpc, hand, runs, lostKernel>>
        BY <1>2 DEF Reader, ReaderCheck, ReaderRead, ReaderReadClosed, ReaderSkip, ReaderKeep,
           Enqueue, readerRest, workerVars
    <2>2. CASE ReaderRead
        BY <2>1, <2>2 DEF ReaderRead, ReaderHeld, PathChange, Lost
    <2>3. CASE ReaderSkip
        <3>1. rec \in Events /\ Lost' = Lost \cup {rec}
            BY <2>1, <2>3 DEF ReaderSkip, ReaderType, ReaderHeld, Lost
        <3> QED
            BY <2>1, <2>3, <3>1 DEF ReaderSkip, PathChange
    <2>4. CASE Enqueue
        <3>1. rec \in Events
            BY <2>4 DEF Enqueue, ReaderType, ReaderHeld
        <3>2. \/ ch' = Append(ch, rec) /\ UNCHANGED Lost
              \/ Lost' = Lost \cup {rec} /\ UNCHANGED ch
            BY <2>1, <2>4 DEF Enqueue, TryEnqueue, Lost
        <3> QED
            BY <2>1, <2>4, <3>1, <3>2 DEF Enqueue, PathChange
    <2>5. CASE ReaderCheck \/ ReaderReadClosed \/ ReaderKeep
        BY <2>1, <2>5 DEF ReaderCheck, ReaderReadClosed, ReaderKeep, PathChange, Lost
    <2> QED
        BY <1>2, <2>2, <2>3, <2>4, <2>5 DEF Reader
<1>3. ASSUME NEW w \in Workers, Spawn(w) \/ Worker(w) PROVE PathChange
    <2>1. UNCHANGED <<seen, ring, rec, Lost>>
        BY <1>3 DEF Spawn, Worker, Take, BeginDrain, EndDrain, SafeHandle, CountProcessed,
           workerRest, readerVars, lossVars, Lost
    <2>2. CASE Take(w)
        BY <2>1, <2>2 DEF Take, WorkerHeld, Holding, PathChange
    <2>3. CASE SafeHandle(w)
        <3>1. hand[w] \in Events
            BY <2>3 DEF SafeHandle, WorkerType, WorkerHeld, Holding
        <3> QED
            BY <2>1, <2>3, <3>1 DEF SafeHandle, PathChange
    <2>4. CASE Spawn(w) \/ BeginDrain(w) \/ EndDrain(w)
        <3>1. hand[w] = NoEvent /\ hand = [hand EXCEPT ![w] = NoEvent]
            BY <2>4 DEF Spawn, BeginDrain, EndDrain, WorkerType, WorkerHeld, Holding
        <3> QED
            BY <2>1, <2>4, <3>1 DEF Spawn, BeginDrain, EndDrain, WorkerStates, PathChange
    <2>5. CASE CountProcessed(w)
        BY <2>1, <2>5 DEF CountProcessed, WorkerStates, PathChange
    <2> QED
        BY <1>3, <2>2, <2>3, <2>4, <2>5 DEF Worker
<1>4. CASE StartReturns
    BY <1>4 DEF StartReturns, workerRest, workerVars, readerVars, lossVars, Lost, PathChange
<1>5. CASE Stats
    BY <1>5 DEF Stats, StatsReadProcessed, StatsReadDropped, StatsReadPending, StatsStop,
       statsRest, workerVars, readerVars, lossVars, Lost, PathChange
<1>6. CASE Cancel \/ Cleanup \/ Exit
    BY <1>6 DEF Cancel, Cleanup, Exit, ctxRest, workerVars, readerVars, lossVars, Lost, PathChange
<1>7. CASE UNCHANGED vars
    BY <1>7 DEF vars, workerVars, readerVars, lossVars, Lost, PathChange
<1> QED
    BY <1>1, <1>2, <1>3, <1>4, <1>5, <1>6, <1>7 DEF Next

LEMMA NextPathInv == TypeInv /\ PathInv /\ [Next]_vars => PathInv'
<1> SUFFICES ASSUME TypeInv, PathInv, PathChange PROVE PathInv'
    BY PathStep
<1>0. /\ ring \in Seq(Events) /\ ch \in Seq(Events) /\ seen \in Nat
      /\ rec \in Events \cup {NoEvent} /\ Events \subseteq Nat \ {0}
      /\ hand \in [Workers -> Events \cup {NoEvent}]
      /\ runs \in [Events -> Nat] /\ wpc \in [Workers -> WorkerStates]
      /\ Lost \subseteq Events
    BY MaxEventsNat DEF TypeInv, TypeOK, RingType, ChannelType, ReaderType, WorkerType,
       CounterType, LossType, Events, Lost
<1>e. /\ \A i \in 1..Len(ring) : ring[i] \in Events /\ ring[i] \in Nat /\ ring[i] > 0
      /\ \A i \in 1..Len(ch) : ch[i] \in Events /\ ch[i] \in Nat /\ ch[i] > 0
      /\ Len(ring) \in Nat /\ Len(ch) \in Nat
    <2>1. \A i \in 1..Len(ring) : ring[i] \in Events
        BY <1>0
    <2>2. \A i \in 1..Len(ch) : ch[i] \in Events
        BY <1>0
    <2>3. Len(ring) \in Nat /\ Len(ch) \in Nat
        BY <1>0
    <2>4. \A e \in Events : e \in Nat /\ e > 0
        BY MaxEventsNat DEF Events
    <2> QED
        BY <2>1, <2>2, <2>3, <2>4
<1> USE DEF PathInv, Order, RingOrder, ChannelOrder
<1>1. ASSUME UNCHANGED <<rec, ch, wpc, hand, runs, filtered, lostFull>>,
             seen' = seen + 1, seen' \in Events,
             \/ ring' = Append(ring, seen') /\ UNCHANGED lostKernel
             \/ lostKernel' = lostKernel \cup {seen'} /\ UNCHANGED ring
      PROVE  PathInv'
    <2>1. \A i \in 1..Len(ring') : ring'[i] = seen' \/ (i \in 1..Len(ring) /\ ring'[i] = ring[i])
        BY <1>0, <1>1, AppendLast
    <2>2. \A i, j \in 1..Len(ring') : i < j => ring'[i] < ring'[j]
        <3>1. CASE ring' = ring
            BY <3>1
        <3>2. CASE ring' = Append(ring, seen')
            <4>1. \A i \in 1..Len(ring) : ring'[i] = ring[i] /\ ring[i] < seen'
                BY <1>0, <1>1, <1>e, <3>2, AppendLast
            <4>2. Len(ring') = Len(ring) + 1 /\ ring'[Len(ring) + 1] = seen'
                BY <1>0, <1>1, <3>2, AppendLast
            <4>3. ASSUME NEW i \in 1..Len(ring'), NEW j \in 1..Len(ring'), i < j
                  PROVE  ring'[i] < ring'[j]
                <5>0. Len(ring) \in Nat /\ Len(ring') = Len(ring) + 1
                    BY <1>e, <4>2
                <5>a. i \in 1..(Len(ring) + 1) /\ j \in 1..(Len(ring) + 1)
                    BY <5>0
                <5>1. i \in 1..Len(ring) /\ (j \in 1..Len(ring) \/ j = Len(ring) + 1)
                    BY <4>3, <5>0, <5>a
                <5>2. CASE j \in 1..Len(ring)
                    BY <1>0, <1>1, <4>1, <4>3, <5>1, <5>2
                <5>3. CASE j = Len(ring) + 1
                    BY <4>1, <4>2, <5>1, <5>3
                <5> QED
                    BY <5>1, <5>2, <5>3
            <4> QED
                BY <4>3
        <3> QED
            BY <1>1, <3>1, <3>2
    <2>3. Order'
        <3>1. \A i \in 1..Len(ring') : ring'[i] <= seen' /\ rec' < ring'[i]
            BY <1>0, <1>e, <1>1, <2>1
        <3>2. ChannelOrder'
            BY <1>0, <1>e, <1>1, <2>1
        <3>3. rec' <= seen'
            BY <1>0, <1>1
        <3> QED
            BY <2>2, <3>1, <3>2, <3>3
    <2>4. \A e : Taken(e)' <=> Taken(e)
        BY <1>1 DEF Taken
    <2>5. TakenBelow'
        BY <1>0, <1>1, <2>1, <2>4 DEF TakenBelow
    <2>6. Hands'
        BY <1>1 DEF Hands, AtMostOnce
    <2>7. LostGone'
        <3>1. ASSUME NEW e \in Lost PROVE Gone(e)'
            <4>1. Gone(e) /\ e \in Nat /\ e # seen'
                BY <1>0, <1>1, <3>1 DEF LostGone, Gone
            <4> QED
                BY <1>0, <1>1, <2>1, <2>4, <4>1 DEF Gone
        <3>2. ASSUME Lost' = Lost \cup {seen'}, ring' = ring PROVE Gone(seen)'
            <4>1. ~Taken(seen')
                BY <1>0, <1>1 DEF TakenBelow
            <4> QED
                BY <1>0, <1>1, <2>4, <3>2, <4>1 DEF LostGone, Gone
        <3>3. Lost' = Lost \/ (Lost' = Lost \cup {seen'} /\ ring' = ring)
            BY <1>1 DEF Lost
        <3> QED
            BY <3>1, <3>2, <3>3 DEF LostGone, Gone
    <2> QED
        BY <2>3, <2>5, <2>6, <2>7
<1>2. ASSUME UNCHANGED <<seen, ch, wpc, hand, runs, Lost>>,
             rec = NoEvent, ring # <<>>, rec' = Head(ring), ring' = Tail(ring)
      PROVE  PathInv'
    <2>1. /\ rec' = ring[1] /\ rec' \in Events /\ 1 \in 1..Len(ring)
          /\ \A i \in 1..Len(ring') : i + 1 \in 1..Len(ring) /\ ring'[i] = ring[i + 1]
        BY <1>0, <1>2, HeadTail
    <2>2. RingOrder'
        BY <1>0, <1>2, <2>1
    <2>3. ChannelOrder'
        BY <1>0, <1>2, <2>1
    <2>4. \A e : Taken(e)' <=> Taken(e)
        BY <1>2 DEF Taken
    <2>5. TakenBelow'
        BY <1>0, <1>2, <2>1, <2>4 DEF TakenBelow
    <2>6. Hands'
        BY <1>2 DEF Hands, AtMostOnce
    <2>7. LostGone'
        BY <1>0, <1>2, <2>1, <2>4 DEF LostGone, Gone
    <2> QED
        BY <2>2, <2>3, <2>5, <2>6, <2>7
<1>3. ASSUME UNCHANGED <<seen, ring, wpc, hand, runs>>,
             rec \in Events, rec' = NoEvent,
             \/ ch' = Append(ch, rec) /\ UNCHANGED Lost
             \/ Lost' = Lost \cup {rec} /\ UNCHANGED ch
      PROVE  PathInv'
    <2>1. \A i \in 1..Len(ch') : ch'[i] = rec \/ (i \in 1..Len(ch) /\ ch'[i] = ch[i])
        BY <1>0, <1>3, AppendLast
    <2>2. \A i, j \in 1..Len(ch') : i < j => ch'[i] < ch'[j]
        BY <1>0, <1>3, AppendLast
    <2>3. RingOrder'
        BY <1>0, <1>e, <1>3
    <2>4. ChannelOrder'
        BY <1>0, <1>3, <2>1, <2>2
    <2>5. \A e : Taken(e)' <=> Taken(e)
        BY <1>3 DEF Taken
    <2>6. TakenBelow'
        BY <1>0, <1>3, <2>1, <2>5 DEF TakenBelow
    <2>7. Hands'
        BY <1>3 DEF Hands, AtMostOnce
    <2>8. LostGone'
        <3>1. ASSUME NEW e \in Lost PROVE Gone(e)'
            BY <1>0, <1>3, <2>1, <2>5, <3>1 DEF LostGone, Gone
        <3>2. ASSUME ch' = ch PROVE \A e \in {rec} : Gone(e)'
            <4>1. ~Taken(rec)
                BY <1>0, <1>3 DEF TakenBelow
            <4> QED
                BY <1>0, <1>3, <2>5, <3>2, <4>1 DEF LostGone, Gone
        <3> QED
            BY <1>3, <3>1, <3>2 DEF LostGone, Gone
    <2> QED
        BY <2>3, <2>4, <2>6, <2>7, <2>8
<1>4. ASSUME UNCHANGED <<seen, ring, rec, runs, Lost>>, ch # <<>>, ch' = Tail(ch),
             NEW w \in Workers, hand[w] = NoEvent,
             hand' = [hand EXCEPT ![w] = Head(ch)],
             NEW pc \in {"handling", "drainHandling"}, wpc' = [wpc EXCEPT ![w] = pc]
      PROVE  PathInv'
    <2>1. /\ Head(ch) = ch[1] /\ Head(ch) \in Events /\ 1 \in 1..Len(ch)
          /\ \A i \in 1..Len(ch') : i + 1 \in 1..Len(ch) /\ ch'[i] = ch[i + 1]
        BY <1>0, <1>4, HeadTail
    <2>2. RingOrder'
        BY <1>0, <1>4
    <2>3. ChannelOrder'
        BY <1>0, <1>4, <2>1
    <2>4. \A e \in Events : Taken(e)' => Taken(e) \/ e = ch[1]
        BY <1>0, <1>4, <2>1 DEF Taken
    <2>5. TakenBelow'
        BY <1>0, <1>4, <2>1, <2>4 DEF TakenBelow
    <2>6. ~Taken(ch[1])
        BY <1>e, <2>1 DEF TakenBelow
    <2>7. Hands'
        <3>1. \A v \in Workers : v # w => hand'[v] = hand[v] /\ hand[v] # ch[1]
            BY <1>0, <1>4, <2>6 DEF Taken
        <3>2. hand'[w] = ch[1] /\ runs[ch[1]] = 0
            <4>1. ~(runs[ch[1]] > 0) /\ runs[ch[1]] \in Nat
                BY <1>0, <1>e, <2>1, <2>6 DEF Taken
            <4> QED
                BY <1>0, <1>4, <2>1, <4>1
        <3>3. \A v \in Workers : v # w => wpc'[v] = wpc[v]
            BY <1>0, <1>4
        <3> QED
            BY <1>4, <3>1, <3>2, <3>3 DEF Hands, AtMostOnce
    <2>8. LostGone'
        BY <1>0, <1>4, <2>1, <2>4 DEF LostGone, Gone
    <2> QED
        BY <2>2, <2>3, <2>5, <2>7, <2>8
<1>5. ASSUME UNCHANGED <<seen, ring, rec, ch, hand, Lost>>,
             NEW w \in Workers, wpc[w] \in {"handling", "drainHandling"}, hand[w] \in Events,
             runs' = [runs EXCEPT ![hand[w]] = @ + 1],
             NEW pc \in {"counting", "drainCounting"}, wpc' = [wpc EXCEPT ![w] = pc]
      PROVE  PathInv'
    <2>1. Order'
        BY <1>5
    <2>2. \A e \in Events : Taken(e)' <=> Taken(e)
        BY <1>0, <1>5 DEF Taken
    <2>3. TakenBelow'
        BY <1>5, <2>2 DEF TakenBelow
    <2>4. Hands'
        <3>1. /\ \A v \in Workers : v # w => wpc'[v] = wpc[v]
              /\ wpc'[w] \notin {"handling", "drainHandling"}
            BY <1>0, <1>5
        <3>2. /\ \A e \in Events : e # hand[w] => runs'[e] = runs[e]
              /\ runs'[hand[w]] = 1
            BY <1>0, <1>5 DEF Hands
        <3>3. \A v \in Workers : wpc[v] \in {"handling", "drainHandling"} => hand[v] \in Events
            BY <1>0 DEF TypeInv, Held, WorkerHeld, Holding
        <3> QED
            BY <1>0, <1>5, <3>1, <3>2, <3>3 DEF Hands, AtMostOnce
    <2>5. LostGone'
        BY <1>0, <1>5, <2>2 DEF LostGone, Gone
    <2> QED
        BY <2>1, <2>3, <2>4, <2>5
<1>6. ASSUME UNCHANGED <<seen, ring, rec, ch, runs, Lost, hand, wpc>>
      PROVE  PathInv'
    BY <1>6 DEF TakenBelow, Taken, Hands, AtMostOnce, LostGone, Gone
<1>7. ASSUME UNCHANGED <<seen, ring, rec, ch, runs, Lost>>, NEW w \in Workers,
             hand' = [hand EXCEPT ![w] = NoEvent],
             NEW pc \in WorkerStates \ {"handling", "drainHandling"},
             wpc' = [wpc EXCEPT ![w] = pc]
      PROVE  PathInv'
    <2>1. Order'
        BY <1>7
    <2>2. \A e \in Events : Taken(e)' => Taken(e)
        BY <1>0, <1>7 DEF Taken
    <2>3. TakenBelow'
        BY <1>7, <2>2 DEF TakenBelow
    <2>4. Hands'
        BY <1>0, <1>7 DEF Hands, AtMostOnce
    <2>5. LostGone'
        BY <1>0, <1>7, <2>2 DEF LostGone, Gone
    <2> QED
        BY <2>1, <2>3, <2>4, <2>5
<1> HIDE DEF PathInv, Order, RingOrder, ChannelOrder
<1> QED
    BY <1>1, <1>2, <1>3, <1>4, <1>5, <1>6, <1>7 DEF PathChange

LEMMA PathCorrect == Spec => [](TypeInv /\ PathInv)
    BY InitTypeInv, NextTypeInv, InitPathInv, NextPathInv, PTL DEF Spec

(* For any number of workers, any capacities and any interleaving with the  *)
(* shutdown, the handler is called at most once for an event.               *)
THEOREM HandledAtMostOnce == Spec => []AtMostOnce
<1>1. TypeInv /\ PathInv => AtMostOnce
    BY DEF PathInv, Hands
<1> QED
    BY <1>1, PathCorrect, PTL

-----------------------------------------------------------------------------
(* The path implements what EventDelivery promises. *)

DeliveredEvents == {e \in Events : runs[e] > 0}

LEMMA InitDelivery == Init => Delivery!Init
    BY MaxEventsNat DEF Init, Delivery!Init, Events

LEMMA NextDelivery ==
    TypeInv /\ PathInv /\ [Next]_vars
        => [Delivery!Next]_<<seen, DeliveredEvents, Lost>>
<1> SUFFICES ASSUME TypeInv, PathInv, PathChange
             PROVE  Delivery!Next \/ UNCHANGED <<seen, DeliveredEvents, Lost>>
    BY PathStep DEF DeliveredEvents, Lost
<1>0. /\ seen \in Nat /\ Events = 1..MaxEvents /\ MaxEvents \in Nat
      /\ runs \in [Events -> Nat]
    BY MaxEventsNat DEF TypeInv, TypeOK, RingType, CounterType, Events
<1>1. ASSUME seen' = seen + 1, seen' \in Events, UNCHANGED <<runs, filtered, lostFull>>,
             UNCHANGED lostKernel \/ lostKernel' = lostKernel \cup {seen'}
      PROVE  Delivery!Next
    <2>1. seen < MaxEvents /\ UNCHANGED DeliveredEvents
        BY <1>0, <1>1 DEF DeliveredEvents
    <2>2. UNCHANGED Lost \/ Lost' = Lost \cup {seen'}
        BY <1>1 DEF Lost
    <2> QED
        BY <1>1, <2>1, <2>2
        DEF Delivery!Next, Delivery!See, Delivery!SeeAndLose, DeliveredEvents, Lost
<1>2. ASSUME rec \in Events, UNCHANGED <<seen, runs>>, Lost' = Lost \cup {rec}
      PROVE  Delivery!Next
    <2>1. rec \in 1..seen
        BY <1>0, <1>2 DEF PathInv, Order, RingOrder
    <2>2. rec \notin DeliveredEvents
        <3>1. ~Taken(rec)
            BY <1>0, <1>2 DEF PathInv, TakenBelow
        <3> QED
            BY <3>1 DEF Taken, DeliveredEvents
    <2>3. rec \notin Lost
        BY DEF PathInv, LostGone, Gone
    <2>4. Delivery!Lose(rec)
        BY <1>2, <2>2, <2>3 DEF Delivery!Lose, DeliveredEvents, Lost
    <2> QED
        BY <2>1, <2>4 DEF Delivery!Next
<1>3. ASSUME UNCHANGED <<seen, Lost>>, NEW w \in Workers, hand[w] \in Events,
             wpc[w] \in {"handling", "drainHandling"},
             runs' = [runs EXCEPT ![hand[w]] = @ + 1]
      PROVE  Delivery!Next
    <2>1. Taken(hand[w])
        BY <1>3 DEF Taken
    <2>2. hand[w] \in 1..seen
        BY <1>0, <1>3, <2>1 DEF PathInv, TakenBelow
    <2>3. hand[w] \notin Lost
        BY <2>1 DEF PathInv, LostGone, Gone
    <2>4. hand[w] \notin DeliveredEvents
        BY <1>3 DEF PathInv, Hands, DeliveredEvents
    <2>5. DeliveredEvents' = DeliveredEvents \cup {hand[w]}
        <3>1. \A e \in Events : e # hand[w] => runs'[e] = runs[e]
            BY <1>0, <1>3
        <3>2. runs'[hand[w]] = runs[hand[w]] + 1 /\ runs[hand[w]] \in Nat
            BY <1>0, <1>3
        <3> QED
            BY <1>3, <3>1, <3>2 DEF DeliveredEvents
    <2>6. PICK e \in 1..seen : e = hand[w]
        BY <2>2
    <2>7. Delivery!Deliver(e)
        BY <1>3, <2>3, <2>4, <2>5, <2>6 DEF Delivery!Deliver, DeliveredEvents, Lost
    <2> QED
        BY <2>7 DEF Delivery!Next
<1>4. ASSUME UNCHANGED <<seen, runs, Lost>>
      PROVE  UNCHANGED <<seen, DeliveredEvents, Lost>>
    BY <1>4 DEF DeliveredEvents
<1> QED
    BY <1>1, <1>2, <1>3, <1>4 DEF PathChange

(* Probes, reader, channel and workers together implement EventDelivery: an *)
(* event is handled once or lost, and what was lost is never handled.       *)
THEOREM ImplementsDelivery == Spec => DeliverySpec
    BY InitDelivery, NextDelivery, PathCorrect, PTL
    DEF Spec, DeliverySpec, Delivery!Spec, DeliveredEvents, Lost

-----------------------------------------------------------------------------
(* What shutdown leaves behind. *)

(* A worker leaves its loop only when the context is cancelled, and once    *)
(* all have left, what the reader holds and what the channel holds is one   *)
(* event at most.                                                           *)
Shutdown ==
    /\ \A w \in Workers :
          wpc[w] \in {"draining", "drainHandling", "drainCounting", "exited"} => cancelled
    /\ AllExited =>
          \/ ch = <<>>
          \/ Len(ch) <= 1 /\ rpc \in {"check", "stopped"}

LEMMA InitShutdown == Init => Shutdown
    BY DEF Init, Shutdown

LEMMA NextShutdown == TypeInv /\ Shutdown /\ [Next]_vars => Shutdown'
<1> SUFFICES ASSUME TypeInv, Shutdown, [Next]_vars PROVE Shutdown'
    OBVIOUS
<1>0. wpc \in [Workers -> WorkerStates] /\ ch \in Seq(Events)
    BY DEF TypeInv, TypeOK, WorkerType, ChannelType
<1>1. cancelled => cancelled'
    BY WhoChanges DEF Cancel, Cleanup, Exit
<1>2. ASSUME NEW w \in Workers, Spawn(w) \/ Worker(w) PROVE Shutdown'
    <2>1. UNCHANGED <<cancelled, rpc>>
        BY <1>2 DEF Spawn, Worker, Take, BeginDrain, EndDrain, SafeHandle, CountProcessed,
           workerRest, ctxVars, readerVars
    <2>2. CASE EndDrain(w)
        BY <1>0, <2>1, <2>2 DEF EndDrain, Shutdown
    <2>3. CASE Spawn(w) \/ (Worker(w) /\ ~EndDrain(w))
        <3>1. wpc'[w] # "exited"
            BY <1>0, <2>3 DEF Spawn, Worker, Take, BeginDrain, SafeHandle, CountProcessed
        <3>2. \A v \in Workers :
                wpc'[v] \in {"draining", "drainHandling", "drainCounting", "exited"} => cancelled
            BY <1>0, <2>3 DEF Spawn, Worker, Take, BeginDrain, SafeHandle, CountProcessed,
               Shutdown
        <3> QED
            BY <2>1, <3>1, <3>2 DEF Shutdown, AllExited
    <2> QED
        BY <1>2, <2>2, <2>3
<1>3. CASE Reader
    <2>1. UNCHANGED <<wpc, cancelled>>
        BY <1>3 DEF Reader, ReaderCheck, ReaderRead, ReaderReadClosed, ReaderSkip, ReaderKeep,
           Enqueue, readerRest, workerVars, ctxVars
    <2>2. AllExited => cancelled
        BY WorkersFinite DEF Shutdown, AllExited
    <2>3. CASE Enqueue
        <3>1. rpc = "enqueue" /\ rpc' = "check"
            BY <2>3 DEF Enqueue
        <3>2. rec \in Events
            BY <2>3 DEF Enqueue, TypeInv, TypeOK, ReaderType, Held, ReaderHeld
        <3>3. Len(ch) = 0 => Len(ch') <= 1
            <4>1. ch' = ch \/ ch' = Append(ch, rec)
                BY <2>3 DEF Enqueue, TryEnqueue
            <4>3. Len(Append(ch, rec)) = Len(ch) + 1
                BY <1>0, <3>2, AppendLast
            <4> QED
                BY <4>1, <4>3
        <3>4. AllExited => Len(ch) = 0
            BY <3>1 DEF Shutdown
        <3>5. AllExited' => AllExited
            BY <2>1 DEF AllExited
        <3>6. AllExited' => Len(ch') <= 1
            BY <3>3, <3>4, <3>5
        <3>7. \A w \in Workers :
                wpc'[w] \in {"draining", "drainHandling", "drainCounting", "exited"} => cancelled'
            BY <2>1 DEF Shutdown
        <3> QED
            BY <3>1, <3>6, <3>7 DEF Shutdown
    <2>4. CASE Reader /\ ~Enqueue
        BY <2>1, <2>2, <2>4 DEF Reader, ReaderCheck, ReaderRead, ReaderReadClosed, ReaderSkip,
           ReaderKeep, Shutdown, AllExited
    <2> QED
        BY <1>3, <2>3, <2>4
<1>4. CASE ~Reader /\ ~\E w \in Workers : Spawn(w) \/ Worker(w)
    <2>1. UNCHANGED <<wpc, rpc, ch>>
        BY <1>4, WhoChanges DEF StartReturns, workerVars, Worker, Reader
    <2> QED
        BY <1>1, <2>1 DEF Shutdown, AllExited
<1> QED
    BY <1>2, <1>3, <1>4

(* However the cancellation falls among the goroutines, one event at most   *)
(* is accepted and never handled when all workers have left.                *)
THEOREM StrandedAtMostOne == Spec => []StrandedBound
<1>1. TypeInv /\ Shutdown => StrandedBound
    BY DEF TypeInv, TypeOK, ChannelType, Shutdown, StrandedBound
<1> QED
    BY <1>1, InitTypeInv, NextTypeInv, InitShutdown, NextShutdown, PTL DEF Spec
-----------------------------------------------------------------------------
Ring == INSTANCE EventRing WITH lost <- lostKernel

(* EventQueue takes the ring to be what Probes proves it to be: whatever    *)
(* the reader and the workers do, nothing else happens to the ring than     *)
(* what EventRing allows.                                                   *)
THEOREM UsesRing == Spec => Ring!Spec
<1>1. Init => Ring!Init
    BY DEF Init, Ring!Init
<1>2. [Next]_vars => [Ring!Next]_(Ring!vars)
    <2> SUFFICES ASSUME [Next]_vars PROVE [Ring!Next]_(Ring!vars)
        OBVIOUS
    <2>1. CASE Capture
        BY <2>1 DEF Capture, Ring!Next, Ring!Capture
    <2>2. CASE ReaderRead
        BY <2>2 DEF ReaderRead, readerRest, Ring!Next, Ring!Release
    <2>3. CASE UNCHANGED <<ring, seen, lostKernel>>
        BY <2>3 DEF Ring!vars
    <2>4. UNCHANGED <<ring, seen, lostKernel>> \/ Capture \/ ReaderRead
        BY WhoChanges DEF Capture, ReaderRead, readerRest
    <2> QED
        BY <2>1, <2>2, <2>3, <2>4
<1> QED
    BY <1>1, <1>2, PTL DEF Spec, Ring!Spec
=============================================================================
