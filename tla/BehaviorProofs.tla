---------------------------- MODULE BehaviorProofs ----------------------------
(***************************************************************************)
(* Proofs about the behaviour detector, for any pods, calls and window:    *)
(* its variables keep their types, a report rests on fresh and unused      *)
(* calls of the pod it is about, and the chain shown by a pod's first      *)
(* burst of activity is reported.                                          *)
(***************************************************************************)
EXTENDS Behavior, TLAPS

USE EventsAreFeatures, WindowNat, ChanCapNat, BoundsNat

(* The chains are built from the latched flags. *)
LEMMA ChainsAreChains ==
    ASSUME NEW c \in Chains
    PROVE  /\ c.needs \subseteq Latches
           /\ c.trigger \in Features
           /\ c.rank \in 1..5
           /\ c # NoChain
BY DEF Chains, Chain, Latches, Features, NoChain

LEMMA ElementOf == ASSUME NEW S, NEW s \in Seq(S), NEW i \in 1..Len(s) PROVE s[i] \in S
OBVIOUS

(* What appending a call does to a pod's calls. *)
LEMMA AppendedCall ==
    ASSUME NEW cs \in Calls, NEW e \in Events, NEW t \in Nat
    PROVE  /\ Append(cs, Call(e, t)) \in Calls
           /\ Append(cs, Call(e, t)) # <<>>
           /\ Len(cs) \in Nat
           /\ Len(Append(cs, Call(e, t))) = Len(cs) + 1
           /\ \A i \in 1..Len(cs) : /\ Append(cs, Call(e, t))[i] = cs[i]
                                    /\ cs[i] \in [event : Events, time : Nat]
           /\ Append(cs, Call(e, t))[Len(cs) + 1] = Call(e, t)
<1>1. Call(e, t) \in [event : Events, time : Nat]
    BY DEF Call
<1>2. cs \in Seq([event : Events, time : Nat])
    BY DEF Calls
<1> HIDE DEF Calls, Call
<1>3. Append(cs, Call(e, t)) \in Seq([event : Events, time : Nat])
    BY <1>1, <1>2
<1>4. Len(cs) \in Nat /\ Len(Append(cs, Call(e, t))) = Len(cs) + 1
    BY <1>1, <1>2
<1>5. \A i \in 1..Len(cs) : Append(cs, Call(e, t))[i] = cs[i]
    BY <1>1, <1>2
<1>8. \A i \in 1..Len(cs) : cs[i] \in [event : Events, time : Nat]
    BY <1>2, ElementOf
<1>6. Append(cs, Call(e, t))[Len(cs) + 1] = Call(e, t)
    BY <1>1, <1>2
<1>7. Append(cs, Call(e, t)) # <<>>
    BY <1>1, <1>2, <1>4
<1> QED
    BY <1>3, <1>4, <1>5, <1>6, <1>7, <1>8 DEF Calls

-----------------------------------------------------------------------------
LEMMA TypeInit == Init => TypeOK
<1> SUFFICES ASSUME Init PROVE TypeOK
    OBVIOUS
<1>1. steps \in [Pods -> SUBSET Latches] /\ firstSeen \in [Pods -> 0..now]
    BY DEF Init, NoState
<1>2. <<>> \in Calls
    BY DEF Calls
<1>3. calls \in [Pods -> Calls]
    BY <1>2 DEF Init
<1>4. last \in [chain : Chains \cup {NoChain}, calls : Calls]
    BY <1>2 DEF Init
<1>5. now \in Nat \ {0} /\ queued \in 0..ChanCap /\ dropped \in Nat /\ count \in Nat
    BY DEF Init
<1> QED
    BY <1>1, <1>3, <1>4, <1>5 DEF TypeOK

LEMMA TypeStep == TypeOK /\ [Next]_vars => TypeOK'
<1> SUFFICES ASSUME TypeOK, [Next]_vars PROVE TypeOK'
    OBVIOUS
<1>1. CASE Tick
    BY <1>1 DEF Tick, TypeOK
<1>2. ASSUME NEW p \in Pods, NEW e \in Events, DetectBehavior(p, e) PROVE TypeOK'
  <2>0. count' \in Nat /\ now' = now /\ now \in Nat
      BY <1>2 DEF DetectBehavior, TypeOK
  <2>1. Append(calls[p], Call(e, now)) \in Calls
    <3>1. calls[p] \in Calls /\ now \in Nat
        BY DEF TypeOK
    <3> QED
        BY <3>1, AppendedCall
  <2>k. Kept(p) \subseteq Latches
      BY DEF Kept, TypeOK
  <2>2. CASE Remember(p, e)
    <3>1. steps' \in [Pods -> SUBSET Latches]
        BY <2>2, <2>k DEF Remember, TypeOK
    <3>2. firstSeen' \in [Pods -> 0..now]
        BY <2>2 DEF Remember, TypeOK
    <3>3. calls' \in [Pods -> Calls]
        BY <2>2, <2>1 DEF Remember, TypeOK
    <3>4. last' \in [chain : Chains \cup {NoChain}, calls : Calls]
        BY <2>2, <2>1 DEF Remember
    <3> QED
        BY <2>0, <2>2, <3>1, <3>2, <3>3, <3>4 DEF Remember, TypeOK
  <2>3. CASE Report(p, e)
    <3> HIDE DEF Calls
    <3>1. steps' \in [Pods -> SUBSET Latches]
        BY <2>3 DEF Report, TypeOK
    <3>2. firstSeen' \in [Pods -> 0..now]
        BY <2>3 DEF Report, TypeOK, NoState
    <3>3. calls' \in [Pods -> Calls]
      <4>1. <<>> \in Calls
          BY DEF Calls
      <4> QED
          BY <2>3, <4>1 DEF Report, TypeOK
    <3>4. last' \in [chain : Chains \cup {NoChain}, calls : Calls]
      <4>1. Completed(p, e) \subseteq Chains
          BY DEF Completed
      <4> QED
          BY <2>3, <2>1, <4>1 DEF Report
    <3>5. queued' \in 0..ChanCap /\ dropped' \in Nat
        BY <2>3 DEF Report, Emit, TypeOK
    <3> QED
        BY <2>0, <3>1, <3>2, <3>3, <3>4, <3>5 DEF TypeOK
  <2> QED
      BY <1>2, <2>2, <2>3 DEF DetectBehavior
<1>3. CASE UNCHANGED vars
    BY <1>3 DEF vars, TypeOK
<1> QED
    BY <1>1, <1>2, <1>3 DEF Next

(* Every variable keeps its type, and no send goes beyond the capacity of   *)
(* BehaviorAlerts.                                                          *)
THEOREM TypeCorrect == Spec => []TypeOK
BY TypeInit, TypeStep, PTL DEF Spec

-----------------------------------------------------------------------------
(* What a pod's state has to do with its calls since its last report.  The  *)
(* state was begun by one of them, and forgets those before it; its flags   *)
(* are the latched features of the others.                                  *)
Evidence(sts, first, cs) ==
    \A s \in sts : \E i \in 1..Len(cs) : s \in cs[i].event /\ first <= cs[i].time

Latched(sts, first, cs) ==
    \A i \in 1..Len(cs) : first <= cs[i].time => cs[i].event \cap Latches \subseteq sts

Begun(sts, first, cs) ==
    IF first = NoState
    THEN sts = {} /\ cs = <<>>
    ELSE \E i \in 1..Len(cs) : cs[i].time = first

Forgotten(first, cs) ==
    \A i \in 1..Len(cs) :
        /\ cs[i].time <= first + Window
        /\ cs[i].time < first => \E j \in 1..Len(cs) : cs[j].time + Window < first

PodInv(sts, first, cs) ==
    /\ Evidence(sts, first, cs)
    /\ Latched(sts, first, cs)
    /\ Begun(sts, first, cs)
    /\ Forgotten(first, cs)

StateInv == \A p \in Pods : PodInv(steps[p], firstSeen[p], calls[p])

(* The pod's variables at a call, and after it has been remembered. *)
LEMMA RememberPod ==
    ASSUME TypeOK, StateInv, NEW p \in Pods, NEW e \in Events, Remember(p, e)
    PROVE  PodInv(steps'[p], firstSeen'[p], calls'[p])
<1> DEFINE cs == calls[p]
           ns == Append(cs, Call(e, now))
           old == steps[p]
           sts == Kept(p) \cup (e \cap Latches)
           first == IF Expired(p) \/ firstSeen[p] = NoState THEN now ELSE firstSeen[p]
<1>t. /\ cs \in Calls /\ now \in Nat /\ now # 0 /\ old \subseteq Latches
      /\ firstSeen[p] \in Nat /\ firstSeen[p] <= now
    BY DEF TypeOK
<1>a. /\ ns \in Calls
      /\ Len(cs) \in Nat
      /\ Len(ns) = Len(cs) + 1
      /\ \A i \in 1..Len(cs) : ns[i] = cs[i] /\ cs[i] \in [event : Events, time : Nat]
      /\ ns[Len(cs) + 1] = Call(e, now)
    BY <1>t, AppendedCall
<1>b. steps'[p] = sts /\ firstSeen'[p] = first /\ calls'[p] = ns
    BY DEF Remember, TypeOK
<1>n. ns[Len(ns)].event = e /\ ns[Len(ns)].time = now /\ Len(ns) \in 1..Len(ns)
    BY <1>a DEF Call
<1>p. PodInv(old, firstSeen[p], cs)
    BY DEF StateInv
<1>i. \A i \in 1..Len(ns) : i = Len(ns) \/ (i \in 1..Len(cs) /\ ns[i] = cs[i])
    BY <1>a
<1>j. \A i \in 1..Len(cs) : i \in 1..Len(ns) /\ ns[i] = cs[i] /\ cs[i].time \in Nat
    BY <1>a
<1> HIDE DEF ns, cs
<1>1. CASE firstSeen[p] = NoState
  <2>1. old = {} /\ cs = <<>> /\ Len(cs) = 0
    <3>1. old = {} /\ cs = <<>>
        BY <1>1, <1>p DEF PodInv, Begun
    <3> QED
        BY <3>1
  <2>2. first = now /\ Kept(p) = {}
      BY <1>1, <2>1 DEF Kept, Expired
  <2>3. sts = e \cap Latches
      BY <2>2
  <2>4. \A i \in 1..Len(ns) : i = Len(ns)
      BY <2>1, <1>i
  <2> HIDE DEF first, sts
  <2>5. Evidence(sts, first, ns)
      BY <2>2, <2>3, <1>n, <1>t DEF Evidence
  <2>6. Latched(sts, first, ns)
      BY <2>3, <2>4, <1>n DEF Latched
  <2>7. Begun(sts, first, ns)
      BY <2>2, <1>n, <1>t DEF Begun, NoState
  <2>8. Forgotten(first, ns)
      BY <2>2, <2>4, <1>n, <1>t DEF Forgotten
  <2> QED
      BY <1>b, <2>5, <2>6, <2>7, <2>8 DEF PodInv
<1>2. CASE firstSeen[p] # NoState /\ Expired(p)
  <2>1. now - firstSeen[p] > Window /\ first = now /\ Kept(p) = {}
      BY <1>2 DEF Expired, Kept
  <2>2. sts = e \cap Latches
      BY <2>1
  <2>3. PICK k \in 1..Len(cs) : cs[k].time = firstSeen[p]
      BY <1>2, <1>p DEF PodInv, Begun
  <2>4. \A i \in 1..Len(cs) : cs[i].time < now
    <3>1. \A i \in 1..Len(cs) : cs[i].time <= firstSeen[p] + Window
        BY <1>p DEF PodInv, Forgotten
    <3> QED
        BY <3>1, <2>1, <1>j, <1>t
  <2> HIDE DEF first, sts
  <2>5. Evidence(sts, first, ns)
      BY <2>1, <2>2, <1>n, <1>t DEF Evidence
  <2>6. Latched(sts, first, ns)
    <3> SUFFICES ASSUME NEW i \in 1..Len(ns), first <= ns[i].time
                 PROVE  ns[i].event \cap Latches \subseteq sts
        BY DEF Latched
    <3>1. i = Len(ns)
        BY <1>i, <1>j, <2>1, <2>4, <1>t
    <3> QED
        BY <3>1, <2>2, <1>n
  <2>7. Begun(sts, first, ns)
      BY <2>1, <1>n, <1>t DEF Begun, NoState
  <2>8. Forgotten(first, ns)
    <3>1. k \in 1..Len(ns) /\ ns[k].time + Window < now
        BY <2>1, <2>3, <1>j, <1>t
    <3>2. \A i \in 1..Len(ns) : ns[i].time <= now + Window
      <4> SUFFICES ASSUME NEW i \in 1..Len(ns) PROVE ns[i].time <= now + Window
          OBVIOUS
      <4>1. CASE i = Len(ns)
          BY <4>1, <1>n, <1>t
      <4>2. CASE i \in 1..Len(cs) /\ ns[i] = cs[i]
          BY <4>2, <2>4, <1>j, <1>t
      <4> QED
          BY <4>1, <4>2, <1>i
    <3> QED
        BY <3>1, <3>2, <2>1 DEF Forgotten
  <2> QED
      BY <1>b, <2>5, <2>6, <2>7, <2>8 DEF PodInv
<1>3. CASE firstSeen[p] # NoState /\ ~Expired(p)
  <2>1. first = firstSeen[p] /\ Kept(p) = old /\ now - firstSeen[p] <= Window
      BY <1>3, <1>t DEF Expired, Kept
  <2>2. sts = old \cup (e \cap Latches)
      BY <2>1
  <2>3. first \in Nat /\ first <= now
      BY <2>1, <1>t
  <2> HIDE DEF first, sts
  <2>5. Evidence(sts, first, ns)
    <3> SUFFICES ASSUME NEW s \in sts
                 PROVE  \E i \in 1..Len(ns) : s \in ns[i].event /\ first <= ns[i].time
        BY DEF Evidence
    <3>1. CASE s \in old
      <4>1. PICK i \in 1..Len(cs) : s \in cs[i].event /\ first <= cs[i].time
          BY <3>1, <1>p, <2>1 DEF PodInv, Evidence
      <4> QED
          BY <4>1, <1>j
    <3>2. CASE s \in e
        BY <3>2, <1>n, <2>3
    <3> QED
        BY <3>1, <3>2, <2>2
  <2>6. Latched(sts, first, ns)
    <3> SUFFICES ASSUME NEW i \in 1..Len(ns), first <= ns[i].time
                 PROVE  ns[i].event \cap Latches \subseteq sts
        BY DEF Latched
    <3>1. CASE i = Len(ns)
        BY <3>1, <2>2, <1>n
    <3>2. CASE i \in 1..Len(cs) /\ ns[i] = cs[i]
        BY <3>2, <2>1, <2>2, <1>p DEF PodInv, Latched
    <3> QED
        BY <3>1, <3>2, <1>i
  <2>7. Begun(sts, first, ns)
    <3>1. PICK k \in 1..Len(cs) : cs[k].time = firstSeen[p]
        BY <1>3, <1>p DEF PodInv, Begun
    <3> QED
        BY <3>1, <1>3, <2>1, <1>j DEF Begun
  <2>8. Forgotten(first, ns)
    <3> SUFFICES ASSUME NEW i \in 1..Len(ns)
                 PROVE  /\ ns[i].time <= first + Window
                        /\ ns[i].time < first =>
                              \E j \in 1..Len(ns) : ns[j].time + Window < first
        BY DEF Forgotten
    <3>1. CASE i = Len(ns)
        BY <3>1, <1>n, <1>t, <2>1, <2>3
    <3>2. CASE i \in 1..Len(cs) /\ ns[i] = cs[i]
        BY <3>2, <1>p, <1>j, <2>1 DEF PodInv, Forgotten
    <3> QED
        BY <3>1, <3>2, <1>i
  <2> QED
      BY <1>b, <2>5, <2>6, <2>7, <2>8 DEF PodInv
<1> QED
    BY <1>1, <1>2, <1>3

LEMMA EmptyPod == PodInv({}, NoState, <<>>)
<1>1. Len(<<>>) = 0
    OBVIOUS
<1> QED
    BY <1>1 DEF PodInv, Evidence, Latched, Begun, Forgotten

LEMMA StateStep == TypeOK /\ StateInv /\ [Next]_vars => StateInv'
<1> SUFFICES ASSUME TypeOK, StateInv, [Next]_vars PROVE StateInv'
    OBVIOUS
<1>1. CASE Tick
    BY <1>1 DEF Tick, StateInv
<1>2. ASSUME NEW p \in Pods, NEW e \in Events, DetectBehavior(p, e) PROVE StateInv'
  <2> SUFFICES ASSUME NEW q \in Pods PROVE PodInv(steps'[q], firstSeen'[q], calls'[q])
      BY DEF StateInv
  <2>o. PodInv(steps[q], firstSeen[q], calls[q])
      BY DEF StateInv
  <2>1. CASE Remember(p, e)
    <3>1. CASE q = p
        BY <3>1, <2>1, RememberPod
    <3>2. CASE q # p
      <4>1. steps'[q] = steps[q] /\ firstSeen'[q] = firstSeen[q] /\ calls'[q] = calls[q]
          BY <3>2, <2>1 DEF Remember, TypeOK
      <4> QED
          BY <4>1, <2>o
    <3> QED
        BY <3>1, <3>2
  <2>2. CASE Report(p, e)
    <3>1. CASE q = p
      <4>1. steps'[q] = {} /\ firstSeen'[q] = NoState /\ calls'[q] = <<>>
          BY <3>1, <2>2 DEF Report, TypeOK
      <4> QED
          BY <4>1, EmptyPod
    <3>2. CASE q # p
      <4>1. steps'[q] = steps[q] /\ firstSeen'[q] = firstSeen[q] /\ calls'[q] = calls[q]
          BY <3>2, <2>2 DEF Report, TypeOK
      <4> QED
          BY <4>1, <2>o
    <3> QED
        BY <3>1, <3>2
  <2> QED
      BY <1>2, <2>1, <2>2 DEF DetectBehavior
<1>3. CASE UNCHANGED vars
    BY <1>3 DEF vars, StateInv
<1> QED
    BY <1>1, <1>2, <1>3 DEF Next

LEMMA StateInit == Init => StateInv
<1> SUFFICES ASSUME Init, NEW p \in Pods PROVE PodInv(steps[p], firstSeen[p], calls[p])
    BY DEF StateInv
<1>1. steps[p] = {} /\ firstSeen[p] = NoState /\ calls[p] = <<>>
    BY DEF Init
<1> QED
    BY <1>1, EmptyPod

-----------------------------------------------------------------------------
(* The call that has just been made, as the properties see it. *)
LEMMA LastIsAppended ==
    ASSUME TypeOK, NEW p \in Pods, NEW e \in Events,
           last'.calls = Append(calls[p], Call(e, now))
    PROVE  /\ last'.calls # <<>>
           /\ Len(calls[p]) \in Nat
           /\ Len(last'.calls) = Len(calls[p]) + 1
           /\ \A i \in 1..Len(calls[p]) : /\ last'.calls[i] = calls[p][i]
                                          /\ calls[p][i].time \in Nat
           /\ last'.calls[Len(last'.calls)].event = e
           /\ last'.calls[Len(last'.calls)].time = now
<1>1. calls[p] \in Calls /\ now \in Nat
    BY DEF TypeOK
<1>2. /\ Append(calls[p], Call(e, now)) # <<>>
      /\ Len(calls[p]) \in Nat
      /\ Len(Append(calls[p], Call(e, now))) = Len(calls[p]) + 1
      /\ \A i \in 1..Len(calls[p]) : /\ Append(calls[p], Call(e, now))[i] = calls[p][i]
                                     /\ calls[p][i] \in [event : Events, time : Nat]
      /\ Append(calls[p], Call(e, now))[Len(calls[p]) + 1] = Call(e, now)
    BY <1>1, AppendedCall
<1> QED
    BY <1>2 DEF Call

LEMMA FreshReport ==
    ASSUME TypeOK, StateInv, NEW p \in Pods, NEW e \in Events, Report(p, e)
    PROVE  EvidenceIsFresh'
<1>1. PICK c \in Completed(p, e) :
          last' = [chain |-> c, calls |-> Append(calls[p], Call(e, now))]
    BY DEF Report
<1>2. last'.chain = c /\ last'.calls = Append(calls[p], Call(e, now))
    BY <1>1
<1>3. c.needs \subseteq Kept(p) \cup e /\ c.trigger \in e
    BY DEF Completed
<1> DEFINE lc == last'.calls
<1>4. /\ Len(calls[p]) \in Nat
      /\ Len(lc) = Len(calls[p]) + 1
      /\ \A i \in 1..Len(calls[p]) : lc[i] = calls[p][i] /\ calls[p][i].time \in Nat
      /\ lc[Len(lc)].event = e
      /\ lc[Len(lc)].time = now
    BY <1>2, LastIsAppended
<1>t. now \in Nat /\ firstSeen[p] \in Nat /\ firstSeen[p] <= now
    BY DEF TypeOK
<1>5. ASSUME NEW s \in c.needs
      PROVE  \E i \in 1..Len(lc) : s \in lc[i].event /\ lc[Len(lc)].time - lc[i].time <= Window
  <2>1. CASE s \in e
      BY <2>1, <1>4, <1>t
  <2>2. CASE s \in Kept(p)
    <3>1. s \in steps[p] /\ ~Expired(p)
        BY <2>2 DEF Kept
    <3>2. PodInv(steps[p], firstSeen[p], calls[p])
        BY DEF StateInv
    <3>3. firstSeen[p] # NoState
        BY <3>1, <3>2 DEF PodInv, Begun
    <3>4. now - firstSeen[p] <= Window
        BY <3>1, <3>3, <1>t DEF Expired
    <3>5. PICK i \in 1..Len(calls[p]) :
              s \in calls[p][i].event /\ firstSeen[p] <= calls[p][i].time
        BY <3>1, <3>2 DEF PodInv, Evidence
    <3>6. i \in 1..Len(lc) /\ lc[i] = calls[p][i] /\ calls[p][i].time \in Nat
        BY <1>4
    <3>7. now - calls[p][i].time <= Window
        BY <3>4, <3>5, <3>6, <1>t
    <3> QED
        BY <3>5, <3>6, <3>7, <1>4
  <2> QED
      BY <2>1, <2>2, <1>3
<1>6. EvidenceIsFresh' <=>
          (c # NoChain =>
              /\ c.trigger \in lc[Len(lc)].event
              /\ \A s \in c.needs : \E i \in 1..Len(lc) :
                    s \in lc[i].event /\ lc[Len(lc)].time - lc[i].time <= Window)
    BY <1>2 DEF EvidenceIsFresh, LastCall, Fresh
<1> QED
    BY <1>3, <1>4, <1>5, <1>6

(* What is reported happened, to this pod, within the window and after its  *)
(* last report.                                                             *)
THEOREM EvidenceIsFreshCorrect == Spec => []EvidenceIsFresh
<1>1. Init => EvidenceIsFresh
    BY DEF Init, EvidenceIsFresh
<1>2. TypeOK /\ StateInv /\ EvidenceIsFresh /\ [Next]_vars => EvidenceIsFresh'
  <2> SUFFICES ASSUME TypeOK, StateInv, EvidenceIsFresh, [Next]_vars PROVE EvidenceIsFresh'
      OBVIOUS
  <2>1. CASE last' = last
      BY <2>1 DEF EvidenceIsFresh, LastCall, Fresh
  <2>2. ASSUME NEW p \in Pods, NEW e \in Events, Remember(p, e) PROVE EvidenceIsFresh'
    <3>1. last'.chain = NoChain
        BY <2>2 DEF Remember
    <3> QED
        BY <3>1 DEF EvidenceIsFresh
  <2>3. ASSUME NEW p \in Pods, NEW e \in Events, Report(p, e) PROVE EvidenceIsFresh'
      BY <2>3, FreshReport
  <2> QED
      BY <2>1, <2>2, <2>3 DEF Next, DetectBehavior, Tick, vars
<1> QED
    BY <1>1, <1>2, TypeInit, TypeStep, StateInit, StateStep, PTL DEF Spec

-----------------------------------------------------------------------------
(* When all calls are fresh the state has forgotten none of them, so that   *)
(* what the calls show is what the state completes.                         *)
LEMMA BurstIsKept ==
    ASSUME TypeOK, StateInv, NEW p \in Pods,
           \A i \in 1..Len(calls[p]) : now - calls[p][i].time <= Window
    PROVE  /\ Kept(p) = steps[p]
           /\ \A i \in 1..Len(calls[p]) : calls[p][i].event \cap Latches \subseteq steps[p]
<1>t. now \in Nat /\ firstSeen[p] \in Nat /\ firstSeen[p] <= now
    BY DEF TypeOK
<1>s. calls[p] \in Seq([event : Events, time : Nat])
  <2>1. calls[p] \in Calls
      BY DEF TypeOK
  <2> QED
      BY <2>1 DEF Calls
<1>n. \A i \in 1..Len(calls[p]) : calls[p][i].time \in Nat
  <2>1. \A i \in 1..Len(calls[p]) : calls[p][i] \in [event : Events, time : Nat]
      BY <1>s, ElementOf
  <2> QED
      BY <2>1
<1>p. PodInv(steps[p], firstSeen[p], calls[p])
    BY DEF StateInv
<1>1. ~Expired(p)
  <2> SUFFICES ASSUME Expired(p) PROVE FALSE
      OBVIOUS
  <2>1. PICK k \in 1..Len(calls[p]) : calls[p][k].time = firstSeen[p]
      BY <1>p DEF PodInv, Begun, Expired
  <2> QED
      BY <2>1, <1>t DEF Expired
<1>2. \A i \in 1..Len(calls[p]) : firstSeen[p] <= calls[p][i].time
  <2> SUFFICES ASSUME NEW i \in 1..Len(calls[p]), ~(firstSeen[p] <= calls[p][i].time)
               PROVE  FALSE
      OBVIOUS
  <2>1. calls[p][i].time < firstSeen[p]
      BY <1>n, <1>t
  <2>2. PICK j \in 1..Len(calls[p]) : calls[p][j].time + Window < firstSeen[p]
      BY <2>1, <1>p DEF PodInv, Forgotten
  <2>3. now - calls[p][j].time <= Window /\ calls[p][j].time \in Nat
      BY <1>n
  <2>4. calls[p][j].time + Window < firstSeen[p]
      BY <2>2
  <2> QED
      BY <2>3, <2>4, <1>t
<1>3. \A i \in 1..Len(calls[p]) : calls[p][i].event \cap Latches \subseteq steps[p]
    BY <1>2, <1>p DEF PodInv, Latched
<1> QED
    BY <1>1, <1>3 DEF Kept

(* FirstBurstIsReported of a record of the last call. *)
Burst(lc) == lc # <<>> /\ \A i \in 1..Len(lc) : lc[Len(lc)].time - lc[i].time <= Window

ShownBy(lc, c) ==
    /\ c.trigger \in lc[Len(lc)].event
    /\ \A s \in c.needs : \E i \in 1..Len(lc) : s \in lc[i].event
    /\ c.trigger = "exec" => \A i \in 1..(Len(lc) - 1) : "exec" \notin lc[i].event

LEMMA ShownIsCompleted ==
    ASSUME TypeOK, StateInv, NEW p \in Pods, NEW e \in Events,
           last'.calls = Append(calls[p], Call(e, now)),
           Burst(last'.calls), NEW c \in Chains, ShownBy(last'.calls, c)
    PROVE  c \in Completed(p, e)
<1> DEFINE lc == last'.calls
<1>4. /\ Len(calls[p]) \in Nat
      /\ Len(lc) = Len(calls[p]) + 1
      /\ \A i \in 1..Len(calls[p]) : lc[i] = calls[p][i]
      /\ lc[Len(lc)].event = e
      /\ lc[Len(lc)].time = now
    BY LastIsAppended
<1>i. \A i \in 1..Len(lc) : i = Len(lc) \/ i \in 1..Len(calls[p])
    BY <1>4
<1>j. \A i \in 1..Len(calls[p]) : i \in 1..Len(lc) /\ i \in 1..(Len(lc) - 1)
    BY <1>4
<1>1. \A i \in 1..Len(calls[p]) : now - calls[p][i].time <= Window
    BY <1>4, <1>j DEF Burst
<1>2. /\ Kept(p) = steps[p]
      /\ \A i \in 1..Len(calls[p]) : calls[p][i].event \cap Latches \subseteq steps[p]
    BY <1>1, BurstIsKept
<1>3. c.needs \subseteq Kept(p) \cup e
  <2> SUFFICES ASSUME NEW s \in c.needs, s \notin e PROVE s \in steps[p]
      BY <1>2
  <2>1. PICK i \in 1..Len(lc) : s \in lc[i].event
      BY DEF ShownBy
  <2>2. i \in 1..Len(calls[p]) /\ s \in calls[p][i].event
      BY <2>1, <1>4, <1>i
  <2>3. s \in Latches
      BY ChainsAreChains
  <2> QED
      BY <2>2, <2>3, <1>2
<1>5. c.trigger \in e
    BY <1>4 DEF ShownBy
<1>6. c.trigger \notin Kept(p) \cap {"exec"}
  <2> SUFFICES ASSUME c.trigger = "exec", "exec" \in steps[p] PROVE FALSE
      BY <1>2
  <2>1. PICK i \in 1..Len(calls[p]) : "exec" \in calls[p][i].event
      BY DEF StateInv, PodInv, Evidence
  <2> QED
      BY <2>1, <1>4, <1>j DEF ShownBy
<1> QED
    BY <1>3, <1>5, <1>6 DEF Completed

LEMMA BurstStep ==
    TypeOK /\ StateInv /\ FirstBurstIsReported /\ [Next]_vars => FirstBurstIsReported'
<1> SUFFICES ASSUME TypeOK, StateInv, FirstBurstIsReported, [Next]_vars
             PROVE  FirstBurstIsReported'
    OBVIOUS
<1>d. FirstBurstIsReported' <=>
          (Burst(last'.calls) =>
              \A c \in Chains : ShownBy(last'.calls, c) => last'.chain.rank \in 1..c.rank)
    BY DEF FirstBurstIsReported, Burst, Shows, ShownBy, LastCall, Fresh
<1>1. CASE last' = last
    BY <1>1 DEF FirstBurstIsReported, Shows, LastCall, Fresh
<1>2. ASSUME NEW p \in Pods, NEW e \in Events, Remember(p, e) PROVE FirstBurstIsReported'
  <2>1. last'.calls = Append(calls[p], Call(e, now)) /\ Completed(p, e) = {}
      BY <1>2 DEF Remember
  <2>2. ASSUME Burst(last'.calls), NEW c \in Chains, ShownBy(last'.calls, c) PROVE FALSE
      BY <2>1, <2>2, ShownIsCompleted
  <2> QED
      BY <2>2, <1>d
<1>3. ASSUME NEW p \in Pods, NEW e \in Events, Report(p, e) PROVE FirstBurstIsReported'
  <2>1. PICK r \in Completed(p, e) :
            /\ \A d \in Completed(p, e) : r.rank <= d.rank
            /\ last' = [chain |-> r, calls |-> Append(calls[p], Call(e, now))]
      BY <1>3 DEF Report
  <2>2. last'.chain = r /\ last'.calls = Append(calls[p], Call(e, now))
      BY <2>1
  <2>3. r \in Chains
      BY DEF Completed
  <2>4. ASSUME Burst(last'.calls), NEW c \in Chains, ShownBy(last'.calls, c)
        PROVE  r.rank \in 1..c.rank
    <3>1. c \in Completed(p, e)
        BY <2>2, <2>4, ShownIsCompleted
    <3>2. r.rank <= c.rank
        BY <2>1, <3>1
    <3>3. r.rank \in 1..5 /\ c.rank \in 1..5
        BY <2>3, ChainsAreChains
    <3> QED
        BY <3>2, <3>3
  <2> QED
      BY <2>2, <2>4, <1>d
<1> QED
    BY <1>1, <1>2, <1>3 DEF Next, DetectBehavior, Tick, vars

(* As long as a pod's calls since its last report all fall in one window,   *)
(* the chain that they show is reported when its last step is taken.        *)
THEOREM FirstBurstIsReportedCorrect == Spec => []FirstBurstIsReported
<1>1. Init => FirstBurstIsReported
    BY DEF Init, FirstBurstIsReported
<1> QED
    BY <1>1, BurstStep, TypeInit, TypeStep, StateInit, StateStep, PTL DEF Spec
=============================================================================
