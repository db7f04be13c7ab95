-------------------------- MODULE DashboardProofs ---------------------------
(***************************************************************************)
(* What the runs of Dashboard check, for every number of alerts and every  *)
(* limit of the lists.  IInv is the inductive invariant: besides the       *)
(* properties it says what the messages that are under way look like.      *)
(***************************************************************************)
EXTENDS Dashboard, FiniteSetTheorems, TLAPS

USE MaxAlertsNat, MaxShownPos, LimitsPos, MaxRequestsNat

-----------------------------------------------------------------------------
(* Sequences and the elements in them. *)

Injective(s) == \A i, j \in DOMAIN s : i # j => s[i] # s[j]

(* The elements of a sequence are of its type. *)
LEMMA InSeqType ==
    ASSUME NEW S, NEW s \in Seq(S)
    PROVE  InSeq(s) \subseteq S
BY DEF InSeq

(* A concatenation has the elements of both sequences. *)
LEMMA InSeqConcat ==
    ASSUME NEW S, NEW s \in Seq(S), NEW t \in Seq(S)
    PROVE  /\ s \o t \in Seq(S)
           /\ InSeq(s \o t) = InSeq(s) \cup InSeq(t)
<1>1. /\ s \o t \in Seq(S)
      /\ Len(s \o t) = Len(s) + Len(t)
      /\ Len(s) \in Nat /\ Len(t) \in Nat
      /\ DOMAIN s = 1..Len(s) /\ DOMAIN t = 1..Len(t)
      /\ DOMAIN (s \o t) = 1..(Len(s) + Len(t))
    OBVIOUS
<1>2. \A i \in 1..(Len(s) + Len(t)) :
         (s \o t)[i] = IF i <= Len(s) THEN s[i] ELSE t[i - Len(s)]
    BY <1>1
<1>3. InSeq(s \o t) \subseteq InSeq(s) \cup InSeq(t)
  <2> SUFFICES ASSUME NEW i \in 1..(Len(s) + Len(t))
               PROVE  (s \o t)[i] \in InSeq(s) \cup InSeq(t)
      BY <1>1 DEF InSeq
  <2>1. CASE i <= Len(s)
      BY <1>1, <1>2, <2>1 DEF InSeq
  <2>2. CASE ~(i <= Len(s))
    <3>1. i - Len(s) \in DOMAIN t
        BY <1>1, <2>2
    <3> QED BY <1>2, <2>2, <3>1 DEF InSeq
  <2> QED BY <2>1, <2>2
<1>4. InSeq(s) \subseteq InSeq(s \o t)
  <2> SUFFICES ASSUME NEW i \in DOMAIN s PROVE s[i] \in InSeq(s \o t)
      BY DEF InSeq
  <2>1. i \in 1..(Len(s) + Len(t)) /\ i <= Len(s)
      BY <1>1
  <2> QED BY <1>1, <1>2, <2>1 DEF InSeq
<1>5. InSeq(t) \subseteq InSeq(s \o t)
  <2> SUFFICES ASSUME NEW i \in DOMAIN t PROVE t[i] \in InSeq(s \o t)
      BY DEF InSeq
  <2> DEFINE j == i + Len(s)
  <2>1. j \in 1..(Len(s) + Len(t)) /\ ~(j <= Len(s)) /\ j - Len(s) = i
      BY <1>1
  <2> HIDE DEF j
  <2>2. (s \o t)[j] = t[i]
      BY <1>2, <2>1
  <2> QED BY <1>1, <2>1, <2>2 DEF InSeq
<1> QED BY <1>1, <1>3, <1>4, <1>5

(* Nothing occurs twice in a concatenation of two such sequences that have *)
(* nothing in common.                                                       *)
LEMMA InjectiveConcat ==
    ASSUME NEW S, NEW s \in Seq(S), NEW t \in Seq(S),
           Injective(s), Injective(t), InSeq(s) \cap InSeq(t) = {}
    PROVE  Injective(s \o t)
<1>1. /\ Len(s) \in Nat /\ Len(t) \in Nat
      /\ DOMAIN s = 1..Len(s) /\ DOMAIN t = 1..Len(t)
      /\ DOMAIN (s \o t) = 1..(Len(s) + Len(t))
    OBVIOUS
<1>2. \A i \in 1..(Len(s) + Len(t)) :
         (s \o t)[i] = IF i <= Len(s) THEN s[i] ELSE t[i - Len(s)]
    BY <1>1
<1> SUFFICES ASSUME NEW i \in 1..(Len(s) + Len(t)), NEW j \in 1..(Len(s) + Len(t)), i < j
             PROVE  (s \o t)[i] # (s \o t)[j]
    BY <1>1 DEF Injective
<1>3. CASE j <= Len(s)
  <2>1. i \in DOMAIN s /\ j \in DOMAIN s /\ i <= Len(s) /\ i # j
      BY <1>1, <1>3
  <2>2. (s \o t)[i] = s[i] /\ (s \o t)[j] = s[j]
      BY <1>2, <1>3, <2>1
  <2> QED BY <2>1, <2>2 DEF Injective
<1>4. CASE ~(i <= Len(s))
  <2> DEFINE k == i - Len(s)
             l == j - Len(s)
  <2>1. k \in DOMAIN t /\ l \in DOMAIN t /\ k # l /\ ~(j <= Len(s))
      BY <1>1, <1>4
  <2>2. (s \o t)[i] = t[k] /\ (s \o t)[j] = t[l]
      BY <1>2, <1>4, <2>1
  <2> HIDE DEF k, l
  <2> QED BY <2>1, <2>2 DEF Injective
<1>5. CASE i <= Len(s) /\ ~(j <= Len(s))
  <2>1. i \in DOMAIN s /\ j - Len(s) \in DOMAIN t
      BY <1>1, <1>5
  <2>2. (s \o t)[i] = s[i] /\ (s \o t)[j] = t[j - Len(s)]
      BY <1>2, <1>5
  <2>3. s[i] \in InSeq(s) /\ t[j - Len(s)] \in InSeq(t)
      BY <2>1 DEF InSeq
  <2> QED BY <2>2, <2>3
<1> QED BY <1>1, <1>3, <1>4, <1>5

(* The elements of a sequence that is not empty: its head, and its tail's. *)
LEMMA InSeqTail ==
    ASSUME NEW S, NEW s \in Seq(S), s # <<>>
    PROVE  /\ Head(s) \in S /\ Tail(s) \in Seq(S)
           /\ InSeq(s) = {Head(s)} \cup InSeq(Tail(s))
<1>1. /\ Len(s) \in Nat /\ Len(s) > 0
      /\ DOMAIN s = 1..Len(s) /\ DOMAIN Tail(s) = 1..(Len(s) - 1)
      /\ Head(s) = s[1] /\ Head(s) \in S /\ Tail(s) \in Seq(S)
      /\ \A i \in 1..(Len(s) - 1) : Tail(s)[i] = s[i + 1]
    OBVIOUS
<1>2. InSeq(Tail(s)) \subseteq InSeq(s)
    BY <1>1 DEF InSeq
<1>3. Head(s) \in InSeq(s)
    BY <1>1 DEF InSeq
<1>4. \A i \in DOMAIN s : s[i] \in {Head(s)} \cup InSeq(Tail(s))
  <2> TAKE i \in DOMAIN s
  <2>1. CASE i = 1
      BY <1>1, <2>1
  <2>2. CASE i # 1
    <3>1. i - 1 \in 1..(Len(s) - 1) /\ (i - 1) + 1 = i
        BY <1>1, <2>2
    <3> QED BY <1>1, <3>1 DEF InSeq
  <2> QED BY <2>1, <2>2
<1>5. InSeq(s) \subseteq {Head(s)} \cup InSeq(Tail(s))
    BY <1>4 DEF InSeq
<1> QED BY <1>1, <1>2, <1>3, <1>5

(* The sequence of one element. *)
LEMMA InSeqOne ==
    ASSUME NEW S, NEW a \in S
    PROVE  <<a>> \in Seq(S) /\ InSeq(<<a>>) = {a} /\ Injective(<<a>>)
BY DEF InSeq, Injective

(* Appending adds the element. *)
LEMMA InSeqAppend ==
    ASSUME NEW S, NEW s \in Seq(S), NEW a \in S
    PROVE  Append(s, a) \in Seq(S) /\ InSeq(Append(s, a)) = InSeq(s) \cup {a}
<1> DEFINE t == Append(s, a)
<1>1. /\ Len(s) \in Nat /\ DOMAIN s = 1..Len(s)
      /\ t \in Seq(S) /\ Len(t) = Len(s) + 1
      /\ DOMAIN t = 1..(Len(s) + 1)
      /\ \A i \in 1..Len(s) : t[i] = s[i]
      /\ t[Len(s) + 1] = a
    OBVIOUS
<1> HIDE DEF t
<1>2. InSeq(t) \subseteq InSeq(s) \cup {a}
  <2> SUFFICES ASSUME NEW i \in 1..(Len(s) + 1) PROVE t[i] \in InSeq(s) \cup {a}
      BY <1>1 DEF InSeq
  <2>1. i \in 1..Len(s) \/ i = Len(s) + 1
      BY <1>1
  <2> QED BY <1>1, <2>1 DEF InSeq
<1>3. InSeq(s) \subseteq InSeq(t)
    BY <1>1 DEF InSeq
<1>4. a \in InSeq(t)
  <2>1. Len(s) + 1 \in DOMAIN t
      BY <1>1
  <2> QED BY <1>1, <2>1 DEF InSeq
<1> QED BY <1>1, <1>2, <1>3, <1>4 DEF t

(* A piece of a sequence. *)
LEMMA InSeqSub ==
    ASSUME NEW S, NEW s \in Seq(S), NEW m \in 1..(Len(s) + 1), NEW n \in 0..Len(s)
    PROVE  /\ SubSeq(s, m, n) \in Seq(S)
           /\ InSeq(SubSeq(s, m, n)) = {s[i] : i \in m..n}
           /\ Injective(s) => Injective(SubSeq(s, m, n))
<1> DEFINE u == SubSeq(s, m, n)
<1>1. /\ Len(s) \in Nat /\ DOMAIN s = 1..Len(s)
      /\ u \in Seq(S)
      /\ DOMAIN u = 1..(n - m + 1)
      /\ \A i \in 1..(n - m + 1) : u[i] = s[m + i - 1]
    OBVIOUS
<1> HIDE DEF u
<1>2. InSeq(u) \subseteq {s[i] : i \in m..n}
  <2>1. \A i \in 1..(n - m + 1) : m + i - 1 \in m..n
      BY <1>1
  <2> QED BY <1>1, <2>1 DEF InSeq
<1>3. {s[i] : i \in m..n} \subseteq InSeq(u)
  <2> SUFFICES ASSUME NEW i \in m..n PROVE s[i] \in InSeq(u)
      OBVIOUS
  <2>1. i - m + 1 \in 1..(n - m + 1) /\ m + (i - m + 1) - 1 = i
      BY <1>1
  <2> QED BY <1>1, <2>1 DEF InSeq
<1>4. ASSUME Injective(s) PROVE Injective(u)
  <2> SUFFICES ASSUME NEW i \in DOMAIN u, NEW j \in DOMAIN u, i # j
               PROVE  u[i] # u[j]
      BY DEF Injective
  <2>1. m + i - 1 \in DOMAIN s /\ m + j - 1 \in DOMAIN s /\ m + i - 1 # m + j - 1
      BY <1>1
  <2> QED BY <1>1, <1>4, <2>1 DEF Injective
<1> QED BY <1>1, <1>2, <1>3, <1>4 DEF u

-----------------------------------------------------------------------------
(* The operators of AlertList. *)

(* Cut keeps the beginning, and drops nothing as long as MaxShown is not reached. *)
LEMMA Cutting ==
    ASSUME NEW S, NEW s \in Seq(S)
    PROVE  /\ Cut(s) \in Seq(S)
           /\ InSeq(Cut(s)) \subseteq InSeq(s)
           /\ Injective(s) => Injective(Cut(s))
           /\ Len(Cut(s)) # MaxShown => Cut(s) = s
<1> DEFINE n == IF Len(s) < MaxShown THEN Len(s) ELSE MaxShown
<1>1. n \in 0..Len(s) /\ 1 \in 1..(Len(s) + 1) /\ Len(s) \in Nat
    OBVIOUS
<1>2. Cut(s) = SubSeq(s, 1, n)
    BY DEF Cut
<1>3. Len(SubSeq(s, 1, n)) = n
    BY <1>1
<1>4. ASSUME n # MaxShown PROVE SubSeq(s, 1, n) = s
  <2>1. n = Len(s)
      BY <1>4
  <2> QED BY <2>1
<1> HIDE DEF n
<1>5. /\ SubSeq(s, 1, n) \in Seq(S)
      /\ InSeq(SubSeq(s, 1, n)) = {s[i] : i \in 1..n}
      /\ Injective(s) => Injective(SubSeq(s, 1, n))
    BY <1>1, InSeqSub
<1>6. {s[i] : i \in 1..n} \subseteq InSeq(s)
  <2>1. 1..n \subseteq DOMAIN s
      BY <1>1
  <2> QED BY <2>1 DEF InSeq
<1> QED BY <1>2, <1>3, <1>4, <1>5, <1>6

(* Without takes off one element and no other. *)
LEMMA Removing ==
    ASSUME NEW S, NEW s \in Seq(S), NEW a
    PROVE  /\ Without(s, a) \in Seq(S)
           /\ InSeq(s) \ {a} \subseteq InSeq(Without(s, a))
           /\ InSeq(Without(s, a)) \subseteq InSeq(s)
           /\ Injective(s) => /\ Injective(Without(s, a))
                              /\ a \notin InSeq(Without(s, a))
<1>1. CASE a \notin InSeq(s)
    BY <1>1 DEF Without
<1>2. CASE a \in InSeq(s)
  <2> DEFINE i == CHOOSE i \in DOMAIN s : s[i] = a
             u == SubSeq(s, 1, i - 1)
             v == SubSeq(s, i + 1, Len(s))
  <2>1. i \in DOMAIN s /\ s[i] = a
      BY <1>2 DEF InSeq
  <2>2. Without(s, a) = u \o v
      BY <1>2 DEF Without
  <2> HIDE DEF i
  <2>3. Len(s) \in Nat /\ DOMAIN s = 1..Len(s) /\ i \in 1..Len(s)
      BY <2>1
  <2>4. /\ 1 \in 1..(Len(s) + 1) /\ i - 1 \in 0..Len(s)
        /\ i + 1 \in 1..(Len(s) + 1) /\ Len(s) \in 0..Len(s)
      BY <2>3
  <2>5. /\ u \in Seq(S) /\ InSeq(u) = {s[k] : k \in 1..(i - 1)}
        /\ Injective(s) => Injective(u)
      BY <2>4, InSeqSub
  <2>6. /\ v \in Seq(S) /\ InSeq(v) = {s[k] : k \in (i + 1)..Len(s)}
        /\ Injective(s) => Injective(v)
      BY <2>4, InSeqSub
  <2> HIDE DEF u, v
  <2>7. u \o v \in Seq(S) /\ InSeq(u \o v) = InSeq(u) \cup InSeq(v)
      BY <2>5, <2>6, InSeqConcat
  <2>8. \A k \in 1..Len(s) : k \in 1..(i - 1) \/ k = i \/ k \in (i + 1)..Len(s)
      BY <2>3
  <2>9. InSeq(s) \ {a} \subseteq InSeq(u) \cup InSeq(v)
      BY <2>1, <2>3, <2>5, <2>6, <2>8 DEF InSeq
  <2>10. 1..(i - 1) \subseteq 1..Len(s) /\ (i + 1)..Len(s) \subseteq 1..Len(s)
      BY <2>3
  <2>11. InSeq(u) \cup InSeq(v) \subseteq InSeq(s)
      BY <2>3, <2>5, <2>6, <2>10 DEF InSeq
  <2>12. ASSUME Injective(s)
         PROVE  Injective(u \o v) /\ a \notin InSeq(u) \cup InSeq(v)
    <3>1. \A k \in 1..(i - 1), l \in (i + 1)..Len(s) : k # l /\ k # i /\ l # i
        BY <2>3
    <3>2. InSeq(u) \cap InSeq(v) = {}
        BY <2>3, <2>5, <2>6, <2>10, <2>12, <3>1 DEF Injective
    <3>3. a \notin InSeq(u) \cup InSeq(v)
      <4>1. \A k \in 1..Len(s) : k # i => s[k] # a
          BY <2>1, <2>3, <2>12 DEF Injective
      <4>2. /\ \A k \in 1..(i - 1) : k # i
            /\ \A k \in (i + 1)..Len(s) : k # i
          BY <2>3
      <4> QED BY <2>5, <2>6, <2>10, <4>1, <4>2
    <3> QED BY <2>5, <2>6, <2>12, <3>2, <3>3, InjectiveConcat
  <2> QED BY <2>2, <2>7, <2>9, <2>11, <2>12
<1> QED BY <1>1, <1>2

(* NewestFirst gives sequences of the set, without a repetition. *)
LEMMA Sorting ==
    ASSUME NEW S \in SUBSET Alerts, NEW s \in NewestFirst(S)
    PROVE  s \in Seq(S) /\ InSeq(s) = S /\ Injective(s)
<1>1. IsFiniteSet(S)
  <2>1. IsFiniteSet(1..MaxAlerts)
      BY FS_Interval
  <2> QED BY <2>1, FS_Subset DEF Alerts
<1>2. Cardinality(S) \in Nat
    BY <1>1, FS_CardinalityType
<1>3. /\ s \in [1..Cardinality(S) -> S] /\ InSeq(s) = S
      /\ \A i, j \in DOMAIN s : i < j => s[i] > s[j]
    BY DEF NewestFirst
<1>4. s \in Seq(S)
    BY <1>2, <1>3
<1>5. ASSUME NEW i \in DOMAIN s, NEW j \in DOMAIN s, i # j PROVE s[i] # s[j]
  <2>1. i \in Nat /\ j \in Nat
      BY <1>2, <1>3
  <2>2. s[i] \in S /\ s[j] \in S
      BY <1>3
  <2>3. s[i] \in Int /\ s[j] \in Int
    <3>1. S \subseteq Int
        BY DEF Alerts
    <3> QED BY <2>2, <3>1
  <2>4. CASE i < j
      BY <1>3, <2>3, <2>4
  <2>5. CASE j < i
      BY <1>3, <2>3, <2>5
  <2> QED BY <1>5, <2>1, <2>4, <2>5
<1> QED BY <1>3, <1>4, <1>5 DEF Injective

-----------------------------------------------------------------------------
(* The inductive invariant. *)

(* The list holds alerts, each once. *)
ListInv == ListTypeOK(Alerts) /\ Injective(alerts)

(* A message says acknowledged only of its own alerts; a live one brings one *)
(* alert, as it was posted.                                                   *)
MessageOK(m) ==
    /\ m \in Message
    /\ m.acked \subseteq m.alerts
    /\ m.live => m.acked = {} /\ \E a \in Alerts : m.alerts = {a}

ServerInv ==
    /\ hub \in Seq(Alerts)
    /\ peer \in {"none", "registered", "live"}
    /\ feed \in Seq(Message)
    /\ \A m \in InSeq(feed) : MessageOK(m)

LoadInv ==
    /\ boot \in {"off", "asked", "answered", "done"}
    /\ MessageOK(loaded)

RequestsInv ==
    /\ answered \subseteq Requests
    /\ done \subseteq Requests /\ late \subseteq done

ConnInv == ClientTypeOK /\ mounted \in BOOLEAN /\ ConnectionIsKept

(* What the store has of the alerts that this user has deleted or acknowledged. *)
ServedInv ==
    \A a \in Alerts :
        /\ <<"delete", a>> \in answered \cup done => a \in posted \ stored
        /\ <<"ack", a>> \in answered \cup done => a \in posted /\ (a \in stored => a \in acked)

(* Such an alert is not under way in an older state, once its answer has come in time. *)
NotOlder(m) ==
    \A a \in m.alerts :
        /\ <<"delete", a>> \notin done \ late
        /\ <<"ack", a>> \in done \ late => a \in m.acked

UnderWayInv ==
    /\ \A a \in InSeq(hub) : <<"delete", a>> \notin done \ late /\ <<"ack", a>> \notin done \ late
    /\ \A m \in InSeq(feed) : NotOlder(m)
    /\ NotOlder(loaded)

IInv ==
    /\ StoreTypeOK /\ ConnInv /\ ListInv
    /\ ServerInv /\ LoadInv /\ RequestsInv /\ due \subseteq Alerts
    /\ CaughtUp /\ ServedInv /\ UnderWayInv /\ ChoicesStick

-----------------------------------------------------------------------------
(* The cases of the reducer. *)

(* New alerts at the head: they are shown, or MaxShown has cut them off; *)
(* nothing else comes, and nothing that was acknowledged is shown as new. *)
LEMMA Prepending ==
    ASSUME ListInv, NEW S \in SUBSET Alerts, S \cap Shown = {}, NEW K \in SUBSET S,
           NEW new \in Seq(Alerts), InSeq(new) = S, Injective(new), Prepend(new, K)
    PROVE  /\ ListInv'
           /\ Shown' \subseteq Shown \cup S
           /\ Shown \cup S \cup excused \subseteq Shown' \cup excused'
           /\ Shown' \cap (acks \cup K) \subseteq acks'
<1> DEFINE all == new \o alerts
           list == Cut(all)
<1>1. /\ alerts \in Seq(Alerts) /\ acks \subseteq Shown /\ excused \subseteq Alerts
      /\ Injective(alerts)
    BY DEF ListInv, ListTypeOK
<1>2. all \in Seq(Alerts) /\ InSeq(all) = S \cup Shown
    BY <1>1, InSeqConcat DEF Shown
<1>3. Injective(all)
    BY <1>1, InjectiveConcat DEF Shown
<1> HIDE DEF all
<1>4. /\ list \in Seq(Alerts) /\ InSeq(list) \subseteq InSeq(all) /\ Injective(list)
      /\ Len(list) # MaxShown => list = all
    BY <1>2, <1>3, Cutting
<1>5. /\ alerts' = list
      /\ acks' = (acks \cup K) \cap InSeq(list)
      /\ excused' = (IF Len(list) = MaxShown
                     THEN excused \cup Shown \cup InSeq(new)
                     ELSE excused) \ InSeq(list)
    BY DEF Prepend, all
<1> HIDE DEF list
<1>6. Shown' = InSeq(list)
    BY <1>5 DEF Shown
<1>7. excused' \subseteq Alerts
    BY <1>1, <1>5, InSeqType DEF Shown
<1>8. ListInv'
    BY <1>4, <1>5, <1>6, <1>7 DEF ListInv, ListTypeOK
<1>9. CASE Len(list) = MaxShown
  <2>1. excused' = (excused \cup Shown \cup S) \ InSeq(list)
      BY <1>5, <1>9
  <2> QED BY <1>2, <1>4, <1>5, <1>6, <1>8, <2>1
<1>10. CASE Len(list) # MaxShown
  <2>1. excused' = excused \ InSeq(list) /\ list = all
      BY <1>4, <1>5, <1>10
  <2> QED BY <1>2, <1>5, <1>6, <1>8, <2>1
<1> QED BY <1>9, <1>10

(* The list or the live alert that a message brings. *)
LEMMA Delivering ==
    ASSUME ListInv, NEW m, MessageOK(m),
           \/ m.live /\ \E a \in m.alerts : NewAlert(a)
           \/ ~m.live /\ WSInit(m.alerts, m.acked)
    PROVE  /\ ListInv'
           /\ Shown' \subseteq Shown \cup m.alerts
           /\ Shown \cup m.alerts \cup excused \subseteq Shown' \cup excused'
           /\ acks \cap Shown' \subseteq acks'
           /\ (m.acked \ Shown) \cap Shown' \subseteq acks'
<1>1. /\ m.alerts \in SUBSET Alerts /\ m.acked \subseteq m.alerts
      /\ m.live => m.acked = {} /\ \E a \in Alerts : m.alerts = {a}
    BY DEF MessageOK, Message
<1>2. ASSUME UNCHANGED listVars PROVE ListInv' /\ Shown' = Shown /\ acks' = acks /\ excused' = excused
    BY <1>2 DEF ListInv, ListTypeOK, Shown, listVars
<1>3. CASE m.live /\ \E a \in m.alerts : NewAlert(a)
  <2>1. PICK a \in Alerts : m.alerts = {a} /\ NewAlert(a)
      BY <1>1, <1>3
  <2>2. m.acked = {}
      BY <1>1, <1>3
  <2>3. CASE a \in Shown
    <3>1. UNCHANGED listVars
        BY <2>1, <2>3 DEF NewAlert
    <3> QED BY <1>2, <2>1, <2>2, <2>3, <3>1
  <2>4. CASE a \notin Shown
    <3>1. Prepend(<<a>>, {})
        BY <2>1, <2>4 DEF NewAlert
    <3>2. <<a>> \in Seq(Alerts) /\ InSeq(<<a>>) = {a} /\ Injective(<<a>>)
        BY InSeqOne
    <3>3. {a} \in SUBSET Alerts /\ {a} \cap Shown = {} /\ {} \in SUBSET {a}
        BY <2>4
    <3> HIDE DEF Prepend
    <3>4. /\ ListInv'
          /\ Shown' \subseteq Shown \cup {a}
          /\ Shown \cup {a} \cup excused \subseteq Shown' \cup excused'
          /\ Shown' \cap (acks \cup {}) \subseteq acks'
        BY <3>1, <3>2, <3>3, Prepending
    <3> QED BY <2>1, <2>2, <3>4
  <2> QED BY <2>3, <2>4
<1>4. CASE ~m.live /\ WSInit(m.alerts, m.acked)
  <2> DEFINE fresh == m.alerts \ Shown
             K == m.acked \cap fresh
  <2>1. CASE fresh = {}
    <3>1. UNCHANGED listVars
        BY <1>4, <2>1 DEF WSInit
    <3> QED BY <1>1, <1>2, <2>1, <3>1
  <2>2. CASE fresh # {}
    <3>1. PICK new \in NewestFirst(fresh) : Prepend(new, K)
        BY <1>4, <2>2 DEF WSInit
    <3>2. fresh \in SUBSET Alerts /\ fresh \cap Shown = {} /\ K \in SUBSET fresh
        BY <1>1
    <3> HIDE DEF fresh, K
    <3>3. new \in Seq(fresh) /\ InSeq(new) = fresh /\ Injective(new)
        BY <3>1, <3>2, Sorting
    <3>4. new \in Seq(Alerts)
        BY <3>2, <3>3
    <3>5. /\ ListInv'
          /\ Shown' \subseteq Shown \cup fresh
          /\ Shown \cup fresh \cup excused \subseteq Shown' \cup excused'
          /\ Shown' \cap (acks \cup K) \subseteq acks'
        BY <3>1, <3>2, <3>3, <3>4, Prepending
    <3> QED BY <1>1, <3>5 DEF fresh, K
  <2> QED BY <2>1, <2>2
<1> QED BY <1>3, <1>4

(* The load shows what it brings, and excuses what it replaces. *)
LEMMA Loading ==
    ASSUME ListInv, MessageOK(loaded), InitData(loaded.alerts, loaded.acked)
    PROVE  /\ ListInv'
           /\ Shown' = loaded.alerts
           /\ Shown \cup excused \subseteq Shown' \cup excused'
           /\ acks' = loaded.acked
<1>1. loaded.alerts \in SUBSET Alerts /\ loaded.acked \subseteq loaded.alerts
    BY DEF MessageOK, Message
<1>2. /\ alerts' \in NewestFirst(loaded.alerts)
      /\ acks' = loaded.acked
      /\ excused' = (excused \cup Shown) \ loaded.alerts
    BY DEF InitData
<1>3. alerts' \in Seq(loaded.alerts) /\ InSeq(alerts') = loaded.alerts /\ Injective(alerts')
    BY <1>1, <1>2, Sorting
<1>4. alerts' \in Seq(Alerts)
    BY <1>1, <1>3
<1>5. Shown' = loaded.alerts
    BY <1>3 DEF Shown
<1>6. excused \subseteq Alerts /\ Shown \subseteq Alerts
    BY InSeqType DEF ListInv, ListTypeOK, Shown
<1>7. excused' \subseteq Alerts
    BY <1>2, <1>6
<1>8. ListInv'
    BY <1>1, <1>2, <1>3, <1>4, <1>5, <1>7 DEF ListInv, ListTypeOK
<1> QED BY <1>2, <1>5, <1>8

(* A deleted alert is off the page, and only that one. *)
LEMMA Deleting ==
    ASSUME ListInv, NEW a \in Alerts, RemoveAlert(a)
    PROVE  /\ ListInv'
           /\ Shown' = Shown \ {a}
           /\ excused' = excused \cup {a}
           /\ acks' = acks \ {a}
<1>1. /\ alerts \in Seq(Alerts) /\ acks \subseteq Shown /\ excused \subseteq Alerts
      /\ Injective(alerts)
    BY DEF ListInv, ListTypeOK
<1>2. /\ alerts' = Without(alerts, a)
      /\ acks' = acks \ {a} /\ excused' = excused \cup {a}
    BY DEF RemoveAlert
<1>3. /\ alerts' \in Seq(Alerts) /\ Injective(alerts')
      /\ InSeq(alerts') = InSeq(alerts) \ {a}
    BY <1>1, <1>2, Removing
<1>4. Shown' = Shown \ {a}
    BY <1>3 DEF Shown
<1> QED BY <1>1, <1>2, <1>3, <1>4 DEF ListInv, ListTypeOK

(* An acknowledged alert stays on the page. *)
LEMMA Acknowledging ==
    ASSUME ListInv, NEW a \in Alerts, AckAlert(a)
    PROVE  /\ ListInv'
           /\ Shown' = Shown /\ excused' = excused
           /\ acks' = acks \cup ({a} \cap Shown)
BY DEF ListInv, ListTypeOK, AckAlert, Shown

(* A cleared list is empty, and another page's too. *)
LEMMA Emptying ==
    ASSUME ListInv, ClearList \/ ListReset
    PROVE  /\ ListInv'
           /\ Shown' = {} /\ acks' = {}
           /\ ClearList => Shown \cup excused \subseteq excused'
<1>1. alerts' = <<>> /\ acks' = {}
    BY DEF ClearList, ListReset
<1>2. alerts' \in Seq(Alerts) /\ InSeq(alerts') = {} /\ Injective(alerts')
    BY <1>1 DEF InSeq, Injective
<1>3. Shown' = {}
    BY <1>2 DEF Shown
<1>4. Shown \subseteq Alerts /\ excused \subseteq Alerts
    BY InSeqType DEF ListInv, ListTypeOK, Shown
<1>5. excused' \subseteq Alerts
    BY <1>4 DEF ClearList, ListReset
<1> QED BY <1>1, <1>2, <1>3, <1>5 DEF ListInv, ListTypeOK, ClearList

-----------------------------------------------------------------------------
(* The messages that are under way. *)

(* A list that is read from the store is a message, and not older than what  *)
(* the user has done.                                                         *)
LEMMA Reading ==
    ASSUME StoreTypeOK, ServedInv, NEW limit
    PROVE  /\ MessageOK(NewestAlerts(limit))
           /\ NotOlder(NewestAlerts(limit))
           /\ NewestAlerts(limit).alerts = ListAlerts(limit, 0)
<1> DEFINE S == ListAlerts(limit, 0)
<1>1. S \subseteq stored /\ stored \subseteq Alerts
    BY DEF ListAlerts, StoreTypeOK
<1> HIDE DEF S
<1>2. NewestAlerts(limit) = [alerts |-> S, acked |-> S \cap acked, live |-> FALSE]
    BY DEF NewestAlerts, S
<1>3. MessageOK(NewestAlerts(limit))
    BY <1>1, <1>2 DEF MessageOK, Message
<1>4. ASSUME NEW a \in S
      PROVE  /\ <<"delete", a>> \notin done \ late
             /\ <<"ack", a>> \in done \ late => a \in S \cap acked
  <2>1. a \in Alerts /\ a \in stored
      BY <1>1
  <2>2. /\ <<"delete", a>> \in done => a \notin stored
        /\ <<"ack", a>> \in done => (a \in stored => a \in acked)
      BY <2>1 DEF ServedInv
  <2> QED BY <2>1, <2>2
<1>5. NotOlder(NewestAlerts(limit))
  <2> DEFINE m == NewestAlerts(limit)
  <2>1. m.alerts = S /\ m.acked = S \cap acked
      BY <1>2
  <2> HIDE DEF m
  <2>2. NotOlder(m)
      BY <1>4, <2>1 DEF NotOlder
  <2> QED BY <2>2 DEF m
<1> QED BY <1>2, <1>3, <1>5 DEF S

(* No message. *)
LEMMA NothingOK == MessageOK(Nothing) /\ NotOlder(Nothing)
BY DEF MessageOK, NotOlder, Nothing, Message

(* A live alert as a message. *)
LEMMA LiveOK ==
    ASSUME NEW a \in Alerts
    PROVE  MessageOK([alerts |-> {a}, acked |-> {}, live |-> TRUE])
BY DEF MessageOK, Message

(* What is under way, after a message is put behind, before, or taken off. *)
LEMMA Feeding ==
    ASSUME NEW f \in Seq(Message), NEW m \in Message
    PROVE  /\ Append(f, m) \in Seq(Message) /\ InSeq(Append(f, m)) = InSeq(f) \cup {m}
           /\ <<m>> \o f \in Seq(Message) /\ InSeq(<<m>> \o f) = InSeq(f) \cup {m}
<1> DEFINE one == <<m>>
<1>1. one \in Seq(Message) /\ InSeq(one) = {m}
    BY InSeqOne
<1> HIDE DEF one
<1>2. Append(f, m) \in Seq(Message) /\ InSeq(Append(f, m)) = InSeq(f) \cup {m}
    BY InSeqAppend
<1>3. /\ one \o f \in Seq(Message)
      /\ InSeq(one \o f) = InSeq(one) \cup InSeq(f)
    BY <1>1, InSeqConcat
<1>4. InSeq(one \o f) = InSeq(f) \cup {m}
    BY <1>1, <1>3
<1> QED BY <1>2, <1>3, <1>4 DEF one

-----------------------------------------------------------------------------
(* Every step preserves the invariant, part by part. *)

(* Which variables an action may change. *)
LEMMA WhoChanges ==
    ASSUME [Next]_vars
    PROVE  /\ \/ UNCHANGED storeVars
              \/ \E a \in Alerts : Post(a)
              \/ \E r \in Requests : Serve(r[1], r[2])
              \/ Purge
           /\ \/ UNCHANGED <<clientVars, mounted>>
              \/ SocketOpens \/ SocketCloses \/ Reconnect \/ ReconnectWS
              \/ Mount \/ Unmount
           /\ \/ UNCHANGED <<alerts, acks, excused>>
              \/ Unmount \/ Deliver \/ Load \/ ClearAlerts
              \/ \E r \in Requests : Answer(r[1], r[2])
           /\ \/ UNCHANGED serverVars
              \/ \E a \in Alerts : Post(a)
              \/ HubSends \/ Register \/ SendList \/ Deliver
              \/ Hangup
           /\ \/ UNCHANGED bootVars
              \/ AnswerLoad \/ Mount \/ Unmount \/ Load
           /\ \/ UNCHANGED userVars
              \/ \E r \in Requests : Serve(r[1], r[2])
              \/ \E r \in Requests : Answer(r[1], r[2])
              \/ Unmount
           /\ \/ UNCHANGED due
              \/ \E a \in Alerts : Post(a)
              \/ HubSends \/ SendList \/ Unmount
              \/ Forget
<1>1. CASE UNCHANGED vars
    BY <1>1 DEF vars, storeVars, serverVars, clientVars, bootVars, listVars, userVars
<1>2. CASE Controller
    BY <1>2 DEF Controller, Post, HubSends, Register, SendList, AnswerLoad, Serve, Purge,
        browserVars, storeVars, serverVars, clientVars, bootVars, listVars, userVars
<1>3. CASE Connection
    BY <1>3 DEF Connection, SocketOpens, SocketCloses, Reconnect, ReconnectWS, Mount, Unmount,
        Hangup, storeVars, serverVars, clientVars, bootVars, listVars, userVars
<1>4. CASE Page
    BY <1>4 DEF Page, Deliver, Load, Answer, ClearAlerts,
        pageRest, storeVars, serverVars, clientVars, bootVars, listVars, userVars
<1> QED BY <1>1, <1>2, <1>3, <1>4 DEF Next

(* The store. *)
LEMMA StoreStep ==
    ASSUME StoreTypeOK, [Next]_vars
    PROVE  StoreTypeOK'
<1>1. ASSUME NEW a \in Alerts, Post(a) PROVE StoreTypeOK'
    BY <1>1 DEF StoreTypeOK, Post, SaveAlert
<1>2. ASSUME NEW r \in Requests, Serve(r[1], r[2]) PROVE StoreTypeOK'
    BY <1>2 DEF StoreTypeOK, Serve, AcknowledgeAlert, DeleteAlert
<1>3. ASSUME Purge PROVE StoreTypeOK'
    BY <1>3 DEF StoreTypeOK, Purge, PurgeOlderThan
<1>4. ASSUME UNCHANGED storeVars PROVE StoreTypeOK'
    BY <1>4 DEF StoreTypeOK, storeVars
<1> QED BY <1>1, <1>2, <1>3, <1>4, WhoChanges

(* The connection: a timer runs exactly while there is nothing to wait for. *)
LEMMA ConnStep ==
    ASSUME ConnInv, [Next]_vars
    PROVE  ConnInv'
<1> USE DEF ConnInv, ClientTypeOK, ConnectionIsKept, Live
<1>0. ClearTimeout(timers) = 0
    BY DEF ClearTimeout
<1>1. ASSUME SocketOpens PROVE ConnInv'
    BY <1>1 DEF SocketOpens, Opens
<1>2. ASSUME SocketCloses PROVE ConnInv'
    BY <1>2 DEF SocketCloses, Closes
<1>3. ASSUME Reconnect PROVE ConnInv'
    BY <1>3 DEF Reconnect, TimerFires, Connect, ClearTimeout
<1>4. ASSUME ReconnectWS PROVE ConnInv'
  <2>1. ~destroyed' /\ destroyed' \in BOOLEAN /\ mounted' /\ mounted' \in BOOLEAN
      BY <1>4, Zenon DEF ReconnectWS, ForceReconnect
  <2>2. Connect("null", 0, FALSE)
      BY <1>4, <1>0 DEF ReconnectWS, ForceReconnect
  <2>3. \/ ws' = "connecting" /\ timers' = 0 /\ status' = "connecting"
        \/ ws' = "null" /\ timers' = 1 /\ status' = "error"
      BY <2>2 DEF Connect, ClearTimeout
  <2> QED BY <2>1, <2>3
<1>5. ASSUME Mount PROVE ConnInv'
  <2>1. ~destroyed' /\ destroyed' \in BOOLEAN /\ mounted' /\ mounted' \in BOOLEAN
      BY <1>5, Zenon DEF Mount, Start
  <2>2. ws = "null" /\ timers = 0
      BY <1>5 DEF Mount
  <2>3. Connect("null", 0, FALSE)
      BY <1>5, <2>2 DEF Mount, Start
  <2>4. \/ ws' = "connecting" /\ timers' = 0 /\ status' = "connecting"
        \/ ws' = "null" /\ timers' = 1 /\ status' = "error"
      BY <2>3 DEF Connect, ClearTimeout
  <2> QED BY <2>1, <2>4
<1>6. ASSUME Unmount PROVE ConnInv'
  <2>1. destroyed' \in BOOLEAN /\ ~mounted' /\ mounted' \in BOOLEAN
      BY <1>6, Zenon DEF Unmount, Disconnect
  <2>2. timers' = 0 /\ ws' = "null" /\ status' = "disconnected"
      BY <1>0, <1>6 DEF Unmount, Disconnect
  <2> QED BY <2>1, <2>2
<1>7. ASSUME UNCHANGED <<clientVars, mounted>> PROVE ConnInv'
    BY <1>7 DEF clientVars
<1> QED BY <1>1, <1>2, <1>3, <1>4, <1>5, <1>6, <1>7, WhoChanges

(* The list. *)
LEMMA ListStep ==
    ASSUME ListInv, ServerInv, LoadInv, [Next]_vars
    PROVE  ListInv'
<1>1. ASSUME Unmount PROVE ListInv'
    BY <1>1, Emptying DEF Unmount
<1>2. ASSUME Deliver PROVE ListInv'
  <2>1. Head(feed) \in InSeq(feed)
      BY <1>2, InSeqTail DEF Deliver, ServerInv
  <2>2. MessageOK(Head(feed))
      BY <2>1 DEF ServerInv
  <2> QED BY <1>2, <2>2, Delivering DEF Deliver
<1>3. ASSUME Load PROVE ListInv'
    BY <1>3, Loading DEF Load, LoadInv
<1>4. ASSUME ClearAlerts PROVE ListInv'
    BY <1>4, Emptying DEF ClearAlerts
<1>5. ASSUME NEW r \in Requests, Answer(r[1], r[2]) PROVE ListInv'
  <2>1. r[2] \in Alerts
      BY DEF Requests
  <2> QED BY <1>5, <2>1, Deleting, Acknowledging DEF Answer
<1>6. ASSUME UNCHANGED <<alerts, acks, excused>> PROVE ListInv'
    BY <1>6 DEF ListInv, ListTypeOK, Shown
<1> QED BY <1>1, <1>2, <1>3, <1>4, <1>5, <1>6, WhoChanges

(* The messages of the controller. *)
LEMMA ServerStep ==
    ASSUME StoreTypeOK, ServedInv, ServerInv, [Next]_vars
    PROVE  ServerInv'
<1> USE DEF ServerInv
<1>1. ASSUME NEW a \in Alerts, Post(a) PROVE ServerInv'
    BY <1>1, InSeqAppend DEF Post
<1>2. ASSUME HubSends PROVE ServerInv'
  <2>1. Head(hub) \in Alerts /\ Tail(hub) \in Seq(Alerts)
      BY <1>2, InSeqTail DEF HubSends
  <2> DEFINE m == [alerts |-> {Head(hub)}, acked |-> {}, live |-> TRUE]
  <2>2. MessageOK(m)
      BY <2>1, LiveOK
  <2>3. m \in Message
      BY <2>2 DEF MessageOK
  <2>4. hub' = Tail(hub) /\ peer' = peer /\ (feed' = feed \/ feed' = Append(feed, m))
      BY <1>2 DEF HubSends
  <2> HIDE DEF m
  <2>5. /\ Append(feed, m) \in Seq(Message)
        /\ InSeq(Append(feed, m)) = InSeq(feed) \cup {m}
      BY <2>3, Feeding
  <2>6. CASE feed' = feed
      BY <2>1, <2>4, <2>6
  <2>7. CASE feed' = Append(feed, m)
      BY <2>1, <2>2, <2>4, <2>5, <2>7
  <2> QED BY <2>4, <2>6, <2>7
<1>3. ASSUME Register PROVE ServerInv'
    BY <1>3 DEF Register
<1>4. ASSUME SendList PROVE ServerInv'
  <2> DEFINE m == NewestAlerts(ListLimit)
  <2>1. MessageOK(m)
      BY Reading
  <2>2. m \in Message
      BY <2>1 DEF MessageOK
  <2>3. hub' = hub /\ peer' = "live" /\ (feed' = feed \/ feed' = <<m>> \o feed)
      BY <1>4 DEF SendList
  <2> HIDE DEF m
  <2>4. /\ <<m>> \o feed \in Seq(Message)
        /\ InSeq(<<m>> \o feed) = InSeq(feed) \cup {m}
      BY <2>2, Feeding
  <2>5. CASE feed' = feed
      BY <2>3, <2>5
  <2>6. CASE feed' = <<m>> \o feed
      BY <2>1, <2>3, <2>4, <2>6
  <2> QED BY <2>3, <2>5, <2>6
<1>5. ASSUME Deliver PROVE ServerInv'
    BY <1>5, InSeqTail DEF Deliver
<1>6. ASSUME Hangup PROVE ServerInv'
    BY <1>6 DEF Hangup, InSeq
<1>7. ASSUME UNCHANGED serverVars PROVE ServerInv'
    BY <1>7 DEF serverVars
<1> QED BY <1>1, <1>2, <1>3, <1>4, <1>5, <1>6, <1>7, WhoChanges

(* The load. *)
LEMMA LoadStep ==
    ASSUME StoreTypeOK, ServedInv, LoadInv, [Next]_vars
    PROVE  LoadInv'
<1> USE DEF LoadInv
<1>1. ASSUME AnswerLoad PROVE LoadInv'
    BY <1>1, Reading, NothingOK DEF AnswerLoad
<1>2. ASSUME Mount PROVE LoadInv'
    BY <1>2 DEF Mount
<1>3. ASSUME Unmount PROVE LoadInv'
    BY <1>3, NothingOK DEF Unmount
<1>4. ASSUME Load PROVE LoadInv'
    BY <1>4, NothingOK DEF Load
<1>5. ASSUME UNCHANGED bootVars PROVE LoadInv'
    BY <1>5 DEF bootVars
<1> QED BY <1>1, <1>2, <1>3, <1>4, <1>5, WhoChanges

(* The requests, and what is due. *)
LEMMA RequestsStep ==
    ASSUME RequestsInv, due \subseteq Alerts, StoreTypeOK, [Next]_vars
    PROVE  RequestsInv' /\ due' \subseteq Alerts
<1>1. ASSUME NEW r \in Requests, Serve(r[1], r[2]) PROVE RequestsInv'
    BY <1>1 DEF Serve, RequestsInv, Requests
<1>2. ASSUME NEW r \in Requests, Answer(r[1], r[2]) PROVE RequestsInv'
    BY <1>2 DEF Answer, RequestsInv, Requests
<1>3. ASSUME Unmount PROVE RequestsInv' /\ due' \subseteq Alerts
    BY <1>3 DEF Unmount, RequestsInv
<1>4. ASSUME UNCHANGED userVars PROVE RequestsInv'
    BY <1>4 DEF RequestsInv, userVars
<1>5. RequestsInv'
    BY <1>1, <1>2, <1>3, <1>4, WhoChanges
<1>6. ASSUME NEW a \in Alerts, Post(a) PROVE due' \subseteq Alerts
    BY <1>6 DEF Post
<1>7. ASSUME HubSends \/ Forget PROVE due' \subseteq Alerts
    BY <1>7 DEF HubSends, Forget
<1>8. ASSUME SendList PROVE due' \subseteq Alerts
    BY <1>8 DEF SendList, ListAlerts, StoreTypeOK
<1> QED BY <1>3, <1>5, <1>6, <1>7, <1>8, WhoChanges

(* The next message of the connection is a message, and what else is under *)
(* way stays under way.                                                     *)
LEMMA NextMessage ==
    ASSUME ServerInv, Deliver
    PROVE  /\ Head(feed) \in InSeq(feed) /\ MessageOK(Head(feed))
           /\ InSeq(feed) = {Head(feed)} \cup InSeq(feed')
           /\ hub' = hub
<1>1. feed \in Seq(Message) /\ feed # <<>> /\ feed' = Tail(feed) /\ hub' = hub
    BY DEF Deliver, ServerInv
<1>2. InSeq(feed) = {Head(feed)} \cup InSeq(feed')
    BY <1>1, InSeqTail
<1> QED BY <1>1, <1>2 DEF ServerInv

(* Nothing that is due gets lost. *)
LEMMA CaughtUpStep ==
    ASSUME IInv, [Next]_vars
    PROVE  CaughtUp'
<1> USE DEF CaughtUp, UnderWay
<1>0. /\ ListInv /\ ServerInv /\ LoadInv /\ StoreTypeOK /\ ServedInv /\ due \subseteq Alerts
      /\ hub \in Seq(Alerts) /\ feed \in Seq(Message)
      /\ due \subseteq Shown \cup excused \cup InSeq(hub) \cup InFeed
    BY DEF IInv, ServerInv
<1>1. ASSUME NEW a \in Alerts, Post(a) PROVE CaughtUp'
  <2>1. Shown' = Shown /\ excused' = excused /\ InFeed' = InFeed
      BY <1>1 DEF Post, browserVars, listVars, Shown, InFeed
  <2>2. CASE hub' = Append(hub, a) /\ due' \subseteq due \cup {a}
    <3>1. InSeq(hub') = InSeq(hub) \cup {a}
        BY <1>0, <2>2, InSeqAppend
    <3> QED BY <1>0, <2>1, <2>2, <3>1
  <2>3. CASE hub' = hub /\ due' = due
      BY <1>0, <2>1, <2>3
  <2> QED BY <1>1, <2>2, <2>3 DEF Post
<1>2. ASSUME HubSends PROVE CaughtUp'
  <2> DEFINE m == [alerts |-> {Head(hub)}, acked |-> {}, live |-> TRUE]
  <2>1. Shown' = Shown /\ excused' = excused
      BY <1>2 DEF HubSends, browserVars, listVars, Shown
  <2>2. Head(hub) \in Alerts /\ InSeq(hub) = {Head(hub)} \cup InSeq(hub')
      BY <1>0, <1>2, InSeqTail DEF HubSends
  <2>3. m \in Message /\ m.alerts = {Head(hub)}
      BY <2>2 DEF Message
  <2>4. \/ feed' = Append(feed, m) /\ due' = due
        \/ /\ due' = IF Head(hub) \in Shown \cup excused \cup InFeed
                    THEN due ELSE due \ {Head(hub)}
           /\ feed' = feed
      BY <1>2 DEF HubSends
  <2> HIDE DEF m
  <2>5. CASE feed' = Append(feed, m) /\ due' = due
    <3>1. InSeq(feed') = InSeq(feed) \cup {m}
        BY <1>0, <2>3, <2>5, Feeding
    <3>2. InFeed' = InFeed \cup {Head(hub)}
        BY <2>3, <3>1 DEF InFeed
    <3> QED BY <1>0, <2>1, <2>2, <2>5, <3>2
  <2>6. CASE /\ due' = IF Head(hub) \in Shown \cup excused \cup InFeed
                      THEN due ELSE due \ {Head(hub)}
             /\ feed' = feed
    <3>1. InFeed' = InFeed
        BY <2>6 DEF InFeed
    <3> QED BY <1>0, <2>1, <2>2, <2>6, <3>1
  <2> QED BY <2>4, <2>5, <2>6
<1>3. ASSUME SendList PROVE CaughtUp'
  <2> DEFINE m == NewestAlerts(ListLimit)
  <2>1. Shown' = Shown /\ excused' = excused /\ hub' = hub
      BY <1>3 DEF SendList, browserVars, listVars, Shown
  <2>2. MessageOK(m) /\ m.alerts = ListAlerts(ListLimit, 0)
      BY <1>0, Reading
  <2>3. m \in Message
      BY <2>2 DEF MessageOK
  <2>4. \/ feed' = <<m>> \o feed /\ due' = due \cup ListAlerts(ListLimit, 0)
        \/ feed' = feed /\ due' = due
      BY <1>3 DEF SendList
  <2> HIDE DEF m
  <2>5. CASE feed' = <<m>> \o feed /\ due' = due \cup ListAlerts(ListLimit, 0)
    <3>1. InSeq(feed') = InSeq(feed) \cup {m}
        BY <1>0, <2>3, <2>5, Feeding
    <3>2. InFeed' = InFeed \cup ListAlerts(ListLimit, 0)
        BY <2>2, <3>1 DEF InFeed
    <3> QED BY <1>0, <2>1, <2>5, <3>2
  <2>6. CASE feed' = feed /\ due' = due
      BY <1>0, <2>1, <2>6 DEF InFeed
  <2> QED BY <2>4, <2>5, <2>6
<1>4. ASSUME Unmount PROVE CaughtUp'
    BY <1>4 DEF Unmount
<1>5. ASSUME Forget, UNCHANGED listVars PROVE CaughtUp'
    BY <1>5 DEF Forget, listVars, Shown
<1>6. ASSUME Deliver PROVE CaughtUp'
  <2> DEFINE m == Head(feed)
  <2>1. /\ MessageOK(m) /\ hub' = hub
        /\ InSeq(feed) = {m} \cup InSeq(feed')
      BY <1>0, <1>6, NextMessage
  <2>2. \/ m.live /\ \E a \in m.alerts : NewAlert(a)
        \/ ~m.live /\ WSInit(m.alerts, m.acked)
      BY <1>6 DEF Deliver
  <2>3. due' = due
      BY <1>6 DEF Deliver, pageRest
  <2> HIDE DEF m
  <2>4. Shown \cup m.alerts \cup excused \subseteq Shown' \cup excused'
      BY <1>0, <2>1, <2>2, Delivering
  <2>5. InFeed = m.alerts \cup InFeed'
      BY <2>1 DEF InFeed
  <2> QED BY <1>0, <2>1, <2>3, <2>4, <2>5
<1>7. ASSUME UNCHANGED <<hub, feed, due>>, Shown \cup excused \subseteq Shown' \cup excused'
      PROVE  CaughtUp'
    BY <1>0, <1>7 DEF InFeed
<1>8. ASSUME Load PROVE CaughtUp'
  <2>1. Shown \cup excused \subseteq Shown' \cup excused'
      BY <1>0, <1>8, Loading DEF Load, LoadInv
  <2> QED BY <1>7, <1>8, <2>1 DEF Load, pageRest, serverVars
<1>9. ASSUME ClearAlerts PROVE CaughtUp'
  <2>1. Shown \cup excused \subseteq Shown' \cup excused'
      BY <1>0, <1>9, Emptying DEF ClearAlerts
  <2> QED BY <1>7, <1>9, <2>1 DEF ClearAlerts, pageRest, serverVars
<1>10. ASSUME NEW r \in Requests, Answer(r[1], r[2]) PROVE CaughtUp'
  <2>1. r[2] \in Alerts
      BY DEF Requests
  <2>2. Shown \cup excused \subseteq Shown' \cup excused'
      BY <1>0, <1>10, <2>1, Deleting, Acknowledging DEF Answer
  <2> QED BY <1>7, <1>10, <2>2 DEF Answer, pageRest, serverVars
<1>11. ASSUME UNCHANGED <<hub, feed, due, listVars>> PROVE CaughtUp'
    BY <1>0, <1>11 DEF InFeed, listVars, Shown
<1>12. ASSUME Controller PROVE CaughtUp'
    BY <1>1, <1>2, <1>3, <1>11, <1>12 DEF Controller, Register, AnswerLoad, Serve, Purge,
       serverVars, browserVars
<1>13. ASSUME Connection PROVE CaughtUp'
    BY <1>4, <1>5, <1>11, <1>13 DEF Connection, SocketOpens, SocketCloses, Reconnect,
       ReconnectWS, Mount, serverVars
<1>14. ASSUME Page PROVE CaughtUp'
    BY <1>6, <1>8, <1>9, <1>10, <1>14 DEF Page
<1> QED BY <1>11, <1>12, <1>13, <1>14 DEF Next, vars, serverVars

(* What is once deleted stays deleted, and what is acknowledged stays so as *)
(* long as it is in the store.                                              *)
LEMMA ServedStep ==
    ASSUME IInv, [Next]_vars
    PROVE  ServedInv'
<1>0. StoreTypeOK /\ ServedInv
    BY DEF IInv
<1>1. /\ posted \subseteq posted'
      /\ stored' \cap posted \subseteq stored
      /\ acked \cap stored' \subseteq acked'
  <2>1. ASSUME NEW a \in Alerts, Post(a)
        PROVE  posted \subseteq posted' /\ stored' \cap posted \subseteq stored /\ acked' = acked
      BY <2>1 DEF Post, SaveAlert
  <2>2. ASSUME NEW r \in Requests, Serve(r[1], r[2])
        PROVE  posted' = posted /\ stored' \subseteq stored /\ acked \cap stored' \subseteq acked'
      BY <2>2 DEF Serve, AcknowledgeAlert, DeleteAlert
  <2>3. ASSUME Purge
        PROVE  posted' = posted /\ stored' \subseteq stored /\ acked \cap stored' \subseteq acked'
      BY <2>3 DEF Purge, PurgeOlderThan
  <2>4. ASSUME UNCHANGED storeVars
        PROVE  posted' = posted /\ stored' = stored /\ acked' = acked
      BY <2>4 DEF storeVars
  <2> QED BY <2>1, <2>2, <2>3, <2>4, WhoChanges
<1> DEFINE Kept(R) == \A a \in Alerts :
               /\ <<"delete", a>> \in R => a \in posted' \ stored'
               /\ <<"ack", a>> \in R => a \in posted' /\ (a \in stored' => a \in acked')
<1>2. Kept(answered \cup done)
    BY <1>0, <1>1 DEF ServedInv
<1>3. ASSUME UNCHANGED userVars PROVE Kept(answered' \cup done')
    BY <1>2, <1>3 DEF userVars
<1>4. ASSUME NEW r \in Requests, Serve(r[1], r[2]) PROVE Kept(answered' \cup done')
  <2>1. PICK op \in {"ack", "delete"}, b \in Alerts : r = <<op, b>>
      BY DEF Requests
  <2>2. answered' \cup done' \subseteq answered \cup done \cup {<<op, b>>}
      BY <1>4, <2>1 DEF Serve
  <2>3. CASE op = "ack" /\ AcknowledgeAlert(b)
    <3>1. b \in posted' /\ b \in acked'
        BY <1>0, <2>3 DEF AcknowledgeAlert, StoreTypeOK
    <3> QED BY <1>2, <2>2, <2>3, <3>1
  <2>4. CASE op = "delete" /\ DeleteAlert(b)
    <3>1. b \in posted' /\ b \notin stored'
        BY <1>0, <2>4 DEF DeleteAlert, StoreTypeOK
    <3> QED BY <1>2, <2>2, <2>4, <3>1
  <2> QED BY <1>4, <2>1, <2>3, <2>4 DEF Serve
<1>5. ASSUME NEW r \in Requests, Answer(r[1], r[2]) PROVE Kept(answered' \cup done')
  <2>1. answered' \cup done' \subseteq answered \cup done
      BY <1>5 DEF Answer
  <2> QED BY <1>2, <2>1
<1>6. ASSUME Unmount PROVE Kept(answered' \cup done')
    BY <1>6 DEF Unmount
<1> QED BY <1>3, <1>4, <1>5, <1>6, WhoChanges DEF ServedInv

(* An answer that comes in time, while nothing older is under way. *)
InTime(op, a) == Answer(op, a) /\ ~OlderUnderWay(op, a)

(* The choices that have to stick: only such an answer adds one. *)
LEMMA ChoicesMade ==
    ASSUME IInv, [Next]_vars
    PROVE  \/ done' \ late' \subseteq done \ late
           \/ \E op \in {"ack", "delete"}, a \in Alerts :
                 InTime(op, a) /\ done' \ late' \subseteq (done \ late) \cup {<<op, a>>}
<1>1. ASSUME UNCHANGED userVars PROVE done' \ late' \subseteq done \ late
    BY <1>1 DEF userVars
<1>2. ASSUME NEW r \in Requests, Serve(r[1], r[2]) PROVE done' \ late' \subseteq done \ late
    BY <1>2 DEF Serve
<1>3. ASSUME Unmount PROVE done' \ late' \subseteq done \ late
    BY <1>3 DEF Unmount
<1>4. ASSUME NEW op \in {"ack", "delete"}, NEW a \in Alerts, Answer(op, a)
      PROVE  \/ done' \ late' \subseteq done \ late
             \/ InTime(op, a) /\ done' \ late' \subseteq (done \ late) \cup {<<op, a>>}
    BY <1>4 DEF Answer, InTime
<1>5. \A r \in Requests : r[1] \in {"ack", "delete"} /\ r[2] \in Alerts
    BY DEF Requests
<1> QED BY <1>1, <1>2, <1>3, <1>4, <1>5, WhoChanges

(* With no new choice, what was not older still is not. *)
LEMMA StillNotOlder ==
    ASSUME done' \ late' \subseteq done \ late, NEW m, NotOlder(m)
    PROVE  \A a \in m.alerts :
              /\ <<"delete", a>> \notin done' \ late'
              /\ <<"ack", a>> \in done' \ late' => a \in m.acked
BY DEF NotOlder

(* What is under way is not older than the choices that have to stick. *)
LEMMA UnderWayStep ==
    ASSUME IInv, [Next]_vars
    PROVE  UnderWayInv'
<1> DEFINE choices == done \ late
           choicesNext == done' \ late'
           NotOlderNext(m) == \A a \in m.alerts :
               /\ <<"delete", a>> \notin choicesNext
               /\ <<"ack", a>> \in choicesNext => a \in m.acked
           HubNext == \A a \in InSeq(hub') :
               <<"delete", a>> \notin choicesNext /\ <<"ack", a>> \notin choicesNext
           FeedNext == \A m \in InSeq(feed') : NotOlderNext(m)
<1>0. /\ StoreTypeOK /\ ServedInv /\ ServerInv /\ LoadInv
      /\ hub \in Seq(Alerts) /\ feed \in Seq(Message)
      /\ \A a \in InSeq(hub) : <<"delete", a>> \notin choices /\ <<"ack", a>> \notin choices
      /\ \A m \in InSeq(feed) : NotOlder(m)
      /\ NotOlder(loaded)
    BY DEF IInv, UnderWayInv, ServerInv
<1>1. CASE choicesNext \subseteq choices
  <2>1. \A m : NotOlder(m) => NotOlderNext(m)
      BY <1>1, StillNotOlder
  <2> HIDE DEF NotOlderNext
  <2>2. HubNext
    <3>1. ASSUME NEW b \in Alerts, Post(b) PROVE HubNext
      <4>1. b \notin posted
          BY <3>1 DEF Post, SaveAlert
      <4>2. <<"delete", b>> \notin choices /\ <<"ack", b>> \notin choices
          BY <1>0, <4>1 DEF ServedInv
      <4>3. InSeq(hub') \subseteq InSeq(hub) \cup {b}
        <5>1. InSeq(Append(hub, b)) = InSeq(hub) \cup {b}
            BY <1>0, InSeqAppend
        <5> QED BY <3>1, <5>1 DEF Post
      <4> QED BY <1>0, <1>1, <4>2, <4>3
    <3>2. ASSUME HubSends PROVE HubNext
      <4>1. InSeq(hub') \subseteq InSeq(hub)
          BY <1>0, <3>2, InSeqTail DEF HubSends
      <4> QED BY <1>0, <1>1, <4>1
    <3>3. ASSUME hub' = hub PROVE HubNext
        BY <1>0, <1>1, <3>3
    <3>4. \/ \E b \in Alerts : Post(b)
          \/ HubSends
          \/ hub' = hub
        BY WhoChanges DEF Register, SendList, Deliver, Hangup, serverVars
    <3> QED BY <3>1, <3>2, <3>3, <3>4
  <2>3. FeedNext
    <3>1. ASSUME HubSends PROVE FeedNext
      <4> DEFINE b == Head(hub)
                 m == [alerts |-> {b}, acked |-> {}, live |-> TRUE]
      <4>1. b \in Alerts /\ b \in InSeq(hub)
          BY <1>0, <3>1, InSeqTail DEF HubSends
      <4>2. m \in Message /\ m.alerts = {b}
          BY <4>1 DEF Message
      <4>3. feed' = feed \/ feed' = Append(feed, m)
          BY <3>1 DEF HubSends
      <4> HIDE DEF m, b
      <4>4. NotOlder(m)
          BY <1>0, <4>1, <4>2 DEF NotOlder
      <4>5. InSeq(feed') \subseteq InSeq(feed) \cup {m}
          BY <1>0, <4>2, <4>3, Feeding
      <4> QED BY <1>0, <2>1, <4>4, <4>5
    <3>2. ASSUME SendList PROVE FeedNext
      <4> DEFINE m == NewestAlerts(ListLimit)
      <4>1. MessageOK(m) /\ NotOlder(m)
          BY <1>0, Reading
      <4>2. m \in Message
          BY <4>1 DEF MessageOK
      <4>3. feed' = feed \/ feed' = <<m>> \o feed
          BY <3>2 DEF SendList
      <4> HIDE DEF m
      <4>4. InSeq(feed') \subseteq InSeq(feed) \cup {m}
          BY <1>0, <4>2, <4>3, Feeding
      <4> QED BY <1>0, <2>1, <4>1, <4>4
    <3>3. ASSUME Deliver PROVE FeedNext
      <4>1. InSeq(feed') \subseteq InSeq(feed)
          BY <1>0, <3>3, NextMessage
      <4> QED BY <1>0, <2>1, <4>1
    <3>4. ASSUME Hangup PROVE FeedNext
        BY <3>4 DEF Hangup, InSeq
    <3>5. ASSUME feed' = feed PROVE FeedNext
        BY <1>0, <2>1, <3>5
    <3>6. \/ HubSends \/ SendList \/ Deliver \/ Hangup
          \/ feed' = feed
        BY WhoChanges DEF Post, Register, serverVars
    <3> QED BY <3>1, <3>2, <3>3, <3>4, <3>5, <3>6
  <2>4. NotOlderNext(loaded')
    <3>1. NotOlder(loaded')
      <4>1. ASSUME AnswerLoad PROVE NotOlder(loaded')
          BY <1>0, <4>1, Reading, NothingOK DEF AnswerLoad
      <4>2. ASSUME Unmount \/ Load PROVE NotOlder(loaded')
          BY <4>2, NothingOK DEF Unmount, Load
      <4>3. ASSUME loaded' = loaded PROVE NotOlder(loaded')
          BY <1>0, <4>3
      <4> QED BY <4>1, <4>2, <4>3, WhoChanges DEF Mount, bootVars
    <3> QED BY <2>1, <3>1
  <2> QED BY <2>2, <2>3, <2>4 DEF UnderWayInv, NotOlder, NotOlderNext
<1>2. ASSUME NEW op \in {"ack", "delete"}, NEW b \in Alerts,
             InTime(op, b), choicesNext \subseteq choices \cup {<<op, b>>}
      PROVE  UnderWayInv'
  <2>1. hub' = hub /\ feed' = feed /\ loaded' = loaded
      BY <1>2 DEF InTime, Answer, serverVars, bootVars
  <2>2. /\ b \notin InSeq(hub)
        /\ \A m \in InSeq(feed) \cup {loaded} :
              b \in m.alerts => op = "ack" /\ b \in m.acked
      BY <1>2 DEF InTime, OlderUnderWay
  <2>3. HubNext
      BY <1>0, <1>2, <2>1, <2>2
  <2>4. \A m \in InSeq(feed) \cup {loaded} : NotOlderNext(m)
    <3> SUFFICES ASSUME NEW m \in InSeq(feed) \cup {loaded}, NEW a \in m.alerts
                 PROVE  /\ <<"delete", a>> \notin choicesNext
                        /\ <<"ack", a>> \in choicesNext => a \in m.acked
        OBVIOUS
    <3>1. <<"delete", a>> \notin choices /\ (<<"ack", a>> \in choices => a \in m.acked)
        BY <1>0 DEF NotOlder
    <3>2. CASE a = b
        BY <1>2, <2>2, <3>1, <3>2
    <3>3. CASE a # b
        BY <1>2, <3>1, <3>3
    <3> QED BY <3>2, <3>3
  <2> QED BY <2>1, <2>3, <2>4 DEF UnderWayInv, NotOlder
<1> QED BY <1>1, <1>2, ChoicesMade

(* Nor is what is shown. *)
LEMMA ChoicesStickStep ==
    ASSUME IInv, [Next]_vars
    PROVE  ChoicesStick'
<1> DEFINE choices == done \ late
           choicesNext == done' \ late'
           Stick(S, K, C) == \A a \in S :
               <<"delete", a>> \notin C /\ (<<"ack", a>> \in C => a \in K)
<1>0. /\ ListInv /\ ServerInv /\ LoadInv /\ acks \subseteq Shown
      /\ Stick(Shown, acks, choices)
      /\ \A m \in InSeq(feed) : NotOlder(m)
      /\ NotOlder(loaded)
    BY DEF IInv, UnderWayInv, ChoicesStick, ListInv, ListTypeOK
<1>1. CASE choicesNext \subseteq choices
  <2>1. ASSUME UNCHANGED <<alerts, acks>> PROVE Stick(Shown', acks', choices)
      BY <1>0, <2>1 DEF Shown
  <2>2. ASSUME Unmount \/ ClearAlerts PROVE Stick(Shown', acks', choices)
      BY <1>0, <2>2, Emptying DEF Unmount, ClearAlerts
  <2>3. ASSUME Deliver PROVE Stick(Shown', acks', choices)
    <3> DEFINE m == Head(feed)
    <3>1. MessageOK(m) /\ m \in InSeq(feed)
        BY <1>0, <2>3, NextMessage
    <3>2. \/ m.live /\ \E a \in m.alerts : NewAlert(a)
          \/ ~m.live /\ WSInit(m.alerts, m.acked)
        BY <2>3 DEF Deliver
    <3> HIDE DEF m
    <3>3. /\ Shown' \subseteq Shown \cup m.alerts
          /\ acks \cap Shown' \subseteq acks'
          /\ (m.acked \ Shown) \cap Shown' \subseteq acks'
        BY <1>0, <3>1, <3>2, Delivering
    <3>4. Stick(m.alerts, m.acked, choices)
        BY <1>0, <3>1 DEF NotOlder
    <3> QED BY <1>0, <3>3, <3>4
  <2>4. ASSUME Load PROVE Stick(Shown', acks', choices)
    <3>1. Shown' = loaded.alerts /\ acks' = loaded.acked
        BY <1>0, <2>4, Loading DEF Load, LoadInv
    <3> QED BY <1>0, <3>1 DEF NotOlder
  <2>5. ASSUME NEW r \in Requests, Answer(r[1], r[2]) PROVE Stick(Shown', acks', choices)
    <3>1. r[2] \in Alerts
        BY DEF Requests
    <3>2. CASE AckAlert(r[2])
      <4>1. Shown' = Shown /\ acks \subseteq acks'
          BY <1>0, <3>1, <3>2, Acknowledging
      <4> QED BY <1>0, <4>1
    <3>3. CASE RemoveAlert(r[2])
      <4>1. Shown' = Shown \ {r[2]} /\ acks' = acks \ {r[2]}
          BY <1>0, <3>1, <3>3, Deleting
      <4> QED BY <1>0, <4>1
    <3> QED BY <2>5, <3>2, <3>3 DEF Answer
  <2>6. Stick(Shown', acks', choices)
      BY <2>1, <2>2, <2>3, <2>4, <2>5, WhoChanges
  <2> QED BY <1>1, <2>6 DEF ChoicesStick
<1>2. ASSUME NEW op \in {"ack", "delete"}, NEW b \in Alerts,
             InTime(op, b), choicesNext \subseteq choices \cup {<<op, b>>}
      PROVE  ChoicesStick'
  <2>1. CASE op = "ack" /\ AckAlert(b)
    <3>1. Shown' = Shown /\ acks' = acks \cup ({b} \cap Shown)
        BY <1>0, <2>1, Acknowledging
    <3>2. Stick(Shown', acks', choicesNext)
        BY <1>0, <1>2, <2>1, <3>1
    <3> QED BY <3>2 DEF ChoicesStick
  <2>2. CASE op = "delete" /\ RemoveAlert(b)
    <3>1. Shown' = Shown \ {b} /\ acks' = acks \ {b}
        BY <1>0, <2>2, Deleting
    <3>2. Stick(Shown', acks', choicesNext)
        BY <1>0, <1>2, <2>2, <3>1
    <3> QED BY <3>2 DEF ChoicesStick
  <2> QED BY <1>2, <2>1, <2>2 DEF InTime, Answer
<1> QED BY <1>1, <1>2, ChoicesMade

-----------------------------------------------------------------------------
(* The theorems. *)

(* The invariant holds at the beginning. *)
LEMMA InitIInv == Init => IInv
<1> SUFFICES ASSUME Init PROVE IInv
    OBVIOUS
<1> USE DEF Init, StoreInit, ClientInit, ListInit
<1>1. StoreTypeOK
    BY DEF StoreTypeOK
<1>2. ConnInv
  <2>1. ~mounted /\ mounted \in BOOLEAN /\ ~destroyed /\ destroyed \in BOOLEAN
      BY Zenon
  <2>2. ws = "null" /\ timers = 0 /\ status = "disconnected"
      OBVIOUS
  <2> QED BY <2>1, <2>2 DEF ConnInv, ClientTypeOK, ConnectionIsKept, Live
<1>3. InSeq(<<>>) = {} /\ Shown = {}
    BY DEF InSeq, Shown
<1>4. ListInv
    BY <1>3 DEF ListInv, ListTypeOK, Injective
<1>5. ServerInv
    BY <1>3 DEF ServerInv
<1>6. LoadInv /\ NotOlder(loaded)
    BY NothingOK DEF LoadInv
<1>7. RequestsInv /\ due \subseteq Alerts /\ CaughtUp /\ ServedInv
    BY DEF RequestsInv, CaughtUp, ServedInv
<1>8. UnderWayInv /\ ChoicesStick
    BY <1>3, <1>6 DEF UnderWayInv, ChoicesStick
<1> QED BY <1>1, <1>2, <1>4, <1>5, <1>6, <1>7, <1>8 DEF IInv

(* Every step preserves it. *)
LEMMA NextIInv == IInv /\ [Next]_vars => IInv'
<1> SUFFICES ASSUME IInv, [Next]_vars PROVE IInv'
    OBVIOUS
<1>1. /\ StoreTypeOK /\ ConnInv /\ ListInv
      /\ ServerInv /\ LoadInv /\ RequestsInv /\ due \subseteq Alerts
      /\ ServedInv
    BY DEF IInv
<1>2. StoreTypeOK' /\ ConnInv' /\ ListInv'
    BY <1>1, StoreStep, ConnStep, ListStep
<1>3. ServerInv' /\ LoadInv' /\ RequestsInv' /\ due' \subseteq Alerts
    BY <1>1, ServerStep, LoadStep, RequestsStep
<1>4. CaughtUp' /\ ServedInv'
    BY CaughtUpStep, ServedStep
<1>5. UnderWayInv' /\ ChoicesStick'
    BY UnderWayStep, ChoicesStickStep
<1> QED BY <1>2, <1>3, <1>4, <1>5 DEF IInv

(* The invariant says what the runs check. *)
LEMMA IInvImplies ==
    IInv => TypeOK /\ NoDuplicates /\ CaughtUp /\ ChoicesStick /\ ConnectionIsKept
<1> SUFFICES ASSUME IInv PROVE TypeOK /\ NoDuplicates /\ ConnectionIsKept
    BY DEF IInv
<1>1. TypeOK
    BY DEF IInv, TypeOK, ConnInv, ListInv, ServerInv, LoadInv, MessageOK, RequestsInv
<1>2. NoDuplicates /\ ConnectionIsKept
    BY DEF IInv, ListInv, ConnInv, Injective, NoDuplicates
<1> QED BY <1>1, <1>2

(* The variables have their types. *)
THEOREM TypeCorrect == Spec => []TypeOK
BY InitIInv, NextIInv, IInvImplies, PTL DEF Spec

(* An alert is on the page once, whatever brings it and in whichever order. *)
THEOREM NoDuplicatesCorrect == Spec => []NoDuplicates
BY InitIInv, NextIInv, IInvImplies, PTL DEF Spec

(* What the controller has sent to a page is on it or on its way, over every *)
(* loss of the connection and every overlap of loads, lists and live alerts. *)
THEOREM CaughtUpCorrect == Spec => []CaughtUp
BY InitIInv, NextIInv, IInvImplies, PTL DEF Spec

(* What the user has deleted does not come back, and what the user has        *)
(* acknowledged stays acknowledged, unless older contents were under way.     *)
THEOREM ChoicesStickCorrect == Spec => []ChoicesStick
BY InitIInv, NextIInv, IInvImplies, PTL DEF Spec

(* A mounted page is connected, connecting, or has exactly one timer to try again. *)
THEOREM ConnectionIsKeptCorrect == Spec => []ConnectionIsKept
BY InitIInv, NextIInv, IInvImplies, PTL DEF Spec
=============================================================================
