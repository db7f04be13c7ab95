--------------------------- MODULE AlertHubProofs ---------------------------
(***************************************************************************)
(* Proofs about AlertHub, for any number of clients and alerts and any     *)
(* capacities.                                                             *)
(***************************************************************************)
EXTENDS AlertHub, FiniteSetTheorems, SequenceTheorems, TLAPS

USE DEF NoAlert

-----------------------------------------------------------------------------
(* Sequences. *)

LEMMA InAppend ==
    ASSUME NEW S, NEW s \in Seq(S), NEW e \in S
    PROVE  /\ Append(s, e) \in Seq(S) /\ Len(Append(s, e)) = Len(s) + 1 /\ Len(s) \in Nat
           /\ In(e, Append(s, e))
           /\ \A x : In(x, s) => In(x, Append(s, e))
<1>1. /\ Append(s, e) \in Seq(S) /\ Len(Append(s, e)) = Len(s) + 1 /\ Len(s) \in Nat
      /\ \A i \in 1..Len(s) : Append(s, e)[i] = s[i]
      /\ Append(s, e)[Len(s) + 1] = e
    OBVIOUS
<1>2. Len(s) + 1 \in 1..Len(Append(s, e))
    BY <1>1
<1>3. \A i \in 1..Len(s) : i \in 1..Len(Append(s, e))
    BY <1>1
<1> QED
    BY <1>1, <1>2, <1>3 DEF In

LEMMA InTail ==
    ASSUME NEW S, NEW s \in Seq(S), s # <<>>
    PROVE  /\ Head(s) \in S /\ Tail(s) \in Seq(S)
           /\ Len(Tail(s)) = Len(s) - 1 /\ Len(s) \in Nat
           /\ \A x : In(x, s) => x = Head(s) \/ In(x, Tail(s))
<1>1. /\ Head(s) = s[1] /\ Head(s) \in S /\ Tail(s) \in Seq(S)
      /\ Len(s) \in Nat /\ Len(Tail(s)) = Len(s) - 1
      /\ \A i \in 1..Len(Tail(s)) : Tail(s)[i] = s[i + 1]
    OBVIOUS
<1>2. ASSUME NEW i \in 1..Len(s), i # 1
      PROVE  \E j \in 1..Len(Tail(s)) : Tail(s)[j] = s[i]
    <2>1. i - 1 \in 1..Len(Tail(s)) /\ (i - 1) + 1 = i
        BY <1>1, <1>2
    <2>2. Tail(s)[i - 1] = s[i]
        BY <1>1, <2>1
    <2> QED
        BY <2>1, <2>2
<1> QED
    BY <1>1, <1>2 DEF In

LEMMA AlertsArePositive == \A a \in Alerts : a # NoAlert
    BY MaxAlertsNat DEF Alerts

-----------------------------------------------------------------------------
(* Types. *)

(* A pump has a message exactly while it is writing one. *)
PumpHolds == \A c \in Clients : pmsg[c] # NoAlert <=> ppc[c] = "writing"

(* The pump is started last. *)
PumpBorn ==
    \A c \in Clients :
        ppc[c] # "unborn" => cpc[c] \in {"reading", "readingUnlisted", "returned"}

TypeInv == TypeOK /\ PumpHolds /\ PumpBorn

RoundType ==
    /\ hubMsg \in Alerts \cup {NoAlert} /\ todo \subseteq Clients
    /\ missed \in [Clients -> SUBSET Alerts]
SendType ==
    send \in [Clients -> Seq(Alerts)] /\ \A c \in Clients : Len(send[c]) <= SendCap
WriteType ==
    /\ ppc \in [Clients -> {"unborn", "idle", "writing", "leaving", "gone"}]
    /\ pmsg \in [Clients -> Alerts \cup {NoAlert}] /\ live \in [Clients -> Seq(Alerts)]
    /\ PumpHolds

(* Which actions change which variable. *)
LEMMA WhoChanges ==
    ASSUME [Next]_vars
    PROVE  /\ UNCHANGED <<hpc, stored>> \/ \E a \in Alerts : Post(a) \/ Handle(a)
           /\ UNCHANGED <<broadcast_, dropped>>
                \/ HubTake \/ \E a \in Alerts : Broadcast(a)
           /\ UNCHANGED <<hubMsg, todo, missed>> \/ HubStep
           /\ UNCHANGED send \/ \E c \in Clients : HubSend(c) \/ PumpTake(c)
           /\ UNCHANGED <<cpc, snapshot, page, closed>> \/ \E c \in Clients : Upgrade(c) \/ Serve(c)
           /\ UNCHANGED clients \/ \E c \in Clients : Register(c) \/ PumpDeletes(c)
           /\ UNCHANGED <<ppc, pmsg, live>> \/ \E c \in Clients : StartPump(c) \/ Pump(c)
           /\ UNCHANGED conn
                \/ \E c \in Clients : Upgrade(c) \/ PumpCloses(c) \/ PeerLeaves(c) \/ PeerStalls(c)
           /\ UNCHANGED crash \/ \E c \in Clients : HubSend(c) \/ PingDuringWrite(c)
<1> USE DEF ingestVars, hubVars, listVars, pumpVars
<1>1. ASSUME NEW a \in Alerts, Post(a) \/ Handle(a)
      PROVE  /\ UNCHANGED <<ingestRest>>
             /\ UNCHANGED <<broadcast_, dropped>> \/ Broadcast(a)
    BY <1>1 DEF Post, Handle, SaveAlert, Broadcast
<1>2. CASE \E a \in Alerts : Post(a) \/ Handle(a)
    BY <1>1, <1>2 DEF ingestRest
<1>3. CASE HubTake \/ HubRoundEnds
    BY <1>3 DEF HubTake, HubRoundEnds, hubRest, HubStep
<1>4. ASSUME NEW c \in Clients, HubSend(c)
      PROVE  UNCHANGED <<hubRest, broadcast_>> /\ HubStep
    BY <1>4 DEF HubSend, HubStep
<1>5. CASE HubStep
    BY <1>3, <1>4, <1>5 DEF HubStep, hubRest
<1>6. ASSUME NEW c \in Clients, Upgrade(c) \/ Serve(c)
      PROVE  /\ UNCHANGED wsRest
             /\ UNCHANGED clients \/ Register(c)
             /\ UNCHANGED pumpVars \/ StartPump(c)
             /\ UNCHANGED conn \/ Upgrade(c)
    BY <1>6 DEF Upgrade, Serve, Register, ListAlerts, StartPump, ReadLoopEnds
<1>7. CASE \E c \in Clients : Upgrade(c) \/ Serve(c)
    BY <1>6, <1>7 DEF wsRest
<1>8. ASSUME NEW c \in Clients, Pump(c)
      PROVE  /\ UNCHANGED pumpRest
             /\ UNCHANGED send \/ PumpTake(c)
             /\ UNCHANGED clients \/ PumpDeletes(c)
             /\ UNCHANGED conn \/ PumpCloses(c)
    BY <1>8 DEF Pump, PumpTake, PumpWritten, PumpCloses, PumpDeletes
<1>9. CASE \E c \in Clients : Pump(c)
    BY <1>8, <1>9 DEF pumpRest
<1>10. CASE \E c \in Clients : PingDuringWrite(c) \/ PeerLeaves(c) \/ PeerStalls(c)
    BY <1>10 DEF PingDuringWrite, PeerLeaves, PeerStalls, pumpRest
<1>11. CASE UNCHANGED vars
    BY <1>11 DEF vars
<1> QED
    BY <1>2, <1>5, <1>7, <1>9, <1>10, <1>11 DEF Next

LEMMA InitTypeInv == Init => TypeInv
<1> SUFFICES ASSUME Init PROVE TypeInv
    OBVIOUS
<1> USE DEF Init
<1>1. HandlerType
    BY CapsPos DEF HandlerType
<1>2. ClientType
    BY DEF ClientType
<1>3. PumpType
    BY CapsPos DEF PumpType
<1>4. PumpHolds /\ PumpBorn
    BY DEF PumpHolds, PumpBorn
<1> QED
    BY <1>1, <1>2, <1>3, <1>4 DEF TypeInv, TypeOK

LEMMA NextTypeInv == TypeInv /\ [Next]_vars => TypeInv'
<1> SUFFICES ASSUME TypeInv, [Next]_vars PROVE TypeInv'
    OBVIOUS
<1>0. /\ broadcast_ \in Seq(Alerts) /\ Len(broadcast_) <= HubCap
      /\ hubMsg \in Alerts \cup {NoAlert}
      /\ send \in [Clients -> Seq(Alerts)]
      /\ \A c \in Clients : Len(send[c]) <= SendCap
      /\ pmsg \in [Clients -> Alerts \cup {NoAlert}]
      /\ live \in [Clients -> Seq(Alerts)]
      /\ Len(broadcast_) \in Nat /\ HubCap \in Nat /\ SendCap \in Nat
    <2>1. Len(broadcast_) \in Nat
        <3>1. broadcast_ \in Seq(Alerts)
            BY DEF TypeInv, TypeOK, HandlerType
        <3> QED
            BY <3>1
    <2>2. HubCap \in Nat /\ SendCap \in Nat
        BY CapsPos
    <2> QED
        BY <2>1, <2>2 DEF TypeInv, TypeOK, HandlerType, PumpType
<1>1. hpc' \in [Alerts -> {"new", "received", "saved", "done"}] /\ stored' \subseteq Alerts
    BY WhoChanges DEF TypeInv, TypeOK, HandlerType, Post, Handle, SaveAlert, Broadcast
<1>2. dropped' \subseteq Alerts /\ broadcast_' \in Seq(Alerts) /\ Len(broadcast_') <= HubCap
    <2>1. ASSUME NEW a \in Alerts, Broadcast(a)
          PROVE  /\ dropped' \subseteq Alerts /\ broadcast_' \in Seq(Alerts)
                 /\ Len(broadcast_') <= HubCap
        <3>1. dropped' \subseteq Alerts
            BY <2>1 DEF Broadcast, TypeInv, TypeOK, HandlerType
        <3>2. CASE UNCHANGED broadcast_
            BY <1>0, <3>1, <3>2
        <3>3. CASE Len(broadcast_) < HubCap /\ broadcast_' = Append(broadcast_, a)
            BY <1>0, <3>1, <3>3, InAppend
        <3> QED
            BY <2>1, <3>2, <3>3 DEF Broadcast
    <2>2. CASE HubTake
        <3>1. broadcast_' \in Seq(Alerts) /\ Len(broadcast_') <= HubCap
            BY <1>0, <2>2, InTail DEF HubTake
        <3> QED
            BY <2>2, <3>1 DEF HubTake, hubRest, TypeInv, TypeOK, HandlerType
    <2>3. CASE UNCHANGED <<broadcast_, dropped>>
        BY <1>0, <2>3 DEF TypeInv, TypeOK, HandlerType
    <2> QED
        BY <2>1, <2>2, <2>3, WhoChanges
<1>3. RoundType'
    <2>0. RoundType
        BY <1>0 DEF RoundType, TypeInv, TypeOK, ClientType
    <2>1. CASE HubTake
        BY <1>0, <2>0, <2>1, InTail DEF HubTake, TypeInv, TypeOK, ClientType, RoundType
    <2>2. CASE HubRoundEnds
        BY <2>0, <2>2 DEF HubRoundEnds, RoundType
    <2>3. ASSUME NEW c \in Clients, HubSend(c) PROVE RoundType'
        BY <2>0, <2>3 DEF HubSend, RoundType
    <2>4. CASE UNCHANGED <<hubMsg, todo, missed>>
        BY <2>0, <2>4 DEF RoundType
    <2>5. UNCHANGED <<hubMsg, todo, missed>> \/ HubTake \/ HubRoundEnds
            \/ \E c \in Clients : HubSend(c)
        BY WhoChanges DEF HubStep
    <2> QED
        BY <2>1, <2>2, <2>3, <2>4, <2>5
<1>4. SendType'
    <2>1. ASSUME NEW c \in Clients, HubSend(c) PROVE SendType'
        <3>1. CASE UNCHANGED send
            BY <1>0, <3>1 DEF SendType
        <3>2. CASE Len(send[c]) < SendCap /\ send' = [send EXCEPT ![c] = Append(@, hubMsg)]
            <4>1. hubMsg \in Alerts
                BY <1>0, <2>1 DEF HubSend
            <4>2. Append(send[c], hubMsg) \in Seq(Alerts) /\ Len(Append(send[c], hubMsg)) <= SendCap
                BY <1>0, <3>2, <4>1, InAppend, CapsPos
            <4> QED
                BY <1>0, <3>2, <4>2 DEF SendType
        <3> QED
            BY <2>1, <3>1, <3>2 DEF HubSend
    <2>2. ASSUME NEW c \in Clients, PumpTake(c) PROVE SendType'
        <3>1. Tail(send[c]) \in Seq(Alerts) /\ Len(Tail(send[c])) <= SendCap
            BY <1>0, <2>2, InTail, CapsPos DEF PumpTake
        <3> QED
            BY <1>0, <2>2, <3>1 DEF PumpTake, SendType
    <2>3. CASE UNCHANGED send
        BY <1>0, <2>3 DEF SendType
    <2> QED
        BY <2>1, <2>2, <2>3, WhoChanges
<1>5. /\ clients' \subseteq Clients /\ closed' \in [Clients -> BOOLEAN]
      /\ cpc' \in [Clients -> {"new", "upgraded", "registered", "listed", "unlisted",
                               "reading", "readingUnlisted", "returned"}]
      /\ snapshot' \in [Clients -> SUBSET Alerts] /\ page' \in [Clients -> SUBSET Alerts]
    <2>1. clients' \subseteq Clients
        BY WhoChanges DEF TypeInv, TypeOK, ClientType, Register, PumpDeletes
    <2>2. closed' \in [Clients -> BOOLEAN]
        BY WhoChanges DEF TypeInv, TypeOK, ClientType, Upgrade, Serve, Register, ListAlerts,
           StartPump, ReadLoopEnds
    <2>3. cpc' \in [Clients -> {"new", "upgraded", "registered", "listed", "unlisted",
                                "reading", "readingUnlisted", "returned"}]
        BY WhoChanges DEF TypeInv, TypeOK, ClientType, Upgrade, Serve, Register, ListAlerts,
           StartPump, ReadLoopEnds
    <2>4. snapshot' \in [Clients -> SUBSET Alerts] /\ page' \in [Clients -> SUBSET Alerts]
        <3>1. stored \subseteq Alerts /\ Newest(stored) \subseteq Alerts
            BY DEF TypeInv, TypeOK, HandlerType, Newest
        <3> QED
            BY <3>1, WhoChanges DEF TypeInv, TypeOK, ClientType, Upgrade, Serve, Register,
               ListAlerts, StartPump, ReadLoopEnds, listVars
    <2> QED
        BY <2>1, <2>2, <2>3, <2>4
<1>6. conn' \in [Clients -> {"none", "up", "stalled", "gone"}]
    BY WhoChanges DEF TypeInv, TypeOK, ClientType, Upgrade, PumpCloses, PeerLeaves, PeerStalls
<1>7. WriteType'
    <2>0. WriteType
        BY <1>0 DEF WriteType, TypeInv, TypeOK, PumpType
    <2>1. ASSUME NEW c \in Clients, StartPump(c) \/ PumpCloses(c) \/ PumpDeletes(c)
          PROVE  WriteType'
        <3>1. StartPump(c) => ppc[c] # "writing"
            BY DEF TypeInv, PumpBorn, StartPump
        <3> QED
            BY <2>0, <2>1, <3>1 DEF StartPump, PumpCloses, PumpDeletes, WriteType, PumpHolds
    <2>2. ASSUME NEW c \in Clients, PumpTake(c) PROVE WriteType'
        <3>1. Head(send[c]) \in Alerts /\ Head(send[c]) # NoAlert
            BY <1>0, AlertsArePositive, <2>2, InTail DEF PumpTake
        <3> QED
            BY <2>0, <2>2, <3>1 DEF PumpTake, WriteType, PumpHolds
    <2>3. ASSUME NEW c \in Clients, PumpWritten(c) PROVE WriteType'
        <3>1. pmsg[c] \in Alerts
            BY <2>0, <2>3 DEF PumpWritten, WriteType, PumpHolds
        <3>2. Append(live[c], pmsg[c]) \in Seq(Alerts)
            BY <2>0, <3>1 DEF WriteType
        <3> QED
            BY <2>0, <2>3, <3>2 DEF PumpWritten, WriteType, PumpHolds
    <2>4. CASE UNCHANGED <<ppc, pmsg, live>>
        BY <2>0, <2>4 DEF WriteType, PumpHolds
    <2> QED
        BY <2>1, <2>2, <2>3, <2>4, WhoChanges DEF Pump
<1>8. crash' \in {"no", "send on closed channel", "concurrent write"}
    BY WhoChanges DEF TypeInv, TypeOK, HandlerType, HubSend, PingDuringWrite
<1>9. PumpBorn'
    <2>1. ASSUME NEW c \in Clients, Pump(c) PROVE PumpBorn'
        BY <1>0, <2>1 DEF Pump, PumpTake, PumpWritten, PumpCloses, PumpDeletes, pumpRest,
           TypeInv, TypeOK, PumpType, PumpBorn
    <2>2. ASSUME NEW c \in Clients, Upgrade(c) \/ Serve(c) PROVE PumpBorn'
        BY <2>2 DEF Upgrade, Serve, Register, ListAlerts, StartPump, ReadLoopEnds, pumpVars,
           TypeInv, TypeOK, PumpType, ClientType, PumpBorn
    <2>3. CASE UNCHANGED <<ppc, cpc>>
        BY <2>3 DEF TypeInv, PumpBorn
    <2> QED
        BY <2>1, <2>2, <2>3, WhoChanges DEF Serve
<1> QED
    BY <1>1, <1>2, <1>3, <1>4, <1>5, <1>6, <1>7, <1>8, <1>9
    DEF TypeInv, TypeOK, HandlerType, ClientType, PumpType, RoundType, SendType, WriteType

(* The types hold and no channel exceeds its capacity, for any number of    *)
(* clients and alerts.                                                      *)
THEOREM TypeCorrect == Spec => []TypeOK
<1>1. TypeInv => TypeOK
    BY DEF TypeInv
<1> QED
    BY <1>1, InitTypeInv, NextTypeInv, PTL DEF Spec

-----------------------------------------------------------------------------
(* The read lock. *)

RoundInv == RoundIsStable /\ (hubMsg = NoAlert => todo = {})

LEMMA NextRoundInv == TypeInv /\ RoundInv /\ [Next]_vars => RoundInv'
<1> SUFFICES ASSUME TypeInv, RoundInv, [Next]_vars PROVE RoundInv'
    OBVIOUS
<1> USE DEF RoundInv, RoundIsStable
<1>1. CASE HubTake
    <2>1. hubMsg' # NoAlert
        <3>1. broadcast_ \in Seq(Alerts)
            BY DEF TypeInv, TypeOK, HandlerType
        <3>2. Head(broadcast_) \in Alerts
            BY <1>1, <3>1, InTail DEF HubTake
        <3>3. hubMsg' = Head(broadcast_)
            BY <1>1 DEF HubTake
        <3> QED
            BY <3>2, <3>3, AlertsArePositive
    <2> QED
        BY <1>1, <2>1 DEF HubTake, hubRest
<1>2. CASE HubRoundEnds \/ \E c \in Clients : HubSend(c)
    BY <1>2 DEF HubRoundEnds, HubSend, hubRest
<1>3. CASE UNCHANGED <<hubMsg, todo>>
    <2>1. UNCHANGED clients \/ hubMsg = NoAlert \/ clients \subseteq clients'
        BY WhoChanges DEF Register, PumpDeletes, WriteLockFree
    <2> QED
        BY <1>3, <2>1
<1>4. UNCHANGED <<hubMsg, todo>> \/ HubTake \/ HubRoundEnds \/ \E c \in Clients : HubSend(c)
    BY WhoChanges DEF HubStep
<1> QED
    BY <1>1, <1>2, <1>3, <1>4

(* For any number of clients, none is taken out of the map while the hub    *)
(* has still to send it the alert of the current round.                     *)
THEOREM RoundsAreStable == Spec => []RoundIsStable
<1>1. Init => RoundInv
    BY DEF Init, RoundInv, RoundIsStable
<1>2. RoundInv => RoundIsStable
    BY DEF RoundInv
<1> QED
    BY <1>1, <1>2, InitTypeInv, NextTypeInv, NextRoundInv, PTL DEF Spec

-----------------------------------------------------------------------------
(* No gap between the list and the live feed. *)

(* A client whose connection is up is in the map from its registration on. *)
UpIsRegistered ==
    \A c \in Clients :
        /\ conn[c] = "up" => c \in clients \/ cpc[c] = "upgraded"
        /\ cpc[c] = "new" => conn[c] = "none"
        /\ ppc[c] \in {"leaving", "gone"} => conn[c] = "gone"
        /\ cpc[c] \in {"new", "upgraded"} => ppc[c] = "unborn"

(* What the feed owes client c of alert a is with c, on its way to it, or   *)
(* was dropped for want of room.                                            *)
Accounted(a, c) ==
    \/ a \in snapshot[c] \/ OnItsWay(a, c) \/ In(a, live[c])
    \/ a \in missed[c] \/ a \in dropped

Complete == \A c \in Clients : Connected(c) => \A a \in stored : Accounted(a, c)

PageIsNewest == \A c \in Clients : page[c] = Newest(snapshot[c])

LEMMA NextUpIsRegistered == TypeInv /\ UpIsRegistered /\ [Next]_vars => UpIsRegistered'
<1> SUFFICES ASSUME TypeInv, UpIsRegistered, [Next]_vars PROVE UpIsRegistered'
    OBVIOUS
<1>0. /\ conn \in [Clients -> {"none", "up", "stalled", "gone"}]
      /\ cpc \in [Clients -> {"new", "upgraded", "registered", "listed", "unlisted",
                              "reading", "readingUnlisted", "returned"}]
      /\ ppc \in [Clients -> {"unborn", "idle", "writing", "leaving", "gone"}]
      /\ PumpBorn
    BY DEF TypeInv, TypeOK, ClientType, PumpType
<1>1. ASSUME NEW c \in Clients, Upgrade(c) PROVE UpIsRegistered'
    BY <1>0, <1>1 DEF Upgrade, UpIsRegistered, pumpVars
<1>2. ASSUME NEW c \in Clients, Serve(c) PROVE UpIsRegistered'
    BY <1>0, <1>2 DEF Serve, Register, ListAlerts, StartPump, ReadLoopEnds, UpIsRegistered,
       pumpVars
<1>3. ASSUME NEW c \in Clients, Pump(c) PROVE UpIsRegistered'
    BY <1>0, <1>3 DEF Pump, PumpTake, PumpWritten, PumpCloses, PumpDeletes, UpIsRegistered,
       pumpRest, PumpBorn
<1>4. ASSUME NEW c \in Clients, PeerLeaves(c) \/ PeerStalls(c) PROVE UpIsRegistered'
    BY <1>0, <1>4 DEF PeerLeaves, PeerStalls, UpIsRegistered, pumpRest, pumpVars
<1>5. CASE UNCHANGED <<conn, cpc, ppc, clients>>
    BY <1>5 DEF UpIsRegistered
<1>6. \/ UNCHANGED <<conn, cpc, ppc, clients>>
      \/ \E c \in Clients : Upgrade(c) \/ Serve(c) \/ Pump(c) \/ PeerLeaves(c) \/ PeerStalls(c)
    BY WhoChanges DEF Serve, Pump
<1> QED
    BY <1>1, <1>2, <1>3, <1>4, <1>5, <1>6

(* Once accounted for, an alert stays so while the client is connected. *)
LEMMA StaysAccounted ==
    ASSUME TypeInv, UpIsRegistered, [Next]_vars,
           NEW c \in Clients, Connected(c), Connected(c)',
           NEW a \in stored, Accounted(a, c)
    PROVE  Accounted(a, c)'
<1>0. /\ broadcast_ \in Seq(Alerts) /\ send \in [Clients -> Seq(Alerts)]
      /\ live \in [Clients -> Seq(Alerts)] /\ missed \in [Clients -> SUBSET Alerts]
      /\ pmsg \in [Clients -> Alerts \cup {NoAlert}] /\ PumpHolds
      /\ hubMsg \in Alerts \cup {NoAlert}
      /\ hpc \in [Alerts -> {"new", "received", "saved", "done"}]
      /\ a \in Alerts
    BY DEF TypeInv, TypeOK, HandlerType, ClientType, PumpType
<1>p. a # NoAlert
    BY <1>0, AlertsArePositive
<1>q. ASSUME NEW b \in Alerts
      PROVE  /\ In(b, Append(send[c], b))
             /\ \A x : In(x, send[c]) => In(x, Append(send[c], b))
             /\ \A x : In(x, live[c]) => In(x, Append(live[c], b))
    <2>1. send[c] \in Seq(Alerts) /\ live[c] \in Seq(Alerts)
        BY <1>0
    <2> QED
        BY <2>1, InAppend
<1>1. CASE a \in snapshot[c]
    <2>1. snapshot'[c] = snapshot[c]
        BY WhoChanges DEF Connected, Upgrade, Serve, Register, ListAlerts, StartPump,
           ReadLoopEnds, listVars, TypeInv, TypeOK, ClientType
    <2> QED
        BY <1>1, <2>1 DEF Accounted
<1>2. CASE hpc[a] = "saved"
    <2>1. CASE hpc'[a] = "saved"
        BY <2>1 DEF Accounted, OnItsWay
    <2>2. CASE Broadcast(a)
        <3>1. Len(broadcast_) < HubCap => In(a, Append(broadcast_, a))
            BY <1>0, InAppend
        <3>2. In(a, broadcast_') \/ a \in dropped'
            BY <2>2, <3>1 DEF Broadcast
        <3> QED
            BY <3>2 DEF Accounted, OnItsWay
    <2>3. ASSUME NEW b \in Alerts, Post(b) \/ SaveAlert(b) \/ (Broadcast(b) /\ b # a)
          PROVE  hpc'[a] = "saved"
        BY <1>0, <1>2, <2>3 DEF Post, SaveAlert, Broadcast
    <2> QED
        BY <1>2, <2>1, <2>2, <2>3, WhoChanges DEF Handle
<1>3. CASE In(a, broadcast_)
    <2>1. CASE HubTake
        <3>1. a = hubMsg' \/ In(a, broadcast_')
            BY <1>0, <1>3, <2>1, InTail DEF HubTake
        <3>2. c \in todo'
            BY <2>1 DEF HubTake, UpIsRegistered, Connected
        <3> QED
            BY <3>1, <3>2 DEF Accounted, OnItsWay
    <2>2. ASSUME NEW b \in Alerts, Broadcast(b) PROVE In(a, broadcast_')
        BY <1>0, <1>3, <2>2, InAppend DEF Broadcast
    <2> QED
        BY <1>3, <2>1, <2>2, WhoChanges DEF Accounted, OnItsWay
<1>4. CASE hubMsg = a /\ c \in todo
    <2>1. CASE HubSend(c)
        <3>1. UNCHANGED <<todo, hubMsg>> \/ In(a, send'[c]) \/ a \in missed'[c]
            <4>1. In(hubMsg, Append(send[c], hubMsg))
                BY <1>0, <1>4, <1>q
            <4> QED
                BY <1>0, <1>4, <2>1, <4>1 DEF HubSend
        <3> QED
            BY <1>4, <3>1 DEF Accounted, OnItsWay
    <2>2. ASSUME NEW d \in Clients, d # c, HubSend(d) PROVE hubMsg' = a /\ c \in todo'
        BY <1>4, <2>2 DEF HubSend
    <2>3. ~HubTake /\ ~HubRoundEnds
        BY <1>p, <1>4 DEF HubTake, HubRoundEnds
    <2> QED
        BY <1>4, <2>1, <2>2, <2>3, WhoChanges DEF HubStep, Accounted, OnItsWay
<1>5. CASE In(a, send[c])
    <2>1. CASE PumpTake(c)
        <3>1. a = pmsg'[c] \/ In(a, send'[c])
            BY <1>0, <1>5, <2>1, InTail DEF PumpTake
        <3> QED
            BY <3>1 DEF Accounted, OnItsWay
    <2>2. ASSUME NEW d \in Clients, d # c, PumpTake(d) PROVE In(a, send'[c])
        BY <1>0, <1>5, <2>2 DEF PumpTake
    <2>3. ASSUME NEW d \in Clients, HubSend(d) PROVE In(a, send'[c])
        <3>1. hubMsg \in Alerts
            BY <1>0, <2>3 DEF HubSend
        <3>2. send'[c] = send[c] \/ send'[c] = Append(send[c], hubMsg)
            BY <1>0, <2>3 DEF HubSend
        <3> QED
            BY <1>5, <1>q, <3>1, <3>2
    <2> QED
        BY <1>5, <2>1, <2>2, <2>3, WhoChanges DEF Accounted, OnItsWay
<1>6. CASE pmsg[c] = a
    <2>1. ppc[c] = "writing" /\ conn[c] = "up"
        BY <1>p, <1>6 DEF TypeInv, PumpHolds, Connected
    <2>2. CASE PumpWritten(c)
        <3>1. live' = [live EXCEPT ![c] = Append(@, a)]
            BY <1>6, <2>1, <2>2 DEF PumpWritten
        <3>2. In(a, live'[c])
            BY <1>0, <3>1, InAppend
        <3> QED
            BY <3>2 DEF Accounted
    <2>3. ASSUME NEW d \in Clients, StartPump(d) \/ (Pump(d) /\ ~PumpWritten(c))
          PROVE  pmsg'[c] = a
        BY <1>0, <1>6, <2>1, <2>3
        DEF StartPump, Pump, PumpTake, PumpWritten, PumpCloses, PumpDeletes
    <2> QED
        BY <1>6, <2>2, <2>3, WhoChanges DEF Accounted, OnItsWay
<1>7. CASE In(a, live[c])
    <2>1. ASSUME NEW d \in Clients, PumpWritten(d) PROVE In(a, live'[c])
        <3>1. pmsg[d] \in Alerts
            BY <1>0, <2>1 DEF PumpWritten, PumpHolds
        <3>2. live'[c] = live[c] \/ live'[c] = Append(live[c], pmsg[d])
            BY <1>0, <2>1 DEF PumpWritten
        <3> QED
            BY <1>7, <1>q, <3>1, <3>2
    <2>2. ASSUME NEW d \in Clients, StartPump(d) \/ PumpTake(d) \/ PumpCloses(d) \/ PumpDeletes(d)
          PROVE  live' = live
        BY <2>2 DEF StartPump, PumpTake, PumpCloses, PumpDeletes
    <2> QED
        BY <1>7, <2>1, <2>2, WhoChanges DEF Pump, Accounted
<1>8. CASE a \in missed[c]
    <2>1. a \in missed'[c]
        <3>1. ASSUME NEW d \in Clients, HubSend(d) PROVE a \in missed'[c]
            BY <1>0, <1>8, <3>1 DEF HubSend
        <3>2. HubTake \/ HubRoundEnds => missed' = missed
            BY DEF HubTake, HubRoundEnds
        <3> QED
            BY <1>8, <3>1, <3>2, WhoChanges DEF HubStep
    <2> QED
        BY <2>1 DEF Accounted
<1>9. CASE a \in dropped
    BY <1>9, WhoChanges DEF Broadcast, HubTake, hubRest, Accounted
<1> QED
    BY <1>1, <1>2, <1>3, <1>4, <1>5, <1>6, <1>7, <1>8, <1>9 DEF Accounted, OnItsWay

LEMMA NextComplete ==
    TypeInv /\ UpIsRegistered /\ Complete /\ [Next]_vars => Complete'
<1> SUFFICES ASSUME TypeInv, UpIsRegistered, Complete, [Next]_vars,
                    NEW c \in Clients, Connected(c)', NEW a \in stored'
             PROVE  Accounted(a, c)'
    BY DEF Complete
<1>1. CASE a \notin stored
    <2>1. hpc'[a] = "saved"
        BY <1>1, WhoChanges DEF Post, Handle, SaveAlert, Broadcast, TypeInv, TypeOK, HandlerType
    <2> QED
        BY <2>1 DEF Accounted, OnItsWay
<1>2. CASE a \in stored /\ Connected(c)
    BY <1>2, StaysAccounted DEF Complete
<1>3. CASE a \in stored /\ ~Connected(c)
    <2>1. ListAlerts(c) /\ snapshot'[c] = stored
        <3>1. /\ conn \in [Clients -> {"none", "up", "stalled", "gone"}]
              /\ snapshot \in [Clients -> SUBSET Alerts]
              /\ cpc \in [Clients -> {"new", "upgraded", "registered", "listed", "unlisted",
                                      "reading", "readingUnlisted", "returned"}]
            BY DEF TypeInv, TypeOK, ClientType
        <3>2. conn'[c] = "up" /\ cpc'[c] \in {"listed", "reading"}
            BY DEF Connected
        <3>3. ASSUME NEW d \in Clients, Upgrade(d) PROVE FALSE
            BY <1>3, <3>1, <3>2, <3>3 DEF Upgrade, Connected
        <3>4. conn[c] = "up"
            BY <3>1, <3>2, <3>3, WhoChanges DEF PumpCloses, PeerLeaves, PeerStalls
        <3>5. cpc[c] \notin {"listed", "reading"}
            BY <1>3, <3>4 DEF Connected
        <3>6. PICK d \in Clients : Serve(d)
            BY <3>2, <3>3, <3>5, WhoChanges
        <3>7. d = c /\ ListAlerts(c)
            BY <3>1, <3>2, <3>5, <3>6
            DEF Serve, Register, ListAlerts, StartPump, ReadLoopEnds
        <3> QED
            BY <3>1, <3>2, <3>7 DEF ListAlerts
    <2> QED
        BY <1>3, <2>1 DEF Accounted
<1> QED
    BY <1>1, <1>2, <1>3

LEMMA NextPageIsNewest == TypeInv /\ PageIsNewest /\ [Next]_vars => PageIsNewest'
<1> SUFFICES ASSUME TypeInv, PageIsNewest, [Next]_vars, NEW c \in Clients
             PROVE  page'[c] = Newest(snapshot'[c])
    BY DEF PageIsNewest, Newest
<1>1. \/ page'[c] = page[c] /\ snapshot'[c] = snapshot[c]
      \/ page'[c] = Newest(stored) /\ snapshot'[c] = stored
    BY WhoChanges DEF Upgrade, Serve, Register, ListAlerts, StartPump, ReadLoopEnds, listVars,
       TypeInv, TypeOK, ClientType
<1> QED
    BY <1>1 DEF PageIsNewest

(* Whatever the order in which alerts are posted, stored, broadcast and     *)
(* listed, no stored alert falls between a client's list and its live feed. *)
THEOREM NoGapCorrect == Spec => []NoGap
<1>1. Init => UpIsRegistered /\ Complete /\ PageIsNewest
    BY DEF Init, UpIsRegistered, Complete, Connected, PageIsNewest, Newest
<1>2. TypeInv /\ Complete /\ PageIsNewest => NoGap
    <2> SUFFICES ASSUME TypeInv, Complete, PageIsNewest,
                        NEW c \in Clients, Connected(c), NEW a \in stored,
                        a \in snapshot[c], a \notin page[c]
                 PROVE  Cardinality({b \in snapshot[c] : b > a}) >= InitLimit
        BY DEF NoGap, Complete, Accounted
    <2>1. ~(Cardinality({b \in snapshot[c] : b > a}) < InitLimit)
        BY DEF PageIsNewest, Newest
    <2>2. {b \in snapshot[c] : b > a} \in SUBSET Alerts
        BY DEF TypeInv, TypeOK, ClientType
    <2>3. Cardinality({b \in snapshot[c] : b > a}) \in Nat
        <3>1. IsFiniteSet(Alerts)
            BY MaxAlertsNat, FS_Interval DEF Alerts
        <3>2. IsFiniteSet({b \in snapshot[c] : b > a})
            BY <2>2, <3>1, FS_Subset
        <3> QED
            BY <3>2, FS_CardinalityType
    <2> QED
        BY <2>1, <2>3, InitLimitPos
<1> QED
    BY <1>1, <1>2, InitTypeInv, NextTypeInv, NextUpIsRegistered, NextComplete,
       NextPageIsNewest, PTL DEF Spec

-----------------------------------------------------------------------------
(* The order of the feeds. *)

LEMMA OrderAppend ==
    ASSUME NEW S, NEW s \in Seq(S), NEW e \in S
    PROVE  /\ \A x : In(x, Append(s, e)) => In(x, s) \/ x = e
           /\ \A x, y : Precedes(x, y, Append(s, e)) =>
                           Precedes(x, y, s) \/ (y = e /\ In(x, s))
<1>1. /\ Len(Append(s, e)) = Len(s) + 1 /\ Len(s) \in Nat
      /\ \A i \in 1..Len(s) : Append(s, e)[i] = s[i]
      /\ Append(s, e)[Len(s) + 1] = e
    OBVIOUS
<1>2. \A i \in 1..Len(Append(s, e)) : i \in 1..Len(s) \/ i = Len(s) + 1
    BY <1>1
<1>3. ASSUME NEW x, In(x, Append(s, e)) PROVE In(x, s) \/ x = e
    BY <1>1, <1>2, <1>3 DEF In
<1>4. ASSUME NEW x, NEW y, Precedes(x, y, Append(s, e))
      PROVE  Precedes(x, y, s) \/ (y = e /\ In(x, s))
    <2>1. PICK i, j \in 1..Len(Append(s, e)) :
              i < j /\ Append(s, e)[i] = x /\ Append(s, e)[j] = y
        BY <1>4 DEF Precedes
    <2>2. i \in 1..Len(s) /\ s[i] = x
        BY <1>1, <2>1
    <2>3. CASE j \in 1..Len(s)
        BY <1>1, <2>1, <2>2, <2>3 DEF Precedes
    <2>4. CASE j = Len(s) + 1
        BY <1>1, <2>1, <2>2, <2>4 DEF In
    <2> QED
        BY <1>2, <2>3, <2>4
<1> QED
    BY <1>3, <1>4

LEMMA OrderTail ==
    ASSUME NEW S, NEW s \in Seq(S), s # <<>>
    PROVE  /\ In(Head(s), s)
           /\ \A x : In(x, Tail(s)) => In(x, s) /\ Precedes(Head(s), x, s)
           /\ \A x, y : Precedes(x, y, Tail(s)) => Precedes(x, y, s)
<1>1. /\ Head(s) = s[1] /\ Len(s) \in Nat /\ Len(s) >= 1 /\ Len(Tail(s)) = Len(s) - 1
      /\ \A i \in 1..Len(Tail(s)) : Tail(s)[i] = s[i + 1]
    OBVIOUS
<1>2. \A i \in 1..Len(Tail(s)) : i + 1 \in 1..Len(s) /\ 1 < i + 1
    BY <1>1
<1>3. 1 \in 1..Len(s)
    BY <1>1
<1>4. ASSUME NEW x, In(x, Tail(s)) PROVE In(x, s) /\ Precedes(Head(s), x, s)
    <2>1. PICK i \in 1..Len(Tail(s)) : Tail(s)[i] = x
        BY <1>4 DEF In
    <2> QED
        BY <1>1, <1>2, <1>3, <2>1 DEF In, Precedes
<1>5. ASSUME NEW x, NEW y, Precedes(x, y, Tail(s)) PROVE Precedes(x, y, s)
    <2>1. PICK i, j \in 1..Len(Tail(s)) : i < j /\ Tail(s)[i] = x /\ Tail(s)[j] = y
        BY <1>5 DEF Precedes
    <2>2. s[i + 1] = x /\ s[j + 1] = y /\ i + 1 < j + 1
        BY <1>1, <2>1
    <2> QED
        BY <1>2, <2>1, <2>2 DEF Precedes
<1> QED
    BY <1>1, <1>3, <1>4, <1>5 DEF In

LEMMA OrderConcat ==
    ASSUME NEW S, NEW s \in Seq(S), NEW t \in Seq(S)
    PROVE  /\ s \o t \in Seq(S)
           /\ \A x : In(x, s \o t) => In(x, s) \/ In(x, t)
           /\ \A x, y : Precedes(x, y, s \o t) =>
                  Precedes(x, y, s) \/ Precedes(x, y, t) \/ (In(x, s) /\ In(y, t))
<1>1. /\ s \o t \in Seq(S) /\ Len(s \o t) = Len(s) + Len(t)
      /\ Len(s) \in Nat /\ Len(t) \in Nat
      /\ \A i \in 1..Len(s) : (s \o t)[i] = s[i]
    OBVIOUS
<1>2. ASSUME NEW i \in 1..Len(s \o t), i \notin 1..Len(s)
      PROVE  i - Len(s) \in 1..Len(t) /\ (s \o t)[i] = t[i - Len(s)]
    BY <1>1, <1>2
<1>3. ASSUME NEW x, In(x, s \o t) PROVE In(x, s) \/ In(x, t)
    <2>1. PICK i \in 1..Len(s \o t) : (s \o t)[i] = x
        BY <1>3 DEF In
    <2> QED
        BY <1>1, <1>2, <2>1 DEF In
<1>4. ASSUME NEW x, NEW y, Precedes(x, y, s \o t)
      PROVE  Precedes(x, y, s) \/ Precedes(x, y, t) \/ (In(x, s) /\ In(y, t))
    <2>1. PICK i, j \in 1..Len(s \o t) : i < j /\ (s \o t)[i] = x /\ (s \o t)[j] = y
        BY <1>4 DEF Precedes
    <2>2. CASE i \in 1..Len(s) /\ j \in 1..Len(s)
        BY <1>1, <2>1, <2>2 DEF Precedes
    <2>3. CASE i \in 1..Len(s) /\ j \notin 1..Len(s)
        BY <1>1, <1>2, <2>1, <2>3 DEF In
    <2>4. CASE i \notin 1..Len(s)
        <3>1. j \notin 1..Len(s)
            BY <1>1, <2>1, <2>4
        <3>2. i - Len(s) \in 1..Len(t) /\ t[i - Len(s)] = x
            BY <1>2, <2>1, <2>4
        <3>3. j - Len(s) \in 1..Len(t) /\ t[j - Len(s)] = y
            BY <1>2, <2>1, <3>1
        <3>4. i - Len(s) < j - Len(s)
            BY <1>1, <2>1
        <3> QED
            BY <3>2, <3>3, <3>4 DEF Precedes
    <2> QED
        BY <2>2, <2>3, <2>4
<1> QED
    BY <1>1, <1>3, <1>4

(* What is in a client's feed, and in which order. *)
InFeed(a, c) == In(a, live[c]) \/ pmsg[c] = a \/ In(a, send[c])
Ahead(a, b, c) ==
    \/ Precedes(a, b, live[c]) \/ Precedes(a, b, send[c])
    \/ In(a, live[c]) /\ (pmsg[c] = b \/ In(b, send[c]))
    \/ pmsg[c] = a /\ In(b, send[c])

(* An alert is in one place: with its handler, in the hub's channel, on its *)
(* round or in the feeds.  On its round it is the last of every feed that   *)
(* has it.                                                                  *)
OrderInv ==
    /\ \A a, b \in Alerts, c, d \in Clients : ~(Ahead(a, b, c) /\ Ahead(b, a, d))
    /\ \A a \in Alerts, c \in Clients : InFeed(a, c) =>
          hpc[a] = "done" /\ ~In(a, broadcast_) /\ (hubMsg = a => c \notin todo)
    /\ \A a \in Alerts : In(a, broadcast_) \/ hubMsg = a => hpc[a] = "done"
    /\ \A a \in Alerts : ~Precedes(a, a, broadcast_) /\ (hubMsg = a => ~In(a, broadcast_))
    /\ \A a, b \in Alerts, c \in Clients : hubMsg = a => ~Ahead(a, b, c)

LEMMA AheadIsInFeed ==
    ASSUME NEW a, NEW b, NEW c, Ahead(a, b, c)
    PROVE  InFeed(a, c) /\ InFeed(b, c)
    BY DEF Ahead, InFeed, Precedes, In

(* How a feed changes: the hub puts an alert at its end, or else it loses   *)
(* one or none.                                                             *)
Grows(c) ==
    /\ HubSend(c) /\ c \in todo /\ hubMsg \in Alerts /\ todo' = todo \ {c}
    /\ \A a \in Alerts : InFeed(a, c)' => InFeed(a, c) \/ a = hubMsg
    /\ \A a, b \in Alerts : Ahead(a, b, c)' => Ahead(a, b, c) \/ (b = hubMsg /\ InFeed(a, c))
Keeps(c) ==
    /\ \A a \in Alerts : InFeed(a, c)' => InFeed(a, c)
    /\ \A a, b \in Alerts : Ahead(a, b, c)' => Ahead(a, b, c)

LEMMA FeedChanges ==
    ASSUME TypeInv, [Next]_vars, NEW c \in Clients
    PROVE  Grows(c) \/ Keeps(c)
<1>0. /\ send \in [Clients -> Seq(Alerts)] /\ live \in [Clients -> Seq(Alerts)]
      /\ pmsg \in [Clients -> Alerts \cup {NoAlert}] /\ hubMsg \in Alerts \cup {NoAlert}
      /\ send[c] \in Seq(Alerts) /\ live[c] \in Seq(Alerts)
    BY DEF TypeInv, TypeOK, PumpType, HandlerType
<1>1. CASE UNCHANGED <<send[c], live[c], pmsg[c]>>
    BY <1>1 DEF Keeps, InFeed, Ahead
<1>2. CASE HubSend(c)
    <2>1. hubMsg \in Alerts /\ c \in todo
        BY <1>0, <1>2 DEF HubSend
    <2>2. UNCHANGED <<live, pmsg>>
        BY <1>2 DEF HubSend, hubRest, pumpVars
    <2>3. CASE send' = [send EXCEPT ![c] = Append(@, hubMsg)] /\ todo' = todo \ {c}
        <3>1. send'[c] = Append(send[c], hubMsg)
            BY <1>0, <2>3
        <3>2. ASSUME NEW a \in Alerts, InFeed(a, c)' PROVE InFeed(a, c) \/ a = hubMsg
            BY <1>0, <2>1, <2>2, <3>1, <3>2, OrderAppend DEF InFeed
        <3>3. ASSUME NEW a \in Alerts, NEW b \in Alerts, Ahead(a, b, c)'
              PROVE  Ahead(a, b, c) \/ (b = hubMsg /\ InFeed(a, c))
            <4>1. /\ In(b, Append(send[c], hubMsg)) => In(b, send[c]) \/ b = hubMsg
                  /\ Precedes(a, b, Append(send[c], hubMsg)) =>
                        Precedes(a, b, send[c]) \/ (b = hubMsg /\ In(a, send[c]))
                BY <1>0, <2>1, OrderAppend
            <4> QED
                BY <2>2, <3>1, <3>3, <4>1 DEF InFeed, Ahead
        <3> QED
            BY <1>2, <2>1, <2>3, <3>2, <3>3 DEF Grows
    <2>4. CASE send' = send
        BY <1>1, <2>2, <2>4
    <2> QED
        BY <1>2, <2>3, <2>4 DEF HubSend
<1>3. CASE PumpTake(c)
    <2>1. /\ send[c] # <<>> /\ live' = live
          /\ pmsg'[c] = Head(send[c]) /\ send'[c] = Tail(send[c])
        BY <1>0, <1>3 DEF PumpTake
    <2>2. /\ In(Head(send[c]), send[c])
          /\ \A x : In(x, Tail(send[c])) => In(x, send[c]) /\ Precedes(Head(send[c]), x, send[c])
          /\ \A x, y : Precedes(x, y, Tail(send[c])) => Precedes(x, y, send[c])
        BY <1>0, <2>1, OrderTail
    <2> QED
        BY <2>1, <2>2 DEF Keeps, InFeed, Ahead
<1>4. CASE PumpWritten(c)
    <2>1. /\ send' = send /\ pmsg'[c] = NoAlert /\ pmsg[c] \in Alerts
          /\ live'[c] = live[c] \/ live'[c] = Append(live[c], pmsg[c])
        BY <1>0, <1>4 DEF PumpWritten, TypeInv, PumpHolds
    <2>2. /\ \A x : In(x, Append(live[c], pmsg[c])) => In(x, live[c]) \/ x = pmsg[c]
          /\ \A x, y : Precedes(x, y, Append(live[c], pmsg[c])) =>
                           Precedes(x, y, live[c]) \/ (y = pmsg[c] /\ In(x, live[c]))
        BY <1>0, <2>1, OrderAppend
    <2> QED
        BY <2>1, <2>2, AlertsArePositive DEF Keeps, InFeed, Ahead
<1>5. CASE PumpCloses(c)
    <2>1. UNCHANGED <<send, live>> /\ pmsg'[c] = NoAlert
        BY <1>0, <1>5 DEF PumpCloses
    <2> QED
        BY <2>1, AlertsArePositive DEF Keeps, InFeed, Ahead
<1>6. \/ UNCHANGED <<send[c], live[c], pmsg[c]>>
      \/ HubSend(c) \/ PumpTake(c) \/ PumpWritten(c) \/ PumpCloses(c)
    <2>1. ASSUME NEW d \in Clients, d # c, Pump(d)
          PROVE  UNCHANGED <<send[c], live[c], pmsg[c]>>
        BY <1>0, <2>1 DEF Pump, PumpTake, PumpWritten, PumpCloses, PumpDeletes
    <2>2. ASSUME NEW d \in Clients, d # c, HubSend(d)
          PROVE  UNCHANGED <<send[c], live[c], pmsg[c]>>
        BY <1>0, <2>2 DEF HubSend, hubRest, pumpVars
    <2>3. CASE PumpDeletes(c)
        BY <2>3 DEF PumpDeletes
    <2>4. ASSUME NEW d \in Clients, StartPump(d)
          PROVE  UNCHANGED <<send, live, pmsg>>
        BY <2>4 DEF StartPump, wsRest
    <2>5. ASSUME NEW d \in Clients, HubSend(d) PROVE UNCHANGED <<live, pmsg>>
        BY <2>5 DEF HubSend, hubRest, pumpVars
    <2>6. CASE UNCHANGED <<ppc, pmsg, live>>
        <3>1. UNCHANGED send \/ \E d \in Clients : HubSend(d) \/ PumpTake(d)
            BY WhoChanges
        <3> QED
            BY <2>1, <2>2, <2>6, <3>1 DEF Pump
    <2>7. CASE \E d \in Clients : StartPump(d) \/ Pump(d)
        BY <2>1, <2>3, <2>4, <2>7 DEF Pump
    <2> QED
        BY <2>6, <2>7, WhoChanges
<1> QED
    BY <1>1, <1>2, <1>3, <1>4, <1>5, <1>6

LEMMA NextOrderInv == TypeInv /\ OrderInv /\ [Next]_vars => OrderInv'
<1> SUFFICES ASSUME TypeInv, OrderInv, [Next]_vars PROVE OrderInv'
    OBVIOUS
<1>0. /\ broadcast_ \in Seq(Alerts) /\ hubMsg \in Alerts \cup {NoAlert}
      /\ hpc \in [Alerts -> {"new", "received", "saved", "done"}]
    BY DEF TypeInv, TypeOK, HandlerType
<1>1. ASSUME NEW a \in Alerts, NEW b \in Alerts, NEW c \in Clients, NEW d \in Clients,
             Ahead(a, b, c)', Ahead(b, a, d)'
      PROVE  FALSE
    <2>1. Ahead(a, b, c) \/ (Grows(c) /\ b = hubMsg /\ InFeed(a, c))
        BY <1>1, FeedChanges DEF Grows, Keeps
    <2>2. Ahead(b, a, d) \/ (Grows(d) /\ a = hubMsg /\ InFeed(b, d))
        BY <1>1, FeedChanges DEF Grows, Keeps
    <2>3. CASE Ahead(a, b, c) /\ Ahead(b, a, d)
        BY <2>3 DEF OrderInv
    <2>4. CASE b = hubMsg /\ InFeed(a, c) /\ Grows(c)
        <3>1. ~Ahead(b, a, d)
            BY <2>4 DEF OrderInv
        <3>2. a = hubMsg /\ c \in todo
            BY <2>2, <2>4, <3>1 DEF Grows
        <3> QED
            BY <2>4, <3>2 DEF OrderInv
    <2>5. CASE a = hubMsg /\ InFeed(b, d) /\ Ahead(a, b, c)
        BY <2>5 DEF OrderInv
    <2> QED
        BY <2>1, <2>2, <2>3, <2>4, <2>5
<1>2. ASSUME NEW a \in Alerts, hpc[a] = "done" PROVE hpc'[a] = "done"
    <2>1. ASSUME NEW b \in Alerts, Post(b) \/ Handle(b) PROVE hpc'[a] = "done"
        BY <1>0, <1>2, <2>1 DEF Post, Handle, SaveAlert, Broadcast
    <2> QED
        BY <1>2, <2>1, WhoChanges
<1>3. CASE HubTake
    <2>1. /\ hubMsg = NoAlert /\ broadcast_ # <<>> /\ hubMsg' = Head(broadcast_)
          /\ broadcast_' = Tail(broadcast_) /\ UNCHANGED <<send, live, pmsg, hpc>>
        BY <1>3 DEF HubTake, hubRest, pumpVars, ingestVars
    <2>2. /\ In(hubMsg', broadcast_) /\ hubMsg' \in Alerts
          /\ \A x : In(x, broadcast_') => In(x, broadcast_) /\ Precedes(hubMsg', x, broadcast_)
          /\ \A x, y : Precedes(x, y, broadcast_') => Precedes(x, y, broadcast_)
        BY <1>0, <2>1, OrderTail, InTail
    <2>3. \A a, c : InFeed(a, c)' <=> InFeed(a, c)
        BY <2>1 DEF InFeed
    <2>4. \A a, b, c : Ahead(a, b, c)' <=> Ahead(a, b, c)
        BY <2>1 DEF Ahead
    <2>5. ASSUME NEW a \in Alerts, NEW c \in Clients, InFeed(a, c)
          PROVE  hpc'[a] = "done" /\ ~In(a, broadcast_') /\ hubMsg' # a
        BY <2>1, <2>2, <2>5 DEF OrderInv
    <2>6. ASSUME NEW a \in Alerts
          PROVE  /\ In(a, broadcast_') \/ hubMsg' = a => hpc'[a] = "done"
                 /\ ~Precedes(a, a, broadcast_') /\ (hubMsg' = a => ~In(a, broadcast_'))
        BY <2>1, <2>2 DEF OrderInv
    <2>7. ASSUME NEW a \in Alerts, NEW b \in Alerts, NEW c \in Clients, hubMsg' = a
          PROVE  ~Ahead(a, b, c)
        BY <2>5, <2>7, AheadIsInFeed
    <2> QED
        BY <1>1, <2>3, <2>4, <2>5, <2>6, <2>7 DEF OrderInv
<1>4. ASSUME NEW x \in Alerts, Broadcast(x) PROVE OrderInv'
    <2>1. /\ hpc[x] = "saved" /\ hpc' = [hpc EXCEPT ![x] = "done"]
          /\ broadcast_' = broadcast_ \/ broadcast_' = Append(broadcast_, x)
          /\ UNCHANGED <<send, live, pmsg, hubMsg, todo>>
        BY <1>4 DEF Broadcast, ingestRest, pumpVars, hubVars
    <2>2. /\ ~In(x, broadcast_) /\ hubMsg # x
          /\ \A c \in Clients : ~InFeed(x, c)
        BY <2>1 DEF OrderInv
    <2>3. /\ \A y : In(y, broadcast_') => In(y, broadcast_) \/ y = x
          /\ \A y, z : Precedes(y, z, broadcast_') =>
                           Precedes(y, z, broadcast_) \/ (z = x /\ In(y, broadcast_))
        <3>1. CASE broadcast_' = broadcast_
            BY <3>1
        <3>2. CASE broadcast_' = Append(broadcast_, x)
            <4>1. /\ \A y : In(y, Append(broadcast_, x)) => In(y, broadcast_) \/ y = x
                  /\ \A y, z : Precedes(y, z, Append(broadcast_, x)) =>
                                   Precedes(y, z, broadcast_) \/ (z = x /\ In(y, broadcast_))
                BY <1>0, OrderAppend
            <4> QED
                BY <3>2, <4>1
        <3> QED
            BY <2>1, <3>1, <3>2
    <2>4. \A a, c : InFeed(a, c)' <=> InFeed(a, c)
        BY <2>1 DEF InFeed
    <2>5. \A a, b, c : Ahead(a, b, c)' <=> Ahead(a, b, c)
        BY <2>1 DEF Ahead
    <2>6. hpc'[x] = "done"
        BY <1>0, <2>1
    <2>7. ASSUME NEW a \in Alerts, NEW c \in Clients, InFeed(a, c)
          PROVE  hpc'[a] = "done" /\ ~In(a, broadcast_') /\ (hubMsg' = a => c \notin todo')
        BY <1>2, <2>1, <2>2, <2>3, <2>7 DEF OrderInv
    <2>8. ASSUME NEW a \in Alerts
          PROVE  /\ In(a, broadcast_') \/ hubMsg' = a => hpc'[a] = "done"
                 /\ ~Precedes(a, a, broadcast_') /\ (hubMsg' = a => ~In(a, broadcast_'))
        BY <1>2, <2>1, <2>2, <2>3, <2>6 DEF OrderInv
    <2>9. ASSUME NEW a \in Alerts, NEW b \in Alerts, NEW c \in Clients, hubMsg' = a
          PROVE  ~Ahead(a, b, c)
        BY <2>1, <2>9 DEF OrderInv
    <2> QED
        BY <1>1, <2>4, <2>5, <2>7, <2>8, <2>9 DEF OrderInv
<1>5. CASE UNCHANGED broadcast_ /\ ~HubTake
    <2>1. /\ hubMsg' = hubMsg \/ hubMsg' = NoAlert
          /\ todo' \subseteq todo
        BY <1>5, WhoChanges DEF HubStep, HubRoundEnds, HubSend
    <2>2. ASSUME NEW a \in Alerts, NEW c \in Clients, InFeed(a, c)'
          PROVE  hpc'[a] = "done" /\ ~In(a, broadcast_') /\ (hubMsg' = a => c \notin todo')
        <3>1. CASE InFeed(a, c)
            BY <1>2, <1>5, <2>1, <3>1, AlertsArePositive DEF OrderInv
        <3>2. CASE Grows(c) /\ a = hubMsg
            BY <1>2, <1>5, <3>2 DEF OrderInv, Grows
        <3> QED
            BY <2>2, <3>1, <3>2, FeedChanges DEF Grows, Keeps
    <2>3. ASSUME NEW a \in Alerts
          PROVE  /\ In(a, broadcast_') \/ hubMsg' = a => hpc'[a] = "done"
                 /\ ~Precedes(a, a, broadcast_') /\ (hubMsg' = a => ~In(a, broadcast_'))
        BY <1>2, <1>5, <2>1, AlertsArePositive DEF OrderInv
    <2>4. ASSUME NEW a \in Alerts, NEW b \in Alerts, NEW c \in Clients, hubMsg' = a
          PROVE  ~Ahead(a, b, c)'
        <3>1. hubMsg = a
            BY <2>1, <2>4, AlertsArePositive
        <3>2. ~Ahead(a, b, c)
            BY <3>1 DEF OrderInv
        <3>3. CASE Grows(c)
            <4>1. ~InFeed(a, c)
                BY <3>1, <3>3 DEF Grows, OrderInv
            <4> QED
                BY <3>2, <3>3, <4>1 DEF Grows
        <3>4. CASE Keeps(c)
            BY <3>2, <3>4 DEF Keeps
        <3> QED
            BY <3>3, <3>4, FeedChanges
    <2> QED
        BY <1>1, <2>2, <2>3, <2>4 DEF OrderInv
<1> QED
    BY <1>3, <1>4, <1>5, WhoChanges

LEMMA OrderInvariant == Spec => [](TypeInv /\ OrderInv)
<1>1. Init => OrderInv
    <2>1. Init => \A a, c : c \in Clients /\ a \in Alerts => ~InFeed(a, c)
        BY AlertsArePositive DEF Init, InFeed, In
    <2>2. Init => \A a \in Alerts : ~In(a, broadcast_) /\ ~Precedes(a, a, broadcast_) /\ hubMsg # a
        BY AlertsArePositive DEF Init, In, Precedes
    <2> QED
        BY <2>1, <2>2, AheadIsInFeed DEF OrderInv
<1> QED
    BY <1>1, InitTypeInv, NextTypeInv, NextOrderInv, PTL DEF Spec

(* For any number of clients and alerts, an alert comes once in a feed.     *)
THEOREM NoRepeatCorrect == Spec => []NoRepeat
<1>1. TypeInv /\ OrderInv => NoRepeat
    <2> SUFFICES ASSUME TypeInv, OrderInv, NEW c \in Clients,
                        NEW i \in 1..Len(Feed(c)), NEW j \in 1..Len(Feed(c)),
                        Feed(c)[i] = Feed(c)[j], i # j
                 PROVE  FALSE
        BY DEF NoRepeat
    <2> DEFINE hand == IF pmsg[c] = NoAlert THEN <<>> ELSE <<pmsg[c]>>
               x == Feed(c)[i]
    <2>1. /\ live[c] \in Seq(Alerts) /\ send[c] \in Seq(Alerts)
          /\ pmsg[c] \in Alerts \cup {NoAlert}
        BY DEF TypeInv, TypeOK, PumpType
    <2>2. hand \in Seq(Alerts) /\ live[c] \o hand \in Seq(Alerts)
        BY <2>1, OrderConcat
    <2>3. \A a : In(a, hand) => a = pmsg[c]
        BY DEF In
    <2>4. \A a, b : ~Precedes(a, b, hand)
        BY DEF Precedes
    <2>5. Feed(c) = (live[c] \o hand) \o send[c] /\ Feed(c) \in Seq(Alerts)
        BY <2>1, <2>2, OrderConcat DEF Feed, InHand
    <2>6. Precedes(x, x, Feed(c)) /\ x \in Alerts
        <3>1. i < j \/ j < i
            BY <2>5
        <3>2. x \in Alerts
            <4>1. Feed(c) \in Seq(Alerts)
                BY <2>5
            <4> HIDE DEF hand
            <4> QED
                BY <4>1
        <3>3. Precedes(x, x, Feed(c))
            BY <3>1 DEF Precedes
        <3> QED
            BY <3>2, <3>3
    <2> HIDE DEF hand, x
    <2>7. /\ \A a : In(a, live[c] \o hand) => In(a, live[c]) \/ In(a, hand)
          /\ \A a, b : Precedes(a, b, live[c] \o hand) =>
                 Precedes(a, b, live[c]) \/ Precedes(a, b, hand) \/ (In(a, live[c]) /\ In(b, hand))
        BY <2>1, <2>2, OrderConcat
    <2>8. \/ Precedes(x, x, live[c] \o hand) \/ Precedes(x, x, send[c])
          \/ In(x, live[c] \o hand) /\ In(x, send[c])
        BY <2>1, <2>2, <2>5, <2>6, OrderConcat
    <2>9. Ahead(x, x, c)
        BY <2>3, <2>4, <2>7, <2>8 DEF Ahead
    <2> QED
        BY <2>6, <2>9 DEF OrderInv
<1> QED
    BY <1>1, OrderInvariant, PTL

(* For any number of clients and alerts, no two clients receive two alerts  *)
(* in different orders.                                                     *)
THEOREM SameOrderCorrect == Spec => []SameOrder
<1>1. OrderInv => SameOrder
    BY DEF OrderInv, SameOrder, Ahead
<1> QED
    BY <1>1, OrderInvariant, PTL
-----------------------------------------------------------------------------
(* The feed implements AlertFeed. *)

(* Three sequences in a row: one moves from the head of a part to the end   *)
(* of the part before it, or falls out.                                     *)
LEMMA RowGrows ==
    ASSUME NEW S, NEW h \in Seq(S), NEW s \in Seq(S), NEW m \in S
    PROVE  /\ h \o s \o <<m>> = Append(h \o s \o <<>>, m)
           /\ h \o s \o <<m>> = h \o Append(s, m) \o <<>>
           /\ h \o s \in Seq(S) /\ h \o s \o <<>> = h \o s
           /\ Len(h \o s \o <<m>>) = Len(h) + Len(s) + 1
           /\ SubSeq(h \o s \o <<m>>, 1, Len(h \o s \o <<m>>) - 1) = h \o s \o <<>>
<1>1. /\ h \o s \in Seq(S) /\ <<m>> \in Seq(S) /\ Len(h) \in Nat /\ Len(s) \in Nat
      /\ Len(<<m>>) = 1
    BY ConcatProperties
<1>2. h \o s \o <<>> = h \o s
    BY <1>1, ConcatEmptySeq
<1>3. h \o s \o <<m>> = Append(h \o s, m)
    BY <1>1, AppendIsConcat
<1>4. h \o Append(s, m) \o <<>> = h \o s \o <<m>>
    <2>1. Append(s, m) = s \o <<m>> /\ Append(s, m) \in Seq(S)
        BY <1>1, AppendIsConcat, AppendProperties
    <2>2. h \o Append(s, m) \o <<>> = h \o Append(s, m)
        BY <2>1, ConcatProperties, ConcatEmptySeq
    <2>3. h \o (s \o <<m>>) = (h \o s) \o <<m>>
        BY <1>1, ConcatAssociative
    <2> QED
        BY <2>1, <2>2, <2>3
<1>5. Len(h \o s) = Len(h) + Len(s) /\ Len(Append(h \o s, m)) = Len(h \o s) + 1
    BY <1>1, ConcatProperties, AppendProperties
<1>6. SubSeq(Append(h \o s, m), 1, Len(h \o s)) = h \o s
    <2> DEFINE t == h \o s
    <2>1. t \in Seq(S) /\ Append(t, m) \in Seq(S)
        BY <1>1, AppendProperties
    <2> HIDE DEF t
    <2> QED
        BY <2>1 DEF t
<1>7. Len(h \o s \o <<m>>) = Len(h) + Len(s) + 1 /\ Len(h \o s \o <<m>>) - 1 = Len(h \o s)
    BY <1>1, <1>3, <1>5
<1>8. SubSeq(h \o s \o <<m>>, 1, Len(h \o s \o <<m>>) - 1) = h \o s \o <<>>
    BY <1>2, <1>3, <1>6, <1>7
<1>9. h \o s \o <<m>> = Append(h \o s \o <<>>, m)
    BY <1>2, <1>3
<1> QED
    BY <1>1, <1>2, <1>4, <1>7, <1>8, <1>9

LEMMA RowMoves ==
    ASSUME NEW S, NEW s \in Seq(S), NEW t \in Seq(S), NEW m \in S
    PROVE  /\ s # <<>> => <<Head(s)>> \o Tail(s) \o t = <<>> \o s \o t
           /\ <<m>> \o s \o t # <<>> /\ Head(<<m>> \o s \o t) = m
           /\ Tail(<<m>> \o s \o t) = <<>> \o s \o t
<1>1. <<m>> \in Seq(S) /\ s \o t \in Seq(S) /\ <<>> \o s = s
    <2>1. <<m>> \in Seq(S)
        OBVIOUS
    <2>2. s \o t \in Seq(S)
        BY ConcatProperties
    <2>3. <<>> \o s = s
        BY ConcatEmptySeq
    <2> QED
        BY <2>1, <2>2, <2>3
<1>2. ASSUME s # <<>> PROVE <<Head(s)>> \o Tail(s) = s
    BY <1>2
<1>3. <<m>> \o s \o t = <<m>> \o (s \o t)
    BY <1>1, ConcatAssociative
<1>4. ASSUME NEW u \in Seq(S)
      PROVE  <<m>> \o u # <<>> /\ Head(<<m>> \o u) = m /\ Tail(<<m>> \o u) = u
    <2>1. Len(u) \in Nat
        OBVIOUS
    <2>2. /\ <<m>> \o u \in Seq(S) /\ Len(<<m>> \o u) = Len(u) + 1
          /\ \A i \in 1..Len(u) + 1 : (<<m>> \o u)[i] = IF i <= 1 THEN m ELSE u[i - 1]
        <3>1. Len(<<m>>) = 1 /\ <<m>>[1] = m
            OBVIOUS
        <3>2. /\ <<m>> \o u \in Seq(S) /\ Len(<<m>> \o u) = Len(<<m>>) + Len(u)
              /\ \A i \in 1..Len(<<m>>) + Len(u) : (<<m>> \o u)[i] =
                     IF i <= Len(<<m>>) THEN <<m>>[i] ELSE u[i - Len(<<m>>)]
            BY <1>1, ConcatProperties
        <3>3. \A i \in Nat : i \in 1..1 + Len(u) /\ i <= 1 => i = 1
            BY <2>1
        <3> QED
            BY <2>1, <3>1, <3>2, <3>3
    <2> DEFINE w == <<m>> \o u
    <2> HIDE DEF w
    <2>3. /\ w \in Seq(S) /\ Len(w) = Len(u) + 1 /\ w # <<>> /\ w[1] = m
          /\ \A i \in 1..Len(u) : w[i + 1] = u[i]
        <3>1. w \in Seq(S) /\ Len(w) = Len(u) + 1
            BY <2>2 DEF w
        <3>2. \A i \in 1..Len(u) + 1 : w[i] = IF i <= 1 THEN m ELSE u[i - 1]
            BY <2>2 DEF w
        <3>3. \A i \in 1..Len(u) : i + 1 \in 1..Len(u) + 1 /\ ~(i + 1 <= 1) /\ (i + 1) - 1 = i
            BY <2>1
        <3>4. 1 \in 1..Len(u) + 1
            BY <2>1
        <3> QED
            BY <2>1, <3>1, <3>2, <3>3, <3>4
    <2>4. /\ Tail(w) \in Seq(S) /\ Len(Tail(w)) = Len(u)
          /\ \A i \in 1..Len(u) : Tail(w)[i] = u[i]
        BY <2>1, <2>3, HeadTailProperties
    <2>5. Tail(w) = u
        BY <2>4, SeqEqual
    <2>6. Head(w) = m
        BY <2>3
    <2> QED
        BY <2>3, <2>5, <2>6 DEF w
<1> QED
    BY <1>1, <1>2, <1>3, <1>4

(* Nothing is given to a client before it is registered, and a channel is   *)
(* closed only after its connection went down.                              *)
FreshInv ==
    \A c \in Clients :
        /\ cpc[c] \in {"new", "upgraded"} => c \notin clients /\ send[c] = <<>> /\ live[c] = <<>>
        /\ closed[c] => conn[c] # "up" /\ cpc[c] = "returned"

LEMMA NextFreshInv ==
    TypeInv /\ RoundInv /\ UpIsRegistered /\ FreshInv /\ [Next]_vars => FreshInv'
<1> SUFFICES ASSUME TypeInv, RoundInv, UpIsRegistered, FreshInv, [Next]_vars, NEW c \in Clients
             PROVE  /\ cpc'[c] \in {"new", "upgraded"} =>
                           c \notin clients' /\ send'[c] = <<>> /\ live'[c] = <<>>
                    /\ closed'[c] => conn'[c] # "up" /\ cpc'[c] = "returned"
    BY DEF FreshInv
<1>0. /\ conn \in [Clients -> {"none", "up", "stalled", "gone"}]
      /\ cpc \in [Clients -> {"new", "upgraded", "registered", "listed", "unlisted",
                              "reading", "readingUnlisted", "returned"}]
      /\ closed \in [Clients -> BOOLEAN] /\ todo \subseteq clients
      /\ send \in [Clients -> Seq(Alerts)] /\ live \in [Clients -> Seq(Alerts)]
    BY DEF TypeInv, TypeOK, ClientType, PumpType, RoundInv, RoundIsStable
<1>1. /\ cpc'[c] \in {"new", "upgraded"} => cpc[c] \in {"new", "upgraded"} /\ ~Register(c)
      /\ closed'[c] => cpc'[c] = "returned" /\
            \/ closed[c]
            \/ conn[c] # "up" /\ conn' = conn
    <2>1. ASSUME NEW d \in Clients, Upgrade(d) \/ Serve(d)
          PROVE  /\ cpc'[c] \in {"new", "upgraded"} => cpc[c] \in {"new", "upgraded"} /\ ~Register(c)
                 /\ closed'[c] => cpc'[c] = "returned" /\
                       \/ closed[c]
                       \/ conn[c] # "up" /\ conn' = conn
        BY <1>0, <2>1 DEF Upgrade, Serve, Register, ListAlerts, StartPump, ReadLoopEnds, FreshInv
    <2>2. CASE UNCHANGED <<cpc, closed>>
        BY <1>0, <2>2 DEF FreshInv, Register
    <2> QED
        BY <2>1, <2>2, WhoChanges
<1>2. ASSUME closed[c] PROVE conn'[c] # "up"
    <2>1. conn[c] # "up" /\ cpc[c] = "returned"
        BY <1>2 DEF FreshInv
    <2>2. ASSUME NEW d \in Clients, Upgrade(d) PROVE conn'[c] # "up"
        BY <1>0, <2>1, <2>2 DEF Upgrade
    <2>3. ASSUME NEW d \in Clients, PumpCloses(d) \/ PeerLeaves(d) \/ PeerStalls(d)
          PROVE  conn'[c] # "up"
        BY <1>0, <2>1, <2>3 DEF PumpCloses, PeerLeaves, PeerStalls
    <2> QED
        BY <2>1, <2>2, <2>3, WhoChanges
<1>3. ASSUME cpc[c] \in {"new", "upgraded"}, ~Register(c)
      PROVE  c \notin clients' /\ send'[c] = <<>> /\ live'[c] = <<>>
    <2>0. c \notin clients /\ send[c] = <<>> /\ live[c] = <<>> /\ ppc[c] = "unborn" /\ c \notin todo
        BY <1>0, <1>3 DEF FreshInv, UpIsRegistered
    <2>1. c \notin clients'
        <3>1. ASSUME NEW d \in Clients, d # c, Register(d) PROVE c \notin clients'
            BY <2>0, <3>1 DEF Register
        <3>2. ASSUME NEW d \in Clients, PumpDeletes(d) PROVE c \notin clients'
            BY <2>0, <3>2 DEF PumpDeletes
        <3> QED
            BY <1>3, <2>0, <3>1, <3>2, WhoChanges
    <2>2. send'[c] = <<>>
        <3>1. ASSUME NEW d \in Clients, HubSend(d) PROVE send'[c] = send[c]
            BY <1>0, <2>0, <3>1 DEF HubSend
        <3>2. ASSUME NEW d \in Clients, PumpTake(d) PROVE send'[c] = send[c]
            BY <1>0, <2>0, <3>2 DEF PumpTake
        <3> QED
            BY <2>0, <3>1, <3>2, WhoChanges
    <2>3. live'[c] = <<>>
        <3>1. ASSUME NEW d \in Clients, StartPump(d) \/ Pump(d) PROVE live'[c] = live[c]
            BY <1>0, <2>0, <3>1
            DEF StartPump, Pump, PumpTake, PumpWritten, PumpCloses, PumpDeletes
        <3> QED
            BY <2>0, <3>1, WhoChanges
    <2> QED
        BY <2>1, <2>2, <2>3
<1> QED
    BY <1>1, <1>2, <1>3

(* What is pending for a client changes only with its channel, its pump and *)
(* its turn.                                                                *)
LEMMA PendingSame ==
    ASSUME NEW c \in Clients, send'[c] = send[c], pmsg'[c] = pmsg[c],
           c \in todo' <=> c \in todo, c \in todo => hubMsg' = hubMsg
    PROVE  Pending(c)' = Pending(c)
    BY DEF Pending, InHand

LEMMA PendingType ==
    ASSUME TypeInv, RoundInv, NEW c \in Clients
    PROVE  /\ InHand(c) \in Seq(Alerts) /\ send[c] \in Seq(Alerts)
           /\ c \in todo => hubMsg \in Alerts
<1>1. pmsg[c] \in Alerts \cup {NoAlert} /\ send[c] \in Seq(Alerts) /\ hubMsg \in Alerts \cup {NoAlert}
    BY DEF TypeInv, TypeOK, PumpType, HandlerType
<1>2. c \in todo => hubMsg # NoAlert
    BY DEF RoundInv
<1>3. ASSUME pmsg[c] # NoAlert PROVE <<pmsg[c]>> \in Seq(Alerts)
    BY <1>1, <1>3
<1> QED
    BY <1>1, <1>2, <1>3 DEF InHand

LEMMA OnePending ==
    ASSUME NEW c \in Clients, NEW v, Pending(c)' = v,
           \A d \in Clients : d # c => Pending(d)' = Pending(d)
    PROVE  AllPending' = [AllPending EXCEPT ![c] = v] /\ AllPending[c] = Pending(c)
    BY DEF AllPending

FeedInv == TypeInv /\ RoundInv /\ UpIsRegistered /\ FreshInv
feedVars == <<Published, broadcast_, clients, UpClients, AllPending, live>>

(* The handlers publish. *)
LEMMA HandlersPublish ==
    ASSUME FeedInv, NEW a \in Alerts, Post(a) \/ Handle(a)
    PROVE  [Broadcasting!Next]_feedVars
<1>0. hpc \in [Alerts -> {"new", "received", "saved", "done"}]
    BY DEF FeedInv, TypeInv, TypeOK, HandlerType
<1>1. UNCHANGED <<clients, UpClients, AllPending, live>>
    <2>1. UNCHANGED <<clients, conn, send, pmsg, hubMsg, todo, live>>
        BY DEF Post, Handle, SaveAlert, Broadcast, ingestRest, hubVars, pumpVars
    <2>2. \A c \in Clients : Pending(c)' = Pending(c)
        BY <2>1, PendingSame
    <2> QED
        BY <2>1, <2>2 DEF UpClients, AllPending
<1>2. CASE Post(a) \/ SaveAlert(a)
    <2>1. broadcast_' = broadcast_
        BY <1>2 DEF Post, SaveAlert
    <2>2. \A b \in Alerts : hpc'[b] = "done" <=> hpc[b] = "done"
        BY <1>0, <1>2 DEF Post, SaveAlert
    <2>3. Published' = Published
        BY <2>2 DEF Published
    <2> QED
        BY <1>1, <2>1, <2>3 DEF feedVars
<1>3. CASE Broadcast(a)
    <2>1. hpc' = [hpc EXCEPT ![a] = "done"] /\ hpc[a] = "saved"
        BY <1>3 DEF Broadcast
    <2>2. a \notin Published /\ Published' = Published \cup {a}
        BY <1>0, <2>1 DEF Published
    <2>3. \/ Len(broadcast_) < HubCap /\ broadcast_' = Append(broadcast_, a)
          \/ Len(broadcast_) = HubCap /\ UNCHANGED broadcast_
        BY <1>3 DEF Broadcast
    <2>4. Broadcasting!Publish(a)
        BY <1>1, <2>2, <2>3 DEF Broadcasting!Publish
    <2> QED
        BY <2>4 DEF Broadcasting!Next
<1> QED
    BY <1>2, <1>3 DEF Handle

(* The hub gives an alert to all when it takes it, and takes it back from   *)
(* a client that it finds with a full channel.                              *)
LEMMA HubGives ==
    ASSUME FeedInv, HubStep
    PROVE  [Broadcasting!Next]_feedVars
<1>0. /\ broadcast_ \in Seq(Alerts) /\ send \in [Clients -> Seq(Alerts)]
      /\ hubMsg \in Alerts \cup {NoAlert} /\ SendCap \in Nat /\ todo \subseteq Clients
    BY CapsPos DEF FeedInv, TypeInv, TypeOK, HandlerType, PumpType, ClientType
<1>1. UNCHANGED <<Published, clients, UpClients, live, pmsg>>
    BY DEF HubStep, HubTake, HubSend, HubRoundEnds, hubRest, ingestVars, pumpVars, Published,
       UpClients
<1>2. CASE HubTake
    <2>1. /\ hubMsg = NoAlert /\ broadcast_ # <<>> /\ hubMsg' = Head(broadcast_)
          /\ broadcast_' = Tail(broadcast_) /\ todo' = clients /\ send' = send /\ todo = {}
        BY <1>2 DEF HubTake, FeedInv, RoundInv
    <2>2. Head(broadcast_) \in Alerts
        BY <1>0, <2>1, InTail
    <2>3. ASSUME NEW c \in Clients
          PROVE  Pending(c)' = IF c \in clients THEN Append(Pending(c), Head(broadcast_))
                               ELSE Pending(c)
        <3>1. Pending(c) = InHand(c) \o send[c] \o <<>>
            BY <2>1 DEF Pending
        <3>2. InHand(c)' = InHand(c) /\ send'[c] = send[c]
            BY <1>1, <2>1 DEF InHand
        <3>3. InHand(c) \in Seq(Alerts) /\ send[c] \in Seq(Alerts)
            BY PendingType DEF FeedInv
        <3>4. InHand(c) \o send[c] \o <<Head(broadcast_)>> = Append(Pending(c), Head(broadcast_))
            BY <2>2, <3>1, <3>3, RowGrows
        <3> QED
            BY <2>1, <3>1, <3>2, <3>4 DEF Pending
    <2>4. AllPending' = [c \in Clients |-> IF c \in clients
                             THEN Append(AllPending[c], Head(broadcast_)) ELSE AllPending[c]]
        BY <2>3 DEF AllPending
    <2>5. Broadcasting!Give
        BY <1>1, <2>1, <2>4 DEF Broadcasting!Give
    <2> QED
        BY <2>5 DEF Broadcasting!Next
<1>3. CASE HubRoundEnds
    <2>1. UNCHANGED <<broadcast_, todo, send>> /\ todo = {}
        BY <1>3 DEF HubRoundEnds
    <2>2. \A c \in Clients : Pending(c)' = Pending(c)
        BY <1>1, <2>1, PendingSame
    <2> QED
        BY <1>1, <2>1, <2>2 DEF feedVars, AllPending
<1>4. ASSUME NEW c \in Clients, HubSend(c) PROVE [Broadcasting!Next]_feedVars
    <2>1. UNCHANGED <<broadcast_, hubMsg>> /\ c \in todo /\ hubMsg \in Alerts
        BY <1>0, <1>4 DEF HubSend
    <2>2. InHand(c) \in Seq(Alerts) /\ send[c] \in Seq(Alerts) /\ InHand(c)' = InHand(c)
        BY <1>1, PendingType DEF FeedInv, InHand
    <2>3. CASE UNCHANGED <<send, todo>>
        <3>1. \A d \in Clients : Pending(d)' = Pending(d)
            BY <1>1, <2>1, <2>3, PendingSame
        <3> QED
            BY <1>1, <2>1, <3>1 DEF feedVars, AllPending
    <2>4. CASE todo' = todo \ {c} /\ send' = [send EXCEPT ![c] = Append(@, hubMsg)]
        <3>1. \A d \in Clients : d # c => Pending(d)' = Pending(d)
            BY <1>0, <1>1, <2>1, <2>4, PendingSame
        <3>2. Pending(c)' = InHand(c) \o Append(send[c], hubMsg) \o <<>>
            BY <1>0, <2>2, <2>4 DEF Pending
        <3>3. Pending(c) = InHand(c) \o send[c] \o <<hubMsg>>
            BY <2>1 DEF Pending
        <3>4. Pending(c)' = Pending(c)
            BY <2>1, <2>2, <3>2, <3>3, RowGrows
        <3> QED
            BY <1>1, <2>1, <3>1, <3>4 DEF feedVars, AllPending
    <2>5. CASE todo' = todo \ {c} /\ send' = send /\ Len(send[c]) = SendCap
        <3>1. \A d \in Clients : d # c => Pending(d)' = Pending(d)
            BY <1>0, <1>1, <2>1, <2>5, PendingSame
        <3>2. Pending(c)' = InHand(c) \o send[c] \o <<>>
            BY <1>0, <2>2, <2>5 DEF Pending
        <3>3. Pending(c) = InHand(c) \o send[c] \o <<hubMsg>>
            BY <2>1 DEF Pending
        <3>4. /\ Pending(c)' = SubSeq(Pending(c), 1, Len(Pending(c)) - 1)
              /\ Len(Pending(c)) = Len(InHand(c)) + Len(send[c]) + 1
            BY <2>1, <2>2, <3>2, <3>3, RowGrows
        <3>5. Len(Pending(c)) > SendCap
            <4>1. Len(InHand(c)) \in Nat
                BY <2>2
            <4> QED
                BY <1>0, <2>5, <3>4, <4>1
        <3>6. /\ AllPending[c] = Pending(c)
              /\ AllPending' = [AllPending EXCEPT ![c] = SubSeq(Pending(c), 1, Len(Pending(c)) - 1)]
            BY <3>1, <3>4, OnePending
        <3>7. Broadcasting!Miss(c)
            BY <1>1, <2>1, <3>5, <3>6 DEF Broadcasting!Miss
        <3> QED
            BY <3>7 DEF Broadcasting!Next
    <2> QED
        BY <1>4, <2>3, <2>4, <2>5 DEF HubSend
<1> QED
    BY <1>2, <1>3, <1>4 DEF HubStep

(* A client joins and its connection comes up. *)
LEMMA ClientsJoin ==
    ASSUME FeedInv, NEW c \in Clients, Upgrade(c) \/ Serve(c)
    PROVE  [Broadcasting!Next]_feedVars
<1>0. /\ conn \in [Clients -> {"none", "up", "stalled", "gone"}]
      /\ pmsg[c] = NoAlert \/ ppc[c] = "writing"
    BY DEF FeedInv, TypeInv, TypeOK, ClientType, PumpType, PumpHolds
<1>1. /\ UNCHANGED <<Published, broadcast_, live, send, pmsg, hubMsg, todo>>
      /\ UNCHANGED AllPending
    <2>1. UNCHANGED <<hpc, broadcast_, live, send, pmsg, hubMsg, todo>>
        BY DEF Upgrade, Serve, Register, ListAlerts, StartPump, ReadLoopEnds, wsRest,
           ingestVars, hubVars, pumpVars
    <2>2. \A d \in Clients : Pending(d)' = Pending(d)
        BY <2>1, PendingSame
    <2> QED
        BY <2>1, <2>2 DEF Published, AllPending
<1>2. CASE Upgrade(c)
    <2>1. c \notin clients /\ clients' = clients /\ conn' = [conn EXCEPT ![c] = "up"]
        BY <1>2 DEF Upgrade, FeedInv, FreshInv
    <2>2. UpClients' = UpClients \cup {c}
        BY <1>0, <2>1 DEF UpClients
    <2>3. Broadcasting!Connect(c)
        BY <1>1, <2>1, <2>2 DEF Broadcasting!Connect
    <2> QED
        BY <2>3 DEF Broadcasting!Next
<1>3. CASE Register(c)
    <2>1. /\ cpc[c] = "upgraded" /\ clients' = clients \cup {c} /\ conn' = conn
          /\ c \notin clients /\ send[c] = <<>> /\ live[c] = <<>>
        BY <1>3 DEF Register, FeedInv, FreshInv
    <2>2. pmsg[c] = NoAlert /\ c \notin todo
        BY <1>0, <2>1 DEF FeedInv, UpIsRegistered, RoundInv, RoundIsStable
    <2>3. AllPending[c] = <<>>
        BY <2>1, <2>2 DEF AllPending, Pending, InHand
    <2>4. Broadcasting!Join(c)
        BY <1>1, <2>1, <2>3 DEF Broadcasting!Join, UpClients
    <2> QED
        BY <2>4 DEF Broadcasting!Next
<1>4. CASE ListAlerts(c) \/ StartPump(c) \/ ReadLoopEnds(c)
    <2>1. UNCHANGED <<clients, conn>>
        BY <1>4 DEF ListAlerts, StartPump, ReadLoopEnds
    <2> QED
        BY <1>1, <2>1 DEF feedVars, UpClients
<1> QED
    BY <1>2, <1>3, <1>4 DEF Serve

(* A write is the receipt of the oldest alert given, unless the connection  *)
(* is down; a pump that leaves takes its client with it.                    *)
LEMMA PumpReceives ==
    ASSUME FeedInv, NEW c \in Clients, Pump(c)
    PROVE  [Broadcasting!Next]_feedVars
<1>0. /\ conn \in [Clients -> {"none", "up", "stalled", "gone"}]
      /\ pmsg \in [Clients -> Alerts \cup {NoAlert}]
      /\ pmsg[c] # NoAlert <=> ppc[c] = "writing"
      /\ send \in [Clients -> Seq(Alerts)] /\ live \in [Clients -> Seq(Alerts)]
    BY DEF FeedInv, TypeInv, TypeOK, ClientType, PumpType, PumpHolds
<1>1. UNCHANGED <<Published, broadcast_, hubMsg, todo>>
    BY DEF Pump, PumpTake, PumpWritten, PumpCloses, PumpDeletes, pumpRest, ingestVars, hubVars,
       Published
<1> DEFINE due == IF c \in todo THEN <<hubMsg>> ELSE <<>>
<1>2. due \in Seq(Alerts) /\ due' = due /\ Pending(c) = InHand(c) \o send[c] \o due
    BY <1>1, PendingType DEF FeedInv, Pending
<1>3. ASSUME NEW d \in Clients, d # c PROVE Pending(d)' = Pending(d)
    <2>1. send'[d] = send[d] /\ pmsg'[d] = pmsg[d]
        BY <1>0, <1>3 DEF Pump, PumpTake, PumpWritten, PumpCloses, PumpDeletes
    <2> QED
        BY <1>1, <2>1, PendingSame
<1>4. CASE PumpTake(c)
    <2>1. /\ UNCHANGED <<clients, conn, live>> /\ send[c] # <<>> /\ pmsg[c] = NoAlert
          /\ pmsg'[c] = Head(send[c]) /\ send'[c] = Tail(send[c])
        BY <1>0, <1>4 DEF PumpTake
    <2>2. Head(send[c]) \in Alerts
        BY <1>0, <2>1, InTail
    <2>3. InHand(c) = <<>> /\ InHand(c)' = <<Head(send[c])>>
        BY <2>1, <2>2, AlertsArePositive DEF InHand
    <2>4. <<Head(send[c])>> \o Tail(send[c]) \o due = <<>> \o send[c] \o due
        BY <1>0, <1>2, <2>1, <2>2, RowMoves
    <2>5. Pending(c)' = Pending(c)
        BY <1>2, <2>1, <2>3, <2>4 DEF Pending
    <2> QED
        BY <1>1, <1>3, <2>1, <2>5 DEF feedVars, AllPending, UpClients
<1>5. ASSUME ppc[c] = "writing", send' = send, pmsg'[c] = NoAlert
      PROVE  /\ pmsg[c] \in Alerts /\ AllPending[c] # <<>> /\ Head(AllPending[c]) = pmsg[c]
             /\ AllPending' = [AllPending EXCEPT ![c] = Tail(AllPending[c])]
    <2>1. pmsg[c] \in Alerts /\ InHand(c) = <<pmsg[c]>> /\ InHand(c)' = <<>>
        BY <1>0, <1>5 DEF InHand
    <2>2. /\ <<pmsg[c]>> \o send[c] \o due # <<>> /\ Head(<<pmsg[c]>> \o send[c] \o due) = pmsg[c]
          /\ Tail(<<pmsg[c]>> \o send[c] \o due) = <<>> \o send[c] \o due
        BY <1>0, <1>2, <2>1, RowMoves
    <2>3. Pending(c)' = Tail(Pending(c))
        BY <1>2, <1>5, <2>1, <2>2 DEF Pending
    <2>4. AllPending' = [AllPending EXCEPT ![c] = Tail(Pending(c))] /\ AllPending[c] = Pending(c)
        BY <1>3, <2>3, OnePending
    <2> QED
        BY <1>2, <2>1, <2>2, <2>4
<1>6. CASE PumpWritten(c)
    <2>1. /\ UNCHANGED <<clients, conn, UpClients>>
          /\ live' = IF conn[c] = "up" THEN [live EXCEPT ![c] = Append(@, pmsg[c])] ELSE live
        BY <1>6 DEF PumpWritten, UpClients
    <2>2. ppc[c] = "writing" /\ send' = send /\ pmsg'[c] = NoAlert
        BY <1>0, <1>6 DEF PumpWritten
    <2>3. CASE c \in UpClients
        <3>1. Broadcasting!Receive(c)
            BY <1>1, <1>5, <2>1, <2>2, <2>3 DEF Broadcasting!Receive, UpClients
        <3> QED
            BY <3>1 DEF Broadcasting!Next
    <2>4. CASE c \notin UpClients
        <3>1. Broadcasting!Waste(c)
            BY <1>1, <1>5, <2>1, <2>2, <2>4 DEF Broadcasting!Waste, UpClients
        <3> QED
            BY <3>1 DEF Broadcasting!Next
    <2> QED
        BY <2>3, <2>4
<1>7. CASE PumpCloses(c)
    <2>1. /\ UNCHANGED <<clients, send, live>> /\ conn[c] # "up" /\ pmsg'[c] = NoAlert
          /\ conn' = [conn EXCEPT ![c] = "gone"]
        BY <1>0, <1>7 DEF PumpCloses, FeedInv, FreshInv
    <2>2. UpClients' = UpClients /\ c \notin UpClients
        BY <1>0, <2>1 DEF UpClients
    <2>3. CASE ppc[c] = "writing"
        <3>1. Broadcasting!Waste(c)
            BY <1>1, <1>5, <2>1, <2>2, <2>3 DEF Broadcasting!Waste
        <3> QED
            BY <3>1 DEF Broadcasting!Next
    <2>4. CASE ppc[c] # "writing"
        <3>1. Pending(c)' = Pending(c)
            BY <1>0, <1>1, <2>1, <2>4, PendingSame
        <3> QED
            BY <1>1, <1>3, <2>1, <2>2, <3>1 DEF feedVars, AllPending
    <2> QED
        BY <2>3, <2>4
<1>8. CASE PumpDeletes(c)
    <2>1. /\ UNCHANGED <<conn, send, pmsg, live>> /\ clients' = clients \ {c} /\ conn[c] # "up"
        BY <1>8 DEF PumpDeletes, FeedInv, UpIsRegistered
    <2>2. Pending(c)' = Pending(c)
        BY <1>1, <2>1, PendingSame
    <2>3. Broadcasting!Leave(c)
        BY <1>1, <1>3, <2>1, <2>2 DEF Broadcasting!Leave, UpClients, AllPending
    <2> QED
        BY <2>3 DEF Broadcasting!Next
<1> QED
    BY <1>4, <1>6, <1>7, <1>8 DEF Pump

(* The other end goes away. *)
LEMMA PeerGoes ==
    ASSUME FeedInv, NEW c \in Clients, PeerLeaves(c) \/ PeerStalls(c) \/ PingDuringWrite(c)
    PROVE  [Broadcasting!Next]_feedVars
<1>0. conn \in [Clients -> {"none", "up", "stalled", "gone"}]
    BY DEF FeedInv, TypeInv, TypeOK, ClientType
<1>1. UNCHANGED <<Published, broadcast_, clients, AllPending, live>>
    <2>1. UNCHANGED <<hpc, broadcast_, clients, live, send, pmsg, hubMsg, todo>>
        BY DEF PeerLeaves, PeerStalls, PingDuringWrite, pumpRest, pumpVars, ingestVars, hubVars
    <2>2. \A d \in Clients : Pending(d)' = Pending(d)
        BY <2>1, PendingSame
    <2> QED
        BY <2>1, <2>2 DEF Published, AllPending
<1>2. CASE PeerLeaves(c) \/ PeerStalls(c)
    <2>1. UpClients' = UpClients \ {c}
        BY <1>0, <1>2 DEF PeerLeaves, PeerStalls, UpClients
    <2>2. Broadcasting!Disconnect(c)
        BY <1>1, <2>1 DEF Broadcasting!Disconnect
    <2> QED
        BY <2>2 DEF Broadcasting!Next
<1>3. CASE PingDuringWrite(c)
    <2>1. conn' = conn
        BY <1>3 DEF PingDuringWrite
    <2> QED
        BY <1>1, <2>1 DEF feedVars, UpClients
<1> QED
    BY <1>2, <1>3

LEMMA StepIsOfFeed == FeedInv /\ [Next]_vars => [Broadcasting!Next]_feedVars
<1> SUFFICES ASSUME FeedInv, [Next]_vars PROVE [Broadcasting!Next]_feedVars
    OBVIOUS
<1>1. CASE UNCHANGED vars
    <2>1. UNCHANGED <<hpc, broadcast_, clients, live, conn, send, pmsg, hubMsg, todo>>
        BY <1>1 DEF vars, ingestVars, hubVars, pumpVars
    <2>2. \A d \in Clients : Pending(d)' = Pending(d)
        BY <2>1, PendingSame
    <2> QED
        BY <2>1, <2>2 DEF feedVars, Published, AllPending, UpClients
<1> QED
    BY <1>1, HandlersPublish, HubGives, ClientsJoin, PumpReceives, PeerGoes DEF Next

(* For any number of clients and alerts and any capacities, the hub, the    *)
(* handlers and the pumps together behave as a broadcast: an alert is given *)
(* to all registered clients at one moment, and each receives what it was   *)
(* given in that order, without a gap but where its channel was full.       *)
THEOREM ImplementsFeed == Spec => FeedSpec
<1>1. Init => RoundInv /\ UpIsRegistered /\ FreshInv
    BY DEF Init, RoundInv, RoundIsStable, UpIsRegistered, FreshInv
<1>2. Init => Broadcasting!Init
    <2> SUFFICES ASSUME Init PROVE Broadcasting!Init
        OBVIOUS
    <2>1. \A c \in Clients : Pending(c) = <<>>
        BY DEF Init, Pending, InHand
    <2> QED
        BY <2>1 DEF Init, Broadcasting!Init, Published, UpClients, AllPending
<1>3. FeedInv /\ [Next]_vars => [Broadcasting!Next]_(Broadcasting!vars)
    BY StepIsOfFeed DEF feedVars, Broadcasting!vars
<1> QED
    BY <1>1, <1>2, <1>3, InitTypeInv, NextTypeInv, NextRoundInv, NextUpIsRegistered, NextFreshInv,
       PTL DEF Spec, FeedSpec, Broadcasting!Spec, FeedInv
=============================================================================
