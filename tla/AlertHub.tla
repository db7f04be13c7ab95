------------------------------ MODULE AlertHub ------------------------------
(***************************************************************************)
(* The controller's live alert feed.  POST /event handlers save an alert   *)
(* and offer it to the hub; one hub goroutine copies every alert to the    *)
(* send channel of each registered WebSocket client; each client has a     *)
(* handler goroutine, which registers it, sends it the newest stored       *)
(* alerts and then reads until the connection fails, and a write pump.     *)
(*                                                                         *)
(* Alerts are numbered by their timestamps, so the larger is the newer;    *)
(* agents post them in any order.                                          *)
(***************************************************************************)
EXTENDS Naturals, Sequences, FiniteSets

CONSTANTS
    Clients,            \* WebSocket connections (one per connection, not per browser)
    MaxAlerts,          \* bound: how many alerts are posted
    HubCap,             \* capacity of the hub's broadcast channel
    SendCap,            \* capacity of a client's send channel
    InitLimit           \* how many alerts a new client is sent

ASSUME MaxAlertsNat == MaxAlerts \in Nat
ASSUME CapsPos == HubCap \in Nat \ {0} /\ SendCap \in Nat \ {0}
ASSUME InitLimitPos == InitLimit \in Nat \ {0}

VARIABLES
    crash,              \* "no", or what made a goroutine panic and ended the process
    hpc,                \* where the POST handler of each alert is
    stored,             \* the alerts in the store
    broadcast_,         \* the hub's channel
    hubMsg,             \* the alert the hub is sending round, under the read lock
    todo,               \* the clients it has not come to yet
    clients,            \* the hub's client map
    cpc,                \* where each client's handler is
    snapshot,           \* history: what the store held when the client's list was read
    page,               \* the list it is sent on connect
    send,               \* each client's send channel
    closed,             \* whether that channel is closed
    ppc,                \* where each client's write pump is
    pmsg,               \* the alert the pump is writing
    conn,               \* the connection: "none", "up", "stalled" or "gone"
    live,               \* history: the alerts the client received from its pump
    dropped,            \* history: alerts no client got, the hub's channel being full
    missed              \* history: alerts a client lost, its own channel being full

ingestVars == <<hpc, stored>>
hubVars    == <<hubMsg, todo>>
listVars   == <<snapshot, page>>
pumpVars   == <<ppc, pmsg, live>>
vars == <<crash, ingestVars, broadcast_, hubVars, clients, cpc, listVars, send,
          closed, pumpVars, conn, dropped, missed>>

Alerts == 1..MaxAlerts
NoAlert == 0

Running == crash = "no"

(* mu.Lock is available: the hub goroutine is not between RLock and RUnlock. *)
WriteLockFree == hubMsg = NoAlert

In(a, s) == \E i \in 1..Len(s) : s[i] = a

Init ==
    /\ crash = "no"
    /\ hpc = [a \in Alerts |-> "new"]
    /\ stored = {}
    /\ broadcast_ = <<>> /\ hubMsg = NoAlert /\ todo = {}
    /\ clients = {}
    /\ cpc = [c \in Clients |-> "new"]
    /\ snapshot = [c \in Clients |-> {}]
    /\ page = [c \in Clients |-> {}]
    /\ send = [c \in Clients |-> <<>>]
    /\ closed = [c \in Clients |-> FALSE]
    /\ ppc = [c \in Clients |-> "unborn"]
    /\ pmsg = [c \in Clients |-> NoAlert]
    /\ conn = [c \in Clients |-> "none"]
    /\ live = [c \in Clients |-> <<>>]
    /\ dropped = {}
    /\ missed = [c \in Clients |-> {}]

-----------------------------------------------------------------------------
(* handleEvent, one goroutine per request. *)

ingestRest == <<crash, hubVars, clients, cpc, listVars, send, closed, pumpVars,
                conn, missed>>

Post(a) ==
    /\ Running /\ hpc[a] = "new"
    /\ hpc' = [hpc EXCEPT ![a] = "received"]
    /\ UNCHANGED <<ingestRest, stored, broadcast_, dropped>>

(* A failure to save is logged and the handler goes on. *)
SaveAlert(a) ==
    /\ Running /\ hpc[a] = "received"
    /\ stored' \in {stored, stored \cup {a}}
    /\ hpc' = [hpc EXCEPT ![a] = "saved"]
    /\ UNCHANGED <<ingestRest, broadcast_, dropped>>

(* hub.broadcast: a non-blocking send with an empty default branch. *)
Broadcast(a) ==
    /\ Running /\ hpc[a] = "saved"
    /\ hpc' = [hpc EXCEPT ![a] = "done"]
    /\ \/ /\ Len(broadcast_) < HubCap
          /\ broadcast_' = Append(broadcast_, a)
          /\ UNCHANGED dropped
       \/ /\ Len(broadcast_) = HubCap
          /\ dropped' = dropped \cup {a}
          /\ UNCHANGED broadcast_
    /\ UNCHANGED <<ingestRest, stored>>

-----------------------------------------------------------------------------
(* wsHub.run. *)

hubRest == <<ingestVars, cpc, listVars, closed, pumpVars, conn, dropped, clients>>

(* Mutant of HubTake: a client that has not got its list yet is passed over. *)
HubTakeOnlyOpen ==
    /\ Running /\ hubMsg = NoAlert /\ broadcast_ # <<>>
    /\ hubMsg' = Head(broadcast_)
    /\ broadcast_' = Tail(broadcast_)
    /\ todo' = {c \in clients : cpc[c] = "reading"}
    /\ UNCHANGED <<hubRest, crash, send, missed>>

(* The next message, and the read lock for the round. *)
HubTake ==
    /\ Running /\ hubMsg = NoAlert /\ broadcast_ # <<>>
    /\ hubMsg' = Head(broadcast_)
    /\ broadcast_' = Tail(broadcast_)
    /\ todo' = clients
    /\ UNCHANGED <<hubRest, crash, send, missed>>

(* Mutant of HubSend: a plain send, which waits for room. *)
HubSendWaits(c) ==
    /\ Running /\ hubMsg # NoAlert /\ c \in todo
    /\ Len(send[c]) < SendCap
    /\ send' = [send EXCEPT ![c] = Append(@, hubMsg)]
    /\ todo' = todo \ {c}
    /\ UNCHANGED <<hubRest, crash, broadcast_, hubMsg, missed>>

(* Mutant of HubSend: a full channel loses its oldest alert, not the newest. *)
HubSendDropsOldest(c) ==
    /\ Running /\ hubMsg # NoAlert /\ c \in todo
    /\ \/ /\ closed[c]
          /\ crash' = "send on closed channel"
          /\ UNCHANGED <<send, missed, todo>>
       \/ /\ ~closed[c]
          /\ send' = [send EXCEPT ![c] =
                        IF Len(@) = SendCap THEN Append(Tail(@), hubMsg) ELSE Append(@, hubMsg)]
          /\ missed' = [missed EXCEPT ![c] =
                          IF Len(send[c]) = SendCap THEN @ \cup {Head(send[c])} ELSE @]
          /\ todo' = todo \ {c}
          /\ UNCHANGED crash
    /\ UNCHANGED <<hubRest, broadcast_, hubMsg>>

(* One client of the round, in any order: a map has none.  A send on a      *)
(* closed channel panics, in a select with a default branch too.            *)
HubSend(c) ==
    /\ Running /\ hubMsg # NoAlert /\ c \in todo
    /\ \/ /\ closed[c]
          /\ crash' = "send on closed channel"
          /\ UNCHANGED <<send, missed, todo>>
       \/ /\ ~closed[c] /\ Len(send[c]) < SendCap
          /\ send' = [send EXCEPT ![c] = Append(@, hubMsg)]
          /\ todo' = todo \ {c}
          /\ UNCHANGED <<crash, missed>>
       \/ /\ ~closed[c] /\ Len(send[c]) = SendCap
          /\ missed' = [missed EXCEPT ![c] = @ \cup {hubMsg}]
          /\ todo' = todo \ {c}
          /\ UNCHANGED <<crash, send>>
    /\ UNCHANGED <<hubRest, broadcast_, hubMsg>>

HubRoundEnds ==
    /\ Running /\ hubMsg # NoAlert /\ todo = {}
    /\ hubMsg' = NoAlert
    /\ UNCHANGED <<hubRest, crash, broadcast_, todo, send, missed>>

-----------------------------------------------------------------------------
(* handleWS, one goroutine per connection. *)

wsRest == <<crash, ingestVars, broadcast_, hubVars, send, dropped, missed>>

Upgrade(c) ==
    /\ Running /\ cpc[c] = "new"
    /\ conn' = [conn EXCEPT ![c] = "up"]
    /\ cpc' = [cpc EXCEPT ![c] = "upgraded"]
    /\ UNCHANGED <<wsRest, clients, listVars, closed, pumpVars>>

Register(c) ==
    /\ Running /\ cpc[c] = "upgraded" /\ WriteLockFree
    /\ clients' = clients \cup {c}
    /\ cpc' = [cpc EXCEPT ![c] = "registered"]
    /\ UNCHANGED <<wsRest, listVars, closed, pumpVars, conn>>

(* The newest InitLimit alerts of the store. *)
Newest(S) == {a \in S : Cardinality({b \in S : b > a}) < InitLimit}

(* store.ListAlerts and the "init" message.  The list is empty-handed when  *)
(* the store cannot be read.                                                *)
ListAlerts(c) ==
    /\ Running /\ cpc[c] = "registered"
    /\ \/ /\ snapshot' = [snapshot EXCEPT ![c] = stored]
          /\ page' = [page EXCEPT ![c] = Newest(stored)]
          /\ cpc' = [cpc EXCEPT ![c] = "listed"]
       \/ /\ cpc' = [cpc EXCEPT ![c] = "unlisted"]
          /\ UNCHANGED listVars
    /\ UNCHANGED <<wsRest, clients, closed, pumpVars, conn>>

(* Mutant of StartPump: the pump is started only after a list was sent. *)
StartPumpIfListed(c) ==
    /\ Running /\ cpc[c] \in {"listed", "unlisted"}
    /\ cpc' = [cpc EXCEPT ![c] = IF cpc[c] = "listed" THEN "reading" ELSE "readingUnlisted"]
    /\ ppc' = IF cpc[c] = "listed" THEN [ppc EXCEPT ![c] = "idle"] ELSE ppc
    /\ UNCHANGED <<wsRest, clients, listVars, closed, pmsg, live, conn>>

(* The init message is written and the write pump started. *)
StartPump(c) ==
    /\ Running /\ cpc[c] \in {"listed", "unlisted"}
    /\ cpc' = [cpc EXCEPT ![c] = IF cpc[c] = "listed" THEN "reading" ELSE "readingUnlisted"]
    /\ ppc' = [ppc EXCEPT ![c] = "idle"]
    /\ UNCHANGED <<wsRest, clients, listVars, closed, pmsg, live, conn>>

(* Mutant of ReadLoopEnds: leaves the send channel open. *)
ReadLoopLeavesOpen(c) ==
    /\ Running /\ cpc[c] \in {"reading", "readingUnlisted"}
    /\ conn[c] # "up"
    /\ cpc' = [cpc EXCEPT ![c] = "returned"]
    /\ UNCHANGED <<wsRest, clients, listVars, closed, pumpVars, conn>>

(* The read loop ends: the peer closed, no pong came for 60 seconds, or the *)
(* pump closed the connection.  The handler closes the send channel, with   *)
(* no lock, and returns.                                                    *)
ReadLoopEnds(c) ==
    /\ Running /\ cpc[c] \in {"reading", "readingUnlisted"}
    /\ conn[c] # "up"
    /\ closed' = [closed EXCEPT ![c] = TRUE]
    /\ cpc' = [cpc EXCEPT ![c] = "returned"]
    /\ UNCHANGED <<wsRest, clients, listVars, pumpVars, conn>>

-----------------------------------------------------------------------------
(* The write pump. *)

pumpRest == <<crash, ingestVars, broadcast_, hubVars, cpc, listVars, closed,
              dropped, missed>>

(* Mutant of PumpTake: what cannot be written yet is put back, behind the   *)
(* alert that came after it.                                                *)
PumpTakeOvertakes(c) ==
    /\ Running /\ ppc[c] \in {"idle", "writing"} /\ send[c] # <<>>
    /\ pmsg' = [pmsg EXCEPT ![c] = Head(send[c])]
    /\ send' = [send EXCEPT ![c] =
                  IF ppc[c] = "writing" THEN Append(Tail(@), pmsg[c]) ELSE Tail(@)]
    /\ ppc' = [ppc EXCEPT ![c] = "writing"]
    /\ UNCHANGED <<pumpRest, clients, live, conn>>

PumpTake(c) ==
    /\ Running /\ ppc[c] = "idle" /\ send[c] # <<>>
    /\ pmsg' = [pmsg EXCEPT ![c] = Head(send[c])]
    /\ send' = [send EXCEPT ![c] = Tail(@)]
    /\ ppc' = [ppc EXCEPT ![c] = "writing"]
    /\ UNCHANGED <<pumpRest, clients, live, conn>>

(* Mutant of PumpWritten: a write that timed out is tried again, though the *)
(* client may have got it.                                                  *)
PumpWritesAgain(c) ==
    /\ Running /\ ppc[c] = "writing" /\ Len(live[c]) < 2
    /\ live' = IF conn[c] = "up" THEN [live EXCEPT ![c] = Append(@, pmsg[c])] ELSE live
    /\ \/ UNCHANGED <<pmsg, ppc>>
       \/ /\ pmsg' = [pmsg EXCEPT ![c] = NoAlert]
          /\ ppc' = [ppc EXCEPT ![c] = "idle"]
    /\ UNCHANGED <<pumpRest, clients, send, conn>>

(* WriteJSON returns no error.  The client has the alert only if its        *)
(* connection is up; otherwise the bytes sit in a socket buffer.            *)
PumpWritten(c) ==
    /\ Running /\ ppc[c] = "writing"
    /\ live' = IF conn[c] = "up" THEN [live EXCEPT ![c] = Append(@, pmsg[c])] ELSE live
    /\ pmsg' = [pmsg EXCEPT ![c] = NoAlert]
    /\ ppc' = [ppc EXCEPT ![c] = "idle"]
    /\ UNCHANGED <<pumpRest, clients, send, conn>>

(* WriteJSON fails, or the range over the closed channel has taken all that *)
(* was left in it: the pump closes the connection.                          *)
PumpCloses(c) ==
    /\ Running
    /\ \/ ppc[c] = "writing" /\ conn[c] # "up"
       \/ ppc[c] = "idle" /\ closed[c] /\ send[c] = <<>>
    /\ conn' = [conn EXCEPT ![c] = "gone"]
    /\ pmsg' = [pmsg EXCEPT ![c] = NoAlert]
    /\ ppc' = [ppc EXCEPT ![c] = "leaving"]
    /\ UNCHANGED <<pumpRest, clients, send, live>>

PumpDeletes(c) ==
    /\ Running /\ ppc[c] = "leaving" /\ WriteLockFree
    /\ clients' = clients \ {c}
    /\ ppc' = [ppc EXCEPT ![c] = "gone"]
    /\ UNCHANGED <<pumpRest, send, pmsg, live, conn>>

(* The ping goroutine writes while the pump is writing: the WebSocket       *)
(* library allows one writer and panics when it notices a second.           *)
PingDuringWrite(c) ==
    /\ Running /\ ppc[c] = "writing" /\ cpc[c] \in {"reading", "readingUnlisted"}
    /\ crash' = "concurrent write"
    /\ UNCHANGED <<ingestVars, broadcast_, hubVars, clients, cpc, listVars, send,
                   closed, pumpVars, conn, dropped, missed>>

-----------------------------------------------------------------------------
(* The other end of the connection closes it, or is no longer heard of. *)
PeerLeaves(c) ==
    /\ Running /\ conn[c] \in {"up", "stalled"}
    /\ conn' = [conn EXCEPT ![c] = "gone"]
    /\ UNCHANGED <<pumpRest, clients, send, pumpVars>>

PeerStalls(c) ==
    /\ Running /\ conn[c] = "up"
    /\ conn' = [conn EXCEPT ![c] = "stalled"]
    /\ UNCHANGED <<pumpRest, clients, send, pumpVars>>

-----------------------------------------------------------------------------
Handle(a) == SaveAlert(a) \/ Broadcast(a)
HubStep == HubTake \/ HubRoundEnds \/ \E c \in Clients : HubSend(c)
Serve(c) == Register(c) \/ ListAlerts(c) \/ StartPump(c) \/ ReadLoopEnds(c)
Pump(c) == PumpTake(c) \/ PumpWritten(c) \/ PumpCloses(c) \/ PumpDeletes(c)

Next ==
    \/ \E a \in Alerts : Post(a) \/ Handle(a)
    \/ HubStep
    \/ \E c \in Clients :
         \/ Upgrade(c) \/ Serve(c) \/ Pump(c)
         \/ PingDuringWrite(c) \/ PeerLeaves(c) \/ PeerStalls(c)

Spec == Init /\ [][Next]_vars

(* The scheduler runs the POST handlers, the hub and the connection         *)
(* handlers.  A write to a peer that is up completes and one to a peer that *)
(* is gone fails; one to a peer that stalled may block for ever, since no   *)
(* write deadline is set.                                                   *)
Fairness ==
    /\ WF_vars(HubStep)
    /\ \A a \in Alerts : WF_vars(Handle(a))
    /\ \A c \in Clients :
         /\ WF_vars(Register(c)) /\ WF_vars(ListAlerts(c)) /\ WF_vars(ReadLoopEnds(c))
         /\ WF_vars(StartPump(c) /\ conn[c] # "stalled")
         /\ WF_vars(PumpTake(c)) /\ WF_vars(PumpDeletes(c))
         /\ WF_vars(PumpWritten(c) /\ conn[c] = "up")
         /\ WF_vars(PumpCloses(c) /\ conn[c] = "gone")
         /\ WF_vars(PumpCloses(c) /\ ppc[c] = "idle")

FairSpec == Spec /\ Fairness

-----------------------------------------------------------------------------
(* Properties. *)

HandlerType ==
    /\ crash \in {"no", "send on closed channel", "concurrent write"}
    /\ hpc \in [Alerts -> {"new", "received", "saved", "done"}]
    /\ stored \subseteq Alerts /\ dropped \subseteq Alerts
    /\ broadcast_ \in Seq(Alerts) /\ Len(broadcast_) <= HubCap
    /\ hubMsg \in Alerts \cup {NoAlert}
ClientType ==
    /\ todo \subseteq Clients /\ clients \subseteq Clients
    /\ cpc \in [Clients -> {"new", "upgraded", "registered", "listed", "unlisted",
                            "reading", "readingUnlisted", "returned"}]
    /\ snapshot \in [Clients -> SUBSET Alerts]
    /\ page \in [Clients -> SUBSET Alerts]
    /\ closed \in [Clients -> BOOLEAN]
    /\ conn \in [Clients -> {"none", "up", "stalled", "gone"}]
    /\ missed \in [Clients -> SUBSET Alerts]
PumpType ==
    /\ send \in [Clients -> Seq(Alerts)]
    /\ \A c \in Clients : Len(send[c]) <= SendCap
    /\ ppc \in [Clients -> {"unborn", "idle", "writing", "leaving", "gone"}]
    /\ pmsg \in [Clients -> Alerts \cup {NoAlert}]
    /\ live \in [Clients -> Seq(Alerts)]

(* Every variable has its type, and the channels keep within capacity. *)
TypeOK == HandlerType /\ ClientType /\ PumpType

(* A client that was given its list and is still connected. *)
Connected(c) == conn[c] = "up" /\ cpc[c] \in {"listed", "reading"}

(* Alert a is between its handler and client c. *)
OnItsWay(a, c) ==
    \/ hpc[a] = "saved" \/ In(a, broadcast_)
    \/ hubMsg = a /\ c \in todo
    \/ In(a, send[c]) \/ pmsg[c] = a

(* handleWS registers the client before it reads the store, and handleEvent *)
(* stores an alert before it broadcasts it.  So an alert in the store is    *)
(* never lost in the gap between list and live feed: a connected client has *)
(* it in its list, or it was too old for the list, or it is on its way or   *)
(* has arrived, or a full channel dropped it.                               *)
NoGap ==
    \A c \in Clients : Connected(c) => \A a \in stored :
        \/ a \in page[c]
        \/ a \in snapshot[c] /\ Cardinality({b \in snapshot[c] : b > a}) >= InitLimit
        \/ OnItsWay(a, c)
        \/ In(a, live[c])
        \/ a \in missed[c] \/ a \in dropped

(* No client is sent an alert twice by the live feed: the copies in its     *)
(* channel, in its pump's hands and already received are all different.     *)
InHand(c) == IF pmsg[c] = NoAlert THEN <<>> ELSE <<pmsg[c]>>
Feed(c) == live[c] \o InHand(c) \o send[c]
NoRepeat ==
    \A c \in Clients : \A i, j \in 1..Len(Feed(c)) :
        Feed(c)[i] = Feed(c)[j] => i = j

(* All clients receive the alerts they have in common in the same order. *)
Precedes(a, b, s) == \E i, j \in 1..Len(s) : i < j /\ s[i] = a /\ s[j] = b
SameOrder ==
    \A c, d \in Clients : \A a, b \in Alerts :
        ~(Precedes(a, b, live[c]) /\ Precedes(b, a, live[d]))

(* What c has been given and not received: it is with its pump, in its      *)
(* channel, or still to come in this round.                                 *)
Pending(c) == InHand(c) \o send[c] \o (IF c \in todo THEN <<hubMsg>> ELSE <<>>)

Published == {a \in Alerts : hpc[a] = "done"}
UpClients == {c \in Clients : conn[c] = "up"}
AllPending == [c \in Clients |-> Pending(c)]
Broadcasting == INSTANCE AlertFeed WITH
    published <- Published, backlog <- broadcast_, joined <- clients, up <- UpClients,
    pending <- AllPending, got <- live

(* Although the hub goes from client to client while clients come and go,   *)
(* and every client has a channel and a pump of its own, each alert is      *)
(* given to all registered clients at one moment, and a client receives     *)
(* what it was given in that order, without a gap but where its channel was *)
(* full, until its connection goes down.                                    *)
FeedSpec == Broadcasting!Spec

(* The client map is not changed under the hub's feet: whom it has still to *)
(* send to in this round is in the map.                                     *)
RoundIsStable == todo \subseteq clients

(* An alert that reached the hub's channel is taken out of it and sent      *)
(* round to the last client, however slow or stalled the clients are.       *)
HubDrains ==
    \A a \in Alerts :
        (In(a, broadcast_) \/ hubMsg = a)
            ~> ((~In(a, broadcast_) /\ hubMsg # a) \/ ~Running)

(* An alert in the channel of a client reaches it, as long as the client    *)
(* stays connected.                                                         *)
Delivered ==
    \A a \in Alerts, c \in Clients :
        In(a, send[c]) ~> (In(a, live[c]) \/ conn[c] # "up" \/ ~Running)

(* A client whose peer has closed the connection leaves the client map. *)
ClientRemoved ==
    \A c \in Clients :
        (c \in clients /\ conn[c] = "gone") ~> (c \notin clients \/ ~Running)

(* The comment over the read loop says that it handles a close.  A client   *)
(* that closes its connection should not bring the controller down.         *)
CloseIsHandled == crash # "send on closed channel"

=============================================================================
