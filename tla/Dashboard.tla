----------------------------- MODULE Dashboard ------------------------------
(***************************************************************************)
(* A dashboard in a browser and what the controller does for it: the list  *)
(* of alerts under the live feed, the request that loads the page, and the *)
(* user.  The store is AlertStore, the connection WSClient, the list       *)
(* AlertList.  Of AlertHub only this client's part is here: an alert that  *)
(* is saved goes into one queue, from there to the registered client, and  *)
(* either way may be dropped; the client is registered before its list is  *)
(* read, and is sent the list first.                                       *)
(***************************************************************************)
EXTENDS AlertStore, WSClient, AlertList

CONSTANTS
    ListLimit,          \* length of the list that is sent on connect (20)
    LoadLimit,          \* length of the list that is fetched on load (200)
    MaxRequests         \* bound: how many requests of this user are answered

ASSUME LimitsPos == {ListLimit, LoadLimit} \subseteq 1..500
ASSUME MaxRequestsNat == MaxRequests \in Nat

VARIABLES
    hub,                \* the alerts the hub has still to send round
    peer,               \* the controller's end: "none", "registered", or "live" (list sent)
    feed,               \* what it has sent, or will send after the list, to this browser
    mounted,            \* AppProvider is on the page
    boot,               \* fetchDashboardInit: "off", "asked", "answered" or "done"
    loaded,             \* its answer, from when the controller read the store
    answered,           \* the user's requests that were done and whose answer is on its way
    done,               \* history: the user's requests whose answer has arrived
    late,               \* history: of these, the ones older contents were under way for
    due                 \* history: what this page was sent, or will be, since it was mounted

serverVars == <<hub, peer, feed>>
bootVars == <<boot, loaded>>
userVars == <<answered, done, late>>
vars == <<storeVars, serverVars, clientVars, mounted, bootVars, listVars, userVars, due>>

(* A list or one live alert. *)
Message == [alerts : SUBSET Alerts, acked : SUBSET Alerts, live : BOOLEAN]
Nothing == [alerts |-> {}, acked |-> {}, live |-> FALSE]
NewestAlerts(limit) ==
    LET S == ListAlerts(limit, 0)
    IN [alerts |-> S, acked |-> S \cap acked, live |-> FALSE]

InFeed == UNION {m.alerts : m \in InSeq(feed)}
UnderWay == InSeq(hub) \cup InFeed

Init ==
    /\ StoreInit /\ ClientInit /\ ListInit
    /\ hub = <<>> /\ peer = "none" /\ feed = <<>>
    /\ mounted = FALSE
    /\ boot = "off" /\ loaded = Nothing
    /\ answered = {} /\ done = {} /\ late = {} /\ due = {}

-----------------------------------------------------------------------------
(* The controller. *)

browserVars == <<clientVars, mounted, listVars>>

(* handleEvent: save, then broadcast, which may drop the alert. *)
Post(a) ==
    /\ SaveAlert(a)
    /\ \/ /\ hub' = Append(hub, a)
          /\ due' = IF peer = "none" THEN due ELSE due \cup {a}
       \/ UNCHANGED <<hub, due>>
    /\ UNCHANGED <<peer, feed, browserVars, bootVars, userVars>>

(* The hub's next alert, for this client: sent, dropped, or nobody is there. *)
HubSends ==
    /\ hub # <<>>
    /\ hub' = Tail(hub)
    /\ LET a == Head(hub) IN
       \/ /\ peer # "none"
          /\ feed' = Append(feed, [alerts |-> {a}, acked |-> {}, live |-> TRUE])
          /\ UNCHANGED due
       \/ /\ due' = IF a \in Shown \cup excused \cup InFeed THEN due ELSE due \ {a}
          /\ UNCHANGED feed
    /\ UNCHANGED <<storeVars, peer, browserVars, bootVars, userVars>>

(* handleWS takes the connection and registers the client. *)
Register ==
    /\ ws = "connecting" /\ peer = "none"
    /\ peer' = "registered"
    /\ UNCHANGED <<storeVars, hub, feed, browserVars, bootVars, userVars, due>>

(* The newest alerts, before what has come for the client meanwhile.  If *)
(* they cannot be read, none are sent.                                    *)
SendList ==
    /\ peer = "registered"
    /\ peer' = "live"
    /\ \/ /\ feed' = <<NewestAlerts(ListLimit)>> \o feed
          /\ due' = due \cup ListAlerts(ListLimit, 0)
       \/ UNCHANGED <<feed, due>>
    /\ UNCHANGED <<storeVars, hub, browserVars, bootVars, userVars>>

(* GET /api/v1/alerts; fetchDashboardInit takes an error for an empty list. *)
AnswerLoad ==
    /\ boot = "asked"
    /\ boot' = "answered"
    /\ loaded' \in {NewestAlerts(LoadLimit), Nothing}
    /\ UNCHANGED <<storeVars, serverVars, browserVars, userVars, due>>

(* PUT and DELETE of an alert, for this user or for another one; the answer *)
(* to this one may be lost.  An alert that is not there is a 404.           *)
Serve(op, a) ==
    /\ \/ op = "ack" /\ AcknowledgeAlert(a)
       \/ op = "delete" /\ DeleteAlert(a)
    /\ \/ UNCHANGED answered
       \/ /\ mounted /\ Cardinality(answered \cup done) < MaxRequests
          /\ answered' = answered \cup {<<op, a>>}
    /\ UNCHANGED <<serverVars, browserVars, bootVars, done, late, due>>

Purge ==
    /\ \E last \in Alerts : PurgeOlderThan(last)
    /\ UNCHANGED <<serverVars, browserVars, bootVars, userVars, due>>

-----------------------------------------------------------------------------
(* The connection. *)

SocketOpens ==
    /\ Opens /\ peer # "none"
    /\ UNCHANGED <<storeVars, serverVars, mounted, bootVars, listVars, userVars, due>>

(* With the socket goes what was under way on it. *)
Hangup ==
    /\ peer' = "none" /\ feed' = <<>>
    /\ UNCHANGED <<storeVars, hub>>

(* What nobody will send any more is not due. *)
Forget == due' = due \cap (Shown \cup excused)

SocketCloses ==
    /\ Closes /\ Hangup /\ Forget
    /\ UNCHANGED <<mounted, bootVars, listVars, userVars>>

Reconnect ==
    /\ TimerFires
    /\ UNCHANGED <<storeVars, serverVars, mounted, bootVars, listVars, userVars, due>>

(* reconnectWS, the button of the status bar. *)
ReconnectWS ==
    /\ mounted
    /\ ForceReconnect /\ Hangup /\ Forget
    /\ UNCHANGED <<mounted, bootVars, listVars, userVars>>

(* The effect of AppProvider runs. *)
Mount ==
    /\ ~mounted
    /\ mounted' = TRUE
    /\ Start
    /\ boot' = "asked"
    /\ UNCHANGED <<storeVars, serverVars, loaded, listVars, userVars, due>>

(* Its clean-up: requests are aborted, and the state goes with the page. *)
Unmount ==
    /\ mounted
    /\ mounted' = FALSE
    /\ Disconnect /\ Hangup
    /\ boot' = "off" /\ loaded' = Nothing
    /\ ListReset
    /\ answered' = {} /\ done' = {} /\ late' = {} /\ due' = {}

-----------------------------------------------------------------------------
(* What comes to the page. *)

pageRest == <<storeVars, clientVars, mounted, due>>

(* ws.onmessage *)
Deliver ==
    /\ ws = "open" /\ peer = "live" /\ feed # <<>>
    /\ feed' = Tail(feed)
    /\ LET m == Head(feed) IN
       \/ m.live /\ \E a \in m.alerts : NewAlert(a)
       \/ ~m.live /\ WSInit(m.alerts, m.acked)
    /\ UNCHANGED <<pageRest, hub, peer, bootVars, userVars>>

(* fetchDashboardInit returns. *)
Load ==
    /\ boot = "answered"
    /\ boot' = "done" /\ loaded' = Nothing
    /\ InitData(loaded.alerts, loaded.acked)
    /\ UNCHANGED <<pageRest, serverVars, userVars>>

(* Something shows a as it was before op and is not on the page yet. *)
OlderUnderWay(op, a) ==
    \/ a \in InSeq(hub)
    \/ \E m \in InSeq(feed) \cup {loaded} :
          a \in m.alerts /\ (op = "delete" \/ a \notin m.acked)

(* The answer to this user's request. *)
Answer(op, a) ==
    /\ <<op, a>> \in answered
    /\ answered' = answered \ {<<op, a>>}
    /\ done' = done \cup {<<op, a>>}
    /\ late' = IF OlderUnderWay(op, a) THEN late \cup {<<op, a>>} ELSE late
    /\ \/ op = "ack" /\ AckAlert(a)
       \/ op = "delete" /\ RemoveAlert(a)
    /\ UNCHANGED <<pageRest, serverVars, bootVars>>

ClearAlerts ==
    /\ mounted
    /\ ClearList
    /\ UNCHANGED <<pageRest, serverVars, bootVars, userVars>>

-----------------------------------------------------------------------------
Requests == {"ack", "delete"} \X Alerts

Controller ==
    \/ \E a \in Alerts : Post(a)
    \/ HubSends
    \/ Register
    \/ SendList
    \/ AnswerLoad
    \/ \E r \in Requests : Serve(r[1], r[2])
    \/ Purge

Connection ==
    \/ SocketOpens
    \/ SocketCloses
    \/ Reconnect
    \/ ReconnectWS
    \/ Mount
    \/ Unmount

Page ==
    \/ Deliver
    \/ Load
    \/ \E r \in Requests : Answer(r[1], r[2])
    \/ ClearAlerts

Next == Controller \/ Connection \/ Page

Spec == Init /\ [][Next]_vars

-----------------------------------------------------------------------------
(* Properties. *)

(* The variables have their types. *)
TypeOK ==
    /\ StoreTypeOK /\ ClientTypeOK /\ ListTypeOK(Alerts)
    /\ hub \in Seq(Alerts)
    /\ peer \in {"none", "registered", "live"}
    /\ feed \in Seq(Message)
    /\ mounted \in BOOLEAN
    /\ boot \in {"off", "asked", "answered", "done"}
    /\ loaded \in Message
    /\ answered \subseteq Requests
    /\ done \subseteq Requests /\ late \subseteq done
    /\ due \subseteq Alerts

(* An alert is on the page once, however often the load, the list of a     *)
(* connection and the live feed bring it.                                   *)
NoDuplicates ==
    \A i, j \in DOMAIN alerts : i # j => alerts[i] # alerts[j]

(* Over losses of the connection and overlapping loads: what the controller *)
(* has listed or broadcast to this page is on it, or on its way, unless the *)
(* user took it off, MaxShown did, or a load that was read before it came.  *)
(* (What is due of the feed begins with what was posted after the page      *)
(* registered; what waits for the hub by then comes too, but is not due.)   *)
CaughtUp == due \subseteq Shown \cup excused \cup UnderWay

(* What the user has deleted does not come back, and what the user has      *)
(* acknowledged is not shown as new again, unless older contents were under *)
(* way when the request was answered; reconnections included.               *)
ChoicesStick ==
    \A a \in Shown :
        /\ <<"delete", a>> \notin done \ late
        /\ <<"ack", a>> \in done \ late => a \in acks

(* The connection of a mounted page is up, coming up, or due to be tried    *)
(* again by exactly one timer; an unmounted page has neither socket nor     *)
(* timer; and the status shown is the socket's.                             *)
ConnectionIsKept ==
    /\ mounted => ~destroyed
    /\ timers = IF mounted /\ ~Live(ws) THEN 1 ELSE 0
    /\ ~mounted => ws = "null"
    /\ status = "connected" <=> ws = "open"
=============================================================================
