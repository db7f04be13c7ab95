----------------------------- MODULE AlertFeed -----------------------------
(***************************************************************************)
(* What the live feed promises: a broadcast.  Alerts wait in one queue;    *)
(* each is given, in one step, to all clients there are; a client receives *)
(* what it was given since it joined, in that order and once, except for   *)
(* what found it with a full channel and what is sent after its connection *)
(* went down.  The hub of the controller goes from client to client        *)
(* instead, and between it and the client are a channel and a write pump.  *)
(***************************************************************************)
EXTENDS Naturals, Sequences

CONSTANTS
    Clients,
    Alerts,
    HubCap,             \* how many alerts may wait
    SendCap             \* how many a client's channel holds

VARIABLES
    published,          \* the alerts that were offered to the feed
    backlog,            \* those waiting to be given to the clients
    joined,             \* the clients that are given alerts
    up,                 \* the clients whose connection is up
    pending,            \* what each client was given and has not received
    got                 \* what each client has received

vars == <<published, backlog, joined, up, pending, got>>

Init ==
    /\ published = {} /\ backlog = <<>>
    /\ joined = {} /\ up = {}
    /\ pending = [c \in Clients |-> <<>>]
    /\ got = [c \in Clients |-> <<>>]

(* An alert is offered once, and is lost to all when too many wait. *)
Publish(a) ==
    /\ a \notin published
    /\ published' = published \cup {a}
    /\ \/ Len(backlog) < HubCap /\ backlog' = Append(backlog, a)
       \/ Len(backlog) = HubCap /\ UNCHANGED backlog
    /\ UNCHANGED <<joined, up, pending, got>>

(* The next alert is given to all clients. *)
Give ==
    /\ backlog # <<>>
    /\ backlog' = Tail(backlog)
    /\ pending' = [c \in Clients |->
                      IF c \in joined THEN Append(pending[c], Head(backlog)) ELSE pending[c]]
    /\ UNCHANGED <<published, joined, up, got>>

Join(c) ==
    /\ c \notin joined /\ pending[c] = <<>> /\ got[c] = <<>>
    /\ joined' = joined \cup {c}
    /\ UNCHANGED <<published, backlog, up, pending, got>>

Leave(c) ==
    /\ c \notin up
    /\ joined' = joined \ {c}
    /\ UNCHANGED <<published, backlog, up, pending, got>>

Connect(c) ==
    /\ c \notin joined
    /\ up' = up \cup {c}
    /\ UNCHANGED <<published, backlog, joined, pending, got>>

Disconnect(c) ==
    /\ up' = up \ {c}
    /\ UNCHANGED <<published, backlog, joined, pending, got>>

Receive(c) ==
    /\ c \in up /\ pending[c] # <<>>
    /\ got' = [got EXCEPT ![c] = Append(@, Head(pending[c]))]
    /\ pending' = [pending EXCEPT ![c] = Tail(@)]
    /\ UNCHANGED <<published, backlog, joined, up>>

(* What was given last does not fit in the channel.  What waits for the     *)
(* client and has left its channel, to be written, counts with the rest.    *)
Miss(c) ==
    /\ Len(pending[c]) > SendCap
    /\ pending' = [pending EXCEPT ![c] = SubSeq(@, 1, Len(@) - 1)]
    /\ UNCHANGED <<published, backlog, joined, up, got>>

(* What is sent to a client that is gone does not arrive. *)
Waste(c) ==
    /\ c \notin up /\ pending[c] # <<>>
    /\ pending' = [pending EXCEPT ![c] = Tail(@)]
    /\ UNCHANGED <<published, backlog, joined, up, got>>

Next ==
    \/ \E a \in Alerts : Publish(a)
    \/ Give
    \/ \E c \in Clients :
         Join(c) \/ Leave(c) \/ Connect(c) \/ Disconnect(c) \/ Receive(c) \/ Miss(c) \/ Waste(c)

Spec == Init /\ [][Next]_vars
=============================================================================
