------------------------------ MODULE WSClient ------------------------------
(***************************************************************************)
(* The dashboard's connection to the controller: one WebSocket at a time,  *)
(* opened again by a timer when it is lost.  JavaScript runs one callback  *)
(* after the other, so every callback is one step.                         *)
(***************************************************************************)
EXTENDS Naturals

VARIABLES
    ws,                 \* this.ws: "null", or its readyState
    timers,             \* how many reconnect timers are running
    status,             \* this.status, which the pages show
    destroyed           \* this._destroyed

clientVars == <<ws, timers, status, destroyed>>

Live(w) == w \in {"connecting", "open"}

ClientTypeOK ==
    /\ ws \in {"null", "connecting", "open", "closed"}
    /\ timers \in 0..1
    /\ status \in {"disconnected", "connecting", "connected", "error"}
    /\ destroyed \in BOOLEAN

ClientInit ==
    /\ ws = "null"
    /\ timers = 0
    /\ status = "disconnected"
    /\ destroyed = FALSE

(* clearTimeout(this.reconnectTimer): the timer that was started last. *)
ClearTimeout(t) == IF t = 0 THEN 0 ELSE t - 1

(* connect, when this.ws is w, t timers run and this._destroyed is d.  The *)
(* constructor of a WebSocket may throw; then this.ws stays what it was.   *)
Connect(w, t, d) ==
    \/ /\ d \/ Live(w)
       /\ ws' = w
       /\ timers' = t
       /\ UNCHANGED status
    \/ /\ ~d /\ ~Live(w)
       /\ ws' = "connecting"
       /\ timers' = ClearTimeout(t)
       /\ status' = "connecting"
    \/ /\ ~d /\ ~Live(w)
       /\ ws' = w
       /\ timers' = ClearTimeout(t) + 1
       /\ status' = "error"

(* The effect of AppProvider sets _destroyed back and connects. *)
Start ==
    /\ destroyed' = FALSE
    /\ Connect(ws, timers, FALSE)

(* ws.onopen *)
Opens ==
    /\ ws = "connecting"
    /\ ws' = "open"
    /\ status' = "connected"
    /\ UNCHANGED <<timers, destroyed>>

(* Mutant of Closes: only a connection that was up is opened again. *)
ClosesIfConnected ==
    /\ Live(ws)
    /\ ws' = "closed"
    /\ status' = "disconnected"
    /\ timers' = IF status = "connected" THEN timers + 1 ELSE timers
    /\ UNCHANGED destroyed

(* ws.onclose: the peer or the network has closed the socket, or it never came up. *)
Closes ==
    /\ Live(ws)
    /\ ws' = "closed"
    /\ IF destroyed
       THEN UNCHANGED <<status, timers>>
       ELSE /\ status' = "disconnected"
            /\ timers' = timers + 1
    /\ UNCHANGED destroyed

TimerFires ==
    /\ timers > 0
    /\ Connect(ws, timers - 1, destroyed)
    /\ UNCHANGED destroyed

(* The handler onclose is taken off before the socket is closed. *)
Disconnect ==
    /\ destroyed' = TRUE
    /\ timers' = ClearTimeout(timers)
    /\ ws' = "null"
    /\ status' = "disconnected"

ForceReconnect ==
    /\ destroyed' = FALSE
    /\ Connect("null", ClearTimeout(timers), FALSE)
=============================================================================
