--------------------------- MODULE EventDelivery ---------------------------
(***************************************************************************)
(* What the path from the kernel probes to the event handler promises: an  *)
(* event that a probe saw is handled once or lost, never handled twice and *)
(* never handled after it was lost.  Events are numbered in the order in   *)
(* which the probes saw them.                                              *)
(***************************************************************************)
EXTENDS Naturals

CONSTANT MaxEvents      \* bound: how many events the probes see

VARIABLES
    seen,               \* how many events the probes have seen
    delivered,          \* the events whose handler was called
    lost                \* the events that will never be handled

Init ==
    /\ seen = 0
    /\ delivered = {}
    /\ lost = {}

(* A probe sees the next event. *)
See ==
    /\ seen < MaxEvents
    /\ seen' = seen + 1
    /\ UNCHANGED <<delivered, lost>>

(* A probe sees the next event and has no room to keep it. *)
SeeAndLose ==
    /\ seen < MaxEvents
    /\ seen' = seen + 1
    /\ lost' = lost \cup {seen'}
    /\ UNCHANGED delivered

Deliver(e) ==
    /\ e \notin delivered \cup lost
    /\ delivered' = delivered \cup {e}
    /\ UNCHANGED <<seen, lost>>

(* A filter, a full queue or the end of the process takes the event away. *)
Lose(e) ==
    /\ e \notin delivered \cup lost
    /\ lost' = lost \cup {e}
    /\ UNCHANGED <<seen, delivered>>

Next ==
    \/ See
    \/ SeeAndLose
    \/ \E e \in 1..seen : Deliver(e) \/ Lose(e)

Spec == Init /\ [][Next]_<<seen, delivered, lost>>
=============================================================================
