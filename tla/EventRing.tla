----------------------------- MODULE EventRing -----------------------------
(***************************************************************************)
(* The kernel's ring buffer as the event path sees it: a bounded queue.    *)
(* What the probes see enters it in that order, or is lost when there is   *)
(* no room, and leaves it in that order and one at a time.  Events are     *)
(* numbered in the order in which the probes saw them.                     *)
(***************************************************************************)
EXTENDS Naturals, Sequences

CONSTANTS
    RingSize,           \* how many records there is room for
    MaxEvents           \* bound: how many events the probes see

VARIABLES
    seen,               \* how many events the probes have seen
    ring,               \* the events in the ring, the oldest first
    lost                \* those that found no room

vars == <<seen, ring, lost>>

Init == seen = 0 /\ ring = <<>> /\ lost = {}

Capture ==
    /\ seen < MaxEvents
    /\ seen' = seen + 1
    /\ \/ Len(ring) < RingSize /\ ring' = Append(ring, seen') /\ UNCHANGED lost
       \/ Len(ring) = RingSize /\ lost' = lost \cup {seen'} /\ UNCHANGED ring

Release ==
    /\ ring # <<>>
    /\ ring' = Tail(ring)
    /\ UNCHANGED <<seen, lost>>

Next == Capture \/ Release

Spec == Init /\ [][Next]_vars
=============================================================================
