---------------------------- MODULE Suppression ----------------------------
(***************************************************************************)
(* What a dedup cache of the agent promises: a limiter with a memory of    *)
(* all it let through.  An event of a key passes when nothing of that key  *)
(* passed within the window, and is silenced when something did; each      *)
(* event is judged once, at one moment, and nothing is ever forgotten too  *)
(* soon or remembered too long.  The caches of events.go keep only the     *)
(* last time of each key and a cleaner deletes from them.                  *)
(***************************************************************************)
EXTENDS Integers

CONSTANTS
    Keys,               \* what is limited
    Numbers,            \* the events, by number
    Window              \* how long one that passed silences its key

VARIABLES
    now,                \* the clock
    passes,             \* which event passed, of which key, and when
    silenced            \* which did not, of which key

Init ==
    /\ now = 0
    /\ passes = {}
    /\ silenced = {}

Tick ==
    /\ now' = now + 1
    /\ UNCHANGED <<passes, silenced>>

Quiet(k) == \A p \in passes : p.key = k => now - p.at >= Window
Judged(n) == (\E p \in passes : p.n = n) \/ (\E s \in silenced : s.n = n)

Pass(n, k) ==
    /\ Quiet(k)
    /\ passes' = passes \cup {[n |-> n, key |-> k, at |-> now]}
    /\ ~Judged(n)
    /\ UNCHANGED <<now, silenced>>

Silence(n, k) ==
    /\ ~Quiet(k) /\ ~Judged(n)
    /\ silenced' = silenced \cup {[n |-> n, key |-> k]}
    /\ UNCHANGED <<now, passes>>

Next ==
    \/ Tick
    \/ \E n \in Numbers, k \in Keys : Pass(n, k) \/ Silence(n, k)

Spec == Init /\ [][Next]_<<now, passes, silenced>>
=============================================================================
