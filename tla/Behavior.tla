------------------------------- MODULE Behavior -------------------------------
(***************************************************************************)
(* The detector of multi-step behaviour.  For each pod it remembers which  *)
(* steps of its chains it has seen, forgets them when the first is older   *)
(* than the window, and reports a chain when the step that completes it    *)
(* arrives.  The event workers call it under one lock, in any order and    *)
(* for any pod.                                                            *)
(*                                                                         *)
(* A call is abstracted to what DetectBehavior tells apart: the set of the *)
(* features that the process name and the arguments have.  The last two    *)
(* are never remembered:                                                   *)
(*   "download", "chmod", "privEsc", "recon"   by the process name         *)
(*   "cred"      the arguments name a credential file                      *)
(*   "exec"      a shell, or a path under ./, /tmp/ or /dev/shm/           *)
(*   "tool"      nc, ncat, socat, curl, wget, ssh                          *)
(*   "exfil"     curl, wget, scp, rsync, ftp                               *)
(* LastSeen is left out: only CleanupExpiredStates reads it, which nothing *)
(* calls.                                                                  *)
(***************************************************************************)
EXTENDS Naturals, Sequences

CONSTANTS
    Pods,
    Events,             \* the calls that come, each a set of features
    Window,             \* BehaviorWindow
    ChanCap,            \* capacity of BehaviorAlerts
    MaxTime,            \* bound: the last tick of the clock
    MaxCalls            \* bound: how many calls come

Latches == {"download", "chmod", "privEsc", "recon", "cred", "exec"}
Features == Latches \cup {"tool", "exfil"}

ASSUME EventsAreFeatures == Events \subseteq SUBSET Features
ASSUME WindowNat == Window \in Nat
ASSUME ChanCapNat == ChanCap \in Nat
ASSUME BoundsNat == MaxTime \in Nat /\ MaxCalls \in Nat

(* The chains in the order in which they are looked for, what each needs to *)
(* have been seen, and the feature of the call that completes it.           *)
Chain(rank, needs, trigger) == [rank |-> rank, needs |-> needs, trigger |-> trigger]

Chains == {
    Chain(1, {"download", "chmod"}, "exec"),        \* malware_staging_full
    Chain(2, {"download"}, "exec"),                 \* malware_staging_nochmod
    Chain(3, {"privEsc"}, "exec"),                  \* privilege_escalation_shell
    Chain(4, {"recon"}, "tool"),                    \* recon_lateral_move
    Chain(5, {"cred"}, "exfil") }                   \* credential_exfiltration

VARIABLES
    now,                \* the time
    steps,              \* the flags of the pod's PodState
    firstSeen,          \* its FirstSeen, or NoState
    queued,             \* how many reports are in BehaviorAlerts
    dropped,            \* how many reports did not fit
    count,              \* how many calls came
    calls,              \* history: the pod's calls since its last report
    last                \* history: the last call and the chain it completed, if any

vars == <<now, steps, firstSeen, queued, dropped, count, calls, last>>

NoState == 0
NoChain == Chain(0, {}, "exec")
Call(event, time) == [event |-> event, time |-> time]

Init ==
    /\ now = 1
    /\ steps = [p \in Pods |-> {}]
    /\ firstSeen = [p \in Pods |-> NoState]
    /\ queued = 0 /\ dropped = 0 /\ count = 0
    /\ calls = [p \in Pods |-> <<>>]
    /\ last = [chain |-> NoChain, calls |-> <<>>]

Tick ==
    /\ now < MaxTime
    /\ now' = now + 1
    /\ UNCHANGED <<steps, firstSeen, queued, dropped, count, calls, last>>

-----------------------------------------------------------------------------
Expired(p) == firstSeen[p] # NoState /\ now - firstSeen[p] > Window

(* Mutant of Kept: the window is counted from the previous call of the pod. *)
KeptSinceLastCall(p) ==
    IF calls[p] # <<>> /\ now - calls[p][Len(calls[p])].time > Window THEN {} ELSE steps[p]

(* The flags that are left when the call arrives. *)
Kept(p) == IF Expired(p) THEN {} ELSE steps[p]

(* Mutant of Completed: a chain is complete only when each of its steps was *)
(* a call of its own.                                                       *)
CompletedByEarlier(p, e) ==
    {c \in Chains : /\ c.needs \subseteq Kept(p)
                    /\ c.trigger \in e \ (Kept(p) \cap {"exec"})}

(* The chains the call completes.  A call only counts as execution if the   *)
(* pod's state has none yet.                                                *)
Completed(p, e) ==
    {c \in Chains : /\ c.needs \subseteq Kept(p) \cup e
                    /\ c.trigger \in e \ (Kept(p) \cap {"exec"})}

(* The send that does not block.  Nothing receives from the channel. *)
Emit ==
    IF queued < ChanCap
    THEN queued' = queued + 1 /\ UNCHANGED dropped
    ELSE dropped' = dropped + 1 /\ UNCHANGED queued

(* The call is remembered in the pod's state. *)
Remember(p, e) ==
    /\ Completed(p, e) = {}
    /\ steps' = [steps EXCEPT ![p] = Kept(p) \cup (e \cap Latches)]
    /\ firstSeen' = [firstSeen EXCEPT
                        ![p] = IF Expired(p) \/ firstSeen[p] = NoState THEN now ELSE @]
    /\ calls' = [calls EXCEPT ![p] = Append(@, Call(e, now))]
    /\ last' = [chain |-> NoChain, calls |-> Append(calls[p], Call(e, now))]
    /\ UNCHANGED <<queued, dropped>>

(* The first chain the call completes is reported and the state deleted. *)
Report(p, e) ==
    \E c \in Completed(p, e) :
        /\ \A d \in Completed(p, e) : c.rank <= d.rank
        /\ steps' = [steps EXCEPT ![p] = {}]
        /\ firstSeen' = [firstSeen EXCEPT ![p] = NoState]
        /\ Emit
        /\ calls' = [calls EXCEPT ![p] = <<>>]
        /\ last' = [chain |-> c, calls |-> Append(calls[p], Call(e, now))]

DetectBehavior(p, e) ==
    /\ count < MaxCalls
    /\ count' = count + 1
    /\ Remember(p, e) \/ Report(p, e)
    /\ UNCHANGED now

Next == Tick \/ \E p \in Pods, e \in Events : DetectBehavior(p, e)

Spec == Init /\ [][Next]_vars

-----------------------------------------------------------------------------
(* Properties. *)

Calls == Seq([event : Events, time : Nat])

(* Every variable has its type and the channel never holds more than its    *)
(* capacity.                                                                *)
TypeOK ==
    /\ now \in Nat \ {0}
    /\ steps \in [Pods -> SUBSET Latches]
    /\ firstSeen \in [Pods -> 0..now]
    /\ queued \in 0..ChanCap /\ dropped \in Nat /\ count \in Nat
    /\ calls \in [Pods -> Calls]
    /\ last \in [chain : Chains \cup {NoChain}, calls : Calls]

LastCall == last.calls[Len(last.calls)]
Fresh(call) == LastCall.time - call.time <= Window

(* A report is about things that happened: each step it names is a call of  *)
(* the same pod, not older than the window, and not one that an earlier     *)
(* report has used.                                                         *)
EvidenceIsFresh ==
    last.chain # NoChain =>
        /\ last.chain.trigger \in LastCall.event
        /\ \A s \in last.chain.needs :
              \E i \in 1..Len(last.calls) :
                  s \in last.calls[i].event /\ Fresh(last.calls[i])

(* What the pod's calls show of a chain, judged by the calls alone. *)
Shows(c) ==
    /\ c.trigger \in LastCall.event
    /\ \A s \in c.needs : \E i \in 1..Len(last.calls) : s \in last.calls[i].event
    /\ c.trigger = "exec" =>
          \A i \in 1..(Len(last.calls) - 1) : "exec" \notin last.calls[i].event

(* A pod's first burst of activity is judged right: as long as all its      *)
(* calls are younger than the window, the chain that its calls show is      *)
(* reported, and of several the first.  An execution only shows a chain if  *)
(* it is the pod's first.                                                   *)
FirstBurstIsReported ==
    last.calls # <<>> /\ (\A i \in 1..Len(last.calls) : Fresh(last.calls[i])) =>
        \A c \in Chains : Shows(c) => last.chain.rank \in 1..c.rank
=============================================================================
