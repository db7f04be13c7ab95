---------------------------- MODULE AlertDispatch ----------------------------
(***************************************************************************)
(* The agent's detection and response: the workers of the event queue run  *)
(* processEvent on one event each, concurrently.  They share the two dedup *)
(* caches, which a cleaner goroutine prunes, and act on the processes of   *)
(* the node, which start and exit meanwhile.                               *)
(*                                                                         *)
(* What the pure checks say of an event (temporary directory, suspicious   *)
(* chain, the rule or file pattern it matches, the connection it makes)    *)
(* comes with it.  Taking an event stands for its capture and its time in  *)
(* the queue too: what delays it there, delays it after Take here.         *)
(***************************************************************************)
EXTENDS Integers, Sequences

CONSTANTS
    Workers,            \* goroutines running processEvent
    Rules,              \* names of rules and of sensitive file patterns
    Critical,           \* those of severity critical
    Pods,               \* namespace and pod
    Pids,
    Procs,              \* process names
    RuntimeProcs,       \* runtimeProcesses of events.go
    Protected,          \* protectedProcesses of engine.go
    Conns,              \* process, address, port and namespace of a connection
    SuspectConns,       \* those to a suspicious port
    PrivateConns,       \* those to a private address
    Events,             \* the events there are
    Allowed,            \* <<rule, pod, process>> for which there is an allowlist entry
    Modes,              \* the values RESPONSE_MODE may have
    Window,             \* how long a cache entry suppresses (30 s)
    KeepAlert,          \* how long the cleaner keeps an alert cache entry (5 min)
    MaxTime,            \* bound: when the clock stops
    MaxTaken            \* bound: how many events are handled

NoRule == "none"
NoConn == "none"
NoProc == "none"
Unsuppressed == {"suspicious_tmp_execution", "suspicious_process_chain",
                 "suspicious_outbound_port"}

EventSet == [kind: {"exec", "file", "connect"}, proc: Procs, pod: Pods, pid: Pids,
             tmp: BOOLEAN, chain: BOOLEAN, rule: Rules \cup {NoRule},
             conn: Conns \cup {NoConn}]

ASSUME EventsOK == Events \subseteq EventSet
ASSUME NamesOK == NoRule \notin Rules /\ Rules \cap Unsuppressed = {} /\ NoProc \notin Procs
                  /\ NoConn \notin Conns
ASSUME ModesOK == Modes \subseteq {"detect", "alert", "enforce"}
ASSUME TimesOK == Window \in Nat \ {0} /\ KeepAlert \in Nat /\ KeepAlert >= Window
ASSUME BoundsOK == MaxTime \in Nat /\ MaxTaken \in Nat

VARIABLES
    now,                \* the clock
    mode,               \* currentMode, set at start-up
    alertCache,         \* when each rule last alerted for a pod, or Never
    connCache,          \* when each connection was last seen, or Never
    cleanAt,            \* the time the cleaner has read, or Never between its ticks
    cleanPc,            \* the cache it prunes next
    holder,             \* the process that has a pid, or NoProc
    astray,             \* history: the events in hand that may end in a kill and whose
                        \* process has lost its pid
    taken,              \* history: the events handled and when each was taken
    job,                \* the number in taken of a worker's event, or 0
    pc,                 \* where the worker is in its handler
    claims,             \* history: which event set which alert cache entry, and when
    connClaims,         \* the same of the connection cache
    fired,              \* history: the alerts logged by fireAlert
    sent,               \* history: those handed to sendToController
    kills               \* history: the attempts to kill, and the process that was hit

clockVars == <<now, mode>>
alertCacheVars == <<alertCache, claims>>
connCacheVars == <<connCache, connClaims>>
cacheVars == <<alertCacheVars, connCacheVars>>
cleanVars == <<cleanAt, cleanPc>>
alertVars == <<fired, sent>>
procVars == <<holder, astray>>
vars == <<clockVars, cacheVars, cleanVars, procVars, taken, job, pc, alertVars, kills>>

Never == -1
Keys == Rules \X Pods
Ev(w) == taken[job[w]].ev

KillWanted(e) == e.proc \notin RuntimeProcs /\ e.rule \in Critical

(* KillProcess refuses pids 0 and 1, protected names and any mode but       *)
(* enforce.  The name is the event's.                                       *)
MayKill(e) == e.pid \notin {0, 1} /\ e.proc \notin Protected /\ mode = "enforce"

(* The events in hand that may yet end in a kill of what has the pid.       *)
StillToKill(p) ==
    {job[w] : w \in {v \in Workers : /\ pc[v] \notin {"idle", "finish"}
                                    /\ Ev(v).pid = p /\ KillWanted(Ev(v)) /\ MayKill(Ev(v))}}

Init ==
    /\ now = 0
    /\ mode \in Modes
    /\ alertCache = [k \in Keys |-> Never]
    /\ connCache = [c \in Conns |-> Never]
    /\ cleanAt = Never /\ cleanPc = "conn"
    /\ holder \in [Pids -> Procs] /\ astray = {}
    /\ taken = <<>>
    /\ job = [w \in Workers |-> 0]
    /\ pc = [w \in Workers |-> "idle"]
    /\ claims = {} /\ connClaims = {} /\ fired = {} /\ sent = {} /\ kills = {}

-----------------------------------------------------------------------------
Tick ==
    /\ now < MaxTime
    /\ now' = now + 1
    /\ UNCHANGED <<mode, cacheVars, cleanVars, procVars, taken, job, pc, alertVars, kills>>

(* Processes exit, and their pids are given to new ones.  That a process    *)
(* goes on as another program under its pid is both at once.                *)
ProcessExits(p) ==
    /\ holder[p] # NoProc
    /\ holder' = [holder EXCEPT ![p] = NoProc]
    /\ astray' = astray \cup StillToKill(p)
    /\ UNCHANGED <<clockVars, cacheVars, cleanVars, taken, job, pc, alertVars, kills>>

ProcessStarts(p, proc) ==
    /\ holder[p] = NoProc
    /\ holder' = [holder EXCEPT ![p] = proc]
    /\ UNCHANGED <<clockVars, astray, cacheVars, cleanVars, taken, job, pc, alertVars, kills>>

-----------------------------------------------------------------------------
(* cacheCleanupLoop: one reading of the clock for both caches, and a lock   *)
(* for each.                                                                *)
CleanTick ==
    /\ cleanAt = Never
    /\ cleanAt' = now
    /\ UNCHANGED <<clockVars, cacheVars, cleanPc, procVars, taken, job, pc, alertVars, kills>>

Prune(cache, keep) ==
    [k \in DOMAIN cache |-> IF cleanAt - cache[k] > keep THEN Never ELSE cache[k]]

CleanConns ==
    /\ cleanAt # Never /\ cleanPc = "conn"
    /\ connCache' = Prune(connCache, Window)
    /\ cleanPc' = "alert"
    /\ UNCHANGED <<clockVars, alertCacheVars, connClaims, cleanAt, procVars, taken, job, pc,
                   alertVars, kills>>

(* Mutant of CleanAlerts: keeps entries for no time. *)
CleanAlertsEarly ==
    /\ cleanAt # Never /\ cleanPc = "alert"
    /\ alertCache' = Prune(alertCache, 0)
    /\ cleanPc' = "conn"
    /\ cleanAt' = Never
    /\ UNCHANGED <<clockVars, connCacheVars, claims, procVars, taken, job, pc, alertVars, kills>>

CleanAlerts ==
    /\ cleanAt # Never /\ cleanPc = "alert"
    /\ alertCache' = Prune(alertCache, KeepAlert)
    /\ cleanPc' = "conn"
    /\ cleanAt' = Never
    /\ UNCHANGED <<clockVars, connCacheVars, claims, procVars, taken, job, pc, alertVars, kills>>

-----------------------------------------------------------------------------
(* The handlers. *)

Goto(w, label) == pc' = [pc EXCEPT ![w] = label]
workRest == <<clockVars, cleanVars, taken, job>>

(* An event of a process that runs: the probe saw it do something. *)
Take(w, e) ==
    /\ pc[w] = "idle" /\ Len(taken) < MaxTaken /\ holder[e.pid] = e.proc
    /\ taken' = Append(taken, [ev |-> e, at |-> now])
    /\ job' = [job EXCEPT ![w] = Len(taken) + 1]
    /\ Goto(w, CASE e.kind = "exec" -> "tmp"
                 [] e.kind = "file" -> "claim"
                 [] e.kind = "connect" -> "dedup")
    /\ UNCHANGED <<clockVars, cacheVars, cleanVars, procVars, alertVars, kills>>

(* fireAlert: logs the alert and starts sendToController unless the mode is *)
(* detect.  What it then saves nothing here reads again.                    *)
FireAlert(w, rule) ==
    LET a == [n |-> job[w], rule |-> rule] IN
    /\ fired' = fired \cup {a}
    /\ sent' = IF mode = "detect" THEN sent ELSE sent \cup {a}

(* handleExec's and handleConnect's own alerts: not deduplicated and not    *)
(* checked against the allowlist.                                           *)
OwnAlert(w, label, applies, rule, next) ==
    /\ pc[w] = label
    /\ IF applies THEN FireAlert(w, rule) ELSE UNCHANGED alertVars
    /\ Goto(w, next)
    /\ UNCHANGED <<workRest, cacheVars, procVars, kills>>

TmpAlert(w) == OwnAlert(w, "tmp", Ev(w).tmp, "suspicious_tmp_execution", "chain")
ChainAlert(w) == OwnAlert(w, "chain", Ev(w).chain, "suspicious_process_chain", "claim")
PortAlert(w) ==
    OwnAlert(w, "port", Ev(w).conn \in SuspectConns, "suspicious_outbound_port",
             IF Ev(w).conn \in PrivateConns THEN "finish" ELSE "claim")

Recent(t) == t # Never /\ now - t < Window

(* Mutant of Dedup: an entry that suppresses is renewed. *)
DedupRenews(w) ==
    LET c == Ev(w).conn IN
    /\ pc[w] = "dedup"
    /\ \/ /\ c = NoConn
          /\ Goto(w, "finish")
          /\ UNCHANGED cacheVars
       \/ /\ c # NoConn
          /\ connCache' = [connCache EXCEPT ![c] = now]
          /\ IF Recent(connCache[c])
             THEN Goto(w, "finish") /\ UNCHANGED connClaims
             ELSE /\ connClaims' = connClaims \cup {[n |-> job[w], key |-> c, at |-> now]}
                  /\ Goto(w, "port")
          /\ UNCHANGED alertCacheVars
    /\ UNCHANGED <<workRest, procVars, alertVars, kills>>

(* The connection cache is checked and set under its lock. *)
Dedup(w) ==
    LET c == Ev(w).conn IN
    /\ pc[w] = "dedup"
    /\ \/ /\ c # NoConn => Recent(connCache[c])
          /\ Goto(w, "finish")
          /\ UNCHANGED cacheVars
       \/ /\ c # NoConn /\ ~Recent(connCache[c])
          /\ connCache' = [connCache EXCEPT ![c] = now]
          /\ connClaims' = connClaims \cup {[n |-> job[w], key |-> c, at |-> now]}
          /\ Goto(w, "port")
          /\ UNCHANGED alertCacheVars
    /\ UNCHANGED <<workRest, procVars, alertVars, kills>>

Key(w) == <<Ev(w).rule, Ev(w).pod>>

(* Mutant of Claim: an entry that suppresses is renewed. *)
ClaimRenews(w) ==
    /\ pc[w] = "claim"
    /\ \/ /\ Ev(w).rule = NoRule
          /\ Goto(w, "finish")
          /\ UNCHANGED cacheVars
       \/ /\ Ev(w).rule # NoRule
          /\ alertCache' = [alertCache EXCEPT ![Key(w)] = now]
          /\ IF Recent(alertCache[Key(w)])
             THEN Goto(w, "finish") /\ UNCHANGED claims
             ELSE /\ claims' = claims \cup {[n |-> job[w], key |-> Key(w), at |-> now]}
                  /\ Goto(w, IF Ev(w).kind = "exec" THEN "allow" ELSE "fire")
          /\ UNCHANGED connCacheVars
    /\ UNCHANGED <<workRest, procVars, alertVars, kills>>

(* The rule match and suppressAlert, which checks and sets the alert cache  *)
(* under its lock.                                                          *)
Claim(w) ==
    /\ pc[w] = "claim"
    /\ \/ /\ Ev(w).rule # NoRule => Recent(alertCache[Key(w)])
          /\ Goto(w, "finish")
          /\ UNCHANGED cacheVars
       \/ /\ Ev(w).rule # NoRule /\ ~Recent(alertCache[Key(w)])
          /\ alertCache' = [alertCache EXCEPT ![Key(w)] = now]
          /\ claims' = claims \cup {[n |-> job[w], key |-> Key(w), at |-> now]}
          /\ Goto(w, IF Ev(w).kind = "exec" THEN "allow" ELSE "fire")
          /\ UNCHANGED connCacheVars
    /\ UNCHANGED <<workRest, procVars, alertVars, kills>>

IsAllowed(e) == <<e.rule, e.pod, e.proc>> \in Allowed

(* Only matchAndRespond asks the allowlist. *)
AllowCheck(w) ==
    /\ pc[w] = "allow"
    /\ Goto(w, IF IsAllowed(Ev(w)) THEN "finish" ELSE "fire")
    /\ UNCHANGED <<workRest, cacheVars, procVars, alertVars, kills>>

(* Mutant of RuleAlert: goes on to the kill without having raised the alert. *)
RuleAlertAfterKill(w) ==
    /\ pc[w] = "fire"
    /\ IF KillWanted(Ev(w)) THEN UNCHANGED alertVars ELSE FireAlert(w, Ev(w).rule)
    /\ Goto(w, IF KillWanted(Ev(w)) THEN "kill" ELSE "finish")
    /\ UNCHANGED <<workRest, cacheVars, procVars, kills>>

(* Mutant of RuleAlert: returns early for a runtime process. *)
RuleAlertSkips(w) ==
    /\ pc[w] = "fire"
    /\ IF Ev(w).proc \in RuntimeProcs THEN UNCHANGED alertVars ELSE FireAlert(w, Ev(w).rule)
    /\ Goto(w, IF KillWanted(Ev(w)) THEN "kill" ELSE "finish")
    /\ UNCHANGED <<workRest, cacheVars, procVars, kills>>

RuleAlert(w) ==
    /\ pc[w] = "fire"
    /\ FireAlert(w, Ev(w).rule)
    /\ Goto(w, IF KillWanted(Ev(w)) THEN "kill" ELSE "finish")
    /\ UNCHANGED <<workRest, cacheVars, procVars, kills>>

(* SIGKILL to whatever has the pid now: its group, or else the process      *)
(* alone.  Both fail when nothing has it.                                   *)
Kill(w) ==
    /\ pc[w] = "kill"
    /\ \/ /\ ~MayKill(Ev(w))
          /\ UNCHANGED <<procVars, kills>>
       \/ /\ MayKill(Ev(w))
          /\ kills' = kills \cup {[n |-> job[w], hit |-> holder[Ev(w).pid]]}
          /\ holder' = [holder EXCEPT ![Ev(w).pid] = NoProc]
          /\ astray' = astray \cup (StillToKill(Ev(w).pid) \ {job[w]})
    /\ Goto(w, "finish")
    /\ UNCHANGED <<workRest, cacheVars, alertVars>>

(* handleExec ends with the behavioural correlation (Behavior), whatever    *)
(* matchAndRespond returned on.                                             *)
Finish(w) ==
    /\ pc[w] = "finish"
    /\ Goto(w, "idle")
    /\ job' = [job EXCEPT ![w] = 0]
    /\ UNCHANGED <<clockVars, cacheVars, cleanVars, procVars, taken, alertVars, kills>>

-----------------------------------------------------------------------------
Handler(w) ==
    \/ TmpAlert(w) \/ ChainAlert(w) \/ Dedup(w) \/ PortAlert(w)
    \/ Claim(w) \/ AllowCheck(w) \/ RuleAlert(w) \/ Kill(w) \/ Finish(w)
Cleaner == CleanTick \/ CleanConns \/ CleanAlerts
World == Tick \/ \E p \in Pids : ProcessExits(p) \/ \E x \in Procs : ProcessStarts(p, x)

Next ==
    \/ World \/ Cleaner
    \/ \E w \in Workers : Handler(w) \/ \E e \in Events : Take(w, e)

Spec == Init /\ [][Next]_vars

(* A handler that has begun runs on: it blocks on nothing but two short     *)
(* critical sections.                                                       *)
FairSpec == Spec /\ \A w \in Workers : WF_vars(Handler(w))

-----------------------------------------------------------------------------
(* Properties. *)

Times == 0..MaxTime
Alerts == [n: 1..MaxTaken, rule: Rules \cup Unsuppressed]

(* Every variable has its type. *)
TypeOK ==
    /\ now \in Times /\ mode \in Modes
    /\ alertCache \in [Keys -> Times \cup {Never}]
    /\ connCache \in [Conns -> Times \cup {Never}]
    /\ cleanAt \in Times \cup {Never} /\ cleanPc \in {"conn", "alert"}
    /\ holder \in [Pids -> Procs \cup {NoProc}] /\ astray \subseteq 1..Len(taken)
    /\ taken \in Seq([ev: Events, at: Times]) /\ Len(taken) <= MaxTaken
    /\ job \in [Workers -> 0..Len(taken)]
    /\ pc \in [Workers -> {"idle", "tmp", "chain", "dedup", "port", "claim", "allow", "fire",
                           "kill", "finish"}]
    /\ claims \subseteq [n: 1..MaxTaken, key: Keys, at: Times]
    /\ connClaims \subseteq [n: 1..MaxTaken, key: Conns, at: Times]
    /\ fired \subseteq Alerts /\ sent \subseteq Alerts
    /\ kills \subseteq [n: 1..MaxTaken, hit: Procs \cup {NoProc}]

(* However the workers and the cleaner interleave, the same rule does not   *)
(* pass suppressAlert twice for a pod within the window, nor the same       *)
(* connection the connection cache.                                         *)
Apart(S) ==
    \A c, d \in S : c.key = d.key /\ c # d =>
        c.at - d.at >= Window \/ d.at - c.at >= Window
OncePerWindow == Apart(claims) /\ Apart(connClaims)

Handled(n) == n \in 1..Len(taken) /\ \A w \in Workers : job[w] # n

(* An event that matched a rule and went by in silence did so because the   *)
(* same rule had passed suppressAlert for its pod less than a window before *)
(* the event was taken, or later: silence is not prolonged by what it       *)
(* silences.                                                                *)
SilenceIsShort ==
    \A n \in 1..Len(taken) :
        LET e == taken[n].ev IN
        Handled(n) /\ e.rule # NoRule /\ e.kind # "connect" =>
            \E c \in claims : c.key = <<e.rule, e.pod>> /\ c.at > taken[n].at - Window

(* No silent kill: what is killed was reported before, by an alert of a     *)
(* critical rule that passed suppressAlert, only in enforce mode, and is    *)
(* neither a runtime process nor a protected one, unless it had not the pid *)
(* yet when the event was captured.  (Then it may be a protected one, which *)
(* engine.go:36 says are never killed.)                                     *)
NoSilentKill ==
    \A k \in kills :
        LET e == taken[k.n].ev IN
        /\ mode = "enforce" /\ e.rule \in Critical /\ e.proc \notin RuntimeProcs \cup Protected
        /\ \E a \in sent : a.n = k.n /\ a.rule = e.rule
        /\ \E c \in claims : c.n = k.n /\ c.key = <<e.rule, e.pod>>
        /\ k.hit = e.proc \/ k.n \in astray

(* "Allowlisted events are logged but never killed and never sent as         *)
(* alerts", says allowlist.go of what an entry covers: a rule's alert, or a  *)
(* handler's own, for the process of a pod.                                  *)
AllowlistIsKept ==
    /\ \A a \in sent :
         LET e == taken[a.n].ev IN <<a.rule, e.pod, e.proc>> \notin Allowed
    /\ \A k \in kills : ~IsAllowed(taken[k.n].ev)

(* How far the allowlist's word does go: an exec event that an entry covers *)
(* raises no alert of its rule and has nothing killed.  Of the alerts that  *)
(* are not from rules it says nothing, nor of the other events.             *)
ExecAllowlist ==
    \A n \in 1..Len(taken) :
        LET e == taken[n].ev IN
        e.kind = "exec" /\ IsAllowed(e) =>
            /\ \A a \in fired : a.n = n => a.rule \in Unsuppressed
            /\ \A k \in kills : k.n # n

(* What passed suppressAlert is followed by its alert, and the window is    *)
(* not spent for nothing, but by an exec event that the allowlist covers:   *)
(* it is asked too late for that.                                           *)
Responded ==
    \A n \in 1..MaxTaken :
        (\E c \in claims : c.n = n)
            ~> /\ n <= Len(taken)
               /\ \/ taken[n].ev.kind = "exec" /\ IsAllowed(taken[n].ev)
                  \/ \E a \in fired : a.n = n /\ a.rule = taken[n].ev.rule

(* What has been decided of the events taken.  One reaches suppressAlert    *)
(* unless the connection cache or the filter of private addresses stops it. *)
Decided(n, before) == \A w \in Workers : job[w] = n => pc[w] \notin before
Passed(n, S) == \E c \in S : c.n = n
Reaches(n) ==
    LET e == taken[n].ev IN
    /\ e.rule # NoRule
    /\ e.kind = "connect" => e.conn \notin PrivateConns /\ Passed(n, connClaims)

ToClaim == {"tmp", "chain", "dedup", "port", "claim"}
AlertSilent(n) == Reaches(n) /\ ~Passed(n, claims) /\ Decided(n, ToClaim)
ConnSilent(n) ==
    /\ taken[n].ev.kind = "connect" /\ taken[n].ev.conn # NoConn
    /\ ~Passed(n, connClaims) /\ Decided(n, {"dedup"})

AlertKey(n) == <<taken[n].ev.rule, taken[n].ev.pod>>
AlertSilenced ==
    {[n |-> m, key |-> AlertKey(m)] : m \in {n \in 1..Len(taken) : AlertSilent(n)}}
ConnSilenced ==
    {[n |-> m, key |-> taken[m].ev.conn] : m \in {n \in 1..Len(taken) : ConnSilent(n)}}

AlertLimit == INSTANCE Suppression WITH
    Numbers <- 1..MaxTaken, passes <- claims, silenced <- AlertSilenced
ConnLimit == INSTANCE Suppression WITH
    Keys <- Conns, Numbers <- 1..MaxTaken, passes <- connClaims, silenced <- ConnSilenced

(* However the workers and the cleaner interleave, and although each cache  *)
(* keeps one time per key and is pruned, the two caches let through and     *)
(* silence the events that a limiter which forgets nothing would, each      *)
(* judged once and at one moment.                                           *)
SuppressionSpec == AlertLimit!Spec /\ ConnLimit!Spec

=============================================================================
