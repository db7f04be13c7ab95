----------------------------- MODULE RuleWatcher -----------------------------
(***************************************************************************)
(* Hot reloading of the rule file.  The watch goroutine compares the       *)
(* file's modification time with the one it recorded, and reloads when it  *)
(* is later; the controller's API handlers reload when they are asked to.  *)
(* A reload reads and compiles the file, then asks for its modification    *)
(* time, and then installs both: meanwhile the file may be written, and    *)
(* another reload may run.                                                 *)
(*                                                                         *)
(* The file's contents are numbered in the order in which they are         *)
(* written.  A half-written file that parses is a content like another.    *)
(***************************************************************************)
EXTENDS Naturals

CONSTANTS
    Callers,            \* API handlers that call ForceReload; an agent has none
    MaxWrites           \* bound: how often the file is written

ASSUME MaxWritesNat == MaxWrites \in Nat
ASSUME WatchIsNoCaller == "watch" \notin Callers

VARIABLES
    clock,              \* the file system's clock, as fine as its time stamps
    file,               \* the content of the file, or Missing
    mtime,              \* its modification time
    writes,             \* how often it was written
    bad,                \* the contents that do not parse or compile
    overlapped,         \* history: whether the file was ever touched in the middle of
                        \* a reload or twice in one tick of the clock
    engine,             \* the content the installed engine was compiled from
    modTime,            \* Watcher.modTime
    stop,               \* whether Stop was called
    pc,                 \* where the watch goroutine and the callers are
    got,                \* the content each has read
    seen                \* the modification time each was told, or NoInfo

fileVars == <<clock, file, mtime, writes, bad, overlapped>>
watcherVars == <<engine, modTime>>
vars == <<fileVars, watcherVars, stop, pc, got, seen>>

Reloaders == Callers \cup {"watch"}
Missing == 0
NoEngine == 0
NoInfo == 0

Init ==
    /\ clock = 1 /\ mtime = 1
    /\ file = 1 /\ writes = 1 /\ bad = {} /\ overlapped = FALSE
    /\ engine = NoEngine /\ modTime = 0
    /\ stop = FALSE
    /\ pc = [r \in Reloaders |-> IF r = "watch" THEN "read" ELSE "wait"]
    /\ got = [r \in Reloaders |-> NoEngine]
    /\ seen = [r \in Reloaders |-> NoInfo]

-----------------------------------------------------------------------------
(* Whoever edits the file. *)

(* The time stamp of this edit will not tell it from the last one, or is    *)
(* about to be taken for that of what was read before it.                   *)
Overlaps == mtime = clock \/ \E r \in Reloaders : pc[r] = "stat"

Write ==
    /\ writes < MaxWrites
    /\ overlapped' = (overlapped \/ Overlaps)
    /\ writes' = writes + 1
    /\ file' = writes + 1
    /\ mtime' = clock
    /\ bad' \in {bad, bad \cup {writes + 1}}
    /\ UNCHANGED <<clock, watcherVars, stop, pc, got, seen>>

(* The file is gone until it is written again. *)
Remove ==
    /\ file # Missing /\ writes < MaxWrites
    /\ overlapped' = (overlapped \/ Overlaps)
    /\ file' = Missing
    /\ UNCHANGED <<clock, mtime, writes, bad, watcherVars, stop, pc, got, seen>>

(* The clock matters only once a time stamp has been taken. *)
Tick ==
    /\ clock = mtime
    /\ clock' = clock + 1
    /\ UNCHANGED <<file, mtime, writes, bad, overlapped, watcherVars, stop, pc, got, seen>>

-----------------------------------------------------------------------------
(* reload, by the watch goroutine and by ForceReload; NewWatcher does the   *)
(* same before it starts the goroutine.                                     *)

Goto(r, label) == pc' = [pc EXCEPT ![r] = label]

(* NewWatcher fails, and with it main, if the first read does. *)
Failed(r) == IF engine = NoEngine THEN "dead" ELSE "wait"

(* Mutant of Read: goes on without rules when the file cannot be loaded. *)
ReadOrEmpty(r) ==
    /\ pc[r] = "read"
    /\ got' = [got EXCEPT ![r] = IF file = Missing \/ file \in bad THEN NoEngine ELSE file]
    /\ Goto(r, "stat")
    /\ UNCHANGED <<fileVars, watcherVars, stop, seen>>

(* os.ReadFile, yaml.Unmarshal and NewEngine. *)
Read(r) ==
    /\ pc[r] = "read"
    /\ \/ /\ file = Missing \/ file \in bad
          /\ Goto(r, Failed(r))
          /\ UNCHANGED got
       \/ /\ file # Missing /\ file \notin bad
          /\ got' = [got EXCEPT ![r] = file]
          /\ Goto(r, "stat")
    /\ UNCHANGED <<fileVars, watcherVars, stop, seen>>

(* os.Stat, whose error is dropped. *)
Stat(r) ==
    /\ pc[r] = "stat"
    /\ seen' = [seen EXCEPT ![r] = IF file = Missing THEN NoInfo ELSE mtime]
    /\ Goto(r, "install")
    /\ UNCHANGED <<fileVars, watcherVars, stop, got>>

(* Mutant of Install: once there is an engine, only the watch goroutine's   *)
(* time is recorded and its engine is not installed; a caller's is.         *)
InstallTimeOnly(r) ==
    /\ pc[r] = "install"
    /\ engine' = IF r = "watch" /\ engine # NoEngine THEN engine ELSE got[r]
    /\ modTime' = IF seen[r] = NoInfo THEN modTime ELSE seen[r]
    /\ Goto(r, "wait")
    /\ UNCHANGED <<fileVars, stop, got, seen>>

(* Under the write lock.  A caller then answers its request, and the next   *)
(* one may come.                                                            *)
Install(r) ==
    /\ pc[r] = "install"
    /\ engine' = got[r]
    /\ modTime' = IF seen[r] = NoInfo THEN modTime ELSE seen[r]
    /\ Goto(r, "wait")
    /\ UNCHANGED <<fileVars, stop, got, seen>>

-----------------------------------------------------------------------------
(* The watch goroutine's tick: os.Stat first, then the comparison under the *)
(* read lock. *)
WatchStat ==
    /\ pc["watch"] = "wait" /\ file # Missing
    /\ seen' = [seen EXCEPT !["watch"] = mtime]
    /\ Goto("watch", "compare")
    /\ UNCHANGED <<fileVars, watcherVars, stop, got>>

(* Mutant of WatchCompare: reloads unless the file is unchanged or newer. *)
WatchCompareReversed ==
    /\ pc["watch"] = "compare"
    /\ Goto("watch", IF modTime > seen["watch"] THEN "read" ELSE "wait")
    /\ UNCHANGED <<fileVars, watcherVars, stop, got, seen>>

WatchCompare ==
    /\ pc["watch"] = "compare"
    /\ Goto("watch", IF seen["watch"] > modTime THEN "read" ELSE "wait")
    /\ UNCHANGED <<fileVars, watcherVars, stop, got, seen>>

(* handleRulesReload calls ForceReload.  Callers come after NewWatcher has  *)
(* returned.                                                                *)
ForceReload(r) ==
    /\ r \in Callers /\ pc[r] = "wait" /\ engine # NoEngine
    /\ Goto(r, "read")
    /\ UNCHANGED <<fileVars, watcherVars, stop, got, seen>>

Stop ==
    /\ ~stop /\ engine # NoEngine
    /\ stop' = TRUE
    /\ UNCHANGED <<fileVars, watcherVars, pc, got, seen>>

WatchStops ==
    /\ pc["watch"] = "wait" /\ stop
    /\ Goto("watch", "stopped")
    /\ UNCHANGED <<fileVars, watcherVars, stop, got, seen>>

-----------------------------------------------------------------------------
Reload(r) == Read(r) \/ Stat(r) \/ Install(r)
Watch == WatchStat \/ WatchCompare

Next ==
    \/ Write \/ Remove \/ Tick
    \/ Watch \/ Stop \/ WatchStops
    \/ \E r \in Reloaders : Reload(r) \/ ForceReload(r)

Spec == Init /\ [][Next]_vars

(* A reload that has begun runs on, and the ticker keeps ticking. *)
FairSpec == Spec /\ WF_vars(Watch) /\ \A r \in Reloaders : WF_vars(Reload(r))

-----------------------------------------------------------------------------
(* Properties. *)

(* Every variable has its type. *)
TypeOK ==
    /\ clock \in Nat \ {0} /\ mtime \in 1..clock
    /\ writes \in Nat /\ file \in 0..writes /\ bad \subseteq 1..writes
    /\ engine \in 0..writes /\ modTime \in 0..clock
    /\ stop \in BOOLEAN /\ overlapped \in BOOLEAN
    /\ pc \in [Reloaders -> {"wait", "compare", "read", "stat", "install", "stopped", "dead"}]
    /\ got \in [Reloaders -> 0..writes]
    /\ seen \in [Reloaders -> 0..clock]

(* However reloads overlap with writes and with each other, rules that do   *)
(* not compile, or a file that is gone, never replace the rules in use: the *)
(* watcher keeps the engine it has.                                         *)
KeepsGoodRules ==
    /\ engine \notin bad
    /\ pc["watch"] \in {"wait", "compare", "stopped"} => engine # NoEngine
    /\ \A r \in Reloaders : pc[r] \in {"stat", "install"} => got[r] \notin bad \cup {NoEngine}

(* The recorded time is never ahead of the file, so that a later write,     *)
(* with a later time stamp, is always noticed: whenever the watch goroutine *)
(* waits, the file has the time recorded or a later one.                    *)
NeverAhead == modTime <= mtime

(* What makes the comparison of times enough: as long as no edit came       *)
(* between the read and the time stamp of a reload, or second in one tick   *)
(* of the clock, then however reloads overtake each other, an engine that   *)
(* is not the file's has a time that is not the file's, and will be         *)
(* replaced.                                                                *)
StaleIsNoticed == ~overlapped /\ file # Missing /\ modTime = mtime => engine = file

Loadable == file # Missing /\ file \notin bad
Left == writes = MaxWrites /\ ~stop
Caught == engine = file \/ stop \/ pc["watch"] = "dead"

(* The comment over Watcher (loader.go:36) has it that changes are reloaded *)
(* automatically.  After edits that did not overlap with a reload or with   *)
(* each other, the watcher comes to run the content of the file.            *)
Converges == (Loadable /\ Left /\ ~overlapped) ~> Caught
=============================================================================
