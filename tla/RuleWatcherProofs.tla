-------------------------- MODULE RuleWatcherProofs --------------------------
(***************************************************************************)
(* Proofs about the rule watcher, for any number of API callers and of     *)
(* writes: its variables keep their types, it never gives up rules that    *)
(* compile for rules that do not, the time it records is never ahead of    *)
(* the file's, and, as long as no edit overlaps with a reload, a stale     *)
(* engine is always found out by the comparison of times.                  *)
(***************************************************************************)
EXTENDS RuleWatcher, TLAPS

(* The watch goroutine is one of those that reload. *)
LEMMA WatchReloads == "watch" \in Reloaders
BY DEF Reloaders

(* Which actions touch the variables of the properties. *)
LEMMA WhoChanges ==
    ASSUME [Next]_vars
    PROVE  \/ Write \/ Remove \/ Tick \/ WatchStat \/ WatchCompare
           \/ Stop \/ WatchStops
           \/ \E r \in Reloaders : Read(r) \/ Stat(r) \/ Install(r) \/ ForceReload(r)
           \/ UNCHANGED vars
BY DEF Next, Watch, Reload

-----------------------------------------------------------------------------
LEMMA TypeInit == Init => TypeOK
<1> SUFFICES ASSUME Init PROVE TypeOK
    OBVIOUS
<1>1. pc \in [Reloaders -> {"wait", "compare", "read", "stat", "install", "stopped", "dead"}]
    BY DEF Init
<1>2. /\ got \in [Reloaders -> 0..writes] /\ seen \in [Reloaders -> 0..clock]
    BY DEF Init, NoEngine, NoInfo
<1>3. /\ clock \in Nat \ {0} /\ mtime \in 1..clock
      /\ writes \in Nat /\ file \in 0..writes
      /\ engine \in 0..writes /\ modTime \in 0..clock
    BY DEF Init, NoEngine
<1>4. bad \subseteq 1..writes /\ stop \in BOOLEAN /\ overlapped \in BOOLEAN
    BY DEF Init
<1> QED
    BY <1>1, <1>2, <1>3, <1>4 DEF TypeOK

LEMMA TypeStep == TypeOK /\ [Next]_vars => TypeOK'
<1> SUFFICES ASSUME TypeOK, [Next]_vars PROVE TypeOK'
    OBVIOUS
<1>w. "watch" \in Reloaders
    BY WatchReloads
<1>1. CASE Write
    BY <1>1 DEF Write, TypeOK, watcherVars
<1>2. CASE Remove
    BY <1>2 DEF Remove, TypeOK, watcherVars, Missing
<1>3. CASE Tick
    BY <1>3 DEF Tick, TypeOK, watcherVars
<1>4. CASE WatchStat
    BY <1>4, <1>w DEF WatchStat, TypeOK, watcherVars, fileVars, Goto
<1>5. CASE WatchCompare
    BY <1>5, <1>w DEF WatchCompare, TypeOK, watcherVars, fileVars, Goto
<1>6. CASE Stop
    BY <1>6 DEF Stop, TypeOK, watcherVars, fileVars
<1>7. CASE WatchStops
    BY <1>7, <1>w DEF WatchStops, TypeOK, watcherVars, fileVars, Goto
<1>8. ASSUME NEW r \in Reloaders, Read(r) PROVE TypeOK'
    BY <1>8 DEF Read, TypeOK, watcherVars, fileVars, Goto, Failed
<1>9. ASSUME NEW r \in Reloaders, Stat(r) PROVE TypeOK'
    BY <1>9 DEF Stat, TypeOK, watcherVars, fileVars, Goto, NoInfo
<1>10. ASSUME NEW r \in Reloaders, Install(r) PROVE TypeOK'
    BY <1>10 DEF Install, TypeOK, fileVars, Goto
<1>11. ASSUME NEW r \in Reloaders, ForceReload(r) PROVE TypeOK'
    BY <1>11 DEF ForceReload, TypeOK, watcherVars, fileVars, Goto
<1>12. CASE UNCHANGED vars
    BY <1>12 DEF vars, TypeOK, watcherVars, fileVars
<1> QED
    BY <1>1, <1>2, <1>3, <1>4, <1>5, <1>6, <1>7, <1>8, <1>9, <1>10, <1>11, <1>12, WhoChanges

(* Every variable keeps its type, whatever the callers and the writers do.  *)
THEOREM TypeCorrect == Spec => []TypeOK
BY TypeInit, TypeStep, PTL DEF Spec

-----------------------------------------------------------------------------
(* Compiled rules are never given up: reload returns before it touches the  *)
(* engine unless the file was read and compiled.            *)

LEMMA RulesStep ==
    TypeOK /\ KeepsGoodRules /\ [Next]_vars => KeepsGoodRules'
<1> SUFFICES ASSUME TypeOK, KeepsGoodRules, [Next]_vars PROVE KeepsGoodRules'
    OBVIOUS
<1>w. "watch" \in Reloaders
    BY WatchReloads
<1>1. CASE Write
    BY <1>1 DEF Write, TypeOK, KeepsGoodRules, watcherVars, NoEngine
<1>2. CASE Remove
    BY <1>2 DEF Remove, KeepsGoodRules, watcherVars
<1>3. CASE Tick
    BY <1>3 DEF Tick, KeepsGoodRules, watcherVars
<1>4. CASE WatchStat
    BY <1>4, <1>w DEF WatchStat, TypeOK, KeepsGoodRules, watcherVars, fileVars, Goto
<1>5. CASE WatchCompare
    BY <1>5, <1>w DEF WatchCompare, TypeOK, KeepsGoodRules, watcherVars, fileVars, Goto
<1>6. CASE Stop
    BY <1>6 DEF Stop, KeepsGoodRules, watcherVars, fileVars
<1>7. CASE WatchStops
    BY <1>7, <1>w DEF WatchStops, TypeOK, KeepsGoodRules, watcherVars, fileVars, Goto
<1>8. ASSUME NEW r \in Reloaders, Read(r) PROVE KeepsGoodRules'
    BY <1>8, <1>w DEF Read, TypeOK, KeepsGoodRules, watcherVars, fileVars, Goto, Failed,
        Missing, NoEngine
<1>9. ASSUME NEW r \in Reloaders, Stat(r) PROVE KeepsGoodRules'
    BY <1>9, <1>w DEF Stat, TypeOK, KeepsGoodRules, watcherVars, fileVars, Goto
<1>10. ASSUME NEW r \in Reloaders, Install(r) PROVE KeepsGoodRules'
    BY <1>10, <1>w DEF Install, TypeOK, KeepsGoodRules, fileVars, Goto
<1>11. ASSUME NEW r \in Reloaders, ForceReload(r) PROVE KeepsGoodRules'
    BY <1>11, <1>w, WatchIsNoCaller
    DEF ForceReload, TypeOK, KeepsGoodRules, watcherVars, fileVars, Goto
<1>12. CASE UNCHANGED vars
    BY <1>12 DEF vars, KeepsGoodRules, watcherVars, fileVars
<1> QED
    BY <1>1, <1>2, <1>3, <1>4, <1>5, <1>6, <1>7, <1>8, <1>9, <1>10, <1>11, <1>12, WhoChanges

(* The engine in use always comes from a file that compiled, and from the   *)
(* moment NewWatcher returns there is one.                                  *)
THEOREM KeepsGoodRulesCorrect == Spec => []KeepsGoodRules
<1>1. Init => KeepsGoodRules
    BY DEF Init, KeepsGoodRules, Reloaders
<1> QED
    BY <1>1, TypeInit, TypeStep, RulesStep, PTL DEF Spec

-----------------------------------------------------------------------------
(* The times that are about to be recorded are not ahead either. *)
TimesBehind == modTime <= mtime /\ \A r \in Reloaders : seen[r] <= mtime

LEMMA TimesStep == TypeOK /\ TimesBehind /\ [Next]_vars => TimesBehind'
<1> SUFFICES ASSUME TypeOK, TimesBehind, [Next]_vars PROVE TimesBehind'
    OBVIOUS
<1>w. "watch" \in Reloaders
    BY WatchReloads
<1>1. CASE Write
    BY <1>1 DEF Write, TypeOK, TimesBehind, watcherVars
<1>4. CASE WatchStat
    BY <1>4, <1>w DEF WatchStat, TypeOK, TimesBehind, watcherVars, fileVars
<1>9. ASSUME NEW r \in Reloaders, Stat(r) PROVE TimesBehind'
    BY <1>9 DEF Stat, TypeOK, TimesBehind, watcherVars, fileVars, NoInfo
<1>10. ASSUME NEW r \in Reloaders, Install(r) PROVE TimesBehind'
    BY <1>10 DEF Install, TypeOK, TimesBehind, fileVars
<1>12. CASE UNCHANGED <<mtime, modTime, seen>>
    BY <1>12 DEF TimesBehind
<1>13. \/ Write \/ WatchStat \/ (\E r \in Reloaders : Stat(r) \/ Install(r))
       \/ UNCHANGED <<mtime, modTime, seen>>
    BY WhoChanges DEF Remove, Tick, WatchCompare, Stop, WatchStops, Read, ForceReload,
        vars, fileVars, watcherVars
<1> QED
    BY <1>1, <1>4, <1>9, <1>10, <1>12, <1>13

(* The recorded time is one the file has had, so that a write with a later  *)
(* time stamp is always noticed.                                            *)
THEOREM NeverAheadCorrect == Spec => []NeverAhead
<1>1. Init => TimesBehind
    BY DEF Init, TimesBehind, NoInfo
<1>2. TimesBehind => NeverAhead
    BY DEF TimesBehind, NeverAhead
<1> QED
    BY <1>1, <1>2, TypeInit, TypeStep, TimesStep, PTL DEF Spec

-----------------------------------------------------------------------------
(* Without overlaps, what a reload has read is still the file's content when it    *)
(* asks for the time; and if the time it was told is still the file's, so   *)
(* is the content it is about to install.                                   *)
ReadIsCurrent ==
    \A r \in Reloaders :
        /\ pc[r] = "stat" => file # Missing /\ got[r] = file
        /\ pc[r] = "install" /\ seen[r] = mtime /\ file # Missing => got[r] = file
        /\ pc[r] = "install" => seen[r] # NoInfo

CarefulInv == ~overlapped => ReadIsCurrent /\ StaleIsNoticed

LEMMA CarefulStep ==
    TypeOK /\ TimesBehind /\ CarefulInv /\ [Next]_vars => CarefulInv'
<1> SUFFICES ASSUME TypeOK, TimesBehind, CarefulInv, [Next]_vars, ~overlapped'
             PROVE  CarefulInv'
    BY DEF CarefulInv
<1>w. "watch" \in Reloaders
    BY WatchReloads
<1>o. ~overlapped
    BY WhoChanges
    DEF Write, Remove, Tick, WatchStat, WatchCompare, Stop, WatchStops, Read, Stat, Install,
        ForceReload, vars, fileVars, TypeOK
<1>i. ReadIsCurrent /\ StaleIsNoticed
    BY <1>o DEF CarefulInv
<1> SUFFICES ReadIsCurrent' /\ StaleIsNoticed'
    BY DEF CarefulInv
<1>1. CASE Write
  <2>o. ~Overlaps
    BY <1>1, Zenon DEF Write
  <2>1. mtime' > mtime /\ \A r \in Reloaders : pc[r] # "stat"
    BY <1>1, <2>o DEF Write, Overlaps, TypeOK
  <2>n. /\ mtime \in Nat /\ mtime' \in Nat /\ modTime \in Nat
        /\ \A r \in Reloaders : seen[r] \in Nat
    BY <1>1 DEF Write, TypeOK
  <2>2. \A r \in Reloaders : seen[r] < mtime'
    BY <2>1, <2>n DEF TimesBehind
  <2>3. modTime < mtime'
    BY <2>1, <2>n DEF TimesBehind
  <2>4. ReadIsCurrent'
    BY <1>1, <1>i, <2>1, <2>2 DEF Write, watcherVars, ReadIsCurrent, TypeOK
  <2>5. StaleIsNoticed'
    BY <1>1, <2>3 DEF Write, watcherVars, StaleIsNoticed, TypeOK
  <2> QED
    BY <2>4, <2>5
<1>2. CASE Remove
    BY <1>2, <1>i DEF Remove, Overlaps, watcherVars, ReadIsCurrent, StaleIsNoticed
<1>3. CASE Tick
    BY <1>3, <1>i DEF Tick, watcherVars, ReadIsCurrent, StaleIsNoticed
<1>4. CASE WatchStat
    BY <1>4, <1>i, <1>w DEF WatchStat, watcherVars, fileVars, ReadIsCurrent, StaleIsNoticed,
        Goto, TypeOK
<1>5. CASE WatchCompare
    BY <1>5, <1>i, <1>w DEF WatchCompare, watcherVars, fileVars, ReadIsCurrent,
        StaleIsNoticed, Goto, TypeOK
<1>6. CASE Stop
    BY <1>6, <1>i DEF Stop, watcherVars, fileVars, ReadIsCurrent, StaleIsNoticed
<1>7. CASE WatchStops
    BY <1>7, <1>i, <1>w DEF WatchStops, watcherVars, fileVars, ReadIsCurrent, StaleIsNoticed,
        Goto, TypeOK
<1>8. ASSUME NEW r \in Reloaders, Read(r) PROVE ReadIsCurrent' /\ StaleIsNoticed'
    BY <1>8, <1>i DEF Read, watcherVars, fileVars, ReadIsCurrent, StaleIsNoticed, Goto,
        Failed, TypeOK
<1>9. ASSUME NEW r \in Reloaders, Stat(r) PROVE ReadIsCurrent' /\ StaleIsNoticed'
    BY <1>9, <1>i DEF Stat, watcherVars, fileVars, ReadIsCurrent, StaleIsNoticed, Goto,
        TypeOK, NoInfo
<1>10. ASSUME NEW r \in Reloaders, Install(r) PROVE ReadIsCurrent' /\ StaleIsNoticed'
    BY <1>10, <1>i DEF Install, fileVars, ReadIsCurrent, StaleIsNoticed, Goto, TypeOK
<1>11. ASSUME NEW r \in Reloaders, ForceReload(r) PROVE ReadIsCurrent' /\ StaleIsNoticed'
    BY <1>11, <1>i DEF ForceReload, watcherVars, fileVars, ReadIsCurrent, StaleIsNoticed,
        Goto, TypeOK
<1>12. CASE UNCHANGED vars
    BY <1>12, <1>i DEF vars, watcherVars, fileVars, ReadIsCurrent, StaleIsNoticed
<1> QED
    BY <1>1, <1>2, <1>3, <1>4, <1>5, <1>6, <1>7, <1>8, <1>9, <1>10, <1>11, <1>12, WhoChanges

(* If nobody touches the file in the middle of a reload or twice in a tick, *)
(* an engine that is not the file's is always due to be replaced, whatever  *)
(* number of callers reload at the same time.                               *)
THEOREM StaleIsNoticedCorrect == Spec => []StaleIsNoticed
<1>1. Init => TimesBehind
    BY DEF Init, TimesBehind, NoInfo
<1>2. Init => CarefulInv
    BY DEF Init, CarefulInv, ReadIsCurrent, StaleIsNoticed, Reloaders, Missing
<1>3. CarefulInv => StaleIsNoticed
    BY DEF CarefulInv, StaleIsNoticed
<1> QED
    BY <1>1, <1>2, <1>3, TypeInit, TypeStep, TimesStep, CarefulStep, PTL DEF Spec
=============================================================================
