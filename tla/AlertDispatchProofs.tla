------------------------- MODULE AlertDispatchProofs -------------------------
(***************************************************************************)
(* Proofs about AlertDispatch, for any number of workers, any rules and    *)
(* events, and any window that the cleaner respects.                       *)
(***************************************************************************)
EXTENDS AlertDispatch, TLAPS

Labels == {"idle", "tmp", "chain", "dedup", "port", "claim", "allow", "fire", "kill", "finish"}

(* A worker has an event exactly while it is in a handler, and past Claim   *)
(* that event matched a rule.                                               *)
Busy ==
    \A w \in Workers :
        /\ pc[w] # "idle" => job[w] # 0
        /\ pc[w] \in {"allow", "fire", "kill"} => Ev(w).rule # NoRule

TypeInv == TypeOK /\ Busy

(* TypeOK, by who changes what. *)
ClockType == now \in Times /\ mode \in Modes
CacheType ==
    /\ alertCache \in [Keys -> Times \cup {Never}]
    /\ connCache \in [Conns -> Times \cup {Never}]
CleanType == cleanAt \in Times \cup {Never} /\ cleanPc \in {"conn", "alert"}
HolderType == holder \in [Pids -> Procs \cup {NoProc}]
WorkType ==
    /\ taken \in Seq([ev: Events, at: Times]) /\ Len(taken) <= MaxTaken
    /\ job \in [Workers -> 0..Len(taken)]
    /\ pc \in [Workers -> Labels]
    /\ Busy
ClaimType ==
    /\ claims \subseteq [n: 1..MaxTaken, key: Keys, at: Times]
    /\ connClaims \subseteq [n: 1..MaxTaken, key: Conns, at: Times]
AlertType == fired \subseteq Alerts /\ sent \subseteq Alerts
AstrayType == astray \subseteq 1..Len(taken)
KillType == kills \subseteq [n: 1..MaxTaken, hit: Procs \cup {NoProc}]

LEMMA TypeParts ==
    TypeInv <=> /\ ClockType /\ CacheType /\ CleanType /\ HolderType /\ WorkType
                /\ AstrayType /\ ClaimType /\ AlertType /\ KillType
    BY DEF TypeInv, TypeOK, ClockType, CacheType, CleanType, HolderType, WorkType, Labels,
       AstrayType, ClaimType, AlertType, KillType

(* Which actions change which variable. *)
LEMMA WhoChanges ==
    ASSUME [Next]_vars
    PROVE  /\ UNCHANGED mode
           /\ UNCHANGED now \/ Tick
           /\ \/ UNCHANGED alertCacheVars
              \/ CleanAlerts \/ \E w \in Workers : Claim(w)
           /\ \/ UNCHANGED connCacheVars
              \/ CleanConns \/ \E w \in Workers : Dedup(w)
           /\ UNCHANGED cleanVars \/ Cleaner
           /\ \/ UNCHANGED procVars
              \/ \E p \in Pids : ProcessExits(p) \/ \E x \in Procs : ProcessStarts(p, x)
              \/ \E w \in Workers : Kill(w)
           /\ \/ UNCHANGED <<taken, job, pc>>
              \/ \E w \in Workers : Handler(w) \/ \E e \in Events : Take(w, e)
           /\ \/ UNCHANGED alertVars
              \/ \E w \in Workers : TmpAlert(w) \/ ChainAlert(w) \/ PortAlert(w) \/ RuleAlert(w)
           /\ UNCHANGED kills \/ \E w \in Workers : Kill(w)
<1> USE DEF clockVars, cacheVars, alertCacheVars, connCacheVars, cleanVars, alertVars, workRest
<1>1. CASE World
    BY <1>1 DEF World, Tick, ProcessExits, ProcessStarts
<1>2. CASE Cleaner
    BY <1>2 DEF Cleaner, CleanTick, CleanConns, CleanAlerts
<1>3. ASSUME NEW w \in Workers, NEW e \in Events, Take(w, e)
      PROVE  UNCHANGED <<clockVars, cacheVars, cleanVars, procVars, alertVars, kills>>
    BY <1>3 DEF Take
<1>4. ASSUME NEW w \in Workers, TmpAlert(w) \/ ChainAlert(w) \/ PortAlert(w)
      PROVE  UNCHANGED <<workRest, cacheVars, procVars, kills>>
    BY <1>4 DEF TmpAlert, ChainAlert, PortAlert, OwnAlert
<1>5. ASSUME NEW w \in Workers, RuleAlert(w)
      PROVE  UNCHANGED <<workRest, cacheVars, procVars, kills>>
    BY <1>5 DEF RuleAlert
<1>6. ASSUME NEW w \in Workers, Dedup(w)
      PROVE  UNCHANGED <<workRest, alertCacheVars, procVars, alertVars, kills>>
    BY <1>6 DEF Dedup
<1>7. ASSUME NEW w \in Workers, Claim(w)
      PROVE  UNCHANGED <<workRest, connCacheVars, procVars, alertVars, kills>>
    BY <1>7 DEF Claim
<1>8. ASSUME NEW w \in Workers, AllowCheck(w)
      PROVE  UNCHANGED <<workRest, cacheVars, procVars, alertVars, kills>>
    BY <1>8 DEF AllowCheck
<1>9. ASSUME NEW w \in Workers, Kill(w)
      PROVE  UNCHANGED <<workRest, cacheVars, alertVars>>
    BY <1>9 DEF Kill
<1>10. ASSUME NEW w \in Workers, Finish(w)
       PROVE  UNCHANGED <<clockVars, cacheVars, cleanVars, procVars, taken, alertVars, kills>>
    BY <1>10 DEF Finish
<1>11. CASE \E w \in Workers : Handler(w) \/ \E e \in Events : Take(w, e)
    BY <1>3, <1>4, <1>5, <1>6, <1>7, <1>8, <1>9, <1>10, <1>11 DEF Handler
<1>12. CASE UNCHANGED vars
    BY <1>12 DEF vars
<1> QED
    BY <1>1, <1>2, <1>11, <1>12 DEF Next

LEMMA InitTypeInv == Init => TypeInv
<1> SUFFICES ASSUME Init PROVE TypeInv
    OBVIOUS
<1>1. ClockType /\ CacheType /\ CleanType /\ HolderType
    BY BoundsOK DEF Init, ClockType, CacheType, CleanType, HolderType, Times
<1>2. taken \in Seq([ev: Events, at: Times]) /\ Len(taken) = 0
    BY DEF Init
<1>3. WorkType
    <2>1. job \in [Workers -> 0..Len(taken)] /\ pc \in [Workers -> Labels] /\ Busy
        BY <1>2 DEF Init, Labels, Busy
    <2> QED
        BY <1>2, <2>1, BoundsOK DEF WorkType
<1>4. AstrayType /\ ClaimType /\ AlertType /\ KillType
    BY DEF Init, AstrayType, ClaimType, AlertType, KillType
<1> QED
    BY <1>1, <1>3, <1>4, TypeParts

LEMMA ElementOf ==
    ASSUME NEW S, NEW s \in Seq(S), NEW i \in 1..Len(s)
    PROVE  s[i] \in S
    OBVIOUS

(* The event of a busy worker. *)
LEMMA EventType ==
    ASSUME TypeInv, NEW w \in Workers, pc[w] # "idle"
    PROVE  /\ job[w] \in 1..Len(taken) /\ job[w] \in 1..MaxTaken
           /\ Ev(w) \in EventSet /\ taken[job[w]].at \in Times
<1>1. taken \in Seq([ev: Events, at: Times])
    BY DEF TypeInv, TypeOK
<1>2. Len(taken) \in Nat
    BY <1>1
<1>3. job[w] \in 0..Len(taken) /\ Len(taken) <= MaxTaken /\ job[w] # 0
    BY DEF TypeInv, TypeOK, Busy
<1>4. job[w] \in 1..Len(taken) /\ job[w] \in 1..MaxTaken
    BY <1>2, <1>3, BoundsOK
<1>5. taken[job[w]] \in [ev: Events, at: Times]
    BY <1>1, <1>4, ElementOf
<1> QED
    BY <1>4, <1>5, EventsOK DEF Ev

LEMMA NextWorkType == TypeInv /\ [Next]_vars => WorkType'
<1> SUFFICES ASSUME TypeInv, [Next]_vars PROVE WorkType'
    OBVIOUS
<1>1. /\ job \in [Workers -> 0..Len(taken)] /\ pc \in [Workers -> Labels]
      /\ taken \in Seq([ev: Events, at: Times]) /\ Len(taken) <= MaxTaken
      /\ Busy
    BY TypeParts DEF WorkType
<1>2. Len(taken) \in Nat /\ MaxTaken \in Nat /\ now \in Times
    <2>1. Len(taken) \in Nat
        BY <1>1
    <2> QED
        BY <2>1, BoundsOK, TypeParts DEF ClockType
<1>3. ASSUME NEW w \in Workers, NEW e \in Events, Take(w, e) PROVE WorkType'
    <2>1. e \in EventSet
        BY EventsOK
    <2>2. pc'[w] \in {"tmp", "claim", "dedup"} /\ pc' = [pc EXCEPT ![w] = pc'[w]]
        BY <1>1, <1>3, <2>1 DEF Take, Goto, EventSet
    <2>3. /\ taken' \in Seq([ev: Events, at: Times])
          /\ Len(taken') = Len(taken) + 1
          /\ \A n \in 1..Len(taken) : taken'[n] = taken[n]
        <3>1. [ev |-> e, at |-> now] \in [ev: Events, at: Times]
            BY <1>2
        <3>2. taken' = Append(taken, [ev |-> e, at |-> now])
            BY <1>3 DEF Take
        <3> QED
            BY <1>1, <3>1, <3>2
    <2>4. Len(taken) < MaxTaken
        BY <1>3 DEF Take
    <2>5. job' = [job EXCEPT ![w] = Len(taken) + 1]
        BY <1>3 DEF Take
    <2>6. job' \in [Workers -> 0..Len(taken')]
        BY <1>1, <1>2, <2>3, <2>5
    <2>7. Busy'
        <3>1. ASSUME NEW v \in Workers, v # w, pc[v] # "idle"
              PROVE  job'[v] = job[v] /\ Ev(v)' = Ev(v) /\ pc'[v] = pc[v]
            <4>1. job'[v] = job[v] /\ pc'[v] = pc[v]
                BY <1>1, <2>2, <2>5, <3>1
            <4>2. job[v] \in 1..Len(taken)
                BY <3>1, EventType
            <4> QED
                BY <2>3, <4>1, <4>2 DEF Ev
        <3>2. \A v \in Workers : v # w /\ pc[v] = "idle" => pc'[v] = "idle"
            BY <1>1, <2>2
        <3>3. job'[w] # 0 /\ pc'[w] \notin {"allow", "fire", "kill"}
            BY <1>1, <1>2, <2>2, <2>5
        <3> QED
            BY <1>1, <3>1, <3>2, <3>3 DEF Busy
    <2> QED
        <3>1. Len(taken') <= MaxTaken
            BY <1>2, <2>3, <2>4
        <3>2. pc' \in [Workers -> Labels]
            BY <1>1, <2>2 DEF Labels
        <3> QED
            BY <2>3, <2>6, <2>7, <3>1, <3>2 DEF WorkType
<1>4. ASSUME NEW w \in Workers, Finish(w) PROVE WorkType'
    <2>1. /\ pc' = [pc EXCEPT ![w] = "idle"] /\ job' = [job EXCEPT ![w] = 0]
          /\ taken' = taken
        BY <1>4 DEF Finish, Goto
    <2>2. job' \in [Workers -> 0..Len(taken')] /\ pc' \in [Workers -> Labels]
        BY <1>1, <1>2, <2>1 DEF Labels
    <2>3. Busy'
        BY <1>1, <2>1 DEF Busy, Ev
    <2> QED
        BY <1>1, <2>1, <2>2, <2>3 DEF WorkType
<1>5. ASSUME NEW w \in Workers, Handler(w), ~Finish(w) PROVE WorkType'
    <2>1. /\ pc[w] \in {"tmp", "chain", "dedup", "port", "claim", "allow", "fire", "kill"}
          /\ pc' = [pc EXCEPT ![w] = pc'[w]] /\ pc'[w] \in Labels /\ pc'[w] # "idle"
          /\ pc'[w] \in {"allow", "fire", "kill"} => Ev(w).rule # NoRule
          /\ UNCHANGED <<taken, job>>
        <3>1. CASE TmpAlert(w) \/ ChainAlert(w) \/ PortAlert(w)
            BY <1>1, <3>1 DEF TmpAlert, ChainAlert, PortAlert, OwnAlert, Goto, workRest, Labels
        <3>2. CASE Dedup(w)
            BY <1>1, <3>2 DEF Dedup, Goto, workRest, Labels
        <3>3. CASE Claim(w)
            BY <1>1, <3>3 DEF Claim, Goto, workRest, Labels
        <3>4. CASE AllowCheck(w) \/ RuleAlert(w) \/ Kill(w)
            BY <1>1, <3>4 DEF AllowCheck, RuleAlert, Kill, Goto, workRest, Labels, Busy
        <3> QED
            BY <1>5, <3>1, <3>2, <3>3, <3>4 DEF Handler
    <2>2. pc' \in [Workers -> Labels]
        BY <1>1, <2>1
    <2>3. Busy'
        BY <1>1, <2>1 DEF Busy, Ev
    <2> QED
        BY <1>1, <2>1, <2>2, <2>3 DEF WorkType
<1>6. CASE UNCHANGED <<taken, job, pc>>
    BY <1>1, <1>6 DEF WorkType, Busy, Ev
<1> QED
    BY <1>3, <1>4, <1>5, <1>6, WhoChanges

LEMMA HistoryGrows ==
    ASSUME TypeInv, [Next]_vars
    PROVE  /\ claims \subseteq claims' /\ sent \subseteq sent' /\ mode' = mode
           /\ \A n \in 1..Len(taken) : n \in 1..Len(taken') /\ taken'[n] = taken[n]
<1>1. claims \subseteq claims' /\ mode' = mode
    BY WhoChanges DEF CleanAlerts, Claim, alertCacheVars, cacheVars
<1>2. sent \subseteq sent'
    <2>1. ASSUME NEW w \in Workers, TmpAlert(w) \/ ChainAlert(w) \/ PortAlert(w) \/ RuleAlert(w)
          PROVE  sent \subseteq sent'
        BY <2>1 DEF TmpAlert, ChainAlert, PortAlert, RuleAlert, OwnAlert, FireAlert, alertVars
    <2> QED
        BY <2>1, WhoChanges DEF alertVars
<1>3. taken' = taken \/ \E e \in Events : taken' = Append(taken, [ev |-> e, at |-> now])
    <2>1. ASSUME NEW w \in Workers, Handler(w) PROVE taken' = taken
        BY <2>1 DEF Handler, TmpAlert, ChainAlert, Dedup, PortAlert, OwnAlert, Claim, AllowCheck,
           RuleAlert, Kill, Finish, workRest
    <2> QED
        BY <2>1, WhoChanges DEF Take
<1>4. ASSUME NEW e \in Events, taken' = Append(taken, [ev |-> e, at |-> now])
      PROVE  \A n \in 1..Len(taken) : n \in 1..Len(taken') /\ taken'[n] = taken[n]
    <2>1. taken \in Seq([ev: Events, at: Times]) /\ [ev |-> e, at |-> now] \in [ev: Events, at: Times]
        BY DEF TypeInv, TypeOK
    <2> QED
        BY <1>4, <2>1
<1> QED
    BY <1>1, <1>2, <1>3, <1>4

LEMMA NextTypeInv == TypeInv /\ [Next]_vars => TypeInv'
<1> SUFFICES ASSUME TypeInv, [Next]_vars PROVE TypeInv'
    OBVIOUS
<1>0. /\ ClockType /\ CacheType /\ CleanType /\ HolderType /\ ClaimType /\ AlertType
      /\ AstrayType /\ KillType
    BY TypeParts
<1>n. now \in Times
    BY <1>0 DEF ClockType
<1>1. ClockType'
    BY <1>0, WhoChanges, BoundsOK DEF ClockType, Tick, Times
<1>2. CleanType'
    BY <1>0, <1>n, WhoChanges
    DEF CleanType, Cleaner, CleanTick, CleanConns, CleanAlerts, cleanVars
<1>3. CacheType'
    <2>1. alertCache' \in [Keys -> Times \cup {Never}]
        BY <1>0, <1>n, WhoChanges DEF CacheType, CleanAlerts, Prune, Claim, alertCacheVars,
           cacheVars
    <2>2. connCache' \in [Conns -> Times \cup {Never}]
        BY <1>0, <1>n, WhoChanges DEF CacheType, CleanConns, Prune, Dedup, connCacheVars,
           cacheVars
    <2> QED
        BY <2>1, <2>2 DEF CacheType
<1>4. HolderType'
    BY <1>0, WhoChanges DEF HolderType, ProcessExits, ProcessStarts, Kill, procVars
<1>5. ASSUME NEW w \in Workers, pc[w] # "idle"
      PROVE  /\ job[w] \in 1..MaxTaken /\ Ev(w) \in EventSet
             /\ Ev(w).rule # NoRule => Ev(w).rule \in Rules /\ Key(w) \in Keys
             /\ Ev(w).conn # NoConn => Ev(w).conn \in Conns
    BY <1>5, EventType DEF EventSet, Key, Keys
<1>6. ClaimType'
    <2>1. ASSUME NEW w \in Workers, Claim(w)
          PROVE  claims' \subseteq [n: 1..MaxTaken, key: Keys, at: Times]
        <3>1. pc[w] # "idle"
            BY <2>1 DEF Claim
        <3> QED
            BY <1>0, <1>n, <1>5, <2>1, <3>1 DEF Claim, ClaimType, cacheVars, alertCacheVars
    <2>2. ASSUME NEW w \in Workers, Dedup(w)
          PROVE  connClaims' \subseteq [n: 1..MaxTaken, key: Conns, at: Times]
        <3>1. pc[w] # "idle"
            BY <2>2 DEF Dedup
        <3> QED
            BY <1>0, <1>n, <1>5, <2>2, <3>1 DEF Dedup, ClaimType, cacheVars, connCacheVars
    <2>3. UNCHANGED claims \/ \E w \in Workers : Claim(w)
        BY WhoChanges DEF CleanAlerts, alertCacheVars
    <2>4. UNCHANGED connClaims \/ \E w \in Workers : Dedup(w)
        BY WhoChanges DEF CleanConns, connCacheVars
    <2> QED
        BY <1>0, <2>1, <2>2, <2>3, <2>4 DEF ClaimType
<1>7. AlertType'
    <2>1. ASSUME NEW w \in Workers, NEW rule \in Rules \cup Unsuppressed, pc[w] # "idle",
                 FireAlert(w, rule)
          PROVE  AlertType'
        <3>1. [n |-> job[w], rule |-> rule] \in Alerts
            BY <1>5, <2>1 DEF Alerts
        <3> QED
            BY <1>0, <2>1, <3>1 DEF FireAlert, AlertType
    <2>2. ASSUME NEW w \in Workers, TmpAlert(w) \/ ChainAlert(w) \/ PortAlert(w)
          PROVE  AlertType'
        <3>1. pc[w] # "idle"
            BY <2>2 DEF TmpAlert, ChainAlert, PortAlert, OwnAlert
        <3>2. PICK rule \in Unsuppressed : FireAlert(w, rule) \/ UNCHANGED alertVars
            BY <2>2 DEF TmpAlert, ChainAlert, PortAlert, OwnAlert, Unsuppressed
        <3> QED
            BY <1>0, <2>1, <3>1, <3>2 DEF alertVars, AlertType
    <2>3. ASSUME NEW w \in Workers, RuleAlert(w) PROVE AlertType'
        <3>1. pc[w] # "idle" /\ Ev(w).rule # NoRule /\ FireAlert(w, Ev(w).rule)
            BY <2>3 DEF RuleAlert, TypeInv, Busy
        <3> QED
            BY <1>5, <2>1, <3>1
    <2>4. CASE UNCHANGED alertVars
        BY <1>0, <2>4 DEF alertVars, AlertType
    <2> QED
        BY <2>2, <2>3, <2>4, WhoChanges
<1>8. KillType'
    <2>1. ASSUME NEW w \in Workers, Kill(w) PROVE KillType'
        <3>1. pc[w] # "idle" /\ job[w] \in 1..MaxTaken /\ Ev(w).pid \in Pids
            BY <1>5, <2>1 DEF Kill, EventSet
        <3>2. holder[Ev(w).pid] \in Procs \cup {NoProc}
            BY <1>0, <3>1 DEF HolderType
        <3> QED
            BY <1>0, <2>1, <3>1, <3>2 DEF Kill, KillType
    <2> QED
        BY <1>0, <2>1, WhoChanges DEF KillType
<1>9. AstrayType'
    <2>1. ASSUME NEW p PROVE StillToKill(p) \subseteq 1..Len(taken)
        BY EventType DEF StillToKill
    <2>2. astray' \subseteq 1..Len(taken)
        BY <1>0, <2>1, WhoChanges
        DEF AstrayType, ProcessExits, ProcessStarts, Kill, procVars
    <2> QED
        BY <2>2, HistoryGrows DEF AstrayType
<1> QED
    <2>1. WorkType'
        BY NextWorkType
    <2> QED
        BY <1>1, <1>2, <1>3, <1>4, <1>6, <1>7, <1>8, <1>9, <2>1 DEF TypeInv, TypeOK,
           ClockType, CacheType, CleanType, HolderType, WorkType, Labels, AstrayType, ClaimType,
           AlertType, KillType

LEMMA TypeInvariant == Spec => []TypeInv
    BY InitTypeInv, NextTypeInv, PTL DEF Spec

(* Every variable keeps its type, for any number of workers. *)
THEOREM TypeCorrect == Spec => []TypeOK
<1>1. TypeInv => TypeOK
    BY DEF TypeInv
<1> QED
    BY <1>1, TypeInvariant, PTL

-----------------------------------------------------------------------------
(* The windows. *)

(* A cache entry covers what it has to at time t: every claim is old or is  *)
(* not newer than the entry for its key.                                    *)
Covers(f, S, t) ==
    \A c \in S : c.at <= t /\ (t - c.at >= Window \/ (f[c.key] # Never /\ c.at <= f[c.key]))

(* A later time, a pruning and a claim keep a cache covering its claims.    *)
LEMMA TimePasses ==
    ASSUME NEW K, NEW f, NEW S, S \subseteq [n: Nat, key: K, at: Nat], NEW t \in Nat,
           Covers(f, S, t)
    PROVE  Covers(f, S, t + 1)
    BY TimesOK DEF Covers

LEMMA PruningCovers ==
    ASSUME NEW K, NEW f \in [K -> Int], NEW S, S \subseteq [n: Nat, key: K, at: Nat],
           NEW t \in Nat, NEW u \in Nat, u <= t, NEW keep \in Nat, keep >= Window,
           Covers(f, S, t)
    PROVE  Covers([k \in K |-> IF u - f[k] > keep THEN Never ELSE f[k]], S, t)
<1> DEFINE g == [k \in K |-> IF u - f[k] > keep THEN Never ELSE f[k]]
<1> SUFFICES ASSUME NEW c \in S, c.at <= t, ~(t - c.at >= Window)
             PROVE  g[c.key] # Never /\ c.at <= g[c.key]
    BY DEF Covers
<1>1. c.key \in K /\ c.at \in Nat /\ f[c.key] \in Int
    OBVIOUS
<1>2. f[c.key] # Never /\ c.at <= f[c.key]
    BY DEF Covers
<1>3. ~(u - f[c.key] > keep)
    BY <1>1, <1>2, TimesOK
<1> QED
    BY <1>1, <1>2, <1>3

LEMMA ClaimCovers ==
    ASSUME NEW K, NEW f \in [K -> Int], NEW S, S \subseteq [n: Nat, key: K, at: Nat],
           NEW t \in Nat, NEW k \in K, NEW m \in Nat,
           f[k] # Never => ~(t - f[k] < Window),
           Covers(f, S, t), Apart(S)
    PROVE  /\ Covers([f EXCEPT ![k] = t], S \cup {[n |-> m, key |-> k, at |-> t]}, t)
           /\ Apart(S \cup {[n |-> m, key |-> k, at |-> t]})
<1> DEFINE r == [n |-> m, key |-> k, at |-> t]
           g == [f EXCEPT ![k] = t]
<1>1. ASSUME NEW c \in S
      PROVE  c.key \in K /\ c.at \in Nat /\ f[c.key] \in Int /\ c.at <= t
    BY DEF Covers
<1>2. ASSUME NEW c \in S, c.key = k PROVE t - c.at >= Window
    BY <1>1, <1>2, TimesOK DEF Covers
<1>3. t # Never /\ r.key = k /\ r.at = t
    BY DEF Never
<1>4. ASSUME NEW c \in S \cup {r}
      PROVE  c.at <= t /\ (t - c.at >= Window \/ (g[c.key] # Never /\ c.at <= g[c.key]))
    <2>1. CASE c = r
        BY <1>3, <2>1
    <2>2. CASE c \in S /\ c.key = k
        BY <1>1, <1>2, <2>2
    <2>3. CASE c \in S /\ c.key # k
        <3>1. g[c.key] = f[c.key]
            BY <1>1, <2>3
        <3> QED
            BY <2>3, <3>1 DEF Covers
    <2> QED
        BY <1>4, <2>1, <2>2, <2>3
<1>5. ASSUME NEW c \in S \cup {r}, NEW d \in S \cup {r}, c.key = d.key, c # d
      PROVE  c.at - d.at >= Window \/ d.at - c.at >= Window
    <2>1. CASE c \in S /\ d \in S
        BY <1>5, <2>1 DEF Apart
    <2>2. CASE c = r /\ d \in S
        BY <1>2, <1>3, <1>5, <2>2
    <2>3. CASE d = r /\ c \in S
        BY <1>2, <1>3, <1>5, <2>3
    <2> QED
        BY <1>5, <2>1, <2>2, <2>3
<1> QED
    BY <1>4, <1>5 DEF Covers, Apart

WindowInv ==
    /\ OncePerWindow
    /\ Covers(alertCache, claims, now) /\ Covers(connCache, connClaims, now)
    /\ cleanAt <= now

LEMMA NextWindowInv == TypeInv /\ WindowInv /\ [Next]_vars => WindowInv'
<1> SUFFICES ASSUME TypeInv, WindowInv, [Next]_vars PROVE WindowInv'
    OBVIOUS
<1>1. now \in Nat /\ cleanAt \in Int /\ MaxTaken \in Nat /\ Never = -1
    BY BoundsOK DEF TypeInv, TypeOK, Times, Never
<1>2. claims \subseteq [n: Nat, key: Keys, at: Nat] /\ connClaims \subseteq [n: Nat, key: Conns, at: Nat]
    BY BoundsOK DEF TypeInv, TypeOK, Times
<1>3. alertCache \in [Keys -> Int] /\ connCache \in [Conns -> Int]
    BY BoundsOK DEF TypeInv, TypeOK, Times, Never
<1>4. cleanAt # Never => cleanAt \in Nat
    BY DEF TypeInv, TypeOK, Times
<1>5. /\ Apart(claims) /\ Apart(connClaims)
      /\ Covers(alertCache, claims, now) /\ Covers(connCache, connClaims, now)
      /\ cleanAt <= now
    BY DEF WindowInv, OncePerWindow
<1>6. CASE Tick
    <2>1. now' = now + 1 /\ UNCHANGED <<alertCache, connCache, claims, connClaims, cleanAt>>
        BY <1>6 DEF Tick, cacheVars, alertCacheVars, connCacheVars, cleanVars
    <2>2. Covers(alertCache, claims, now + 1)
        BY <1>1, <1>2, <1>5, TimePasses
    <2>3. Covers(connCache, connClaims, now + 1)
        BY <1>1, <1>2, <1>5, TimePasses
    <2>4. cleanAt <= now + 1
        BY <1>1, <1>5
    <2> QED
        BY <1>5, <2>1, <2>2, <2>3, <2>4 DEF WindowInv, OncePerWindow, Covers, Apart
<1>7. CASE UNCHANGED now
    <2>1. cleanAt' <= now'
        BY <1>1, <1>5, <1>7, WhoChanges DEF Cleaner, CleanTick, CleanConns, CleanAlerts, cleanVars
    <2>2. Covers(alertCache', claims', now') /\ Apart(claims')
        <3>1. CASE CleanAlerts
            <4>1. alertCache' = [k \in Keys |-> IF cleanAt - alertCache[k] > KeepAlert
                                                THEN Never ELSE alertCache[k]]
                BY <1>3, <3>1 DEF CleanAlerts, Prune
            <4>2. cleanAt \in Nat /\ claims' = claims
                BY <1>4, <3>1 DEF CleanAlerts
            <4>3. Covers(alertCache', claims, now)
                BY <1>1, <1>2, <1>3, <1>5, <4>1, <4>2, TimesOK, PruningCovers
            <4> QED
                BY <1>5, <1>7, <4>2, <4>3
        <3>2. ASSUME NEW w \in Workers, Claim(w)
              PROVE  Covers(alertCache', claims', now') /\ Apart(claims')
            <4>1. CASE UNCHANGED cacheVars
                BY <1>5, <1>7, <4>1 DEF cacheVars, alertCacheVars
            <4>2. CASE /\ Ev(w).rule # NoRule /\ ~Recent(alertCache[Key(w)])
                       /\ alertCache' = [alertCache EXCEPT ![Key(w)] = now]
                       /\ claims' = claims \cup {[n |-> job[w], key |-> Key(w), at |-> now]}
                <5>1. job[w] \in Nat /\ Key(w) \in Keys
                    <6>1. pc[w] # "idle"
                        BY <3>2 DEF Claim
                    <6> QED
                        BY <4>2, <6>1, EventType DEF EventSet, Key, Keys
                <5>2. alertCache[Key(w)] # Never => ~(now - alertCache[Key(w)] < Window)
                    BY <4>2 DEF Recent
                <5>3. Covers(alertCache', claims', now) /\ Apart(claims')
                    BY <1>1, <1>2, <1>3, <1>5, <4>2, <5>1, <5>2, ClaimCovers
                <5> QED
                    BY <1>7, <5>3
            <4> QED
                BY <3>2, <4>1, <4>2 DEF Claim
        <3>3. CASE UNCHANGED alertCacheVars
            BY <1>5, <1>7, <3>3 DEF alertCacheVars
        <3> QED
            BY <3>1, <3>2, <3>3, WhoChanges
    <2>3. Covers(connCache', connClaims', now') /\ Apart(connClaims')
        <3>1. CASE CleanConns
            <4>1. connCache' = [k \in Conns |-> IF cleanAt - connCache[k] > Window
                                                THEN Never ELSE connCache[k]]
                BY <1>3, <3>1 DEF CleanConns, Prune
            <4>2. cleanAt \in Nat /\ connClaims' = connClaims
                BY <1>4, <3>1 DEF CleanConns
            <4>3. Window \in Nat /\ Window >= Window
                BY TimesOK
            <4>4. Covers(connCache', connClaims, now)
                <5>1. connCache \in [Conns -> Int] /\ Covers(connCache, connClaims, now)
                    BY <1>3, <1>5
                <5>2. connClaims \subseteq [n: Nat, key: Conns, at: Nat]
                    BY <1>2
                <5>3. now \in Nat /\ cleanAt \in Nat /\ cleanAt <= now
                    BY <1>1, <1>5, <4>2
                <5>4. Covers([k \in Conns |-> IF cleanAt - connCache[k] > Window
                                              THEN Never ELSE connCache[k]], connClaims, now)
                    BY <4>3, <5>1, <5>2, <5>3, PruningCovers
                <5> QED
                    BY <4>1, <5>4
            <4> QED
                BY <1>5, <1>7, <4>2, <4>4
        <3>2. ASSUME NEW w \in Workers, Dedup(w)
              PROVE  Covers(connCache', connClaims', now') /\ Apart(connClaims')
            <4>1. CASE UNCHANGED cacheVars
                BY <1>5, <1>7, <4>1 DEF cacheVars, connCacheVars
            <4>2. CASE /\ Ev(w).conn # NoConn /\ ~Recent(connCache[Ev(w).conn])
                       /\ connCache' = [connCache EXCEPT ![Ev(w).conn] = now]
                       /\ connClaims' = connClaims \cup
                              {[n |-> job[w], key |-> Ev(w).conn, at |-> now]}
                <5>1. job[w] \in Nat /\ Ev(w).conn \in Conns
                    <6>1. pc[w] # "idle"
                        BY <3>2 DEF Dedup
                    <6> QED
                        BY <4>2, <6>1, EventType DEF EventSet
                <5>2. connCache[Ev(w).conn] # Never => ~(now - connCache[Ev(w).conn] < Window)
                    BY <4>2 DEF Recent
                <5>3. Covers(connCache', connClaims', now) /\ Apart(connClaims')
                    BY <1>1, <1>2, <1>3, <1>5, <4>2, <5>1, <5>2, ClaimCovers
                <5> QED
                    BY <1>7, <5>3
            <4> QED
                BY <3>2, <4>1, <4>2 DEF Dedup
        <3>3. CASE UNCHANGED connCacheVars
            BY <1>5, <1>7, <3>3 DEF connCacheVars
        <3> QED
            BY <3>1, <3>2, <3>3, WhoChanges
    <2> QED
        BY <2>1, <2>2, <2>3 DEF WindowInv, OncePerWindow, Covers, Apart
<1> QED
    BY <1>6, <1>7, WhoChanges

(* For any number of workers and any window the cleaner respects, a rule    *)
(* passes suppressAlert for a pod, and a connection the connection cache,   *)
(* once per window at most.                                                 *)
THEOREM OncePerWindowCorrect == Spec => []OncePerWindow
<1>1. Init => WindowInv
    BY DEF Init, WindowInv, OncePerWindow, Apart, Covers, Never
<1>2. WindowInv => OncePerWindow
    BY DEF WindowInv
<1> QED
    BY <1>1, <1>2, InitTypeInv, NextTypeInv, NextWindowInv, PTL DEF Spec

-----------------------------------------------------------------------------
(* Kills. *)

Claimed(S, n, e) == \E c \in S : c.n = n /\ c.key = <<e.rule, e.pod>>
Reported(S, n, e) == \E a \in S : a.n = n /\ a.rule = e.rule

(* What a worker has behind it when it comes to raise an alert and to kill. *)
PathInv ==
    \A w \in Workers :
        /\ pc[w] \in {"allow", "fire", "kill"} => Claimed(claims, job[w], Ev(w))
        /\ pc[w] = "kill" => /\ KillWanted(Ev(w))
                             /\ mode # "detect" => Reported(sent, job[w], Ev(w))

(* A worker moves by its own action. *)
LEMMA WhoMoves ==
    ASSUME TypeInv, [Next]_vars, NEW w \in Workers
    PROVE  \/ pc'[w] = pc[w] /\ job'[w] = job[w]
           \/ pc'[w] \in {"tmp", "claim", "dedup"} /\ pc[w] = "idle"
           \/ TmpAlert(w) \/ ChainAlert(w) \/ Dedup(w) \/ PortAlert(w) \/ Claim(w)
           \/ AllowCheck(w) \/ RuleAlert(w) \/ Kill(w) \/ Finish(w)
<1>0. pc \in [Workers -> Labels] /\ job \in [Workers -> 0..Len(taken)]
    BY TypeParts DEF WorkType
<1>1. ASSUME NEW v \in Workers, NEW e \in Events, Take(v, e)
      PROVE  \/ pc'[w] = pc[w] /\ job'[w] = job[w]
             \/ pc'[w] \in {"tmp", "claim", "dedup"} /\ pc[w] = "idle"
    <2>1. pc' = [pc EXCEPT ![v] = pc'[v]] /\ pc'[v] \in {"tmp", "claim", "dedup"}
        BY <1>0, <1>1, EventsOK DEF Take, Goto, EventSet
    <2>2. pc[v] = "idle" /\ job' = [job EXCEPT ![v] = job'[v]]
        BY <1>0, <1>1 DEF Take
    <2> QED
        BY <1>0, <2>1, <2>2
<1>2. ASSUME NEW v \in Workers, v # w, Handler(v)
      PROVE  pc'[w] = pc[w] /\ job'[w] = job[w]
    <2>1. CASE TmpAlert(v) \/ ChainAlert(v) \/ PortAlert(v) \/ Dedup(v) \/ Claim(v)
        BY <1>0, <1>2, <2>1 DEF TmpAlert, ChainAlert, PortAlert, OwnAlert, Dedup, Claim, Goto,
           workRest
    <2>2. CASE AllowCheck(v) \/ RuleAlert(v) \/ Kill(v) \/ Finish(v)
        BY <1>0, <1>2, <2>2 DEF AllowCheck, RuleAlert, Kill, Finish, Goto, workRest
    <2> QED
        BY <1>2, <2>1, <2>2 DEF Handler
<1> QED
    BY <1>1, <1>2, WhoChanges DEF Handler

LEMMA NextPathInv == TypeInv /\ PathInv /\ [Next]_vars => PathInv'
<1> SUFFICES ASSUME TypeInv, PathInv, [Next]_vars, NEW w \in Workers,
                    pc'[w] \in {"allow", "fire", "kill"}
             PROVE  /\ Claimed(claims', job'[w], Ev(w)')
                    /\ pc'[w] = "kill" => /\ KillWanted(Ev(w)')
                                          /\ mode # "detect" => Reported(sent', job'[w], Ev(w)')
    BY HistoryGrows DEF PathInv, KillWanted
<1>0. pc \in [Workers -> Labels] /\ job \in [Workers -> 0..Len(taken)]
    BY TypeParts DEF WorkType
<1>1. CASE pc'[w] = pc[w] /\ job'[w] = job[w]
    <2>1. job[w] \in 1..Len(taken)
        BY <1>1, EventType
    <2>2. Ev(w)' = Ev(w)
        BY <1>1, <2>1, HistoryGrows DEF Ev
    <2>3. Claimed(claims, job[w], Ev(w))
        BY <1>1 DEF PathInv
    <2>4. pc[w] = "kill" => KillWanted(Ev(w)) /\ (mode # "detect" => Reported(sent, job[w], Ev(w)))
        BY DEF PathInv
    <2> QED
        BY <1>1, <2>2, <2>3, <2>4, HistoryGrows DEF Claimed, Reported
<1>2. CASE Claim(w)
    <2>1. /\ claims' = claims \cup {[n |-> job[w], key |-> Key(w), at |-> now]}
          /\ pc'[w] # "kill" /\ UNCHANGED <<job, taken>>
        BY <1>0, <1>2 DEF Claim, Goto, workRest
    <2>2. [n |-> job[w], key |-> Key(w), at |-> now] \in claims'
        BY <2>1
    <2> QED
        BY <2>1, <2>2 DEF Claimed, Key, Ev
<1>3. CASE AllowCheck(w)
    <2>1. pc[w] = "allow" /\ pc'[w] # "kill" /\ UNCHANGED <<job, taken>>
        BY <1>0, <1>3 DEF AllowCheck, Goto, workRest
    <2>2. Claimed(claims, job[w], Ev(w))
        BY <2>1 DEF PathInv
    <2> QED
        BY <2>1, <2>2, HistoryGrows DEF Claimed, Ev
<1>4. CASE RuleAlert(w)
    <2>1. /\ pc[w] = "fire" /\ KillWanted(Ev(w)) /\ UNCHANGED <<job, taken>>
          /\ mode # "detect" =>
                sent' = sent \cup {[n |-> job[w], rule |-> Ev(w).rule]}
        BY <1>0, <1>4 DEF RuleAlert, FireAlert, Goto, workRest
    <2>2. Claimed(claims, job[w], Ev(w))
        BY <2>1 DEF PathInv
    <2>3. mode # "detect" => [n |-> job[w], rule |-> Ev(w).rule] \in sent'
        BY <2>1
    <2> QED
        BY <2>1, <2>2, <2>3, HistoryGrows DEF Claimed, Reported, Ev
<1>5. \/ pc'[w] = pc[w] /\ job'[w] = job[w]
      \/ Claim(w) \/ AllowCheck(w) \/ RuleAlert(w)
    <2>1. ASSUME TmpAlert(w) \/ ChainAlert(w) \/ PortAlert(w) \/ Dedup(w) PROVE FALSE
        BY <1>0, <2>1 DEF TmpAlert, ChainAlert, PortAlert, OwnAlert, Dedup, Goto
    <2>2. ASSUME Kill(w) \/ Finish(w) PROVE FALSE
        BY <1>0, <2>2 DEF Kill, Finish, Goto
    <2> QED
        BY <2>1, <2>2, WhoMoves
<1> QED
    BY <1>1, <1>2, <1>3, <1>4, <1>5

-----------------------------------------------------------------------------
(* The allowlist. *)

MayRespond(e) == e.kind = "exec" => ~IsAllowed(e)

(* Past AllowCheck an exec event is not on the allowlist, and so neither    *)
(* what raised a rule's alert nor what had something killed.                *)
AllowInv ==
    /\ \A w \in Workers : pc[w] \in {"fire", "kill"} => MayRespond(Ev(w))
    /\ \A a \in fired :
          /\ a.n \in 1..Len(taken)
          /\ a.rule \in Unsuppressed \/ MayRespond(taken[a.n].ev)
    /\ \A k \in kills : k.n \in 1..Len(taken) /\ MayRespond(taken[k.n].ev)

LEMMA NextAllowInv == TypeInv /\ AllowInv /\ [Next]_vars => AllowInv'
<1> SUFFICES ASSUME TypeInv, AllowInv, [Next]_vars PROVE AllowInv'
    OBVIOUS
<1>0. pc \in [Workers -> Labels] /\ job \in [Workers -> 0..Len(taken)]
    BY TypeParts DEF WorkType
<1>1. ASSUME NEW n \in 1..Len(taken), MayRespond(taken[n].ev)
      PROVE  n \in 1..Len(taken') /\ MayRespond(taken'[n].ev)
    BY <1>1, HistoryGrows
<1>2. ASSUME NEW w \in Workers, pc'[w] \in {"fire", "kill"} PROVE MayRespond(Ev(w)')
    <2>1. CASE pc[w] \in {"fire", "kill"} /\ job'[w] = job[w]
        <3>1. job[w] \in 1..Len(taken)
            BY <2>1, EventType
        <3>2. Ev(w)' = Ev(w)
            BY <2>1, <3>1, HistoryGrows DEF Ev
        <3> QED
            BY <2>1, <3>2 DEF AllowInv
    <2>2. CASE AllowCheck(w)
        BY <1>0, <1>2, <2>2 DEF AllowCheck, Goto, workRest, MayRespond, Ev
    <2>3. CASE Claim(w)
        BY <1>0, <1>2, <2>3 DEF Claim, Goto, workRest, MayRespond, Ev
    <2>4. CASE RuleAlert(w)
        BY <1>0, <2>1, <2>4 DEF RuleAlert, workRest
    <2>5. CASE pc'[w] = pc[w] /\ job'[w] = job[w]
        BY <1>2, <2>1, <2>5
    <2>6. CASE TmpAlert(w) \/ ChainAlert(w) \/ Dedup(w) \/ PortAlert(w)
        BY <1>0, <1>2, <2>6 DEF TmpAlert, ChainAlert, PortAlert, OwnAlert, Dedup, Goto
    <2>7. CASE Kill(w) \/ Finish(w)
        BY <1>0, <1>2, <2>7 DEF Kill, Finish, Goto
    <2> QED
        BY <1>2, <2>2, <2>3, <2>4, <2>5, <2>6, <2>7, WhoMoves
<1>3. ASSUME NEW a \in fired'
      PROVE  a.n \in 1..Len(taken') /\ (a.rule \in Unsuppressed \/ MayRespond(taken'[a.n].ev))
    <2>1. CASE a \in fired
        BY <1>1, <2>1, HistoryGrows DEF AllowInv
    <2>2. ASSUME NEW w \in Workers, TmpAlert(w) \/ ChainAlert(w) \/ PortAlert(w), a \notin fired
          PROVE  a.n = job[w] /\ pc[w] # "idle" /\ a.rule \in Unsuppressed
        BY <2>2 DEF TmpAlert, ChainAlert, PortAlert, OwnAlert, FireAlert, alertVars, Unsuppressed
    <2>3. ASSUME NEW w \in Workers, RuleAlert(w), a \notin fired
          PROVE  a.n = job[w] /\ pc[w] = "fire"
        BY <2>3 DEF RuleAlert, FireAlert
    <2>4. ASSUME NEW w \in Workers, pc[w] = "fire"
          PROVE  MayRespond(taken[job[w]].ev)
        BY <2>4 DEF AllowInv, Ev
    <2>5. ASSUME NEW w \in Workers, pc[w] # "idle" PROVE job[w] \in 1..Len(taken)
        BY <2>5, EventType
    <2> QED
        BY <1>1, <2>1, <2>2, <2>3, <2>4, <2>5, HistoryGrows, WhoChanges DEF alertVars
<1>4. ASSUME NEW k \in kills' PROVE k.n \in 1..Len(taken') /\ MayRespond(taken'[k.n].ev)
    <2>1. CASE k \in kills
        BY <1>1, <2>1 DEF AllowInv
    <2>2. ASSUME NEW w \in Workers, Kill(w), k \notin kills
          PROVE  k.n \in 1..Len(taken) /\ MayRespond(taken[k.n].ev)
        <3>1. k.n = job[w] /\ pc[w] = "kill"
            BY <2>2 DEF Kill
        <3> QED
            BY <3>1, EventType DEF AllowInv, Ev
    <2> QED
        BY <1>1, <2>1, <2>2, WhoChanges
<1> QED
    BY <1>2, <1>3, <1>4 DEF AllowInv

(* What the allowlist covers of the exec events raises no rule's alert and  *)
(* has nothing killed.                                                      *)
THEOREM ExecAllowlistCorrect == Spec => []ExecAllowlist
<1>1. Init => AllowInv
    BY DEF Init, AllowInv
<1>2. AllowInv => ExecAllowlist
    BY DEF AllowInv, ExecAllowlist, MayRespond
<1> QED
    BY <1>1, <1>2, InitTypeInv, NextTypeInv, NextAllowInv, PTL DEF Spec

-----------------------------------------------------------------------------
(* Silence. *)

Matching(n) == taken[n].ev.rule # NoRule /\ taken[n].ev.kind # "connect"
Answers(c, n) ==
    c.key = <<taken[n].ev.rule, taken[n].ev.pod>> /\ c.at > taken[n].at - Window

(* An entry of the cache is a claim's, and an event that matched a rule is  *)
(* answered by a claim or still on its way to the cache.                    *)
SilenceInv ==
    /\ \A k \in Keys : alertCache[k] # Never =>
          \E c \in claims : c.key = k /\ c.at = alertCache[k]
    /\ \A n \in 1..Len(taken) :
          /\ taken[n].at <= now
          /\ Matching(n) =>
                \/ \E c \in claims : Answers(c, n)
                \/ \E w \in Workers : job[w] = n /\ pc[w] \in {"tmp", "chain", "claim"}

LEMMA NextSilenceInv == TypeInv /\ SilenceInv /\ [Next]_vars => SilenceInv'
<1> SUFFICES ASSUME TypeInv, SilenceInv, [Next]_vars PROVE SilenceInv'
    OBVIOUS
<1>0. /\ pc \in [Workers -> Labels] /\ job \in [Workers -> 0..Len(taken)]
      /\ taken \in Seq([ev: Events, at: Times]) /\ now \in Times
      /\ alertCache \in [Keys -> Times \cup {Never}]
      /\ claims \subseteq [n: 1..MaxTaken, key: Keys, at: Times]
    BY TypeParts DEF WorkType, ClockType, CacheType, ClaimType
<1>t. Times \subseteq Nat /\ now <= now'
    BY <1>0, WhoChanges, BoundsOK DEF Times, Tick
<1>1. ASSUME NEW k \in Keys, alertCache'[k] # Never
      PROVE  \E c \in claims' : c.key = k /\ c.at = alertCache'[k]
    <2>1. CASE UNCHANGED alertCacheVars
        BY <1>1, <2>1 DEF alertCacheVars, SilenceInv
    <2>2. CASE CleanAlerts
        <3>1. alertCache'[k] = alertCache[k] /\ claims' = claims
            BY <1>0, <1>1, <2>2 DEF CleanAlerts, Prune
        <3> QED
            BY <1>1, <3>1 DEF SilenceInv
    <2>3. ASSUME NEW w \in Workers, Claim(w), ~UNCHANGED alertCacheVars
          PROVE  \E c \in claims' : c.key = k /\ c.at = alertCache'[k]
        <3>1. /\ alertCache' = [alertCache EXCEPT ![Key(w)] = now]
              /\ claims' = claims \cup {[n |-> job[w], key |-> Key(w), at |-> now]}
            BY <2>3 DEF Claim, cacheVars
        <3>2. CASE k = Key(w)
            <4>1. alertCache'[k] = now
                BY <1>0, <3>1, <3>2
            <4>2. [n |-> job[w], key |-> Key(w), at |-> now] \in claims'
                BY <3>1
            <4> QED
                BY <3>2, <4>1, <4>2
        <3>3. CASE k # Key(w)
            <4>1. alertCache'[k] = alertCache[k]
                BY <1>0, <3>1, <3>3
            <4>2. PICK c \in claims : c.key = k /\ c.at = alertCache[k]
                BY <1>1, <4>1 DEF SilenceInv
            <4> QED
                BY <3>1, <4>1, <4>2
        <3> QED
            BY <3>2, <3>3
    <2> QED
        BY <2>1, <2>2, <2>3, WhoChanges
<1>2. ASSUME NEW n \in 1..Len(taken)
      PROVE  taken'[n] = taken[n] /\ n \in 1..Len(taken') /\ taken[n].at <= now
             /\ taken[n].at \in Nat /\ taken[n].ev \in EventSet
    <2>1. taken[n] \in [ev: Events, at: Times]
        BY <1>0, ElementOf
    <2> QED
        BY <1>t, <2>1, HistoryGrows, EventsOK DEF SilenceInv
<1>3. \/ taken' = taken
      \/ \E w \in Workers, e \in Events : Take(w, e)
    <2>1. ASSUME NEW w \in Workers, Handler(w) PROVE taken' = taken
        BY <2>1 DEF Handler, TmpAlert, ChainAlert, Dedup, PortAlert, OwnAlert, Claim, AllowCheck,
           RuleAlert, Kill, Finish, workRest
    <2> QED
        BY <2>1, WhoChanges
<1>4. ASSUME NEW n \in 1..Len(taken), Matching(n)
      PROVE  \/ \E c \in claims' : Answers(c, n)
             \/ \E w \in Workers : job'[w] = n /\ pc'[w] \in {"tmp", "chain", "claim"}
    <2>1. CASE \E c \in claims : Answers(c, n)
        BY <2>1, HistoryGrows
    <2>2. ASSUME NEW w \in Workers, job[w] = n, pc[w] \in {"tmp", "chain", "claim"}
          PROVE  \/ \E c \in claims' : Answers(c, n)
                 \/ job'[w] = n /\ pc'[w] \in {"tmp", "chain", "claim"}
        <3>1. CASE pc'[w] = pc[w] /\ job'[w] = job[w]
            BY <2>2, <3>1
        <3>2. CASE TmpAlert(w)
            BY <1>0, <2>2, <3>2 DEF TmpAlert, OwnAlert, Goto, workRest
        <3>3. CASE ChainAlert(w)
            BY <1>0, <2>2, <3>3 DEF ChainAlert, OwnAlert, Goto, workRest
        <3>4. CASE Claim(w)
            <4>1. /\ Key(w) = <<taken[n].ev.rule, taken[n].ev.pod>> /\ Key(w) \in Keys
                  /\ Ev(w).rule # NoRule
                BY <1>2, <1>4, <2>2 DEF Key, Keys, Ev, Matching, EventSet
            <4>2. CASE Recent(alertCache[Key(w)])
                <5>1. PICK c \in claims : c.key = Key(w) /\ c.at = alertCache[Key(w)]
                    BY <4>1, <4>2 DEF SilenceInv, Recent
                <5>2. c.at \in Nat /\ now - c.at < Window /\ now \in Nat
                    BY <1>0, <1>t, <4>2, <5>1 DEF Recent
                <5>3. c.at > taken[n].at - Window
                    BY <1>2, <5>2, TimesOK
                <5> QED
                    BY <4>1, <5>1, <5>3, HistoryGrows DEF Answers
            <4>3. CASE ~Recent(alertCache[Key(w)])
                <5>1. claims' = claims \cup {[n |-> job[w], key |-> Key(w), at |-> now]}
                    BY <3>4, <4>1, <4>3 DEF Claim
                <5>2. [n |-> job[w], key |-> Key(w), at |-> now] \in claims'
                    BY <5>1
                <5>3. now > taken[n].at - Window
                    BY <1>0, <1>t, <1>2, TimesOK
                <5> QED
                    BY <4>1, <5>2, <5>3 DEF Answers
            <4> QED
                BY <4>2, <4>3
        <3>5. CASE AllowCheck(w) \/ RuleAlert(w) \/ Kill(w) \/ Finish(w) \/ Dedup(w) \/ PortAlert(w)
            BY <2>2, <3>5 DEF AllowCheck, RuleAlert, Kill, Finish, Dedup, PortAlert, OwnAlert
        <3> QED
            BY <2>2, <3>1, <3>2, <3>3, <3>4, <3>5, WhoMoves
    <2> QED
        BY <1>4, <2>1, <2>2 DEF SilenceInv
<1>5. ASSUME NEW w \in Workers, NEW e \in Events, Take(w, e), NEW n \in 1..Len(taken'),
             n \notin 1..Len(taken)
      PROVE  /\ taken'[n].at <= now'
             /\ Matching(n)' => job'[w] = n /\ pc'[w] \in {"tmp", "chain", "claim"}
    <2>1. taken' = Append(taken, [ev |-> e, at |-> now]) /\ [ev |-> e, at |-> now] \in [ev: Events, at: Times]
        BY <1>0, <1>5 DEF Take
    <2>2. n = Len(taken) + 1 /\ taken'[n] = [ev |-> e, at |-> now] /\ Len(taken) \in Nat
        BY <1>0, <1>5, <2>1
    <2>3. job'[w] = n
        BY <1>0, <1>5, <2>2 DEF Take
    <2>4. e.kind # "connect" => pc'[w] \in {"tmp", "claim"}
        BY <1>0, <1>5, EventsOK DEF Take, Goto, EventSet
    <2> QED
        BY <1>0, <1>t, <2>2, <2>3, <2>4 DEF Matching
<1>6. ASSUME NEW n \in 1..Len(taken')
      PROVE  /\ taken'[n].at <= now'
             /\ Matching(n)' =>
                  \/ \E c \in claims' : Answers(c, n)'
                  \/ \E w \in Workers : job'[w] = n /\ pc'[w] \in {"tmp", "chain", "claim"}
    <2>1. CASE n \in 1..Len(taken)
        <3>1. taken'[n] = taken[n] /\ taken[n].at <= now /\ taken[n].at \in Nat
            BY <1>2, <2>1
        <3>2. Matching(n)' <=> Matching(n)
            BY <3>1 DEF Matching
        <3>3. \A c \in claims' : Answers(c, n)' <=> Answers(c, n)
            BY <3>1 DEF Answers
        <3>4. taken'[n].at <= now'
            BY <1>0, <1>t, <3>1, WhoChanges DEF Tick
        <3> QED
            BY <1>4, <2>1, <3>2, <3>3, <3>4
    <2>2. CASE n \notin 1..Len(taken)
        BY <1>3, <1>5, <2>2
    <2> QED
        BY <2>1, <2>2
<1> QED
    BY <1>1, <1>6 DEF SilenceInv, Answers

(* An event that matched a rule and is through was answered by a claim that *)
(* is less than a window older than it, or younger.                         *)
THEOREM SilenceIsShortCorrect == Spec => []SilenceIsShort
<1>1. Init => SilenceInv
    BY DEF Init, SilenceInv, Never
<1>2. TypeInv /\ SilenceInv => SilenceIsShort
    BY DEF SilenceInv, SilenceIsShort, Handled, Matching, Answers
<1> QED
    BY <1>1, <1>2, InitTypeInv, NextTypeInv, NextSilenceInv, PTL DEF Spec
-----------------------------------------------------------------------------
(* The caches implement Suppression. *)

(* Where the events in the handlers have come from, and what they have not  *)
(* done yet: each is judged by one worker, once.                            *)
JudgeInv ==
    /\ \A c \in Conns : connCache[c] # Never =>
          \E p \in connClaims : p.key = c /\ p.at = connCache[c]
    /\ \A w, v \in Workers : job[w] # 0 /\ job[w] = job[v] => w = v
    /\ \A c \in claims \cup connClaims : c.n \in 1..Len(taken)
    /\ \A w \in Workers :
          /\ pc[w] \in ToClaim => ~Passed(job[w], claims)
          /\ pc[w] = "dedup" => ~Passed(job[w], connClaims)
          /\ pc[w] \in {"dedup", "port"} => Ev(w).kind = "connect"
          /\ pc[w] \in {"tmp", "chain"} => Ev(w).kind = "exec"
          /\ pc[w] \in {"port", "claim"} /\ Ev(w).kind = "connect" => Passed(job[w], connClaims)
          /\ pc[w] = "claim" /\ Ev(w).kind = "connect" => Ev(w).conn \notin PrivateConns

(* The actions of a worker, by what they do to its own job and label.       *)
LEMMA HandlerMoves ==
    ASSUME TypeInv, NEW w \in Workers, Handler(w)
    PROVE  /\ pc[w] # "idle" /\ taken' = taken
           /\ job' = [job EXCEPT ![w] = job'[w]] /\ pc' = [pc EXCEPT ![w] = pc'[w]]
           /\ job'[w] = job[w] \/ (job'[w] = 0 /\ pc[w] = "finish" /\ pc'[w] = "idle")
<1>0. pc \in [Workers -> Labels] /\ job \in [Workers -> 0..Len(taken)]
    BY TypeParts DEF WorkType
<1>1. CASE TmpAlert(w) \/ ChainAlert(w) \/ PortAlert(w)
    BY <1>0, <1>1 DEF TmpAlert, ChainAlert, PortAlert, OwnAlert, Goto, workRest
<1>2. CASE Dedup(w)
    BY <1>0, <1>2 DEF Dedup, Goto, workRest
<1>3. CASE Claim(w)
    BY <1>0, <1>3 DEF Claim, Goto, workRest
<1>4. CASE AllowCheck(w) \/ RuleAlert(w) \/ Kill(w)
    BY <1>0, <1>4 DEF AllowCheck, RuleAlert, Kill, Goto, workRest
<1>5. CASE Finish(w)
    BY <1>0, <1>5 DEF Finish, Goto
<1> QED
    BY <1>1, <1>2, <1>3, <1>4, <1>5 DEF Handler

LEMMA TakeMoves ==
    ASSUME TypeInv, NEW w \in Workers, NEW e \in Events, Take(w, e)
    PROVE  /\ pc[w] = "idle" /\ e \in EventSet
           /\ job' = [job EXCEPT ![w] = Len(taken) + 1] /\ job'[w] = Len(taken) + 1
           /\ pc' = [pc EXCEPT ![w] = pc'[w]]
           /\ \/ e.kind = "exec" /\ pc'[w] = "tmp"
              \/ e.kind = "file" /\ pc'[w] = "claim"
              \/ e.kind = "connect" /\ pc'[w] = "dedup"
           /\ Len(taken') = Len(taken) + 1 /\ Len(taken) \in Nat
           /\ taken'[Len(taken) + 1] = [ev |-> e, at |-> now]
           /\ \A n \in 1..Len(taken) : taken'[n] = taken[n]
           /\ claims' = claims /\ connClaims' = connClaims
<1>0. /\ pc \in [Workers -> Labels] /\ job \in [Workers -> 0..Len(taken)]
      /\ taken \in Seq([ev: Events, at: Times]) /\ now \in Times
    BY TypeParts DEF WorkType, ClockType
<1>1. pc[w] = "idle" /\ e \in EventSet /\ e.kind \in {"exec", "file", "connect"}
    BY EventsOK DEF Take, EventSet
<1>2. job' = [job EXCEPT ![w] = Len(taken) + 1] /\ job'[w] = Len(taken) + 1
    BY <1>0 DEF Take
<1>3. /\ pc' = [pc EXCEPT ![w] = pc'[w]]
      /\ \/ e.kind = "exec" /\ pc'[w] = "tmp"
         \/ e.kind = "file" /\ pc'[w] = "claim"
         \/ e.kind = "connect" /\ pc'[w] = "dedup"
    BY <1>0, <1>1 DEF Take, Goto
<1>4. taken' = Append(taken, [ev |-> e, at |-> now]) /\ [ev |-> e, at |-> now] \in [ev: Events, at: Times]
    BY <1>0 DEF Take
<1>5. claims' = claims /\ connClaims' = connClaims
    BY DEF Take, cacheVars, alertCacheVars, connCacheVars
<1> QED
    BY <1>0, <1>1, <1>2, <1>3, <1>4, <1>5

LEMMA NextJudgeInv == TypeInv /\ JudgeInv /\ [Next]_vars => JudgeInv'
<1> SUFFICES ASSUME TypeInv, JudgeInv, [Next]_vars PROVE JudgeInv'
    OBVIOUS
<1>0. /\ pc \in [Workers -> Labels] /\ job \in [Workers -> 0..Len(taken)]
      /\ taken \in Seq([ev: Events, at: Times]) /\ Len(taken) \in Nat
      /\ connCache \in [Conns -> Times \cup {Never}]
    BY TypeParts DEF WorkType, CacheType
<1>1. ASSUME NEW c \in Conns, connCache'[c] # Never
      PROVE  \E p \in connClaims' : p.key = c /\ p.at = connCache'[c]
    <2>1. CASE UNCHANGED connCacheVars
        BY <1>1, <2>1 DEF connCacheVars, JudgeInv
    <2>2. CASE CleanConns
        <3>1. connCache'[c] = connCache[c] /\ connClaims' = connClaims
            BY <1>0, <1>1, <2>2 DEF CleanConns, Prune
        <3> QED
            BY <1>1, <3>1 DEF JudgeInv
    <2>3. ASSUME NEW w \in Workers, Dedup(w), ~UNCHANGED connCacheVars
          PROVE  \E p \in connClaims' : p.key = c /\ p.at = connCache'[c]
        <3> DEFINE r == [n |-> job[w], key |-> Ev(w).conn, at |-> now]
        <3>1. connCache' = [connCache EXCEPT ![Ev(w).conn] = now] /\ connClaims' = connClaims \cup {r}
            BY <2>3 DEF Dedup, cacheVars
        <3>2. CASE c = Ev(w).conn
            <4>1. connCache'[c] = now /\ r.key = c /\ r.at = now
                BY <1>0, <3>1, <3>2
            <4> QED
                BY <3>1, <4>1
        <3>3. CASE c # Ev(w).conn
            <4>1. connCache'[c] = connCache[c]
                BY <1>0, <3>1, <3>3
            <4> QED
                BY <1>1, <3>1, <4>1 DEF JudgeInv
        <3> QED
            BY <3>2, <3>3
    <2> QED
        BY <2>1, <2>2, <2>3, WhoChanges
<1>2. CASE UNCHANGED <<taken, job, pc>>
    <2>1. claims' = claims
        BY <1>0, <1>2, WhoChanges DEF alertCacheVars, cacheVars, CleanAlerts, Claim, Goto
    <2>2. connClaims' = connClaims
        BY <1>0, <1>2, WhoChanges DEF connCacheVars, cacheVars, CleanConns, Dedup, Goto
    <2> QED
        BY <1>1, <1>2, <2>1, <2>2 DEF JudgeInv, Passed, Ev
<1>3. ASSUME NEW w \in Workers, NEW e \in Events, Take(w, e) PROVE JudgeInv'
    <2> DEFINE m == Len(taken) + 1
    <2>0. /\ pc[w] = "idle" /\ e \in EventSet
          /\ job' = [job EXCEPT ![w] = m] /\ job'[w] = m /\ pc' = [pc EXCEPT ![w] = pc'[w]]
          /\ \/ e.kind = "exec" /\ pc'[w] = "tmp"
             \/ e.kind = "file" /\ pc'[w] = "claim"
             \/ e.kind = "connect" /\ pc'[w] = "dedup"
          /\ Len(taken') = m /\ taken'[m] = [ev |-> e, at |-> now]
          /\ \A n \in 1..Len(taken) : taken'[n] = taken[n]
          /\ claims' = claims /\ connClaims' = connClaims
        BY <1>3, TakeMoves
    <2>1. ~Passed(m, claims) /\ ~Passed(m, connClaims)
        BY <1>0 DEF JudgeInv, Passed
    <2>2. ASSUME NEW v \in Workers, v # w
          PROVE  /\ job'[v] = job[v] /\ pc'[v] = pc[v] /\ job[v] # m
                 /\ job[v] # 0 => Ev(v)' = Ev(v)
        <3>1. job'[v] = job[v] /\ pc'[v] = pc[v] /\ job[v] \in 0..Len(taken)
            BY <1>0, <2>0, <2>2
        <3>2. job[v] # 0 => job[v] \in 1..Len(taken)
            BY <1>0, <3>1
        <3> QED
            BY <1>0, <2>0, <3>1, <3>2 DEF Ev
    <2>3. job'[w] = m /\ Ev(w)' = e
        BY <2>0 DEF Ev
    <2>4. \A v \in Workers : pc'[v] \in ToClaim /\ v # w => job[v] # 0
        BY <2>2, TypeParts DEF WorkType, Busy, ToClaim
    <2>5. \A v, u \in Workers : job'[v] # 0 /\ job'[v] = job'[u] => v = u
        <3>1. \A v, u \in Workers : v # w /\ u # w /\ job'[v] # 0 /\ job'[v] = job'[u] => v = u
            BY <2>2 DEF JudgeInv
        <3> QED
            BY <2>2, <2>3, <3>1
    <2>6. \A c \in claims' \cup connClaims' : c.n \in 1..Len(taken')
        BY <1>0, <2>0 DEF JudgeInv
    <2>7. ASSUME NEW v \in Workers
          PROVE  /\ pc'[v] \in ToClaim => ~Passed(job'[v], claims')
                 /\ pc'[v] = "dedup" => ~Passed(job'[v], connClaims')
                 /\ pc'[v] \in {"dedup", "port"} => Ev(v)'.kind = "connect"
                 /\ pc'[v] \in {"tmp", "chain"} => Ev(v)'.kind = "exec"
                 /\ pc'[v] \in {"port", "claim"} /\ Ev(v)'.kind = "connect"
                        => Passed(job'[v], connClaims')
                 /\ pc'[v] = "claim" /\ Ev(v)'.kind = "connect" => Ev(v)'.conn \notin PrivateConns
        <3>1. CASE v = w
            BY <2>0, <2>1, <2>3, <3>1
        <3>2. CASE v # w
            BY <2>2, <2>4, <2>0, <3>2 DEF JudgeInv, ToClaim
        <3> QED
            BY <3>1, <3>2
    <2> QED
        BY <1>1, <2>5, <2>6, <2>7 DEF JudgeInv
<1>4. ASSUME NEW w \in Workers, Handler(w) PROVE JudgeInv'
    <2>1. /\ pc[w] # "idle" /\ taken' = taken
          /\ job' = [job EXCEPT ![w] = job'[w]] /\ pc' = [pc EXCEPT ![w] = pc'[w]]
          /\ job'[w] = job[w] \/ (job'[w] = 0 /\ pc[w] = "finish" /\ pc'[w] = "idle")
        BY <1>4, HandlerMoves
    <2>2. job[w] \in 1..Len(taken) /\ Ev(w) \in EventSet
        BY <2>1, EventType
    <2>3. ASSUME NEW v \in Workers, v # w
          PROVE  job'[v] = job[v] /\ pc'[v] = pc[v] /\ Ev(v)' = Ev(v) /\ job[v] # job[w]
        BY <1>0, <2>1, <2>2, <2>3 DEF Ev, JudgeInv
    <2>4. job'[w] = job[w] => Ev(w)' = Ev(w)
        BY <2>1 DEF Ev
    <2>5. /\ claims' = claims \/ \E r : r.n = job[w] /\ claims' = claims \cup {r} /\ pc[w] = "claim"
          /\ claims' # claims => pc'[w] \in {"allow", "fire"}
        <3>1. CASE Claim(w)
            <4>1. CASE UNCHANGED cacheVars
                BY <4>1 DEF cacheVars, alertCacheVars
            <4>2. CASE ~UNCHANGED cacheVars
                <5>1. /\ claims' = claims \cup {[n |-> job[w], key |-> Key(w), at |-> now]}
                      /\ pc[w] = "claim" /\ pc'[w] \in {"allow", "fire"}
                    BY <1>0, <3>1, <4>2 DEF Claim, Goto
                <5>2. [n |-> job[w], key |-> Key(w), at |-> now].n = job[w]
                    OBVIOUS
                <5> QED
                    BY <5>1, <5>2
            <4> QED
                BY <4>1, <4>2
        <3>2. CASE ~Claim(w)
            BY <1>4, <3>2 DEF Handler, TmpAlert, ChainAlert, PortAlert, OwnAlert, Dedup, AllowCheck,
               RuleAlert, Kill, Finish, cacheVars, alertCacheVars
        <3> QED
            BY <3>1, <3>2
    <2>6. /\ connClaims' = connClaims
             \/ \E r : r.n = job[w] /\ connClaims' = connClaims \cup {r} /\ pc[w] = "dedup"
          /\ connClaims' # connClaims => pc'[w] = "port"
        <3>1. CASE Dedup(w)
            <4>1. CASE UNCHANGED cacheVars
                BY <4>1 DEF cacheVars, connCacheVars
            <4>2. CASE ~UNCHANGED cacheVars
                <5>1. /\ connClaims' = connClaims \cup {[n |-> job[w], key |-> Ev(w).conn, at |-> now]}
                      /\ pc[w] = "dedup" /\ pc'[w] = "port"
                    BY <1>0, <3>1, <4>2 DEF Dedup, Goto
                <5>2. [n |-> job[w], key |-> Ev(w).conn, at |-> now].n = job[w]
                    OBVIOUS
                <5> QED
                    BY <5>1, <5>2
            <4> QED
                BY <4>1, <4>2
        <3>2. CASE ~Dedup(w)
            BY <1>4, <3>2 DEF Handler, TmpAlert, ChainAlert, PortAlert, OwnAlert, Claim, AllowCheck,
               RuleAlert, Kill, Finish, cacheVars, connCacheVars
        <3> QED
            BY <3>1, <3>2
    <2>7. /\ pc'[w] \in {"tmp", "dedup"} => FALSE
          /\ pc'[w] = "chain" => pc[w] = "tmp"
          /\ pc'[w] = "port" => pc[w] = "dedup" /\ connClaims' # connClaims
          /\ pc'[w] = "claim" =>
                \/ pc[w] = "chain"
                \/ pc[w] = "port" /\ Ev(w).conn \notin PrivateConns
        <3>1. CASE TmpAlert(w) \/ ChainAlert(w) \/ PortAlert(w)
            BY <1>0, <3>1 DEF TmpAlert, ChainAlert, PortAlert, OwnAlert, Goto
        <3>2. CASE Dedup(w)
            <4>1. pc[w] = "dedup" /\ (pc'[w] = "finish" \/ (pc'[w] = "port" /\ connClaims' =
                     connClaims \cup {[n |-> job[w], key |-> Ev(w).conn, at |-> now]}))
                BY <1>0, <3>2 DEF Dedup, Goto
            <4>2. [n |-> job[w], key |-> Ev(w).conn, at |-> now] \notin connClaims
                BY <4>1 DEF JudgeInv, Passed
            <4> QED
                BY <4>1, <4>2
        <3>3. CASE Claim(w) \/ AllowCheck(w) \/ RuleAlert(w) \/ Kill(w) \/ Finish(w)
            BY <1>0, <3>3 DEF Claim, AllowCheck, RuleAlert, Kill, Finish, Goto
        <3> QED
            BY <1>4, <3>1, <3>2, <3>3 DEF Handler
    <2>8. \A n : n # job[w] => (Passed(n, claims') <=> Passed(n, claims))
                               /\ (Passed(n, connClaims') <=> Passed(n, connClaims))
        BY <2>5, <2>6 DEF Passed
    <2>9. \A v, u \in Workers : job'[v] # 0 /\ job'[v] = job'[u] => v = u
        BY <2>1, <2>3 DEF JudgeInv
    <2>10. \A c \in claims' \cup connClaims' : c.n \in 1..Len(taken')
        BY <2>1, <2>2, <2>5, <2>6 DEF JudgeInv
    <2>11. ASSUME NEW v \in Workers
           PROVE  /\ pc'[v] \in ToClaim => ~Passed(job'[v], claims')
                  /\ pc'[v] = "dedup" => ~Passed(job'[v], connClaims')
                  /\ pc'[v] \in {"dedup", "port"} => Ev(v)'.kind = "connect"
                  /\ pc'[v] \in {"tmp", "chain"} => Ev(v)'.kind = "exec"
                  /\ pc'[v] \in {"port", "claim"} /\ Ev(v)'.kind = "connect"
                        => Passed(job'[v], connClaims')
                  /\ pc'[v] = "claim" /\ Ev(v)'.kind = "connect" => Ev(v)'.conn \notin PrivateConns
        <3>1. CASE v # w
            BY <2>3, <2>8, <3>1 DEF JudgeInv
        <3>2. CASE v = w /\ pc'[w] \in ToClaim
            <4>1. job'[w] = job[w] /\ Ev(w)' = Ev(w) /\ pc[w] \in {"tmp", "chain", "dedup", "port"}
                BY <2>1, <2>4, <2>7, <3>2 DEF ToClaim
            <4>2. claims' = claims /\ pc[w] \in ToClaim
                BY <2>5, <4>1 DEF ToClaim
            <4>3. ~Passed(job'[w], claims')
                BY <4>1, <4>2 DEF JudgeInv
            <4>4. Passed(job[w], connClaims) => Passed(job[w], connClaims')
                BY <2>6 DEF Passed
            <4>5. pc'[w] = "port" => Passed(job[w], connClaims')
                BY <2>6, <2>7 DEF Passed
            <4>6. pc'[w] = "port" => Ev(w).kind = "connect"
                BY <2>7 DEF JudgeInv
            <4>7. pc'[w] = "chain" => Ev(w).kind = "exec"
                BY <2>7 DEF JudgeInv
            <4>8. pc'[w] = "claim" /\ Ev(w).kind = "connect" =>
                     Passed(job[w], connClaims) /\ Ev(w).conn \notin PrivateConns
                <5>1. pc[w] = "chain" => Ev(w).kind = "exec"
                    BY DEF JudgeInv
                <5>2. pc[w] = "port" /\ Ev(w).kind = "connect" => Passed(job[w], connClaims)
                    BY DEF JudgeInv
                <5> QED
                    BY <2>7, <5>1, <5>2
            <4> QED
                BY <2>7, <3>2, <4>1, <4>3, <4>4, <4>5, <4>6, <4>7, <4>8
        <3>3. CASE v = w /\ pc'[w] \notin ToClaim
            BY <3>3 DEF ToClaim
        <3> QED
            BY <3>1, <3>2, <3>3
    <2> QED
        BY <1>1, <2>9, <2>10, <2>11 DEF JudgeInv
<1> QED
    BY <1>2, <1>3, <1>4, WhoChanges

(* Who decides an event: the worker that has it, when it leaves the labels  *)
(* before the decision.                                                     *)
LEMMA OthersDecided ==
    ASSUME TypeInv, NEW w \in Workers, NEW n, NEW B, n # job[w], n # job'[w],
           job' = [job EXCEPT ![w] = job'[w]], pc' = [pc EXCEPT ![w] = pc'[w]]
    PROVE  Decided(n, B)' <=> Decided(n, B)
<1>0. pc \in [Workers -> Labels] /\ job \in [Workers -> 0..Len(taken)]
    BY TypeParts DEF WorkType
<1>1. \A v \in Workers : v # w => job'[v] = job[v] /\ pc'[v] = pc[v]
    BY <1>0
<1> QED
    BY <1>1 DEF Decided

LEMMA OwnDecided ==
    ASSUME JudgeInv, NEW w \in Workers, job[w] # 0, NEW B
    PROVE  Decided(job[w], B) <=> pc[w] \notin B
    BY DEF JudgeInv, Decided

(* What is silenced stays so, and a step that decides no event adds none.   *)
LEMMA SilencedSame ==
    ASSUME TypeInv, [Next]_vars,
           \A n \in 1..Len(taken) : AlertSilent(n)' <=> AlertSilent(n),
           \A n \in 1..Len(taken) : ConnSilent(n)' <=> ConnSilent(n),
           \A n \in 1..Len(taken') : n \notin 1..Len(taken) =>
               ~AlertSilent(n)' /\ ~ConnSilent(n)'
    PROVE  AlertSilenced' = AlertSilenced /\ ConnSilenced' = ConnSilenced
<1>1. \A n \in 1..Len(taken) : n \in 1..Len(taken') /\ taken'[n] = taken[n]
    BY HistoryGrows
<1>2. {n \in 1..Len(taken') : AlertSilent(n)'} = {n \in 1..Len(taken) : AlertSilent(n)}
    BY <1>1
<1>3. {n \in 1..Len(taken') : ConnSilent(n)'} = {n \in 1..Len(taken) : ConnSilent(n)}
    BY <1>1
<1>4. \A n \in 1..Len(taken) : AlertKey(n)' = AlertKey(n)
    BY <1>1 DEF AlertKey
<1> QED
    BY <1>1, <1>2, <1>3, <1>4 DEF AlertSilenced, ConnSilenced

LEMMA OthersSilent ==
    ASSUME TypeInv, JudgeInv, NEW w \in Workers, Handler(w),
           NEW n \in 1..Len(taken), n # job[w],
           Passed(n, claims') <=> Passed(n, claims),
           Passed(n, connClaims') <=> Passed(n, connClaims)
    PROVE  (AlertSilent(n)' <=> AlertSilent(n)) /\ (ConnSilent(n)' <=> ConnSilent(n))
<1>1. /\ taken' = taken
      /\ job' = [job EXCEPT ![w] = job'[w]] /\ pc' = [pc EXCEPT ![w] = pc'[w]]
      /\ job'[w] = job[w] \/ job'[w] = 0
    BY HandlerMoves
<1>2. n # job'[w]
    BY <1>1
<1>3. Decided(n, ToClaim)' <=> Decided(n, ToClaim)
    BY <1>1, <1>2, OthersDecided DEF ToClaim
<1>4. Decided(n, {"dedup"})' <=> Decided(n, {"dedup"})
    BY <1>1, <1>2, OthersDecided
<1> QED
    BY <1>1, <1>3, <1>4 DEF AlertSilent, ConnSilent, Reaches

(* The own event of a worker, in terms of the worker's label.               *)
LEMMA OwnSilent ==
    ASSUME TypeInv, JudgeInv, NEW w \in Workers, Handler(w), NEW n, n = job[w]
    PROVE  /\ n \in 1..Len(taken) /\ taken' = taken
           /\ Decided(n, ToClaim) <=> pc[w] \notin ToClaim
           /\ Decided(n, {"dedup"}) <=> pc[w] # "dedup"
           /\ Decided(n, ToClaim)' <=> pc'[w] \notin ToClaim
           /\ Decided(n, {"dedup"})' <=> pc'[w] # "dedup"
<1>0. /\ taken' = taken /\ pc[w] # "idle"
      /\ job' = [job EXCEPT ![w] = job'[w]] /\ pc' = [pc EXCEPT ![w] = pc'[w]]
      /\ job'[w] = n \/ (job'[w] = 0 /\ pc[w] = "finish" /\ pc'[w] = "idle")
    BY HandlerMoves
<1>1. n \in 1..Len(taken) /\ n # 0
    BY <1>0, EventType
<1>2. \A B : Decided(n, B) <=> pc[w] \notin B
    BY <1>1, OwnDecided
<1>3. pc \in [Workers -> Labels] /\ job \in [Workers -> 0..Len(taken)]
    BY TypeParts DEF WorkType
<1>4. \A v \in Workers : v # w => job'[v] # n
    BY <1>0, <1>1, <1>3 DEF JudgeInv
<1>5. ASSUME NEW B, "idle" \notin B PROVE Decided(n, B)' <=> pc'[w] \notin B
    <2>1. CASE job'[w] = n
        BY <1>4, <2>1 DEF Decided
    <2>2. CASE job'[w] # n
        BY <1>0, <1>4, <1>5, <2>2 DEF Decided
    <2> QED
        BY <2>1, <2>2
<1>6. Decided(n, ToClaim)' <=> pc'[w] \notin ToClaim
    <2>1. "idle" \notin {"tmp", "chain", "dedup", "port", "claim"}
        OBVIOUS
    <2> QED
        BY <1>5, <2>1 DEF ToClaim
<1>7. Decided(n, {"dedup"})' <=> pc'[w] # "dedup"
    BY <1>5
<1> QED
    BY <1>0, <1>1, <1>2, <1>6, <1>7

(* Only Claim and Dedup judge. *)
LEMMA NothingJudged ==
    ASSUME TypeInv, JudgeInv, NEW w \in Workers, Handler(w), ~Claim(w), ~Dedup(w)
    PROVE  UNCHANGED <<now, claims, connClaims, AlertSilenced, ConnSilenced>>
<1> PICK n : n = job[w]
    OBVIOUS
<1>0. /\ n \in 1..Len(taken) /\ taken' = taken
      /\ Decided(n, ToClaim) <=> pc[w] \notin ToClaim
      /\ Decided(n, {"dedup"}) <=> pc[w] # "dedup"
      /\ Decided(n, ToClaim)' <=> pc'[w] \notin ToClaim
      /\ Decided(n, {"dedup"})' <=> pc'[w] # "dedup"
    BY OwnSilent
<1>t. pc \in [Workers -> Labels]
    BY TypeParts DEF WorkType
<1>1. UNCHANGED <<now, claims, connClaims>>
    <2>1. CASE TmpAlert(w) \/ ChainAlert(w) \/ PortAlert(w)
        BY <2>1 DEF TmpAlert, ChainAlert, PortAlert, OwnAlert, workRest, clockVars, cacheVars,
           alertCacheVars, connCacheVars
    <2>2. CASE AllowCheck(w) \/ RuleAlert(w) \/ Kill(w) \/ Finish(w)
        BY <2>2 DEF AllowCheck, RuleAlert, Kill, Finish, workRest, clockVars, cacheVars,
           alertCacheVars, connCacheVars
    <2> QED
        BY <2>1, <2>2 DEF Handler
<1>2. \A m \in 1..Len(taken) : m # n =>
          (AlertSilent(m)' <=> AlertSilent(m)) /\ (ConnSilent(m)' <=> ConnSilent(m))
    BY <1>1, OthersSilent
<1>3. /\ pc[w] # "dedup" /\ pc'[w] # "dedup"
      /\ \/ pc[w] \in ToClaim <=> pc'[w] \in ToClaim
         \/ Ev(w).kind = "connect" /\ Ev(w).conn \in PrivateConns
    <2>1. CASE TmpAlert(w) \/ ChainAlert(w)
        BY <1>t, <2>1 DEF TmpAlert, ChainAlert, OwnAlert, Goto, ToClaim
    <2>2. CASE PortAlert(w)
        <3>1. /\ pc[w] = "port"
              /\ \/ pc'[w] = "claim"
                 \/ pc'[w] = "finish" /\ Ev(w).conn \in PrivateConns
            BY <1>t, <2>2 DEF PortAlert, OwnAlert, Goto
        <3>2. Ev(w).kind = "connect"
            BY <3>1 DEF JudgeInv
        <3> QED
            BY <3>1, <3>2 DEF ToClaim
    <2>3. CASE AllowCheck(w) \/ RuleAlert(w) \/ Kill(w) \/ Finish(w)
        BY <1>t, <2>3 DEF AllowCheck, RuleAlert, Kill, Finish, Goto, ToClaim
    <2> QED
        BY <2>1, <2>2, <2>3 DEF Handler
<1>4. AlertSilent(n)' <=> AlertSilent(n)
    <2>1. Reaches(n)' <=> Reaches(n)
        BY <1>0, <1>1 DEF Reaches
    <2>2. Ev(w).kind = "connect" /\ Ev(w).conn \in PrivateConns => ~Reaches(n)
        BY DEF Reaches, Ev
    <2> QED
        BY <1>0, <1>1, <1>3, <2>1, <2>2 DEF AlertSilent
<1>5. ConnSilent(n)' <=> ConnSilent(n)
    BY <1>0, <1>1, <1>3 DEF ConnSilent
<1>6. [Next]_vars
    BY DEF Next
<1>7. AlertSilenced' = AlertSilenced /\ ConnSilenced' = ConnSilenced
    BY <1>0, <1>2, <1>4, <1>5, <1>6, SilencedSame
<1> QED
    BY <1>1, <1>7

(* When a cache lets a key pass and when it does not, a limiter with a      *)
(* memory would have done the same.                                         *)
LEMMA CacheIsRight ==
    ASSUME NEW K, NEW f \in [K -> Int], NEW S, S \subseteq [n: Nat, key: K, at: Nat],
           NEW k \in K, now \in Nat, Covers(f, S, now),
           f[k] # Never => \E c \in S : c.key = k /\ c.at = f[k]
    PROVE  Recent(f[k]) <=> ~(\A p \in S : p.key = k => now - p.at >= Window)
<1>1. ASSUME Recent(f[k]) PROVE ~(\A p \in S : p.key = k => now - p.at >= Window)
    <2>1. PICK c \in S : c.key = k /\ c.at = f[k]
        BY <1>1 DEF Recent
    <2> QED
        BY <1>1, <2>1, TimesOK DEF Recent
<1>2. ASSUME ~Recent(f[k]), NEW p \in S, p.key = k PROVE now - p.at >= Window
    <2>1. p.at \in Nat /\ f[k] \in Int /\ Window \in Nat
        BY TimesOK
    <2>2. p.at <= now /\ (now - p.at >= Window \/ (f[k] # Never /\ p.at <= f[k]))
        BY <1>2 DEF Covers
    <2> QED
        BY <1>2, <2>1, <2>2 DEF Recent
<1> QED
    BY <1>1, <1>2

LEMMA AlertSilencedMore ==
    ASSUME taken' = taken, NEW n \in 1..Len(taken), AlertSilent(n)',
           \A m \in 1..Len(taken) : m # n => (AlertSilent(m)' <=> AlertSilent(m))
    PROVE  AlertSilenced' = AlertSilenced \cup {[n |-> n, key |-> AlertKey(n)]}
<1>1. {m \in 1..Len(taken') : AlertSilent(m)'} = {m \in 1..Len(taken) : AlertSilent(m)} \cup {n}
    OBVIOUS
<1>2. \A m : AlertKey(m)' = AlertKey(m)
    BY DEF AlertKey
<1> QED
    BY <1>1, <1>2 DEF AlertSilenced

LEMMA ConnSilencedMore ==
    ASSUME taken' = taken, NEW n \in 1..Len(taken), ConnSilent(n)',
           \A m \in 1..Len(taken) : m # n => (ConnSilent(m)' <=> ConnSilent(m))
    PROVE  ConnSilenced' = ConnSilenced \cup {[n |-> n, key |-> taken[n].ev.conn]}
<1>1. {m \in 1..Len(taken') : ConnSilent(m)'} = {m \in 1..Len(taken) : ConnSilent(m)} \cup {n}
    OBVIOUS
<1> QED
    BY <1>1 DEF ConnSilenced

LEMMA ClaimJudges ==
    ASSUME TypeInv, WindowInv, SilenceInv, JudgeInv, NEW w \in Workers, Claim(w)
    PROVE  /\ UNCHANGED <<now, connClaims, ConnSilenced>>
           /\ \/ UNCHANGED <<claims, AlertSilenced>>
              \/ \E n \in 1..MaxTaken, k \in Keys : AlertLimit!Pass(n, k) \/ AlertLimit!Silence(n, k)
<1> PICK n : n = job[w]
    OBVIOUS
<1>h. Handler(w)
    BY DEF Handler
<1>n. [Next]_vars
    BY <1>h DEF Next
<1>0. /\ n \in 1..Len(taken) /\ taken' = taken
      /\ Decided(n, ToClaim) <=> pc[w] \notin ToClaim
      /\ Decided(n, {"dedup"}) <=> pc[w] # "dedup"
      /\ Decided(n, ToClaim)' <=> pc'[w] \notin ToClaim
      /\ Decided(n, {"dedup"})' <=> pc'[w] # "dedup"
    BY <1>h, OwnSilent
<1>1. /\ pc[w] = "claim" /\ pc'[w] \in {"finish", "allow", "fire"}
      /\ UNCHANGED <<now, connClaims>>
    <2>1. pc \in [Workers -> Labels]
        BY TypeParts DEF WorkType
    <2> QED
        BY <2>1 DEF Claim, Goto, workRest, clockVars, cacheVars, connCacheVars
<1>2. /\ pc[w] \in ToClaim /\ pc'[w] \notin ToClaim
      /\ pc[w] # "dedup" /\ pc'[w] # "dedup"
    BY <1>1 DEF ToClaim
<1>3. n \in 1..MaxTaken /\ Ev(w) \in EventSet
    BY <1>1, EventType
<1>4. ~AlertSilent(n) /\ ~Passed(n, claims)
    BY <1>0, <1>2 DEF AlertSilent, JudgeInv
<1>5. ~(\E p \in claims : p.n = n) /\ ~(\E s \in AlertSilenced : s.n = n)
    BY <1>4 DEF AlertSilenced, Passed
<1>6. ConnSilent(n)' <=> ConnSilent(n)
    BY <1>0, <1>1, <1>2 DEF ConnSilent
<1>7. ASSUME claims' = claims \/ (\E r : r.n = n /\ claims' = claims \cup {r})
      PROVE  /\ ConnSilenced' = ConnSilenced
             /\ \A m \in 1..Len(taken) : m # n => (AlertSilent(m)' <=> AlertSilent(m))
             /\ ~AlertSilent(n)' => AlertSilenced' = AlertSilenced
    <2>1. \A m \in 1..Len(taken) : m # n =>
              /\ Passed(m, claims') <=> Passed(m, claims)
              /\ Passed(m, connClaims') <=> Passed(m, connClaims)
        BY <1>1, <1>7 DEF Passed
    <2>2. \A m \in 1..Len(taken) : m # n =>
              (AlertSilent(m)' <=> AlertSilent(m)) /\ (ConnSilent(m)' <=> ConnSilent(m))
        BY <1>h, <2>1, OthersSilent
    <2>3. {m \in 1..Len(taken') : ConnSilent(m)'} = {m \in 1..Len(taken) : ConnSilent(m)}
        BY <1>0, <1>6, <2>2
    <2>4. ConnSilenced' = ConnSilenced
        BY <1>0, <2>3 DEF ConnSilenced
    <2>5. ASSUME ~AlertSilent(n)' PROVE AlertSilenced' = AlertSilenced
        BY <1>0, <1>4, <1>6, <1>n, <2>2, <2>5, SilencedSame
    <2> QED
        BY <2>2, <2>4, <2>5
<1>8. /\ now \in Nat /\ alertCache \in [Keys -> Int]
      /\ claims \subseteq [n: Nat, key: Keys, at: Nat] /\ Covers(alertCache, claims, now)
    BY BoundsOK DEF TypeInv, TypeOK, Times, Never, WindowInv
<1>9. CASE Ev(w).rule = NoRule
    <2>1. claims' = claims
        BY <1>9 DEF Claim, cacheVars, alertCacheVars
    <2>2. ~AlertSilent(n)'
        BY <1>0, <1>9 DEF AlertSilent, Reaches, Ev
    <2> QED
        BY <1>1, <1>7, <2>1, <2>2
<1>10. CASE Ev(w).rule # NoRule
    <2>1. Key(w) \in Keys /\ Key(w) = AlertKey(n)
        BY <1>3, <1>10 DEF Key, Keys, EventSet, AlertKey, Ev
    <2>2. alertCache[Key(w)] # Never => \E c \in claims : c.key = Key(w) /\ c.at = alertCache[Key(w)]
        BY <2>1 DEF SilenceInv
    <2>3. Recent(alertCache[Key(w)]) <=> ~AlertLimit!Quiet(Key(w))
        BY <1>8, <2>1, <2>2, CacheIsRight DEF AlertLimit!Quiet
    <2>4. ~AlertLimit!Judged(n)
        BY <1>5 DEF AlertLimit!Judged
    <2>5. CASE Recent(alertCache[Key(w)])
        <3>1. claims' = claims
            BY <1>10, <2>5 DEF Claim, cacheVars, alertCacheVars
        <3>2. Ev(w).kind = "connect" => Ev(w).conn \notin PrivateConns /\ Passed(n, connClaims)
            BY <1>1 DEF JudgeInv
        <3>3. AlertSilent(n)'
            BY <1>0, <1>1, <1>2, <1>4, <1>10, <3>1, <3>2 DEF AlertSilent, Reaches, Ev
        <3>4. AlertSilenced' = AlertSilenced \cup {[n |-> n, key |-> Key(w)]}
            BY <1>0, <1>7, <2>1, <3>1, <3>3, AlertSilencedMore
        <3>5. AlertLimit!Silence(n, Key(w))
            BY <1>1, <2>3, <2>4, <2>5, <3>1, <3>4 DEF AlertLimit!Silence
        <3> QED
            BY <1>1, <1>3, <1>7, <2>1, <3>1, <3>5
    <2>6. CASE ~Recent(alertCache[Key(w)])
        <3> DEFINE r == [n |-> n, key |-> Key(w), at |-> now]
        <3>1. claims' = claims \cup {r}
            BY <1>10, <2>6 DEF Claim
        <3>2. r.n = n
            OBVIOUS
        <3>3. ~AlertSilent(n)'
            BY <3>1, <3>2 DEF AlertSilent, Passed
        <3>4. ConnSilenced' = ConnSilenced /\ AlertSilenced' = AlertSilenced
            BY <1>7, <3>1, <3>2, <3>3
        <3>5. AlertLimit!Pass(n, Key(w))
            BY <1>1, <2>3, <2>4, <2>6, <3>1, <3>4 DEF AlertLimit!Pass
        <3> QED
            BY <1>1, <1>3, <2>1, <3>4, <3>5
    <2> QED
        BY <2>5, <2>6
<1> QED
    BY <1>9, <1>10

LEMMA DedupJudges ==
    ASSUME TypeInv, WindowInv, JudgeInv, NEW w \in Workers, Dedup(w)
    PROVE  /\ UNCHANGED <<now, claims, AlertSilenced>>
           /\ \/ UNCHANGED <<connClaims, ConnSilenced>>
              \/ \E n \in 1..MaxTaken, c \in Conns : ConnLimit!Pass(n, c) \/ ConnLimit!Silence(n, c)
<1> PICK n : n = job[w]
    OBVIOUS
<1> DEFINE c == Ev(w).conn
           r == [n |-> n, key |-> c, at |-> now]
<1>h. Handler(w)
    BY DEF Handler
<1>n. [Next]_vars
    BY <1>h DEF Next
<1>0. /\ n \in 1..Len(taken) /\ taken' = taken
      /\ Decided(n, ToClaim) <=> pc[w] \notin ToClaim
      /\ Decided(n, {"dedup"}) <=> pc[w] # "dedup"
      /\ Decided(n, ToClaim)' <=> pc'[w] \notin ToClaim
      /\ Decided(n, {"dedup"})' <=> pc'[w] # "dedup"
    BY <1>h, OwnSilent
<1>1. /\ pc[w] = "dedup" /\ UNCHANGED <<now, claims>>
      /\ \/ /\ c # NoConn => Recent(connCache[c])
            /\ pc'[w] = "finish" /\ connClaims' = connClaims
         \/ /\ c # NoConn /\ ~Recent(connCache[c])
            /\ pc'[w] = "port" /\ connClaims' = connClaims \cup {r}
    <2>1. pc \in [Workers -> Labels]
        BY TypeParts DEF WorkType
    <2> QED
        BY <2>1 DEF Dedup, Goto, workRest, clockVars, cacheVars, alertCacheVars, connCacheVars
<1>2. n \in 1..MaxTaken /\ Ev(w) \in EventSet
    BY <1>1, EventType
<1>3. /\ ~AlertSilent(n) /\ ~ConnSilent(n) /\ ~Passed(n, connClaims)
      /\ taken[n].ev.kind = "connect" /\ taken[n].ev.conn = c
    <2>1. ~AlertSilent(n) /\ ~ConnSilent(n)
        BY <1>0, <1>1 DEF AlertSilent, ConnSilent, ToClaim
    <2> QED
        BY <1>1, <2>1 DEF JudgeInv, Ev
<1>4. ~(\E p \in connClaims : p.n = n) /\ ~(\E s \in ConnSilenced : s.n = n)
    BY <1>3 DEF ConnSilenced, Passed
<1>5. ~ConnLimit!Judged(n)
    BY <1>4 DEF ConnLimit!Judged
<1>6. ~AlertSilent(n)'
    <2>1. CASE pc'[w] = "finish"
        <3>1. ~Passed(n, connClaims')
            BY <1>1, <1>3, <2>1
        <3> QED
            BY <1>0, <1>3, <3>1 DEF AlertSilent, Reaches
    <2>2. CASE pc'[w] = "port"
        BY <1>0, <2>2 DEF AlertSilent, ToClaim
    <2> QED
        BY <1>1, <2>1, <2>2
<1>7. r.n = n
    OBVIOUS
<1>8. \A m \in 1..Len(taken) : m # n =>
          (AlertSilent(m)' <=> AlertSilent(m)) /\ (ConnSilent(m)' <=> ConnSilent(m))
    <2>1. \A m \in 1..Len(taken) : m # n =>
              /\ Passed(m, claims') <=> Passed(m, claims)
              /\ Passed(m, connClaims') <=> Passed(m, connClaims)
        BY <1>1, <1>7 DEF Passed
    <2> QED
        BY <1>h, <2>1, OthersSilent
<1>9. AlertSilenced' = AlertSilenced
    <2>1. {m \in 1..Len(taken') : AlertSilent(m)'} = {m \in 1..Len(taken) : AlertSilent(m)}
        BY <1>0, <1>3, <1>6, <1>8
    <2>2. \A m : AlertKey(m)' = AlertKey(m)
        BY <1>0 DEF AlertKey
    <2> QED
        BY <2>1, <2>2 DEF AlertSilenced
<1>10. ASSUME ~ConnSilent(n)' PROVE ConnSilenced' = ConnSilenced
    BY <1>0, <1>3, <1>6, <1>8, <1>n, <1>10, SilencedSame
<1>11. CASE c = NoConn
    <2>1. ~ConnSilent(n)' /\ connClaims' = connClaims
        BY <1>0, <1>1, <1>3, <1>11 DEF ConnSilent
    <2> QED
        BY <1>1, <1>9, <1>10, <2>1
<1>12. CASE c # NoConn
    <2>1. c \in Conns
        BY <1>2, <1>12 DEF EventSet
    <2>2. /\ now \in Nat /\ connCache \in [Conns -> Int]
          /\ connClaims \subseteq [n: Nat, key: Conns, at: Nat] /\ Covers(connCache, connClaims, now)
        BY BoundsOK DEF TypeInv, TypeOK, Times, Never, WindowInv
    <2>3. connCache[c] # Never => \E p \in connClaims : p.key = c /\ p.at = connCache[c]
        BY <2>1 DEF JudgeInv
    <2>4. Recent(connCache[c]) <=> ~ConnLimit!Quiet(c)
        BY <2>1, <2>2, <2>3, CacheIsRight DEF ConnLimit!Quiet
    <2>5. CASE Recent(connCache[c])
        <3>1. connClaims' = connClaims /\ pc'[w] = "finish"
            BY <1>1, <1>12, <2>5
        <3>2. ConnSilent(n)'
            BY <1>0, <1>3, <1>12, <3>1 DEF ConnSilent
        <3>3. ConnSilenced' = ConnSilenced \cup {[n |-> n, key |-> c]}
            BY <1>0, <1>3, <1>8, <3>2, ConnSilencedMore
        <3>4. ConnLimit!Silence(n, c)
            BY <1>1, <1>5, <2>4, <2>5, <3>1, <3>3 DEF ConnLimit!Silence
        <3> QED
            BY <1>1, <1>2, <1>9, <2>1, <3>4
    <2>6. CASE ~Recent(connCache[c])
        <3>1. connClaims' = connClaims \cup {r}
            BY <1>1, <1>12, <2>6
        <3>2. ~ConnSilent(n)'
            BY <1>7, <3>1 DEF ConnSilent, Passed
        <3>3. ConnLimit!Pass(n, c)
            BY <1>1, <1>5, <1>10, <2>4, <2>6, <3>1, <3>2 DEF ConnLimit!Pass
        <3> QED
            BY <1>1, <1>2, <1>9, <2>1, <3>3
    <2> QED
        BY <2>5, <2>6
<1> QED
    BY <1>11, <1>12

LEMMA StepImplements ==
    ASSUME TypeInv, WindowInv, SilenceInv, JudgeInv, [Next]_vars
    PROVE  /\ [AlertLimit!Next]_<<now, claims, AlertSilenced>>
           /\ [ConnLimit!Next]_<<now, connClaims, ConnSilenced>>
<1>1. CASE UNCHANGED <<taken, job, pc>>
    <2>1. claims' = claims /\ connClaims' = connClaims
        <3>1. pc \in [Workers -> Labels]
            BY TypeParts DEF WorkType
        <3> QED
            BY <1>1, <3>1, WhoChanges DEF alertCacheVars, connCacheVars, cacheVars, CleanAlerts,
               CleanConns, Claim, Dedup, Goto
    <2>2. AlertSilenced' = AlertSilenced /\ ConnSilenced' = ConnSilenced
        BY <1>1, <2>1 DEF AlertSilenced, ConnSilenced, AlertSilent, ConnSilent, Decided, Passed,
           Reaches, AlertKey
    <2>3. UNCHANGED now \/ now' = now + 1
        BY WhoChanges DEF Tick
    <2> QED
        BY <2>1, <2>2, <2>3 DEF AlertLimit!Next, AlertLimit!Tick, ConnLimit!Next, ConnLimit!Tick
<1>2. ASSUME NEW w \in Workers, NEW e \in Events, Take(w, e)
      PROVE  UNCHANGED <<now, claims, connClaims, AlertSilenced, ConnSilenced>>
    <2> PICK m : m = Len(taken) + 1
        OBVIOUS
    <2>1. /\ job' = [job EXCEPT ![w] = m] /\ job'[w] = m /\ pc' = [pc EXCEPT ![w] = pc'[w]]
          /\ pc[w] = "idle"
          /\ \/ e.kind = "exec" /\ pc'[w] = "tmp"
             \/ e.kind = "file" /\ pc'[w] = "claim"
             \/ e.kind = "connect" /\ pc'[w] = "dedup"
          /\ Len(taken') = m /\ Len(taken) \in Nat /\ taken'[m] = [ev |-> e, at |-> now]
          /\ \A n \in 1..Len(taken) : taken'[n] = taken[n]
          /\ claims' = claims /\ connClaims' = connClaims
        BY <1>2, TakeMoves
    <2>2. ASSUME NEW n \in 1..Len(taken), n # job[w]
          PROVE  (AlertSilent(n)' <=> AlertSilent(n)) /\ (ConnSilent(n)' <=> ConnSilent(n))
        <3>1. n # job'[w]
            BY <2>1
        <3>2. Decided(n, ToClaim)' <=> Decided(n, ToClaim)
            BY <2>1, <2>2, <3>1, OthersDecided DEF ToClaim
        <3>3. Decided(n, {"dedup"})' <=> Decided(n, {"dedup"})
            BY <2>1, <2>2, <3>1, OthersDecided
        <3> QED
            BY <2>1, <3>2, <3>3 DEF AlertSilent, ConnSilent, Reaches
    <2>3. ASSUME NEW n \in 1..Len(taken), n = job[w]
          PROVE  (AlertSilent(n)' <=> AlertSilent(n)) /\ (ConnSilent(n)' <=> ConnSilent(n))
        <3>1. \A v \in Workers : v # w => job[v] # n /\ job'[v] # n
            <4>1. job \in [Workers -> 0..Len(taken)]
                BY TypeParts DEF WorkType
            <4> QED
                BY <2>1, <2>3, <4>1 DEF JudgeInv
        <3>2. job'[w] # n
            BY <2>1
        <3>3. Decided(n, ToClaim) /\ Decided(n, ToClaim)'
            BY <2>1, <3>1, <3>2 DEF Decided, ToClaim
        <3>4. Decided(n, {"dedup"}) /\ Decided(n, {"dedup"})'
            BY <2>1, <3>1, <3>2 DEF Decided
        <3> QED
            BY <2>1, <3>3, <3>4 DEF AlertSilent, ConnSilent, Reaches
    <2>4. ~AlertSilent(m)' /\ ~ConnSilent(m)'
        <3>1. ~Decided(m, ToClaim)'
            BY <2>1 DEF Decided, ToClaim
        <3>2. e.kind = "connect" => ~Decided(m, {"dedup"})'
            BY <2>1 DEF Decided
        <3> QED
            BY <2>1, <3>1, <3>2 DEF AlertSilent, ConnSilent
    <2>5. AlertSilenced' = AlertSilenced /\ ConnSilenced' = ConnSilenced
        <3>1. \A n \in 1..Len(taken) : AlertSilent(n)' <=> AlertSilent(n)
            BY <2>2, <2>3
        <3>2. \A n \in 1..Len(taken) : ConnSilent(n)' <=> ConnSilent(n)
            BY <2>2, <2>3
        <3>3. \A n \in 1..Len(taken') : n \notin 1..Len(taken) => n = m
            BY <2>1
        <3> QED
            BY <2>4, <3>1, <3>2, <3>3, SilencedSame
    <2>6. now' = now
        BY <1>2 DEF Take, clockVars
    <2> QED
        BY <2>1, <2>5, <2>6
<1>3. ASSUME NEW w \in Workers, Handler(w)
      PROVE  /\ [AlertLimit!Next]_<<now, claims, AlertSilenced>>
             /\ [ConnLimit!Next]_<<now, connClaims, ConnSilenced>>
    <2>1. CASE Claim(w)
        BY <2>1, ClaimJudges DEF AlertLimit!Next
    <2>2. CASE Dedup(w)
        BY <2>2, DedupJudges DEF ConnLimit!Next
    <2>3. CASE ~Claim(w) /\ ~Dedup(w)
        BY <1>3, <2>3, NothingJudged
    <2> QED
        BY <2>1, <2>2, <2>3
<1> QED
    BY <1>1, <1>2, <1>3, WhoChanges

(* The two caches implement a limiter that remembers all it let through.    *)
THEOREM ImplementsSuppression == Spec => SuppressionSpec
<1>1. Init => WindowInv /\ SilenceInv /\ JudgeInv
    <2>1. Init => WindowInv
        BY DEF Init, WindowInv, OncePerWindow, Apart, Covers, Never
    <2>2. Init => SilenceInv
        BY DEF Init, SilenceInv, Never
    <2>3. Init => JudgeInv
        BY DEF Init, JudgeInv, ToClaim, Never
    <2> QED
        BY <2>1, <2>2, <2>3
<1>2. Init => AlertLimit!Init /\ ConnLimit!Init
    BY DEF Init, AlertLimit!Init, ConnLimit!Init, AlertSilenced, ConnSilenced
<1>3. TypeInv /\ WindowInv /\ SilenceInv /\ JudgeInv /\ [Next]_vars
          => /\ [AlertLimit!Next]_<<now, claims, AlertSilenced>>
             /\ [ConnLimit!Next]_<<now, connClaims, ConnSilenced>>
    BY StepImplements
<1> QED
    BY <1>1, <1>2, <1>3, InitTypeInv, NextTypeInv, NextWindowInv, NextSilenceInv, NextJudgeInv,
       PTL DEF Spec, SuppressionSpec, AlertLimit!Spec, ConnLimit!Spec
-----------------------------------------------------------------------------
(* The kills. *)

(* While an event may still end in a kill, its process has its pid, or the  *)
(* event is astray.                                                         *)
Tracked(w) ==
    pc[w] \notin {"idle", "finish"} /\ KillWanted(Ev(w)) /\ MayKill(Ev(w)) =>
        job[w] \in astray \/ holder[Ev(w).pid] = Ev(w).proc
TrackInv == \A w \in Workers : Tracked(w)

KillInv == NoSilentKill /\ \A k \in kills : k.n \in 1..Len(taken)

LEMMA AstrayGrows ==
    ASSUME [Next]_vars
    PROVE  astray \subseteq astray'
    BY WhoChanges DEF ProcessExits, ProcessStarts, Kill, procVars

(* An event is tracked from Take on, when its process has the pid.          *)
(* Who then takes the pid from that process makes the event astray, but for *)
(* the kill of the event itself, and no other worker has the same event.    *)
LEMMA NextTrackInv == TypeInv /\ JudgeInv /\ TrackInv /\ [Next]_vars => TrackInv'
<1> SUFFICES ASSUME TypeInv, JudgeInv, TrackInv, [Next]_vars, NEW w \in Workers,
                    pc'[w] \notin {"idle", "finish"},
                    KillWanted(Ev(w)'), MayKill(Ev(w))',
                    job'[w] \notin astray'
             PROVE  holder'[Ev(w)'.pid] = Ev(w)'.proc
    BY DEF TrackInv, Tracked, KillWanted
<1>0. /\ pc \in [Workers -> Labels] /\ job \in [Workers -> 0..Len(taken)]
      /\ holder \in [Pids -> Procs \cup {NoProc}]
    BY TypeParts DEF WorkType, HolderType
<1>1. ASSUME NEW e \in Events, Take(w, e) PROVE holder'[Ev(w)'.pid] = Ev(w)'.proc
    <2>1. Ev(w)' = e
        <3>1. job'[w] = Len(taken) + 1 /\ taken'[Len(taken) + 1] = [ev |-> e, at |-> now]
            BY <1>1, TakeMoves
        <3> QED
            BY <3>1 DEF Ev
    <2>2. holder' = holder /\ holder[e.pid] = e.proc
        BY <1>1 DEF Take, procVars
    <2> QED
        BY <2>1, <2>2
<1>2. ASSUME pc[w] # "idle", pc[w] # "finish", job'[w] = job[w], Ev(w)' = Ev(w)
      PROVE  holder'[Ev(w)'.pid] = Ev(w)'.proc
    <2>1. KillWanted(Ev(w)) /\ MayKill(Ev(w)) /\ job[w] \notin astray
        BY <1>2, AstrayGrows, WhoChanges DEF MayKill
    <2>2. holder[Ev(w).pid] = Ev(w).proc
        BY <1>2, <2>1 DEF TrackInv, Tracked
    <2>3. Ev(w).pid \in Pids /\ Ev(w).proc \in Procs
        BY <1>2, EventType DEF EventSet
    <2>4. job[w] \in StillToKill(Ev(w).pid)
        BY <1>2, <2>1 DEF StillToKill
    <2>5. ASSUME NEW p \in Pids, ProcessExits(p) PROVE holder'[Ev(w).pid] = holder[Ev(w).pid]
        <3>1. p # Ev(w).pid
            BY <1>2, <2>4, <2>5 DEF ProcessExits
        <3> QED
            BY <1>0, <2>3, <2>5, <3>1 DEF ProcessExits
    <2>6. ASSUME NEW p \in Pids, NEW x \in Procs, ProcessStarts(p, x)
          PROVE  holder'[Ev(w).pid] = holder[Ev(w).pid]
        BY <1>0, <2>2, <2>3, <2>6, NamesOK DEF ProcessStarts
    <2>7. ASSUME NEW v \in Workers, Kill(v) PROVE holder'[Ev(w).pid] = holder[Ev(w).pid]
        <3>1. v # w
            BY <1>0, <2>7 DEF Kill, Goto
        <3>2. job[v] # job[w]
            BY <1>2, <3>1, EventType DEF JudgeInv
        <3>3. CASE MayKill(Ev(v))
            <4>1. Ev(v).pid # Ev(w).pid
                BY <1>2, <2>4, <2>7, <3>2, <3>3 DEF Kill
            <4> QED
                BY <1>0, <2>3, <2>7, <3>3, <4>1 DEF Kill
        <3>4. CASE ~MayKill(Ev(v))
            BY <2>7, <3>4 DEF Kill, procVars
        <3> QED
            BY <3>3, <3>4
    <2>8. holder'[Ev(w).pid] = holder[Ev(w).pid]
        BY <2>5, <2>6, <2>7, WhoChanges DEF procVars
    <2> QED
        BY <1>2, <2>2, <2>8
<1>3. \/ \E e \in Events : Take(w, e)
      \/ pc[w] \notin {"idle", "finish"} /\ job'[w] = job[w] /\ Ev(w)' = Ev(w)
    <2>1. ASSUME NEW v \in Workers, Handler(v)
          PROVE  pc[w] \notin {"idle", "finish"} /\ job'[w] = job[w] /\ Ev(w)' = Ev(w)
        <3>1. /\ pc[v] # "idle" /\ taken' = taken
              /\ job' = [job EXCEPT ![v] = job'[v]] /\ pc' = [pc EXCEPT ![v] = pc'[v]]
              /\ job'[v] = job[v] \/ (job'[v] = 0 /\ pc[v] = "finish" /\ pc'[v] = "idle")
            BY <2>1, HandlerMoves
        <3>2. v = w => pc[v] # "finish"
            BY <1>0, <2>1 DEF Handler, TmpAlert, ChainAlert, PortAlert, OwnAlert, Dedup, Claim,
               AllowCheck, RuleAlert, Kill, Finish, Goto
        <3>3. pc[w] \notin {"idle", "finish"} /\ job'[w] = job[w]
            BY <1>0, <3>1, <3>2
        <3> QED
            BY <3>1, <3>3 DEF Ev
    <2>2. ASSUME NEW v \in Workers, v # w, NEW e \in Events, Take(v, e)
          PROVE  pc[w] \notin {"idle", "finish"} /\ job'[w] = job[w] /\ Ev(w)' = Ev(w)
        <3>1. /\ job' = [job EXCEPT ![v] = Len(taken) + 1] /\ pc' = [pc EXCEPT ![v] = pc'[v]]
              /\ \A n \in 1..Len(taken) : taken'[n] = taken[n]
            BY <2>2, TakeMoves
        <3>2. pc'[w] = pc[w] /\ job'[w] = job[w]
            BY <1>0, <2>2, <3>1
        <3>3. job[w] \in 1..Len(taken)
            BY <3>2, EventType
        <3> QED
            BY <3>1, <3>2, <3>3 DEF Ev
    <2>3. CASE UNCHANGED <<taken, job, pc>>
        BY <2>3 DEF Ev
    <2> QED
        BY <2>1, <2>2, <2>3, WhoChanges
<1> QED
    BY <1>1, <1>2, <1>3

LEMMA NextKillInv == TypeInv /\ PathInv /\ TrackInv /\ KillInv /\ [Next]_vars => KillInv'
<1> SUFFICES ASSUME TypeInv, PathInv, TrackInv, KillInv, [Next]_vars, NEW k \in kills'
             PROVE  LET e == taken'[k.n].ev IN
                    /\ k.n \in 1..Len(taken')
                    /\ mode' = "enforce" /\ e.rule \in Critical
                    /\ e.proc \notin RuntimeProcs \cup Protected
                    /\ Reported(sent', k.n, e) /\ Claimed(claims', k.n, e)
                    /\ k.hit = e.proc \/ k.n \in astray'
    BY DEF KillInv, NoSilentKill, Reported, Claimed
<1>1. CASE k \in kills
    <2> DEFINE e == taken[k.n].ev
    <2>1. /\ k.n \in 1..Len(taken) /\ mode = "enforce" /\ e.rule \in Critical
          /\ e.proc \notin RuntimeProcs \cup Protected
          /\ Reported(sent, k.n, e) /\ Claimed(claims, k.n, e)
          /\ k.hit = e.proc \/ k.n \in astray
        BY <1>1 DEF KillInv, NoSilentKill, Reported, Claimed
    <2>2. k.n \in 1..Len(taken') /\ taken'[k.n].ev = e /\ mode' = mode
        BY <2>1, HistoryGrows
    <2> QED
        BY <2>1, <2>2, HistoryGrows, AstrayGrows DEF Reported, Claimed
<1>2. ASSUME k \notin kills, NEW w \in Workers, Kill(w)
      PROVE  LET e == taken'[k.n].ev IN
             /\ k.n \in 1..Len(taken')
             /\ mode' = "enforce" /\ e.rule \in Critical
             /\ e.proc \notin RuntimeProcs \cup Protected
             /\ Reported(sent', k.n, e) /\ Claimed(claims', k.n, e)
             /\ k.hit = e.proc \/ k.n \in astray'
    <2>1. /\ pc[w] = "kill" /\ k.n = job[w] /\ k.hit = holder[Ev(w).pid] /\ MayKill(Ev(w))
          /\ taken' = taken
        BY <1>2 DEF Kill, workRest
    <2>2. k.n \in 1..Len(taken) /\ Ev(w) = taken[k.n].ev
        BY <2>1, EventType DEF Ev
    <2>3. Claimed(claims, k.n, Ev(w)) /\ KillWanted(Ev(w)) /\ Reported(sent, k.n, Ev(w))
        BY <2>1 DEF PathInv, MayKill
    <2>4. k.hit = Ev(w).proc \/ k.n \in astray'
        BY <2>1, <2>3, AstrayGrows DEF TrackInv, Tracked
    <2> QED
        BY <2>1, <2>2, <2>3, <2>4, HistoryGrows DEF MayKill, KillWanted, Reported, Claimed
<1> QED
    BY <1>1, <1>2, WhoChanges

(* Whatever is killed was reported by an alert of a critical rule that      *)
(* passed suppressAlert, in enforce mode, and is neither a runtime process  *)
(* nor a protected one, unless the process that the event was captured of   *)
(* lost its pid before the kill.                                            *)
THEOREM NoSilentKillCorrect == Spec => []NoSilentKill
<1>1. Init => JudgeInv /\ PathInv /\ TrackInv /\ KillInv
    BY DEF Init, JudgeInv, ToClaim, Never, PathInv, TrackInv, Tracked, KillInv, NoSilentKill
<1>2. KillInv => NoSilentKill
    BY DEF KillInv
<1> QED
    BY <1>1, <1>2, InitTypeInv, NextTypeInv, NextJudgeInv, NextPathInv, NextTrackInv,
       NextKillInv, PTL DEF Spec
=============================================================================
