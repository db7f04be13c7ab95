--------------------------- MODULE LineageProofs ---------------------------
(***************************************************************************)
(* Proofs about process lineage, for any workers, pids, depth, size and    *)
(* times: types and the size of the cache, no circles, and no tree that    *)
(* speaks of a time longer ago than an entry's life and the lag.           *)
(***************************************************************************)
EXTENDS Lineage, FiniteSetTheorems, TLAPS

(* A call that is under way looks for a pid that its chain does not have    *)
(* yet, and there is room for it in the chain.                              *)
UnderWay ==
    \A w \in Workers : pc[w] # "idle" =>
        /\ call[w].current \in Pids
        /\ call[w].current \notin Visited(call[w].chain)
        /\ Len(call[w].chain) < maxTreeDepth
        /\ call[w].started <= now

(* What a worker has read it has read lately, and of the pid it looks for.  *)
InHand ==
    \A w \in Workers : pc[w] = "insert" =>
        /\ call[w].node \in Nodes
        /\ call[w].node.pid = call[w].current
        /\ call[w].node.asOf <= now /\ now <= call[w].node.asOf + MaxLag

(* An entry is its pid's, and was dated not long after it was read.         *)
Dated ==
    /\ IsFiniteSet(DOMAIN entries)
    /\ \A p \in DOMAIN entries : LET e == entries[p] IN
        /\ e.node.pid = p
        /\ e.node.asOf <= e.created /\ e.created <= now
        /\ e.created <= e.node.asOf + MaxLag

IInv == TypeOK /\ UnderWay /\ InHand /\ Dated /\ NoCircles /\ TreesAreRecent

LEMMA NoCallIsCall == NoCall \in Calls
<1>1. <<>> \in Seq(Pids)
    OBVIOUS
<1> QED
    BY <1>1 DEF NoCall, Calls

LEMMA InitInv == Init => IInv
<1> SUFFICES ASSUME Init PROVE IInv
    OBVIOUS
<1>1. DOMAIN entries = {}
    BY DEF Init
<1>2. IsFiniteSet(DOMAIN entries) /\ Cardinality(DOMAIN entries) = 0
    BY <1>1, FS_EmptySet
<1>3. TypeOK
  <2>1. proc \in [Pids -> Pids \cup {0, Free}]
      BY PidsHaveInit DEF Init
  <2>2. call \in [Workers -> Calls]
      BY NoCallIsCall DEF Init
  <2> QED
      BY <1>1, <1>2, <2>1, <2>2, LimitsType DEF Init, TypeOK
<1>4. UnderWay /\ InHand /\ Dated
    BY <1>1, <1>2 DEF Init, UnderWay, InHand, Dated
<1>5. \A w \in Workers : call[w].chain = <<>> /\ call[w].stale = 0
    BY DEF Init, NoCall
<1>6. NoCircles /\ TreesAreRecent
    BY <1>5, LimitsType DEF NoCircles, TreesAreRecent
<1> QED
    BY <1>3, <1>4, <1>6 DEF IInv

-----------------------------------------------------------------------------
(* A chain with one more pid. *)
LEMMA Longer ==
    ASSUME NEW chain \in Seq(Pids), NEW pid \in Pids, pid \notin Visited(chain),
           \A i, j \in 1..Len(chain) : i # j => chain[i] # chain[j]
    PROVE  LET s == Append(chain, pid) IN
           /\ s \in Seq(Pids) /\ Len(chain) \in Nat /\ Len(s) = Len(chain) + 1
           /\ \A i, j \in 1..Len(s) : i # j => s[i] # s[j]
<1> DEFINE s == Append(chain, pid)
           n == Len(chain)
<1>1. s \in Seq(Pids) /\ n \in Nat /\ Len(s) = n + 1
    OBVIOUS
<1>2. s[n + 1] = pid /\ \A i \in 1..n : s[i] = chain[i]
    OBVIOUS
<1>3. \A i \in 1..n : chain[i] # pid
    BY DEF Visited
<1> HIDE DEF s
<1>4. ASSUME NEW i \in 1..(n + 1), NEW j \in 1..(n + 1), i # j PROVE s[i] # s[j]
  <2> HIDE DEF n
  <2>1. CASE i = n + 1 \/ j = n + 1
      BY <1>1, <1>2, <1>3, <1>4, <2>1
  <2>2. CASE i # n + 1 /\ j # n + 1
    <3>1. i \in 1..n /\ j \in 1..n
        BY <1>1, <2>2
    <3> QED
        BY <1>2, <1>4, <3>1 DEF n
  <2> QED
      BY <2>1, <2>2
<1> QED
    BY <1>1, <1>4 DEF s

(* What Climb does for the worker, if the node is of the pid it looks for   *)
(* and not too old.                                                         *)
LEMMA Climbs ==
    ASSUME IInv, NEW w \in Workers, pc[w] # "idle", NEW node \in Nodes,
           node.pid = call[w].current, Climb(w, node),
           call[w].started - node.asOf < cacheEntryTTL + MaxLag
    PROVE  \E c \in Calls, state \in {"idle", "lookup"} :
             /\ call' = [call EXCEPT ![w] = c] /\ pc' = [pc EXCEPT ![w] = state]
             /\ Len(c.chain) <= maxTreeDepth
             /\ \A i, j \in 1..Len(c.chain) : i # j => c.chain[i] # c.chain[j]
             /\ c.stale < cacheEntryTTL + MaxLag
             /\ state = "lookup" =>
                  /\ c.current \in Pids /\ c.current \notin Visited(c.chain)
                  /\ Len(c.chain) < maxTreeDepth /\ c.started <= now
<1> DEFINE old == call[w]
           chain == Append(old.chain, node.pid)
           age == old.started - node.asOf
           stale == IF age > old.stale THEN age ELSE old.stale
           atEnd == [NoCall EXCEPT !.chain = chain, !.stale = stale]
           further == [current |-> node.ppid, chain |-> chain, node |-> NoNode,
                       started |-> old.started, stale |-> stale]
<1>1. /\ old \in Calls /\ old.current \in Pids /\ old.current \notin Visited(old.chain)
      /\ Len(old.chain) < maxTreeDepth /\ old.started <= now
    BY DEF IInv, TypeOK, UnderWay
<1>2. /\ old.chain \in Seq(Pids) /\ old.started \in Nat /\ old.stale \in Nat
      /\ node.asOf \in Nat /\ node.ppid \in Pids \cup {0}
      /\ old.stale < cacheEntryTTL + MaxLag
      /\ \A i, j \in 1..Len(old.chain) : i # j => old.chain[i] # old.chain[j]
    BY <1>1 DEF Calls, Nodes, IInv, NoCircles, TreesAreRecent
<1>3. /\ chain \in Seq(Pids) /\ Len(old.chain) \in Nat /\ Len(chain) = Len(old.chain) + 1
      /\ \A i, j \in 1..Len(chain) : i # j => chain[i] # chain[j]
    BY <1>1, <1>2, Longer
<1>4. stale \in Nat /\ stale < cacheEntryTTL + MaxLag
    BY <1>2
<1>5. Len(chain) \in Nat /\ Len(chain) <= maxTreeDepth
    BY <1>1, <1>3, LimitsType
<1>6. \/ /\ call' = [call EXCEPT ![w] = atEnd] /\ pc' = [pc EXCEPT ![w] = "idle"]
      \/ /\ ~Ends(node, chain)
         /\ call' = [call EXCEPT ![w] = further] /\ pc' = [pc EXCEPT ![w] = "lookup"]
    BY DEF Climb
<1>7. atEnd = [current |-> 0, chain |-> chain, node |-> NoNode, started |-> 0, stale |-> stale]
  <2> HIDE DEF chain, stale
  <2> DEFINE a == [NoCall EXCEPT !.chain = chain]
  <2>1. a = [current |-> 0, chain |-> chain, node |-> NoNode, started |-> 0, stale |-> 0]
      BY DEF NoCall
  <2> HIDE DEF a
  <2>2. [a EXCEPT !.stale = stale]
          = [current |-> 0, chain |-> chain, node |-> NoNode, started |-> 0, stale |-> stale]
      BY <2>1
  <2> QED
      BY <2>2 DEF a
<1> HIDE DEF chain, stale, atEnd, old
<1>8. atEnd \in Calls /\ atEnd.chain = chain /\ atEnd.stale = stale
    BY <1>3, <1>4, <1>7 DEF Calls
<1>9. /\ further \in Calls /\ further.chain = chain /\ further.stale = stale
      /\ further.current = node.ppid /\ further.started = old.started
    BY <1>2, <1>3, <1>4 DEF Calls
<1> HIDE DEF further
<1>10. CASE ~Ends(node, chain) /\ call' = [call EXCEPT ![w] = further]
            /\ pc' = [pc EXCEPT ![w] = "lookup"]
  <2>1. node.ppid \in Pids /\ node.ppid \notin Visited(chain) /\ Len(chain) # maxTreeDepth
      BY <1>2, <1>10 DEF Ends
  <2>2. Len(chain) < maxTreeDepth
      BY <1>5, <2>1, LimitsType
  <2> QED
      BY <1>1, <1>3, <1>4, <1>5, <1>9, <1>10, <2>1, <2>2
<1>11. CASE call' = [call EXCEPT ![w] = atEnd] /\ pc' = [pc EXCEPT ![w] = "idle"]
    BY <1>3, <1>4, <1>5, <1>8, <1>11
<1> QED
    BY <1>6, <1>10, <1>11

-----------------------------------------------------------------------------
(* A worker's step that gives its call a new state keeps what is said of    *)
(* calls, if it keeps it for this one.                                      *)
CallGood(c, state) ==
    /\ Len(c.chain) <= maxTreeDepth
    /\ \A i, j \in 1..Len(c.chain) : i # j => c.chain[i] # c.chain[j]
    /\ c.stale < cacheEntryTTL + MaxLag
    /\ state # "idle" =>
         /\ c.current \in Pids /\ c.current \notin Visited(c.chain)
         /\ Len(c.chain) < maxTreeDepth /\ c.started <= now
    /\ state = "insert" =>
         /\ c.node \in Nodes /\ c.node.pid = c.current
         /\ c.node.asOf <= now /\ now <= c.node.asOf + MaxLag

EntriesGood ==
    /\ DOMAIN entries \subseteq Pids /\ \A p \in DOMAIN entries : entries[p] \in Entries
    /\ Cardinality(DOMAIN entries) <= cacheMaxSize
    /\ Dated

LEMMA WorkerKeeps ==
    ASSUME IInv, NEW w \in Workers, NEW c \in Calls,
           NEW state \in {"idle", "lookup", "read", "insert"}, CallGood(c, state),
           call' = [call EXCEPT ![w] = c], pc' = [pc EXCEPT ![w] = state],
           UNCHANGED <<now, proc>>, EntriesGood'
    PROVE  IInv'
<1>1. /\ call' \in [Workers -> Calls] /\ call'[w] = c
      /\ pc' \in [Workers -> {"idle", "lookup", "read", "insert"}] /\ pc'[w] = state
      /\ \A v \in Workers : v # w => call'[v] = call[v] /\ pc'[v] = pc[v]
    BY DEF IInv, TypeOK
<1>2. TypeOK'
    BY <1>1 DEF IInv, TypeOK, EntriesGood
<1>3. \A v \in Workers : CallGood(call'[v], pc'[v])
  <2> TAKE v \in Workers
  <2>1. CASE v = w
      BY <1>1, <2>1
  <2>2. CASE v # w
    <3>1. CallGood(call[v], pc[v])
        BY DEF IInv, UnderWay, InHand, NoCircles, TreesAreRecent, CallGood
    <3> QED
        BY <1>1, <2>2, <3>1
  <2> QED
      BY <2>1, <2>2
<1>4. UnderWay' /\ InHand'
    BY <1>3 DEF CallGood, UnderWay, InHand, Visited, Nodes
<1>5. NoCircles' /\ TreesAreRecent'
    BY <1>3 DEF CallGood, NoCircles, TreesAreRecent
<1> QED
    BY <1>2, <1>4, <1>5 DEF IInv, EntriesGood

LEMMA SameEntries == ASSUME IInv, UNCHANGED <<now, entries>> PROVE EntriesGood'
BY DEF IInv, TypeOK, Dated, EntriesGood, Entries, Nodes

LEMMA HitKeeps == ASSUME IInv, NEW w \in Workers, Hit(w) PROVE IInv'
<1> DEFINE pid == call[w].current
           e == entries[pid]
<1>1. /\ pc[w] = "lookup" /\ pid \in DOMAIN entries /\ now - e.created < cacheEntryTTL
      /\ Climb(w, e.node) /\ UNCHANGED <<now, proc, entries>>
    BY DEF Hit, Fresh
<1>2. /\ e \in Entries /\ e.node.pid = pid
      /\ e.node.asOf <= e.created /\ e.created <= now /\ e.created <= e.node.asOf + MaxLag
    BY <1>1 DEF IInv, TypeOK, Dated
<1>3. e.node \in Nodes /\ e.created \in Nat /\ e.node.asOf \in Nat
    BY <1>2 DEF Entries, Nodes
<1>4. call[w].started \in Nat /\ call[w].started <= now /\ now \in Nat
  <2>1. call[w] \in Calls /\ now \in Nat
      BY LimitsType DEF IInv, TypeOK
  <2> QED
      BY <1>1, <2>1 DEF Calls, IInv, UnderWay
<1>5. call[w].started - e.node.asOf < cacheEntryTTL + MaxLag
    BY <1>1, <1>2, <1>3, <1>4, LimitsType
<1>6. PICK c \in Calls, state \in {"idle", "lookup"} :
         /\ call' = [call EXCEPT ![w] = c] /\ pc' = [pc EXCEPT ![w] = state]
         /\ CallGood(c, state)
    BY <1>1, <1>2, <1>3, <1>5, Climbs DEF CallGood
<1> QED
    BY <1>1, <1>6, SameEntries, WorkerKeeps

(* The cache after an entry is made for node. *)
LEMMA EntryMade ==
    ASSUME IInv, NEW gone \in Evicted, NEW node \in Nodes,
           node.asOf <= now, now <= node.asOf + MaxLag, now' = now,
           entries' = [p \in (DOMAIN entries \ gone) \cup {node.pid} |->
                         IF p = node.pid THEN [node |-> node, created |-> now] ELSE entries[p]]
    PROVE  EntriesGood'
<1> DEFINE D == DOMAIN entries
           K == D \ gone
<1>1. IsFiniteSet(D) /\ Cardinality(D) <= cacheMaxSize /\ D \subseteq Pids /\ now \in Nat
      /\ Cardinality(D) \in Nat
    BY FS_CardinalityType, LimitsType DEF IInv, TypeOK, Dated
<1>2. node.pid \in Pids /\ node.asOf \in Nat
    BY DEF Nodes
<1>3. IsFiniteSet(K) /\ Cardinality(K) \in Nat /\ Cardinality(K) + 1 <= cacheMaxSize
  <2>1. CASE Cardinality(D) < cacheMaxSize
    <3>1. K = D
        BY <2>1 DEF Evicted
    <3> QED
        BY <1>1, <2>1, <3>1, LimitsType
  <2>2. CASE ~(Cardinality(D) < cacheMaxSize)
    <3>1. PICK q \in D : gone = {q}
        BY <2>2 DEF Evicted
    <3>2. K = D \ {q}
        BY <3>1
    <3> HIDE DEF D, K
    <3>3. IsFiniteSet(K) /\ Cardinality(K) = Cardinality(D) - 1
        BY <1>1, <3>1, <3>2, FS_RemoveElement
    <3>4. Cardinality(D) # 0
        BY <1>1, <2>2, LimitsType
    <3> QED
        BY <1>1, <3>3, <3>4, LimitsType
  <2> QED
      BY <2>1, <2>2
<1>4. DOMAIN entries' = K \cup {node.pid}
    OBVIOUS
<1>5. IsFiniteSet(K \cup {node.pid}) /\ Cardinality(K \cup {node.pid}) <= cacheMaxSize
  <2> HIDE DEF K
  <2>1. IsFiniteSet(K \cup {node.pid})
        /\ Cardinality(K \cup {node.pid}) =
             IF node.pid \in K THEN Cardinality(K) ELSE Cardinality(K) + 1
      BY <1>3, FS_AddElement
  <2> QED
      BY <1>3, <2>1, LimitsType
<1>6. ASSUME NEW p \in DOMAIN entries'
      PROVE  /\ entries'[p] \in Entries
             /\ entries'[p].node.pid = p
             /\ entries'[p].node.asOf <= entries'[p].created /\ entries'[p].created <= now
             /\ entries'[p].created <= entries'[p].node.asOf + MaxLag
  <2>1. CASE p = node.pid
    <3>1. entries'[p] = [node |-> node, created |-> now]
        BY <1>6, <2>1
    <3> QED
        BY <1>1, <2>1, <3>1 DEF Entries
  <2>2. CASE p # node.pid
    <3>1. entries'[p] = entries[p] /\ p \in DOMAIN entries
        BY <1>6, <2>2
    <3> QED
        BY <3>1 DEF IInv, TypeOK, Dated
  <2> QED
      BY <2>1, <2>2
<1> HIDE DEF D, K
<1>7. Dated'
    BY <1>4, <1>5, <1>6 DEF Dated
<1>8. DOMAIN entries' \subseteq Pids /\ Cardinality(DOMAIN entries') <= cacheMaxSize
    BY <1>1, <1>2, <1>4, <1>5 DEF D, K
<1>9. \A p \in DOMAIN entries' : entries'[p] \in Entries
    BY <1>6
<1> QED
    BY <1>7, <1>8, <1>9 DEF EntriesGood, Entries, Nodes

LEMMA InsertKeeps == ASSUME IInv, NEW w \in Workers, Insert(w) PROVE IInv'
<1> DEFINE node == call[w].node
<1>1. PICK gone \in Evicted :
         /\ pc[w] = "insert" /\ Climb(w, node) /\ UNCHANGED <<now, proc>>
         /\ entries' = [p \in (DOMAIN entries \ gone) \cup {node.pid} |->
                          IF p = node.pid THEN [node |-> node, created |-> now] ELSE entries[p]]
    BY DEF Insert
<1>2. /\ node \in Nodes /\ node.pid = call[w].current
      /\ node.asOf <= now /\ now <= node.asOf + MaxLag
    BY <1>1 DEF IInv, InHand
<1>3. call[w].started \in Nat /\ call[w].started <= now /\ now \in Nat /\ node.asOf \in Nat
  <2>1. call[w] \in Calls /\ now \in Nat
      BY LimitsType DEF IInv, TypeOK
  <2> QED
      BY <1>1, <1>2, <2>1 DEF Calls, Nodes, IInv, UnderWay
<1>4. call[w].started - node.asOf < cacheEntryTTL + MaxLag
    BY <1>2, <1>3, LimitsType
<1>5. EntriesGood'
    BY <1>1, <1>2, EntryMade
<1> HIDE DEF node
<1>6. PICK c \in Calls, state \in {"idle", "lookup"} :
         /\ call' = [call EXCEPT ![w] = c] /\ pc' = [pc EXCEPT ![w] = state]
         /\ CallGood(c, state)
    BY <1>1, <1>2, <1>4, Climbs DEF CallGood
<1> QED
    BY <1>1, <1>5, <1>6, WorkerKeeps

LEMMA BeginKeeps == ASSUME IInv, NEW w \in Workers, Begin(w) PROVE IInv'
<1>1. PICK pid \in EventPids :
         /\ call' = [call EXCEPT ![w] = [NoCall EXCEPT !.current = pid, !.started = now]]
         /\ pc' = [pc EXCEPT ![w] = "lookup"] /\ UNCHANGED <<now, proc, entries>>
    BY DEF Begin
<1> DEFINE a == [NoCall EXCEPT !.current = pid]
           c == [NoCall EXCEPT !.current = pid, !.started = now]
<1>2. pid \in Pids /\ now \in Nat
    BY PidsHaveInit, LimitsType DEF IInv, TypeOK
<1>3. c = [current |-> pid, chain |-> <<>>, node |-> NoNode, started |-> now, stale |-> 0]
  <2>1. a = [current |-> pid, chain |-> <<>>, node |-> NoNode, started |-> 0, stale |-> 0]
      BY DEF NoCall
  <2> HIDE DEF a
  <2>2. [a EXCEPT !.started = now]
          = [current |-> pid, chain |-> <<>>, node |-> NoNode, started |-> now, stale |-> 0]
      BY <2>1
  <2> QED
      BY <2>2 DEF a
<1> HIDE DEF c
<1>4. c \in Calls
    BY <1>2, <1>3 DEF Calls
<1>5. CallGood(c, "lookup")
    BY <1>2, <1>3, LimitsType DEF CallGood, Visited
<1> QED
    BY <1>1, <1>4, <1>5, SameEntries, WorkerKeeps DEF c

LEMMA MissKeeps == ASSUME IInv, NEW w \in Workers, Miss(w) PROVE IInv'
<1>1. /\ pc[w] = "lookup" /\ pc' = [pc EXCEPT ![w] = "read"]
      /\ UNCHANGED <<now, proc, entries, call>>
    BY DEF Miss
<1>2. call[w] \in Calls /\ call' = [call EXCEPT ![w] = call[w]]
    BY <1>1 DEF IInv, TypeOK
<1>3. CallGood(call[w], "read")
    BY <1>1 DEF IInv, UnderWay, NoCircles, TreesAreRecent, CallGood
<1> QED
    BY <1>1, <1>2, <1>3, SameEntries, WorkerKeeps

LEMMA ReadProcKeeps == ASSUME IInv, NEW w \in Workers, ReadProc(w) PROVE IInv'
<1> DEFINE old == call[w]
           pid == old.current
<1>1. pc[w] = "read" /\ UNCHANGED <<now, proc, entries>>
    BY DEF ReadProc
<1>2. old \in Calls /\ CallGood(old, "read") /\ now \in Nat
    BY <1>1, LimitsType DEF IInv, TypeOK, UnderWay, NoCircles, TreesAreRecent, CallGood
<1>3. CASE proc[pid] # Free
  <2> DEFINE c == [old EXCEPT !.node = NodeOf(pid)]
  <2>1. call' = [call EXCEPT ![w] = c] /\ pc' = [pc EXCEPT ![w] = "insert"]
      BY <1>3 DEF ReadProc, IInv, TypeOK
  <2>2. pid \in Pids
      BY <1>2 DEF CallGood
  <2>3. NodeOf(pid) \in Nodes /\ NodeOf(pid).pid = pid /\ NodeOf(pid).asOf = now
      BY <1>2, <1>3, <2>2 DEF NodeOf, Nodes, IInv, TypeOK
  <2>4. /\ c \in Calls /\ c.chain = old.chain /\ c.stale = old.stale
        /\ c.current = pid /\ c.started = old.started /\ c.node = NodeOf(pid)
      BY <1>2, <2>3 DEF Calls
  <2> HIDE DEF c, old
  <2>5. CallGood(c, "insert")
      BY <1>2, <2>3, <2>4, LimitsType DEF CallGood
  <2> QED
      BY <1>1, <2>1, <2>4, <2>5, SameEntries, WorkerKeeps
<1>4. CASE proc[pid] = Free
  <2> DEFINE c == [NoCall EXCEPT !.chain = old.chain, !.stale = old.stale]
             a == [NoCall EXCEPT !.chain = old.chain]
  <2>1. call' = [call EXCEPT ![w] = c] /\ pc' = [pc EXCEPT ![w] = "idle"]
      BY <1>4 DEF ReadProc
  <2>2. old.chain \in Seq(Pids) /\ old.stale \in Nat
      BY <1>2 DEF Calls
  <2> HIDE DEF old
  <2>3. c = [current |-> 0, chain |-> old.chain, node |-> NoNode, started |-> 0,
             stale |-> old.stale]
    <3>1. a = [current |-> 0, chain |-> old.chain, node |-> NoNode, started |-> 0, stale |-> 0]
        BY DEF NoCall
    <3> HIDE DEF a
    <3>2. [a EXCEPT !.stale = old.stale]
            = [current |-> 0, chain |-> old.chain, node |-> NoNode, started |-> 0,
               stale |-> old.stale]
        BY <3>1
    <3> QED
        BY <3>2 DEF a
  <2> HIDE DEF c
  <2>4. c \in Calls
      BY <2>2, <2>3 DEF Calls
  <2>5. CallGood(c, "idle")
      BY <1>2, <2>3 DEF CallGood
  <2> QED
      BY <1>1, <2>1, <2>4, <2>5, SameEntries, WorkerKeeps
<1> QED
    BY <1>3, <1>4

(* The kernel, and time. *)
LEMMA OthersKeep == ASSUME IInv, Kernel \/ Tick \/ UNCHANGED vars PROVE IInv'
<1>1. UNCHANGED <<entries, pc, call>>
    BY DEF Kernel, Fork, Exit, Tick, vars
<1>2. now \in 0..MaxTime /\ now' \in 0..MaxTime /\ now <= now'
    BY LimitsType DEF Kernel, Fork, Exit, Tick, vars, IInv, TypeOK
<1>3. proc' \in [Pids -> Pids \cup {0, Free}]
  <2>0. proc \in [Pids -> Pids \cup {0, Free}] /\ 1 \in Pids
      BY PidsHaveInit DEF IInv, TypeOK
  <2>1. ASSUME NEW p \in Pids, NEW child \in Pids, Fork(p, child)
        PROVE  proc' \in [Pids -> Pids \cup {0, Free}]
      BY <2>0, <2>1 DEF Fork
  <2>2. ASSUME NEW p \in Pids, Exit(p) PROVE proc' \in [Pids -> Pids \cup {0, Free}]
      BY <2>0, <2>2 DEF Exit
  <2>3. CASE Tick \/ UNCHANGED vars
      BY <2>0, <2>3 DEF Tick, vars
  <2> QED
      BY <2>1, <2>2, <2>3 DEF Kernel
<1>4. \A w \in Workers : pc[w] = "insert" =>
         call[w].node.asOf <= now' /\ now' <= call[w].node.asOf + MaxLag
  <2> SUFFICES ASSUME NEW w \in Workers, pc[w] = "insert"
               PROVE  call[w].node.asOf <= now' /\ now' <= call[w].node.asOf + MaxLag
      OBVIOUS
  <2>1. /\ call[w].node \in Nodes
        /\ call[w].node.asOf <= now /\ now <= call[w].node.asOf + MaxLag
      BY DEF IInv, InHand
  <2>2. call[w].node.asOf \in Nat
      BY <2>1 DEF Nodes
  <2>3. CASE Tick
      BY <1>2, <2>1, <2>2, <2>3, LimitsType DEF Tick
  <2>4. CASE ~Tick
    <3>1. now' = now
        BY <2>4 DEF Kernel, Fork, Exit, vars
    <3> QED
        BY <2>1, <3>1
  <2> QED
      BY <2>3, <2>4
<1>5. TypeOK'
    BY <1>1, <1>2, <1>3 DEF IInv, TypeOK, Calls, Entries, Nodes
<1>6. \A w \in Workers : call[w].started \in Nat
    BY DEF IInv, TypeOK, Calls
<1>7. UnderWay'
    BY <1>1, <1>2, <1>6 DEF IInv, UnderWay, Visited
<1>8. InHand'
    BY <1>1, <1>4 DEF IInv, InHand, Nodes
<1>9. Dated'
  <2>1. \A p \in DOMAIN entries : entries[p].created \in Nat
      BY DEF IInv, TypeOK, Entries
  <2> QED
      BY <1>1, <1>2, <2>1 DEF IInv, Dated
<1>10. NoCircles' /\ TreesAreRecent'
    BY <1>1 DEF IInv, NoCircles, TreesAreRecent
<1> QED
    BY <1>5, <1>7, <1>8, <1>9, <1>10 DEF IInv

LEMMA Inductive == Spec => []IInv
<1>1. Init => IInv
    BY InitInv
<1>2. IInv /\ [Next]_vars => IInv'
  <2> SUFFICES ASSUME IInv, [Next]_vars PROVE IInv'
      OBVIOUS
  <2>1. CASE Tick \/ Kernel \/ UNCHANGED vars
      BY <2>1, OthersKeep
  <2>2. ASSUME NEW w \in Workers, Worker(w) PROVE IInv'
      BY <2>2, BeginKeeps, HitKeeps, MissKeeps, ReadProcKeeps, InsertKeeps DEF Worker
  <2> QED
      BY <2>1, <2>2 DEF Next
<1> QED
    BY <1>1, <1>2, PTL DEF Spec

(* Every variable keeps its type, and the cache its size, for any number of *)
(* workers that insert.                                                     *)
THEOREM TypeCorrect == Spec => []TypeOK
<1>1. IInv => TypeOK
    BY DEF IInv
<1> QED
    BY <1>1, Inductive, PTL

(* No tree goes round in circles, whatever the pids have been through.      *)
THEOREM NoCirclesCorrect == Spec => []NoCircles
<1>1. IInv => NoCircles
    BY DEF IInv
<1> QED
    BY <1>1, Inductive, PTL

(* What a tree shows was true at most an entry's life and the lag before    *)
(* the call.                                                                *)
THEOREM TreesAreRecentCorrect == Spec => []TreesAreRecent
<1>1. IInv => TreesAreRecent
    BY DEF IInv
<1> QED
    BY <1>1, Inductive, PTL
=============================================================================
