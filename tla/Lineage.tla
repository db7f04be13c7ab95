------------------------------ MODULE Lineage ------------------------------
(***************************************************************************)
(* Process lineage: the workers of the event queue ask for the ancestors   *)
(* of a pid, which are read from /proc and kept in a cache for some time.  *)
(* Meanwhile processes fork and exit, orphans go to init, and pids change  *)
(* hands; nothing tells the cache (EvictPID is never called).  A name is   *)
(* left out of what is read: a process always has one.                     *)
(***************************************************************************)
EXTENDS Integers, Sequences, FiniteSets

CONSTANTS
    Workers,            \* the workers of the event queue
    Pids,               \* the pids that processes can have, init's 1 among them
    EventPids,          \* those that events are about
    maxTreeDepth,       \* how many ancestors are looked for at most
    cacheEntryTTL,      \* how long an entry of the cache is good for
    cacheMaxSize,       \* how many entries the cache holds
    MaxLag,             \* how long a worker takes from /proc to the cache at most
    MaxTime             \* bound: how late it gets

ASSUME PidsHaveInit == Pids \subseteq Nat \ {0} /\ 1 \in Pids /\ EventPids \subseteq Pids
ASSUME LimitsType ==
    /\ maxTreeDepth \in Nat /\ maxTreeDepth >= 2
    /\ cacheMaxSize \in Nat \ {0}
    /\ cacheEntryTTL \in Nat \ {0} /\ MaxLag \in Nat /\ MaxTime \in Nat

VARIABLES
    now,                \* the time
    proc,               \* /proc: the parent of what has the pid, if anything has it
    entries,            \* LineageCache.entries
    pc,                 \* where a worker is in GetTree
    call                \* its last call: the pid to resolve next, the chain so far,
                        \* and histories: when it began, how much older a node is

vars == <<now, proc, entries, pc, call>>

-----------------------------------------------------------------------------
(* /proc has nothing there. *)
Free == -1

(* ProcessNode; asOf is a history: the time at which it was read.           *)
NodeOf(pid) == [pid |-> pid, ppid |-> proc[pid], asOf |-> now]
NoNode == [pid |-> 0, ppid |-> 0, asOf |-> 0]

NoCall == [current |-> 0, chain |-> <<>>, node |-> NoNode, started |-> 0,
           stale |-> 0]

Init ==
    /\ now = 0
    /\ proc = [p \in Pids |-> IF p = 1 THEN 0 ELSE Free]
    /\ entries = <<>>
    /\ pc = [w \in Workers |-> "idle"]
    /\ call = [w \in Workers |-> NoCall]

-----------------------------------------------------------------------------
(* The kernel. *)

Fork(p, child) ==
    /\ proc[p] # Free /\ proc[child] = Free
    /\ proc' = [proc EXCEPT ![child] = p]
    /\ UNCHANGED <<now, entries, pc, call>>

(* Its children are init's from now on. *)
Exit(p) ==
    /\ p # 1 /\ proc[p] # Free
    /\ proc' = [q \in Pids |-> IF q = p THEN Free ELSE IF proc[q] = p THEN 1 ELSE proc[q]]
    /\ UNCHANGED <<now, entries, pc, call>>

(* A worker is not kept longer than MaxLag between /proc and the cache.     *)
Tick ==
    /\ now < MaxTime
    /\ \A w \in Workers : pc[w] = "insert" => now < call[w].node.asOf + MaxLag
    /\ now' = now + 1
    /\ UNCHANGED <<proc, entries, pc, call>>

-----------------------------------------------------------------------------
(* A worker's call of GetTree. *)

(* GetParentComm goes the same way, for two pids only, and is left out.     *)
Begin(w) == \E pid \in EventPids :
    /\ pc[w] = "idle"
    /\ call' = [call EXCEPT ![w] = [NoCall EXCEPT !.current = pid, !.started = now]]
    /\ pc' = [pc EXCEPT ![w] = "lookup"]
    /\ UNCHANGED <<now, proc, entries>>

(* Mutant of Visited: GetTree keeps no account of where it has been. *)
VisitedNothing(chain) == {}

(* What GetTree has been to is what it has in the chain. *)
Visited(chain) == {chain[i] : i \in 1..Len(chain)}

(* The way up ends where there is no other parent, at the limit and at a    *)
(* pid it has been to.                                                      *)
Ends(node, chain) ==
    \/ node.ppid \in {0, node.pid}
    \/ Len(chain) = maxTreeDepth
    \/ node.ppid \in Visited(chain)

(* The chain gets the node. *)
Climb(w, node) ==
    LET c == call[w]
        chain == Append(c.chain, node.pid)
        age == c.started - node.asOf
        stale == IF age > c.stale THEN age ELSE c.stale
    IN
    \/ /\ Ends(node, chain)
       /\ call' = [call EXCEPT ![w] = [NoCall EXCEPT !.chain = chain, !.stale = stale]]
       /\ pc' = [pc EXCEPT ![w] = "idle"]
    \/ /\ ~Ends(node, chain)
       /\ call' = [call EXCEPT ![w] =
                     [current |-> node.ppid, chain |-> chain, node |-> NoNode,
                      started |-> c.started, stale |-> stale]]
       /\ pc' = [pc EXCEPT ![w] = "lookup"]

(* An entry that resolve uses. *)
Fresh(pid) == pid \in DOMAIN entries /\ now - entries[pid].created < cacheEntryTTL

(* Mutant of Hit: an entry that is used is good for longer. *)
HitRenews(w) ==
    LET pid == call[w].current IN
    /\ pc[w] = "lookup" /\ Fresh(pid)
    /\ Climb(w, entries[pid].node)
    /\ entries' = [entries EXCEPT ![pid].created = now]
    /\ UNCHANGED <<now, proc>>

(* resolve, under the read lock. *)
Hit(w) ==
    LET pid == call[w].current IN
    /\ pc[w] = "lookup" /\ Fresh(pid)
    /\ Climb(w, entries[pid].node)
    /\ UNCHANGED <<now, proc, entries>>

Miss(w) ==
    /\ pc[w] = "lookup" /\ ~Fresh(call[w].current)
    /\ pc' = [pc EXCEPT ![w] = "read"]
    /\ UNCHANGED <<now, proc, entries, call>>

(* readProcStatus, without a lock.  With nothing there the tree is what it  *)
(* is so far.                                                               *)
ReadProc(w) ==
    LET pid == call[w].current IN
    /\ pc[w] = "read"
    /\ \/ /\ proc[pid] # Free
          /\ call' = [call EXCEPT ![w].node = NodeOf(pid)]
          /\ pc' = [pc EXCEPT ![w] = "insert"]
       \/ /\ proc[pid] = Free
          /\ call' = [call EXCEPT ![w] = [NoCall EXCEPT !.chain = call[w].chain,
                                                        !.stale = call[w].stale]]
          /\ pc' = [pc EXCEPT ![w] = "idle"]
    /\ UNCHANGED <<now, proc, entries>>

(* Mutant of Evicted: "len(c.entries) > cacheMaxSize". *)
EvictedLate ==
    IF Cardinality(DOMAIN entries) <= cacheMaxSize THEN {{}}
    ELSE {{p} : p \in {q \in DOMAIN entries :
                         \A r \in DOMAIN entries : entries[q].created <= entries[r].created}}

(* What evictOldest may take: one of the oldest, when the cache is full.    *)
Evicted ==
    IF Cardinality(DOMAIN entries) < cacheMaxSize THEN {{}}
    ELSE {{p} : p \in {q \in DOMAIN entries :
                         \A r \in DOMAIN entries : entries[q].created <= entries[r].created}}

(* The end of resolve, under the write lock: the entry is dated now, and    *)
(* not when it was read.                                                    *)
Insert(w) == \E gone \in Evicted :
    LET node == call[w].node IN
    /\ pc[w] = "insert"
    /\ entries' = [p \in (DOMAIN entries \ gone) \cup {node.pid} |->
                     IF p = node.pid THEN [node |-> node, created |-> now] ELSE entries[p]]
    /\ Climb(w, node)
    /\ UNCHANGED <<now, proc>>

Worker(w) == Begin(w) \/ Hit(w) \/ Miss(w) \/ ReadProc(w) \/ Insert(w)

-----------------------------------------------------------------------------
Kernel == \E p \in Pids : Exit(p) \/ \E child \in Pids : Fork(p, child)

Next == Tick \/ Kernel \/ \E w \in Workers : Worker(w)

Spec == Init /\ [][Next]_vars

-----------------------------------------------------------------------------
(* Properties. *)

Nodes == [pid : Pids, ppid : Pids \cup {0}, asOf : Nat]
Entries == [node : Nodes, created : Nat]
Calls == [current : Pids \cup {0}, chain : Seq(Pids),
          node : Nodes \cup {NoNode}, started : Nat, stale : Nat]

(* Every variable has its type, and the cache never has more entries than   *)
(* it may, whichever workers insert at the same time.                       *)
TypeOK ==
    /\ now \in 0..MaxTime
    /\ proc \in [Pids -> Pids \cup {0, Free}]
    /\ DOMAIN entries \subseteq Pids /\ \A p \in DOMAIN entries : entries[p] \in Entries
    /\ Cardinality(DOMAIN entries) <= cacheMaxSize
    /\ pc \in [Workers -> {"idle", "lookup", "read", "insert"}]
    /\ call \in [Workers -> Calls]

(* Pids change hands and old entries stay, so that what is cached of two    *)
(* processes can make each the parent of the other: no tree goes round in   *)
(* circles, and none is longer than maxTreeDepth.                           *)
NoCircles ==
    \A w \in Workers : LET chain == call[w].chain IN
        /\ Len(chain) <= maxTreeDepth
        /\ \A i, j \in 1..Len(chain) : i # j => chain[i] # chain[j]

(* Nothing tells the cache that a process has gone or that its pid belongs  *)
(* to another: but what a tree shows of a pid was true less than the life   *)
(* of an entry, and the lag, before the call.                               *)
TreesAreRecent ==
    \A w \in Workers : call[w].stale < cacheEntryTTL + MaxLag
=============================================================================
