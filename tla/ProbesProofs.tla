---------------------------- MODULE ProbesProofs ----------------------------
(***************************************************************************)
(* Proofs about the probes and their ring buffer, for any tasks, arguments *)
(* and sizes: the variables keep their types, a committed record says what *)
(* its program saw and nothing else and is not written again, its args     *)
(* field is a beginning of the command line, no wake-up of the reader is   *)
(* lost, and the ring implements EventDelivery and EventRing.              *)
(***************************************************************************)
EXTENDS Probes, TLAPS

-----------------------------------------------------------------------------
(* Texts. *)

(* What is read is a beginning of the text, cut only where the room ends. *)
LEMMA ReadStrBegins ==
    ASSUME NEW text \in Text, NEW n \in Nat, n >= 1
    PROVE  LET r == ReadStr(text, n) IN
           /\ r \in Text
           /\ Len(r) \in Nat /\ Len(r) <= n - 1 /\ Len(r) <= Len(text)
           /\ \A i \in 1..Len(r) : r[i] = text[i]
           /\ r = text \/ Len(r) = n - 1
<1> DEFINE m == IF Len(text) < n - 1 THEN Len(text) ELSE n - 1
           r == SubSeq(text, 1, m)
<1> USE DEF Text
<1>1. m \in Nat /\ m <= Len(text) /\ m <= n - 1 /\ Len(text) \in Nat
    OBVIOUS
<1>2. r \in Text
    BY <1>1
<1>3. Len(r) = m
    BY <1>1
<1>4. \A i \in 1..m : r[i] = text[i]
    BY <1>1
<1>5. CASE m = n - 1
    BY <1>1, <1>2, <1>3, <1>4, <1>5 DEF ReadStr
<1>6. CASE m # n - 1
  <2>1. m = Len(text)
      BY <1>6
  <2>2. r = text
      BY <2>1, <1>1
  <2> QED
      BY <2>2, <1>1, <1>2, <1>3, <1>4 DEF ReadStr
<1> QED
    BY <1>5, <1>6

(* A text put after a beginning that is whole, with a space between. *)
LEMMA AfterSpace ==
    ASSUME NEW dst \in Text, NEW text \in Text
    PROVE  LET s == Append(dst, Space) \o text IN
           /\ s \in Text
           /\ Len(dst) \in Nat /\ Len(text) \in Nat
           /\ Len(s) = Len(dst) + 1 + Len(text)
           /\ \A i \in 1..Len(dst) : s[i] = dst[i]
           /\ s[Len(dst) + 1] = Space
           /\ \A i \in 1..Len(text) : s[Len(dst) + 1 + i] = text[i]
<1> USE DEF Text
<1> DEFINE d == Append(dst, Space)
<1>1. Space \in Letters
    BY SpaceIsLetter
<1>2. d \in Text /\ Len(dst) \in Nat /\ Len(text) \in Nat
    BY <1>1
<1>3. Len(d) = Len(dst) + 1
    BY <1>1
<1>4. \A i \in 1..Len(dst) : d[i] = dst[i]
    BY <1>1
<1>5. d[Len(dst) + 1] = Space
    BY <1>1
<1> HIDE DEF d
<1> DEFINE s == d \o text
<1>6. s \in Text /\ Len(s) = Len(d) + Len(text)
    BY <1>2
<1>7. \A i \in 1..Len(d) : s[i] = d[i]
    BY <1>2
<1>8. \A i \in 1..Len(text) : s[Len(d) + i] = text[i]
    BY <1>2
<1> HIDE DEF s
<1>9. /\ s \in Text /\ Len(s) = Len(dst) + 1 + Len(text)
      /\ \A i \in 1..Len(dst) : s[i] = dst[i]
      /\ s[Len(dst) + 1] = Space
      /\ \A i \in 1..Len(text) : s[Len(dst) + 1 + i] = text[i]
    BY <1>2, <1>3, <1>4, <1>5, <1>6, <1>7, <1>8
<1>10. s = Append(dst, Space) \o text
    BY DEF s, d
<1> QED
    BY <1>2, <1>9, <1>10

(* Two texts of the same length and the same letters are the same. *)
LEMMA SameText ==
    ASSUME NEW s \in Text, NEW r \in Text, Len(s) = Len(r),
           \A i \in 1..Len(s) : s[i] = r[i]
    PROVE  s = r
BY DEF Text

(* The whole path, and a beginning of it. *)
LEMMA ReadStrGivesBegins ==
    ASSUME NEW text \in Text
    PROVE  /\ ReadStr(text, MAX_ARGS) \in Text
           /\ Begins(ReadStr(text, MAX_ARGS), text)
BY ReadStrBegins, ArgsSizes DEF Begins

(* One more argument leaves a beginning of one more argument. *)
LEMMA ReadArgBegins ==
    ASSUME NEW args \in Text, NEW whole \in Text, NEW text \in Text,
           NEW i \in Nat, Begins(args, whole)
    PROVE  /\ ReadArg(args, i, text) \in Text
           /\ Joined(whole, i, text) \in Text
           /\ Begins(ReadArg(args, i, text), Joined(whole, i, text))
<1>1. CASE i = 0
    BY <1>1, ReadStrGivesBegins DEF ReadArg, Joined
<1>2. CASE i # 0
  <2> DEFINE w == Append(whole, Space) \o text
  <2>1. /\ w \in Text
        /\ Len(whole) \in Nat /\ Len(text) \in Nat
        /\ Len(w) = Len(whole) + 1 + Len(text)
        /\ \A k \in 1..Len(whole) : w[k] = whole[k]
        /\ w[Len(whole) + 1] = Space
        /\ \A k \in 1..Len(text) : w[Len(whole) + 1 + k] = text[k]
      BY AfterSpace
  <2>2. Joined(whole, i, text) = w
      BY <1>2 DEF Joined
  <2> HIDE DEF w
  <2>3. CASE Len(args) >= MAX_ARGS - 2
    <3>1. ReadArg(args, i, text) = args
        BY <1>2, <2>3 DEF ReadArg, AppendArg
    <3>2. Len(args) \in Nat
        BY DEF Text
    <3>3. Begins(args, w)
        BY <2>1, <2>3, <3>2 DEF Begins
    <3> QED
        BY <2>1, <2>2, <3>1, <3>3
  <2>4. CASE Len(args) < MAX_ARGS - 2
    <3> DEFINE room == MAX_ARGS - Len(args) - 1
               r == ReadStr(text, room)
               a == Append(args, Space) \o r
    <3>1. args = whole /\ Len(args) \in Nat
        BY <2>4, ArgsSizes DEF Begins, Text
    <3>2. room \in Nat /\ room >= 1
        BY <2>4, <3>1, ArgsSizes
    <3> HIDE DEF room
    <3>3. /\ r \in Text
          /\ Len(r) \in Nat /\ Len(r) <= room - 1 /\ Len(r) <= Len(text)
          /\ \A k \in 1..Len(r) : r[k] = text[k]
          /\ r = text \/ Len(r) = room - 1
        BY <3>2, ReadStrBegins
    <3>4. ReadArg(args, i, text) = a
        BY <1>2, <2>4, <3>1, ArgsSizes DEF ReadArg, AppendArg, room
    <3> HIDE DEF r
    <3>5. /\ a \in Text
          /\ Len(a) = Len(args) + 1 + Len(r)
          /\ \A k \in 1..Len(args) : a[k] = args[k]
          /\ a[Len(args) + 1] = Space
          /\ \A k \in 1..Len(r) : a[Len(args) + 1 + k] = r[k]
        BY <3>3, AfterSpace
    <3>6. Len(a) <= Len(w) /\ Len(a) < MAX_ARGS
        BY <2>1, <3>1, <3>2, <3>3, <3>5, ArgsSizes DEF room
    <3>7. ASSUME NEW k \in 1..Len(a) PROVE a[k] = w[k]
      <4>1. CASE k <= Len(args)
          BY <4>1, <2>1, <3>1, <3>5
      <4>2. CASE k = Len(args) + 1
          BY <4>2, <2>1, <3>1, <3>5
      <4>3. CASE k > Len(args) + 1
        <5> DEFINE j == k - Len(args) - 1
        <5>1. j \in 1..Len(r) /\ j \in 1..Len(text) /\ k = Len(args) + 1 + j
            BY <4>3, <3>1, <3>3, <3>5, <2>1
        <5> HIDE DEF j
        <5>2. a[Len(args) + 1 + j] = r[j] /\ w[Len(args) + 1 + j] = text[j] /\ r[j] = text[j]
            BY <5>1, <2>1, <3>1, <3>3, <3>5
        <5> QED
            BY <5>1, <5>2
      <4> QED
          BY <4>1, <4>2, <4>3, <3>1
    <3>8. a = w \/ Len(a) >= MAX_ARGS - 2
      <4>1. CASE r = text
        <5>1. a = w
            BY <4>1, <3>1 DEF w
        <5> QED
            BY <5>1
      <4>2. CASE Len(r) = room - 1
          BY <4>2, <3>1, <3>3, <3>5, ArgsSizes DEF room
      <4> QED
          BY <4>1, <4>2, <3>3
    <3>9. Begins(a, w)
        BY <3>6, <3>7, <3>8 DEF Begins
    <3> QED
        BY <2>1, <2>2, <3>4, <3>5, <3>9
  <2>5. Len(args) \in Nat
      BY DEF Text
  <2> QED
      BY <2>3, <2>4, <2>5, ArgsSizes
<1> QED
    BY <1>1, <1>2

-----------------------------------------------------------------------------
(* Records. *)

LEMMA ZeroIsBody == Zero \in Bodies
BY DEF Zero, Bodies, Text

LEMMA NoSourceIsSource == NoSource \in Sources
BY DEF NoSource, NoDest, Sources, Text

LEMMA EventTypes == ASSUME NEW prog \in Programs PROVE EventType(prog) \in 0..4
BY DEF EventType, Programs, ExecKprobes, ConnectKprobes, Tracepoints, EVENT_EXEC,
       EVENT_CONNECT, EVENT_FILE, EVENT_CLONE

(* Sources with a program. *)
Known == {src \in Sources : src.prog \in Programs}

LEMMA SaysIsBody == ASSUME NEW src \in Known, NEW args \in Text PROVE Says(src, args) \in Bodies
<1>1. EventType(src.prog) \in 0..4 /\ src \in Sources
    BY EventTypes DEF Known
<1>2. /\ src.pid \in Pids \cup {0} /\ src.comm \in Comms \cup {""}
      /\ src.dest.daddr \in Nat /\ src.dest.dport \in Nat
    BY <1>1 DEF Sources
<1> QED
    BY <1>1, <1>2 DEF Says, Bodies

LEMMA SaysArgs == ASSUME NEW src, NEW args PROVE Says(src, args).args = args
BY DEF Says

(* What each program writes is what Says says of its source. *)
LEMMA FilledSays ==
    ASSUME NEW src \in Known, NEW body \in Bodies, NEW path
    PROVE  /\ src.prog \in Programs \ ConnectKprobes =>
                /\ Header(src, body) = Says(src, <<>>)
                /\ [Header(src, body) EXCEPT !.args = path] = Says(src, path)
           /\ src.prog = "trace_connect" =>
                [Header(src, body) EXCEPT !.daddr = src.dest.daddr, !.dport = src.dest.dport]
                  = Says(src, <<>>)
           /\ src.prog = "trace_connect6" =>
                [Header(src, body) EXCEPT !.is_ipv6 = 1, !.daddr6 = src.dest.daddr,
                                          !.dport = src.dest.dport]
                  = Says(src, <<>>)
<1> DEFINE et == EventType(src.prog)
<1>0. Header(src, body) = [Zero EXCEPT !.event_type = et, !.pid = src.pid, !.comm = src.comm]
    BY DEF Header, Cleared
<1>1. /\ "trace_connect" \in ConnectKprobes /\ "trace_connect6" \in ConnectKprobes
      /\ "trace_connect" # "trace_connect6"
    BY DEF ConnectKprobes
<1> HIDE DEF et
<1>2. Header(src, body) = [event_type |-> et, pid |-> src.pid, comm |-> src.comm, args |-> <<>>,
         daddr |-> 0, daddr6 |-> 0, dport |-> 0, is_ipv6 |-> 0]
    BY <1>0 DEF Zero
<1>3. \A a : Says(src, a) = [event_type |-> et, pid |-> src.pid, comm |-> src.comm, args |-> a,
         daddr |-> IF src.prog = "trace_connect" THEN src.dest.daddr ELSE 0,
         daddr6 |-> IF src.prog = "trace_connect6" THEN src.dest.daddr ELSE 0,
         dport |-> IF src.prog \in ConnectKprobes THEN src.dest.dport ELSE 0,
         is_ipv6 |-> IF src.prog = "trace_connect6" THEN 1 ELSE 0]
    BY DEF Says, et
<1>4. CASE src.prog \in Programs \ ConnectKprobes
  <2>1. src.prog # "trace_connect" /\ src.prog # "trace_connect6" /\ src.prog \notin ConnectKprobes
      BY <1>1, <1>4
  <2> QED
      BY <1>2, <1>3, <2>1
<1>5. CASE src.prog = "trace_connect"
  <2>1. Says(src, <<>>) = [event_type |-> et, pid |-> src.pid, comm |-> src.comm, args |-> <<>>,
         daddr |-> src.dest.daddr, daddr6 |-> 0, dport |-> src.dest.dport, is_ipv6 |-> 0]
      BY <1>1, <1>3, <1>5
  <2>2. [Header(src, body) EXCEPT !.daddr = src.dest.daddr, !.dport = src.dest.dport]
          = Says(src, <<>>)
    <3> DEFINE h == Header(src, body)
               h1 == [h EXCEPT !.daddr = src.dest.daddr]
    <3>1. h1 = [event_type |-> et, pid |-> src.pid, comm |-> src.comm, args |-> <<>>,
                daddr |-> src.dest.daddr, daddr6 |-> 0, dport |-> 0, is_ipv6 |-> 0]
        BY <1>2
    <3> HIDE DEF h1
    <3>2. [h1 EXCEPT !.dport = src.dest.dport] = Says(src, <<>>)
        BY <2>1, <3>1
    <3> HIDE DEF h
    <3>3. [h EXCEPT !.daddr = src.dest.daddr, !.dport = src.dest.dport]
            = [h1 EXCEPT !.dport = src.dest.dport]
        BY DEF h1
    <3> QED
        BY <3>2, <3>3 DEF h
  <2> QED
      BY <1>1, <1>5, <2>2
<1>6. CASE src.prog = "trace_connect6"
  <2>1. Says(src, <<>>) = [event_type |-> et, pid |-> src.pid, comm |-> src.comm, args |-> <<>>,
         daddr |-> 0, daddr6 |-> src.dest.daddr, dport |-> src.dest.dport, is_ipv6 |-> 1]
      BY <1>1, <1>3, <1>6
  <2>2. [Header(src, body) EXCEPT !.is_ipv6 = 1, !.daddr6 = src.dest.daddr,
                                   !.dport = src.dest.dport]
          = Says(src, <<>>)
    <3> DEFINE h == Header(src, body)
               h1 == [h EXCEPT !.is_ipv6 = 1]
               h2 == [h1 EXCEPT !.daddr6 = src.dest.daddr]
    <3>1. h1 = [event_type |-> et, pid |-> src.pid, comm |-> src.comm, args |-> <<>>,
                daddr |-> 0, daddr6 |-> 0, dport |-> 0, is_ipv6 |-> 1]
        BY <1>2
    <3> HIDE DEF h1
    <3>2. h2 = [event_type |-> et, pid |-> src.pid, comm |-> src.comm, args |-> <<>>,
                daddr |-> 0, daddr6 |-> src.dest.daddr, dport |-> 0, is_ipv6 |-> 1]
        BY <3>1
    <3> HIDE DEF h2
    <3>3. [h2 EXCEPT !.dport = src.dest.dport] = Says(src, <<>>)
        BY <2>1, <3>2
    <3> HIDE DEF h
    <3>4. [h EXCEPT !.is_ipv6 = 1, !.daddr6 = src.dest.daddr, !.dport = src.dest.dport]
            = [h2 EXCEPT !.dport = src.dest.dport]
        BY DEF h1, h2
    <3> QED
        BY <3>3, <3>4 DEF h
  <2> QED
      BY <1>1, <1>6, <2>2
<1> QED
    BY <1>4, <1>5, <1>6

(* What setting one element of a sequence does. *)
LEMMA SetOne ==
    ASSUME NEW S, NEW s \in Seq(S), NEW k \in 1..Len(s), NEW x \in S
    PROVE  /\ [s EXCEPT ![k] = x] \in Seq(S)
           /\ Len([s EXCEPT ![k] = x]) = Len(s)
           /\ [s EXCEPT ![k] = x][k] = x
           /\ \A n \in 1..Len(s) : n # k => [s EXCEPT ![k] = x][n] = s[n]
OBVIOUS

LEMMA AddOne ==
    ASSUME NEW S, NEW s \in Seq(S), NEW x \in S
    PROVE  /\ Append(s, x) \in Seq(S)
           /\ Len(s) \in Nat
           /\ Len(Append(s, x)) = Len(s) + 1
           /\ Append(s, x)[Len(s) + 1] = x
           /\ \A n \in 1..Len(s) : Append(s, x)[n] = s[n]
OBVIOUS

LEMMA ElementOf == ASSUME NEW S, NEW s \in Seq(S), NEW n \in 1..Len(s) PROVE s[n] \in S
OBVIOUS

LEMMA HeadAndTail ==
    ASSUME NEW S, NEW s \in Seq(S), s # <<>>
    PROVE  Head(s) \in S /\ Tail(s) \in Seq(S)
OBVIOUS

-----------------------------------------------------------------------------
(* The inductive invariant. *)

Working == {"fill", "args", "submit", "discard"}

(* A program that runs holds a record of its own, busy until it is          *)
(* committed.                                                               *)
Holds ==
    \A t \in Pids :
      /\ pc[t] = "none" => run[t] = NoRun
      /\ pc[t] # "none" => run[t].slot \in 1..Len(recs) /\ run[t].prog \in Programs
      /\ pc[t] \in Working => recs[run[t].slot].state = "busy"
      /\ pc[t] = "notify" => recs[run[t].slot].state # "busy"
      /\ pc[t] \in {"fill", "args"} => run[t].i < MAX_ARGS_COUNT
      /\ pc[t] = "args" => run[t].argv # <<>>

Apart ==
    \A t, u \in Pids : (pc[t] # "none" /\ pc[u] # "none" /\ t # u) => run[t].slot # run[u].slot

(* A busy record has a program, and the reader has not passed it. *)
Owned == \A n \in 1..Len(recs) : recs[n].state = "busy" =>
            /\ head < n
            /\ \E t \in Pids : pc[t] \in Working /\ run[t].slot = n

(* What a program has written so far is right, and so is what it leaves. *)
Written(rec) ==
    /\ rec.src \in Known
    /\ rec.body = Says(rec.src, rec.body.args)
    /\ Begins(rec.body.args, rec.src.whole)

WrittenInRun == \A t \in Pids : pc[t] \in {"args", "submit"} => Written(recs[run[t].slot])
WrittenReady == \A n \in 1..Len(recs) : recs[n].state = "ready" => Written(recs[n])

(* Every event has one record, or found the ring full. *)
Numbered ==
    /\ \A n \in 1..Len(recs) : recs[n].event \in (1..seen) \ lostFull
    /\ \A m, n \in 1..Len(recs) : m # n => recs[m].event # recs[n].event

IInv ==
    /\ TypeOK /\ Holds /\ Apart /\ Owned /\ WrittenInRun /\ WrittenReady /\ Numbered
    /\ NoLostWakeup

LEMMA TextBegins == <<>> \in Text /\ Begins(<<>>, <<>>)
BY ArgsSizes DEF Text, Begins

LEMMA InitInv == Init => IInv
<1> SUFFICES ASSUME Init PROVE IInv
    OBVIOUS
<1>1. NoRun \in Runs
    BY ArgsSizes DEF NoRun, Runs
<1>2. TypeOK
  <2>1. attached \subseteq Programs
      BY AttachSetsType DEF Init
  <2>2. run \in [Pids -> Runs] /\ pc \in [Pids -> ProgramStates] /\ DOMAIN todo = Pids
      BY <1>1 DEF Init, ProgramStates
  <2>3. recs \in Seq(Records) /\ Len(recs) = 0 /\ head = 0
      BY DEF Init
  <2>4. head \in 0..Len(recs) /\ Len(recs) - head <= RingSize
      BY <2>3, RingSizePos
  <2>6. rpc \in {"poll", "read"} /\ wake \in BOOLEAN
      BY DEF Init
  <2>5. seen \in 0..MaxEvents /\ lostFull \subseteq 1..seen
      BY MaxEventsNat DEF Init
  <2> QED
      BY <2>1, <2>2, <2>3, <2>4, <2>5, <2>6 DEF TypeOK
<1>3. Len(recs) = 0 /\ head = 0 /\ \A t \in Pids : pc[t] = "none" /\ run[t] = NoRun
    BY DEF Init
<1>4. Holds /\ Apart /\ Owned /\ WrittenInRun /\ WrittenReady /\ Numbered /\ NoLostWakeup
    BY <1>3 DEF Holds, Apart, Owned, WrittenInRun, WrittenReady, Numbered, NoLostWakeup, Working
<1> QED
    BY <1>2, <1>4 DEF IInv

-----------------------------------------------------------------------------
(* What a program's writing does, whichever program it is. *)
Fills(t) ==
    /\ pc[t] \in {"fill", "args"}
    /\ \E rec \in Records :
         /\ recs' = [recs EXCEPT ![run[t].slot] = rec]
         /\ rec.state = "busy" /\ rec.event = recs[run[t].slot].event
         /\ Written(rec)
    /\ \E next \in {"args", "submit", "discard"} :
         /\ pc' = [pc EXCEPT ![t] = next]
         /\ \E r \in Runs :
              /\ run' = [run EXCEPT ![t] = r]
              /\ r.slot = run[t].slot /\ r.prog = run[t].prog
              /\ next = "args" => r.argv # <<>> /\ r.i < MAX_ARGS_COUNT
    /\ UNCHANGED fillRest

LEMMA RunParts ==
    ASSUME IInv, NEW t \in Pids, pc[t] \in {"fill", "args", "submit", "discard", "notify"}
    PROVE  /\ run[t] \in Runs /\ run[t].slot \in 1..Len(recs) /\ run[t].prog \in Programs
           /\ recs[run[t].slot] \in Records /\ recs \in Seq(Records)
           /\ DOMAIN recs = 1..Len(recs) /\ Len(recs) \in Nat
           /\ pc[t] # "notify" => recs[run[t].slot].state = "busy"
           /\ pc \in [Pids -> ProgramStates] /\ run \in [Pids -> Runs]
<1>1. run[t].slot \in 1..Len(recs) /\ run[t].prog \in Programs
    BY DEF IInv, Holds
<1>2. recs \in Seq(Records) /\ run \in [Pids -> Runs] /\ pc \in [Pids -> ProgramStates]
    BY DEF IInv, TypeOK
<1>3. recs[run[t].slot] \in Records
    BY <1>1, <1>2, ElementOf
<1>4. DOMAIN recs = 1..Len(recs) /\ Len(recs) \in Nat
    BY <1>2
<1>5. pc[t] # "notify" => recs[run[t].slot].state = "busy"
    BY DEF IInv, Holds, Working
<1> QED
    BY <1>1, <1>2, <1>3, <1>4, <1>5

(* A source, and a record that says what it is about. *)
LEMMA SourceKnown ==
    ASSUME NEW t \in Pids, NEW c \in Comms, run[t].prog \in Programs
    PROVE  Source(t, c) \in Known /\ Source(t, c).prog = run[t].prog
           /\ Source(t, c).whole = <<>> /\ Source(t, c).dest = NoDest
           /\ \A dest \in Dests :
                LET src == [Source(t, c) EXCEPT !.dest = dest] IN
                src \in Known /\ src.prog = run[t].prog /\ src.dest = dest /\ src.whole = <<>>
<1> DEFINE s == Source(t, c)
<1>1. s = [prog |-> run[t].prog, pid |-> t, comm |-> c, dest |-> NoDest, whole |-> <<>>]
    BY DEF Source, NoSource
<1>2. NoDest \in [daddr : Nat, dport : Nat] /\ <<>> \in Text
    BY DEF NoDest, Text
<1> HIDE DEF s
<1>3. s \in Known /\ s.prog = run[t].prog /\ s.whole = <<>> /\ s.dest = NoDest
    BY <1>1, <1>2 DEF Known, Sources
<1>4. ASSUME NEW dest \in Dests
      PROVE  LET src == [s EXCEPT !.dest = dest] IN
             src \in Known /\ src.prog = run[t].prog /\ src.dest = dest /\ src.whole = <<>>
  <2>1. dest \in [daddr : Nat, dport : Nat]
      BY DestsType
  <2>2. [s EXCEPT !.dest = dest]
          = [prog |-> run[t].prog, pid |-> t, comm |-> c, dest |-> dest, whole |-> <<>>]
      BY <1>1
  <2> QED
      BY <1>2, <2>1, <2>2 DEF Known, Sources
<1> QED
    BY <1>3, <1>4 DEF s

LEMMA SourceOfPath ==
    ASSUME NEW t \in Pids, NEW c \in Comms, NEW path \in Text, run[t].prog \in Programs
    PROVE  /\ [Source(t, c) EXCEPT !.whole = path] \in Known
           /\ [Source(t, c) EXCEPT !.whole = path].prog = run[t].prog
           /\ [Source(t, c) EXCEPT !.whole = path].whole = path
<1>1. NoDest \in [daddr : Nat, dport : Nat]
    BY DEF NoDest
<1>2. [Source(t, c) EXCEPT !.whole = path]
        = [prog |-> run[t].prog, pid |-> t, comm |-> c, dest |-> NoDest, whole |-> path]
    BY DEF Source
<1> QED
    BY <1>1, <1>2 DEF Known, Sources

LEMMA SaysIsWritten ==
    ASSUME NEW src \in Known, NEW args \in Text, Begins(args, src.whole),
           NEW event \in 1..MaxEvents
    PROVE  LET rec == [state |-> "busy", event |-> event, body |-> Says(src, args), src |-> src]
           IN  rec \in Records /\ rec.state = "busy" /\ rec.event = event /\ Written(rec)
<1>1. Says(src, args) \in Bodies /\ Says(src, args).args = args
    BY SaysIsBody, SaysArgs
<1>2. src \in Sources
    BY DEF Known
<1> QED
    BY <1>1, <1>2 DEF Records, Written

(* A program that writes what Says says of its source fills its record. *)
LEMMA WriteSays ==
    ASSUME IInv, NEW t \in Pids, pc[t] \in {"fill", "args"},
           NEW src \in Known, NEW args \in Text, Begins(args, src.whole),
           Write(t, Says(src, args), src)
    PROVE  \E rec \in Records :
             /\ recs' = [recs EXCEPT ![run[t].slot] = rec]
             /\ rec.state = "busy" /\ rec.event = recs[run[t].slot].event
             /\ Written(rec)
<1> DEFINE old == recs[run[t].slot]
           rec == [state |-> "busy", event |-> old.event, body |-> Says(src, args), src |-> src]
<1>1. old \in Records /\ old.state = "busy"
    BY RunParts
<1>2. old.event \in 1..MaxEvents
    BY <1>1 DEF Records
<1> HIDE DEF old
<1>3. rec \in Records /\ rec.state = "busy" /\ rec.event = old.event /\ Written(rec)
    BY <1>2, SaysIsWritten
<1>4. run[t].slot \in DOMAIN recs
    BY RunParts
<1>5. recs' = [recs EXCEPT ![run[t].slot] = rec]
    BY <1>1, <1>4 DEF Write, old
<1> QED
    BY <1>3, <1>5 DEF old

LEMMA SameRun ==
    ASSUME IInv, NEW t \in Pids, pc[t] = "fill", UNCHANGED run,
           NEW next \in {"submit", "discard"}, pc' = [pc EXCEPT ![t] = next]
    PROVE  \E n \in {"args", "submit", "discard"} :
             /\ pc' = [pc EXCEPT ![t] = n]
             /\ \E r \in Runs :
                  /\ run' = [run EXCEPT ![t] = r]
                  /\ r.slot = run[t].slot /\ r.prog = run[t].prog
                  /\ n = "args" => r.argv # <<>> /\ r.i < MAX_ARGS_COUNT
<1>1. run[t] \in Runs /\ run \in [Pids -> Runs]
    BY RunParts
<1>2. run' = [run EXCEPT ![t] = run[t]]
    BY <1>1
<1> QED
    BY <1>1, <1>2

LEMMA FillExecFills == ASSUME IInv, NEW t \in Pids, FillExec(t) PROVE Fills(t)
<1> PICK c \in Comms :
      LET src == Source(t, c) IN
      /\ pc[t] = "fill" /\ run[t].prog \in ExecKprobes
      /\ Write(t, Header(src, recs[run[t].slot].body), src)
      /\ \E argv \in Argvs :
           /\ run' = [run EXCEPT ![t].argv = argv]
           /\ pc' = [pc EXCEPT ![t] = IF argv = <<>> THEN "submit" ELSE "args"]
      /\ UNCHANGED fillRest
    BY DEF FillExec
<1> DEFINE src == Source(t, c)
<1>1. run[t].prog \in Programs /\ run[t] \in Runs /\ run \in [Pids -> Runs]
      /\ recs[run[t].slot] \in Records
    BY RunParts
<1>2. src \in Known /\ src.prog = run[t].prog /\ src.whole = <<>>
    BY <1>1, SourceKnown
<1>3. recs[run[t].slot].body \in Bodies
    BY <1>1 DEF Records
<1>4. src.prog \in Programs \ ConnectKprobes
    BY <1>2 DEF ExecKprobes, ConnectKprobes, Programs
<1>5. Write(t, Says(src, <<>>), src)
    BY <1>2, <1>3, <1>4, FilledSays
<1> HIDE DEF src
<1>6. \E rec \in Records :
         /\ recs' = [recs EXCEPT ![run[t].slot] = rec]
         /\ rec.state = "busy" /\ rec.event = recs[run[t].slot].event
         /\ Written(rec)
    BY <1>2, <1>5, TextBegins, WriteSays
<1>7. PICK argv \in Argvs :
         /\ run' = [run EXCEPT ![t].argv = argv]
         /\ pc' = [pc EXCEPT ![t] = IF argv = <<>> THEN "submit" ELSE "args"]
    OBVIOUS
<1>8. \E n \in {"args", "submit", "discard"} :
         /\ pc' = [pc EXCEPT ![t] = n]
         /\ \E r \in Runs :
              /\ run' = [run EXCEPT ![t] = r]
              /\ r.slot = run[t].slot /\ r.prog = run[t].prog
              /\ n = "args" => r.argv # <<>> /\ r.i < MAX_ARGS_COUNT
  <2> DEFINE r == [run[t] EXCEPT !.argv = argv]
             n == IF argv = <<>> THEN "submit" ELSE "args"
  <2>1. argv \in Seq(Text)
      BY ArgvsType
  <2>2. r \in Runs /\ r.slot = run[t].slot /\ r.prog = run[t].prog /\ r.argv = argv
        /\ r.i = run[t].i
      BY <1>1, <2>1 DEF Runs
  <2>3. run' = [run EXCEPT ![t] = r]
      BY <1>1, <1>7
  <2>4. run[t].i < MAX_ARGS_COUNT
      BY DEF IInv, Holds
  <2> QED
      BY <1>7, <2>2, <2>3, <2>4
<1> QED
    BY <1>6, <1>8 DEF Fills

LEMMA FillTaskFills == ASSUME IInv, NEW t \in Pids, FillTask(t) PROVE Fills(t)
<1> PICK c \in Comms :
      LET src == Source(t, c) IN
      /\ pc[t] = "fill" /\ run[t].prog \in {"trace_sched_exec", "trace_fork"}
      /\ Write(t, Header(src, recs[run[t].slot].body), src)
      /\ pc' = [pc EXCEPT ![t] = "submit"]
      /\ UNCHANGED <<fillRest, run>>
    BY DEF FillTask
<1> DEFINE src == Source(t, c)
<1>1. run[t].prog \in Programs /\ recs[run[t].slot] \in Records
    BY RunParts
<1>2. src \in Known /\ src.prog = run[t].prog /\ src.whole = <<>>
    BY <1>1, SourceKnown
<1>3. recs[run[t].slot].body \in Bodies
    BY <1>1 DEF Records
<1>4. src.prog \in Programs \ ConnectKprobes
    BY <1>1, <1>2 DEF ConnectKprobes
<1>5. Write(t, Says(src, <<>>), src)
    BY <1>2, <1>3, <1>4, FilledSays
<1> HIDE DEF src
<1>6. \E rec \in Records :
         /\ recs' = [recs EXCEPT ![run[t].slot] = rec]
         /\ rec.state = "busy" /\ rec.event = recs[run[t].slot].event
         /\ Written(rec)
    BY <1>2, <1>5, TextBegins, WriteSays
<1> QED
    BY <1>6, SameRun DEF Fills

LEMMA FillConnectFills ==
    ASSUME IInv, NEW t \in Pids, FillConnect(t) \/ FillConnect6(t)
    PROVE  Fills(t)
<1>1. CASE FillConnect(t)
  <2> PICK c \in Comms, dest \in Dests :
        LET src == [Source(t, c) EXCEPT !.dest = dest] IN
        /\ pc[t] = "fill" /\ run[t].prog = "trace_connect"
        /\ Write(t, [Header(src, recs[run[t].slot].body) EXCEPT
                       !.daddr = dest.daddr, !.dport = dest.dport], src)
        /\ pc' = [pc EXCEPT ![t] = "submit"]
        /\ UNCHANGED <<fillRest, run>>
      BY <1>1 DEF FillConnect
  <2> DEFINE src == [Source(t, c) EXCEPT !.dest = dest]
  <2>1. run[t].prog \in Programs /\ recs[run[t].slot] \in Records
      BY RunParts
  <2>2. src \in Known /\ src.prog = run[t].prog /\ src.whole = <<>> /\ src.dest = dest
      BY <2>1, SourceKnown
  <2>3. recs[run[t].slot].body \in Bodies
      BY <2>1 DEF Records
  <2>5. Write(t, [Header(src, recs[run[t].slot].body) EXCEPT
                       !.daddr = src.dest.daddr, !.dport = src.dest.dport], src)
      BY <2>2
  <2> HIDE DEF src
  <2>6. Write(t, Says(src, <<>>), src)
      BY <2>2, <2>3, <2>5, FilledSays
  <2>7. \E rec \in Records :
           /\ recs' = [recs EXCEPT ![run[t].slot] = rec]
           /\ rec.state = "busy" /\ rec.event = recs[run[t].slot].event
           /\ Written(rec)
      BY <2>2, <2>6, TextBegins, WriteSays
  <2> QED
      BY <2>7, SameRun DEF Fills
<1>2. CASE FillConnect6(t)
  <2> PICK c \in Comms, dest \in Dests :
        LET src == [Source(t, c) EXCEPT !.dest = dest] IN
        /\ pc[t] = "fill" /\ run[t].prog = "trace_connect6"
        /\ Write(t, [Header(src, recs[run[t].slot].body) EXCEPT
                       !.is_ipv6 = 1, !.daddr6 = dest.daddr, !.dport = dest.dport], src)
        /\ pc' = [pc EXCEPT ![t] = "submit"]
        /\ UNCHANGED <<fillRest, run>>
      BY <1>2 DEF FillConnect6
  <2> DEFINE src == [Source(t, c) EXCEPT !.dest = dest]
  <2>1. run[t].prog \in Programs /\ recs[run[t].slot] \in Records
      BY RunParts
  <2>2. src \in Known /\ src.prog = run[t].prog /\ src.whole = <<>> /\ src.dest = dest
      BY <2>1, SourceKnown
  <2>3. recs[run[t].slot].body \in Bodies
      BY <2>1 DEF Records
  <2>5. Write(t, [Header(src, recs[run[t].slot].body) EXCEPT
                    !.is_ipv6 = 1, !.daddr6 = src.dest.daddr, !.dport = src.dest.dport], src)
      BY <2>2
  <2> HIDE DEF src
  <2>6. Write(t, Says(src, <<>>), src)
      BY <2>2, <2>3, <2>5, FilledSays
  <2>7. \E rec \in Records :
           /\ recs' = [recs EXCEPT ![run[t].slot] = rec]
           /\ rec.state = "busy" /\ rec.event = recs[run[t].slot].event
           /\ Written(rec)
      BY <2>2, <2>6, TextBegins, WriteSays
  <2> QED
      BY <2>7, SameRun DEF Fills
<1> QED
    BY <1>1, <1>2

LEMMA OpenAtFills ==
    ASSUME IInv, NEW t \in Pids, FillOpenAt(t) \/ OpenAtNothing(t)
    PROVE  Fills(t)
<1>1. CASE FillOpenAt(t)
  <2> PICK c \in Comms, path \in Paths :
        LET src == [Source(t, c) EXCEPT !.whole = path] IN
        /\ pc[t] = "fill" /\ run[t].prog = "trace_openat"
        /\ Write(t, [Header(src, recs[run[t].slot].body) EXCEPT
                       !.args = ReadStr(path, MAX_ARGS)], src)
        /\ pc' = [pc EXCEPT ![t] = "submit"]
        /\ UNCHANGED <<fillRest, run>>
      BY <1>1 DEF FillOpenAt
  <2> DEFINE src == [Source(t, c) EXCEPT !.whole = path]
             args == ReadStr(path, MAX_ARGS)
  <2>0. path \in Text
      BY PathsType
  <2>1. run[t].prog \in Programs /\ recs[run[t].slot] \in Records
      BY RunParts
  <2>2. src \in Known /\ src.prog = run[t].prog /\ src.whole = path
      BY <2>0, <2>1, SourceOfPath
  <2>3. recs[run[t].slot].body \in Bodies
      BY <2>1 DEF Records
  <2>4. src.prog \in Programs \ ConnectKprobes
      BY <2>1, <2>2 DEF ConnectKprobes
  <2>5. args \in Text /\ Begins(args, src.whole)
      BY <2>0, <2>2, ReadStrGivesBegins
  <2>6. Write(t, [Header(src, recs[run[t].slot].body) EXCEPT !.args = args], src)
      OBVIOUS
  <2> HIDE DEF src, args
  <2>7. Write(t, Says(src, args), src)
      BY <2>2, <2>3, <2>4, <2>6, FilledSays
  <2>8. \E rec \in Records :
           /\ recs' = [recs EXCEPT ![run[t].slot] = rec]
           /\ rec.state = "busy" /\ rec.event = recs[run[t].slot].event
           /\ Written(rec)
      BY <2>2, <2>5, <2>7, WriteSays
  <2> QED
      BY <2>8, SameRun DEF Fills
<1>2. CASE OpenAtNothing(t)
  <2> PICK c \in Comms :
        LET src == Source(t, c) IN
        /\ pc[t] = "fill" /\ run[t].prog = "trace_openat"
        /\ Write(t, Header(src, recs[run[t].slot].body), src)
        /\ pc' = [pc EXCEPT ![t] = "discard"]
        /\ UNCHANGED <<fillRest, run>>
      BY <1>2 DEF OpenAtNothing
  <2> DEFINE src == Source(t, c)
  <2>1. run[t].prog \in Programs /\ recs[run[t].slot] \in Records
      BY RunParts
  <2>2. src \in Known /\ src.prog = run[t].prog /\ src.whole = <<>>
      BY <2>1, SourceKnown
  <2>3. recs[run[t].slot].body \in Bodies
      BY <2>1 DEF Records
  <2>4. src.prog \in Programs \ ConnectKprobes
      BY <2>1, <2>2 DEF ConnectKprobes
  <2>5. Write(t, Says(src, <<>>), src)
      BY <2>2, <2>3, <2>4, FilledSays
  <2> HIDE DEF src
  <2>6. \E rec \in Records :
           /\ recs' = [recs EXCEPT ![run[t].slot] = rec]
           /\ rec.state = "busy" /\ rec.event = recs[run[t].slot].event
           /\ Written(rec)
      BY <2>2, <2>5, TextBegins, WriteSays
  <2> QED
      BY <2>6, SameRun DEF Fills
<1> QED
    BY <1>1, <1>2

LEMMA ReadArgsFills == ASSUME IInv, NEW t \in Pids, ReadArgs(t) PROVE Fills(t)
<1> DEFINE r == run[t]
           rec == recs[r.slot]
           text == Head(r.argv)
           rest == Tail(r.argv)
           args == ReadArg(rec.body.args, r.i, text)
           whole == Joined(rec.src.whole, r.i, text)
           src == [rec.src EXCEPT !.whole = whole]
           next == IF rest = <<>> \/ r.i + 1 = MAX_ARGS_COUNT THEN "submit" ELSE "args"
<1>0. /\ pc[t] = "args"
      /\ Write(t, [rec.body EXCEPT !.args = args], src)
      /\ run' = [run EXCEPT ![t] = [prog |-> r.prog, slot |-> r.slot, argv |-> rest, i |-> r.i + 1]]
      /\ pc' = [pc EXCEPT ![t] = next]
      /\ UNCHANGED fillRest
    BY DEF ReadArgs
<1>1. r \in Runs /\ rec \in Records /\ r.prog \in Programs
    BY <1>0, RunParts
<1>2. rec.src \in Known /\ rec.body = Says(rec.src, rec.body.args)
      /\ Begins(rec.body.args, rec.src.whole)
    BY <1>0 DEF IInv, WrittenInRun, Written
<1>3. r.argv # <<>> /\ r.i < MAX_ARGS_COUNT
    BY <1>0 DEF IInv, Holds
<1>4. r.argv \in Seq(Text) /\ r.i \in 0..MAX_ARGS_COUNT /\ r.slot \in Nat
    BY <1>1 DEF Runs
<1>5. text \in Text /\ rest \in Seq(Text)
    BY <1>3, <1>4, HeadAndTail
<1>6. rec.body \in Bodies /\ rec.src \in Sources
    BY <1>1 DEF Records
<1>7. rec.body.args \in Text /\ rec.src.whole \in Text
    BY <1>6 DEF Bodies, Sources
<1>8. r.i \in Nat
    BY <1>4, ArgsSizes
<1>9. args \in Text /\ whole \in Text /\ Begins(args, whole)
    BY <1>2, <1>5, <1>7, <1>8, ReadArgBegins
<1> HIDE DEF args, whole, text
<1>10. src \in Known /\ src.whole = whole
  <2>1. src \in Sources /\ src.prog = rec.src.prog /\ src.whole = whole
      BY <1>6, <1>9 DEF Sources
  <2> QED
      BY <1>2, <2>1 DEF Known
<1>11. [rec.body EXCEPT !.args = args] = Says(src, args)
  <2>1. /\ src.prog = rec.src.prog /\ src.pid = rec.src.pid /\ src.comm = rec.src.comm
        /\ src.dest = rec.src.dest
      BY <1>6 DEF Sources
  <2> DEFINE old == rec.src
  <2>2. rec.body = [event_type |-> EventType(old.prog), pid |-> old.pid, comm |-> old.comm,
           args |-> rec.body.args,
           daddr |-> IF old.prog = "trace_connect" THEN old.dest.daddr ELSE 0,
           daddr6 |-> IF old.prog = "trace_connect6" THEN old.dest.daddr ELSE 0,
           dport |-> IF old.prog \in ConnectKprobes THEN old.dest.dport ELSE 0,
           is_ipv6 |-> IF old.prog = "trace_connect6" THEN 1 ELSE 0]
      BY <1>2 DEF Says
  <2> HIDE DEF old, rec
  <2>3. [rec.body EXCEPT !.args = args] =
          [event_type |-> EventType(old.prog), pid |-> old.pid, comm |-> old.comm,
           args |-> args,
           daddr |-> IF old.prog = "trace_connect" THEN old.dest.daddr ELSE 0,
           daddr6 |-> IF old.prog = "trace_connect6" THEN old.dest.daddr ELSE 0,
           dport |-> IF old.prog \in ConnectKprobes THEN old.dest.dport ELSE 0,
           is_ipv6 |-> IF old.prog = "trace_connect6" THEN 1 ELSE 0]
      BY <2>2
  <2> QED
      BY <2>1, <2>3 DEF Says, old
<1>12. Write(t, Says(src, args), src)
    BY <1>0, <1>11
<1> HIDE DEF src
<1>13. \E new \in Records :
         /\ recs' = [recs EXCEPT ![run[t].slot] = new]
         /\ new.state = "busy" /\ new.event = recs[run[t].slot].event
         /\ Written(new)
    BY <1>0, <1>9, <1>10, <1>12, WriteSays
<1>14. \E n \in {"args", "submit", "discard"} :
         /\ pc' = [pc EXCEPT ![t] = n]
         /\ \E q \in Runs :
              /\ run' = [run EXCEPT ![t] = q]
              /\ q.slot = run[t].slot /\ q.prog = run[t].prog
              /\ n = "args" => q.argv # <<>> /\ q.i < MAX_ARGS_COUNT
  <2> DEFINE q == [prog |-> r.prog, slot |-> r.slot, argv |-> rest, i |-> r.i + 1]
  <2>1. r.i + 1 \in 0..MAX_ARGS_COUNT
      BY <1>3, <1>4, ArgsSizes
  <2>2. q \in Runs /\ q.slot = run[t].slot /\ q.prog = run[t].prog /\ q.argv = rest /\ q.i = r.i + 1
      BY <1>1, <1>4, <1>5, <2>1 DEF Runs
  <2>3. next = "args" => q.argv # <<>> /\ q.i < MAX_ARGS_COUNT
      BY <2>1, <2>2, ArgsSizes
  <2>4. next \in {"args", "submit", "discard"}
      OBVIOUS
  <2> HIDE DEF q, next
  <2>5. run' = [run EXCEPT ![t] = q] /\ pc' = [pc EXCEPT ![t] = next]
      BY <1>0 DEF q
  <2> QED
      BY <2>2, <2>3, <2>4, <2>5
<1> QED
    BY <1>0, <1>13, <1>14 DEF Fills

-----------------------------------------------------------------------------
(* The steps of Next keep the invariant. *)

(* A program that goes on with its run and leaves rec as its record.        *)
Moves(t, rec, r, next) ==
    /\ pc[t] \in Working
    /\ recs' = [recs EXCEPT ![run[t].slot] = rec]
    /\ run' = [run EXCEPT ![t] = r]
    /\ pc' = [pc EXCEPT ![t] = next]
    /\ r.slot = run[t].slot /\ r.prog = run[t].prog
    /\ rec.event = recs[run[t].slot].event
    /\ next \in {"args", "submit", "discard"} => rec.state = "busy"
    /\ next = "notify" => rec.state # "busy"
    /\ next = "args" => r.argv # <<>> /\ r.i < MAX_ARGS_COUNT
    /\ next \in {"args", "submit"} \/ rec.state = "ready" => Written(rec)
    /\ UNCHANGED fillRest

LEMMA MovesKeeps ==
    ASSUME IInv, NEW t \in Pids, NEW rec \in Records, NEW r \in Runs,
           NEW next \in {"args", "submit", "discard", "notify"}, Moves(t, rec, r, next)
    PROVE  IInv'
<1> DEFINE k == run[t].slot
<1>1. pc[t] \in Working /\ pc[t] # "none"
    BY DEF Moves, Working
<1>2. /\ k \in 1..Len(recs) /\ recs \in Seq(Records) /\ Len(recs) \in Nat
      /\ pc \in [Pids -> ProgramStates] /\ run \in [Pids -> Runs]
      /\ run[t].prog \in Programs
    BY <1>1, RunParts DEF Working
<1>3. /\ recs' \in Seq(Records) /\ Len(recs') = Len(recs) /\ recs'[k] = rec
      /\ \A n \in 1..Len(recs) : n # k => recs'[n] = recs[n]
    BY <1>2, SetOne DEF Moves
<1>4. /\ pc' \in [Pids -> ProgramStates] /\ run' \in [Pids -> Runs]
      /\ pc'[t] = next /\ run'[t] = r
      /\ \A u \in Pids : u # t => pc'[u] = pc[u] /\ run'[u] = run[u]
    BY <1>2 DEF Moves, ProgramStates
<1>5. \A u \in Pids : run'[u].slot = run[u].slot /\ run'[u].prog = run[u].prog
    BY <1>4 DEF Moves
<1>6. \A u \in Pids : u # t /\ pc[u] # "none" => run[u].slot # k
    BY <1>1 DEF IInv, Apart
<1>7. \A u \in Pids : pc'[u] = "none" <=> pc[u] = "none"
    BY <1>1, <1>4
<1>8. /\ UNCHANGED <<attached, todo, head, rpc, wake, seen, lostFull>>
      /\ rec.event = recs[k].event
      /\ next \in {"args", "submit", "discard"} => rec.state = "busy"
      /\ next = "notify" => rec.state # "busy"
      /\ next = "args" => r.argv # <<>> /\ r.i < MAX_ARGS_COUNT
      /\ next \in {"args", "submit"} \/ rec.state = "ready" => Written(rec)
    BY DEF Moves, fillRest, readVars, histVars
<1> HIDE DEF k
<1>11. TypeOK'
    BY <1>3, <1>4, <1>8 DEF IInv, TypeOK
<1>12. Holds'
  <2> SUFFICES ASSUME NEW u \in Pids
               PROVE  /\ pc'[u] = "none" => run'[u] = NoRun
                      /\ pc'[u] # "none" => run'[u].slot \in 1..Len(recs') /\ run'[u].prog \in Programs
                      /\ pc'[u] \in Working => recs'[run'[u].slot].state = "busy"
                      /\ pc'[u] = "notify" => recs'[run'[u].slot].state # "busy"
                      /\ pc'[u] \in {"fill", "args"} => run'[u].i < MAX_ARGS_COUNT
                      /\ pc'[u] = "args" => run'[u].argv # <<>>
      BY DEF Holds
  <2>1. CASE u = t
    <3>1. run'[t].slot = k /\ run'[t].prog \in Programs
        BY <1>2, <1>5 DEF k
    <3> QED
        BY <2>1, <3>1, <1>2, <1>3, <1>4, <1>8 DEF Working
  <2>2. CASE u # t
    <3>1. pc'[u] = pc[u] /\ run'[u] = run[u]
        BY <1>4, <2>2
    <3>2. /\ pc[u] = "none" => run[u] = NoRun
          /\ pc[u] # "none" => run[u].slot \in 1..Len(recs) /\ run[u].prog \in Programs
          /\ pc[u] \in Working => recs[run[u].slot].state = "busy"
          /\ pc[u] = "notify" => recs[run[u].slot].state # "busy"
          /\ pc[u] \in {"fill", "args"} => run[u].i < MAX_ARGS_COUNT
          /\ pc[u] = "args" => run[u].argv # <<>>
        BY DEF IInv, Holds
    <3>3. pc[u] # "none" => recs'[run[u].slot] = recs[run[u].slot]
        BY <1>3, <1>6, <2>2, <3>2
    <3>4. "none" \notin Working
        BY DEF Working
    <3> QED
        BY <1>3, <3>1, <3>2, <3>3, <3>4
  <2> QED
      BY <2>1, <2>2
<1>13. Apart'
    BY <1>5, <1>7 DEF IInv, Apart
<1>14. Owned'
  <2> SUFFICES ASSUME NEW n \in 1..Len(recs'), recs'[n].state = "busy"
               PROVE  head' < n /\ \E u \in Pids : pc'[u] \in Working /\ run'[u].slot = n
      BY DEF Owned
  <2>1. CASE n = k
    <3>1. next \in Working
        BY <1>3, <1>8, <2>1 DEF Working
    <3>2. recs[k].state = "busy"
        BY <1>1, <1>2, RunParts DEF IInv, Holds, k
    <3>3. head < k
        BY <1>2, <3>2 DEF IInv, Owned
    <3> QED
        BY <1>4, <1>5, <1>8, <2>1, <3>1, <3>3 DEF k
  <2>2. CASE n # k
    <3>1. recs[n].state = "busy" /\ n \in 1..Len(recs)
        BY <1>3, <2>2
    <3>2. PICK u \in Pids : pc[u] \in Working /\ run[u].slot = n
        BY <3>1 DEF IInv, Owned
    <3>3. u # t
        BY <2>2, <3>2 DEF k
    <3>4. head < n
        BY <3>1 DEF IInv, Owned
    <3> QED
        BY <1>4, <1>8, <3>2, <3>3, <3>4
  <2> QED
      BY <2>1, <2>2
<1>15. WrittenInRun'
  <2> SUFFICES ASSUME NEW u \in Pids, pc'[u] \in {"args", "submit"}
               PROVE  Written(recs'[run'[u].slot])
      BY DEF WrittenInRun, Written, Known, Begins, Says
  <2>1. CASE u = t
      BY <1>3, <1>4, <1>5, <1>8, <2>1 DEF k
  <2>2. CASE u # t
    <3>1. pc[u] \in {"args", "submit"} /\ run'[u].slot = run[u].slot
        BY <1>4, <2>2
    <3>2. Written(recs[run[u].slot])
        BY <3>1 DEF IInv, WrittenInRun
    <3>3. run[u].slot \in 1..Len(recs) /\ run[u].slot # k
        BY <1>6, <2>2, <3>1 DEF IInv, Holds
    <3> QED
        BY <1>3, <3>1, <3>2, <3>3
  <2> QED
      BY <2>1, <2>2
<1>16. WrittenReady'
  <2> SUFFICES ASSUME NEW n \in 1..Len(recs'), recs'[n].state = "ready"
               PROVE  Written(recs'[n])
      BY DEF WrittenReady, Written, Known, Begins, Says
  <2>1. CASE n = k
      BY <1>3, <1>8, <2>1
  <2>2. CASE n # k
      BY <1>3, <2>2 DEF IInv, WrittenReady
  <2> QED
      BY <2>1, <2>2
<1>17. Numbered'
  <2>1. \A n \in 1..Len(recs) : recs'[n].event = recs[n].event
      BY <1>3, <1>8
  <2> QED
      BY <1>3, <1>8, <2>1 DEF IInv, Numbered
<1>18. NoLostWakeup'
  <2> SUFFICES ASSUME rpc' = "poll", ~wake', head' < Len(recs')
               PROVE  \E u \in Pids : run'[u].slot = head' + 1 /\ pc'[u] \in ProgramStates \ {"none"}
      BY DEF NoLostWakeup, WillNotify
  <2>1. rpc = "poll" /\ ~wake /\ head < Len(recs)
      BY <1>3, <1>8
  <2>2. PICK u \in Pids : run[u].slot = head + 1 /\ pc[u] \in ProgramStates \ {"none"}
      BY <2>1 DEF IInv, NoLostWakeup, WillNotify
  <2>3. pc'[u] \in ProgramStates /\ pc'[u] # "none"
      BY <1>4, <1>7, <2>2
  <2> QED
      BY <1>5, <1>8, <2>2, <2>3
<1> QED
    BY <1>11, <1>12, <1>13, <1>14, <1>15, <1>16, <1>17, <1>18 DEF IInv

LEMMA FillsKeeps == ASSUME IInv, NEW t \in Pids, Fills(t) PROVE IInv'
<1>1. PICK rec \in Records :
         /\ recs' = [recs EXCEPT ![run[t].slot] = rec]
         /\ rec.state = "busy" /\ rec.event = recs[run[t].slot].event
         /\ Written(rec)
    BY DEF Fills
<1>2. PICK next \in {"args", "submit", "discard"} :
         /\ pc' = [pc EXCEPT ![t] = next]
         /\ \E r \in Runs :
              /\ run' = [run EXCEPT ![t] = r]
              /\ r.slot = run[t].slot /\ r.prog = run[t].prog
              /\ next = "args" => r.argv # <<>> /\ r.i < MAX_ARGS_COUNT
    BY DEF Fills
<1>3. PICK r \in Runs :
         /\ run' = [run EXCEPT ![t] = r]
         /\ r.slot = run[t].slot /\ r.prog = run[t].prog
         /\ next = "args" => r.argv # <<>> /\ r.i < MAX_ARGS_COUNT
    BY <1>2
<1>4. Moves(t, rec, r, next)
    BY <1>1, <1>2, <1>3 DEF Moves, Fills, Working
<1>5. next \in {"args", "submit", "discard", "notify"}
    OBVIOUS
<1> QED
    BY <1>4, <1>5, MovesKeeps

LEMMA CommitKeeps == ASSUME IInv, NEW t \in Pids, Submit(t) \/ Discard(t) PROVE IInv'
<1> PICK state \in {"ready", "discarded"} :
      /\ Commit(t, state, "notify")
      /\ state = "ready" => pc[t] = "submit"
      /\ state = "discarded" => pc[t] = "discard"
  <2>1. CASE Submit(t)
      BY <2>1, "ready" # "discarded" DEF Submit
  <2>2. CASE Discard(t)
      BY <2>2, "ready" # "discarded" DEF Discard
  <2> QED
      BY <2>1, <2>2
<1> DEFINE old == recs[run[t].slot]
           rec == [old EXCEPT !.state = state]
<1>1. /\ run[t] \in Runs /\ old \in Records /\ run \in [Pids -> Runs]
      /\ run[t].slot \in DOMAIN recs
    BY RunParts
<1>2. /\ rec \in Records /\ rec.state = state /\ rec.event = old.event
      /\ rec.body = old.body /\ rec.src = old.src
    BY <1>1 DEF Records
<1>3. recs' = [recs EXCEPT ![run[t].slot] = rec]
    BY <1>1 DEF Commit
<1>4. state = "ready" => Written(old)
    BY DEF IInv, WrittenInRun
<1> HIDE DEF old, rec
<1>5. state = "ready" => Written(rec)
    BY <1>2, <1>4 DEF Written
<1>6. run' = [run EXCEPT ![t] = run[t]]
    BY <1>1 DEF Commit
<1>7. Moves(t, rec, run[t], "notify")
    BY <1>2, <1>3, <1>5, <1>6 DEF Moves, Commit, Working, old
<1> QED
    BY <1>1, <1>2, <1>7, MovesKeeps

LEMMA NotifyKeeps == ASSUME IInv, NEW t \in Pids, Notify(t) PROVE IInv'
<1>1. /\ pc[t] = "notify" /\ pc' = [pc EXCEPT ![t] = "none"] /\ run' = [run EXCEPT ![t] = NoRun]
      /\ wake' = (wake \/ head = run[t].slot - 1)
      /\ UNCHANGED <<attached, todo, recs, head, rpc, seen, lostFull>>
    BY DEF Notify, histVars
<1>2. NoRun \in Runs
    BY ArgsSizes DEF NoRun, Runs
<1>3. /\ pc' \in [Pids -> ProgramStates] /\ run' \in [Pids -> Runs]
      /\ pc'[t] = "none" /\ run'[t] = NoRun
      /\ \A u \in Pids : u # t => pc'[u] = pc[u] /\ run'[u] = run[u]
    BY <1>1, <1>2 DEF IInv, TypeOK, ProgramStates
<1>4. wake' \in BOOLEAN
    BY <1>1
<1>5. TypeOK'
    BY <1>1, <1>3, <1>4 DEF IInv, TypeOK
<1>6. Holds' /\ Apart'
  <2>1. Holds'
    <3> SUFFICES ASSUME NEW u \in Pids
                 PROVE  /\ pc'[u] = "none" => run'[u] = NoRun
                        /\ pc'[u] # "none" => run'[u].slot \in 1..Len(recs') /\ run'[u].prog \in Programs
                        /\ pc'[u] \in Working => recs'[run'[u].slot].state = "busy"
                        /\ pc'[u] = "notify" => recs'[run'[u].slot].state # "busy"
                        /\ pc'[u] \in {"fill", "args"} => run'[u].i < MAX_ARGS_COUNT
                        /\ pc'[u] = "args" => run'[u].argv # <<>>
        BY DEF Holds
    <3>1. CASE u = t
        BY <1>3, <3>1 DEF Working
    <3>2. CASE u # t
        BY <1>1, <1>3, <3>2 DEF IInv, Holds
    <3> QED
        BY <3>1, <3>2
  <2>2. Apart'
      BY <1>3 DEF IInv, Apart
  <2> QED
      BY <2>1, <2>2
<1>7. Owned'
  <2> SUFFICES ASSUME NEW n \in 1..Len(recs), recs[n].state = "busy"
               PROVE  head < n /\ \E u \in Pids : pc'[u] \in Working /\ run'[u].slot = n
      BY <1>1 DEF Owned
  <2>1. PICK u \in Pids : pc[u] \in Working /\ run[u].slot = n
      BY DEF IInv, Owned
  <2>2. u # t
      BY <1>1, <2>1 DEF Working
  <2>3. head < n
      BY DEF IInv, Owned
  <2> QED
      BY <1>3, <2>1, <2>2, <2>3
<1>8. WrittenInRun'
  <2> SUFFICES ASSUME NEW u \in Pids, pc'[u] \in {"args", "submit"}
               PROVE  Written(recs'[run'[u].slot])
      BY DEF WrittenInRun, Written, Known, Begins, Says
  <2>1. u # t
      BY <1>3
  <2>2. recs' = recs /\ pc'[u] = pc[u] /\ run'[u] = run[u]
      BY <1>1, <1>3, <2>1
  <2> QED
      BY <2>2 DEF IInv, WrittenInRun
<1>9. WrittenReady' /\ Numbered'
    BY <1>1 DEF IInv, WrittenReady, Numbered, Written, Known, Begins, Says
<1>10. NoLostWakeup'
  <2> SUFFICES ASSUME rpc = "poll", ~wake', head < Len(recs)
               PROVE  \E u \in Pids : run'[u].slot = head + 1 /\ pc'[u] \in ProgramStates \ {"none"}
      BY <1>1 DEF NoLostWakeup, WillNotify
  <2>1. ~wake /\ head # run[t].slot - 1
      BY <1>1
  <2>2. PICK u \in Pids : run[u].slot = head + 1 /\ pc[u] \in ProgramStates \ {"none"}
      BY <2>1 DEF IInv, NoLostWakeup, WillNotify
  <2>3. run[t].slot \in 1..Len(recs) /\ head \in 0..Len(recs) /\ Len(recs) \in Nat
      BY <1>1 DEF IInv, Holds, TypeOK
  <2>4. u # t
      BY <2>1, <2>2, <2>3
  <2> QED
      BY <1>3, <2>2, <2>4
<1> QED
    BY <1>5, <1>6, <1>7, <1>8, <1>9, <1>10 DEF IInv

(* What a new record may hold is still of a record's type. *)
LEMMA LeftoverIsBody == IInv => Leftover \in Bodies
<1> SUFFICES ASSUME IInv PROVE Leftover \in Bodies
    OBVIOUS
<1>1. recs \in Seq(Records) /\ Len(recs) \in Nat
    BY DEF IInv, TypeOK
<1>2. CASE Len(recs) < RingSize
    BY <1>2, ZeroIsBody DEF Leftover
<1>3. CASE ~(Len(recs) < RingSize)
  <2>1. Len(recs) + 1 - RingSize \in 1..Len(recs)
      BY <1>1, <1>3, RingSizePos
  <2>2. recs[Len(recs) + 1 - RingSize] \in Records
      BY <1>1, <2>1, ElementOf
  <2> QED
      BY <1>3, <2>2 DEF Leftover, Records
<1> QED
    BY <1>2, <1>3

LEMMA ReserveKeeps ==
    ASSUME IInv, NEW t \in Pids, Reserve(t), Len(recs) - head < RingSize
    PROVE  IInv'
<1> DEFINE rec == [state |-> "busy", event |-> seen + 1, body |-> Leftover, src |-> NoSource]
           k == Len(recs) + 1
           r == [prog |-> Head(todo[t]), slot |-> k, argv |-> <<>>, i |-> 0]
<1>1. recs \in Seq(Records) /\ Len(recs) \in Nat /\ head \in 0..Len(recs) /\ seen \in Nat
    BY MaxEventsNat DEF IInv, TypeOK
<1>0. ~(Len(recs) - head >= RingSize)
    BY <1>1, RingSizePos
<1>2. /\ pc[t] = "none" /\ Head(todo[t]) \in attached
      /\ seen < MaxEvents /\ seen' = seen + 1
      /\ recs' = Append(recs, rec) /\ run' = [run EXCEPT ![t] = r]
      /\ pc' = [pc EXCEPT ![t] = "fill"] /\ todo' = [todo EXCEPT ![t] = Tail(@)]
      /\ UNCHANGED <<attached, head, rpc, wake, lostFull>>
    BY <1>0 DEF Reserve, readVars
<1>3. rec \in Records /\ rec.state = "busy" /\ rec.event = seen + 1
  <2>1. seen + 1 \in 1..MaxEvents
      BY <1>1, <1>2, MaxEventsNat
  <2> QED
      BY <2>1, LeftoverIsBody, NoSourceIsSource DEF Records
<1>4. r \in Runs /\ r.slot = k /\ r.prog \in Programs /\ r.i = 0
  <2>1. Head(todo[t]) \in Programs
      BY <1>2 DEF IInv, TypeOK
  <2>2. <<>> \in Seq(Text) /\ 0 \in 0..MAX_ARGS_COUNT
      BY ArgsSizes
  <2>3. k \in Nat
      BY <1>1
  <2> QED
      BY <2>1, <2>2, <2>3 DEF Runs
<1> HIDE DEF rec, r
<1>5. /\ recs' \in Seq(Records) /\ Len(recs') = k /\ recs'[k] = rec
      /\ \A n \in 1..Len(recs) : recs'[n] = recs[n]
    BY <1>1, <1>2, <1>3, AddOne
<1>6. /\ pc' \in [Pids -> ProgramStates] /\ run' \in [Pids -> Runs]
      /\ pc'[t] = "fill" /\ run'[t] = r
      /\ \A u \in Pids : u # t => pc'[u] = pc[u] /\ run'[u] = run[u]
    BY <1>2, <1>4 DEF IInv, TypeOK, ProgramStates
<1>7. 1..k = (1..Len(recs)) \cup {k} /\ k \notin 1..Len(recs) /\ head < k /\ k > Len(recs)
    BY <1>1
<1> HIDE DEF k
<1>11. TypeOK'
  <2>1. seen' \in 0..MaxEvents /\ lostFull' \subseteq 1..seen'
      BY <1>1, <1>2, MaxEventsNat DEF IInv, TypeOK
  <2>2. head' \in 0..Len(recs') /\ Len(recs') - head' <= RingSize
      BY <1>1, <1>2, <1>5, RingSizePos DEF k
  <2>3. DOMAIN todo' = Pids
      BY <1>2 DEF IInv, TypeOK
  <2> QED
      BY <1>2, <1>5, <1>6, <2>1, <2>2, <2>3 DEF IInv, TypeOK
<1>12. Holds'
  <2> SUFFICES ASSUME NEW u \in Pids
               PROVE  /\ pc'[u] = "none" => run'[u] = NoRun
                      /\ pc'[u] # "none" => run'[u].slot \in 1..Len(recs') /\ run'[u].prog \in Programs
                      /\ pc'[u] \in Working => recs'[run'[u].slot].state = "busy"
                      /\ pc'[u] = "notify" => recs'[run'[u].slot].state # "busy"
                      /\ pc'[u] \in {"fill", "args"} => run'[u].i < MAX_ARGS_COUNT
                      /\ pc'[u] = "args" => run'[u].argv # <<>>
      BY DEF Holds
  <2>1. CASE u = t
    <3>1. k \in 1..Len(recs') /\ 0 < MAX_ARGS_COUNT
        BY <1>5, <1>7, ArgsSizes
    <3> QED
        BY <1>3, <1>4, <1>5, <1>6, <2>1, <3>1
  <2>2. CASE u # t
    <3>1. pc'[u] = pc[u] /\ run'[u] = run[u]
        BY <1>6, <2>2
    <3>2. /\ pc[u] = "none" => run[u] = NoRun
          /\ pc[u] # "none" => run[u].slot \in 1..Len(recs) /\ run[u].prog \in Programs
          /\ pc[u] \in Working => recs[run[u].slot].state = "busy"
          /\ pc[u] = "notify" => recs[run[u].slot].state # "busy"
          /\ pc[u] \in {"fill", "args"} => run[u].i < MAX_ARGS_COUNT
          /\ pc[u] = "args" => run[u].argv # <<>>
        BY DEF IInv, Holds
    <3>3. "none" \notin Working
        BY DEF Working
    <3> QED
        BY <1>5, <1>7, <3>1, <3>2, <3>3
  <2> QED
      BY <2>1, <2>2
<1>13. Apart'
  <2> SUFFICES ASSUME NEW u \in Pids, NEW v \in Pids, pc'[u] # "none", pc'[v] # "none", u # v
               PROVE  run'[u].slot # run'[v].slot
      BY DEF Apart
  <2>1. \A w \in Pids \ {t} : pc'[w] # "none" => run'[w].slot \in 1..Len(recs)
      BY <1>6 DEF IInv, Holds
  <2>2. CASE u = t \/ v = t
      BY <1>4, <1>6, <1>7, <2>1, <2>2
  <2>3. CASE u # t /\ v # t
      BY <1>6, <2>3 DEF IInv, Apart
  <2> QED
      BY <2>2, <2>3
<1>14. Owned'
  <2> SUFFICES ASSUME NEW n \in 1..Len(recs'), recs'[n].state = "busy"
               PROVE  head' < n /\ \E u \in Pids : pc'[u] \in Working /\ run'[u].slot = n
      BY DEF Owned
  <2>1. CASE n = k
      BY <1>2, <1>4, <1>6, <1>7, <2>1 DEF Working
  <2>2. CASE n # k
    <3>1. recs[n].state = "busy" /\ n \in 1..Len(recs)
        BY <1>5, <1>7, <2>2
    <3>2. PICK u \in Pids : pc[u] \in Working /\ run[u].slot = n
        BY <3>1 DEF IInv, Owned
    <3>3. u # t
        BY <1>2, <3>2 DEF Working
    <3>4. head < n
        BY <3>1 DEF IInv, Owned
    <3> QED
        BY <1>2, <1>6, <3>2, <3>3, <3>4
  <2> QED
      BY <2>1, <2>2
<1>15. WrittenInRun'
  <2> SUFFICES ASSUME NEW u \in Pids, pc'[u] \in {"args", "submit"}
               PROVE  Written(recs'[run'[u].slot])
      BY DEF WrittenInRun, Written, Known, Begins, Says
  <2>1. u # t
      BY <1>6
  <2>2. pc[u] \in {"args", "submit"} /\ run'[u] = run[u]
      BY <1>6, <2>1
  <2>3. run[u].slot \in 1..Len(recs) /\ Written(recs[run[u].slot])
      BY <2>2 DEF IInv, Holds, WrittenInRun
  <2> QED
      BY <1>5, <2>2, <2>3
<1>16. WrittenReady'
  <2> SUFFICES ASSUME NEW n \in 1..Len(recs'), recs'[n].state = "ready"
               PROVE  Written(recs'[n])
      BY DEF WrittenReady, Written, Known, Begins, Says
  <2>1. n # k
      BY <1>3, <1>5
  <2>2. n \in 1..Len(recs) /\ recs'[n] = recs[n]
      BY <1>5, <1>7, <2>1
  <2> QED
      BY <2>2 DEF IInv, WrittenReady
<1>17. Numbered'
  <2>1. \A n \in 1..Len(recs) : recs'[n].event = recs[n].event /\ recs[n].event \in (1..seen) \ lostFull
      BY <1>5 DEF IInv, Numbered
  <2>2. recs'[k].event = seen + 1 /\ seen + 1 \in (1..seen') \ lostFull
      BY <1>1, <1>2, <1>3, <1>5 DEF IInv, TypeOK
  <2>3. \A n \in 1..Len(recs) : recs[n].event # seen + 1 /\ recs[n].event \in 1..seen'
      BY <1>1, <1>2, <2>1
  <2>4. \A n \in 1..Len(recs') : recs'[n].event \in (1..seen') \ lostFull'
      BY <1>2, <1>5, <1>7, <2>1, <2>2, <2>3
  <2>5. \A m, n \in 1..Len(recs) : m # n => recs'[m].event # recs'[n].event
      BY <1>5 DEF IInv, Numbered
  <2>6. \A m, n \in 1..Len(recs') : m # n => recs'[m].event # recs'[n].event
      BY <1>5, <1>7, <2>1, <2>2, <2>3, <2>5
  <2> QED
      BY <2>4, <2>6 DEF Numbered
<1>18. NoLostWakeup'
  <2> SUFFICES ASSUME rpc = "poll", ~wake, head < Len(recs')
               PROVE  \E u \in Pids : run'[u].slot = head + 1 /\ pc'[u] \in ProgramStates \ {"none"}
      BY <1>2 DEF NoLostWakeup, WillNotify
  <2>1. CASE head = Len(recs)
      BY <1>4, <1>6, <2>1 DEF ProgramStates, k
  <2>2. CASE head # Len(recs)
    <3>1. head < Len(recs)
        BY <1>1, <2>2
    <3>2. PICK u \in Pids : run[u].slot = head + 1 /\ pc[u] \in ProgramStates \ {"none"}
        BY <3>1 DEF IInv, NoLostWakeup, WillNotify
    <3>3. u # t
        BY <1>2, <3>2
    <3> QED
        BY <1>6, <3>2, <3>3
  <2> QED
      BY <2>1, <2>2
<1> QED
    BY <1>11, <1>12, <1>13, <1>14, <1>15, <1>16, <1>17, <1>18 DEF IInv

(* Nothing of the ring changes: the system call, and an event that finds it *)
(* full.                                                                    *)
LEMMA CallsKeep ==
    ASSUME IInv, UNCHANGED <<attached, pc, run, recs, head, rpc, wake>>,
           DOMAIN todo' = Pids,
           \/ UNCHANGED <<seen, lostFull>>
           \/ seen < MaxEvents /\ seen' = seen + 1 /\ lostFull' = lostFull \cup {seen + 1}
    PROVE  IInv'
<1>1. seen \in 0..MaxEvents /\ lostFull \subseteq 1..seen
    BY DEF IInv, TypeOK
<1>2. seen' \in 0..MaxEvents /\ lostFull' \subseteq 1..seen'
  <2>1. CASE UNCHANGED <<seen, lostFull>>
      BY <1>1, <2>1
  <2>2. CASE seen < MaxEvents /\ seen' = seen + 1 /\ lostFull' = lostFull \cup {seen + 1}
    <3>1. seen + 1 \in 0..MaxEvents /\ 1..seen \subseteq 1..(seen + 1) /\ seen + 1 \in 1..(seen + 1)
        BY <1>1, <2>2, MaxEventsNat
    <3> QED
        BY <1>1, <2>2, <3>1
  <2> QED
      BY <2>1, <2>2
<1>3. TypeOK'
    BY <1>2 DEF IInv, TypeOK
<1>4. Holds' /\ Apart' /\ Owned' /\ NoLostWakeup'
    BY DEF IInv, Holds, Apart, Owned, NoLostWakeup, WillNotify
<1>5. WrittenInRun' /\ WrittenReady'
    BY DEF IInv, WrittenInRun, WrittenReady
<1>6. Numbered'
  <2>1. \A n \in 1..Len(recs) : recs[n].event \in (1..seen) \ lostFull
      BY DEF IInv, Numbered
  <2>2. \A n \in 1..Len(recs) : recs[n].event \in (1..seen') \ lostFull'
      BY <1>1, <2>1, MaxEventsNat
  <2> QED
      BY <2>2 DEF IInv, Numbered
<1> QED
    BY <1>3, <1>4, <1>5, <1>6 DEF IInv

LEMMA ReaderKeeps == ASSUME IInv, Reader PROVE IInv'
<1>0. /\ recs \in Seq(Records) /\ Len(recs) \in Nat /\ head \in 0..Len(recs)
      /\ Len(recs) - head <= RingSize
    BY DEF IInv, TypeOK
<1>1. /\ UNCHANGED <<attached, todo, pc, run, recs, seen, lostFull>>
      /\ rpc' \in {"poll", "read"} /\ wake' \in BOOLEAN
    BY DEF Reader, Poll, Take, Caught, readRest, progVars, histVars, IInv, TypeOK
<1>2. \/ UNCHANGED head
      \/ /\ head' = head + 1 /\ head < Len(recs) /\ recs[head + 1].state # "busy"
         /\ rpc' = "read"
    BY DEF Reader, Poll, Take, Caught
<1>3. TypeOK'
  <2>1. head' \in 0..Len(recs) /\ Len(recs) - head' <= RingSize
      BY <1>0, <1>2, RingSizePos
  <2> QED
      BY <1>1, <2>1 DEF IInv, TypeOK
<1>4. Holds' /\ Apart' /\ WrittenInRun' /\ WrittenReady' /\ Numbered'
  <2>1. Holds' /\ Apart' /\ Numbered'
      BY <1>1 DEF IInv, Holds, Apart, Numbered
  <2>2. WrittenInRun' /\ WrittenReady'
      BY <1>1 DEF IInv, WrittenInRun, WrittenReady
  <2> QED
      BY <2>1, <2>2
<1>5. Owned'
  <2> SUFFICES ASSUME NEW n \in 1..Len(recs), recs[n].state = "busy"
               PROVE  head' < n /\ \E u \in Pids : pc[u] \in Working /\ run[u].slot = n
      BY <1>1 DEF Owned
  <2>1. head < n /\ \E u \in Pids : pc[u] \in Working /\ run[u].slot = n
      BY DEF IInv, Owned
  <2> QED
      BY <1>0, <1>2, <2>1
<1>6. NoLostWakeup'
  <2>1. rpc' = "poll" /\ ~wake' => ~(head' < Len(recs)) \/ (rpc = "poll" /\ ~wake /\ head' = head)
      BY <1>0 DEF Reader, Poll, Take, Caught
  <2> QED
      BY <1>1, <2>1 DEF IInv, NoLostWakeup, WillNotify
<1> QED
    BY <1>3, <1>4, <1>5, <1>6 DEF IInv

LEMMA Kept == IInv /\ [Next]_vars => IInv'
<1> SUFFICES ASSUME IInv, [Next]_vars PROVE IInv'
    OBVIOUS
<1>0. DOMAIN todo = Pids
    BY DEF IInv, TypeOK
<1>1. CASE Reader
    BY <1>1, ReaderKeeps
<1>2. ASSUME NEW t \in Pids, Kernel(t) PROVE IInv'
  <2>1. /\ UNCHANGED <<attached, pc, run, recs, head, rpc, wake, seen, lostFull>>
        /\ \E s : todo' = [todo EXCEPT ![t] = s]
      BY <1>2 DEF Kernel, Exec, ExecFails, Fork, TcpConnect, OpenAt, Enter, progVars,
                  readVars, histVars
  <2>2. DOMAIN todo' = Pids
      BY <1>0, <2>1
  <2> QED
      BY <2>1, <2>2, CallsKeep
<1>3. ASSUME NEW t \in Pids, Reserve(t) PROVE IInv'
  <2>1. CASE Len(recs) - head < RingSize
      BY <1>3, <2>1, ReserveKeeps
  <2>2. CASE ~(Len(recs) - head < RingSize)
    <3>1. /\ UNCHANGED <<attached, pc, run, recs, head, rpc, wake>>
          /\ seen < MaxEvents /\ seen' = seen + 1 /\ lostFull' = lostFull \cup {seen + 1}
          /\ todo' = [todo EXCEPT ![t] = Tail(@)]
        BY <1>3, <2>2 DEF Reserve, progVars, readVars
    <3>2. DOMAIN todo' = Pids
        BY <1>0, <3>1
    <3> QED
        BY <3>1, <3>2, CallsKeep
  <2> QED
      BY <2>1, <2>2
<1>4. ASSUME NEW t \in Pids, Program(t) PROVE IInv'
  <2>1. CASE FillExec(t) \/ FillTask(t) \/ FillConnect(t) \/ FillConnect6(t) \/ FillOpenAt(t)
             \/ OpenAtNothing(t) \/ ReadArgs(t)
      BY <2>1, FillsKeeps, FillExecFills, FillTaskFills, FillConnectFills, OpenAtFills,
         ReadArgsFills
  <2>2. CASE Submit(t) \/ Discard(t)
      BY <2>2, CommitKeeps
  <2>3. CASE Notify(t)
      BY <2>3, NotifyKeeps
  <2> QED
      BY <1>4, <2>1, <2>2, <2>3 DEF Program
<1>5. CASE UNCHANGED vars
  <2>1. UNCHANGED <<attached, todo, pc, run, recs, head, rpc, wake, seen, lostFull>>
      BY <1>5 DEF vars, progVars, readVars, histVars
  <2> QED
      BY <1>0, <2>1, CallsKeep
<1> QED
    BY <1>1, <1>2, <1>3, <1>4, <1>5 DEF Next

-----------------------------------------------------------------------------
(* The theorems. *)

LEMMA Inductive == Spec => []IInv
<1>1. Init => IInv
    BY InitInv
<1>2. IInv /\ [Next]_vars => IInv'
    BY Kept
<1> QED
    BY <1>1, <1>2, PTL DEF Spec

(* Every variable of the probes keeps its type, and the ring's memory is    *)
(* never given out while the reader has not passed it.                      *)
THEOREM TypeCorrect == Spec => []TypeOK
<1>1. IInv => TypeOK
    BY DEF IInv
<1> QED
    BY <1>1, Inductive, PTL

(* Whatever lay in the ring's memory, a committed record holds what its own *)
(* program wrote.                                                           *)
THEOREM RecordsAreCleanCorrect == Spec => []RecordsAreClean
<1>1. IInv => RecordsAreClean
    BY DEF IInv, WrittenReady, Written, RecordsAreClean
<1> QED
    BY <1>1, Inductive, PTL

(* For any arguments and any size of the field, args holds a beginning of   *)
(* the command line and there is room for the final NUL.                    *)
THEOREM ArgsArePrefixCorrect == Spec => []ArgsArePrefix
<1>1. IInv => ArgsArePrefix
    BY DEF IInv, WrittenReady, Written, ArgsArePrefix
<1> QED
    BY <1>1, Inductive, PTL

(* A reader that sleeps before a record will be woken for it.               *)
THEOREM NoLostWakeupCorrect == Spec => []NoLostWakeup
<1>1. IInv => NoLostWakeup
    BY DEF IInv
<1> QED
    BY <1>1, Inductive, PTL

-----------------------------------------------------------------------------
(* The ring implements EventDelivery. *)

(* Steps that neither take nor discard a record change nothing that the     *)
(* promise is about.                                                        *)
LEMMA SameDelivery ==
    ASSUME IInv, UNCHANGED <<head, lostFull>>, Len(recs') = Len(recs),
           \A n \in 1..Len(recs) :
             /\ recs'[n].event = recs[n].event
             /\ recs'[n].state = "discarded" <=> recs[n].state = "discarded"
             /\ n <= head => recs'[n].state = recs[n].state
    PROVE  UNCHANGED <<Read, lostFull \cup Discarded>>
<1>1. head \in 0..Len(recs) /\ Len(recs) \in Nat
    BY DEF IInv, TypeOK
<1>2. \A n \in 1..head : n \in 1..Len(recs) /\ n <= head
    BY <1>1
<1>3. Read' = Read
  <2>1. \A n \in 1..head : recs'[n].event = recs[n].event /\ recs'[n].state = recs[n].state
      BY <1>2
  <2> QED
      BY <2>1 DEF Read
<1>4. Discarded' = Discarded
    BY DEF Discarded
<1> QED
    BY <1>3, <1>4

(* An event of a record that is neither read nor discarded is neither       *)
(* delivered nor lost.                                                      *)
LEMMA StillThere ==
    ASSUME IInv, NEW n \in 1..Len(recs), n > head, recs[n].state # "discarded"
    PROVE  /\ recs[n].event \in 1..seen
           /\ recs[n].event \notin Read \cup (lostFull \cup Discarded)
<1>1. head \in 0..Len(recs) /\ Len(recs) \in Nat
    BY DEF IInv, TypeOK
<1>2. recs[n].event \in (1..seen) \ lostFull
    BY DEF IInv, Numbered
<1>3. \A m \in 1..Len(recs) : recs[m].event = recs[n].event => m = n
    BY DEF IInv, Numbered
<1>4. recs[n].event \notin Read
  <2> SUFFICES ASSUME NEW m \in 1..head, recs[m].event = recs[n].event PROVE FALSE
      BY DEF Read
  <2>1. m \in 1..Len(recs) /\ m # n
      BY <1>1
  <2> QED
      BY <1>3, <2>1
<1>5. recs[n].event \notin Discarded
    BY <1>3 DEF Discarded
<1> QED
    BY <1>2, <1>4, <1>5

(* The records that are committed or written to lie before the reader.      *)
LEMMA BusyIsAhead ==
    ASSUME IInv, NEW t \in Pids, pc[t] \in Working
    PROVE  run[t].slot \in 1..Len(recs) /\ head < run[t].slot
           /\ recs[run[t].slot].state = "busy"
<1>1. run[t].slot \in 1..Len(recs) /\ recs[run[t].slot].state = "busy"
    BY RunParts DEF IInv, Holds, Working
<1> QED
    BY <1>1 DEF IInv, Owned

LEMMA FillsStutters ==
    ASSUME IInv, NEW t \in Pids, Fills(t)
    PROVE  UNCHANGED <<seen, Read, lostFull \cup Discarded>>
<1>1. PICK rec \in Records :
         /\ recs' = [recs EXCEPT ![run[t].slot] = rec]
         /\ rec.state = "busy" /\ rec.event = recs[run[t].slot].event
    BY DEF Fills
<1>2. /\ run[t].slot \in 1..Len(recs) /\ head < run[t].slot
      /\ recs[run[t].slot].state = "busy"
    BY BusyIsAhead DEF Fills, Working
<1>3. recs \in Seq(Records) /\ head \in Nat
    BY DEF IInv, TypeOK
<1>4. /\ Len(recs') = Len(recs) /\ recs'[run[t].slot] = rec
      /\ \A n \in 1..Len(recs) : n # run[t].slot => recs'[n] = recs[n]
    BY <1>1, <1>2, <1>3, SetOne
<1>5. \A n \in 1..Len(recs) :
         /\ recs'[n].event = recs[n].event
         /\ recs'[n].state = recs[n].state
    BY <1>1, <1>2, <1>4
<1>6. UNCHANGED <<head, lostFull, seen>>
    BY DEF Fills, fillRest, readVars, histVars
<1> QED
    BY <1>4, <1>5, <1>6, SameDelivery

LEMMA ReserveSees ==
    ASSUME IInv, NEW t \in Pids, Reserve(t)
    PROVE  Delivery!See \/ Delivery!SeeAndLose
<1>1. recs \in Seq(Records) /\ Len(recs) \in Nat /\ head \in 0..Len(recs)
    BY DEF IInv, TypeOK
<1>2. seen < MaxEvents /\ seen' = seen + 1 /\ head' = head
    BY DEF Reserve, readVars
<1>3. CASE Len(recs) - head < RingSize
  <2> DEFINE rec == [state |-> "busy", event |-> seen + 1, body |-> Leftover, src |-> NoSource]
  <2>1. recs' = Append(recs, rec) /\ lostFull' = lostFull
      BY <1>1, <1>2, <1>3, RingSizePos DEF Reserve
  <2>2. rec \in Records /\ rec.state = "busy"
    <3>1. seen + 1 \in 1..MaxEvents
        BY <1>2, MaxEventsNat DEF IInv, TypeOK
    <3> QED
        BY <3>1, LeftoverIsBody, NoSourceIsSource DEF Records
  <2> HIDE DEF rec
  <2>3. /\ Len(recs') = Len(recs) + 1 /\ recs'[Len(recs) + 1] = rec
        /\ \A n \in 1..Len(recs) : recs'[n] = recs[n]
      BY <1>1, <2>1, <2>2, AddOne
  <2>4. Read' = Read
    <3>1. \A n \in 1..head : recs'[n] = recs[n]
        BY <1>1, <2>3
    <3> QED
        BY <1>2, <3>1 DEF Read
  <2>5. Discarded' = Discarded
    <3>1. 1..Len(recs') = (1..Len(recs)) \cup {Len(recs) + 1}
        BY <1>1, <2>3
    <3> QED
        BY <2>2, <2>3, <3>1 DEF Discarded
  <2> QED
      BY <1>2, <2>1, <2>4, <2>5 DEF Delivery!See
<1>4. CASE ~(Len(recs) - head < RingSize)
  <2>1. UNCHANGED <<recs, head>> /\ lostFull' = lostFull \cup {seen'}
      BY <1>4 DEF Reserve, readVars
  <2>2. Read' = Read /\ Discarded' = Discarded
      BY <2>1 DEF Read, Discarded
  <2> QED
      BY <1>2, <2>1, <2>2 DEF Delivery!SeeAndLose
<1> QED
    BY <1>3, <1>4

LEMMA CommitDelivers ==
    ASSUME IInv, NEW t \in Pids, Submit(t) \/ Discard(t)
    PROVE  Delivery!Next \/ UNCHANGED <<seen, Read, lostFull \cup Discarded>>
<1> DEFINE k == run[t].slot
<1>1. /\ k \in 1..Len(recs) /\ head < k /\ recs[k].state = "busy"
    BY BusyIsAhead DEF Submit, Discard, Working
<1>2. recs \in Seq(Records) /\ Len(recs) \in Nat /\ head \in 0..Len(recs)
    BY DEF IInv, TypeOK
<1>3. UNCHANGED <<head, lostFull, seen>>
    BY DEF Submit, Discard, Commit, fillRest, readVars, histVars
<1>4. PICK state \in {"ready", "discarded"} : recs' = [recs EXCEPT ![k].state = state]
    BY DEF Submit, Discard, Commit
<1> DEFINE old == recs[k]
           rec == [old EXCEPT !.state = state]
<1>5. old \in Records /\ k \in DOMAIN recs
    BY <1>1, <1>2, ElementOf
<1>6. rec \in Records /\ rec.state = state /\ rec.event = recs[k].event
    BY <1>5 DEF Records
<1>7. recs' = [recs EXCEPT ![k] = rec]
    BY <1>4, <1>5
<1> HIDE DEF rec, k
<1>8. /\ Len(recs') = Len(recs) /\ recs'[k] = rec
      /\ \A n \in 1..Len(recs) : n # k => recs'[n] = recs[n]
    BY <1>1, <1>2, <1>6, <1>7, SetOne
<1>9. CASE state = "ready"
  <2>1. \A n \in 1..Len(recs) :
           /\ recs'[n].event = recs[n].event
           /\ recs'[n].state = "discarded" <=> recs[n].state = "discarded"
           /\ n <= head => recs'[n].state = recs[n].state
      BY <1>1, <1>2, <1>6, <1>8, <1>9
  <2> QED
      BY <1>3, <1>8, <2>1, SameDelivery
<1>10. CASE state = "discarded"
  <2>1. Read' = Read
    <3>1. \A n \in 1..head : recs'[n] = recs[n]
        BY <1>1, <1>2, <1>8
    <3> QED
        BY <1>3, <3>1 DEF Read
  <2>2. Discarded' = Discarded \cup {recs[k].event}
    <3>1. Discarded' = {recs'[n].event : n \in {m \in 1..Len(recs) : recs'[m].state = "discarded"}}
        BY <1>8 DEF Discarded
    <3>2. {m \in 1..Len(recs) : recs'[m].state = "discarded"}
            = {m \in 1..Len(recs) : recs[m].state = "discarded"} \cup {k}
        BY <1>1, <1>6, <1>8, <1>10
    <3>3. \A n \in 1..Len(recs) : recs'[n].event = recs[n].event
        BY <1>6, <1>8
    <3> DEFINE D == {m \in 1..Len(recs) : recs[m].state = "discarded"}
    <3>4. \A n \in D \cup {k} : recs'[n].event = recs[n].event
        BY <1>1, <3>3
    <3>5. Discarded' = {recs'[n].event : n \in D \cup {k}} /\ Discarded = {recs[n].event : n \in D}
        BY <3>1, <3>2 DEF Discarded
    <3> HIDE DEF D
    <3> QED
        BY <3>4, <3>5
  <2>3. /\ recs[k].event \in 1..seen
        /\ recs[k].event \notin Read \cup (lostFull \cup Discarded)
      BY <1>1, <1>2, StillThere
  <2>4. Delivery!Lose(recs[k].event)
      BY <1>3, <2>1, <2>2, <2>3 DEF Delivery!Lose
  <2> QED
      BY <2>3, <2>4 DEF Delivery!Next
<1> QED
    BY <1>9, <1>10

LEMMA TakeDelivers ==
    ASSUME IInv, Take
    PROVE  Delivery!Next \/ UNCHANGED <<seen, Read, lostFull \cup Discarded>>
<1> DEFINE k == head + 1
<1>1. /\ head' = k /\ recs[k].state # "busy" /\ head < Len(recs)
      /\ UNCHANGED <<recs, seen, lostFull>>
    BY DEF Take, readRest, histVars
<1>2. recs \in Seq(Records) /\ Len(recs) \in Nat /\ head \in 0..Len(recs)
    BY DEF IInv, TypeOK
<1>3. k \in 1..Len(recs) /\ k > head /\ 1..k = (1..head) \cup {k}
    BY <1>1, <1>2
<1>4. recs[k] \in Records
    BY <1>2, <1>3, ElementOf
<1> HIDE DEF k
<1>5. recs[k].state \in {"ready", "discarded"}
    BY <1>1, <1>4 DEF Records
<1>6. Discarded' = Discarded
    BY <1>1 DEF Discarded
<1>7. Read' = {recs[n].event : n \in {m \in 1..k : recs[m].state = "ready"}}
    BY <1>1 DEF Read
<1>8. CASE recs[k].state = "ready"
  <2>1. {m \in 1..k : recs[m].state = "ready"} = {m \in 1..head : recs[m].state = "ready"} \cup {k}
      BY <1>3, <1>8
  <2>2. Read' = Read \cup {recs[k].event}
      BY <1>7, <2>1 DEF Read
  <2>3. /\ recs[k].event \in 1..seen
        /\ recs[k].event \notin Read \cup (lostFull \cup Discarded)
      BY <1>3, <1>8, StillThere
  <2>4. Delivery!Deliver(recs[k].event)
      BY <1>1, <1>6, <2>2, <2>3 DEF Delivery!Deliver
  <2> QED
      BY <2>3, <2>4 DEF Delivery!Next
<1>9. CASE recs[k].state = "discarded"
  <2>1. {m \in 1..k : recs[m].state = "ready"} = {m \in 1..head : recs[m].state = "ready"}
      BY <1>3, <1>9
  <2> QED
      BY <1>1, <1>6, <1>7, <2>1 DEF Read
<1> QED
    BY <1>5, <1>8, <1>9

LEMMA StepDelivers ==
    IInv /\ [Next]_vars => [Delivery!Next]_<<seen, Read, lostFull \cup Discarded>>
<1> SUFFICES ASSUME IInv, [Next]_vars
             PROVE  Delivery!Next \/ UNCHANGED <<seen, Read, lostFull \cup Discarded>>
    OBVIOUS
<1>1. ASSUME UNCHANGED <<recs, head, seen, lostFull>>
      PROVE  UNCHANGED <<seen, Read, lostFull \cup Discarded>>
    BY <1>1 DEF Read, Discarded
<1>2. CASE Reader
  <2>1. CASE Take
      BY <2>1, TakeDelivers
  <2>2. CASE Poll \/ Caught
      BY <1>1, <2>2 DEF Poll, Caught, readRest, histVars
  <2> QED
      BY <1>2, <2>1, <2>2 DEF Reader
<1>3. ASSUME NEW t \in Pids, Kernel(t) PROVE UNCHANGED <<seen, Read, lostFull \cup Discarded>>
  <2>1. UNCHANGED <<recs, head, seen, lostFull>>
      BY <1>3 DEF Kernel, Exec, ExecFails, Fork, TcpConnect, OpenAt, Enter, readVars, histVars
  <2> QED
      BY <1>1, <2>1
<1>4. ASSUME NEW t \in Pids, Reserve(t) PROVE Delivery!Next
    BY <1>4, ReserveSees DEF Delivery!Next
<1>5. ASSUME NEW t \in Pids, Program(t)
      PROVE  Delivery!Next \/ UNCHANGED <<seen, Read, lostFull \cup Discarded>>
  <2>1. CASE FillExec(t) \/ FillTask(t) \/ FillConnect(t) \/ FillConnect6(t) \/ FillOpenAt(t)
             \/ OpenAtNothing(t) \/ ReadArgs(t)
      BY <2>1, FillsStutters, FillExecFills, FillTaskFills, FillConnectFills, OpenAtFills,
         ReadArgsFills
  <2>2. CASE Submit(t) \/ Discard(t)
      BY <2>2, CommitDelivers
  <2>3. CASE Notify(t)
      BY <1>1, <2>3 DEF Notify, histVars
  <2> QED
      BY <1>5, <2>1, <2>2, <2>3 DEF Program
<1>6. CASE UNCHANGED vars
    BY <1>1, <1>6 DEF vars, readVars, histVars
<1> QED
    BY <1>2, <1>3, <1>4, <1>5, <1>6 DEF Next

(* The ring implements EventDelivery: an event is read once, or was lost    *)
(* because the ring was full or there was nothing to report.                *)
THEOREM ImplementsDelivery == Spec => DeliverySpec
<1>1. Init => Delivery!Init
  <2> SUFFICES ASSUME Init PROVE Delivery!Init
      OBVIOUS
  <2>1. recs = <<>> /\ head = 0 /\ seen = 0 /\ lostFull = {}
      BY DEF Init
  <2>2. Read = {} /\ Discarded = {}
      BY <2>1 DEF Read, Discarded
  <2> QED
      BY <2>1, <2>2 DEF Delivery!Init
<1>2. IInv /\ [Next]_vars => [Delivery!Next]_<<seen, Read, lostFull \cup Discarded>>
    BY StepDelivers
<1> QED
    BY <1>1, <1>2, Inductive, PTL DEF Spec, DeliverySpec, Delivery!Spec
-----------------------------------------------------------------------------
(* How the records change: one is added, or one that is busy is written.    *)

Added == \E rec \in Records : recs' = Append(recs, rec) /\ rec.event = seen'
Rewritten ==
    \E k \in 1..Len(recs), rec \in Records :
        /\ recs[k].state = "busy" /\ rec.event = recs[k].event
        /\ recs' = [recs EXCEPT ![k] = rec]

LEMMA FillsRewrites ==
    ASSUME IInv, NEW t \in Pids, Fills(t)
    PROVE  Rewritten /\ UNCHANGED <<head, seen, lostFull>>
<1>1. run[t].slot \in 1..Len(recs) /\ recs[run[t].slot].state = "busy"
    BY BusyIsAhead DEF Fills, Working
<1> QED
    BY <1>1 DEF Fills, Rewritten, fillRest, readVars, histVars

LEMMA CommitRewrites ==
    ASSUME IInv, NEW t \in Pids, Submit(t) \/ Discard(t)
    PROVE  Rewritten /\ UNCHANGED <<head, seen, lostFull>>
<1> DEFINE k == run[t].slot
<1>1. k \in 1..Len(recs) /\ recs[k].state = "busy" /\ recs \in Seq(Records)
    BY BusyIsAhead DEF Submit, Discard, Working, IInv, TypeOK
<1>2. PICK state \in {"ready", "discarded"} : recs' = [recs EXCEPT ![k].state = state]
    BY DEF Submit, Discard, Commit
<1> DEFINE rec == [recs[k] EXCEPT !.state = state]
<1>3. recs[k] \in Records /\ k \in DOMAIN recs
    BY <1>1, ElementOf
<1>4. rec \in Records /\ rec.event = recs[k].event
    BY <1>3 DEF Records
<1>5. recs' = [recs EXCEPT ![k] = rec]
    BY <1>2, <1>3
<1>6. UNCHANGED <<head, seen, lostFull>>
    BY DEF Submit, Discard, Commit, fillRest, readVars, histVars
<1> HIDE DEF rec
<1> QED
    BY <1>1, <1>4, <1>5, <1>6 DEF Rewritten

LEMMA ReserveAdds ==
    ASSUME IInv, NEW t \in Pids, Reserve(t)
    PROVE  /\ seen < MaxEvents /\ seen' = seen + 1 /\ UNCHANGED head
           /\ \/ Len(recs) - head < RingSize /\ Added /\ UNCHANGED lostFull
              \/ /\ Len(recs) - head >= RingSize
                 /\ lostFull' = lostFull \cup {seen'} /\ UNCHANGED recs
<1>1. seen < MaxEvents /\ seen' = seen + 1 /\ head' = head
    BY DEF Reserve, readVars
<1>2. CASE Len(recs) - head < RingSize /\ lostFull' = lostFull
  <2> DEFINE rec == [state |-> "busy", event |-> seen', body |-> Leftover, src |-> NoSource]
  <2>1. recs' = Append(recs, rec) \/ Len(recs) - head >= RingSize
      BY <1>2 DEF Reserve
  <2>2. seen' \in 1..MaxEvents /\ Len(recs) - head \in Nat /\ RingSize \in Nat
      BY <1>1, MaxEventsNat, RingSizePos DEF IInv, TypeOK
  <2>3. rec \in Records /\ rec.event = seen'
      BY <2>2, LeftoverIsBody, NoSourceIsSource DEF Records
  <2>4. recs' = Append(recs, rec)
      BY <1>2, <2>1, <2>2
  <2> HIDE DEF rec
  <2> QED
      BY <1>1, <1>2, <2>3, <2>4 DEF Added
<1> QED
    BY <1>1, <1>2 DEF Reserve

LEMMA RecordsStep ==
    ASSUME IInv, [Next]_vars
    PROVE  \/ UNCHANGED <<recs, head, seen, lostFull>>
           \/ Take
           \/ \E t \in Pids : Reserve(t)
           \/ Rewritten /\ UNCHANGED <<head, seen, lostFull>>
<1>1. CASE Reader
    BY <1>1 DEF Reader, Poll, Caught, readRest, histVars
<1>2. ASSUME NEW t \in Pids, Kernel(t) PROVE UNCHANGED <<recs, head, seen, lostFull>>
    BY <1>2 DEF Kernel, Exec, ExecFails, Fork, TcpConnect, OpenAt, Enter, readVars, histVars
<1>3. ASSUME NEW t \in Pids, Program(t)
      PROVE  \/ UNCHANGED <<recs, head, seen, lostFull>>
             \/ Rewritten /\ UNCHANGED <<head, seen, lostFull>>
  <2>1. CASE FillExec(t) \/ FillTask(t) \/ FillConnect(t) \/ FillConnect6(t) \/ FillOpenAt(t)
             \/ OpenAtNothing(t) \/ ReadArgs(t)
      BY <2>1, FillsRewrites, FillExecFills, FillTaskFills, FillConnectFills, OpenAtFills,
         ReadArgsFills
  <2>2. CASE Notify(t)
      BY <2>2 DEF Notify, histVars
  <2> QED
      BY <1>3, <2>1, <2>2, CommitRewrites DEF Program
<1>4. CASE UNCHANGED vars
    BY <1>4 DEF vars, readVars, histVars
<1> QED
    BY <1>1, <1>2, <1>3, <1>4 DEF Next

(* Whatever programs run on however many CPUs, none writes a record again   *)
(* that was committed, its own or another's, and none is committed twice.   *)
THEOREM RecordsAreFinalCorrect == Spec => RecordsAreFinal
<1>1. IInv /\ [Next]_vars => \A n \in 1..Len(recs) : recs[n].state # "busy" => recs'[n] = recs[n]
  <2> SUFFICES ASSUME IInv, [Next]_vars, NEW n \in 1..Len(recs), recs[n].state # "busy"
               PROVE  recs'[n] = recs[n]
      OBVIOUS
  <2>1. recs \in Seq(Records)
      BY DEF IInv, TypeOK
  <2>2. CASE UNCHANGED recs
      BY <2>2
  <2>3. ASSUME NEW t \in Pids, Reserve(t) PROVE recs'[n] = recs[n]
    <3>1. Added \/ UNCHANGED recs
        BY <2>3, ReserveAdds
    <3> QED
        BY <2>1, <3>1, AddOne DEF Added
  <2>4. CASE Rewritten
      BY <2>1, <2>4, SetOne DEF Rewritten
  <2> QED
      BY <2>2, <2>3, <2>4, RecordsStep DEF Take, readRest
<1>2. IInv /\ [Next]_vars
        => [\A n \in 1..Len(recs) : recs[n].state # "busy" => recs'[n] = recs[n]]_vars
    BY <1>1
<1> QED
    BY <1>2, Inductive, PTL DEF Spec, RecordsAreFinal

-----------------------------------------------------------------------------
(* The ring is a bounded queue. *)

LEMMA EventsFrom ==
    ASSUME NEW rs \in Seq(Records), NEW h \in Nat, h <= Len(rs)
    PROVE  /\ [i \in 1..Len(rs) - h |-> rs[h + i].event] \in Seq(Nat)
           /\ Len([i \in 1..Len(rs) - h |-> rs[h + i].event]) = Len(rs) - h
<1>1. ASSUME NEW i \in 1..Len(rs) - h PROVE rs[h + i].event \in Nat
  <2>1. h + i \in 1..Len(rs)
      OBVIOUS
  <2>2. rs[h + i] \in Records
      BY <2>1, ElementOf
  <2> QED
      BY <2>2, MaxEventsNat DEF Records
<1> DEFINE n == Len(rs) - h
           u == [i \in 1..n |-> rs[h + i].event]
<1>2. n \in Nat
    OBVIOUS
<1> HIDE DEF n
<1>3. u \in [1..n -> Nat]
    BY <1>1 DEF n
<1>4. u \in Seq(Nat) /\ Len(u) = n
    BY <1>2, <1>3
<1> QED
    BY <1>4 DEF n

LEMMA UnreadType ==
    ASSUME IInv
    PROVE  /\ recs \in Seq(Records) /\ Len(recs) \in Nat /\ head \in Nat /\ head <= Len(recs)
           /\ Len(recs) - head <= RingSize /\ RingSize \in Nat
           /\ Unread \in Seq(Nat) /\ Len(Unread) = Len(recs) - head
<1>1. /\ recs \in Seq(Records) /\ Len(recs) \in Nat /\ head \in Nat /\ head <= Len(recs)
      /\ Len(recs) - head <= RingSize /\ RingSize \in Nat
    BY RingSizePos DEF IInv, TypeOK
<1> QED
    BY <1>1, EventsFrom DEF Unread

LEMMA NextUnreadType ==
    ASSUME IInv'
    PROVE  Unread' \in Seq(Nat) /\ Len(Unread') = Len(recs') - head'
<1>1. recs' \in Seq(Records) /\ head' \in Nat /\ head' <= Len(recs')
    BY DEF IInv, TypeOK
<1> QED
    BY <1>1, EventsFrom DEF Unread

LEMMA SameUnread ==
    ASSUME IInv, head' = head, Len(recs') = Len(recs),
           \A n \in 1..Len(recs) : recs'[n].event = recs[n].event
    PROVE  Unread' = Unread
<1>1. \A i \in 1..Len(recs) - head : head + i \in 1..Len(recs)
    BY UnreadType
<1> QED
    BY <1>1 DEF Unread

LEMMA TakeReleases == ASSUME IInv, IInv', Take PROVE Ring!Release
<1>1. /\ head' = head + 1 /\ head < Len(recs) /\ UNCHANGED <<recs, seen, lostFull>>
    BY DEF Take, readRest, histVars
<1> DEFINE n == Len(recs) - head
<1>2. /\ Unread \in Seq(Nat) /\ Len(Unread) = n /\ n \in Nat /\ n >= 1 /\ head \in Nat
      /\ Len(recs) - head' = n - 1
  <2>1. /\ Unread \in Seq(Nat) /\ Len(Unread) = Len(recs) - head
        /\ Len(recs) \in Nat /\ head \in Nat /\ head <= Len(recs)
      BY UnreadType
  <2> QED
      BY <1>1, <2>1
<1>3. Unread' \in Seq(Nat) /\ Len(Unread') = n - 1
  <2>1. Unread' \in Seq(Nat) /\ Len(Unread') = Len(recs') - head'
      BY NextUnreadType
  <2> QED
      BY <1>1, <1>2, <2>1
<1>4. \A i \in 1..n - 1 : Unread'[i] = Unread[i + 1]
  <2> SUFFICES ASSUME NEW i \in 1..n - 1 PROVE Unread'[i] = Unread[i + 1]
      OBVIOUS
  <2>1. i \in 1..Len(recs') - head' /\ i + 1 \in 1..Len(recs) - head
        /\ head' + i = head + (i + 1)
      BY <1>1, <1>2
  <2>2. Unread'[i] = recs'[head' + i].event /\ Unread[i + 1] = recs[head + (i + 1)].event
      BY <2>1 DEF Unread
  <2> QED
      BY <1>1, <2>1, <2>2
<1> HIDE DEF n
<1>5. ASSUME NEW s \in Seq(Nat), NEW r \in Seq(Nat), NEW m \in Nat, m >= 1, Len(s) = m,
             Len(r) = m - 1, \A i \in 1..m - 1 : r[i] = s[i + 1]
      PROVE  s # <<>> /\ r = Tail(s)
  <2>1. s # <<>> /\ Tail(s) \in Seq(Nat) /\ Len(Tail(s)) = m - 1
      BY <1>5
  <2>2. \A i \in 1..m - 1 : Tail(s)[i] = s[i + 1]
      BY <1>5
  <2>3. ASSUME NEW q \in Seq(Nat), Len(q) = m - 1, \A i \in 1..m - 1 : q[i] = r[i] PROVE r = q
      BY <1>5, <2>3
  <2> QED
      BY <1>5, <2>1, <2>2, <2>3
<1>6. Unread # <<>> /\ Unread' = Tail(Unread)
    BY <1>2, <1>3, <1>4, <1>5
<1> QED
    BY <1>1, <1>6 DEF Ring!Release

LEMMA ReserveCaptures == ASSUME IInv, IInv', NEW t \in Pids, Reserve(t) PROVE Ring!Capture
<1>1. seen < MaxEvents /\ seen' = seen + 1 /\ head' = head
    BY ReserveAdds
<1> DEFINE n == Len(recs) - head
<1>2. /\ recs \in Seq(Records) /\ Unread \in Seq(Nat) /\ Len(Unread) = n /\ n \in Nat
      /\ head \in Nat /\ Len(recs) \in Nat /\ n <= RingSize /\ RingSize \in Nat
    BY UnreadType
<1>3. CASE n < RingSize /\ Added /\ lostFull' = lostFull
  <2>1. PICK rec \in Records : recs' = Append(recs, rec) /\ rec.event = seen'
      BY <1>3 DEF Added
  <2>2. /\ Len(recs') = Len(recs) + 1 /\ recs'[Len(recs) + 1] = rec
        /\ \A i \in 1..Len(recs) : recs'[i] = recs[i]
      BY <1>2, <2>1, AddOne
  <2>3. Unread' \in Seq(Nat) /\ Len(Unread') = n + 1
    <3>1. Unread' \in Seq(Nat) /\ Len(Unread') = Len(recs') - head'
        BY NextUnreadType
    <3> QED
        BY <1>1, <1>2, <2>2, <3>1
  <2>4. ASSUME NEW i \in 1..n PROVE Unread'[i] = Unread[i]
    <3>1. i \in 1..Len(recs') - head' /\ i \in 1..Len(recs) - head /\ head + i \in 1..Len(recs)
        BY <1>1, <1>2, <2>2
    <3>2. Unread'[i] = recs'[head' + i].event /\ Unread[i] = recs[head + i].event
        BY <3>1 DEF Unread
    <3> QED
        BY <1>1, <2>2, <3>1, <3>2
  <2>5. Unread'[n + 1] = seen'
    <3>1. n + 1 \in 1..Len(recs') - head' /\ head' + (n + 1) = Len(recs) + 1
        BY <1>1, <1>2, <2>2
    <3>2. Unread'[n + 1] = recs'[head' + (n + 1)].event
        BY <3>1 DEF Unread
    <3> QED
        BY <2>1, <2>2, <3>1, <3>2
  <2> HIDE DEF n
  <2>6. ASSUME NEW s \in Seq(Nat), NEW r \in Seq(Nat), NEW e \in Nat, n \in Nat, Len(s) = n,
               Len(r) = n + 1, \A i \in 1..n : r[i] = s[i], r[n + 1] = e
        PROVE  r = Append(s, e)
      BY <2>6
  <2>7. seen' \in Nat
      BY <1>1 DEF IInv, TypeOK
  <2>8. Unread' = Append(Unread, seen')
      BY <1>2, <2>3, <2>4, <2>5, <2>6, <2>7
  <2> QED
      BY <1>1, <1>2, <1>3, <2>8 DEF Ring!Capture
<1>4. CASE n >= RingSize /\ lostFull' = lostFull \cup {seen'} /\ UNCHANGED recs
  <2>1. Unread' = Unread
      BY <1>1, <1>4, SameUnread
  <2>2. Len(Unread) = RingSize
      BY <1>2, <1>4
  <2> QED
      BY <1>1, <1>4, <2>1, <2>2 DEF Ring!Capture
<1> QED
    BY <1>3, <1>4, ReserveAdds

LEMMA StepOfRing ==
    IInv /\ IInv' /\ [Next]_vars => [Ring!Next]_<<seen, Unread, lostFull>>
<1> SUFFICES ASSUME IInv, IInv', [Next]_vars
             PROVE  Ring!Next \/ UNCHANGED <<seen, Unread, lostFull>>
    OBVIOUS
<1>1. CASE UNCHANGED <<recs, head, seen, lostFull>>
    BY <1>1 DEF Unread
<1>2. CASE Rewritten /\ UNCHANGED <<head, seen, lostFull>>
  <2>1. PICK k \in 1..Len(recs), rec \in Records :
           rec.event = recs[k].event /\ recs' = [recs EXCEPT ![k] = rec]
      BY <1>2 DEF Rewritten
  <2>2. /\ Len(recs') = Len(recs) /\ recs'[k] = rec
        /\ \A n \in 1..Len(recs) : n # k => recs'[n] = recs[n]
      BY <2>1, SetOne DEF IInv, TypeOK
  <2>3. \A n \in 1..Len(recs) : recs'[n].event = recs[n].event
      BY <2>1, <2>2
  <2> QED
      BY <1>2, <2>2, <2>3, SameUnread
<1> QED
    BY <1>1, <1>2, RecordsStep, TakeReleases, ReserveCaptures DEF Ring!Next

(* For any tasks and any size, the ring with its reservations and commits   *)
(* out of order is a bounded queue of the events in the order in which they *)
(* were seen.                                                               *)
THEOREM ImplementsRing == Spec => RingSpec
<1>1. Init => Ring!Init
  <2> SUFFICES ASSUME Init PROVE Ring!Init
      OBVIOUS
  <2>1. recs = <<>> /\ head = 0 /\ seen = 0 /\ lostFull = {}
      BY DEF Init
  <2>2. Unread = <<>>
      BY <2>1 DEF Unread
  <2> QED
      BY <2>1, <2>2 DEF Ring!Init
<1>2. IInv /\ IInv' /\ [Next]_vars => [Ring!Next]_(Ring!vars)
    BY StepOfRing DEF Ring!vars
<1> QED
    BY <1>1, <1>2, Inductive, PTL DEF Spec, RingSpec, Ring!Spec
=============================================================================
