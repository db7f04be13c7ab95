------------------------------- MODULE Probes -------------------------------
(***************************************************************************)
(* The eBPF programs of the agent and the ring buffer between them and the *)
(* reader.  A task makes system calls; where a program is attached, the    *)
(* kernel runs it: it reserves a record, clears it, writes into it what it *)
(* knows of the task and of the call, and commits it, or discards it.      *)
(* Tasks run on several CPUs, so records are reserved in one order and     *)
(* committed in another; the reader takes them in the order of the         *)
(* reservations, sleeps when there is none, and relies on the committing   *)
(* program to wake it.                                                     *)
(***************************************************************************)
EXTENDS Naturals, Sequences

CONSTANTS
    Pids,               \* the tasks, by their pids
    Comms,              \* names a task can bear
    Letters, Space,     \* what texts are made of, the space among it
    Argvs,              \* what an exec's argument register can point to: lists of texts
    Paths,              \* what openat's argument can point to: texts
    Dests,              \* destinations a socket can hold when it is connected
    RingSize,           \* capacity of the ring buffer, in records
    MAX_ARGS,           \* size of a record's args field, with the final NUL
    MAX_ARGS_COUNT,     \* how many arguments of an exec are copied
    AttachSets,         \* which programs the kernel may let LoadProgram attach
    MaxEvents           \* bound: how often a program looks for room

(* The kernel's calls into the programs, by the names of the programs. *)
ExecKprobes == {"trace_execve", "trace_execveat", "trace_exec_common"}
ConnectKprobes == {"trace_connect", "trace_connect6"}
Tracepoints == {"trace_sched_exec", "trace_fork", "trace_openat"}
Programs == ExecKprobes \cup ConnectKprobes \cup Tracepoints

(* A text is a sequence of letters; one that cannot be read reads as empty. *)
Text == Seq(Letters)

ASSUME PidsPos == Pids \subseteq Nat \ {0}
ASSUME DestsType == Dests \subseteq [daddr : Nat, dport : Nat]
ASSUME RingSizePos == RingSize \in Nat \ {0}
ASSUME ArgsSizes == MAX_ARGS \in Nat /\ MAX_ARGS >= 3 /\ MAX_ARGS_COUNT \in Nat \ {0}
ASSUME ArgvsType == \A argv \in Argvs : argv \in Seq(Text)
ASSUME PathsType == Paths \subseteq Text
ASSUME SpaceIsLetter == Space \in Letters
ASSUME AttachSetsType == AttachSets \subseteq SUBSET Programs
ASSUME MaxEventsNat == MaxEvents \in Nat

VARIABLES
    attached,           \* the programs LoadProgram attached
    todo,               \* the programs that each task's system call has still to run
    pc,                 \* where the program that runs for the task is
    run,                \* that program, its record, and the arguments it has still to read
    recs,               \* all records ever reserved, in order
    head,               \* how many of them the reader has passed
    rpc,                \* the reader: "poll" or "read"
    wake,               \* there is something for the reader's poll to look at
    seen,               \* history: how many events the programs saw
    lostFull            \* history: the events that found the ring full

progVars == <<pc, run>>
readVars == <<head, rpc, wake>>
histVars == <<seen, lostFull>>
vars == <<attached, todo, progVars, recs, readVars, histVars>>

-----------------------------------------------------------------------------
(* Records. *)

EVENT_EXEC == 1
EVENT_CONNECT == 2
EVENT_FILE == 3
EVENT_CLONE == 4

EventType(prog) ==
    CASE prog \in ExecKprobes \cup {"trace_sched_exec"} -> EVENT_EXEC
      [] prog \in ConnectKprobes -> EVENT_CONNECT
      [] prog = "trace_openat" -> EVENT_FILE
      [] prog = "trace_fork" -> EVENT_CLONE

(* struct event.  pid stands for pid, tgid and uid. *)
Zero == [event_type |-> 0, pid |-> 0, comm |-> "", args |-> <<>>,
         daddr |-> 0, daddr6 |-> 0, dport |-> 0, is_ipv6 |-> 0]

(* skc_daddr or skc_v6_daddr, and skc_dport, of a new socket. *)
NoDest == [daddr |-> 0, dport |-> 0]

(* What a program's run is about; whole is a history: the text that the     *)
(* arguments it has looked at would be without the limit of the field.      *)
NoSource == [prog |-> "none", pid |-> 0, comm |-> "", dest |-> NoDest, whole |-> <<>>]

(* The ring's memory is used again: the n-th reservation gets what the one  *)
(* RingSize before it left there, or the zeroes of a new map.               *)
Leftover == IF Len(recs) < RingSize THEN Zero ELSE recs[Len(recs) + 1 - RingSize].body

-----------------------------------------------------------------------------
(* Texts. *)

(* bpf_probe_read_user_str with room for n bytes, the NUL among them. *)
ReadStr(text, n) == SubSeq(text, 1, IF Len(text) < n - 1 THEN Len(text) ELSE n - 1)

(* Mutant of AppendArg: the size given is that of the field, not of the     *)
(* rest of it.                                                              *)
AppendArgOverrun(dst, src) ==
    IF Len(dst) >= MAX_ARGS - 2 THEN dst ELSE Append(dst, Space) \o ReadStr(src, MAX_ARGS)

(* append_arg: a space and as much of the text as there is room for, unless *)
(* there is room for nothing.                                               *)
AppendArg(dst, src) ==
    IF Len(dst) >= MAX_ARGS - 2 THEN dst
    ELSE Append(dst, Space) \o ReadStr(src, MAX_ARGS - Len(dst) - 1)

(* One round of read_args' loop, on what the field holds. *)
ReadArg(args, i, text) ==
    IF i = 0 THEN ReadStr(text, MAX_ARGS) ELSE AppendArg(args, text)

(* The same without the limit. *)
Joined(whole, i, text) == IF i = 0 THEN text ELSE Append(whole, Space) \o text

-----------------------------------------------------------------------------
NoRun == [prog |-> "none", slot |-> 0, argv |-> <<>>, i |-> 0]

Init ==
    /\ attached \in AttachSets
    /\ todo = [t \in Pids |-> <<>>]
    /\ pc = [t \in Pids |-> "none"]
    /\ run = [t \in Pids |-> NoRun]
    /\ recs = <<>>
    /\ head = 0 /\ rpc = "poll" /\ wake = FALSE
    /\ seen = 0 /\ lostFull = {}

-----------------------------------------------------------------------------
(* System calls, and the programs on the kernel's way through them, as far  *)
(* as they could be attached.                                               *)

Enter(t, progs) ==
    /\ pc[t] = "none" /\ todo[t] = <<>>
    /\ seen < MaxEvents
    /\ todo' = [todo EXCEPT ![t] = SelectSeq(progs, LAMBDA p : p \in attached)]
    /\ UNCHANGED <<attached, progVars, recs, readVars, histVars>>

(* execve or execveat: both come through do_execveat_common.                *)
Exec(t) == \E entry \in {"trace_execve", "trace_execveat"} :
    Enter(t, <<entry, "trace_exec_common", "trace_sched_exec">>)

(* The tracepoint is behind the point where an exec can fail. *)
ExecFails(t) ==
    /\ pc[t] = "none" /\ todo[t] # <<>>
    /\ Head(todo[t]) = "trace_sched_exec"
    /\ todo' = [todo EXCEPT ![t] = <<>>]
    /\ UNCHANGED <<attached, progVars, recs, readVars, histVars>>

Fork(t) == Enter(t, <<"trace_fork">>)

TcpConnect(t) == \E prog \in ConnectKprobes : Enter(t, <<prog>>)

OpenAt(t) == Enter(t, <<"trace_openat">>)

Kernel(t) == Exec(t) \/ ExecFails(t) \/ Fork(t) \/ TcpConnect(t) \/ OpenAt(t)

-----------------------------------------------------------------------------
(* A program's run.  The record is its own until it commits it. *)

(* bpf_ringbuf_reserve: the record is busy; with no room for it the program *)
(* returns and the event leaves no trace.  (The kernel hands the connect    *)
(* programs a socket always.)                                               *)
Reserve(t) ==
    /\ pc[t] = "none" /\ todo[t] # <<>>
    /\ Head(todo[t]) \in attached
    /\ seen < MaxEvents
    /\ seen' = seen + 1
    /\ todo' = [todo EXCEPT ![t] = Tail(@)]
    /\ \/ /\ Len(recs) - head < RingSize
          /\ recs' = Append(recs, [state |-> "busy", event |-> seen',
                                   body |-> Leftover, src |-> NoSource])
          /\ run' = [run EXCEPT ![t] = [prog |-> Head(todo[t]), slot |-> Len(recs) + 1,
                                          argv |-> <<>>, i |-> 0]]
          /\ pc' = [pc EXCEPT ![t] = "fill"]
          /\ UNCHANGED lostFull
       \/ /\ Len(recs) - head >= RingSize
          /\ lostFull' = lostFull \cup {seen'}
          /\ UNCHANGED <<recs, progVars>>
    /\ UNCHANGED <<attached, readVars>>

(* Mutant of Cleared: no memset. *)
NotCleared(body) == body

(* __builtin_memset(e, 0, sizeof( *e)). *)
Cleared(body) == Zero

(* What every program writes first.  The task's name is the old one in the  *)
(* kprobes of an exec and the new one in the tracepoint.                    *)
Header(src, body) ==
    [Cleared(body) EXCEPT !.event_type = EventType(src.prog), !.pid = src.pid, !.comm = src.comm]

Source(t, c) == [prog |-> run[t].prog, pid |-> t, comm |-> c, dest |-> NoDest, whole |-> <<>>]

Write(t, body, src) ==
    recs' = [recs EXCEPT ![run[t].slot] =
               [state |-> @.state, event |-> @.event, body |-> body, src |-> src]]

fillRest == <<attached, todo, readVars, histVars>>

(* The exec kprobes go on to read_args, whose argument register may point   *)
(* to no list at all, which is as good as an empty one.                     *)
FillExec(t) == \E c \in Comms :
    LET src == Source(t, c) IN
    /\ pc[t] = "fill" /\ run[t].prog \in ExecKprobes
    /\ Write(t, Header(src, recs[run[t].slot].body), src)
    /\ \E argv \in Argvs :
         /\ run' = [run EXCEPT ![t].argv = argv]
         /\ pc' = [pc EXCEPT ![t] = IF argv = <<>> THEN "submit" ELSE "args"]
    /\ UNCHANGED fillRest

(* The tracepoints for exec and fork have nothing to add. *)
FillTask(t) == \E c \in Comms :
    LET src == Source(t, c) IN
    /\ pc[t] = "fill" /\ run[t].prog \in {"trace_sched_exec", "trace_fork"}
    /\ Write(t, Header(src, recs[run[t].slot].body), src)
    /\ pc' = [pc EXCEPT ![t] = "submit"]
    /\ UNCHANGED <<fillRest, run>>

(* The destination that the socket holds at the entry of tcp_v4_connect or  *)
(* tcp_v6_connect, which write the new one only later.                      *)
FillConnect(t) == \E c \in Comms, dest \in Dests :
    LET src == [Source(t, c) EXCEPT !.dest = dest] IN
    /\ pc[t] = "fill" /\ run[t].prog = "trace_connect"
    /\ Write(t, [Header(src, recs[run[t].slot].body) EXCEPT
                   !.daddr = dest.daddr, !.dport = dest.dport], src)
    /\ pc' = [pc EXCEPT ![t] = "submit"]
    /\ UNCHANGED <<fillRest, run>>

FillConnect6(t) == \E c \in Comms, dest \in Dests :
    LET src == [Source(t, c) EXCEPT !.dest = dest] IN
    /\ pc[t] = "fill" /\ run[t].prog = "trace_connect6"
    /\ Write(t, [Header(src, recs[run[t].slot].body) EXCEPT
                   !.is_ipv6 = 1, !.daddr6 = dest.daddr, !.dport = dest.dport], src)
    /\ pc' = [pc EXCEPT ![t] = "submit"]
    /\ UNCHANGED <<fillRest, run>>

(* The path is read: there is one, and it can be read. *)
FillOpenAt(t) == \E c \in Comms, path \in Paths :
    LET src == [Source(t, c) EXCEPT !.whole = path] IN
    /\ pc[t] = "fill" /\ run[t].prog = "trace_openat"
    /\ Write(t, [Header(src, recs[run[t].slot].body) EXCEPT
                   !.args = ReadStr(path, MAX_ARGS)], src)
    /\ pc' = [pc EXCEPT ![t] = "submit"]
    /\ UNCHANGED <<fillRest, run>>

(* Mutant of OpenAtNothing: with nothing to report the program returns. *)
OpenAtReturns(t) == \E c \in Comms :
    LET src == Source(t, c) IN
    /\ pc[t] = "fill" /\ run[t].prog = "trace_openat"
    /\ Write(t, Header(src, recs[run[t].slot].body), src)
    /\ pc' = [pc EXCEPT ![t] = "none"]
    /\ run' = [run EXCEPT ![t] = NoRun]
    /\ UNCHANGED fillRest

(* No path, or one that cannot be read: the record is to be discarded. *)
OpenAtNothing(t) == \E c \in Comms :
    LET src == Source(t, c) IN
    /\ pc[t] = "fill" /\ run[t].prog = "trace_openat"
    /\ Write(t, Header(src, recs[run[t].slot].body), src)
    /\ pc' = [pc EXCEPT ![t] = "discard"]
    /\ UNCHANGED <<fillRest, run>>

(* Mutant of ReadArgs: "i <= MAX_ARGS_COUNT". *)
ReadArgsOneMore(t) ==
    LET r == run[t]
        rec == recs[r.slot]
        rest == Tail(r.argv)
    IN
    /\ pc[t] = "args"
    /\ Write(t, [rec.body EXCEPT !.args = ReadArg(@, r.i, Head(r.argv))],
                [rec.src EXCEPT !.whole = Joined(@, r.i, Head(r.argv))])
    /\ run' = [run EXCEPT ![t] = [prog |-> r.prog, slot |-> r.slot,
                                  argv |-> rest, i |-> r.i + 1]]
    /\ pc' = [pc EXCEPT ![t] =
                IF rest = <<>> \/ r.i = MAX_ARGS_COUNT THEN "submit" ELSE "args"]
    /\ UNCHANGED fillRest

(* Mutant of ReadArgs: the record is submitted before its arguments are in. *)
ReadArgsSubmitted(t) ==
    LET r == run[t]
        rec == recs[r.slot]
        rest == Tail(r.argv)
    IN
    /\ pc[t] = "args"
    /\ recs' = [recs EXCEPT ![r.slot] =
                  [state |-> "ready", event |-> rec.event,
                   body |-> [rec.body EXCEPT !.args = ReadArg(@, r.i, Head(r.argv))],
                   src |-> [rec.src EXCEPT !.whole = Joined(@, r.i, Head(r.argv))]]]
    /\ run' = [run EXCEPT ![t] = [prog |-> r.prog, slot |-> r.slot,
                                  argv |-> rest, i |-> r.i + 1]]
    /\ pc' = [pc EXCEPT ![t] =
                IF rest = <<>> \/ r.i + 1 = MAX_ARGS_COUNT THEN "notify" ELSE "args"]
    /\ UNCHANGED fillRest

(* The loop of read_args: one argument, until the list's NULL or            *)
(* MAX_ARGS_COUNT arguments.                                                *)
ReadArgs(t) ==
    LET r == run[t]
        rec == recs[r.slot]
        rest == Tail(r.argv)
    IN
    /\ pc[t] = "args"
    /\ Write(t, [rec.body EXCEPT !.args = ReadArg(@, r.i, Head(r.argv))],
                [rec.src EXCEPT !.whole = Joined(@, r.i, Head(r.argv))])
    /\ run' = [run EXCEPT ![t] = [prog |-> r.prog, slot |-> r.slot,
                                  argv |-> rest, i |-> r.i + 1]]
    /\ pc' = [pc EXCEPT ![t] =
                IF rest = <<>> \/ r.i + 1 = MAX_ARGS_COUNT THEN "submit" ELSE "args"]
    /\ UNCHANGED fillRest

Commit(t, state, next) ==
    /\ recs' = [recs EXCEPT ![run[t].slot].state = state]
    /\ pc' = [pc EXCEPT ![t] = next]
    /\ UNCHANGED <<fillRest, run>>

(* bpf_ringbuf_submit. *)
Submit(t) == pc[t] = "submit" /\ Commit(t, "ready", "notify")

(* Mutant of Discard: without its return the program goes on to submit.     *)
DiscardAndSubmit(t) == pc[t] = "discard" /\ Commit(t, "discarded", "submit")

(* bpf_ringbuf_discard. *)
Discard(t) == pc[t] = "discard" /\ Commit(t, "discarded", "notify")

(* Mutant of Notify: a discarded record is nothing to wake the reader for   *)
(* (BPF_RB_NO_WAKEUP).                                                      *)
NotifyOfReady(t) ==
    /\ pc[t] = "notify"
    /\ wake' = (wake \/ (head = run[t].slot - 1 /\ recs[run[t].slot].state = "ready"))
    /\ pc' = [pc EXCEPT ![t] = "none"]
    /\ run' = [run EXCEPT ![t] = NoRun]
    /\ UNCHANGED <<attached, todo, recs, head, rpc, histVars>>

(* The second half of both, with no flags: after the record has been        *)
(* released, the reader is woken if it is the one the reader comes to next. *)
Notify(t) ==
    /\ pc[t] = "notify"
    /\ wake' = (wake \/ head = run[t].slot - 1)
    /\ pc' = [pc EXCEPT ![t] = "none"]
    /\ run' = [run EXCEPT ![t] = NoRun]
    /\ UNCHANGED <<attached, todo, recs, head, rpc, histVars>>

Program(t) ==
    \/ FillExec(t) \/ FillTask(t) \/ FillConnect(t) \/ FillConnect6(t) \/ FillOpenAt(t)
    \/ OpenAtNothing(t)
    \/ ReadArgs(t) \/ Submit(t) \/ Discard(t) \/ Notify(t)

-----------------------------------------------------------------------------
(* The reader: the library's Read, which ReadEvents calls again and again.  *)

readRest == <<attached, todo, progVars, recs, histVars>>

(* epoll looks at the ring when it has been woken, or has reported it last  *)
(* time: with records there, reserved ones included, the reader begins to   *)
(* read, and with none it sleeps until it is woken.                         *)
Poll ==
    /\ rpc = "poll" /\ wake
    /\ \/ head < Len(recs) /\ rpc' = "read" /\ UNCHANGED wake
       \/ head = Len(recs) /\ wake' = FALSE /\ UNCHANGED rpc
    /\ UNCHANGED <<readRest, head>>

(* Mutant of Take: a record that is busy is left out, and the next that is  *)
(* not is taken.                                                            *)
TakePassesBusy ==
    /\ rpc = "read"
    /\ \E n \in head + 1..Len(recs) :
         /\ recs[n].state # "busy" /\ \A m \in head + 1..n - 1 : recs[m].state = "busy"
         /\ head' = n
    /\ UNCHANGED <<readRest, rpc, wake>>

(* The next record is returned, or skipped if it was discarded.  While it   *)
(* is busy the reader tries again.                                          *)
Take ==
    /\ rpc = "read" /\ head < Len(recs)
    /\ recs[head + 1].state # "busy"
    /\ head' = head + 1
    /\ UNCHANGED <<readRest, rpc, wake>>

Caught ==
    /\ rpc = "read" /\ head = Len(recs)
    /\ rpc' = "poll"
    /\ UNCHANGED <<readRest, head, wake>>

Reader == Poll \/ Take \/ Caught

-----------------------------------------------------------------------------
Next == Reader \/ \E t \in Pids : Kernel(t) \/ Reserve(t) \/ Program(t)

(* A program runs to its end: the verifier admits no other, and nothing     *)
(* interrupts it for good.  The reader is run by the Go scheduler.          *)
Fairness == WF_vars(Reader) /\ \A t \in Pids : WF_vars(Program(t))

Spec == Init /\ [][Next]_vars
FairSpec == Spec /\ Fairness

-----------------------------------------------------------------------------
(* Properties. *)

ProgramStates == {"none", "fill", "args", "submit", "discard", "notify"}
Bodies ==
    [event_type : 0..4, pid : Pids \cup {0}, comm : Comms \cup {""}, args : Text,
     daddr : Nat, daddr6 : Nat, dport : Nat, is_ipv6 : {0, 1}]
Sources ==
    [prog : Programs \cup {"none"}, pid : Pids \cup {0}, comm : Comms \cup {""},
     dest : [daddr : Nat, dport : Nat], whole : Text]
Records ==
    [state : {"busy", "ready", "discarded"}, event : 1..MaxEvents, body : Bodies, src : Sources]
Runs == [prog : Programs \cup {"none"}, slot : Nat, argv : Seq(Text), i : 0..MAX_ARGS_COUNT]

(* Every variable has its type, and the ring never holds more records than  *)
(* it has room for.                                                         *)
TypeOK ==
    /\ attached \subseteq Programs
    /\ DOMAIN todo = Pids
    /\ pc \in [Pids -> ProgramStates] /\ run \in [Pids -> Runs]
    /\ recs \in Seq(Records)
    /\ head \in 0..Len(recs) /\ Len(recs) - head <= RingSize
    /\ rpc \in {"poll", "read"} /\ wake \in BOOLEAN
    /\ seen \in 0..MaxEvents /\ lostFull \subseteq 1..seen

(* What a record about src says, but for the arguments. *)
Says(src, args) ==
    [event_type |-> EventType(src.prog), pid |-> src.pid, comm |-> src.comm, args |-> args,
     daddr |-> IF src.prog = "trace_connect" THEN src.dest.daddr ELSE 0,
     daddr6 |-> IF src.prog = "trace_connect6" THEN src.dest.daddr ELSE 0,
     dport |-> IF src.prog \in ConnectKprobes THEN src.dest.dport ELSE 0,
     is_ipv6 |-> IF src.prog = "trace_connect6" THEN 1 ELSE 0]

(* The ring's memory is used again and again, by eight programs on several  *)
(* CPUs, and fields that a program does not write are read by the agent all *)
(* the same: a committed record says what its own program saw of its own    *)
(* task, and nothing that an earlier record left there.                     *)
RecordsAreClean ==
    \A n \in 1..Len(recs) : recs[n].state = "ready" =>
        recs[n].body = Says(recs[n].src, recs[n].body.args)

(* args is all of whole, or so much of it that there was no room for more. *)
Begins(args, whole) ==
    /\ Len(args) <= Len(whole) /\ Len(args) < MAX_ARGS
    /\ \A i \in 1..Len(args) : args[i] = whole[i]
    /\ args = whole \/ Len(args) >= MAX_ARGS - 2

(* However long the arguments are and however many cannot be read, the args *)
(* field holds a beginning of the command line, with room for the final     *)
(* NUL, and stops short of its end only within two bytes of the field's.    *)
ArgsArePrefix ==
    \A n \in 1..Len(recs) : recs[n].state = "ready" =>
        Begins(recs[n].body.args, recs[n].src.whole)

(* The task whose program will still look whether to wake the reader for a  *)
(* record.                                                                  *)
WillNotify(n) ==
    \E t \in Pids : run[t].slot = n /\ pc[t] \in ProgramStates \ {"none"}

(* A program wakes the reader only if its record is the next to be read,    *)
(* and looks after it has released the record, while the reader moves and   *)
(* records behind are committed first: a reader that sleeps before a record *)
(* will be woken for it.                                                    *)
NoLostWakeup ==
    (rpc = "poll" /\ ~wake /\ head < Len(recs)) => WillNotify(head + 1)

(* A record that a program is still busy with keeps back all behind it: but *)
(* every record is passed by the reader in the end, whoever is late.        *)
EveryRecordRead == \A n \in 1..MaxEvents : Len(recs) >= n ~> head >= n

(* The ring implements EventDelivery: what was seen is read once or lost,   *)
(* where what is discarded counts as lost, and so what the ring is full for.*)
Read == {recs[n].event : n \in {m \in 1..head : recs[m].state = "ready"}}
Discarded == {recs[n].event : n \in {m \in 1..Len(recs) : recs[m].state = "discarded"}}
Delivery == INSTANCE EventDelivery WITH delivered <- Read, lost <- lostFull \cup Discarded
DeliverySpec == Delivery!Spec

(* Although records are committed in any order, some of them late and some  *)
(* of them only to be discarded, to the reader the ring is a plain bounded  *)
(* queue: it is full for a program only when it really is, and the events   *)
(* leave it in the order in which the programs saw them.  This is the ring  *)
(* that EventQueue takes for granted.                                       *)
Unread == [i \in 1..Len(recs) - head |-> recs[head + i].event]
Ring == INSTANCE EventRing WITH ring <- Unread, lost <- lostFull
RingSpec == Ring!Spec

(* The reader reads a record in place, after its program has let go of it:  *)
(* once committed it is not written again, nor committed a second time.     *)
RecordsAreFinal ==
    [][\A n \in 1..Len(recs) : recs[n].state # "busy" => recs'[n] = recs[n]]_vars
=============================================================================
