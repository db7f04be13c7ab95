------------------------------ MODULE MCProbes ------------------------------
(* The instance of Probes that TLC checks. *)
EXTENDS Probes

MCLetters == {"a", "b", "c", "d", " "}

(* With four bytes: an argument that leaves no room for another; and one    *)
(* that cannot be read, one that has to be cut, and one too many.           *)
MCArgvs == {<<<<"a", "b">>, <<"c">>>>, <<<<>>, <<"a", "b", "c">>, <<"d">>>>}
MCPaths == {<<"a", "b", "c", "d">>}

(* What an earlier connection left in the socket. *)
MCDests == {[daddr |-> 10, dport |-> 443]}

(* Two kernels that differ in what they let LoadProgram attach.             *)
MCAttachSets ==
    {{"trace_execve", "trace_connect6", "trace_openat"},
     {"trace_sched_exec", "trace_fork", "trace_connect"}}
=============================================================================
