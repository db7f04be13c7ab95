-------------------------- MODULE MCAlertDispatch --------------------------
EXTENDS AlertDispatch, TLC

WorkerSymmetry == Permutations(Workers)

Event(kind, proc, tmp, chain, rule, conn) ==
    [kind |-> kind, proc |-> proc, pod |-> "pod", pid |-> 7, tmp |-> tmp, chain |-> chain,
     rule |-> rule, conn |-> conn]

MCProcs == {"nc", "promtool", "kubelet"}
MCAllowed == {"shell", "shadow", "suspicious_tmp_execution"} \X {"pod"} \X {"promtool"}

(* For the caches: one process whose events all match the same rule, a file *)
(* it opens and a connection it makes to a public address.                  *)
MCCacheEvents ==
    { Event("file", "nc", FALSE, FALSE, "shell", NoConn),
      Event("connect", "nc", FALSE, FALSE, "shell", "public") }

(* For the responses: a critical rule matched by two processes of a pod,    *)
(* one of them on the allowlist, and by a runtime process; a chain; a       *)
(* process run from /tmp; a sensitive file, a file that is not, an address  *)
(* that is filtered out.                                                    *)
MCKillEvents ==
    { Event("exec", "nc", FALSE, TRUE, "shell", NoConn),
      Event("exec", "promtool", TRUE, FALSE, "shell", NoConn),
      Event("exec", "kubelet", FALSE, FALSE, "shell", NoConn),
      Event("file", "promtool", FALSE, FALSE, "shadow", NoConn),
      Event("file", "nc", FALSE, FALSE, NoRule, NoConn),
      Event("connect", "nc", FALSE, FALSE, "shell", "public"),
      Event("connect", "nc", FALSE, FALSE, "shell", "private"),
      Event("connect", "nc", FALSE, FALSE, "shell", NoConn) }
=============================================================================
