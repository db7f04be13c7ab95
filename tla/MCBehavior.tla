------------------------------ MODULE MCBehavior ------------------------------
EXTENDS Behavior

CONSTANTS p1, p2

(* What some commands are to the detector. *)
CurlToTmp == {"download", "tool", "exfil", "exec"}
Aria == {"download"}
ChmodHome == {"chmod"}
Sudo == {"privEsc"}
Nmap == {"recon"}
CatShadow == {"cred"}
ScpShadow == {"exfil", "cred"}
Shell == {"exec"}

MCPods == {p1, p2}

(* Enough of them to begin, complete and interrupt each chain. *)
MCEvents == {CurlToTmp, Aria, ChmodHome, Sudo, Nmap, CatShadow, ScpShadow, Shell}
=============================================================================
