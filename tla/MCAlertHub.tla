----------------------------- MODULE MCAlertHub -----------------------------
(* The instance of AlertHub that TLC checks: clients are model values, and   *)
(* interchangeable in the runs that check invariants only.                   *)
EXTENDS AlertHub, TLC

ClientSymmetry == Permutations(Clients)
=============================================================================
