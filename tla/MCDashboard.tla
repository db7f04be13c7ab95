---------------------------- MODULE MCDashboard -----------------------------
(* The instance of Dashboard that TLC checks. *)
EXTENDS Dashboard
=============================================================================
