---------------------------- MODULE MCEventQueue ----------------------------
(* The instance of EventQueue that TLC checks.  The workers are model values *)
(* of the configuration files.                                               *)
EXTENDS EventQueue
=============================================================================
