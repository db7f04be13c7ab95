----------------------------- MODULE MCLineage -----------------------------
(* The instance of Lineage that TLC checks. *)
EXTENDS Lineage, TLC

MCWorkers == Permutations(Workers)
=============================================================================
