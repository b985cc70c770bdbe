--------------------------- MODULE MCIncrementalRun ---------------------------
(* Small instances of IncrementalRun for TLC. *)
EXTENDS IncrementalRun, TLC

Symmetry == Permutations(Runners) \cup Permutations(Configs)
===============================================================================
