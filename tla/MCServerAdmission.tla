-------------------------- MODULE MCServerAdmission --------------------------
(* Small instances of ServerAdmission for TLC. *)
EXTENDS ServerAdmission, TLC

Symmetry == Permutations(Requests) \cup Permutations(Clients)
=============================================================================
