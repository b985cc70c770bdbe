---------------------------- MODULE MCProgramGraph ----------------------------
(* A small instance of ProgramGraph for TLC: two nodes, one edge between   *)
(* them and a self loop.                                                   *)
EXTENDS ProgramGraph

CONSTANTS n1, n2

Edges == {<<n1, n2, "calls">>, <<n2, n2, "writes">>}
=============================================================================
