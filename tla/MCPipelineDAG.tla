---------------------------- MODULE MCPipelineDAG ----------------------------
(* Small instances of PipelineDAG for TLC: up to four stages, with lists   *)
(* that make chains, diamonds, self loops, cycles, repeated and unknown    *)
(* names.                                                                  *)
EXTENDS PipelineDAG

Lists == {<<>>, <<1>>, <<2>>, <<1, 2>>, <<2, 3>>, <<3, 3>>, <<4>>, <<9>>}
=============================================================================
