---------------------------- MODULE MCGraphSearch ----------------------------
(* A small instance of GraphSearch for TLC: every graph of a few edges,    *)
(* self loops included, and those with parallel edges of another kind.     *)
EXTENDS GraphSearch, TLC

CONSTANTS MaxEdges, MaxParallel

Simple(k) == {E \in SUBSET (Nodes \X Nodes \X {"calls"}) : Cardinality(E) <= k}
Doubled(E) == E \cup {<<Source(e), Target(e), "writes">> : e \in E}

AllGraphs == Simple(MaxEdges) \cup {Doubled(E) : E \in Simple(MaxParallel)}

Symmetry == Permutations(Nodes)
=============================================================================
