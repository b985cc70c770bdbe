---------------------------- MODULE ProgramGraph ----------------------------
(* Program graphs and their merges: schemas/graph.py, graph/builder.py,    *)
(* graph/merge.py and the trace edges of dynamic/enrichment.py.            *)
(*                                                                         *)
(* A graph is a dict of nodes and a dict of edges.  Edges are objects with *)
(* a weight and a list of evidence that are changed in place, and a merge  *)
(* and a subgraph put the objects of their inputs, not copies, into the    *)
(* graph they return: what is done to an edge through one graph is seen    *)
(* through every graph that holds the object.  heap is the objects, held   *)
(* the ones each graph has in its dict.  The id of an edge is a hash of    *)
(* its source, target and kind, its triple here.                           *)
EXTENDS Naturals, Sequences, FiniteSets

CONSTANTS
  NodeIds,     \* the ids a builder may make
  Triples,     \* the edges that may be added: source, target, kind
  Weights,     \* the weights a caller may give an edge
  Tolerance,   \* the difference of weights that is not a conflict, 0.1
  MaxEdges     \* bound: edge objects ever made

ASSUME TriplesAssumption == Triples \subseteq NodeIds \X NodeIds \X {"calls", "writes"}
ASSUME WeightsAssumption == Weights \subseteq Nat /\ Tolerance \in Nat /\ MaxEdges \in Nat

(* Two graphs that are built, and the last one a merge or a subgraph made. *)
(* A merge takes any of them and a built one, as merge_multiple_graphs.    *)
Graphs == {"static", "dynamic", "derived"}
Built == {"static", "dynamic"}
Strategies == {"union", "static_priority", "dynamic_priority"}
Evidence == {"static_analysis", "dynamic_trace"}

VARIABLES
  nodes,      \* node ids of each graph
  held,       \* edge objects of each graph
  heap,       \* the edge objects: triple, weight, evidence
  conflicts   \* the edges in conflict of the last entry of merge_history

vars == <<nodes, held, heap, conflicts>>

Edge == [triple : Triples, weight : Nat, evidence : SUBSET Evidence]

Init ==
  /\ nodes = [g \in Graphs |-> {}]
  /\ held = [g \in Graphs |-> {}]
  /\ heap = <<>>
  /\ conflicts = {}

-----------------------------------------------------------------------------
Source(t) == t[1]
Target(t) == t[2]
Triple(o) == heap[o].triple
TriplesOf(g) == {Triple(o) : o \in held[g]}

(* The edges of a set whose endpoints are both among some nodes.           *)
Within(objects, ids) ==
  {o \in objects : Source(Triple(o)) \in ids /\ Target(Triple(o)) \in ids}

Stronger(w, v) == IF w >= v THEN w ELSE v
Reinforced(edge, w, evidence) ==
  [edge EXCEPT !.weight = Stronger(@, w), !.evidence = @ \cup evidence]

AddNode(g, n) ==
  /\ nodes' = [nodes EXCEPT ![g] = @ \cup {n}]
  /\ UNCHANGED <<held, heap, conflicts>>

(* Mutant: only the edges that leave a node go with it. *)
RemoveNodeOutgoing(g, n) ==
  /\ n \in nodes[g]
  /\ nodes' = [nodes EXCEPT ![g] = @ \ {n}]
  /\ held' = [held EXCEPT ![g] = {o \in @ : Source(Triple(o)) # n}]
  /\ UNCHANGED <<heap, conflicts>>

RemoveNode(g, n) ==
  /\ n \in nodes[g]
  /\ nodes' = [nodes EXCEPT ![g] = @ \ {n}]
  /\ held' = [held EXCEPT ![g] =
                {o \in @ : Source(Triple(o)) # n /\ Target(Triple(o)) # n}]
  /\ UNCHANGED <<heap, conflicts>>

RemoveEdge(g, o) ==
  /\ o \in held[g]
  /\ held' = [held EXCEPT ![g] = @ \ {o}]
  /\ UNCHANGED <<nodes, heap, conflicts>>

(* An edge whose endpoints are not both there is refused.  One that is     *)
(* there already is reinforced, in every graph that holds it.              *)
AddEdge(g, t, w, evidence) ==
  /\ Source(t) \in nodes[g] /\ Target(t) \in nodes[g]
  /\ \/ \E o \in held[g] :
          /\ Triple(o) = t
          /\ heap' = [heap EXCEPT ![o] = Reinforced(@, w, evidence)]
          /\ UNCHANGED held
     \/ /\ t \notin TriplesOf(g)
        /\ Len(heap) < MaxEdges
        /\ heap' = Append(heap, [triple |-> t, weight |-> w, evidence |-> evidence])
        /\ held' = [held EXCEPT ![g] = @ \cup {Len(heap) + 1}]
  /\ UNCHANGED <<nodes, conflicts>>

(* A trace saw a call: an edge like any other, with its own evidence.      *)
Enrich(g, t, w) == t[3] = "calls" /\ AddEdge(g, t, w, {"dynamic_trace"})

-----------------------------------------------------------------------------
(* Merges.  The nodes and edges of a first; of b what a has not.           *)

United(a, b) == nodes[a] \cup nodes[b]

UnitedEdges(a, b) ==
  Within(held[a] \cup {p \in held[b] : Triple(p) \notin TriplesOf(a)}, United(a, b))

(* The edges of a that meet one of b, and the one they meet.               *)
Shared(a, b) == {o \in held[a] : Triple(o) \in TriplesOf(b)}
Met(o, b) == CHOOSE p \in held[b] : Triple(p) = Triple(o)

Conflicting(o, p) ==
  \/ heap[o].weight > heap[p].weight + Tolerance
  \/ heap[p].weight > heap[o].weight + Tolerance

ConflictsOf(a, b) ==
  {Triple(o) : o \in {s \in Shared(a, b) : Conflicting(s, Met(s, b))}}

Resolved(o, p, strategy) ==
  LET w == heap[p].weight IN
  [heap[o] EXCEPT !.weight = CASE strategy = "union" -> Stronger(@, w)
                               [] strategy = "static_priority" -> @
                               [] strategy = "dynamic_priority" -> w]

(* Mutant: the larger weight is kept and the evidence of b forgotten.      *)
MergedWeight(o, p, strategy) ==
  IF Conflicting(o, p)
  THEN Resolved(o, p, strategy)
  ELSE [heap[o] EXCEPT !.weight = Stronger(@, heap[p].weight)]

(* Without a conflict the evidence is joined and the larger weight kept,   *)
(* under every strategy; in a conflict the evidence of b is passed over.   *)
Merged(o, p, strategy) ==
  IF Conflicting(o, p)
  THEN Resolved(o, p, strategy)
  ELSE Reinforced(heap[o], heap[p].weight, heap[p].evidence)

Integrated(o, p) == Reinforced(heap[o], heap[p].weight, heap[p].evidence)

Unites(a, b) ==
  /\ nodes' = [nodes EXCEPT !["derived"] = United(a, b)]
  /\ held' = [held EXCEPT !["derived"] = UnitedEdges(a, b)]

(* Each edge of a that meets one of b is rewritten in place, whoever else  *)
(* holds it.                                                               *)
MergeGraphs(a, b, strategy) ==
  /\ Unites(a, b)
  /\ heap' = [o \in DOMAIN heap |-> IF o \in Shared(a, b)
                                    THEN Merged(o, Met(o, b), strategy) ELSE heap[o]]
  /\ conflicts' = ConflictsOf(a, b)

MergeIncremental(base, delta) ==
  /\ Unites(base, delta)
  /\ heap' = [o \in DOMAIN heap |-> IF o \in Shared(base, delta)
                                    THEN Integrated(o, Met(o, delta)) ELSE heap[o]]
  /\ UNCHANGED conflicts

(* get_neighbors: over edges in both directions. *)
Neighbors(g, n) ==
  {m \in nodes[g] : \E o \in held[g] : {Source(Triple(o)), Target(Triple(o))} = {n, m}}

GetSubgraph(g, ids, include_neighbors) ==
  LET chosen == ids \cup (IF include_neighbors
                          THEN UNION {Neighbors(g, n) : n \in ids} ELSE {})
  IN /\ nodes' = [nodes EXCEPT !["derived"] = nodes[g] \cap chosen]
     /\ held' = [held EXCEPT !["derived"] = Within(held[g], nodes[g] \cap chosen)]
     /\ UNCHANGED <<heap, conflicts>>

Next ==
  \/ \E g \in Graphs, n \in NodeIds : AddNode(g, n) \/ RemoveNode(g, n)
  \/ \E g \in Graphs, o \in DOMAIN heap : RemoveEdge(g, o)
  \/ \E g \in Graphs, t \in Triples, w \in Weights :
       AddEdge(g, t, w, {"static_analysis"}) \/ Enrich(g, t, w)
  \/ \E a \in Graphs, b \in Built :
       \/ \E strategy \in Strategies : MergeGraphs(a, b, strategy)
       \/ MergeIncremental(a, b)
  \/ \E g \in Graphs, ids \in SUBSET NodeIds, near \in BOOLEAN : GetSubgraph(g, ids, near)

Spec == Init /\ [][Next]_vars
-----------------------------------------------------------------------------
(* Properties *)

(* The variables have their types, no edge of a graph hangs in the air,    *)
(* however nodes are removed under edges that other graphs hold too, and   *)
(* no graph has two edges of one source, target and kind.                  *)
Typed ==
  /\ nodes \in [Graphs -> SUBSET NodeIds]
  /\ heap \in Seq(Edge) /\ Len(heap) <= MaxEdges
  /\ held \in [Graphs -> SUBSET (1..Len(heap))]
  /\ conflicts \subseteq Triples

Anchored ==
  \A g \in Graphs : \A o \in held[g] :
    Source(Triple(o)) \in nodes[g] /\ Target(Triple(o)) \in nodes[g]

OneEach ==
  \A g \in Graphs : \A o, p \in held[g] : Triple(o) = Triple(p) => o = p

WellFormed == Typed /\ Anchored /\ OneEach

(* What an edge says, another says too, and as strongly.                   *)
Covers(e, f) ==
  e.triple = f.triple /\ e.weight >= f.weight /\ f.evidence \subseteq e.evidence

(* A merge loses nothing of its inputs that its provenance does not own up *)
(* to: every node is kept, and every edge with its weight and evidence,    *)
(* except where the conflicts of merge_history name the edge.              *)
NothingLostFrom(g, excused) ==
  /\ nodes[g] \subseteq nodes'["derived"]
  /\ \A o \in held[g] :
       \E q \in held'["derived"] :
         /\ heap'[q].triple = heap[o].triple
         /\ heap[o].triple \in excused \/ Covers(heap'[q], heap[o])

(* Nor does it weaken what any other graph sees of the edges it rewrites.  *)
NoneWeakened(excused) ==
  \A o \in DOMAIN heap :
    heap[o].triple \in excused \/ Covers(heap'[o], heap[o])

(* With union a conflict costs evidence, never weight. *)
Accounted(a, b) ==
  /\ \A strategy \in Strategies : MergeGraphs(a, b, strategy) =>
       /\ NothingLostFrom(a, conflicts') /\ NothingLostFrom(b, conflicts')
       /\ NoneWeakened(conflicts')
  /\ MergeGraphs(a, b, "union") =>
       \A o \in DOMAIN heap : heap'[o].weight >= heap[o].weight
  /\ MergeIncremental(a, b) =>
       /\ NothingLostFrom(a, {}) /\ NothingLostFrom(b, {})
       /\ NoneWeakened({})

MergeAccounted ==
  [][\A a \in Graphs, b \in Built : Unites(a, b) => Accounted(a, b)]_vars

=============================================================================
