-------------------------- MODULE ProgramGraph_proofs --------------------------
(***************************************************************************)
(* For every set of nodes and edges, and every sequence of additions,      *)
(* removals, merges and subgraphs: no graph has an edge without its ends   *)
(* or two edges of one triple, and a merge loses nothing but what its      *)
(* provenance names.                                                       *)
(***************************************************************************)
EXTENDS ProgramGraph, TLAPS

-----------------------------------------------------------------------------
(* Edges *)

(* A heap that is rewritten in place, object by object, is a heap of edges *)
(* of the same triples.                                                    *)
LEMMA InPlace ==
  ASSUME Typed, NEW E, E = [o \in DOMAIN heap |-> E[o]],
         \A o \in DOMAIN heap : E[o] \in Edge
  PROVE  E \in Seq(Edge) /\ Len(E) = Len(heap) /\ DOMAIN E = DOMAIN heap
<1>1. DOMAIN heap = 1..Len(heap) /\ Len(heap) \in Nat
  BY DEF Typed
<1>2. E \in [1..Len(heap) -> Edge]
  BY <1>1
<1>3. E \in Seq(Edge) /\ Len(E) = Len(heap)
  BY <1>1, <1>2
<1>. QED BY <1>1, <1>2, <1>3

LEMMA HeldInHeap ==
  ASSUME Typed, NEW g \in Graphs, NEW o \in held[g]
  PROVE  o \in DOMAIN heap /\ heap[o] \in Edge /\ Triple(o) \in Triples
<1>1. o \in 1..Len(heap)
  BY DEF Typed
<1>2. o \in DOMAIN heap /\ heap[o] \in Edge
  BY <1>1 DEF Typed
<1>. QED BY <1>2 DEF Edge, Triple

LEMMA ReinforcedEdge ==
  ASSUME NEW e \in Edge, NEW w \in Nat, NEW x \in SUBSET Evidence
  PROVE  /\ Reinforced(e, w, x) \in Edge
         /\ Reinforced(e, w, x).triple = e.triple
         /\ Reinforced(e, w, x).weight >= w
         /\ x \subseteq Reinforced(e, w, x).evidence
         /\ Covers(Reinforced(e, w, x), e)
<1>1. Stronger(e.weight, w) \in Nat /\ Stronger(e.weight, w) >= w
                                    /\ Stronger(e.weight, w) >= e.weight
  BY DEF Stronger, Edge
<1>2. /\ Reinforced(e, w, x).triple = e.triple
      /\ Reinforced(e, w, x).weight = Stronger(e.weight, w)
      /\ Reinforced(e, w, x).evidence = e.evidence \cup x
  BY DEF Reinforced, Edge
<1>3. Reinforced(e, w, x) \in Edge
  BY <1>1 DEF Reinforced, Edge
<1>. QED BY <1>1, <1>2, <1>3 DEF Covers

LEMMA MetHeld ==
  ASSUME NEW a \in Graphs, NEW b \in Graphs, NEW o \in Shared(a, b)
  PROVE  o \in held[a] /\ Met(o, b) \in held[b] /\ Triple(Met(o, b)) = Triple(o)
<1>1. \E p \in held[b] : Triple(p) = Triple(o)
  BY DEF Shared, TriplesOf
<1>. QED BY <1>1 DEF Shared, Met

LEMMA ResolvedEdge ==
  ASSUME NEW o, heap[o] \in Edge, NEW p, heap[p] \in Edge,
         NEW strategy \in Strategies
  PROVE  /\ Resolved(o, p, strategy) \in Edge
         /\ Resolved(o, p, strategy).triple = heap[o].triple
         /\ strategy = "union" =>
              Resolved(o, p, strategy).weight >= heap[o].weight
<1>1. PICK w \in Nat :
        /\ Resolved(o, p, strategy) = [heap[o] EXCEPT !.weight = w]
        /\ strategy = "union" => w >= heap[o].weight
  <2>1. CASE strategy = "union"
    BY <2>1 DEF Resolved, Stronger, Edge
  <2>2. CASE strategy = "static_priority"
    BY <2>2 DEF Resolved, Edge
  <2>3. CASE strategy = "dynamic_priority"
    BY <2>3 DEF Resolved, Edge
  <2>. QED BY <2>1, <2>2, <2>3 DEF Strategies
<1>. QED BY <1>1 DEF Edge

LEMMA MergedEdge ==
  ASSUME NEW o, heap[o] \in Edge, NEW p, heap[p] \in Edge,
         NEW strategy \in Strategies
  PROVE  /\ Merged(o, p, strategy) \in Edge
         /\ Merged(o, p, strategy).triple = heap[o].triple
         /\ strategy = "union" => Merged(o, p, strategy).weight >= heap[o].weight
         /\ ~Conflicting(o, p) =>
              /\ Covers(Merged(o, p, strategy), heap[o])
              /\ Merged(o, p, strategy).weight >= heap[p].weight
              /\ heap[p].evidence \subseteq Merged(o, p, strategy).evidence
<1>1. heap[p].weight \in Nat /\ heap[p].evidence \in SUBSET Evidence
  BY DEF Edge
<1>2. CASE Conflicting(o, p)
  BY <1>2, ResolvedEdge DEF Merged
<1>3. CASE ~Conflicting(o, p)
  BY <1>1, <1>3, ReinforcedEdge DEF Merged, Covers
<1>. QED BY <1>2, <1>3

-----------------------------------------------------------------------------
(* Graphs *)

(* A step that makes graphs out of edges of well-formed ones, with their   *)
(* ends, and leaves the triples of edges alone, leaves graphs well formed. *)
LEMMA UnitedWellFormed ==
  ASSUME WellFormed, NEW a \in Graphs, NEW b \in Graphs, Unites(a, b),
         \A o \in DOMAIN heap : heap'[o].triple = heap[o].triple
  PROVE  /\ nodes' \in [Graphs -> SUBSET NodeIds]
         /\ held' \in [Graphs -> SUBSET (1..Len(heap))]
         /\ Anchored' /\ OneEach'
<1>. USE DEF WellFormed
<1>1. /\ nodes' = [nodes EXCEPT !["derived"] = United(a, b)]
      /\ held' = [held EXCEPT !["derived"] = UnitedEdges(a, b)]
  BY DEF Unites
<1>2. United(a, b) \subseteq NodeIds
  BY DEF United, Typed
<1>3. UnitedEdges(a, b) \subseteq held[a] \cup held[b]
  BY DEF UnitedEdges, Within
<1>4. UnitedEdges(a, b) \subseteq 1..Len(heap)
  BY <1>3 DEF Typed
<1>5. nodes' \in [Graphs -> SUBSET NodeIds] /\ held' \in [Graphs -> SUBSET (1..Len(heap))]
  BY <1>1, <1>2, <1>4 DEF Typed
<1>6. \A g \in Graphs : \A o \in held'[g] : o \in DOMAIN heap /\ Triple(o)' = Triple(o)
  BY <1>5 DEF Triple, Typed
<1>7. Anchored'
  <2>1. SUFFICES ASSUME NEW g \in Graphs, NEW o \in held'[g]
                 PROVE  Source(Triple(o)) \in nodes'[g] /\ Target(Triple(o)) \in nodes'[g]
    BY <1>6 DEF Anchored, Source, Target
  <2>2. CASE g = "derived"
    BY <2>1, <2>2, <1>1, <1>5 DEF Typed, UnitedEdges, Within
  <2>3. CASE g # "derived"
    BY <2>1, <2>3, <1>1 DEF Anchored, Typed
  <2>. QED BY <2>2, <2>3
<1>8. OneEach'
  <2>1. SUFFICES ASSUME NEW g \in Graphs, NEW o \in held'[g], NEW p \in held'[g],
                        Triple(o) = Triple(p)
                 PROVE  o = p
    BY <1>6 DEF OneEach
  <2>2. CASE g = "derived"
    <3>1. o \in UnitedEdges(a, b) /\ p \in UnitedEdges(a, b)
      BY <2>2, <1>1 DEF Typed
    <3>2. \A q \in UnitedEdges(a, b) :
            q \in held[a] \/ (q \in held[b] /\ Triple(q) \notin TriplesOf(a))
      BY DEF UnitedEdges, Within
    <3>. QED BY <2>1, <3>1, <3>2 DEF OneEach, TriplesOf
  <2>3. CASE g # "derived"
    BY <2>1, <2>3, <1>1 DEF OneEach, Typed
  <2>. QED BY <2>2, <2>3
<1>. QED BY <1>5, <1>7, <1>8

(* What the two merges do to the heap. *)
LEMMA MergeHeap ==
  ASSUME Typed, NEW a \in Graphs, NEW b \in Graphs, NEW strategy \in Strategies,
         MergeGraphs(a, b, strategy)
  PROVE  /\ heap' \in Seq(Edge) /\ Len(heap') = Len(heap)
         /\ DOMAIN heap' = DOMAIN heap
         /\ \A o \in DOMAIN heap :
              /\ heap'[o].triple = heap[o].triple
              /\ strategy = "union" => heap'[o].weight >= heap[o].weight
              /\ \/ heap'[o] = heap[o] /\ o \notin Shared(a, b)
                 \/ o \in Shared(a, b) /\ heap'[o] = Merged(o, Met(o, b), strategy)
<1>1. \A o \in DOMAIN heap : heap[o] \in Edge
  BY DEF Typed
<1>2. \A o \in Shared(a, b) :
        heap[o] \in Edge /\ heap[Met(o, b)] \in Edge
  BY MetHeld, HeldInHeap
<1>3. heap' = [o \in DOMAIN heap |-> IF o \in Shared(a, b)
                 THEN Merged(o, Met(o, b), strategy) ELSE heap[o]]
  BY DEF MergeGraphs
<1>4. \A o \in DOMAIN heap :
        /\ o \in Shared(a, b) => heap'[o] = Merged(o, Met(o, b), strategy)
        /\ o \notin Shared(a, b) => heap'[o] = heap[o]
  BY <1>3
<1>5. \A o \in DOMAIN heap : 
        /\ heap'[o] \in Edge
        /\ heap'[o].triple = heap[o].triple
        /\ strategy = "union" => heap'[o].weight >= heap[o].weight
  <2>1. SUFFICES ASSUME NEW o \in DOMAIN heap
                 PROVE  /\ heap'[o] \in Edge
                        /\ heap'[o].triple = heap[o].triple
                        /\ strategy = "union" => heap'[o].weight >= heap[o].weight
    OBVIOUS
  <2>2. CASE o \in Shared(a, b)
    BY <2>2, <1>2, <1>4, MergedEdge
  <2>3. CASE o \notin Shared(a, b)
    BY <2>3, <1>1, <1>4 DEF Edge
  <2>. QED BY <2>2, <2>3
<1>6. heap' = [o \in DOMAIN heap |-> heap'[o]]
  BY <1>3
<1>7. /\ heap' \in Seq(Edge) /\ Len(heap') = Len(heap)
      /\ DOMAIN heap' = DOMAIN heap
  BY <1>5, <1>6, InPlace
<1>. QED BY <1>4, <1>5, <1>7

LEMMA IncrementalHeap ==
  ASSUME Typed, NEW a \in Graphs, NEW b \in Graphs, MergeIncremental(a, b)
  PROVE  /\ heap' \in Seq(Edge) /\ Len(heap') = Len(heap)
         /\ DOMAIN heap' = DOMAIN heap
         /\ \A o \in DOMAIN heap : Covers(heap'[o], heap[o])
         /\ \A o \in Shared(a, b) :
              /\ heap'[o].weight >= heap[Met(o, b)].weight
              /\ heap[Met(o, b)].evidence \subseteq heap'[o].evidence
<1>1. \A o \in DOMAIN heap : heap[o] \in Edge
  BY DEF Typed
<1>2. \A o \in Shared(a, b) :
        /\ o \in DOMAIN heap /\ heap[o] \in Edge /\ heap[Met(o, b)] \in Edge
        /\ heap[Met(o, b)].weight \in Nat
        /\ heap[Met(o, b)].evidence \in SUBSET Evidence
  BY MetHeld, HeldInHeap DEF Edge
<1>3. heap' = [o \in DOMAIN heap |-> IF o \in Shared(a, b)
                 THEN Integrated(o, Met(o, b)) ELSE heap[o]]
  BY DEF MergeIncremental
<1>4. \A o \in DOMAIN heap :
        /\ o \in Shared(a, b) => heap'[o] = Integrated(o, Met(o, b))
        /\ o \notin Shared(a, b) => heap'[o] = heap[o]
  BY <1>3
<1>5. \A o \in Shared(a, b) :
        /\ heap'[o] \in Edge /\ Covers(heap'[o], heap[o])
        /\ heap'[o].weight >= heap[Met(o, b)].weight
        /\ heap[Met(o, b)].evidence \subseteq heap'[o].evidence
  BY <1>2, <1>4, ReinforcedEdge DEF Integrated
<1>6. \A o \in DOMAIN heap : heap'[o] \in Edge /\ Covers(heap'[o], heap[o])
  BY <1>1, <1>4, <1>5 DEF Covers, Edge
<1>7. heap' = [o \in DOMAIN heap |-> heap'[o]]
  BY <1>3
<1>8. /\ heap' \in Seq(Edge) /\ Len(heap') = Len(heap)
      /\ DOMAIN heap' = DOMAIN heap
  BY <1>6, <1>7, InPlace
<1>. QED BY <1>5, <1>6, <1>8

-----------------------------------------------------------------------------
(* Every reachable graph is well formed. *)

LEMMA AddEdgeWellFormed ==
  ASSUME WellFormed, NEW g \in Graphs, NEW t \in Triples, NEW w \in Weights,
         NEW evidence \in SUBSET Evidence, AddEdge(g, t, w, evidence)
  PROVE  WellFormed'
<1>. USE DEF WellFormed
<1>1. w \in Nat /\ Len(heap) \in Nat /\ DOMAIN heap = 1..Len(heap)
  BY WeightsAssumption DEF Typed
<1>2. ASSUME NEW o \in held[g], Triple(o) = t,
             heap' = [heap EXCEPT ![o] = Reinforced(@, w, evidence)],
             UNCHANGED held
      PROVE  WellFormed'
  <2>1. o \in DOMAIN heap /\ heap[o] \in Edge
    BY <1>2, HeldInHeap
  <2>2. /\ Reinforced(heap[o], w, evidence) \in Edge
        /\ Reinforced(heap[o], w, evidence).triple = heap[o].triple
    BY <1>1, <2>1, ReinforcedEdge
  <2>3. /\ heap' \in Seq(Edge) /\ Len(heap') = Len(heap)
        /\ \A q \in DOMAIN heap : heap'[q].triple = heap[q].triple
    BY <1>1, <1>2, <2>1, <2>2 DEF Typed
  <2>4. Typed'
    BY <1>2, <2>3 DEF Typed, AddEdge
  <2>5. \A h \in Graphs : \A q \in held[h] : Triple(q)' = Triple(q)
    BY <2>3, HeldInHeap DEF Triple
  <2>. QED BY <1>2, <2>4, <2>5 DEF Anchored, OneEach, AddEdge, Source, Target
<1>3. ASSUME t \notin TriplesOf(g), Len(heap) < MaxEdges,
             heap' = Append(heap, [triple |-> t, weight |-> w, evidence |-> evidence]),
             held' = [held EXCEPT ![g] = @ \cup {Len(heap) + 1}]
      PROVE  WellFormed'
  <2>0. PICK new \in Nat : new = Len(heap) + 1
    BY <1>1
  <2>1. [triple |-> t, weight |-> w, evidence |-> evidence] \in Edge
    BY <1>1 DEF Edge
  <2>2. /\ heap' \in Seq(Edge) /\ Len(heap') = new
        /\ \A q \in DOMAIN heap : heap'[q] = heap[q]
        /\ heap'[new].triple = t
    BY <1>1, <1>3, <2>0, <2>1 DEF Typed
  <2>3. /\ held'[g] = held[g] \cup {new}
        /\ \A h \in Graphs \ {g} : held'[h] = held[h]
        /\ held' \in [Graphs -> SUBSET (1..new)]
    BY <1>1, <1>3, <2>0 DEF Typed
  <2>4. Typed'
    <3>1. nodes' = nodes /\ conflicts' = conflicts
      BY DEF AddEdge
    <3>2. new <= MaxEdges
      BY <1>1, <1>3, <2>0, WeightsAssumption
    <3>. QED BY <2>2, <2>3, <3>1, <3>2 DEF Typed
  <2>5. /\ \A h \in Graphs : \A q \in held[h] : Triple(q)' = Triple(q)
        /\ Triple(new)' = t
    BY <2>2, HeldInHeap DEF Triple
  <2>6. Anchored'
    BY <1>3, <2>3, <2>5 DEF Anchored, AddEdge, Source, Target
  <2>7. OneEach'
    <3>1. \A q \in held[g] : Triple(q) # t
      BY <1>3 DEF TriplesOf
    <3>2. \A q, p \in held'[g] : Triple(q)' = Triple(p)' => q = p
      BY <2>3, <2>5, <3>1 DEF OneEach
    <3>3. \A h \in Graphs \ {g} : \A q, p \in held'[h] : Triple(q)' = Triple(p)' => q = p
      BY <2>3, <2>5 DEF OneEach
    <3>. QED BY <3>2, <3>3 DEF OneEach
  <2>. QED BY <2>4, <2>6, <2>7
<1>. QED BY <1>2, <1>3 DEF AddEdge

LEMMA StepWellFormed ==
  ASSUME WellFormed, Next
  PROVE  WellFormed'
<1>. USE DEF WellFormed
<1>1. ASSUME NEW g \in Graphs, NEW n \in NodeIds, AddNode(g, n)
      PROVE  WellFormed'
  <2>1. Typed'
    BY <1>1 DEF AddNode, Typed
  <2>. QED BY <1>1, <2>1 DEF AddNode, Typed, Anchored, OneEach, Triple, Source, Target
<1>2. ASSUME NEW g \in Graphs, NEW n \in NodeIds, RemoveNode(g, n)
      PROVE  WellFormed'
  <2>1. Typed'
    BY <1>2 DEF RemoveNode, Typed
  <2>2. /\ \A h \in Graphs \ {g} : nodes'[h] = nodes[h] /\ held'[h] = held[h]
        /\ nodes'[g] = nodes[g] \ {n}
        /\ held'[g] = {o \in held[g] : Source(Triple(o)) # n /\ Target(Triple(o)) # n}
        /\ heap' = heap
    BY <1>2 DEF RemoveNode, Typed
  <2>3. Anchored'
    BY <2>2 DEF Anchored, Triple, Source, Target
  <2>4. OneEach'
    BY <2>2 DEF OneEach, Triple
  <2>. QED BY <2>1, <2>3, <2>4
<1>3. ASSUME NEW g \in Graphs, NEW o \in DOMAIN heap, RemoveEdge(g, o)
      PROVE  WellFormed'
  <2>1. Typed'
    BY <1>3 DEF RemoveEdge, Typed
  <2>. QED BY <1>3, <2>1 DEF RemoveEdge, Typed, Anchored, OneEach, Triple, Source, Target
<1>4. ASSUME NEW g \in Graphs, NEW t \in Triples, NEW w \in Weights,
             AddEdge(g, t, w, {"static_analysis"}) \/ Enrich(g, t, w)
      PROVE  WellFormed'
  BY <1>4, AddEdgeWellFormed DEF Enrich, Evidence
<1>5. ASSUME NEW a \in Graphs, NEW b \in Built, NEW strategy \in Strategies,
             MergeGraphs(a, b, strategy)
      PROVE  WellFormed'
  <2>1. b \in Graphs
    BY DEF Built, Graphs
  <2>2. /\ heap' \in Seq(Edge) /\ Len(heap') = Len(heap)
        /\ \A o \in DOMAIN heap : heap'[o].triple = heap[o].triple
    BY <1>5, <2>1, MergeHeap
  <2>3. conflicts' \subseteq Triples
    <3>1. \A o \in Shared(a, b) : Triple(o) \in Triples
      BY HeldInHeap DEF Shared
    <3>. QED BY <1>5, <3>1 DEF MergeGraphs, ConflictsOf
  <2>4. /\ nodes' \in [Graphs -> SUBSET NodeIds]
        /\ held' \in [Graphs -> SUBSET (1..Len(heap))]
        /\ Anchored' /\ OneEach'
    BY <1>5, <2>1, <2>2, UnitedWellFormed DEF MergeGraphs
  <2>. QED BY <2>2, <2>3, <2>4 DEF Typed
<1>6. ASSUME NEW a \in Graphs, NEW b \in Built, MergeIncremental(a, b)
      PROVE  WellFormed'
  <2>1. b \in Graphs
    BY DEF Built, Graphs
  <2>2. /\ heap' \in Seq(Edge) /\ Len(heap') = Len(heap)
        /\ \A o \in DOMAIN heap : heap'[o].triple = heap[o].triple
    BY <1>6, <2>1, IncrementalHeap DEF Covers
  <2>3. /\ nodes' \in [Graphs -> SUBSET NodeIds]
        /\ held' \in [Graphs -> SUBSET (1..Len(heap))]
        /\ Anchored' /\ OneEach'
    BY <1>6, <2>1, <2>2, UnitedWellFormed DEF MergeIncremental
  <2>. QED BY <1>6, <2>2, <2>3 DEF Typed, MergeIncremental
<1>7. ASSUME NEW g \in Graphs, NEW ids \in SUBSET NodeIds, NEW near \in BOOLEAN,
             GetSubgraph(g, ids, near)
      PROVE  WellFormed'
  <2>1. PICK kept \in SUBSET nodes[g] :
          /\ nodes' = [nodes EXCEPT !["derived"] = kept]
          /\ held' = [held EXCEPT !["derived"] = Within(held[g], kept)]
          /\ heap' = heap /\ conflicts' = conflicts
    BY <1>7 DEF GetSubgraph
  <2>2. Within(held[g], kept) \subseteq held[g]
    BY DEF Within
  <2>3. Typed'
    BY <2>1, <2>2 DEF Typed
  <2>4. /\ \A h \in Graphs \ {"derived"} : nodes'[h] = nodes[h] /\ held'[h] = held[h]
        /\ nodes'["derived"] = kept /\ held'["derived"] = Within(held[g], kept)
    BY <2>1 DEF Typed, Graphs
  <2>5. Anchored'
    BY <2>1, <2>4 DEF Anchored, Within, Triple, Source, Target
  <2>6. OneEach'
    BY <2>1, <2>2, <2>4 DEF OneEach, Triple
  <2>. QED BY <2>3, <2>5, <2>6
<1>. QED BY <1>1, <1>2, <1>3, <1>4, <1>5, <1>6, <1>7 DEF Next

(* schemas/graph.py, graph/builder.py and graph/merge.py keep every graph  *)
(* well formed: edges have their ends in the graph, one to a triple.       *)
THEOREM GraphsWellFormed == Spec => []WellFormed
<1>1. Init => WellFormed
  BY WeightsAssumption DEF Init, WellFormed, Typed, Anchored, OneEach
<1>2. WellFormed /\ [Next]_vars => WellFormed'
  <2>1. ASSUME WellFormed, UNCHANGED vars
        PROVE  WellFormed'
    BY <2>1 DEF vars, WellFormed, Typed, Anchored, OneEach, Triple
  <2>. QED BY <2>1, StepWellFormed
<1>. QED BY <1>1, <1>2, PTL DEF Spec

-----------------------------------------------------------------------------
(* Merges account for what they lose. *)

(* A united graph has the nodes of both, and an edge for each of theirs:   *)
(* the edge of a itself, or for an edge of b the edge of a that meets it.  *)
LEMMA UnitedCovers ==
  ASSUME WellFormed, NEW a \in Graphs, NEW b \in Graphs, Unites(a, b)
  PROVE  /\ nodes[a] \subseteq nodes'["derived"] /\ nodes[b] \subseteq nodes'["derived"]
         /\ held[a] \subseteq held'["derived"]
         /\ \A p \in held[b] :
              \/ p \in held'["derived"] /\ Triple(p) \notin TriplesOf(a)
              \/ \E o \in Shared(a, b) : o \in held'["derived"] /\ Met(o, b) = p
<1>1. /\ nodes'["derived"] = United(a, b)
      /\ held'["derived"] = UnitedEdges(a, b)
  BY DEF Unites, WellFormed, Typed, Graphs
<1>2. \A o \in held[a] \cup held[b] :
        Source(Triple(o)) \in United(a, b) /\ Target(Triple(o)) \in United(a, b)
  BY DEF WellFormed, Anchored, United
<1>3. /\ held[a] \subseteq UnitedEdges(a, b)
      /\ \A p \in held[b] : Triple(p) \notin TriplesOf(a) => p \in UnitedEdges(a, b)
  BY <1>2 DEF UnitedEdges, Within
<1>4. ASSUME NEW p \in held[b], Triple(p) \in TriplesOf(a)
      PROVE  \E o \in Shared(a, b) : o \in held'["derived"] /\ Met(o, b) = p
  <2>1. PICK o \in held[a] : Triple(o) = Triple(p)
    BY <1>4 DEF TriplesOf
  <2>2. o \in Shared(a, b)
    BY <2>1 DEF Shared, TriplesOf
  <2>3. Met(o, b) = p
    BY <2>1, <2>2, MetHeld DEF WellFormed, OneEach
  <2>. QED BY <1>1, <1>3, <2>1, <2>2, <2>3
<1>. QED BY <1>1, <1>3, <1>4 DEF United

(* The two lemmas on the heap, put together with the graphs: if every      *)
(* object keeps what it said unless it is excused, and each shared one     *)
(* takes over what the edge it meets said, nothing is lost.                *)
LEMMA NothingLost ==
  ASSUME WellFormed, NEW a \in Graphs, NEW b \in Graphs, Unites(a, b),
         NEW excused,
         \A o \in DOMAIN heap : heap'[o].triple = heap[o].triple,
         NoneWeakened(excused),
         \A o \in Shared(a, b) :
           \/ Triple(o) \in excused
           \/ /\ heap'[o].weight >= heap[Met(o, b)].weight
              /\ heap[Met(o, b)].evidence \subseteq heap'[o].evidence
  PROVE  NothingLostFrom(a, excused) /\ NothingLostFrom(b, excused)
<1>. USE DEF WellFormed
<1>1. NothingLostFrom(a, excused)
  BY UnitedCovers, HeldInHeap DEF NothingLostFrom, NoneWeakened
<1>2. ASSUME NEW p \in held[b]
      PROVE  \E q \in held'["derived"] :
               /\ heap'[q].triple = heap[p].triple
               /\ heap[p].triple \in excused \/ Covers(heap'[q], heap[p])
  <2>1. CASE p \in held'["derived"]
    BY <2>1, HeldInHeap DEF NoneWeakened
  <2>2. CASE p \notin held'["derived"]
    <3>1. PICK o \in Shared(a, b) : o \in held'["derived"] /\ Met(o, b) = p
      BY <2>2, UnitedCovers
    <3>2. o \in DOMAIN heap /\ heap[o].triple = heap[p].triple
      BY <3>1, MetHeld, HeldInHeap DEF Triple
    <3>. QED BY <3>1, <3>2 DEF Covers, Triple
  <2>. QED BY <2>1, <2>2
<1>. QED BY <1>1, <1>2, UnitedCovers DEF NothingLostFrom

LEMMA MergeLosesConflictsOnly ==
  ASSUME WellFormed, NEW a \in Graphs, NEW b \in Graphs, NEW strategy \in Strategies,
         MergeGraphs(a, b, strategy)
  PROVE  /\ NothingLostFrom(a, conflicts') /\ NothingLostFrom(b, conflicts')
         /\ NoneWeakened(conflicts')
         /\ strategy = "union" =>
              \A o \in DOMAIN heap : heap'[o].weight >= heap[o].weight
<1>. USE DEF WellFormed
<1>1. /\ Unites(a, b)
      /\ conflicts' = {Triple(o) : o \in {s \in Shared(a, b) : Conflicting(s, Met(s, b))}}
  BY DEF MergeGraphs, ConflictsOf
<1>2. \A o \in DOMAIN heap :
        /\ heap'[o].triple = heap[o].triple
        /\ strategy = "union" => heap'[o].weight >= heap[o].weight
        /\ \/ heap'[o] = heap[o] /\ o \notin Shared(a, b)
           \/ o \in Shared(a, b) /\ heap'[o] = Merged(o, Met(o, b), strategy)
  BY MergeHeap
<1>3. \A o \in Shared(a, b) :
        \/ Triple(o) \in conflicts'
        \/ /\ Covers(heap'[o], heap[o])
           /\ heap'[o].weight >= heap[Met(o, b)].weight
           /\ heap[Met(o, b)].evidence \subseteq heap'[o].evidence
  <2>1. SUFFICES ASSUME NEW o \in Shared(a, b), ~Conflicting(o, Met(o, b))
                 PROVE  /\ Covers(heap'[o], heap[o])
                        /\ heap'[o].weight >= heap[Met(o, b)].weight
                        /\ heap[Met(o, b)].evidence \subseteq heap'[o].evidence
    BY <1>1
  <2>2. /\ o \in DOMAIN heap
        /\ heap[o] \in Edge /\ heap[Met(o, b)] \in Edge
    BY MetHeld, HeldInHeap
  <2>3. heap'[o] = Merged(o, Met(o, b), strategy)
    BY <1>2, <2>2
  <2>. QED BY <2>1, <2>2, <2>3, MergedEdge
<1>4. NoneWeakened(conflicts')
  <2>1. SUFFICES ASSUME NEW o \in DOMAIN heap
                 PROVE  heap[o].triple \in conflicts' \/ Covers(heap'[o], heap[o])
    BY DEF NoneWeakened
  <2>2. CASE o \in Shared(a, b)
    BY <2>2, <1>3 DEF Triple
  <2>3. CASE o \notin Shared(a, b)
    <3>1. heap'[o] = heap[o] /\ heap[o] \in Edge
      BY <1>2, <2>3 DEF Typed
    <3>. QED BY <3>1 DEF Covers, Edge
  <2>. QED BY <2>2, <2>3
<1>5. NothingLostFrom(a, conflicts') /\ NothingLostFrom(b, conflicts')
  BY <1>1, <1>2, <1>3, <1>4, NothingLost
<1>. QED BY <1>2, <1>4, <1>5

LEMMA IncrementalLosesNothing ==
  ASSUME WellFormed, NEW a \in Graphs, NEW b \in Graphs, MergeIncremental(a, b)
  PROVE  /\ NothingLostFrom(a, {}) /\ NothingLostFrom(b, {})
         /\ NoneWeakened({})
<1>. USE DEF WellFormed
<1>1. /\ \A o \in DOMAIN heap : Covers(heap'[o], heap[o])
      /\ \A o \in Shared(a, b) :
           /\ heap'[o].weight >= heap[Met(o, b)].weight
           /\ heap[Met(o, b)].evidence \subseteq heap'[o].evidence
  BY IncrementalHeap
<1>2. NoneWeakened({})
  BY <1>1 DEF NoneWeakened
<1>3. \A o \in DOMAIN heap : heap'[o].triple = heap[o].triple
  BY <1>1 DEF Covers
<1>4. Unites(a, b)
  BY DEF MergeIncremental
<1>. QED BY <1>1, <1>2, <1>3, <1>4, NothingLost

(* What a merge of graph/merge.py takes away from any graph is named by    *)
(* the conflicts it records; merge_incremental takes nothing.              *)
THEOREM MergesAccounted == Spec => MergeAccounted
<1>1. ASSUME WellFormed
      PROVE  \A a \in Graphs, b \in Built : Unites(a, b) => Accounted(a, b)
  <2>1. SUFFICES ASSUME NEW a \in Graphs, NEW b \in Built
                 PROVE  Accounted(a, b)
    OBVIOUS
  <2>2. b \in Graphs /\ "union" \in Strategies
    BY DEF Built, Graphs, Strategies
  <2>3. \A strategy \in Strategies : MergeGraphs(a, b, strategy) =>
          /\ NothingLostFrom(a, conflicts') /\ NothingLostFrom(b, conflicts')
          /\ NoneWeakened(conflicts')
    BY <1>1, <2>2, MergeLosesConflictsOnly
  <2>4. MergeGraphs(a, b, "union") =>
          \A o \in DOMAIN heap : heap'[o].weight >= heap[o].weight
    BY <1>1, <2>2, MergeLosesConflictsOnly
  <2>5. MergeIncremental(a, b) =>
          /\ NothingLostFrom(a, {}) /\ NothingLostFrom(b, {})
          /\ NoneWeakened({})
    BY <1>1, <2>2, IncrementalLosesNothing
  <2>. QED BY <2>3, <2>4, <2>5 DEF Accounted
<1>. QED BY <1>1, GraphsWellFormed, PTL DEF MergeAccounted
=============================================================================
