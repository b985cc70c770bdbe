----------------------------- MODULE GraphSearch -----------------------------
(* The searches for directed cycles in a program graph:                    *)
(* GraphAnalyzer.find_cycles of graph/analysis.py, which decides, finds    *)
(* the strongly connected components (Kosaraju) and then lists cycles, and *)
(* ProgramGraphBuilder.find_cycles of graph/builder.py, which lists what   *)
(* the back edges of one depth-first search close.                         *)
(*                                                                         *)
(* Every search is recursive in the code.  Here it is a stack of calls,    *)
(* each with the edges that its loop has still to visit, in any order: the *)
(* order of a dict of edges, whatever was added first.  A step is one      *)
(* round of such a loop.  The graph is one that is well formed in the      *)
(* sense of ProgramGraph.                                                  *)
EXTENDS Naturals, Sequences, FiniteSets

CONSTANTS
  Nodes,         \* the ids of the nodes
  Graphs,        \* the sets of edges to search: source, target, kind
  Limits,        \* the values of max_cycles
  MaxCycleSize,  \* max_cycle_size of _find_all_cycles, 10
  None           \* no max_cycles: exhaustive

ASSUME GraphsAssumption == Graphs \subseteq SUBSET (Nodes \X Nodes \X {"calls", "writes"})
ASSUME LimitsAssumption == Limits \subseteq Nat \cup {None} /\ None \notin Nat
ASSUME SizeAssumption == MaxCycleSize \in Nat \ {0}

VARIABLES
  edges,       \* the graph
  limit,       \* max_cycles of the call
  phase,       \* the search that runs
  stack,       \* its calls: the node of each, the edges not yet visited
  seen,        \* visited; the nodes with a colour in _has_cycle
  finished,    \* finish_stack of the first pass
  components,  \* sccs, the one under construction included
  cyclic,      \* the answer of _has_cycle
  starts,      \* the nodes from which no cycle has been looked for
  room,        \* how many more paths the search from this start may record
  cycles       \* the cycles listed, without the node that closes them

vars == <<edges, limit, phase, stack, seen, finished, components, cyclic,
          starts, room, cycles>>

Phases == {"has_cycle", "finish", "collect", "enumerate", "back_edges",
           "analyzed", "built"}

(* GraphAnalyzer.find_cycles, or the builder's. *)
Init ==
  /\ edges \in Graphs
  /\ limit \in Limits
  /\ phase \in {"has_cycle", "back_edges"}
  /\ stack = <<>> /\ seen = {}
  /\ finished = <<>> /\ components = {} /\ cyclic = FALSE
  /\ starts = {} /\ room = 0 /\ cycles = <<>>

-----------------------------------------------------------------------------
Source(e) == e[1]
Target(e) == e[2]

(* The second pass of Kosaraju follows the edges backwards. *)
Leaving(n) ==
  {e \in edges : n = IF phase = "collect" THEN Target(e) ELSE Source(e)}
Far(e) == IF phase = "collect" THEN Source(e) ELSE Target(e)

Call(n) == [node |-> n, left |-> Leaving(n)]
Top == stack[Len(stack)]
Path == [i \in DOMAIN stack |-> stack[i].node]
NodesOf(s) == {s[i] : i \in DOMAIN s}

(* The stack once the loop on top has taken an edge. *)
Visited(e) == [stack EXCEPT ![Len(stack)].left = @ \ {e}]

(* Mutant: the whole path, also what leads up to the cycle. *)
LoopWithTail(i) == Path

(* The part of the path that an edge to its i-th node closes. *)
Loop(i) == SubSeq(Path, i, Len(Path))

(* Cycles are told apart by their sets of nodes. *)
Listed(c) == \E i \in DOMAIN cycles : NodesOf(cycles[i]) = NodesOf(c)
WithCycle(c) == IF Listed(c) THEN cycles ELSE Append(cycles, c)

Sweeping == phase \in {"has_cycle", "finish", "collect", "back_edges"}

(* Mutant: the second pass takes the nodes in the order of their dict, too. *)
AnyRoot(n) == n \in Nodes \ seen

(* The nodes in the order of their dict, the second pass from the last     *)
(* finished node down.                                                     *)
NextRoot(n) ==
  /\ n \in Nodes \ seen
  /\ phase = "collect" =>
       \E i \in DOMAIN finished :
         finished[i] = n /\ \A j \in i + 1 .. Len(finished) : finished[j] \in seen

Begin(n) ==
  /\ Sweeping /\ stack = <<>> /\ NextRoot(n)
  /\ stack' = <<Call(n)>>
  /\ seen' = seen \cup {n}
  /\ components' = IF phase = "collect" THEN components \cup {{n}} ELSE components
  /\ UNCHANGED <<edges, limit, phase, finished, cyclic, starts, room, cycles>>

(* An edge to a node that was not visited: recursion. *)
Descend(e) ==
  /\ Sweeping /\ stack # <<>> /\ e \in Top.left
  /\ Far(e) \notin seen
  /\ stack' = Append(Visited(e), Call(Far(e)))
  /\ seen' = seen \cup {Far(e)}
  /\ components' =
       IF phase = "collect"
       THEN {IF Top.node \in c THEN c \cup {Far(e)} ELSE c : c \in components}
       ELSE components
  /\ UNCHANGED <<edges, limit, phase, finished, cyclic, starts, room, cycles>>

(* An edge back to a call that is still open is a cycle: _has_cycle has    *)
(* its answer, the builder lists the part of the path that it closes.      *)
MeetOpen(e) ==
  /\ phase \in {"has_cycle", "back_edges"} /\ stack # <<>> /\ e \in Top.left
  /\ \E i \in DOMAIN stack :
       /\ Path[i] = Target(e)
       /\ IF phase = "has_cycle"
          THEN /\ cyclic' = TRUE /\ phase' = "finish"
               /\ stack' = <<>> /\ seen' = {}
               /\ UNCHANGED cycles
          ELSE /\ cycles' = WithCycle(Loop(i))
               /\ stack' = Visited(e)
               /\ UNCHANGED <<cyclic, phase, seen>>
  /\ UNCHANGED <<edges, limit, finished, components, starts, room>>

(* An edge to a call that is closed, or that this search does not care of. *)
MeetSeen(e) ==
  /\ Sweeping /\ stack # <<>> /\ e \in Top.left
  /\ Far(e) \in seen
  /\ phase \in {"has_cycle", "back_edges"} => Target(e) \notin NodesOf(Path)
  /\ stack' = Visited(e)
  /\ UNCHANGED <<edges, limit, phase, seen, finished, components, cyclic,
                 starts, room, cycles>>

Return ==
  /\ stack # <<>> /\ Top.left = {}
  /\ stack' = SubSeq(stack, 1, Len(stack) - 1)
  /\ finished' = IF phase = "finish" THEN Append(finished, Top.node) ELSE finished
  /\ UNCHANGED <<edges, limit, phase, seen, components, cyclic, starts, room, cycles>>

(* _cycle_candidate_nodes. *)
Candidates ==
  (UNION {c \in components : Cardinality(c) > 1})
    \cup {n \in Nodes : \E e \in edges : Source(e) = n /\ Target(e) = n}

EndSweep ==
  /\ Sweeping /\ stack = <<>> /\ seen = Nodes
  /\ phase' = CASE phase = "has_cycle" -> "finish"
                [] phase = "finish" -> "collect"
                [] phase = "collect" -> "enumerate"
                [] phase = "back_edges" -> "built"
  /\ starts' = IF phase = "collect" /\ cyclic THEN Candidates ELSE {}
  /\ seen' = {}
  /\ UNCHANGED <<edges, limit, stack, finished, components, cyclic, room, cycles>>

-----------------------------------------------------------------------------
(* _find_all_cycles: from every candidate all simple paths back to it.  A  *)
(* node is avoided only while it is on the path.                           *)

Full == limit # None /\ Len(cycles) >= limit
Exhausted == limit # None /\ room = 0

BeginAt(n) ==
  /\ phase = "enumerate" /\ stack = <<>> /\ n \in starts /\ ~Full
  /\ starts' = starts \ {n}
  /\ stack' = <<Call(n)>>
  /\ room' = IF limit = None THEN 0 ELSE limit - Len(cycles)
  /\ UNCHANGED <<edges, limit, phase, seen, finished, components, cyclic, cycles>>

(* The path is back at its start.  A path that shows a cycle once more     *)
(* takes room, too.                                                        *)
Close(e) ==
  /\ phase = "enumerate" /\ stack # <<>> /\ e \in Top.left /\ ~Exhausted
  /\ Target(e) = Path[1]
  /\ cycles' = WithCycle(Path)
  /\ room' = IF limit = None THEN 0 ELSE room - 1
  /\ stack' = Visited(e)
  /\ UNCHANGED <<edges, limit, phase, seen, finished, components, cyclic, starts>>

(* Mutant: one node too early. *)
TooLongBeforeIt == Len(stack) + 1 >= MaxCycleSize

(* A path that grows past max_cycle_size nodes is given up. *)
TooLong == Len(stack) >= MaxCycleSize

Extend(e) ==
  /\ phase = "enumerate" /\ stack # <<>> /\ e \in Top.left /\ ~Exhausted
  /\ Target(e) # Path[1]
  /\ stack' = IF Target(e) \in NodesOf(Path) \/ TooLong
              THEN Visited(e)
              ELSE Append(Visited(e), Call(Target(e)))
  /\ UNCHANGED <<edges, limit, phase, seen, finished, components, cyclic,
                 starts, room, cycles>>

(* Enough paths: all the open calls break out of their loops. *)
BreakOff ==
  /\ phase = "enumerate" /\ stack # <<>> /\ Exhausted
  /\ stack' = <<>>
  /\ UNCHANGED <<edges, limit, phase, seen, finished, components, cyclic,
                 starts, room, cycles>>

Analyzed ==
  /\ phase = "enumerate" /\ stack = <<>> /\ (starts = {} \/ Full)
  /\ phase' = "analyzed"
  /\ UNCHANGED <<edges, limit, stack, seen, finished, components, cyclic,
                 starts, room, cycles>>

Next ==
  \/ \E n \in Nodes : Begin(n) \/ BeginAt(n)
  \/ \E e \in edges : Descend(e) \/ MeetOpen(e) \/ MeetSeen(e) \/ Close(e) \/ Extend(e)
  \/ Return \/ EndSweep \/ BreakOff \/ Analyzed

Spec == Init /\ [][Next]_vars

-----------------------------------------------------------------------------
(* What the searches are after, by definition. *)

Linked(n, m) == \E e \in edges : Source(e) = n /\ Target(e) = m

Closed(S) == \A e \in edges : Source(e) \in S => Target(e) \in S
Reaches(n, m) == \A S \in SUBSET Nodes : n \in S /\ Closed(S) => m \in S

StrongComponent(n) == {m \in Nodes : Reaches(n, m) /\ Reaches(m, n)}

Distinct(s) == \A i, j \in DOMAIN s : s[i] = s[j] => i = j
IsCycle(c) ==
  /\ c # <<>> /\ Distinct(c)
  /\ \A i \in 1 .. Len(c) - 1 : Linked(c[i], c[i + 1])
  /\ Linked(c[Len(c)], c[1])

CycleSets(k) ==
  {NodesOf(c) : c \in {s \in UNION {[1 .. j -> Nodes] : j \in 1 .. k} : IsCycle(s)}}

OnCycle == {n \in Nodes : \E m \in Nodes : Linked(n, m) /\ Reaches(m, n)}

ListedSets == {NodesOf(cycles[i]) : i \in DOMAIN cycles}

-----------------------------------------------------------------------------
(* Properties *)

Typed ==
  /\ edges \subseteq Nodes \X Nodes \X {"calls", "writes"} /\ limit \in Limits /\ phase \in Phases
  /\ stack \in Seq([node : Nodes, left : SUBSET edges])
  /\ seen \subseteq Nodes /\ finished \in Seq(Nodes)
  /\ components \subseteq SUBSET Nodes
  /\ cyclic \in BOOLEAN /\ starts \subseteq Nodes /\ room \in Nat
  /\ cycles \in Seq(Seq(Nodes))

(* Whatever the graph, the order of its edges and the caps, a cycle that   *)
(* either search lists is one: each node once, every step along an edge,   *)
(* the last one back to the first node; and no set of nodes twice.         *)
CyclesSound ==
  /\ Typed
  /\ \A i \in DOMAIN cycles : IsCycle(cycles[i])
  /\ \A i, j \in DOMAIN cycles : NodesOf(cycles[i]) = NodesOf(cycles[j]) => i = j

(* The components are the classes of nodes that reach one another, and     *)
(* _has_cycle, a search of its own, agrees with them.                      *)
ComponentsExact ==
  phase \in {"enumerate", "analyzed"} =>
    /\ components = {StrongComponent(n) : n \in Nodes}
    /\ cyclic <=> OnCycle # {}
    /\ Candidates = OnCycle

(* Without max_cycles every set of nodes that a short enough cycle visits  *)
(* is listed; with it no more than so many, but one if there is one.  The  *)
(* builder, which lists far fewer, leaves no tangle of cycles without one. *)
CyclesListed ==
  /\ phase = "analyzed" =>
       LET short == CycleSets(MaxCycleSize) IN
       IF limit = None THEN ListedSets = short
       ELSE Len(cycles) <= limit /\ (limit > 0 /\ short # {} => cycles # <<>>)
  /\ phase = "built" =>
       \A n \in OnCycle : \E c \in ListedSets : c \subseteq StrongComponent(n)
=============================================================================
