------------------------------ MODULE StateSpace ------------------------------
(***************************************************************************)
(* StateSpaceCompiler (statespace/compiler.py) and StateVariableExtractor  *)
(* (statespace/variables.py) as functions of a sequence of mappings, the   *)
(* values of the dict they are given, and of the program graph.  A state   *)
(* variable var_n, an observation obs_n and an action act_n are kept under *)
(* their node n.  Names, types, domains and parameters are left out.       *)
(***************************************************************************)
EXTENDS Integers, SequencesExt, FiniteSets

CONSTANTS
  GraphNodes,  \* nodes of the program graph
  Edges        \* its edges: source, target, kind

ASSUME GraphAssumption == Edges \subseteq
  [s : GraphNodes, t : GraphNodes, kind : {"reads", "observes", "writes", "mutates", "calls"}]

(* map_confidence_score, of a score in percent.                            *)
Level(score) == CASE score >= 95 -> "definite"
                  [] score >= 80 -> "high"
                  [] score >= 60 -> "medium"
                  [] score >= 40 -> "low"
                  [] OTHER       -> "uncertain"

(* Positions of the mappings of some kinds that speak of node n.           *)
About(maps, kinds, n) == {i \in DOMAIN maps : maps[i].kind \in kinds /\ n \in maps[i].nodes}
Spoken(maps, kinds) == {n \in GraphNodes : About(maps, kinds, n) # {}}

Hidden == {"hidden_state"}
Observing == {"observation"}
Acting == {"action", "policy"}
Preferring == {"constraint", "preference"}

(* StateVariableExtractor.extract: state_variables grows over the calls;   *)
(* the last mapping of a node wins, and the flag is only ever raised.      *)
Extract(old, maps) ==
  [n \in DOMAIN old \cup Spoken(maps, Hidden) |->
     LET at == About(maps, Hidden, n)
     IN  [level |-> IF at = {} THEN old[n].level ELSE Level(maps[Max(at)].score),
          observable |-> About(maps, Observing, n) # {} \/ (at = {} /\ old[n].observable)]]

(* The last mapping of a node wins.                                        *)
Observations(maps) ==
  [n \in Spoken(maps, Observing) |-> Level(maps[Max(About(maps, Observing, n))].score)]

(* The first mapping of a node wins.                                       *)
Actions(maps) ==
  [n \in Spoken(maps, Acting) |-> Level(maps[Min(About(maps, Acting, n))].score)]

(* _cross_reference_actions_and_variables                                  *)
Writes(n, variables) ==
  {e.t : e \in {x \in Edges : x.s = n /\ x.kind \in {"writes", "mutates"}}} \cap DOMAIN variables
Reads(n, variables) ==
  LET reading == {e \in Edges : e.kind \in {"reads", "observes"}}
  IN  ({e.t : e \in {x \in reading : x.s = n}} \cup {e.s : e \in {x \in reading : x.t = n}})
        \cap DOMAIN variables

Transitions(variables, actions) ==
  [n \in DOMAIN actions |->
     [source |-> Reads(n, variables) \cup Writes(n, variables), post |-> Writes(n, variables)]]

(* A likelihood for every variable and for every observed node.            *)
Likelihoods(variables, maps) ==
  ({"variable"} \X DOMAIN variables) \cup ({"observation"} \X Spoken(maps, Observing))

(* The scope takes neighbours whether they have a variable or not.         *)
Scope(m) ==
  LET touching == {e \in Edges : e.kind # "calls"}
  IN  {e.t : e \in {x \in touching : x.s \in m.nodes}}
        \cup {e.s : e \in {x \in touching : x.t \in m.nodes}}

Preferences(maps) ==
  [id \in {maps[i].id : i \in {j \in DOMAIN maps : maps[j].kind \in Preferring}} |->
     LET m == maps[CHOOSE i \in DOMAIN maps : maps[i].id = id]
     IN  [scope |-> Scope(m), weight |-> m.score]]

(* What follows from the variables and observations, new or reused.        *)
Assemble(variables, observations, maps) ==
  [variables    |-> variables,
   observations |-> observations,
   actions      |-> Actions(maps),
   transitions  |-> Transitions(variables, Actions(maps)),
   likelihoods  |-> Likelihoods(variables, maps),
   preferences  |-> Preferences(maps)]

(* compile, by an extractor that has extracted `old`.                      *)
Compile(old, maps) == Assemble(Extract(old, maps), Observations(maps), maps)

(* Mutant: preferences are reused too.                                     *)
CompileIncrementalWeights(prev, maps) ==
  [Assemble(prev.variables, prev.observations, maps) EXCEPT !.preferences = prev.preferences]
(* compile_incremental                                                     *)
CompileIncremental(prev, maps) == Assemble(prev.variables, prev.observations, maps)
=============================================================================
