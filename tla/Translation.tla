----------------------------- MODULE Translation -----------------------------
(***************************************************************************)
(* The translation engine (cogant/translate/engine.py): repeated passes of *)
(* the rules over a program graph until one adds no mapping, then conflict *)
(* resolution between mappings whose fragments share a node; and           *)
(* translate_with_confidence, which rescores the mappings that are left    *)
(* and resolves conflicts again.  One engine serves one call after another. *)
(*                                                                         *)
(* A graph is abstracted to what the rules find in it: the mappings each   *)
(* rule emits, their fragments and their scores before and after the       *)
(* confidence model.  Mapping ids are numbers, ordered as the strings are. *)
(***************************************************************************)
EXTENDS Integers, Sequences, FiniteSets

CONSTANTS
  Rules,          \* registered rules
  Priority,       \* their priorities
  Ids,            \* mapping ids
  Nodes,          \* graph nodes
  Inputs,         \* the graphs and rule filters translate is called with
  LaterInputs,    \* bound: those of the calls after the first
  MaxIterations,  \* max_iterations
  MaxCalls        \* bound on the number of calls

InputRecords ==
  [active : SUBSET Rules,              \* rules the filter lets through
   emits : [Rules -> SUBSET Ids],      \* ids of the mappings a rule creates
   fragment : [Ids -> Seq(Nodes)],     \* graph_fragment_node_ids
   score : [Ids -> Nat],               \* confidence the rule assigns
   rescored : [Ids -> Nat]]            \* confidence the model assigns

ASSUME TranslationAssumption ==
  /\ Ids \subseteq Nat /\ IsFiniteSet(Ids)
  /\ Priority \in [Rules -> Int]
  /\ Inputs \subseteq InputRecords /\ Inputs # {}
  /\ LaterInputs \subseteq Inputs
  /\ MaxIterations \in Nat \ {0} /\ MaxCalls \in Nat

VARIABLES
  phase,         \* "idle", "applying", "resolving", "returned", "raised"
  input,         \* the argument of the current call
  scoring,       \* "none"; "due" or "done" in translate_with_confidence
  todo,          \* rules of this pass that are still to be applied
  iteration,     \* number of the current pass
  fresh,         \* new_mappings of the current pass
  converged,     \* _convergence_iteration, 0 for None
  mappings,      \* ids in self.mappings
  rulePriority,  \* _rule_priority, with the default 0 of its get
  confidence,    \* confidence_score of each mapping
  pairs,         \* conflict_pairs still to be visited
  removed,       \* to_remove
  log,           \* the conflict_resolved events
  proposed,      \* history: the mappings before conflict resolution
  calls          \* number of calls so far

call == <<input, scoring, calls>>
pass == <<todo, iteration, fresh, converged>>
resolution == <<pairs, removed, log, proposed>>
vars == <<phase, call, pass, mappings, rulePriority, confidence, resolution>>

Init ==
  /\ phase = "idle"
  /\ input = CHOOSE in \in Inputs : TRUE   \* not read before the first call
  /\ scoring = "none"
  /\ todo = {} /\ iteration = 0 /\ fresh = 0 /\ converged = 0
  /\ mappings = {}
  /\ rulePriority = [i \in Ids |-> 0]
  /\ confidence = [i \in Ids |-> 0]
  /\ pairs = {} /\ removed = {} /\ log = {} /\ proposed = {}
  /\ calls = 0

-----------------------------------------------------------------------------
(* Rule application *)

(* Mutant: the mappings of the call before are still there.                *)
TranslateOnTop(in, s) ==
  /\ phase \in {"idle", "returned", "raised"} /\ calls < MaxCalls
  /\ phase' = "applying"
  /\ input' = in /\ scoring' = s /\ calls' = calls + 1
  /\ todo' = in.active /\ iteration' = 1 /\ fresh' = 0 /\ converged' = 0
  /\ rulePriority' = [i \in Ids |-> 0]
  /\ confidence' = in.score
  /\ pairs' = {} /\ removed' = {} /\ log' = {} /\ proposed' = {}
  /\ UNCHANGED mappings

(* translate and translate_with_confidence start by clearing the engine.   *)
Translate(in, s) ==
  /\ phase \in {"idle", "returned", "raised"} /\ calls < MaxCalls
  /\ phase' = "applying"
  /\ input' = in /\ scoring' = s /\ calls' = calls + 1
  /\ todo' = in.active /\ iteration' = 1 /\ fresh' = 0 /\ converged' = 0
  /\ mappings' = {}
  /\ rulePriority' = [i \in Ids |-> 0]
  /\ confidence' = in.score
  /\ pairs' = {} /\ removed' = {} /\ log' = {} /\ proposed' = {}

(* sorted(self.rules, key=priority, reverse=True); rules of one priority   *)
(* come in the order of their registration, which is any.                  *)
NextRule(rule) == rule \in todo /\ \A r \in todo : Priority[r] <= Priority[rule]

(* A mapping whose id is known already is dropped.                         *)
Create(rule, ids) ==
  LET new == ids \ mappings IN
  /\ mappings' = mappings \cup new
  /\ rulePriority' = [i \in Ids |-> IF i \in new THEN Priority[rule] ELSE rulePriority[i]]
  /\ fresh' = fresh + Cardinality(new)

ApplyRule(rule) ==
  /\ phase = "applying" /\ NextRule(rule)
  /\ Create(rule, input.emits[rule])
  /\ todo' = todo \ {rule}
  /\ UNCHANGED <<phase, call, iteration, converged, confidence, resolution>>

(* An exception that the engine does not catch leaves it half filled.      *)
Raise(rule) ==
  /\ phase = "applying" /\ NextRule(rule)
  /\ \E ids \in SUBSET input.emits[rule] : Create(rule, ids)
  /\ phase' = "raised"
  /\ UNCHANGED <<call, todo, iteration, converged, confidence, resolution>>

NextPass ==
  /\ phase = "applying" /\ todo = {}
  /\ fresh # 0 /\ iteration < MaxIterations
  /\ todo' = input.active
  /\ iteration' = iteration + 1
  /\ fresh' = 0
  /\ UNCHANGED <<phase, call, converged, mappings, rulePriority, confidence, resolution>>

-----------------------------------------------------------------------------
(* Conflict resolution *)

NodesOf(i) == {input.fragment[i][k] : k \in DOMAIN input.fragment[i]}

(* Mutant: only the first node of a fragment is indexed.                   *)
CollideFirst(a, b) == a # b /\ input.fragment[a][1] = input.fragment[b][1]

(* Two places of the index of one node: those of two mappings, or of one   *)
(* mapping whose fragment repeats the node.                                *)
Collide(a, b) ==
  IF a = b
  THEN \E j, k \in DOMAIN input.fragment[a] :
         j < k /\ input.fragment[a][j] = input.fragment[a][k]
  ELSE NodesOf(a) \cap NodesOf(b) # {}

ConflictPairs(ids) == {p \in ids \X ids : p[1] <= p[2] /\ Collide(p[1], p[2])}

(* Mutant: the confidence decides alone.                                   *)
OutranksByScore(a, b) == confidence[a] >= confidence[b]

(* key_a >= key_b *)
Outranks(a, b) ==
  \/ rulePriority[a] > rulePriority[b]
  \/ rulePriority[a] = rulePriority[b] /\ confidence[a] >= confidence[b]

StartResolution(ids) ==
  /\ phase' = "resolving"
  /\ pairs' = ConflictPairs(ids) /\ removed' = {}

(* Mutant: the pass number is off by one.                                  *)
EndPassesLate ==
  /\ phase = "applying" /\ todo = {}
  /\ fresh = 0 \/ iteration = MaxIterations
  /\ converged' = IF fresh = 0 THEN iteration + 1 ELSE 0
  /\ StartResolution(mappings)
  /\ proposed' = mappings
  /\ UNCHANGED <<call, todo, iteration, fresh, mappings, rulePriority, confidence, log>>

EndPasses ==
  /\ phase = "applying" /\ todo = {}
  /\ fresh = 0 \/ iteration = MaxIterations
  /\ converged' = IF fresh = 0 THEN iteration ELSE 0
  /\ StartResolution(mappings)
  /\ proposed' = mappings
  /\ UNCHANGED <<call, todo, iteration, fresh, mappings, rulePriority, confidence, log>>

(* sorted(conflict_pairs) *)
FirstPair(p) ==
  /\ p \in pairs
  /\ \A q \in pairs : p[1] < q[1] \/ (p[1] = q[1] /\ p[2] <= q[2])

Loser(p) == IF Outranks(p[1], p[2]) THEN p[2] ELSE p[1]
Winner(p) == IF Outranks(p[1], p[2]) THEN p[1] ELSE p[2]

(* Mutant: a mapping that is removed already may lose again.               *)
VisitPairTwice(p) ==
  /\ phase = "resolving" /\ FirstPair(p)
  /\ pairs' = pairs \ {p}
  /\ removed' = removed \cup {Loser(p)}
  /\ log' = log \cup {[removed |-> Loser(p), kept |-> Winner(p)]}
  /\ UNCHANGED <<phase, call, pass, mappings, rulePriority, confidence, proposed>>

VisitPair(p) ==
  /\ phase = "resolving" /\ FirstPair(p)
  /\ pairs' = pairs \ {p}
  /\ IF p[1] \in removed \/ p[2] \in removed
     THEN UNCHANGED <<removed, log>>
     ELSE /\ removed' = removed \cup {Loser(p)}
          /\ log' = log \cup {[removed |-> Loser(p), kept |-> Winner(p)]}
  /\ UNCHANGED <<phase, call, pass, mappings, rulePriority, confidence, proposed>>

(* The removed mappings go; translate_with_confidence then rescores those  *)
(* that are left and resolves again.                                       *)
EndResolution ==
  /\ phase = "resolving" /\ pairs = {}
  /\ mappings' = mappings \ removed
  /\ IF scoring = "due"
     THEN /\ scoring' = "done"
          /\ confidence' = [i \in Ids |-> IF i \in mappings' THEN input.rescored[i]
                                          ELSE confidence[i]]
          /\ StartResolution(mappings')
     ELSE /\ phase' = "returned"
          /\ UNCHANGED <<scoring, confidence, pairs, removed>>
  /\ UNCHANGED <<input, calls, pass, rulePriority, log, proposed>>

Next ==
  \/ \E in \in IF calls = 0 THEN Inputs ELSE LaterInputs :
       \E s \in {"none", "due"} : Translate(in, s)
  \/ \E rule \in Rules : ApplyRule(rule) \/ Raise(rule)
  \/ NextPass \/ EndPasses \/ EndResolution
  \/ \E p \in Ids \X Ids : VisitPair(p)

Spec == Init /\ [][Next]_vars

-----------------------------------------------------------------------------
(* Properties *)

(* Every variable has its type. *)
TypeOK ==
  /\ phase \in {"idle", "applying", "resolving", "returned", "raised"}
  /\ input \in Inputs
  /\ scoring \in {"none", "due", "done"}
  /\ todo \subseteq Rules /\ iteration \in 0..MaxIterations
  /\ fresh \in Nat /\ converged \in 0..iteration
  /\ mappings \subseteq Ids /\ proposed \subseteq Ids /\ removed \subseteq Ids
  /\ rulePriority \in [Ids -> Int] /\ confidence \in [Ids -> Nat]
  /\ pairs \subseteq Ids \X Ids
  /\ log \subseteq [removed : Ids, kept : Ids]
  /\ calls \in 0..MaxCalls

Sources(i) == {r \in input.active : i \in input.emits[r]}

(* A call returns a result of its own graph, whatever the engine did or    *)
(* left behind before: every mapping an active rule emits was considered,  *)
(* with the highest priority of the rules that emit it.                    *)
ConsidersThisGraph ==
  phase \in {"resolving", "returned"} =>
    /\ mappings \subseteq proposed
    /\ proposed = {i \in Ids : Sources(i) # {}}
    /\ \A i \in proposed :
         /\ \E r \in Sources(i) : rulePriority[i] = Priority[r]
         /\ \A r \in Sources(i) : rulePriority[i] >= Priority[r]

(* No node of the graph is left with two roles: the fragments of the       *)
(* mappings a call returns are disjoint (tests/property/                   *)
(* test_translation_invariants.py:8).                                      *)
NoOverlap ==
  phase = "returned" =>
    \A a, b \in mappings : a # b => NodesOf(a) \cap NodesOf(b) = {}

Rivals(i) == {j \in proposed \ {i} : NodesOf(i) \cap NodesOf(j) # {}}

Key(i, s) == <<rulePriority[i], s[i]>>
Above(k, l) == k[1] > l[1] \/ (k[1] = l[1] /\ k[2] > l[2])

(* A mapping that beats each of its rivals, by the scores the rules gave.  *)
(* A fragment that repeats a node makes a mapping its own rival, and the   *)
(* engine then removes it, whoever else is there.                          *)
Dominant(i) ==
  /\ ~Collide(i, i)
  /\ \A j \in Rivals(i) : Above(Key(i, input.score), Key(j, input.score))

(* A mapping that beats each of its rivals is kept, in whatever order the  *)
(* pairs of other mappings are visited.                                    *)
DominantKept ==
  phase = "returned" => \A i \in proposed : Dominant(i) => i \in mappings

(* Each mapping that is gone has exactly one event in the log, that names  *)
(* a mapping with a node in common that ranked no lower; and the events    *)
(* never go in a circle, so the chain from a removed mapping over those    *)
(* that removed it ends at one that was kept (unless a fragment repeats a  *)
(* node).                                                                  *)
RemovalsExplained ==
  phase = "returned" =>
    /\ proposed \ mappings = {e.removed : e \in log}
    /\ \A e, f \in log : e.removed = f.removed => e = f
    /\ \A e \in log :
         /\ Collide(e.removed, e.kept)
         /\ ~Above(Key(e.removed, input.score), Key(e.kept, input.score))
         /\ \/ e.kept = e.removed
            \/ Above(Key(e.kept, input.score), Key(e.removed, input.score))
            \/ e.kept < e.removed
=============================================================================
