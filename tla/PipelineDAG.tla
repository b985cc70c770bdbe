----------------------------- MODULE PipelineDAG -----------------------------
(***************************************************************************)
(* The DAG pipeline (cogant/pipeline/dag.py): stages are registered with   *)
(* the names they depend on; a run validates these, sorts the stages with  *)
(* Kahn's algorithm, reports a cycle if there is one, and otherwise calls  *)
(* one stage after the other, skipping what depends on a failure.          *)
(*                                                                         *)
(* Stage names are numbers, ordered as the strings are.  run sorts twice,  *)
(* once for its exception and once for the order: one sort stands for both. *)
(***************************************************************************)
EXTENDS Integers, FiniteSets, SequencesExt

CONSTANTS
  Names,       \* names stages may have
  DepLists,    \* lists of names given as deps, which may repeat a name
  MaxRuns,     \* bound on the number of runs
  None

ASSUME DagAssumption ==
  /\ Names \subseteq Nat /\ IsFiniteSet(Names)
  /\ DepLists \subseteq Seq(Nat)
  /\ None \notin DepLists /\ \A d \in DepLists : ToSet(d) # None
  /\ MaxRuns \in Nat

VARIABLES
  stages,      \* _stages: the deps of each registered name, or None
  phase,       \* "idle", "sorting", "tracing", "executing"
  inDegree,    \* in_degree
  queue,       \* queue of _topological_sort
  order,       \* order of _topological_sort
  path,        \* path of _find_cycle
  raised,      \* exception of the last run: "none", "unknown", "cycle"
  position,    \* stages of order that have been settled
  results,     \* status of each stage in the current or last run
  failedAncestors,
  runs         \* runs so far

sort == <<inDegree, queue, order>>
execution == <<position, results, failedAncestors>>
vars == <<stages, phase, sort, path, raised, execution, runs>>

Known == {n \in Names : stages[n] # None}
DepSet(n) == ToSet(stages[n])
Unsettled == [n \in Names |-> "none"]

Init ==
  /\ stages = [n \in Names |-> None]
  /\ phase = "idle"
  /\ inDegree = [n \in Names |-> 0]
  /\ queue = <<>> /\ order = <<>> /\ path = <<>>
  /\ raised = "none"
  /\ position = 0 /\ results = Unsettled /\ failedAncestors = {}
  /\ runs = 0

(* A duplicate name raises and changes nothing.                            *)
AddStage(n, deps) ==
  /\ phase = "idle" /\ stages[n] = None
  /\ stages' = [stages EXCEPT ![n] = deps]
  /\ UNCHANGED <<phase, sort, path, raised, execution, runs>>

-----------------------------------------------------------------------------
(* Sorting *)

(* sorted: the elements of a set in ascending order.                       *)
Sorted(S) == CHOOSE s \in [1..Cardinality(S) -> S] :
               \A i, j \in 1..Cardinality(S) : i < j => s[i] < s[j]
Occurrences(n, d) == Cardinality({k \in DOMAIN stages[n] : stages[n][k] = d})

BeginRun ==
  /\ phase = "idle" /\ runs < MaxRuns /\ Known # {}
  /\ runs' = runs + 1
  /\ order' = <<>> /\ path' = <<>>
  /\ position' = 0 /\ failedAncestors' = {}
  /\ UNCHANGED <<stages, results>>

RejectUnknown ==
  /\ BeginRun
  /\ \E n \in Known : ~(DepSet(n) \subseteq Known)
  /\ raised' = "unknown"
  /\ UNCHANGED <<phase, inDegree, queue>>

(* Mutant: a repeated dependency is counted once.                          *)
StartSortDistinct ==
  /\ BeginRun
  /\ \A n \in Known : DepSet(n) \subseteq Known
  /\ inDegree' = [n \in Names |-> IF n \in Known THEN Cardinality(DepSet(n)) ELSE 0]
  /\ queue' = Sorted({n \in Known : Len(stages[n]) = 0})
  /\ raised' = "none" /\ phase' = "sorting"

StartSort ==
  /\ BeginRun
  /\ \A n \in Known : DepSet(n) \subseteq Known
  /\ inDegree' = [n \in Names |-> IF n \in Known THEN Len(stages[n]) ELSE 0]
  /\ queue' = Sorted({n \in Known : Len(stages[n]) = 0})
  /\ raised' = "none" /\ phase' = "sorting"

(* Mutant: a repeated dependency is released once.                         *)
PopNodeOnce ==
  LET node == Head(queue)
      children == {c \in Known : node \in DepSet(c)}
      lowered == [c \in Names |-> IF c \in children THEN inDegree[c] - 1 ELSE inDegree[c]]
  IN
  /\ phase = "sorting" /\ queue # <<>>
  /\ order' = Append(order, node)
  /\ inDegree' = lowered
  /\ queue' = Tail(queue) \o Sorted({c \in children : lowered[c] = 0})
  /\ UNCHANGED <<stages, phase, path, raised, execution, runs>>

(* Mutant: a child is ready one dependency too early.                      *)
PopNodeEarly ==
  LET node == Head(queue)
      children == {c \in Known : node \in DepSet(c)}
      lowered == [c \in Names |->
                    IF c \in children THEN inDegree[c] - Occurrences(c, node)
                    ELSE inDegree[c]]
  IN
  /\ phase = "sorting" /\ queue # <<>>
  /\ order' = Append(order, node)
  /\ inDegree' = lowered
  /\ queue' = Tail(queue) \o Sorted({c \in children : lowered[c] = 1})
  /\ UNCHANGED <<stages, phase, path, raised, execution, runs>>

(* One round of the while loop: each occurrence of the node among the deps *)
(* of a child lowers the child's degree by one.                            *)
PopNode ==
  LET node == Head(queue)
      children == {c \in Known : node \in DepSet(c)}
      lowered == [c \in Names |->
                    IF c \in children THEN inDegree[c] - Occurrences(c, node)
                    ELSE inDegree[c]]
  IN
  /\ phase = "sorting" /\ queue # <<>>
  /\ order' = Append(order, node)
  /\ inDegree' = lowered
  /\ queue' = Tail(queue) \o Sorted({c \in children : lowered[c] = 0})
  /\ UNCHANGED <<stages, phase, path, raised, execution, runs>>

Remaining == Known \ ToSet(order)

StartExecution ==
  /\ phase = "sorting" /\ queue = <<>> /\ Remaining = {}
  /\ phase' = "executing"
  /\ results' = Unsettled
  /\ UNCHANGED <<stages, sort, path, raised, position, failedAncestors, runs>>

StartTrace ==
  /\ phase = "sorting" /\ queue = <<>> /\ Remaining # {}
  /\ phase' = "tracing"
  /\ path' = <<Sorted(Remaining)[1]>>
  /\ UNCHANGED <<stages, sort, raised, execution, runs>>

(* _dfs goes to the first dep that remains.  It would back up from a stage *)
(* without one: RemainingBlocked says there is none.                       *)
FirstRemaining(n) == stages[n][SelectInSeq(stages[n], LAMBDA d : d \in Remaining)]

(* Mutant: the way to the cycle is reported with it.                       *)
TraceWholePath ==
  LET next == FirstRemaining(path[Len(path)]) IN
  /\ phase = "tracing"
  /\ path' = Append(path, next)
  /\ IF next \in ToSet(path) THEN raised' = "cycle" /\ phase' = "idle"
     ELSE UNCHANGED <<raised, phase>>
  /\ UNCHANGED <<stages, sort, execution, runs>>

TraceCycle ==
  LET next == FirstRemaining(path[Len(path)]) IN
  /\ phase = "tracing"
  /\ IF next \in ToSet(path)
     THEN /\ path' = Append(SubSeq(path, SelectInSeq(path, LAMBDA n : n = next), Len(path)), next)
          /\ raised' = "cycle" /\ phase' = "idle"
     ELSE /\ path' = Append(path, next)
          /\ UNCHANGED <<raised, phase>>
  /\ UNCHANGED <<stages, sort, execution, runs>>

-----------------------------------------------------------------------------
(* Execution *)

Current == order[position + 1]
Blocked(n) == DepSet(n) \cap failedAncestors # {}

Executing == phase = "executing" /\ position < Len(order)

(* Mutant: what depends on a skipped stage runs.                           *)
FinishFailedOnly(status) ==
  /\ results' = [results EXCEPT ![Current] = status]
  /\ failedAncestors' =
       IF status # "FAILED" THEN failedAncestors ELSE failedAncestors \cup {Current}
  /\ position' = position + 1
  /\ UNCHANGED <<stages, phase, sort, path, raised, runs>>

Finish(status) ==
  /\ results' = [results EXCEPT ![Current] = status]
  /\ failedAncestors' =
       IF status = "SUCCESS" THEN failedAncestors ELSE failedAncestors \cup {Current}
  /\ position' = position + 1
  /\ UNCHANGED <<stages, phase, sort, path, raised, runs>>

SkipStage == Executing /\ Blocked(Current) /\ Finish("SKIPPED")
Succeed == Executing /\ ~Blocked(Current) /\ Finish("SUCCESS")
Fail == Executing /\ ~Blocked(Current) /\ Finish("FAILED")

ReturnResult ==
  /\ phase = "executing" /\ position = Len(order)
  /\ phase' = "idle"
  /\ UNCHANGED <<stages, sort, path, raised, execution, runs>>

(* A KeyboardInterrupt is no Exception: it ends the run without a result.  *)
Interrupt ==
  /\ Executing /\ ~Blocked(Current)
  /\ phase' = "idle" /\ results' = Unsettled
  /\ UNCHANGED <<stages, sort, path, raised, position, failedAncestors, runs>>

Next ==
  \/ \E n \in Names, deps \in DepLists : AddStage(n, deps)
  \/ RejectUnknown \/ StartSort \/ PopNode \/ StartExecution
  \/ StartTrace \/ TraceCycle
  \/ SkipStage \/ Succeed \/ Fail \/ ReturnResult \/ Interrupt

Spec == Init /\ [][Next]_vars

-----------------------------------------------------------------------------
(* Properties *)

(* Every variable has its type. *)
TypeOK ==
  /\ stages \in [Names -> DepLists \cup {None}]
  /\ phase \in {"idle", "sorting", "tracing", "executing"}
  /\ inDegree \in [Names -> Nat]
  /\ queue \in Seq(Names) /\ order \in Seq(Names) /\ path \in Seq(Names)
  /\ raised \in {"none", "unknown", "cycle"}
  /\ position \in 0..Len(order)
  /\ results \in [Names -> {"none", "SUCCESS", "FAILED", "SKIPPED"}]
  /\ failedAncestors \subseteq Names
  /\ runs \in 0..MaxRuns

(* The sort lists a stage once, after its dependencies, and the ready list *)
(* holds exactly the unlisted stages whose dependencies are all listed,    *)
(* also when deps repeats a name.                                          *)
SortSound ==
  phase = "sorting" =>
    /\ IsInjective(order)
    /\ \A i \in DOMAIN order : DepSet(order[i]) \subseteq ToSet(SubSeq(order, 1, i - 1))
    /\ IsInjective(queue)
    /\ ToSet(queue) = {n \in Remaining : DepSet(n) \subseteq ToSet(order)}

(* When the sort stops early, each stage that is left waits for another    *)
(* one that is left: there is a cycle, and the search for it never backs   *)
(* up.                                                                     *)
RemainingBlocked ==
  phase = "tracing" =>
    Remaining # {} /\ \A n \in Remaining : DepSet(n) \cap Remaining # {}

(* The exception names a cycle of the registered dependencies.             *)
ReportsCycle ==
  raised = "cycle" =>
    /\ Len(path) > 1 /\ path[1] = path[Len(path)]
    /\ \A i \in 1..(Len(path) - 1) : path[i + 1] \in DepSet(path[i])

Contract == INSTANCE StageContract WITH
  deps <- [n \in Names |-> IF stages[n] = None THEN None ELSE DepSet(n)],
  running <- phase = "executing",
  result <- results

(* A run keeps the promise of StageContract: no stage starts before its    *)
(* dependencies are settled, none runs after a failure it depends on, none *)
(* is skipped or left out without cause.                                   *)
ImplementsContract == Contract!Spec
=============================================================================
