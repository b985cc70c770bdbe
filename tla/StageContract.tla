---------------------------- MODULE StageContract ----------------------------
(***************************************************************************)
(* What the pipeline DAG promises of a run, whatever order it chooses: a   *)
(* stage is settled once, after everything it depends on; it runs exactly  *)
(* if all of that succeeded, and is skipped otherwise; and a run returns   *)
(* only when every stage is settled.                                       *)
(***************************************************************************)
CONSTANTS Names, None

VARIABLES
  deps,      \* names each registered stage depends on, None if unregistered
  running,   \* TRUE while a run settles stages
  result     \* outcome of each stage in the current or last run

contractVars == <<deps, running, result>>

Stages == {n \in Names : deps[n] # None}
Unsettled == [n \in Names |-> "none"]

Init ==
  /\ deps = [n \in Names |-> None]
  /\ running = FALSE
  /\ result = Unsettled

Register(n) ==
  /\ ~running /\ deps[n] = None
  /\ deps'[n] # None /\ deps' = [deps EXCEPT ![n] = deps'[n]]
  /\ UNCHANGED <<running, result>>

Begin ==
  /\ ~running
  /\ \A n \in Stages : deps[n] \subseteq Stages
  /\ running' = TRUE /\ result' = Unsettled
  /\ UNCHANGED deps

Settle(n, outcomes) ==
  /\ result[n] = "none"
  /\ \A d \in deps[n] : result[d] # "none"
  /\ \E o \in outcomes : result' = [result EXCEPT ![n] = o]
  /\ UNCHANGED <<deps, running>>

Execute(n) ==
  /\ running /\ n \in Stages
  /\ \A d \in deps[n] : result[d] = "SUCCESS"
  /\ Settle(n, {"SUCCESS", "FAILED"})

Skip(n) ==
  /\ running /\ n \in Stages
  /\ \E d \in deps[n] : result[d] \in {"FAILED", "SKIPPED"}
  /\ Settle(n, {"SKIPPED"})

Return ==
  /\ running /\ \A n \in Stages : result[n] # "none"
  /\ running' = FALSE
  /\ UNCHANGED <<deps, result>>

(* An interrupt leaves the run without a result. *)
Abandon ==
  /\ running
  /\ running' = FALSE /\ result' = Unsettled
  /\ UNCHANGED deps

Next ==
  \/ Begin \/ Return \/ Abandon
  \/ \E n \in Names : Register(n) \/ Execute(n) \/ Skip(n)

Spec == Init /\ [][Next]_contractVars
=============================================================================
