----------------------------- MODULE CuratedModel -----------------------------
(***************************************************************************)
(* The review of mappings and the compilation of state spaces from them.   *)
(* run_translate fills a ReviewManager of its own and drops it when it     *)
(* returns (api/orchestration.py:1259); a reviewer adds the mappings of    *)
(* the bundle to one that is kept.  It holds the same objects as the       *)
(* bundle, so that what the review changes in them reaches the next        *)
(* run_statespace; split and merged mappings are only among those that     *)
(* the manager exports                                                     *)
(* (docs/architecture/step_7_export_final_mappings.md).                    *)
(***************************************************************************)
EXTENDS MappingReview, StateSpace

CONSTANTS NoModel

VARIABLES
  extracted,  \* StateVariableExtractor.state_variables of the compiler at hand
  model       \* the last model: its data, how it was compiled and of what

vars == <<mappings, order, history, extracted, model>>

NoVariables == [n \in {} |-> {}]

Init ==
  /\ ReviewInit
  /\ extracted = NoVariables
  /\ model = NoModel

Records(ids) == [i \in DOMAIN ids |->
  [id |-> ids[i], kind |-> mappings[ids[i]].kind, nodes |-> mappings[ids[i]].nodes,
   score |-> mappings[ids[i]].score]]

InBundle == Filtered(order, {Id(b) : b \in Base})

(* basis: the mappings that its variables and observations come from.      *)
Compiled(data, how, maps, basis, curated) ==
  [data |-> data, how |-> how, maps |-> maps, basis |-> basis, curated |-> curated]

(* run_statespace: a compiler of its own.                                  *)
RunStatespace(curated) ==
  LET maps == Records(IF curated THEN Exported ELSE InBundle)
      data == Compile(NoVariables, maps)
  IN  /\ extracted' = data.variables
      /\ model' = Compiled(data, "fresh", maps, maps, curated)
      /\ UNCHANGED reviewVars

(* compile is called again on the compiler at hand.                        *)
CompileAgain(curated) ==
  LET maps == Records(IF curated THEN Exported ELSE InBundle)
      data == Compile(extracted, maps)
  IN  /\ model # NoModel
      /\ extracted' = data.variables
      /\ model' = Compiled(data, "again", maps, maps, curated)
      /\ UNCHANGED reviewVars

(* compile_incremental with the last model as prev_result.  It extracts    *)
(* no variables.                                                           *)
CompileNext(curated) ==
  LET maps == Records(IF curated THEN Exported ELSE InBundle)
  IN  /\ model # NoModel /\ model.how # "again"
      /\ model' = Compiled(CompileIncremental(model.data, maps), "incremental",
                           maps, model.basis, curated)
      /\ UNCHANGED <<mappings, order, history, extracted>>

Next ==
  \/ Review /\ UNCHANGED <<extracted, model>>
  \/ \E b \in Base : model = NoModel /\ AddMapping(b) /\ UNCHANGED <<extracted, model>>
  \/ \E curated \in BOOLEAN :
       RunStatespace(curated) \/ CompileAgain(curated) \/ CompileNext(curated)

Spec == Init /\ [][Next]_vars

-----------------------------------------------------------------------------
(* Properties *)

Reused(maps) == Filtered(maps, {m \in ToSet(maps) : m.kind \in Hidden \cup Observing})

(* Reuse is exact as long as the mappings that it ignores have not         *)
(* changed: after any number of incremental compilations, and whatever     *)
(* was decided about actions, constraints and preferences meanwhile, the   *)
(* model is the one that a full compilation makes.                         *)
QuietReuseExact ==
  (model # NoModel /\ model.how = "incremental" /\ Reused(model.basis) = Reused(model.maps))
    => model.data = Compile(NoVariables, model.maps)

(* run_statespace does not look at the status of a mapping.  Nevertheless  *)
(* what every reviewer has rejected is not believed: as long as the model  *)
(* is that of the mappings as they stand, a node whose hidden-state        *)
(* mappings were all rejected has an uncertain variable, and a rejected    *)
(* preference weighs nothing.                                              *)
RejectedIsUncertain ==
  (model # NoModel /\ model.how = "fresh" /\ ~model.curated
     /\ model.maps = Records(InBundle)) =>
  /\ \A n \in DOMAIN model.data.variables :
       (\A id \in ToSet(InBundle) :
          mappings[id].kind \in Hidden /\ n \in mappings[id].nodes
            => mappings[id].status = "rejected")
       => model.data.variables[n].level = "uncertain"
  /\ \A id \in DOMAIN model.data.preferences :
       mappings[id].status = "rejected" => model.data.preferences[id].weight = 0
=============================================================================
