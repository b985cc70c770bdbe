--------------------------- MODULE AnalysisSession ---------------------------
(***************************************************************************)
(* The stage functions (cogant/api/orchestration.py) and the two clients   *)
(* that call them on a bundle of artifacts: Session (api/session.py), whose *)
(* methods come in any order and run the stages that are missing, and      *)
(* PipelineRunner (api/pipeline.py), which runs the configured stages in   *)
(* order and goes on after a failure.  Both export to one directory, and   *)
(* may move what they exported into a layout of subdirectories.            *)
(*                                                                         *)
(* An artifact is what it was derived from: the version of the tree that   *)
(* was listed, the version that was read, whether coverage or traces were  *)
(* stitched on, and the artifacts a stage took it from.                    *)
(***************************************************************************)
EXTENDS Naturals, SequencesExt, GnnPackage

CONSTANTS
  SkipSets,    \* values of config.skip_stages
  Layouts,     \* values of config.layout_output and of export_all's layout
  MaxVersion,  \* bound on the edits of the tree
  MaxCalls,    \* bound on the method calls and runs, see Weight
  MaxRuns,     \* bound on the pipeline runs among them
  Raising,     \* bound on the stages that raise although nothing is missing
  Garbled,     \* bound on the models that JSON cannot hold, and what is left
  Stops        \* bound on the moves after which the layout pass may fail

Versions == 0..MaxVersion
Graphs == [files : Versions, read : Versions, enriched : BOOLEAN]
Opt(S) == S \cup {Nothing}
StateSpaces == [graph : Graphs, mappings : Opt(Graphs)]
SyntaxTrees == {File(v, form) : v \in Opt(Versions), form \in {"whole", "record"}}

VARIABLES
  tree,        \* version of the source tree
  bundle,      \* artifacts of the session or run at hand
  call,        \* the method or run under way: client, name, stages to do
  outcomes,    \* bundle.stage_outcomes
  disk,        \* the files at the root of the output directory
  placed,      \* those that were moved into the layout
  package,     \* its gnn_package
  calls, runs  \* method calls and runs so far, calls in weights

output == <<disk, placed, package>>
sessionVars == <<tree, bundle, call, outcomes, disk, placed, package, calls, runs>>

(* Mutant: the graph is enriched after it has been translated.             *)
AllStagesLate == <<"ingest", "static", "normalize", "graph", "translate",
                   "dynamic", "statespace", "process", "export", "validate">>
AllStages == <<"ingest", "static", "normalize", "graph", "dynamic",
               "translate", "statespace", "process", "export", "validate">>

Stages == ToSet(AllStages)

(* A run ends with the layout, export_all with the syntax tree before it.  *)
RunPlan == Append(AllStages, "layout")
Steps == Stages \cup {"syntax", "layout"}

ASSUME SessionAssumption ==
  /\ MaxVersion \in Nat /\ MaxCalls \in Nat /\ MaxRuns \in Nat
  /\ \A skip \in SkipSets : skip \subseteq Stages
  /\ Layouts \subseteq BOOLEAN
  /\ Garbled \subseteq {"statespace", "process"} \X {"record", "broken"}
  /\ Nothing \notin Versions \cup Graphs \cup StateSpaces
                     \cup [of : Opt(Versions \cup Graphs \cup StateSpaces), form : Forms]

(* In the order in which they are written, and in which they are moved.    *)
Files == <<"graph", "statespace", "process", "gnn", "trace">>
Moved == <<"gnn", "process", "graph", "trace", "statespace", "syntax">>
Methods == {"extract_static", "extract_dynamic", "build_graph",
            "translate_to_gnn", "compile_state_space", "export_all"}

(* syntax: Session.syntax_tree.  translated and trace hold dicts with      *)
(* fixed keys: where the code asks for truth, presence is what counts.     *)
Artifacts == {"snapshot", "detail", "facts", "graph", "mappings", "trace",
              "statespace", "process", "translated", "syntax"}
(* packaged: _gnn_package_dir is set; warned: export_warnings is not       *)
(* empty; certified: the result of validation says gnn_validation.valid.   *)
Flags == {"packaged", "warned", "certified"}
FreshBundle == [k \in Artifacts \cup Flags |-> IF k \in Flags THEN FALSE ELSE Nothing]

SessionInit ==
  /\ tree = 0
  /\ bundle = FreshBundle
  /\ call = [by |-> "session", name |-> "none", todo |-> <<>>, skip |-> {},
             data |-> FALSE, layout |-> FALSE]
  /\ outcomes = [s \in Stages |-> "none"]
  /\ disk = [f \in ToSet(Moved) |-> Nothing]
  /\ placed = disk
  /\ package = NoPackage
  /\ calls = 0 /\ runs = 0

Idle == call.todo = <<>>
Has(k) == bundle[k] # Nothing

-----------------------------------------------------------------------------
(* The stages a method runs: its guards look at the artifacts that are     *)
(* there when it is called.                                                *)

Missing(k, plan) == IF Has(k) THEN <<>> ELSE plan
GraphPlan ==
  Missing("snapshot", <<"ingest">>) \o Missing("detail", <<"static">>)
    \o <<"normalize", "graph">>
DynamicPlan ==
  Missing("snapshot", <<"ingest">>)
    \o Missing("graph", Missing("detail", <<"static">>)
                          \o Missing("facts", <<"normalize">>) \o <<"graph">>)
    \o <<"dynamic">>
TranslatePlan == Missing("graph", GraphPlan) \o <<"translate">>
(* Mutant: the state space is compiled whether mappings are there or not.  *)
CompilePlanBare == <<"statespace", "process">>
CompilePlan == Missing("mappings", TranslatePlan) \o <<"statespace", "process">>

ExportPlan ==
  Missing("graph", GraphPlan) \o Missing("mappings", <<"translate">>)
    \o Missing("statespace", <<"statespace", "process">>)
    \o <<"export", "syntax", "layout">>

Plan(m) == CASE m = "extract_static"      -> <<"ingest", "static">>
             [] m = "extract_dynamic"     -> DynamicPlan
             [] m = "build_graph"         -> GraphPlan
             [] m = "translate_to_gnn"    -> TranslatePlan
             [] m = "compile_state_space" -> CompilePlan
             [] m = "export_all"          -> ExportPlan

(* MaxCalls counts the calls that export twice.                            *)
Weight(m) == IF m \in {"export_all", "run"} THEN 2 ELSE 1

(* A new Session, with a bundle of its own.                                *)
NewSession ==
  /\ Idle /\ bundle # FreshBundle
  /\ bundle' = FreshBundle
  /\ call' = [call EXCEPT !.by = "session", !.name = "none", !.skip = {},
                          !.data = FALSE, !.layout = FALSE]
  /\ outcomes' = [s \in Stages |-> "none"]
  /\ UNCHANGED <<tree, output, calls, runs>>

(* data: a coverage or trace file is given.                                *)
CallMethod(m, data, layout) ==
  /\ Idle /\ call.by = "session" /\ calls + Weight(m) <= MaxCalls
  /\ data => m = "extract_dynamic"
  /\ layout => m = "export_all"
  /\ call' = [call EXCEPT !.name = m, !.todo = Plan(m), !.data = data, !.layout = layout]
  /\ calls' = calls + Weight(m)
  /\ UNCHANGED <<tree, bundle, outcomes, output, runs>>

StartRun(skip, data, layout) ==
  /\ Idle /\ runs < MaxRuns /\ calls + Weight("run") <= MaxCalls
  /\ bundle' = FreshBundle
  /\ call' = [by |-> "runner", name |-> "run", todo |-> RunPlan, skip |-> skip,
              data |-> data, layout |-> layout]
  /\ outcomes' = [s \in Stages |-> "none"]
  /\ runs' = runs + 1 /\ calls' = calls + Weight("run")
  /\ UNCHANGED <<tree, output>>

-----------------------------------------------------------------------------
(* How a stage ends.  An exception ends a method, but not a run.           *)

Skipped == ~Idle /\ Head(call.todo) \in call.skip
Running(s) == ~Idle /\ ~Skipped /\ Head(call.todo) = s

Settle(outcome) ==
  outcomes' = IF call.by = "runner"
              THEN [outcomes EXCEPT ![Head(call.todo)] = outcome] ELSE outcomes

Returns ==
  /\ call' = [call EXCEPT !.todo = Tail(@)]
  /\ Settle("success")
  /\ UNCHANGED <<tree, calls, runs>>

(* Mutant: a stage that raises is not marked as failed.                    *)
RaisesQuietly ==
  /\ call' = [call EXCEPT !.todo = IF call.by = "runner" THEN Tail(@) ELSE <<>>]
  /\ Settle("success")
  /\ UNCHANGED <<tree, calls, runs>>
Raises ==
  /\ call' = [call EXCEPT !.todo = IF call.by = "runner" THEN Tail(@) ELSE <<>>]
  /\ Settle("failed")
  /\ UNCHANGED <<tree, calls, runs>>

(* A stage raises before it has stored anything, if only because what it   *)
(* needs is not there.                                                     *)
Starved ==
  \/ Head(call.todo) \in {"static", "normalize", "graph"} /\ ~Has("snapshot")
  \/ Head(call.todo) \in {"translate", "statespace", "process"} /\ ~Has("graph")

RaiseEarly ==
  /\ ~Idle /\ ~Skipped /\ Head(call.todo) \in Stages /\ Raises
  /\ Starved \/ Head(call.todo) \in Raising
  /\ Head(call.todo) = "dynamic" => Has("graph")
  /\ UNCHANGED <<bundle, output>>

(* The loop of a run passes over the stages of its skip set.               *)
SkipStage ==
  /\ Skipped
  /\ call' = [call EXCEPT !.todo = Tail(@)]
  /\ Settle("skipped")
  /\ UNCHANGED <<tree, bundle, output, calls, runs>>

RunIngest ==
  /\ Running("ingest") /\ Returns
  /\ bundle' = [bundle EXCEPT !.snapshot = tree]
  /\ UNCHANGED output

RunStatic ==
  /\ Running("static") /\ Has("snapshot") /\ Returns
  /\ bundle' = [bundle EXCEPT
       !.detail = tree,
       !.syntax = IF call.name = "extract_static" THEN Whole(tree) ELSE @]
  /\ UNCHANGED output

RunNormalize ==
  /\ Running("normalize") /\ Has("snapshot") /\ Returns
  /\ bundle' = [bundle EXCEPT !.facts = tree]
  /\ UNCHANGED output

(* The graph takes the list of files from the snapshot and their content   *)
(* from the disk.  What follows its storing may still raise.               *)
(* build_graph gives a session that has no syntax tree an empty one.       *)
Built(syntax) == [bundle EXCEPT
  !.facts = IF Has("facts") THEN @ ELSE tree,
  !.graph = [files |-> bundle.snapshot, read |-> tree, enriched |-> FALSE],
  !.syntax = syntax]
Untold == call.by = "session" /\ call.name # "extract_dynamic" /\ ~Has("syntax")

RunGraph ==
  /\ Running("graph") /\ Has("snapshot")
  /\ \/ Returns /\ bundle' = Built(IF Untold THEN File(Nothing, "record") ELSE bundle.syntax)
     \/ Raises /\ bundle' = Built(bundle.syntax)
  /\ UNCHANGED output

(* enrich_graph changes the graph in place, and may raise half way.        *)
RunDynamic ==
  /\ Running("dynamic")
  /\ \/ Returns /\ bundle' = IF Has("graph") /\ call.data
          THEN [bundle EXCEPT !.graph.enriched = TRUE] ELSE bundle
     \/ /\ Raises /\ Has("graph") /\ call.data
        /\ bundle' = [bundle EXCEPT !.graph.enriched = TRUE]
  /\ UNCHANGED output

(* The mappings are stored before the review and the evidence trace.       *)
(* The stage result, which a run keeps, is made of them.                   *)
RunTranslate ==
  /\ Running("translate") /\ Has("graph")
  /\ \/ Returns /\ bundle' = [bundle EXCEPT
          !.mappings = bundle.graph, !.trace = bundle.graph,
          !.translated = IF call.by = "runner" THEN bundle.graph ELSE @]
     \/ Raises /\ bundle' = [bundle EXCEPT !.mappings = bundle.graph]
  /\ UNCHANGED output

(* Mutant: a missing graph is not noticed.                                 *)
CompileStatespaceAnyway ==
  /\ Running("statespace") /\ Returns
  /\ bundle' = [bundle EXCEPT
       !.statespace = [graph |-> bundle.graph, mappings |-> bundle.mappings]]
  /\ UNCHANGED output

(* Without mappings the compiler gets an empty dict.                       *)
CompileStatespace ==
  /\ Running("statespace") /\ Has("graph") /\ Returns
  /\ bundle' = [bundle EXCEPT
       !.statespace = [graph |-> bundle.graph, mappings |-> bundle.mappings]]
  /\ UNCHANGED output

RunProcess ==
  /\ Running("process") /\ Has("graph") /\ Returns
  /\ bundle' = [bundle EXCEPT !.process = bundle.graph]
  /\ UNCHANGED output

-----------------------------------------------------------------------------
(* Export: five files, each if its artifact is there, then the package,    *)
(* if a graph, a state space and a process model are.  A package that      *)
(* cannot be built, or a rendering that fails, is a warning.               *)

Artifact(f) == IF f = "gnn" THEN bundle.translated ELSE bundle[f]
Package == [k \in {"graph", "statespace", "process", "mappings"} |-> bundle[k]]
Packable == Has("graph") /\ Has("statespace") /\ Has("process")

(* Of a model that JSON cannot hold a record is written, in place of it or *)
(* behind what was written of it.                                          *)
FormsOf(f) == {"whole"} \cup {form \in Forms : <<f, form>> \in Garbled}

(* disk after the first k files have been written.                         *)
Written(k, form) == [f \in DOMAIN disk |->
  IF (\E i \in 1..k : Files[i] = f) /\ Artifact(f) # Nothing
  THEN File(Artifact(f), form[f]) ELSE disk[f]]
FormsWritten == {form \in [ToSet(Files) -> Forms] : \A f \in ToSet(Files) : form[f] \in FormsOf(f)}

RunExport ==
  /\ Running("export") /\ Returns
  /\ \E form \in FormsWritten : disk' = Written(Len(Files), form)
  /\ \E unrendered \in BOOLEAN :
     \/ /\ ~Packable /\ UNCHANGED package
        /\ bundle' = [bundle EXCEPT !.warned = @ \/ unrendered]
     \/ /\ Packable /\ package' \in Builds(package, Package)
        /\ bundle' = [bundle EXCEPT !.packaged = TRUE, !.warned = @ \/ unrendered]
     \/ /\ Packable /\ package' \in AbandonedBuilds(package, Package)
        /\ bundle' = [bundle EXCEPT !.warned = TRUE]
  /\ UNCHANGED placed

RaiseInExport(k) ==
  /\ Running("export") /\ Raises
  /\ \E form \in FormsWritten : disk' = [Written(k - 1, form) EXCEPT
       ![Files[k]] = IF Artifact(Files[k]) = Nothing THEN @ ELSE File(Artifact(Files[k]), "broken")]
  /\ UNCHANGED <<bundle, placed, package>>

(* passed is FALSE without a graph or with errors in it; the package that  *)
(* was registered is checked as well, and valid only if its sums agree.    *)
RunValidate(passed, valid) ==
  /\ Running("validate") /\ (passed => Has("graph"))
  /\ valid => Has("graph") /\ bundle.packaged /\ Certifies(package)
  /\ call' = [call EXCEPT !.todo = Tail(@)]
  /\ Settle(IF passed THEN "success" ELSE "failed")
  /\ bundle' = [bundle EXCEPT !.certified = valid]
  /\ UNCHANGED <<tree, output, calls, runs>>

(* export_all writes the syntax tree of the session last.                  *)
WriteSyntax ==
  /\ Running("syntax")
  /\ \/ /\ call' = [call EXCEPT !.todo = Tail(@)]
        /\ disk' = [disk EXCEPT !["syntax"] = IF Has("syntax") THEN bundle.syntax ELSE @]
     \/ /\ Has("syntax") /\ call' = [call EXCEPT !.todo = <<>>]
        /\ \E left \in {disk["syntax"], File(bundle.syntax.of, "broken")} :
             disk' = [disk EXCEPT !["syntax"] = left]
  /\ UNCHANGED <<tree, bundle, outcomes, placed, package, calls, runs>>

(* organize_run_dir, after the first k of its moves; cut: it fails in the  *)
(* next, when the copy that was in the way is gone.                        *)
Moves(f, k) == disk[f] # Nothing /\ \E i \in 1..k : Moved[i] = f
Clears(f, k, cut) == disk[f] # Nothing /\ cut /\ k < Len(Moved) /\ Moved[k + 1] = f

Organize(k, cut) ==
  /\ Running("layout") /\ call.layout /\ "export" \notin call.skip
  /\ disk' = [f \in DOMAIN disk |-> IF Moves(f, k) THEN Nothing ELSE disk[f]]
  /\ placed' = [f \in DOMAIN placed |->
       IF Moves(f, k) THEN disk[f] ELSE IF Clears(f, k, cut) THEN Nothing ELSE placed[f]]
  /\ call' = [call EXCEPT !.todo = Tail(@)]
  /\ UNCHANGED <<tree, bundle, outcomes, package, calls, runs>>

LeaveFlat ==
  /\ Running("layout") /\ (~call.layout \/ "export" \in call.skip)
  /\ call' = [call EXCEPT !.todo = Tail(@)]
  /\ UNCHANGED <<tree, bundle, outcomes, output, calls, runs>>

EditTree ==
  /\ tree < MaxVersion
  /\ tree' = tree + 1
  /\ UNCHANGED <<bundle, call, outcomes, output, calls, runs>>

SessionNext ==
  \/ NewSession \/ EditTree
  \/ \E m \in Methods, data \in BOOLEAN, layout \in Layouts \cup {FALSE} :
       CallMethod(m, data, layout)
  \/ \E skip \in SkipSets, data \in BOOLEAN, layout \in Layouts : StartRun(skip, data, layout)
  \/ SkipStage \/ RaiseEarly \/ RunIngest \/ RunStatic \/ RunNormalize \/ RunGraph
  \/ RunDynamic \/ RunTranslate \/ CompileStatespace \/ RunProcess \/ RunExport
  \/ \E k \in 1..Len(Files) : RaiseInExport(k)
  \/ \E passed, valid \in BOOLEAN : RunValidate(passed, valid)
  \/ WriteSyntax \/ LeaveFlat
  \/ \E k \in Stops \cup {Len(Moved)}, cut \in BOOLEAN : Organize(k, cut)

SessionSpec == SessionInit /\ [][SessionNext]_sessionVars

-----------------------------------------------------------------------------
(* Properties *)

(* Types, and the bounds.                                                  *)
SessionTypeOK ==
  /\ tree \in Versions /\ calls \in 0..MaxCalls /\ runs \in 0..MaxRuns
  /\ \A k \in {"snapshot", "detail", "facts"} : bundle[k] \in Opt(Versions)
  /\ \A k \in {"graph", "mappings", "trace", "process", "translated"} :
       bundle[k] \in Opt(Graphs)
  /\ bundle.statespace \in Opt(StateSpaces) /\ bundle.syntax \in Opt(SyntaxTrees)
  /\ \A k \in Flags : bundle[k] \in BOOLEAN
  /\ call.by \in {"session", "runner"} /\ call.todo \in Seq(Steps)
  /\ call.layout \in BOOLEAN /\ call.data \in BOOLEAN
  /\ outcomes \in [Stages -> {"none", "success", "failed", "skipped"}]

(* In a session, whatever methods are called in whatever order and however *)
(* they fail, what is kept was derived in the order of the stages: there   *)
(* are no mappings without a graph, no state space without mappings, and   *)
(* none of them has read a newer tree than what it would be derived from.  *)
Lineage == call.by = "session" =>
  /\ Has("mappings") => Has("graph") /\ bundle.mappings.read <= bundle.graph.read
  /\ Has("trace") => Has("mappings") /\ bundle.trace.read <= bundle.mappings.read
  /\ Has("statespace") =>
       /\ bundle.statespace.mappings # Nothing
       /\ bundle.statespace.mappings.read <= bundle.statespace.graph.read
       /\ bundle.statespace.mappings.read <= bundle.mappings.read
  /\ Has("process") => Has("statespace")
                       /\ bundle.process.read <= bundle.statespace.graph.read

(* In a pipeline run, whichever stages are skipped or fail and whatever is *)
(* edited meanwhile, no two artifacts come from different graphs, with or  *)
(* without runtime evidence.                                               *)
RunOneGraph == call.by = "runner" =>
  /\ \A k \in {"mappings", "trace", "process", "translated"} :
       bundle[k] \in Opt({bundle.graph})
  /\ bundle.statespace \in Opt([graph : {bundle.graph}, mappings : Opt({bundle.graph})])

(* The builder goes on when a section fails, and what an earlier run left  *)
(* stays in its place.  Nevertheless a package that is certified is of one *)
(* piece: every file that validation requires was written, and to its end, *)
(* from the artifacts of this very run.                                    *)
CertifiedIsOwn == bundle.certified =>
  \A f \in Mandatory \cup Required :
    package.files[f] \in {Whole(Package), File(Package, "record")}

(* Bundle.pipeline_status                                                  *)
Status ==
  LET found == {outcomes[s] : s \in Stages} \ {"none"}
  IN  CASE found = {}          -> "unavailable"
        [] "failed" \in found  -> "failed"
        [] found = {"skipped"} -> "skipped"
        [] OTHER               -> "success"

(* Where a reader of the directory looks for a file: at its root, then in  *)
(* the layout.                                                             *)
Found(f) == IF disk[f] # Nothing THEN disk[f] ELSE placed[f]

(* A run that says success, skipped none but the dynamic stage and warned  *)
(* of nothing leaves no reader with a file of an earlier run: of its five  *)
(* files, moved or not and however far the moves came, the one that is     *)
(* found is of the graph of this run, with the evidence it was given, and  *)
(* so is every file of the package that its manifest lists.  What it does  *)
(* not promise: the syntax tree of a session and the sections that failed  *)
(* stay, and a model that JSON cannot hold is garbled in its file.         *)
SuccessIsWhole ==
  LET g == bundle.graph
      ss == [graph |-> g, mappings |-> g]
      p == [graph |-> g, statespace |-> ss, process |-> g, mappings |-> g]
  IN  Idle /\ call.name = "run" /\ Status = "success" /\ ~bundle.warned
        /\ (\A s \in Stages \ {"dynamic"} : outcomes[s] # "skipped")
      => /\ \A f \in {"graph", "gnn", "trace"} : Found(f) = Whole(g)
         /\ Found("process") \in [of : {g}, form : Forms]
         /\ Found("statespace") \in [of : {ss}, form : Forms]
         /\ Mandatory \subseteq DOMAIN package.sums
         /\ \A f \in DOMAIN package.sums :
              package.files[f] = package.sums[f] /\ package.sums[f].of = p
         /\ g.enriched = (call.data /\ outcomes["dynamic"] # "skipped")
=============================================================================
