# A TLA+ model of COGANT

COGANT translates a code base into a Generalized Notation Notation (GNN) model
and back. Its Python package (`src/cogant/py/cogant/`, about 84 000 lines) is
mostly sequential transformation of data; this directory models the parts in
which order, failure, time and sharing decide whether the program is right:
the HTTP service, the incremental pipeline run and its result cache, the
translation engine with its conflict resolution, the pipeline DAG, the stage
functions as sessions and runs call them, the review of mappings and the state
spaces compiled from them, program graphs with their merges, and the searches
for cycles in them.

Paths below are relative to `src/cogant/py/cogant/` unless they start with
`src/`.

## The system

| Component | State it keeps | Operations | Interacts with | What is hard | Correct when |
|---|---|---|---|---|---|
| HTTP service, `server/app.py` | semaphore, `active_sessions`, limiter history, meters | one middleware around every route; handlers that run the pipeline on a thread | clients (requests), event loop (tasks, timers), default thread pool, pipeline run | requests interleave at every `await`; a timeout ends the middleware but not the handler or its thread; eleven return paths | no slot is lost, every response is metered once, no client gets past its budget, a dispatched request is answered |
| Incremental run, `api/pipeline.py`, `ingest/incremental.py` | a bundle per run | `run`: preflight, stages, save | cache store, git, source tree and output directory shared with users and other runs | sources change under a run; two runs share a cache and an output directory; stages fail and the run goes on | the cache holds only exact results; a run nobody disturbed reports the sources that are there |
| Result cache, `cache/store.py` | files in shard directories | `get`, `get_latest`, `put`, `invalidate`, `clear` | file system, other processes | check-then-act on files, crashes between system calls, damage, expiry | readers see whole, valid, current entries; nothing raises without cause |
| Translation engine, `translate/engine.py` | rules, mappings, priorities, log | `translate`, `translate_with_confidence` | rules, confidence model | eliminations chain and depend on order; an engine is reused after an exception | no node has two roles, the strongest mapping stays, the log explains what went |
| Pipeline DAG, `pipeline/dag.py` | registered stages | `add_stage`, `run` | stage functions | repeated dependencies, cycles, failures in diamonds | stages run after what they need, skip exactly behind failures, cycles are reported |
| Stage functions, `api/orchestration.py`, `api/bundle.py`, and their callers `Session` (`api/session.py`) and `PipelineRunner` | artifacts of a bundle, outcomes, files of the export, a session's syntax tree | ten stages; `extract_static`, `extract_dynamic`, `build_graph`, `translate_to_gnn`, `compile_state_space`, `export_all`; `run` | translation engine, review, state-space compiler, file system | methods in any order, stages that raise half way, a run that goes on after a failure over the files of an earlier one | every artifact is derived from what precedes it, a run is about one graph, after a "success" no reader takes a file of an earlier run for one of this |
| GNN package, `gnn/package.py`, `gnn/validator.py` | a directory of files with a manifest of checksums | `build`, `validate_package` | export stage, validate stage | sections that fail are passed over, files of an earlier package stay | a package that is certified is of one run |
| Mapping review, `translate/review.py` | mappings, review log | add, accept, reject, edit, split, merge, export | translation engine, state-space compiler (the mapping objects are shared with the bundle) | ids derived from ids collide; decisions are taken back | the log explains every status; the bonus of a human review does not pile up |
| State-space compiler, `statespace/compiler.py`, `statespace/variables.py` | variables extracted so far | `compile`, `compile_incremental` | mappings, program graph | mappings overlap and their order decides; reuse of an earlier result | the model follows the mappings; reuse changes nothing while they stay |
| Program graph, `graph/`, `schemas/graph.py`, `dynamic/enrichment.py` | nodes, edges | add, remove, subgraph, merge, incremental merge, trace edges | stage functions | merged graphs share edge objects with their inputs; conflicts of weight | no edge without its endpoints; a merge owns up to what it drops |
| Graph searches, `graph/analysis.py`, `graph/builder.py` | the calls of a recursion | `find_cycles` of `GraphAnalyzer` and of the builder, strongly connected components | `cogant analyze-graph` | the result must not depend on the order of dicts; two searches must agree; caps cut a search off | components are the classes of mutual reachability, what is listed is a cycle, what caps may drop is all that is dropped |
| Session manager, `api/session.py` | sessions with ttl | create, get, update_status, cleanup | nothing else in the package uses it | expiry against updates | an expired session stays expired |
| Plugin registry, `plugins/registry.py` | discovered and loaded plugins | discover, load | entry points | discovery during loads | what is loaded was discovered |
| Telemetry, `observability/metrics.py` | counters, histograms | inc, observe, summary | all threads | increments outside the lock | no increment is lost |
| Output layout, `tools/organize_example_outputs.py` | files on disk | `organize_run_dir` | `export_all`, pipeline run, `_artifact_present` | moves that stop in the middle, over an earlier layout | no reader finds an older file first |
| Confidence model, `translate/confidence.py` | a scoring log | score, batch | translation engine | numeric edges | scores stay in their range |
| Parsers, static analysis, normalisation, process, Markov blanket, GNN formats, reverse synthesis, simulation, scoring, validation, visualisation, CLI, configuration, Rust crates | data that one thread passes on | pure transformations and I/O | the pipeline run calls them in order | numeric and syntactic content | not a matter of interleaving; see *Not modelled* |

The service calls the pipeline run on pool threads; the pipeline run calls the
cache store before and after its stages, and the translate stage calls the
translation engine and puts its mappings into the bundle, from where the
statespace stage takes them. The stage has a review manager of its own that it
drops when it returns; reviewers build one over the mapping objects of the
bundle (`src/cogant/docs/architecture/step_6_human_review_and_curation.md`,
`src/cogant/examples/thin_orchestrated/16_review_workflow.py`). `Session` calls the same
stage functions from user code. The pipeline DAG is a second, general stage
runner that callers drive directly.

## Modules

| Module | Models | State and actions |
|---|---|---|
| `ServerAdmission` | `server/app.py` 117-286, 522-838 and the handlers' use of the pool | A request has a middleware part (`mw`) and a handler task (`hd`). The code between two awaits is one action: `Arrive` (header checks), `BodyTooLarge`, `Unauthorized`, `TooManyRequests`, `Busy`, `Dispatch` (limiter, gate, `wait_for`), `Complete` and `TimeOut` (with the `finally` clause and the meters). `Reply`, `ToThread`, `StartWork`, `EndWork` are the handler and the executor, `Tick` the monotonic clock. |
| `AdmissionGate` | what clients may rely on | Requests enter one of a fixed number of slots, are told "busy" only if all are taken, and give the slot back in the step that answers them. |
| `IncrementalRun` | `api/pipeline.py` 80-210, 290-559 | A run goes `preflight`, `lookup`, `decide`, `stages`, `done`. `Start` takes the digest, `HashKey` the key, `Lookup` asks the cache, `FullHit` or `Recompute` decides, `ReadSources` is one of the stages that parse the tree (static, normalize, graph), `WriteArtifact` one file of the export, `Save` the end. `Edit`, `Commit`, `Evict`, `RemoveOutput` and `Leave` (process killed) are the world. |
| `CacheStore` | `cache/store.py` | One action per system call: a lookup is a check and a read, a scan lists shards and reads files, a put is mkdir, mkstemp, replace, a clear lists, unlinks, checks and removes. `Crash`, `Expire` and `GoBad` happen in between. |
| `Translation` | `translate/engine.py` 222-601 | `Translate` clears the engine, `ApplyRule` applies the next rule by priority, `Raise` leaves with an exception, `NextPass` and `EndPasses` are the loop, `VisitPair` one round of conflict resolution, `EndResolution` the deletions and, with confidence, the rescoring that follows. |
| `StageContract` | what a run of the DAG promises | Stages settle once, after what they depend on, and run exactly if all of that succeeded. |
| `PipelineDAG` | `pipeline/dag.py` | `AddStage`; `RejectUnknown`, `StartSort`, `PopNode` (one round of Kahn's loop), `StartTrace` and `TraceCycle` (the cycle search); `SkipStage`, `Succeed`, `Fail`, `Interrupt`, `ReturnResult`. |
| `AnalysisSession` | `api/orchestration.py` 181-831 and 1219-1647, `api/session.py` 72-241, `api/bundle.py` 67-164, `api/pipeline.py` 60-200, `tools/organize_example_outputs.py` 116-161 | `CallMethod` fixes the stages a method will run (its guards look at the artifacts), `StartRun` those of a pipeline run and which of them its configuration skips (`call.skip`, which `SkipStage` settles). One action per stage: `RunIngest` ... `RunExport`, `RunValidate`; a stage that stores something before it raises says so in its own action, `RaiseEarly` is the exception before anything is stored, `RaiseInExport` leaves a file half written. Two steps that are no stages end a plan: `WriteSyntax`, the `syntax_tree.json` of `export_all`, and `Organize`, the layout, which may fail after any move and in the middle of one (`LeaveFlat` if none is asked for). An artifact is the versions of the tree it was derived from; a file is what it was written from, and whether it is whole, a short record instead, or broken off. The specification is `SessionSpec`, so that one module can extend this one and `CuratedModel`. |
| `GnnPackage` | `gnn/package.py` 95-807, `gnn/validator.py` 1128-1177 | Operators, no state: the packages `build` may leave over an old one when it returns (`Builds`: every best-effort section is entered in the checksums, written but not entered, broken off or kept as it was; the Markov blanket or a placeholder for it) or raises (`AbandonedBuilds`), and which of them validation certifies. |
| `MappingReview` | `translate/review.py` | `AddMapping`, `Accept`, `Reject`, `Edit`, `Split`, `Merge`, with ids as what they are derived from and the order of the dict. |
| `StateSpace` | `statespace/compiler.py` 431-1028 and 1338-1420, `statespace/variables.py` 52-87 and 231-317 | Operators, no state: what `compile` and `compile_incremental` return for a sequence of mappings and a graph. |
| `CuratedModel` | the two composed as `run_translate` and `run_statespace` do | Reviews interleaved with `RunStatespace` (a fresh compiler), `CompileAgain` (the same one) and `CompileNext` (incremental), on the mappings of the bundle or on those the review exports. |
| `ProgramGraph` | `graph/builder.py` 34-149 and 210-245, `graph/merge.py` 111-439, `schemas/graph.py`, `dynamic/enrichment.py` 313-353 | A heap of edge objects and the objects each graph holds. `AddNode`, `RemoveNode`, `RemoveEdge`, `AddEdge`, `Enrich`, `MergeGraphs`, `MergeIncremental`, `GetSubgraph`. |
| `GraphSearch` | `graph/analysis.py` 263-290 and 711-857, `graph/builder.py` 316-368 | Each recursive search is a stack of calls with the edges still to visit, taken in any order, so one behaviour is one order of the dicts. `Begin`, `Descend`, `MeetOpen`, `MeetSeen`, `Return` and `EndSweep` are the depth-first sweeps: `_has_cycle`, the two passes of Kosaraju, the builder's search for back edges. `BeginAt`, `Extend`, `Close`, `BreakOff` and `Analyzed` are the enumeration of cycles with its two caps. |
| `MC...` | | Small instances of these modules for TLC. |
| `..._proofs` | `ServerAdmission`, `IncrementalRun`, `CacheStore`, `Translation`, `PipelineDAG`, `ProgramGraph`, `GraphSearch`; `Bundle_proofs` is about `MappingReview`, `CuratedModel`, `AnalysisSession` and `GnnPackage` | The theorems. |

Abstractions worth knowing:

- *Requests* carry a client and a path. Header values, body bytes and tokens
  only matter by the check they fail, so these checks are nondeterministic.
  A handler may answer 200, 404, 400 (a body that is no text), 500, or 504 when
  its own work times out; its 403, 404, 405 and 422 answers count as one. The
  413 inside the dispatch (`server/app.py` 775-785) is never reached.
- *A source tree* is its version: `hash_repo` is taken to tell versions apart,
  and a stage to read one version. A run whose stages read different versions
  has read a set of them.
- *A graph* is what the rules find in it. Rules are functions of the graph, as
  the comment at `translate/engine.py:229` says; matching and applying are not
  modelled. Rule errors that the engine catches make a rule emit less, which
  the choice of `emits` covers.
- *Starlette* is modelled at the version the lock file names: a handler task
  outlives the middleware that stopped waiting for it.
- *An artifact* is what it was derived from; what a stage computes is left out.
  A graph remembers the list of files, the version that was read and whether
  runtime evidence was stitched on.
- *Truth and presence*: `run_export` writes the translation and the evidence
  trace if they are true (`api/orchestration.py` 1412, 1420). Both are dicts with
  fixed keys when they are there (`build_rule_evidence_trace`,
  `translate/evidence.py` 235-327, returns its summary even for no mappings), so
  presence is what the model asks for.
- *A model that JSON cannot hold* is written as a record of its id, behind what
  `json.dump` has written of it before it raised (`api/orchestration.py`
  1396-1399, 1406-1409): the file is of this run, but a record or broken.
- *The sections of a package* fail one by one. Their checksums are taken from
  the data that was written, so a file matches its checksum if it is whole and
  of the same build.
- *Filtering a list* by a condition (`Filtered`, `Sorted`) is stated by what the
  result is, not by recursion, so that it can be proved about.
- *A mapping id* is a record of its derivation: the suffix `_split_i` and the
  eight characters that a merge takes of each id are what makes two ids equal.
  The ids of the translation are taken to be longer than eight characters and to
  share a first letter, so every merged id shortens alike.
- *Scores* are in percent. Weights of edges are numbers with a tolerance that
  stands for 0.1.
- *A state variable, observation or action* is kept under its node.
- `run` of the DAG sorts twice, once to reject cycles and once for the order.
  The sort is a function of the stages, so one sort stands for both.

## Runs

Each run is one `.cfg`; its constants are the bounds. The runs that stop
(bounded requests, calls or runs) have deadlock checking off for that reason.

| Run | Question | Bounds and why they are enough |
|---|---|---|
| `ServerAdmission` | Are slots, meters and charges right on every way through the middleware, and does the service implement `AdmissionGate`? | Three requests, two clients, one slot, one thread, one request per window, timeout and window of one tick. With one slot the second request sees it taken and the third sees it returned; the window is left and re-entered. 1.8 million states. |
| `ServerLive` | Is a dispatched request answered even if its work hangs? | Two requests, one slot, timeout of two ticks. |
| `ServerOverrun` | Does `max_concurrent_requests` bound the pipelines that run? No. | Two threads, one slot. |
| `IncrementalRun` | Does the cache hold only exact results, and does a quiet run report what is there? | Two runners, two configurations, two versions, two reads per run, three runs: enough for one run to save between another's lookups, and to edit between the reads of both. `Reverts` is `FALSE`: edits go forward only (see *Known not to hold* below). |
| `IncrementalOutputs` | Are the artifacts next to a full hit its own? No. | Two configurations, one directory. |
| `CacheStore` | Do lookups return whole, valid, newest entries among writers and removers, do temporary files belong to someone, and is every exception due to another process or the call's own write? | Three processes, three keys in two shards and two contracts, three calls of any kind at once: a scan, a lookup or a clear with a put before it, one during it and a remover among them. `Damage` is text that is not JSON (see *Known not to hold*). |
| `Translation` | What does conflict resolution keep and remove, and is a later call free of an earlier one, also after an exception? | Three mappings on two nodes: all fragments of one or two nodes and one that repeats a node, two scores, two priorities, three ways to share emissions; with three mappings eliminations chain. Three calls on one engine; the second and third take their inputs from a smaller set (`LaterInputs`), as what they could see of the first are its leftovers, whatever their own fragments are. |
| `PipelineDAG` | Is the sort sound, the cycle a cycle, and the run what `StageContract` says? | Four stages over eight dependency lists (chains, diamonds, self loops, two-cycles, repeats, unknown names), two runs with registrations before and between. |
| `AnalysisSession` | Are the artifacts of a session derived in order, is a run about one graph, is a certified package its own, and does a successful run leave no reader with a file of another? | `MaxCalls` is four and counts a call that exports twice (`Weight`): four methods in any order, or an export and two methods, or two exports, of which at most one is a pipeline run; in the last case a session and a run write over each other's files, in either order. One edit of the tree at any time, every run with and without evidence and with and without the dynamic stage. `Raising` is the graph stage: without a graph everything behind it fails; the stages that store something before they raise do so without being in it. Writes break off at any file, the state space may be one that JSON cannot hold (`Garbled`), the layout may fail after three moves (`Stops`), and in the middle of the next. One section that validation requires stands for each of them, because they fail independently. 4.5 million states. |
| `CuratedModel` | Does the log explain every status, does every bonus have its reason, and do the models follow the mappings? | Two mappings that share a node, a two-edge graph, three reviews: enough for a split, an edit of its part and a second split or merge that derives the same id, or for two acceptances with an edit of the tier between them. Compilations are not bounded. 1.1 million states. |
| `ProgramGraph` | Are graphs well formed while they share edges, and does a merge own up to what it loses? | Two nodes, a call between them and a self loop, two edge objects, three weights of which two are in conflict: the same edge in two graphs, then merges of merges. Nothing else is bounded. |
| `GraphSearch` | Do the searches list cycles only, are the components exact, and what do the caps drop? | All graphs of four nodes and up to five edges, self loops included, and those of two edges doubled by a parallel one; up to renaming of nodes, in which nothing is ordered. `MaxCycleSize` is three, so a cycle of all four nodes is too long; `max_cycles` is one, two or none. 536 000 states. |

### What they show

Holds:

- `SlotAccounting`, `ImplementsGate`: the semaphore and the gauge count the
  requests between acquire and `finally`, through every timeout and exception.
- `MeteredOnce`, `OnlyAdmittedPay`: every response is metered once, and a
  request is charged exactly if it got past the limiter, a 503 included.
- `WindowBound`: at most `MaxRequests` in any `Window`, at both boundaries.
- `DispatchBounded`: a dispatched request is answered.
- `CacheFaithful`, `QuietRunExact`: whatever git says, and whoever saves,
  the content hash keeps wrong results out of the cache and of quiet runs.
- `GetAnswers`, `LatestNotOlder`, `TempsOwned`, `UndisturbedSucceeds`: a
  lookup answers with an entry that was whole, current and of the right key
  while it ran, and exceptions of an undisturbed call are its own failed writes.
- `NoOverlap`, `DominantKept`, `RemovalsExplained`, `ConsidersThisGraph`: conflict
  resolution keeps no overlap, keeps what nothing beats, and can be explained from its log.
- `SortSound`, `RemainingBlocked`, `ReportsCycle`, `ImplementsContract`.
- `Lineage`, `RunOneGraph`: whatever order methods are called in and wherever
  stages raise, what a session keeps was derived in order, and what a run keeps
  is about one graph.
- `CertifiedIsOwn`: the builder passes over sections that fail, without a word in
  the bundle, and an earlier run's file stays in its place. Nevertheless a package
  that the validate stage certifies (`gnn_validation.valid`) has all required files
  from this run, because each must be in the checksums and a section enters them
  last.
- `SuccessIsWhole`: after a run that says success, warned of nothing and skipped
  at most the dynamic stage, a reader who looks for one of its five files at the
  root and then in the layout (`cli/diff.py` 20-28) finds this run's, and so
  does one who goes by the manifest of the package. Each condition is needed: a
  run with an export warning says success too, and leaves the package of an
  earlier run behind. What it does *not* say is that the directory holds nothing
  else; see *Known not to hold*.
- `AuditTrail`, `ScoreBounded`: the review log explains every status although
  splits and merges may derive an id that is taken and overwrite its mapping, and
  without an edited score a mapping rises by at most one bonus, and by one more
  for each logged edit that took the tier of a review away.
- `QuietReuseExact`, `RejectedIsUncertain`: an incremental model is exact as long as hidden-state and
  observation mappings have not changed, and a rejected mapping counts for
  nothing as long as nobody gives it a score again.
- `WellFormed`, `MergeAccounted`: see the proofs.
- `ComponentsExact`: the strongly connected components are exact whatever the
  order of nodes and edges, and `_has_cycle` and the candidates agree with them.
- `CyclesSound`, `CyclesListed`: what is listed are simple cycles; without
  `max_cycles` every set of nodes on a short enough cycle is listed, with it at
  least one if there is one; the builder lists one in every tangle of cycles.

Does not hold, against what a document, comment or docstring of the repository
says (each is a finding of `PROJECT.json` with the quotation):

1. `ExpensiveWorkBounded`: a timed-out request gives its slot back while its
   pipeline keeps a thread.
2. `HitArtifactsCurrent`: a full hit checks that files of the right names
   exist, not that they are those of the cached run.

Known not to hold, and therefore left to a condition or a bound of the runs
above:

- `build_graph` after `extract_dynamic` builds the graph anew
  (`api/session.py:147`), and the export has no runtime evidence, where
  `src/cogant/docs/api/overview.md:40` lets later stages use it.
- `GraphAnalyzer.find_cycles(max_cycles=None)` asks for "exhaustive enumeration"
  (`graph/analysis.py:271`), but a cycle of more than `max_cycle_size` nodes is not
  listed even so, and two cycles over the same nodes count as one, as
  in the builder, which reports only what one search closes; `CyclesListed`
  speaks of sets of nodes for that reason. `GraphQuery.find_cycles`
  (`graph/queries.py:315`) never reports any: the path search it relies on stops
  at its first node, as `src/cogant/tests/unit/test_graph_queries_behavior.py:259`
  suspects.
- A pipeline run that says success may leave files of earlier runs in its
  output directory: the `syntax_tree.json` of a session (`api/session.py:230`), which
  no run writes; section files of the package whose section failed
  (`gnn/package.py:249`), which its manifest does not list; and, if the layout
  failed, older files in it behind the newer ones at the root. `SuccessIsWhole`
  leaves these out. It also does not say that the files of the state space and
  the process model are whole, as JSON may refuse them.
- The bonus of a human review is given again if somebody edits the tier back
  (`translate/review.py` 55-57 and 116-117); `ScoreBounded` counts these edits.
- An edit that is undone before the save of an incremental run is not seen, and
  the analysis of the edited tree is cached under the key of the original
  (`api/pipeline.py:543`). With `Reverts = TRUE`, `CacheFaithful` fails.
- A cache file that is not UTF-8 raises out of `get` (`cache/store.py:86`).
- A fragment that repeats a node makes its mapping lose against itself
  (`translate/engine.py:557`); `DominantKept` and `RemovalsExplained` say so.
- `compile_incremental` takes the variables of the previous result even for
  mappings that are new, where its docstring promises full extraction for new
  nodes (`statespace/compiler.py:1345`); `QuietReuseExact` has the condition.
- A merge in conflict keeps the evidence of the first graph only, also under
  `union` (`graph/merge.py:270`), and rewrites edges its inputs still hold.

### Fairness

`ServerAdmission!FairSpec` assumes that time passes and that the event loop
runs a timer that is due: `WF(Tick)` and `WF(TimeOut(r))`. Nothing is assumed
of clients, handlers or threads, so the answer is due to the timeout alone. The
handlers run their work with `asyncio.to_thread`, which keeps the loop free.
The other modules have no liveness property: their calls are finite sequences
by construction. That the passes of `Translation` end is not stated either:
`max_iterations` ends them in any case, and what could go wrong, a mapping
counted as new twice, would only make them more.

## Proofs

TLAPS checks these for every value of the constants that satisfies the named
assumptions of the modules:

| Assumption | Says |
|---|---|
| `AdmissionAssumption` | what `create_app` validates, and finitely many requests |
| `RunAssumption`, `CacheAssumption`, `NoneAssumption` | types: versions are numbers and 0 is one, finitely many keys, each with a contract and a shard; `None` is no process, entry or content |
| `TranslationAssumption` | types, and finitely many mapping ids that are numbers |
| `DagAssumption` | finitely many names that are numbers, dependency lists of numbers (a dependency may be no stage's name), and `None` is no list |
| `ReviewAssumption`, `GraphAssumption` (`StateSpace`), `SessionAssumption` | types: scores and bounds are numbers, `NoKind` is no kind, `Nothing` is no artifact and no file |
| `PackageAssumption` | what validation requires are sections, and the model and the Markov blanket are none |
| `TriplesAssumption`, `WeightsAssumption` | types |
| `GraphsAssumption`, `LimitsAssumption`, `SizeAssumption` | types (`None` is no number), and a positive `MaxCycleSize`; the graph may be infinite |

Every safety invariant and action property of the passing runs is a theorem.
Each proof has one lemma per action, or per group of actions that do the same,
on an inductive invariant that TLC checked first on the instance of the run.

`ServerAdmission_proofs`

- `TypeCorrect`: types, and `Lifecycle`, which ties the fields of a request to
  its stage. Neither is inductive without the other: `TimeOut` subtracts a
  start time that `Lifecycle` says is there.
- `SlotsAccounted`: `SlotAccounting` is inductive relative to `TypeCorrect`.
  Each step that changes the set of requests inside changes it by one element,
  in or out, and the two counters by one; all other steps leave the three
  alone. This is where finiteness of the requests is needed.
- `WindowKept`: `WindowBound` speaks of the charges that happened, `check()`
  of a deque that forgets. The invariant `HistoryCovers` connects them: for
  every key there is an injection from the requests charged in the last
  `Window` ticks to positions of its deque whose time stamps are theirs, and
  the deque is ordered and no longer than the limit. Pruning drops only what
  has left the window (`PrunedSuffix`), a charge appends one hit for one
  request, and other keys are not touched.
- `EveryAnswerMetered`: `AnswerOrSilent` sorts all steps into those that answer
  one request and count it in the same step, and those that do neither.
- `RefusalsAreFree` needs `PaidWaiting`: who waits for a handler has paid, so
  whatever the handler answers is paid for.
- `KeepsGate`: the refinement of `AdmissionGate`, step by step. The slots the gate
  counts are the requests inside, and `SlotAccounting` is what makes a busy
  answer one that the gate allows.

`IncrementalRun_proofs`

- `TypeCorrect`, with `Stamped`: without a stamp that is newer than all the
  entries, the newest that a lookup takes would not have to exist.
- `CacheIsFaithful`, `QuietRunsExact`, from `RunInv`: whatever a run has read or
  hashed is a version between its start and now (`During`), and its key is one
  of these. A save compares the digest with the tree once more, and if both are
  one version, so is everything between them, which is where the hypothesis
  `~Reverts` is needed: versions do not come back. With `Reverts` the theorem
  is false (see *Known not to hold*); TLC shows it in a few steps.

`CacheStore_proofs`

- `TypeCorrect`; `NoLitter`, from `DirInv`: files and temporary files are in
  directories that exist, and a put about to replace still has its own.
- `LatestIsCurrent`: of the entries that stayed valid since the scan began
  (`stable`), each is in a shard yet to be listed, listed and yet to be read, or
  no newer than the result so far (`Scanning`).
- `GetsAnswer`: what the file holds between the check and the read is among the
  contents that the call has `seen` (`Reading`), so its answer is one of them.
- `UndisturbedCallsSucceed`, from `Undisturbed`: what a call has looked up is
  still there unless another process has written or removed something, or it
  crashed. Its hypothesis is `"binary" \notin Damage`: the exception of a file
  that cannot be decoded is not among those that `get` catches
  (`cache/store.py:86`), and one such file makes any lookup raise.

`Translation_proofs`

- `TypeCorrect`.
- `DisjointRoles` and `StrongestKept`, from `ResolutionInv`: while conflicts are
  resolved, every collision of two mappings that are still in is a pair yet to
  be visited or has lost one side, and no mapping that beats all its rivals
  has been removed. The first part gives `NoOverlap` when no pair is left, the
  second `DominantKept`. The resolution after a rescoring starts without
  collisions, so it has no pair to visit and preserves both.
- `GraphConsidered`, from `Collecting`: rules come in descending order of
  priority, so the first that emits a mapping is the strongest that does; later
  passes find nothing new. What a call considers is a function of its input and
  not of what an earlier call, or one that raised, left in the engine.
- `RemovalsAccounted`, from `Accounted`: the log names the mappings that are gone
  or marked, each once, with a mapping that collides with it and is not weaker.

`PipelineDAG_proofs`

- `TypeCorrect`, `SortIsSound`: the queue holds exactly the stages whose
  dependencies are all listed (`Ready`), each once; the in-degree of a stage is
  the number of positions of its list that are still waited for (`Pending`),
  which is what keeps a list that repeats a name right.
- `LeftoversBlocked`: when the queue is empty, every stage left waits for
  another that is left. `CycleReported`: the trace walks along dependencies among
  these, and stops at a name it has been at.
- `KeepsContract`: the refinement of `StageContract`. The stages before the
  position are settled and the failed ancestors are those of them that did not
  succeed, so the run skips exactly what the contract skips.

`Bundle_proofs`

- `CuratedAudited`, `CuratedBonusPerReview`: proved of `MappingReview` alone
  (`Audited`, `BonusPerReview`), and carried over by `ImplementsReview`: every step of
  `CuratedModel` is a step of `ReviewSpec` or leaves its variables alone.
  `AuditTrail` is inductive with `MappingsTyped`: a step appends one entry to the
  log, which is then the last that touches the ids it names, and gives exactly
  those ids the status the entry gives. `ScoreBounded` needs that a mapping whose
  score was never edited and whose tier is not human is a whole bonus below
  its bound: an edit that takes the tier away is what makes room for the next
  (`LoweredGrows`, `BonusGrows`).
- `CuratedTyped`, `ReuseIsExact`, `RejectedNotBelieved`, from `CurationInv`: a
  rejected mapping has no score, the order of the dict is that of the ids, and
  the last model is what `compile` returns for its mappings, or for the
  variables and observations of an earlier result. Reuse is exact because
  extraction looks at no mapping of another kind (`ReusedSuffices`): the last
  mapping of a node among those that are reused is its last among all.
- `StagesTyped`, `SessionsInOrder`, `RunsOneGraph`, `CertifiedPackagesOwn`,
  `SuccessMeansWhole`, from `StageInv`. Of a session it says that nothing it holds is
  newer than what it would be derived from, and that a stage still to be done
  will find its input, whichever stages before it raise (`Ordered`). Of a run it
  says what each number of settled steps cannot have derived yet (`Progress`),
  what the outcome of a stage tells of its artifacts and files (`Outcomes`), and
  that the checksums of a registered package cover only files of this build
  (`Sound`, `Packaged`). A file counts where a reader finds it (`Found`), which is
  what makes the layout harmless: no move, and no failure between the removal of
  an older copy and the move, changes what is found. The last two theorems are
  these facts read off when validation certifies and when the run ends, for any
  set of sections.

`ProgramGraph_proofs`

- `GraphsWellFormed`: types, endpoints and uniqueness are inductive together.
  Uniqueness in a merge needs that an edge of the second graph is taken only if
  no triple of the first equals its own, and endpoints that nodes are united
  before edges.
- `MergesAccounted`: from `WellFormed`, for every strategy: the object `Met` is the
  only one of its triple, so what is rewritten is known; in a conflict the triple
  is in `conflicts'`.

`GraphSearch_proofs`

- `ListedCyclesAreCycles`: `CyclesSound` for every graph, finite or not, order of
  edges and caps. The invariant is that the open calls of a search along the
  edges are a simple path and that the edges left to a call leave its node. In
  the sweeps the path is simple because all its nodes are `seen` and a call is
  made for others only, in the enumeration because the path itself is avoided.
  An edge from the top back to a call closes a cycle (`TailIsCycle`).
- `ComponentsAreClasses`: Kosaraju's algorithm, with the recursion of the code.
  All sweeps keep that an edge of a visited node leads to a visited node or is
  still to be taken by an open call (`Followed`). The first pass keeps that of
  whatever a finished node reaches, a node of the reaching one's component
  finishes last, or is still open (`Finishing`): when a call returns and none
  below is in its component, the finished nodes it reaches are closed under
  edges. The second pass keeps that all components but the last are complete and
  that the last is a part of one which holds the open calls (`Collecting`): an
  edge that leads into it from outside comes from its own component, because
  whatever finished after the root is collected already; and it is complete when
  its root returns, because what is not `seen` is then closed under edges. The
  answer of `_has_cycle` comes from `Decided`: a node that is done lies on no
  cycle. The second pass with the nodes in the order of their dict breaks this.
- `CyclesAreListed`. For the enumeration, `Pending`: a cycle that is not listed
  and whose start is no longer to come has its first nodes on the stack, up to a
  call whose loop still has the edge that goes on with it. The size cap is
  harmless for a short cycle, as its path is never too long to go on, and the
  `max_cycles` cap for the first cycle, as `room` is positive until something is
  listed. For the builder, `Decided` again, relative to the components in which
  nothing is listed yet.
- Reachability is defined by closed sets of nodes, which is what lets these proofs
  do without induction over paths; along a listed cycle it follows from a least
  index at which it would fail (`CycleReaches`).

Only model-checked: liveness (`DispatchBounded`), which needs
fairness and `ENABLED` and is outside what the prover handles, and the two
properties that do not hold. What a recursive definition computes for every
input needs induction over data and cannot be proved here either; the models
that are proved about use folds, `CHOOSE` and functions instead.

## Not modelled

- Parsers, static analysis, normalisation, process, Markov blanket, GNN
  formats and sections, reverse synthesis, visualisation: sequential transformations whose correctness
  is in the data (source text, numbers, output formats), about 60 000 lines that
  keep no state another operation reads. `Translation`, `AnalysisSession` and
  `IncrementalRun` quantify over what they may produce.
- Simulation, runtime, scoring: floating-point computation.
- CLI, configuration, ingest: argument parsing and I/O.
- The reverse endpoint's archive, the statistics of the cache store, the
  reports of the translation engine, the queries of the review log, centrality
  and shortest paths of a graph: they read state and change none that another operation reads.
- `SessionManager`: a dict in one thread that nothing in the package uses.
- The plugin registry and the metrics registry: the first is filled once by the
  thread that starts the program, the increments of the second are single
  updates of a dict under CPython's lock.
- Of the layout: figures, the links of the index page and the copies in `reports/`.
  Of reviews: edits of the id, the status and other attributes by `edit_mapping`.
- The coverage and trace files that the dynamic stage of an incremental run
  reads and its cache key ignores (`api/pipeline.py:315`): a real hazard without a
  property so far.
- The shared context of DAG stages: its content is the caller's.
- The coverage and timing metadata of dynamic enrichment, identity hashing, the
  types, domains and parameters of a state space, the time regime.

## Plan

Done: the server first (most concurrency), then the incremental run, the
cache, the translation engine and the DAG; then the stage functions with their
two callers, the review of mappings composed with the compiler, and program
graphs with the searches in them; with the theorems above, which by now state
all the safety properties of the runs and both refinements of a contract.

Next, in this order:

1. An abstract cache (a map from keys to entries with atomic operations) that
   `CacheStore` implements for readers and writers, and `IncrementalRun` over it.
2. The layout composed with `IncrementalRun`'s artifact check, and the inputs of the
   dynamic stage in its cache key.
3. `Confidence`: scores as exact fractions, bounded inputs against a reference.
