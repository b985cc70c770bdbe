---------------------------- MODULE IncrementalRun ----------------------------
(***************************************************************************)
(* Incremental pipeline runs (cogant/api/pipeline.py): PipelineRunner.run  *)
(* with incremental_since set, its preflight against the result cache, the *)
(* stages that read the source tree and write the output directory, and    *)
(* the save at the end; while users edit and commit the sources, remove    *)
(* outputs, entries expire, and runs fail in a stage or are killed.        *)
(*                                                                         *)
(* A source tree is abstracted to its version: hash_repo tells versions    *)
(* apart.  A configuration is what _cache_key digests of it.               *)
(***************************************************************************)
EXTENDS Integers, FiniteSets

CONSTANTS
  Runners,      \* processes that run the pipeline
  Configs,      \* configurations that differ in their digest
  Dirs,         \* output directories
  Artifacts,    \* files the export stage writes, one after the other
  Reads,        \* number of stages that parse the source tree afresh
  Versions,     \* source versions, 0..n
  Reverts,      \* TRUE iff an edit may restore an earlier version
  MaxRuns,      \* bound on the runs that start
  None

ASSUME RunAssumption ==
  /\ Reads \in Nat \ {0} /\ MaxRuns \in Nat
  /\ Versions \subseteq Nat /\ 0 \in Versions
  /\ Reverts \in BOOLEAN

VARIABLES
  src,          \* version of the working tree
  head,         \* version of the last commit
  cache,        \* valid cache entries by key
  disk,         \* what each output directory holds
  run,          \* the local state of each runner
  starts,       \* runs started so far
  stamp         \* entries written so far, as the clock of created_at

vars == <<src, head, cache, disk, run, starts, stamp>>

Keys == [content : Versions, config : Configs]

(* A result, in the cache or on disk: the versions its stages read, the    *)
(* configuration, and whether a stage failed.                              *)
Results == [read : SUBSET Versions, config : Configs, failed : BOOLEAN]

Idle == [pc |-> "idle"]

Init ==
  /\ src = 0 /\ head = 0
  /\ cache = [k \in Keys |-> None]
  /\ disk = [d \in Dirs |-> [a \in Artifacts |-> None]]
  /\ run = [p \in Runners |-> Idle]
  /\ starts = 0
  /\ stamp = 0

-----------------------------------------------------------------------------
(* The environment *)

(* A runner that is under way sees the tree change under it.               *)
Edit ==
  \E v \in Versions :
    /\ v > src \/ (Reverts /\ v < src)
    /\ src' = v
    /\ run' = [p \in Runners |->
                 IF run[p].pc = "idle" THEN run[p] ELSE [run[p] EXCEPT !.edited = TRUE]]
    /\ UNCHANGED <<head, cache, disk, starts, stamp>>

Commit ==
  /\ head # src /\ head' = src
  /\ UNCHANGED <<src, cache, disk, run, starts, stamp>>

(* An entry outlives its ttl, or the user clears the cache. *)
Evict(k) ==
  /\ cache[k] # None
  /\ cache' = [cache EXCEPT ![k] = None]
  /\ UNCHANGED <<src, head, disk, run, starts, stamp>>

RemoveOutput(d, a) ==
  /\ disk[d][a] # None
  /\ disk' = [disk EXCEPT ![d][a] = None]
  /\ UNCHANGED <<src, head, cache, run, starts, stamp>>

(* The process is killed, or its caller has taken the bundle. *)
Leave(p) ==
  /\ run[p].pc # "idle"
  /\ run' = [run EXCEPT ![p] = Idle]
  /\ UNCHANGED <<src, head, cache, disk, starts, stamp>>

-----------------------------------------------------------------------------
(* A run *)

(* source_content_digest is taken before the preflight.                    *)
Start(p, c, d, since, dry) ==
  /\ run[p].pc = "idle" /\ starts < MaxRuns
  /\ starts' = starts + 1
  /\ run' = [run EXCEPT ![p] =
       [pc |-> "preflight", config |-> c, dir |-> d, since |-> since, dry |-> dry,
        digest |-> src, key |-> None, read |-> {}, reads |-> 0, failed |-> FALSE,
        written |-> {}, hit |-> None, seen |-> None, edited |-> FALSE]]
  /\ UNCHANGED <<src, head, cache, disk, stamp>>

(* key = self._cache_key(target, config) *)
HashKey(p) ==
  /\ run[p].pc = "preflight"
  /\ run' = [run EXCEPT ![p].pc = "lookup",
                        ![p].key = [content |-> src, config |-> run[p].config]]
  /\ UNCHANGED <<src, head, cache, disk, starts, stamp>>

(* store.get, then store.get_latest: the newest entry of the same contract *)
(* whatever its content.                                                   *)
Newest(c) ==
  LET found == {k \in Keys : k.config = c /\ cache[k] # None}
  IN  IF found = {} THEN None
      ELSE cache[CHOOSE k \in found : \A j \in found : cache[j].stamp <= cache[k].stamp]

Found(key) == IF cache[key] # None THEN cache[key] ELSE Newest(key.config)

(* store.get, then store.get_latest, which may find older content.         *)
Lookup(p) ==
  /\ run[p].pc = "lookup"
  /\ run' = [run EXCEPT ![p].pc = "decide", ![p].hit = Found(run[p].key)]
  /\ UNCHANGED <<src, head, cache, disk, starts, stamp>>

(* changed_since(ref) compares commits, not the working tree; a git command *)
(* that fails lists no changes, as a clean history does.                   *)
NoChanges(p, gitFails) == gitFails \/ run[p].since = head

(* _cached_bundle_stale_reason is None *)
Reusable(p, entry) ==
  /\ ~entry.result.failed
  /\ \/ run[p].dry
     \/ /\ entry.dir = run[p].dir
        /\ \A a \in entry.written : disk[run[p].dir][a] # None

(* Mutant: git alone decides whether the sources changed.                  *)
CanReuseByGit(p, gitFails) ==
  LET entry == run[p].hit IN
  /\ entry # None
  /\ NoChanges(p, gitFails)
  /\ Reusable(p, entry)

CanReuse(p, gitFails) ==
  LET entry == run[p].hit IN
  /\ entry # None
  /\ NoChanges(p, gitFails)
  /\ entry.key.content = run[p].key.content
  /\ Reusable(p, entry)

FullHit(p, gitFails) ==
  /\ run[p].pc = "decide" /\ CanReuse(p, gitFails)
  /\ run' = [run EXCEPT ![p].pc = "done",
                        ![p].read = run[p].hit.result.read,
                        ![p].seen = disk[run[p].dir]]
  /\ UNCHANGED <<src, head, cache, disk, starts, stamp>>

(* "partial" and "miss" both lead to a full run; the stages of a dry run   *)
(* are stubs.                                                              *)
Recompute(p, gitFails) ==
  /\ run[p].pc = "decide" /\ ~CanReuse(p, gitFails)
  /\ run' = [run EXCEPT ![p].pc = IF run[p].dry THEN "done" ELSE "stages",
                        ![p].hit = None]
  /\ UNCHANGED <<src, head, cache, disk, starts, stamp>>

(* Mutant: one stage too many.                                             *)
ReadSourcesAgain(p) ==
  /\ run[p].pc = "stages" /\ run[p].reads <= Reads
  /\ \E f \in BOOLEAN :
       run' = [run EXCEPT ![p].reads = @ + 1, ![p].read = @ \cup {src},
                          ![p].failed = @ \/ f]
  /\ UNCHANGED <<src, head, cache, disk, starts, stamp>>

(* static, normalize, graph: each parses the files that are there now.  A  *)
(* stage that raises is recorded and the next one runs.                    *)
ReadSources(p) ==
  /\ run[p].pc = "stages" /\ run[p].reads < Reads
  /\ \E f \in BOOLEAN :
       run' = [run EXCEPT ![p].reads = @ + 1, ![p].read = @ \cup {src},
                          ![p].failed = @ \/ f]
  /\ UNCHANGED <<src, head, cache, disk, starts, stamp>>

Result(p) == [read |-> run[p].read, config |-> run[p].config, failed |-> run[p].failed]

(* The export stage writes its files one after the other, or raises.       *)
Exporting(p) ==
  run[p].pc = "stages" /\ run[p].reads = Reads /\ run[p].written # Artifacts

WriteArtifact(p, a) ==
  /\ Exporting(p) /\ a \notin run[p].written
  /\ run' = [run EXCEPT ![p].written = @ \cup {a}]
  /\ disk' = [disk EXCEPT ![run[p].dir][a] = Result(p)]
  /\ UNCHANGED <<src, head, cache, starts, stamp>>

ExportFails(p) ==
  /\ Exporting(p) /\ ~run[p].failed
  /\ run' = [run EXCEPT ![p].failed = TRUE]
  /\ UNCHANGED <<src, head, cache, disk, starts, stamp>>

(* Mutant: the digest taken at the start is not compared.                  *)
SavesChanged(p) == ~run[p].failed

(* _incremental_cache_save: no stage error, and the tree as it was.        *)
Saves(p) == ~run[p].failed /\ run[p].digest = src

Save(p) ==
  /\ run[p].pc = "stages" /\ run[p].reads = Reads
  /\ run[p].written = Artifacts \/ run[p].failed
  /\ run' = [run EXCEPT ![p].pc = "done"]
  /\ IF Saves(p)
     THEN LET k == [content |-> src, config |-> run[p].config] IN
          /\ cache' = [cache EXCEPT ![k] =
               [key |-> k, stamp |-> stamp, result |-> Result(p), dir |-> run[p].dir,
                written |-> run[p].written]]
          /\ stamp' = stamp + 1
     ELSE UNCHANGED <<cache, stamp>>
  /\ UNCHANGED <<src, head, disk, starts>>

Next ==
  \/ Edit \/ Commit
  \/ \E k \in Keys : Evict(k)
  \/ \E d \in Dirs, a \in Artifacts : RemoveOutput(d, a)
  \/ \E p \in Runners :
       \/ \E c \in Configs, d \in Dirs, v \in Versions, dry \in BOOLEAN : Start(p, c, d, v, dry)
       \/ \E gitFails \in BOOLEAN : FullHit(p, gitFails) \/ Recompute(p, gitFails)
       \/ HashKey(p) \/ Lookup(p) \/ ReadSources(p) \/ ExportFails(p)
       \/ Save(p) \/ Leave(p)
       \/ \E a \in Artifacts : WriteArtifact(p, a)

Spec == Init /\ [][Next]_vars

-----------------------------------------------------------------------------
(* Properties *)

Entries == [key : Keys, stamp : Nat, result : Results, dir : Dirs,
            written : SUBSET Artifacts]

RunStates ==
  [pc : {"preflight", "lookup", "decide", "stages", "done"}, config : Configs, dir : Dirs,
   since : Versions, dry : BOOLEAN, digest : Versions, key : Keys \cup {None},
   read : SUBSET Versions, reads : 0..Reads, failed : BOOLEAN,
   written : SUBSET Artifacts, hit : Entries \cup {None},
   seen : [Artifacts -> Results \cup {None}] \cup {None}, edited : BOOLEAN]

(* Every variable has its type. *)
TypeOK ==
  /\ src \in Versions /\ head \in Versions
  /\ cache \in [Keys -> Entries \cup {None}]
  /\ disk \in [Dirs -> [Artifacts -> Results \cup {None}]]
  /\ run \in [Runners -> RunStates \cup {Idle}]
  /\ starts \in 0..MaxRuns /\ stamp \in Nat

(* The cache only holds what a clean run of the keyed configuration over   *)
(* exactly the keyed sources would compute, although the stages read the   *)
(* tree at different times, users edit it under them, and runs of other    *)
(* configurations and versions save concurrently.                          *)
CacheFaithful ==
  \A k \in Keys : cache[k] # None =>
    /\ cache[k].key = k
    /\ cache[k].result = [read |-> {k.content}, config |-> k.config, failed |-> FALSE]

(* A run during which nobody touched the sources, and no stage failed,     *)
(* returns the analysis of exactly these sources under its own             *)
(* configuration, whether it comes from the cache or not, and whatever git *)
(* said.                                                                   *)
QuietRunExact ==
  \A p \in Runners :
    run[p].pc = "done" /\ ~run[p].edited /\ ~run[p].failed
    /\ (run[p].dry => run[p].hit # None) =>
      /\ run[p].read = {run[p].digest}
      /\ run[p].hit # None => run[p].hit.result.config = run[p].config

(* What the docstring at api/pipeline.py:463 says of a full hit: the       *)
(* cached bundle is returned only when its export wrote the artifacts that *)
(* are in this run's output directory.                                     *)
HitArtifactsCurrent ==
  \A p \in Runners :
    run[p].pc = "done" /\ ~run[p].dry /\ run[p].hit # None =>
      \A a \in run[p].hit.written : run[p].seen[a] = run[p].hit.result
=============================================================================
