------------------------ MODULE IncrementalRun_proofs ------------------------
(***************************************************************************)
(* For any number of runners, configurations, directories and versions:    *)
(* as long as edits only go forward, the cache is faithful and quiet runs  *)
(* are exact.                                                              *)
(***************************************************************************)
EXTENDS IncrementalRun, WellFoundedInduction, TLAPS

-----------------------------------------------------------------------------
(* The inductive invariants *)

(* The stamps of the entries are numbers already given out: there is a     *)
(* newest one.                                                             *)
Stamped == \A k \in Keys : cache[k] # None => cache[k].stamp < stamp

(* A run that looks something up has a key. *)
Runs == {r \in RunStates : r.pc \in {"lookup", "decide"} => r.key \in Keys}

TypeInv ==
  /\ TypeOK
  /\ Stamped
  /\ run \in [Runners -> Runs \cup {Idle}]

(* Versions between the start of a run and now.                            *)
During(r) == {v \in Versions : r.digest <= v /\ v <= src}

(* What an entry says of the run that finds it.                            *)
Faithful(entry, config) ==
  /\ entry.key.config = config
  /\ entry.result = [read |-> {entry.key.content}, config |-> config, failed |-> FALSE]

RunInv(r) ==
  /\ r.digest <= src /\ (~r.edited => r.digest = src)
  /\ r.pc \in {"lookup", "decide"} =>
       r.key.content \in During(r) /\ r.key.config = r.config
  /\ r.pc \in {"preflight", "lookup"} => r.hit = None
  /\ r.pc \in {"preflight", "lookup", "decide"} => r.read = {} /\ r.reads = 0
  /\ r.hit # None => Faithful(r.hit, r.config)
  /\ r.pc = "stages" =>
       /\ r.hit = None /\ r.read \subseteq During(r) /\ (r.reads > 0 => r.read # {})
  /\ r.pc = "done" /\ ~r.edited /\ ~r.failed /\ (r.dry => r.hit # None)
       => r.read = {r.digest}

IInv ==
  /\ CacheFaithful
  /\ \A p \in Runners : run[p].pc # "idle" => RunInv(run[p])
-----------------------------------------------------------------------------
(* Runs *)

LEMMA RunTyped ==
  ASSUME TypeInv, NEW p \in Runners
  PROVE  /\ run[p] \in Runs \cup {Idle}
         /\ run[p].pc # "idle" => run[p] \in Runs
         /\ run[p] \in Runs => run[p].pc # "idle"
<1>1. run[p] \in Runs \cup {Idle}
  BY DEF TypeInv
<1>2. Idle.pc = "idle"
  BY DEF Idle
<1>3. \A r \in Runs : r.pc # "idle"
  BY DEF Runs, RunStates
<1>. QED BY <1>1, <1>2, <1>3

(* A step of one runner. *)
LEMMA OneRun ==
  ASSUME TypeInv, NEW p \in Runners, NEW r \in Runs \cup {Idle},
         run' = [run EXCEPT ![p] = r]
  PROVE  /\ run' \in [Runners -> Runs \cup {Idle}]
         /\ run' \in [Runners -> RunStates \cup {Idle}]
         /\ run'[p] = r /\ \A q \in Runners \ {p} : run'[q] = run[q]
BY DEF TypeInv, Runs

(* The entry with the latest stamp. *)
LEMMA NewestFound ==
  ASSUME TypeInv, NEW c \in Configs, NEW k \in Keys, k.config = c, cache[k] # None
  PROVE  \E j \in Keys : j.config = c /\ cache[j] # None /\ Newest(c) = cache[j]
<1>. DEFINE found == {j \in Keys : j.config = c /\ cache[j] # None}
            age == {stamp - cache[j].stamp : j \in found}
<1>1. \A j \in found : cache[j].stamp \in Nat /\ stamp - cache[j].stamp \in Nat
  BY DEF TypeInv, TypeOK, Stamped, Entries
<1>2. stamp \in Nat
  BY DEF TypeInv, TypeOK
<1>3. age \subseteq Nat /\ age # {}
  BY <1>1
<1>4. PICK a \in age : \A b \in age : ~(<<b, a>> \in OpToRel(<, Nat))
  BY <1>3, NatLessThanWellFounded, WFMin
<1>5. \A b \in age : ~(b < a)
  BY <1>3, <1>4 DEF OpToRel
<1>6. PICK j \in found : a = stamp - cache[j].stamp
  OBVIOUS
<1>7. ASSUME NEW i \in found
      PROVE  cache[i].stamp <= cache[j].stamp
  <2>1. ~(stamp - cache[i].stamp < a)
    BY <1>5
  <2>2. cache[i].stamp \in Nat /\ cache[j].stamp \in Nat
    BY <1>1
  <2>. HIDE DEF found
  <2>. QED BY <1>2, <1>6, <2>1, <2>2
<1>. DEFINE newest == CHOOSE m \in found : \A i \in found : cache[i].stamp <= cache[m].stamp
<1>8. newest \in found
  BY <1>6, <1>7
<1>9. Newest(c) = cache[newest]
  BY <1>6 DEF Newest
<1>. HIDE DEF newest
<1>. QED BY <1>8, <1>9

(* What a lookup returns is in the cache, under the same configuration. *)
LEMMA FoundEntry ==
  ASSUME TypeInv, NEW key \in Keys
  PROVE  \/ Found(key) = None
         \/ \E j \in Keys : j.config = key.config /\ cache[j] # None /\ Found(key) = cache[j]
<1>1. key.config \in Configs
  BY DEF Keys
<1>2. CASE cache[key] # None
  BY <1>2 DEF Found
<1>3. CASE cache[key] = None /\ \E k \in Keys : k.config = key.config /\ cache[k] # None
  BY <1>1, <1>3, NewestFound DEF Found
<1>4. CASE cache[key] = None /\ ~(\E k \in Keys : k.config = key.config /\ cache[k] # None)
  <2>1. Newest(key.config) = None
    BY <1>4 DEF Newest
  <2>. QED BY <1>4, <2>1 DEF Found
<1>. QED BY <1>2, <1>3, <1>4

-----------------------------------------------------------------------------
(* Types *)

LEMMA InitTyped == Init => TypeInv
BY RunAssumption DEF Init, TypeInv, TypeOK, Stamped

LEMMA EditTyped ==
  ASSUME TypeInv, Edit
  PROVE  TypeInv'
<1>1. PICK v \in Versions :
        /\ src' = v
        /\ run' = [p \in Runners |->
                     IF run[p].pc = "idle" THEN run[p] ELSE [run[p] EXCEPT !.edited = TRUE]]
        /\ UNCHANGED <<head, cache, disk, starts, stamp>>
  BY DEF Edit
<1>2. ASSUME NEW p \in Runners
      PROVE  run'[p] \in Runs \cup {Idle}
  <2>2. CASE run[p].pc = "idle"
    BY <1>1, <2>2, RunTyped
  <2>3. CASE run[p].pc # "idle"
    <3>1. run[p] \in Runs
      BY <2>3, RunTyped
    <3>2. [run[p] EXCEPT !.edited = TRUE] \in Runs
      BY <3>1 DEF Runs, RunStates
    <3>. QED BY <1>1, <2>3, <3>2
  <2>. QED BY <2>2, <2>3
<1>. QED BY <1>1, <1>2 DEF TypeInv, TypeOK, Stamped, Runs

(* The world, apart from edits. *)
LEMMA WorldTyped ==
  ASSUME TypeInv,
         \/ Commit \/ \E k \in Keys : Evict(k)
         \/ \E d \in Dirs, a \in Artifacts : RemoveOutput(d, a)
         \/ \E p \in Runners : Leave(p)
  PROVE  TypeInv'
<1>1. CASE Commit
  BY <1>1 DEF Commit, TypeInv, TypeOK, Stamped
<1>2. ASSUME NEW k \in Keys, Evict(k)
      PROVE  TypeInv'
  BY <1>2 DEF Evict, TypeInv, TypeOK, Stamped
<1>3. ASSUME NEW d \in Dirs, NEW a \in Artifacts, RemoveOutput(d, a)
      PROVE  TypeInv'
  <2>1. disk' \in [Dirs -> [Artifacts -> Results \cup {None}]]
    BY <1>3 DEF RemoveOutput, TypeInv, TypeOK
  <2>. QED BY <1>3, <2>1 DEF RemoveOutput, TypeInv, TypeOK, Stamped
<1>4. ASSUME NEW p \in Runners, Leave(p)
      PROVE  TypeInv'
  BY <1>4, OneRun DEF Leave, TypeInv, TypeOK, Stamped
<1>. QED BY <1>1, <1>2, <1>3, <1>4

LEMMA LocalTyped ==
  ASSUME TypeInv, NEW p \in Runners, NEW r \in Runs \cup {Idle},
         run' = [run EXCEPT ![p] = r], UNCHANGED <<src, head, cache, disk, starts, stamp>>
  PROVE  TypeInv'
BY OneRun DEF TypeInv, TypeOK, Stamped

LEMMA StartTyped ==
  ASSUME TypeInv, NEW p \in Runners, NEW c \in Configs, NEW d \in Dirs, NEW v \in Versions,
         NEW dry \in BOOLEAN, Start(p, c, d, v, dry)
  PROVE  TypeInv'
<1>. DEFINE r == [pc |-> "preflight", config |-> c, dir |-> d, since |-> v, dry |-> dry,
                  digest |-> src, key |-> None, read |-> {}, reads |-> 0, failed |-> FALSE,
                  written |-> {}, hit |-> None, seen |-> None, edited |-> FALSE]
<1>1. TypeOK
  BY DEF TypeInv
<1>2. r \in Runs
  BY <1>1, RunAssumption DEF Runs, RunStates, TypeOK
<1>3. run' = [run EXCEPT ![p] = r] /\ starts' = starts + 1 /\ starts < MaxRuns
      /\ UNCHANGED <<src, head, cache, disk, stamp>>
  BY DEF Start
<1>. HIDE DEF r
<1>4. run' \in [Runners -> Runs \cup {Idle}] /\ run' \in [Runners -> RunStates \cup {Idle}]
  BY <1>2, <1>3, OneRun
<1>5. starts' \in 0 .. MaxRuns
  BY <1>1, <1>3, RunAssumption DEF TypeOK
<1>. QED BY <1>3, <1>4, <1>5 DEF TypeInv, TypeOK, Stamped

(* Every other step of a runner. *)
LEMMA HashKeyTyped ==
  ASSUME TypeInv, NEW p \in Runners, HashKey(p)
  PROVE  TypeInv'
<1>. DEFINE r == [run[p] EXCEPT !.pc = "lookup",
                                !.key = [content |-> src, config |-> run[p].config]]
<1>1. run[p] \in Runs /\ src \in Versions
  BY RunTyped DEF HashKey, TypeInv, TypeOK
<1>2. r \in Runs
  BY <1>1 DEF Runs, RunStates, Keys
<1>3. run' = [run EXCEPT ![p] = r]
  BY DEF HashKey
<1>. HIDE DEF r
<1>. QED BY <1>2, <1>3, LocalTyped DEF HashKey

LEMMA LookupTyped ==
  ASSUME TypeInv, NEW p \in Runners, Lookup(p)
  PROVE  TypeInv'
<1>. DEFINE found == Found(run[p].key)
            r == [run[p] EXCEPT !.pc = "decide", !.hit = found]
<1>1. run[p] \in Runs /\ run[p].pc = "lookup"
  BY RunTyped DEF Lookup
<1>2. run[p].key \in Keys
  BY <1>1 DEF Runs
<1>3. found \in Entries \cup {None}
  BY <1>2, FoundEntry DEF TypeInv, TypeOK
<1>. HIDE DEF found
<1>4. r \in Runs
  BY <1>1, <1>2, <1>3 DEF Runs, RunStates
<1>5. run' = [run EXCEPT ![p] = r]
  BY DEF Lookup, found
<1>. HIDE DEF r
<1>. QED BY <1>4, <1>5, LocalTyped DEF Lookup

LEMMA FullHitTyped ==
  ASSUME TypeInv, NEW p \in Runners, NEW gitFails \in BOOLEAN, FullHit(p, gitFails)
  PROVE  TypeInv'
<1>. DEFINE r == [run[p] EXCEPT !.pc = "done", !.read = run[p].hit.result.read,
                                !.seen = disk[run[p].dir]]
<1>1. run[p] \in Runs
  BY RunTyped DEF FullHit
<1>2. run[p].hit \in Entries
  BY <1>1 DEF FullHit, CanReuse, Runs, RunStates
<1>3. run[p].hit.result.read \in SUBSET Versions
  BY <1>2 DEF Entries, Results
<1>4. disk[run[p].dir] \in [Artifacts -> Results \cup {None}]
  BY <1>1 DEF TypeInv, TypeOK, Runs, RunStates
<1>5. r \in Runs
  BY <1>1, <1>3, <1>4 DEF Runs, RunStates
<1>6. run' = [run EXCEPT ![p] = r]
  BY DEF FullHit
<1>. HIDE DEF r
<1>. QED BY <1>5, <1>6, LocalTyped DEF FullHit

LEMMA RecomputeTyped ==
  ASSUME TypeInv, NEW p \in Runners, NEW gitFails \in BOOLEAN, Recompute(p, gitFails)
  PROVE  TypeInv'
<1>. DEFINE r == [run[p] EXCEPT !.pc = IF run[p].dry THEN "done" ELSE "stages", !.hit = None]
<1>1. run[p] \in Runs
  BY RunTyped DEF Recompute
<1>2. r \in Runs
  BY <1>1 DEF Runs, RunStates
<1>3. run' = [run EXCEPT ![p] = r]
  BY DEF Recompute
<1>. HIDE DEF r
<1>. QED BY <1>2, <1>3, LocalTyped DEF Recompute

LEMMA ReadSourcesTyped ==
  ASSUME TypeInv, NEW p \in Runners, ReadSources(p)
  PROVE  TypeInv'
<1>1. PICK f \in BOOLEAN :
        run' = [run EXCEPT ![p].reads = @ + 1, ![p].read = @ \cup {src}, ![p].failed = @ \/ f]
  BY DEF ReadSources
<1>. DEFINE r == [run[p] EXCEPT !.reads = @ + 1, !.read = @ \cup {src}, !.failed = @ \/ f]
<1>2. run[p] \in Runs /\ src \in Versions /\ run[p].reads < Reads /\ Reads \in Nat
  BY RunTyped, RunAssumption DEF ReadSources, TypeInv, TypeOK
<1>3. run[p].reads + 1 \in 0 .. Reads /\ run[p].read \cup {src} \in SUBSET Versions
      /\ (run[p].failed \/ f) \in BOOLEAN
  BY <1>2 DEF Runs, RunStates
<1>4. r \in Runs
  BY <1>2, <1>3 DEF Runs, RunStates
<1>5. run' = [run EXCEPT ![p] = r]
  BY <1>1, <1>2
<1>. HIDE DEF r
<1>. QED BY <1>4, <1>5, LocalTyped DEF ReadSources

LEMMA ExportFailsTyped ==
  ASSUME TypeInv, NEW p \in Runners, ExportFails(p)
  PROVE  TypeInv'
<1>. DEFINE r == [run[p] EXCEPT !.failed = TRUE]
<1>1. run[p] \in Runs
  BY RunTyped DEF ExportFails, Exporting
<1>2. r \in Runs
  BY <1>1 DEF Runs, RunStates
<1>3. run' = [run EXCEPT ![p] = r]
  BY DEF ExportFails
<1>. HIDE DEF r
<1>. QED BY <1>2, <1>3, LocalTyped DEF ExportFails

LEMMA WriteArtifactTyped ==
  ASSUME TypeInv, NEW p \in Runners, NEW a \in Artifacts, WriteArtifact(p, a)
  PROVE  TypeInv'
<1>. DEFINE r == [run[p] EXCEPT !.written = @ \cup {a}]
<1>1. run[p] \in Runs
  BY RunTyped DEF WriteArtifact, Exporting
<1>2. r \in Runs /\ Result(p) \in Results
  BY <1>1 DEF Runs, RunStates, Result, Results
<1>3. run' = [run EXCEPT ![p] = r]
  BY <1>1 DEF WriteArtifact
<1>4. disk' \in [Dirs -> [Artifacts -> Results \cup {None}]]
  BY <1>1, <1>2 DEF WriteArtifact, TypeInv, TypeOK, Runs, RunStates
<1>. HIDE DEF r
<1>5. run' \in [Runners -> Runs \cup {Idle}] /\ run' \in [Runners -> RunStates \cup {Idle}]
  BY <1>2, <1>3, OneRun
<1>. QED BY <1>4, <1>5 DEF WriteArtifact, TypeInv, TypeOK, Stamped

LEMMA SaveTyped ==
  ASSUME TypeInv, NEW p \in Runners, Save(p)
  PROVE  TypeInv'
<1>. DEFINE r == [run[p] EXCEPT !.pc = "done"]
<1>1. run[p] \in Runs /\ src \in Versions /\ stamp \in Nat
  BY RunTyped DEF Save, TypeInv, TypeOK
<1>2. r \in Runs
  BY <1>1 DEF Runs, RunStates
<1>3. run' = [run EXCEPT ![p] = r]
  BY DEF Save
<1>. HIDE DEF r
<1>4. run' \in [Runners -> Runs \cup {Idle}] /\ run' \in [Runners -> RunStates \cup {Idle}]
  BY <1>2, <1>3, OneRun
<1>. DEFINE k == [content |-> src, config |-> run[p].config]
            e == [key |-> k, stamp |-> stamp, result |-> Result(p), dir |-> run[p].dir,
                  written |-> run[p].written]
<1>5. k \in Keys
  BY <1>1 DEF Keys, Runs, RunStates
<1>6. Result(p) \in Results /\ run[p].dir \in Dirs /\ run[p].written \in SUBSET Artifacts
  BY <1>1 DEF Runs, RunStates, Result, Results
<1>7. e \in Entries /\ e.stamp = stamp
  BY <1>1, <1>5, <1>6 DEF Entries
<1>8. CASE Saves(p)
  <2>1. cache' = [cache EXCEPT ![k] = e] /\ stamp' = stamp + 1
    BY <1>8 DEF Save
  <2>. HIDE DEF k, e
  <2>2. cache' \in [Keys -> Entries \cup {None}]
    BY <1>5, <1>7, <2>1 DEF TypeInv, TypeOK
  <2>3. ASSUME NEW j \in Keys, cache'[j] # None
        PROVE  cache'[j].stamp < stamp'
    <3>1. CASE j = k
      BY <1>1, <1>5, <1>7, <2>1, <3>1 DEF TypeInv, TypeOK
    <3>2. CASE j # k
      <4>1. cache'[j] = cache[j] /\ cache[j] \in Entries
        BY <2>1, <2>3, <3>2 DEF TypeInv, TypeOK
      <4>2. cache[j].stamp < stamp /\ cache[j].stamp \in Nat
        BY <2>3, <4>1 DEF TypeInv, Stamped, Entries
      <4>. QED BY <1>1, <2>1, <4>1, <4>2
    <3>. QED BY <3>1, <3>2
  <2>. QED BY <1>1, <1>4, <2>1, <2>2, <2>3 DEF Save, TypeInv, TypeOK, Stamped
<1>9. CASE ~Saves(p)
  BY <1>4, <1>9 DEF Save, TypeInv, TypeOK, Stamped
<1>. QED BY <1>8, <1>9

LEMMA NextTyped ==
  ASSUME TypeInv, [Next]_vars
  PROVE  TypeInv'
<1>1. CASE UNCHANGED vars
  BY <1>1 DEF vars, TypeInv, TypeOK, Stamped
<1>2. CASE Edit
  BY <1>2, EditTyped
<1>3. CASE \/ Commit \/ \E k \in Keys : Evict(k)
           \/ \E d \in Dirs, a \in Artifacts : RemoveOutput(d, a)
           \/ \E p \in Runners : Leave(p)
  BY <1>3, WorldTyped
<1>4. ASSUME NEW p \in Runners, NEW c \in Configs, NEW d \in Dirs, NEW v \in Versions,
             NEW dry \in BOOLEAN, Start(p, c, d, v, dry)
      PROVE  TypeInv'
  BY <1>4, StartTyped
<1>5. ASSUME NEW p \in Runners,
             \/ HashKey(p) \/ Lookup(p) \/ ReadSources(p) \/ ExportFails(p) \/ Save(p)
      PROVE  TypeInv'
  BY <1>5, HashKeyTyped, LookupTyped, ReadSourcesTyped, ExportFailsTyped, SaveTyped
<1>6. ASSUME NEW p \in Runners, NEW g \in BOOLEAN, FullHit(p, g) \/ Recompute(p, g)
      PROVE  TypeInv'
  BY <1>6, FullHitTyped, RecomputeTyped
<1>7. ASSUME NEW p \in Runners, NEW a \in Artifacts, WriteArtifact(p, a)
      PROVE  TypeInv'
  BY <1>7, WriteArtifactTyped
<1>. QED BY <1>1, <1>2, <1>3, <1>4, <1>5, <1>6, <1>7 DEF Next

(* Every state has its types, and there is a newest entry to be found. *)
THEOREM TypeCorrect == Spec => []TypeOK
<1>1. Spec => []TypeInv
  BY InitTyped, NextTyped, PTL DEF Spec
<1>2. TypeInv => TypeOK
  BY DEF TypeInv
<1>. QED BY <1>1, <1>2, PTL

-----------------------------------------------------------------------------
(* Faithfulness *)

LEMMA InitFaithful == Init => IInv
BY DEF Init, IInv, CacheFaithful, Idle

(* While edits only go forward, the versions a run may have read grow.     *)
LEMMA EditFaithful ==
  ASSUME ~Reverts, TypeInv, IInv, Edit
  PROVE  IInv'
<1>1. PICK v \in Versions :
        /\ src' = v /\ v > src
        /\ run' = [p \in Runners |->
                     IF run[p].pc = "idle" THEN run[p] ELSE [run[p] EXCEPT !.edited = TRUE]]
        /\ UNCHANGED <<head, cache, disk, starts, stamp>>
  BY DEF Edit
<1>2. src \in Nat /\ src' \in Nat /\ src < src' /\ Versions \subseteq Nat
  BY <1>1, RunAssumption DEF TypeInv, TypeOK
<1>3. CacheFaithful'
  BY <1>1 DEF IInv, CacheFaithful
<1>4. ASSUME NEW p \in Runners, run'[p].pc # "idle"
      PROVE  RunInv(run[p])'
  <2>. DEFINE r == run[p]
  <2>1. r.pc # "idle" /\ r \in Runs /\ RunInv(r)
    <3>1. r.pc # "idle"
      BY <1>1, <1>4
    <3>. QED BY <3>1, RunTyped DEF IInv
  <2>2. run'[p] = [r EXCEPT !.edited = TRUE]
    BY <1>1, <2>1
  <2>. HIDE DEF r
  <2>3. r \in RunStates /\ r.digest \in Nat
    BY <1>2, <2>1 DEF Runs, RunStates
  <2>4. \A w \in Versions : w <= src => w <= src'
    BY <1>2
  <2>5. r.digest <= src'
    BY <1>2, <2>1, <2>3 DEF RunInv
  <2>. QED BY <2>1, <2>2, <2>3, <2>4, <2>5 DEF RunStates, RunInv, During, Faithful
<1>. QED BY <1>3, <1>4 DEF IInv

(* Steps that leave the sources and the cache alone: the new run must be   *)
(* consistent.                                                             *)
LEMMA LocalFaithful ==
  ASSUME TypeInv, IInv, NEW p \in Runners, NEW r \in Runs \cup {Idle},
         run' = [run EXCEPT ![p] = r], UNCHANGED <<src, cache>>,
         r.pc # "idle" => RunInv(r)
  PROVE  IInv'
<1>1. CacheFaithful'
  BY DEF IInv, CacheFaithful
<1>2. ASSUME NEW q \in Runners, run'[q].pc # "idle"
      PROVE  RunInv(run[q])'
  <2>1. CASE q = p
    <3>1. run'[q] = r
      BY <2>1, OneRun
    <3>. QED BY <1>2, <3>1 DEF RunInv, During, Faithful
  <2>2. CASE q # p
    <3>1. run'[q] = run[q]
      BY <2>2, OneRun
    <3>2. RunInv(run[q])
      BY <1>2, <3>1 DEF IInv
    <3>. QED BY <3>1, <3>2 DEF RunInv, During, Faithful
  <2>. QED BY <2>1, <2>2
<1>. QED BY <1>1, <1>2 DEF IInv

LEMMA WorldFaithful ==
  ASSUME TypeInv, IInv,
         \/ Commit \/ \E k \in Keys : Evict(k)
         \/ \E d \in Dirs, a \in Artifacts : RemoveOutput(d, a)
         \/ \E p \in Runners : Leave(p)
  PROVE  IInv'
<1>1. CASE Commit
  BY <1>1 DEF Commit, IInv, CacheFaithful, RunInv, During, Faithful
<1>2. ASSUME NEW k \in Keys, Evict(k)
      PROVE  IInv'
  <2>1. \A j \in Keys : cache'[j] # None => cache'[j] = cache[j]
    BY <1>2 DEF Evict, TypeInv, TypeOK
  <2>2. CacheFaithful'
    BY <2>1 DEF IInv, CacheFaithful
  <2>. QED BY <1>2, <2>2 DEF Evict, IInv, RunInv, During, Faithful
<1>3. ASSUME NEW d \in Dirs, NEW a \in Artifacts, RemoveOutput(d, a)
      PROVE  IInv'
  BY <1>3 DEF RemoveOutput, IInv, CacheFaithful, RunInv, During, Faithful
<1>4. ASSUME NEW p \in Runners, Leave(p)
      PROVE  IInv'
  BY <1>4, LocalFaithful DEF Leave, Idle
<1>. QED BY <1>1, <1>2, <1>3, <1>4

LEMMA StartFaithful ==
  ASSUME TypeInv, IInv, NEW p \in Runners, NEW c \in Configs, NEW d \in Dirs,
         NEW v \in Versions, NEW dry \in BOOLEAN, Start(p, c, d, v, dry)
  PROVE  IInv'
<1>. DEFINE r == [pc |-> "preflight", config |-> c, dir |-> d, since |-> v, dry |-> dry,
                  digest |-> src, key |-> None, read |-> {}, reads |-> 0, failed |-> FALSE,
                  written |-> {}, hit |-> None, seen |-> None, edited |-> FALSE]
<1>1. src \in Versions /\ src \in Nat
  BY RunAssumption DEF TypeInv, TypeOK
<1>2. r \in Runs
  BY <1>1, RunAssumption DEF Runs, RunStates
<1>3. RunInv(r)
  BY <1>1 DEF RunInv
<1>4. run' = [run EXCEPT ![p] = r]
  BY DEF Start
<1>. HIDE DEF r
<1>. QED BY <1>2, <1>3, <1>4, LocalFaithful DEF Start

(* The content is hashed after the digest was taken. *)
LEMMA HashKeyFaithful ==
  ASSUME TypeInv, IInv, NEW p \in Runners, HashKey(p)
  PROVE  IInv'
<1>. DEFINE key == [content |-> src, config |-> run[p].config]
            r == [run[p] EXCEPT !.pc = "lookup", !.key = key]
<1>1. run[p] \in Runs /\ src \in Versions /\ src \in Nat /\ RunInv(run[p])
      /\ run[p].pc = "preflight"
  BY RunTyped, RunAssumption DEF HashKey, TypeInv, TypeOK, IInv
<1>2. r \in Runs
  BY <1>1 DEF Runs, RunStates, Keys
<1>3. key.content \in During(run[p])
  BY <1>1 DEF RunInv, During
<1>4. RunInv(r)
  BY <1>1, <1>3 DEF Runs, RunStates, RunInv, During, Faithful
<1>5. run' = [run EXCEPT ![p] = r]
  BY DEF HashKey
<1>. HIDE DEF r
<1>. QED BY <1>2, <1>4, <1>5, LocalFaithful DEF HashKey

(* Whatever entry is found, it belongs to the configuration of the run. *)
LEMMA LookupFaithful ==
  ASSUME TypeInv, IInv, NEW p \in Runners, Lookup(p)
  PROVE  IInv'
<1>. DEFINE found == Found(run[p].key)
            r == [run[p] EXCEPT !.pc = "decide", !.hit = found]
<1>1. run[p] \in Runs /\ RunInv(run[p]) /\ run[p].pc = "lookup"
  BY RunTyped DEF Lookup, IInv
<1>2. run[p].key \in Keys /\ run[p].key.config = run[p].config
  BY <1>1 DEF Runs, RunInv
<1>3. found \in Entries \cup {None} /\ (found # None => Faithful(found, run[p].config))
  <2>1. \/ found = None
        \/ \E j \in Keys : j.config = run[p].key.config /\ cache[j] # None /\ found = cache[j]
    BY <1>2, FoundEntry
  <2>. HIDE DEF found
  <2>2. ASSUME NEW j \in Keys, j.config = run[p].key.config, cache[j] # None, found = cache[j]
        PROVE  found \in Entries \cup {None} /\ Faithful(found, run[p].config)
    <3>1. found \in Entries \cup {None}
      BY <2>2 DEF TypeInv, TypeOK
    <3>2. /\ found.key = j
          /\ found.result = [read |-> {j.content}, config |-> j.config, failed |-> FALSE]
      BY <2>2 DEF IInv, CacheFaithful
    <3>. QED BY <1>2, <2>2, <3>1, <3>2 DEF Faithful
  <2>. QED BY <2>1, <2>2
<1>. HIDE DEF found
<1>4. r \in Runs
  BY <1>1, <1>2, <1>3 DEF Runs, RunStates
<1>5. RunInv(r)
  BY <1>1, <1>3 DEF Runs, RunStates, RunInv, During
<1>6. run' = [run EXCEPT ![p] = r]
  BY DEF Lookup, found
<1>. HIDE DEF r
<1>. QED BY <1>4, <1>5, <1>6, LocalFaithful DEF Lookup

(* The entry has the hashed content; without an edit that is the digest. *)
LEMMA FullHitFaithful ==
  ASSUME TypeInv, IInv, NEW p \in Runners, NEW gitFails \in BOOLEAN, FullHit(p, gitFails)
  PROVE  IInv'
<1>. DEFINE seen == disk[run[p].dir]
            r == [run[p] EXCEPT !.pc = "done", !.read = run[p].hit.result.read, !.seen = seen]
<1>1. run[p] \in Runs /\ RunInv(run[p]) /\ run[p].pc = "decide"
  BY RunTyped DEF FullHit, IInv
<1>2. run[p].hit \in Entries /\ run[p].hit # None /\ run[p].hit.key.content = run[p].key.content
  BY <1>1 DEF FullHit, CanReuse, Runs, RunStates
<1>3. run[p].hit.result.read = {run[p].key.content} /\ run[p].key.content \in Versions
  BY <1>1, <1>2 DEF RunInv, Faithful, Runs, Keys
<1>4. seen \in [Artifacts -> Results \cup {None}]
  BY <1>1 DEF TypeInv, TypeOK, Runs, RunStates
<1>. HIDE DEF seen
<1>5. r \in Runs
  BY <1>1, <1>3, <1>4 DEF Runs, RunStates
<1>6. ~run[p].edited => run[p].key.content = run[p].digest
  <2>1. run[p].digest \in Nat /\ run[p].key.content \in Nat /\ src \in Nat
    BY <1>1, <1>3, RunAssumption DEF TypeInv, TypeOK, Runs, RunStates
  <2>2. run[p].digest <= run[p].key.content /\ run[p].key.content <= src
    BY <1>1 DEF RunInv, During
  <2>. QED BY <1>1, <2>1, <2>2 DEF RunInv
<1>7. RunInv(r)
  BY <1>1, <1>3, <1>6 DEF Runs, RunStates, RunInv, During, Faithful
<1>8. run' = [run EXCEPT ![p] = r]
  BY DEF FullHit, seen
<1>. HIDE DEF r
<1>. QED BY <1>5, <1>7, <1>8, LocalFaithful DEF FullHit

LEMMA RecomputeFaithful ==
  ASSUME TypeInv, IInv, NEW p \in Runners, NEW gitFails \in BOOLEAN, Recompute(p, gitFails)
  PROVE  IInv'
<1>. DEFINE r == [run[p] EXCEPT !.pc = IF run[p].dry THEN "done" ELSE "stages", !.hit = None]
<1>1. run[p] \in Runs /\ RunInv(run[p]) /\ run[p].pc = "decide"
  BY RunTyped DEF Recompute, IInv
<1>2. r \in Runs
  BY <1>1 DEF Runs, RunStates
<1>3. RunInv(r)
  BY <1>1 DEF Runs, RunStates, RunInv, During
<1>4. run' = [run EXCEPT ![p] = r]
  BY DEF Recompute
<1>. HIDE DEF r
<1>. QED BY <1>2, <1>3, <1>4, LocalFaithful DEF Recompute

(* A stage reads a version that is not before the digest. *)
LEMMA ReadSourcesFaithful ==
  ASSUME TypeInv, IInv, NEW p \in Runners, ReadSources(p)
  PROVE  IInv'
<1>1. PICK f \in BOOLEAN :
        run' = [run EXCEPT ![p].reads = @ + 1, ![p].read = @ \cup {src}, ![p].failed = @ \/ f]
  BY DEF ReadSources
<1>. DEFINE r == [run[p] EXCEPT !.reads = @ + 1, !.read = @ \cup {src}, !.failed = @ \/ f]
<1>2. run[p] \in Runs /\ RunInv(run[p]) /\ run[p].pc = "stages"
      /\ run[p].reads < Reads /\ Reads \in Nat
  BY RunTyped, RunAssumption DEF ReadSources, IInv
<1>3. src \in Versions /\ src \in Nat
  BY RunAssumption DEF TypeInv, TypeOK
<1>4. run[p].reads + 1 \in 0 .. Reads /\ run[p].read \cup {src} \in SUBSET Versions
      /\ (run[p].failed \/ f) \in BOOLEAN
  BY <1>2, <1>3 DEF Runs, RunStates
<1>5. r \in Runs
  BY <1>2, <1>4 DEF Runs, RunStates
<1>6. run[p].read \cup {src} \subseteq During(run[p])
  BY <1>2, <1>3 DEF RunInv, During
<1>7. /\ r.pc = "stages" /\ r.digest = run[p].digest /\ r.edited = run[p].edited
      /\ r.hit = None /\ r.read = run[p].read \cup {src}
  BY <1>2 DEF Runs, RunStates, RunInv
<1>8. RunInv(r)
  BY <1>2, <1>6, <1>7 DEF RunInv, During
<1>9. run' = [run EXCEPT ![p] = r]
  BY <1>1, <1>2
<1>. HIDE DEF r
<1>. QED BY <1>5, <1>8, <1>9, LocalFaithful DEF ReadSources

LEMMA ExportFaithful ==
  ASSUME TypeInv, IInv, NEW p \in Runners,
         ExportFails(p) \/ \E a \in Artifacts : WriteArtifact(p, a)
  PROVE  IInv'
<1>1. run[p] \in Runs /\ RunInv(run[p]) /\ run[p].pc = "stages"
  BY RunTyped DEF ExportFails, WriteArtifact, Exporting, IInv
<1>2. CASE ExportFails(p)
  <2>. DEFINE r == [run[p] EXCEPT !.failed = TRUE]
  <2>1. r \in Runs /\ RunInv(r)
    BY <1>1 DEF Runs, RunStates, RunInv, During
  <2>2. run' = [run EXCEPT ![p] = r]
    BY <1>2 DEF ExportFails
  <2>. HIDE DEF r
  <2>. QED BY <1>2, <2>1, <2>2, LocalFaithful DEF ExportFails
<1>3. ASSUME NEW a \in Artifacts, WriteArtifact(p, a)
      PROVE  IInv'
  <2>. DEFINE r == [run[p] EXCEPT !.written = @ \cup {a}]
  <2>1. r \in Runs /\ RunInv(r)
    BY <1>1 DEF Runs, RunStates, RunInv, During
  <2>2. run' = [run EXCEPT ![p] = r]
    BY <1>1, <1>3 DEF WriteArtifact
  <2>. HIDE DEF r
  <2>. QED BY <1>3, <2>1, <2>2, LocalFaithful DEF WriteArtifact
<1>. QED BY <1>2, <1>3

(* When the tree is what it was at the start, every stage has read it.     *)
LEMMA ReadsAreDigest ==
  ASSUME TypeInv, IInv, NEW p \in Runners, Save(p), run[p].digest = src
  PROVE  run[p].read = {src}
<1>1. run[p] \in Runs /\ RunInv(run[p]) /\ run[p].pc = "stages" /\ run[p].reads = Reads
  BY RunTyped DEF Save, IInv
<1>2. src \in Nat /\ Versions \subseteq Nat /\ Reads > 0
  BY RunAssumption DEF TypeInv, TypeOK
<1>3. run[p].read # {} /\ run[p].read \subseteq During(run[p])
  BY <1>1, <1>2 DEF RunInv
<1>4. \A v \in During(run[p]) : v = src
  BY <1>2 DEF During
<1>. QED BY <1>3, <1>4

LEMMA SaveFaithful ==
  ASSUME TypeInv, IInv, NEW p \in Runners, Save(p)
  PROVE  IInv'
<1>. DEFINE r == [run[p] EXCEPT !.pc = "done"]
<1>1. run[p] \in Runs /\ RunInv(run[p]) /\ run[p].pc = "stages" /\ src \in Versions
  BY RunTyped DEF Save, IInv, TypeInv, TypeOK
<1>2. r \in Runs
  BY <1>1 DEF Runs, RunStates
<1>3. RunInv(r)
  BY <1>1, ReadsAreDigest DEF Runs, RunStates, RunInv, During, Faithful
<1>4. run' = [run EXCEPT ![p] = r] /\ src' = src
  BY DEF Save
<1>. HIDE DEF r
<1>5. CASE ~Saves(p)
  BY <1>2, <1>3, <1>4, <1>5, LocalFaithful DEF Save
<1>6. CASE Saves(p)
  <2>. DEFINE k == [content |-> src, config |-> run[p].config]
              e == [key |-> k, stamp |-> stamp, result |-> Result(p), dir |-> run[p].dir,
                    written |-> run[p].written]
  <2>1. cache' = [cache EXCEPT ![k] = e]
    BY <1>6 DEF Save
  <2>2. run[p].digest = src /\ run[p].failed = FALSE
    BY <1>1, <1>6 DEF Saves, Runs, RunStates
  <2>3. e.key = k /\ e.result = [read |-> {k.content}, config |-> k.config, failed |-> FALSE]
    BY <2>2, ReadsAreDigest DEF Result
  <2>. HIDE DEF k, e
  <2>4. CacheFaithful'
    <3>. SUFFICES ASSUME NEW j \in Keys, cache'[j] # None
                  PROVE  /\ cache'[j].key = j
                         /\ cache'[j].result =
                              [read |-> {j.content}, config |-> j.config, failed |-> FALSE]
      BY DEF CacheFaithful
    <3>1. CASE j = k
      <4>1. cache'[j] = e
        BY <2>1, <3>1 DEF TypeInv, TypeOK
      <4>. QED BY <2>3, <3>1, <4>1
    <3>2. CASE j # k
      <4>1. cache'[j] = cache[j]
        BY <2>1, <3>2 DEF TypeInv, TypeOK
      <4>. QED BY <4>1 DEF IInv, CacheFaithful
    <3>. QED BY <3>1, <3>2
  <2>5. ASSUME NEW q \in Runners, run'[q].pc # "idle"
        PROVE  RunInv(run[q])'
    <3>1. CASE q = p
      <4>1. run'[q] = r
        BY <1>2, <1>4, <3>1, OneRun
      <4>. QED BY <1>3, <1>4, <4>1 DEF RunInv, During, Faithful
    <3>2. CASE q # p
      <4>1. run'[q] = run[q]
        BY <1>2, <1>4, <3>2, OneRun
      <4>2. RunInv(run[q])
        BY <2>5, <4>1 DEF IInv
      <4>. QED BY <1>4, <4>1, <4>2 DEF RunInv, During, Faithful
    <3>. QED BY <3>1, <3>2
  <2>. QED BY <2>4, <2>5 DEF IInv
<1>. QED BY <1>5, <1>6

LEMMA NextFaithful ==
  ASSUME ~Reverts, TypeInv, IInv, [Next]_vars
  PROVE  IInv'
<1>1. CASE UNCHANGED vars
  BY <1>1 DEF vars, IInv, CacheFaithful, RunInv, During, Faithful
<1>2. CASE Edit
  BY <1>2, EditFaithful
<1>3. CASE \/ Commit \/ \E k \in Keys : Evict(k)
           \/ \E d \in Dirs, a \in Artifacts : RemoveOutput(d, a)
           \/ \E p \in Runners : Leave(p)
  BY <1>3, WorldFaithful
<1>4. ASSUME NEW p \in Runners, NEW c \in Configs, NEW d \in Dirs, NEW v \in Versions,
             NEW dry \in BOOLEAN, Start(p, c, d, v, dry)
      PROVE  IInv'
  BY <1>4, StartFaithful
<1>5. ASSUME NEW p \in Runners, HashKey(p) \/ Lookup(p) \/ ReadSources(p) \/ Save(p)
      PROVE  IInv'
  BY <1>5, HashKeyFaithful, LookupFaithful, ReadSourcesFaithful, SaveFaithful
<1>6. ASSUME NEW p \in Runners, NEW g \in BOOLEAN, FullHit(p, g) \/ Recompute(p, g)
      PROVE  IInv'
  BY <1>6, FullHitFaithful, RecomputeFaithful
<1>7. ASSUME NEW p \in Runners, ExportFails(p) \/ \E a \in Artifacts : WriteArtifact(p, a)
      PROVE  IInv'
  BY <1>7, ExportFaithful
<1>. QED BY <1>1, <1>2, <1>3, <1>4, <1>5, <1>6, <1>7 DEF Next

LEMMA AlwaysFaithful ==
  ASSUME ~Reverts
  PROVE  Spec => [](TypeInv /\ IInv)
<1>1. Init => TypeInv /\ IInv
  BY InitTyped, InitFaithful
<1>2. TypeInv /\ IInv /\ [Next]_vars => (TypeInv /\ IInv)'
  BY NextTyped, NextFaithful
<1>. QED BY <1>1, <1>2, PTL DEF Spec

(* As long as no edit restores an earlier version, the cache only holds    *)
(* what a clean run over the keyed sources would compute, for any number   *)
(* of runners that overlap in any way.                                     *)
THEOREM CacheIsFaithful ==
  ASSUME ~Reverts
  PROVE  Spec => []CacheFaithful
<1>1. TypeInv /\ IInv => CacheFaithful
  BY DEF IInv
<1>. QED BY <1>1, AlwaysFaithful, PTL

(* As long as no edit restores an earlier version, a run that nobody       *)
(* disturbed returns the analysis of the sources it was started on.        *)
THEOREM QuietRunsExact ==
  ASSUME ~Reverts
  PROVE  Spec => []QuietRunExact
<1>1. ASSUME IInv, NEW p \in Runners, run[p].pc = "done", ~run[p].edited, ~run[p].failed,
             run[p].dry => run[p].hit # None
      PROVE  /\ run[p].read = {run[p].digest}
             /\ run[p].hit # None => run[p].hit.result.config = run[p].config
  <2>1. RunInv(run[p])
    BY <1>1 DEF IInv
  <2>. QED BY <1>1, <2>1 DEF RunInv, Faithful
<1>2. TypeInv /\ IInv => QuietRunExact
  BY <1>1 DEF QuietRunExact
<1>. QED BY <1>2, AlwaysFaithful, PTL
=============================================================================
