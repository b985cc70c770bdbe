-------------------------- MODULE CacheStore_proofs --------------------------
(***************************************************************************)
(* For any number of processes, keys, shards and calls: what the result    *)
(* cache promises its callers at the grain of system calls.                *)
(***************************************************************************)
EXTENDS CacheStore, TLAPS

-----------------------------------------------------------------------------
(* The inductive invariant *)

TypeInv == TypeOK /\ op \in [Procs -> Calls \cup {Idle}]

(* Files and temporary files live in shard directories that exist, a put   *)
(* that is about to replace has its temporary file, and an entry sits in   *)
(* the file of its own key.                                                *)
DirInv ==
  /\ \A k \in Keys : files[k] # None => ShardOf[k] \in dirs
  /\ \A t \in temps : t.shard \in dirs
  /\ \A p \in Procs : At(p, "replace") => Temp(p) \in temps
  /\ TempsOwned
  /\ \A k \in Keys : files[k] # None /\ files[k].data = "entry" => files[k].entry.key = k

(* A get has seen what its file holds now. *)
Reading(c) == c.pc \in {"check", "read"} => files[c.key] \in c.seen

(* Of the files that were valid all along, a scan has not listed, not read *)
(* or taken into account each.                                             *)
Scanning(c) ==
  c.pc = "scan" =>
    /\ \A k \in c.stable : Usable(files[k])
    /\ c.result # None => ContractOf[c.result.key] = ContractOf[c.key]
    /\ \A k \in c.stable :
         ContractOf[files[k].entry.key] = ContractOf[c.key] =>
           \/ ShardOf[k] \in c.left \/ k \in c.found
           \/ c.result # None /\ files[k].entry.stamp <= c.result.stamp

(* What a call has looked up still holds if nobody disturbed it. *)
Undisturbed(c) ==
  c.disturbed
  \/ /\ c.pc = "mkstemp" => ShardOf[c.key] \in dirs
     /\ c.pc = "unlink" => files[c.key] # None
     /\ c.pc \in {"scan", "unlink_all"} => c.left \subseteq dirs
     /\ c.pc = "unlink_all" => \A k \in c.found : files[k] # None
     /\ c.pc = "rmdir" => c.shard \in dirs /\ Empty(c.shard)
     /\ c.pc = "raised" => c.failed

CallInv(c) == c.pc # "idle" => Reading(c) /\ Scanning(c)
QuietInv(c) == c.pc # "idle" => Undisturbed(c)

AnswerInv == TypeInv /\ DirInv /\ \A p \in Procs : CallInv(op[p])
IInv == AnswerInv /\ \A p \in Procs : QuietInv(op[p])

-----------------------------------------------------------------------------
(* Calls and steps *)

LEMMA CallTyped ==
  ASSUME TypeInv, NEW p \in Procs
  PROVE  /\ op[p] \in Calls \cup {Idle}
         /\ op[p].pc # "idle" => op[p] \in Calls
         /\ op[p] \in Calls => op[p].pc # "idle"
<1>1. op[p] \in Calls \cup {Idle}
  BY DEF TypeInv
<1>2. Idle.pc = "idle"
  BY DEF Idle
<1>3. \A c \in Calls : c.pc # "idle"
  BY DEF Calls
<1>. QED BY <1>1, <1>2, <1>3

LEMMA FileTyped ==
  ASSUME TypeInv, NEW k \in Keys
  PROVE  /\ files[k] \in Contents \cup {None}
         /\ files[k] # None /\ files[k].data = "entry" => files[k].entry \in Entries
         /\ files[k] # None /\ files[k].data # "entry" => files[k].data \in Damage
<1>1. files[k] \in Contents \cup {None}
  BY DEF TypeInv, TypeOK
<1>2. \A c \in Contents : /\ c.data = "entry" => c.entry \in Entries
                          /\ c.data # "entry" => c.data \in Damage
  BY CacheAssumption DEF Contents
<1>. QED BY <1>1, <1>2

LEMMA LookStep ==
  ASSUME TypeInv, NEW p \in Procs, NEW r \in Calls \cup {Idle}, Look(p, r)
  PROVE  /\ TypeInv' /\ UNCHANGED <<dirs, files, temps, calls>>
         /\ op'[p] = r /\ \A q \in Procs \ {p} : op'[q] = op[q]
<1>1. op' = [op EXCEPT ![p] = r] /\ UNCHANGED <<dirs, files, temps, calls>>
  BY DEF Look
<1>2. op' \in [Procs -> Calls \cup {Idle}]
  BY <1>1 DEF TypeInv
<1>3. op'[p] = r /\ \A q \in Procs \ {p} : op'[q] = op[q]
  BY <1>1 DEF TypeInv
<1>4. \A q \in Procs : op'[q] = Idle \/ op'[q] \in Calls
  BY <1>2
<1>. QED BY <1>1, <1>2, <1>3, <1>4 DEF TypeInv, TypeOK

(* What a step of one process, or of the world, does to another's call.    *)
Shaken(c, d) ==
  /\ d = [c EXCEPT !.disturbed = TRUE, !.seen = c.seen \cup {files'[c.key]},
                   !.stable = {k \in c.stable : files'[k] = files[k]}]

LEMMA StepStep ==
  ASSUME TypeInv, NEW p \in Procs \cup {None}, NEW r \in Calls \cup {Idle}, Step(p, r),
         files' \in [Keys -> Contents \cup {None}]
  PROVE  /\ op' \in [Procs -> Calls \cup {Idle}]
         /\ \A q \in Procs : op'[q] = Idle \/ op'[q] \in Calls
         /\ p \in Procs => op'[p] = r
         /\ \A q \in Procs \ {p} : IF Busy(q) THEN Shaken(op[q], op'[q]) ELSE op'[q] = op[q]
<1>1. ASSUME NEW q \in Procs
      PROVE  /\ op'[q] \in Calls \cup {Idle}
             /\ q = p => op'[q] = r
             /\ q # p => IF Busy(q) THEN Shaken(op[q], op'[q]) ELSE op'[q] = op[q]
  <2>1. CASE q = p
    BY <2>1 DEF Step
  <2>2. CASE q # p /\ ~Busy(q)
    BY <2>2, CallTyped DEF Step
  <2>3. CASE q # p /\ Busy(q)
    <3>1. Shaken(op[q], op'[q])
      BY <2>3 DEF Step, Shaken
    <3>2. op[q] \in Calls
      BY <2>3, CallTyped DEF Busy, Resting
    <3>3. files'[op[q].key] \in Contents \cup {None}
      BY <3>2 DEF Calls
    <3>. DEFINE saw == op[q].seen \cup {files'[op[q].key]}
                kept == {k \in op[q].stable : files'[k] = files[k]}
    <3>4. saw \in SUBSET (Contents \cup {None}) /\ kept \in SUBSET Keys
      BY <3>2, <3>3 DEF Calls
    <3>5. op'[q] = [op[q] EXCEPT !.disturbed = TRUE, !.seen = saw, !.stable = kept]
      BY <3>1 DEF Shaken
    <3>. HIDE DEF saw, kept
    <3>6. op'[q] \in Calls
      BY <3>2, <3>4, <3>5 DEF Calls
    <3>. QED BY <2>3, <3>1, <3>6
  <2>. QED BY <2>1, <2>2, <2>3
<1>2. op' = [q \in Procs |-> op'[q]]
  BY DEF Step
<1>. QED BY <1>1, <1>2

-----------------------------------------------------------------------------
(* The calls of other processes survive every step *)

LEMMA OthersLook ==
  ASSUME TypeInv, NEW p \in Procs, NEW r \in Calls \cup {Idle}, Look(p, r),
         NEW q \in Procs \ {p}
  PROVE  /\ CallInv(op[q]) => CallInv(op[q])'
         /\ QuietInv(op[q]) => QuietInv(op[q])'
<1>1. op'[q] = op[q] /\ UNCHANGED <<dirs, files, temps, calls>>
  BY LookStep
<1>. QED BY <1>1 DEF CallInv, QuietInv, Reading, Scanning, Undisturbed, Empty, Existing

LEMMA OthersStep ==
  ASSUME TypeInv, NEW p \in Procs \cup {None}, NEW r \in Calls \cup {Idle}, Step(p, r),
         files' \in [Keys -> Contents \cup {None}], NEW q \in Procs \ {p}
  PROVE  /\ CallInv(op[q]) => CallInv(op[q])'
         /\ QuietInv(op[q]) => QuietInv(op[q])'
<1>1. CASE ~Busy(q)
  <2>1. op'[q] = op[q] /\ op[q].pc \in Resting
    BY <1>1, StepStep DEF Busy
  <2>. QED BY <2>1 DEF CallInv, QuietInv, Reading, Scanning, Undisturbed, Resting
<1>2. CASE Busy(q)
  <2>1. op[q] \in Calls /\ Shaken(op[q], op'[q])
    BY <1>2, StepStep, CallTyped DEF Busy, Resting
  <2>. DEFINE c == op[q]
              d == op'[q]
  <2>2. /\ d.disturbed /\ d.pc = c.pc /\ d.key = c.key /\ d.left = c.left /\ d.found = c.found
        /\ d.result = c.result /\ d.seen = c.seen \cup {files'[c.key]}
        /\ d.stable = {k \in c.stable : files'[k] = files[k]}
    BY <2>1 DEF Shaken, Calls
  <2>3. QuietInv(op[q])'
    BY <2>2 DEF QuietInv, Undisturbed
  <2>4. Reading(op[q])'
    BY <2>2 DEF Reading
  <2>5. ASSUME Scanning(c)
        PROVE  Scanning(op[q])'
    BY <2>2, <2>5 DEF Scanning
  <2>. QED BY <2>2, <2>3, <2>4, <2>5 DEF CallInv
<1>. QED BY <1>1, <1>2

-----------------------------------------------------------------------------
(* Steps that only look *)

LEMMA LookKeeps ==
  ASSUME AnswerInv, NEW p \in Procs, NEW r \in Calls, Look(p, r),
         op[p].pc # "replace", r.pc # "replace", CallInv(r)
  PROVE  /\ AnswerInv'
         /\ IInv /\ QuietInv(r) => IInv'
<1>1. TypeInv /\ DirInv /\ r \in Calls \cup {Idle}
  BY DEF AnswerInv
<1>2. /\ TypeInv' /\ UNCHANGED <<dirs, files, temps, calls>>
      /\ op'[p] = r /\ \A q \in Procs \ {p} : op'[q] = op[q]
  BY <1>1, LookStep
<1>3. DirInv'
  <2>1. ASSUME NEW q \in Procs
        PROVE  /\ At(q, "replace")' <=> At(q, "replace")
               /\ At(q, "replace") => Temp(q)' = Temp(q)
    <3>1. CASE q = p
      BY <1>2, <3>1 DEF At
    <3>2. CASE q # p
      BY <1>2, <3>2 DEF At, Temp, Shard, KeyOf
    <3>. QED BY <3>1, <3>2
  <2>2. TempsOwned'
    <3>1. ASSUME NEW t \in temps, t.owner # None
          PROVE  At(t.owner, "replace")' /\ Temp(t.owner)' = t
      <4>1. t.owner \in Procs
        BY <1>1, <3>1 DEF TypeInv, TypeOK
      <4>. QED BY <1>1, <2>1, <3>1, <4>1 DEF DirInv, TempsOwned
    <3>. QED BY <1>2, <3>1 DEF TempsOwned
  <2>3. \A q \in Procs : At(q, "replace")' => Temp(q)' \in temps'
    BY <1>1, <1>2, <2>1 DEF DirInv
  <2>. QED BY <1>1, <1>2, <2>2, <2>3 DEF DirInv
<1>4. CallInv(op[p])' /\ (QuietInv(r) => QuietInv(op[p])')
  BY <1>2 DEF CallInv, QuietInv, Reading, Scanning, Undisturbed, Empty, Existing
<1>5. \A q \in Procs \ {p} : /\ CallInv(op[q]) => CallInv(op[q])'
                             /\ QuietInv(op[q]) => QuietInv(op[q])'
  BY <1>1, OthersLook
<1>6. AnswerInv'
  BY <1>2, <1>3, <1>4, <1>5 DEF AnswerInv
<1>. QED BY <1>4, <1>5, <1>6 DEF IInv

LEMMA ListShardKeeps ==
  ASSUME AnswerInv, NEW p \in Procs, NEW s \in Shards, ListShard(p, s)
  PROVE  AnswerInv' /\ (IInv => IInv')
<1>1. op[p] \in Calls /\ op[p].pc \in {"scan", "unlink_all"} /\ op[p].found = {}
      /\ s \in op[p].left /\ CallInv(op[p])
  BY CallTyped DEF ListShard, AnswerInv
<1>2. CASE Look(p, Listed(p, s))
  <2>. DEFINE found == {k \in Existing : ShardOf[k] = s}
              left == op[p].left \ {s}
              r == [op[p] EXCEPT !.left = left, !.found = found]
  <2>1. found \in SUBSET Keys /\ left \in SUBSET Shards
    BY <1>1 DEF Existing, Calls
  <2>2. \A k \in Keys : k \in found <=> files[k] # None /\ ShardOf[k] = s
    BY DEF Existing
  <2>3. \A k \in Keys : Usable(files[k]) => files[k] # None
    BY DEF Usable
  <2>4. op[p].stable \subseteq Keys
    BY <1>1 DEF Calls
  <2>5. Look(p, r)
    BY <1>2 DEF Listed
  <2>. HIDE DEF found
  <2>6. r \in Calls /\ r.pc = op[p].pc
    BY <1>1, <2>1 DEF Calls
  <2>7. /\ r.key = op[p].key /\ r.stable = op[p].stable /\ r.result = op[p].result
        /\ r.left = left /\ r.found = found /\ r.disturbed = op[p].disturbed
    BY <1>1 DEF Calls
  <2>. HIDE DEF r
  <2>8. CallInv(r)
    BY <1>1, <2>2, <2>3, <2>4, <2>6, <2>7 DEF CallInv, Reading, Scanning
  <2>9. QuietInv(op[p]) => QuietInv(r)
    BY <1>1, <2>1, <2>2, <2>6, <2>7 DEF QuietInv, Undisturbed
  <2>10. AnswerInv' /\ (IInv /\ QuietInv(r) => IInv')
    BY <1>1, <2>5, <2>6, <2>8, LookKeeps
  <2>. QED BY <2>9, <2>10 DEF IInv
<1>3. CASE s \notin dirs /\ Look(p, Raised(p))
  <2>. DEFINE r == [op[p] EXCEPT !.pc = "raised"]
  <2>1. r \in Calls /\ r.pc = "raised" /\ r.disturbed = op[p].disturbed
    BY <1>1 DEF Calls
  <2>2. Look(p, r)
    BY <1>3 DEF Raised, Goto
  <2>. HIDE DEF r
  <2>3. CallInv(r)
    BY <2>1 DEF CallInv, Reading, Scanning
  <2>4. QuietInv(op[p]) => QuietInv(r)
    BY <1>1, <1>3, <2>1 DEF QuietInv, Undisturbed
  <2>5. AnswerInv' /\ (IInv /\ QuietInv(r) => IInv')
    BY <1>1, <2>1, <2>2, <2>3, LookKeeps
  <2>. QED BY <2>4, <2>5 DEF IInv
<1>. QED BY <1>2, <1>3 DEF ListShard

(* Every other look that leads to a state a scan is not in. *)
LEMMA GotoKeeps ==
  ASSUME AnswerInv, NEW p \in Procs, NEW r \in Calls, Look(p, r),
         op[p].pc # "replace",
         r.pc \in {"unlink", "dirs", "rmdir", "returned", "raised"}
  PROVE  AnswerInv' /\ (IInv /\ QuietInv(r) => IInv')
<1>1. CallInv(r)
  BY DEF CallInv, Reading, Scanning
<1>. QED BY <1>1, LookKeeps

LEMMA GetCheckKeeps ==
  ASSUME AnswerInv, NEW p \in Procs, GetCheck(p)
  PROVE  AnswerInv' /\ (IInv => IInv')
<1>1. op[p] \in Calls /\ op[p].pc = "check" /\ CallInv(op[p])
  BY CallTyped DEF GetCheck, At, AnswerInv
<1>2. CASE files[KeyOf(p)] = None
  <2>. DEFINE r == [op[p] EXCEPT !.pc = "returned", !.result = None]
  <2>1. r \in Calls /\ r.pc = "returned"
    BY <1>1 DEF Calls
  <2>2. Look(p, r)
    BY <1>2 DEF GetCheck, Return
  <2>. HIDE DEF r
  <2>3. QuietInv(r)
    BY <2>1 DEF QuietInv, Undisturbed
  <2>. QED BY <1>1, <2>1, <2>2, <2>3, GotoKeeps
<1>3. CASE files[KeyOf(p)] # None
  <2>. DEFINE r == [op[p] EXCEPT !.pc = "read"]
  <2>1. r \in Calls /\ r.pc = "read" /\ r.key = op[p].key /\ r.seen = op[p].seen
    BY <1>1 DEF Calls
  <2>2. Look(p, r)
    BY <1>3 DEF GetCheck, Goto
  <2>. HIDE DEF r
  <2>3. CallInv(r) /\ QuietInv(r)
    BY <1>1, <2>1 DEF CallInv, QuietInv, Reading, Scanning, Undisturbed
  <2>. QED BY <1>1, <2>1, <2>2, <2>3, LookKeeps
<1>. QED BY <1>2, <1>3

(* Reading raises only on content that cannot be decoded. *)
LEMMA GetReadKeeps ==
  ASSUME AnswerInv, NEW p \in Procs, GetRead(p)
  PROVE  AnswerInv' /\ ("binary" \notin Damage /\ IInv => IInv')
<1>. DEFINE content == files[KeyOf(p)]
            value == IF Usable(content) THEN content.entry ELSE None
<1>1. op[p] \in Calls /\ op[p].pc = "read" /\ KeyOf(p) \in Keys
  BY CallTyped DEF GetRead, At, AnswerInv, KeyOf, Calls
<1>2. value \in Entries \cup {None}
  BY <1>1, FileTyped DEF AnswerInv, Usable
<1>3. CASE content # None /\ content.data = "binary"
  <2>. DEFINE r == [op[p] EXCEPT !.pc = "raised"]
  <2>1. r \in Calls /\ r.pc = "raised"
    BY <1>1 DEF Calls
  <2>2. Look(p, r)
    BY <1>3 DEF GetRead, Raised, Goto
  <2>3. "binary" \in Damage
    BY <1>1, <1>3, FileTyped DEF AnswerInv
  <2>. HIDE DEF r
  <2>. QED BY <1>1, <2>1, <2>2, <2>3, GotoKeeps
<1>4. CASE ~(content # None /\ content.data = "binary")
  <2>. DEFINE r == [op[p] EXCEPT !.pc = "returned", !.result = value]
  <2>1. Look(p, r)
    BY <1>4 DEF GetRead, Return
  <2>. HIDE DEF value
  <2>2. r \in Calls /\ r.pc = "returned"
    BY <1>1, <1>2 DEF Calls
  <2>. HIDE DEF r
  <2>3. QuietInv(r)
    BY <2>2 DEF QuietInv, Undisturbed
  <2>. QED BY <1>1, <2>1, <2>2, <2>3, GotoKeeps
<1>. QED BY <1>3, <1>4

(* The file read is accounted for, and so is what was before. *)
LEMMA ScanFileKeeps ==
  ASSUME AnswerInv, NEW p \in Procs, NEW k \in Keys, ScanFile(p, k)
  PROVE  AnswerInv' /\ (IInv => IInv')
<1>. DEFINE best == op[p].result
            takes == /\ Usable(files[k])
                     /\ ContractOf[files[k].entry.key] = ContractOf[KeyOf(p)]
                     /\ best = None \/ best.stamp < files[k].entry.stamp
            result == IF takes THEN files[k].entry ELSE best
            r == [op[p] EXCEPT !.found = op[p].found \ {k}, !.result = result]
<1>1. /\ op[p] \in Calls /\ op[p].pc = "scan" /\ k \in op[p].found
      /\ CallInv(op[p]) /\ TypeInv
  BY CallTyped DEF ScanFile, At, AnswerInv
<1>2. Look(p, r)
  BY <1>1 DEF ScanFile
<1>3. best \in Entries \cup {None} /\ (takes => files[k].entry \in Entries)
  BY <1>1, FileTyped DEF Usable, Calls
<1>4. \A e \in Entries : e # None /\ e.stamp \in Int
  BY NoneAssumption, CacheAssumption DEF Entries
<1>5. result \in Entries \cup {None}
  BY <1>3
<1>. HIDE DEF result
<1>6. r \in Calls /\ r.pc = "scan" /\ r.key = op[p].key /\ r.stable = op[p].stable
      /\ r.result = result /\ r.left = op[p].left /\ r.found = op[p].found \ {k}
      /\ r.disturbed = op[p].disturbed
  BY <1>1, <1>5 DEF Calls
<1>. HIDE DEF r
<1>7. \A j \in op[p].stable : Usable(files[j]) /\ files[j].entry \in Entries
  <2>1. op[p].stable \subseteq Keys /\ \A j \in op[p].stable : Usable(files[j])
    BY <1>1 DEF CallInv, Scanning, Calls
  <2>. QED BY <1>1, <2>1, FileTyped DEF Usable
<1>8. best # None => result # None /\ best.stamp <= result.stamp
  BY <1>3, <1>4 DEF result
<1>9. k \in op[p].stable /\ ContractOf[files[k].entry.key] = ContractOf[op[p].key]
        => result # None /\ files[k].entry.stamp <= result.stamp
  <2>. SUFFICES ASSUME k \in op[p].stable,
                       ContractOf[files[k].entry.key] = ContractOf[op[p].key]
                PROVE  result # None /\ files[k].entry.stamp <= result.stamp
    OBVIOUS
  <2>1. Usable(files[k]) /\ files[k].entry \in Entries
    BY <1>7
  <2>2. CASE takes
    BY <1>4, <2>1, <2>2 DEF result
  <2>3. CASE ~takes
    <3>1. best # None /\ ~(best.stamp < files[k].entry.stamp)
      BY <2>1, <2>3 DEF KeyOf
    <3>. QED BY <1>3, <1>4, <2>1, <2>3, <3>1 DEF result
  <2>. QED BY <2>2, <2>3
<1>10. result # None => ContractOf[result.key] = ContractOf[op[p].key]
  BY <1>1 DEF result, KeyOf, CallInv, Scanning
<1>11. ASSUME NEW j \in op[p].stable, ContractOf[files[j].entry.key] = ContractOf[op[p].key]
       PROVE  \/ ShardOf[j] \in op[p].left \/ j \in op[p].found \ {k}
              \/ result # None /\ files[j].entry.stamp <= result.stamp
  <2>1. CASE j = k
    BY <1>9, <1>11, <2>1
  <2>2. CASE j # k /\ best # None /\ files[j].entry.stamp <= best.stamp
    <3>1. files[j].entry.stamp \in Int /\ best.stamp \in Int /\ result.stamp \in Int
      BY <1>3, <1>4, <1>5, <1>7, <1>8, <2>2
    <3>. QED BY <1>8, <2>2, <3>1
  <2>3. CASE j # k /\ ~(best # None /\ files[j].entry.stamp <= best.stamp)
    BY <1>1, <1>11, <2>3 DEF CallInv, Scanning
  <2>. QED BY <2>1, <2>2, <2>3
<1>12. CallInv(r)
  BY <1>6, <1>7, <1>10, <1>11 DEF CallInv, Reading, Scanning
<1>13. QuietInv(op[p]) => QuietInv(r)
  BY <1>1, <1>6 DEF QuietInv, Undisturbed
<1>14. AnswerInv' /\ (IInv /\ QuietInv(r) => IInv')
  BY <1>1, <1>2, <1>6, <1>12, LookKeeps
<1>. QED BY <1>13, <1>14 DEF IInv

LEMMA EndKeeps ==
  ASSUME AnswerInv, NEW p \in Procs, ScanEnd(p) \/ ClearEnd(p)
  PROVE  AnswerInv' /\ (IInv => IInv')
<1>. DEFINE r == [op[p] EXCEPT !.pc = "returned"]
<1>1. op[p] \in Calls /\ op[p].pc # "replace"
  BY CallTyped DEF ScanEnd, ClearEnd, At, AnswerInv
<1>2. r \in Calls /\ r.pc = "returned" /\ Look(p, r)
  BY <1>1 DEF Calls, ScanEnd, ClearEnd, Goto
<1>. HIDE DEF r
<1>3. QuietInv(r)
  BY <1>2 DEF QuietInv, Undisturbed
<1>. QED BY <1>1, <1>2, <1>3, GotoKeeps

LEMMA InvalidateCheckKeeps ==
  ASSUME AnswerInv, NEW p \in Procs, InvalidateCheck(p)
  PROVE  AnswerInv' /\ (IInv => IInv')
<1>. DEFINE pc == IF files[KeyOf(p)] = None THEN "returned" ELSE "unlink"
            r == [op[p] EXCEPT !.pc = pc]
<1>1. op[p] \in Calls /\ op[p].pc # "replace"
  BY CallTyped DEF InvalidateCheck, At, AnswerInv
<1>2. r \in Calls /\ r.pc = pc /\ r.key = op[p].key /\ Look(p, r)
  BY <1>1 DEF Calls, InvalidateCheck, Goto
<1>. HIDE DEF r
<1>3. QuietInv(r)
  BY <1>2 DEF QuietInv, Undisturbed, KeyOf
<1>. QED BY <1>1, <1>2, <1>3, GotoKeeps

LEMMA ClearLookKeeps ==
  ASSUME AnswerInv, NEW p \in Procs, ClearDirs(p) \/ \E s \in Shards : ClearCheck(p, s)
  PROVE  AnswerInv' /\ (IInv => IInv')
<1>1. op[p] \in Calls /\ op[p].pc # "replace" /\ dirs \in SUBSET Shards
  BY CallTyped DEF ClearDirs, ClearCheck, At, AnswerInv, TypeInv, TypeOK
<1>2. CASE ClearDirs(p)
  <2>. DEFINE r == [op[p] EXCEPT !.pc = "dirs", !.left = dirs]
  <2>1. r \in Calls /\ r.pc = "dirs" /\ Look(p, r)
    BY <1>1, <1>2 DEF Calls, ClearDirs
  <2>. HIDE DEF r
  <2>2. QuietInv(r)
    BY <2>1 DEF QuietInv, Undisturbed
  <2>. QED BY <1>1, <2>1, <2>2, GotoKeeps
<1>3. ASSUME NEW s \in Shards, ClearCheck(p, s), s \in dirs /\ Empty(s)
      PROVE  AnswerInv' /\ (IInv => IInv')
  <2>. DEFINE r == [op[p] EXCEPT !.pc = "rmdir", !.shard = s]
  <2>1. r \in Calls /\ r.pc = "rmdir" /\ r.shard = s /\ Look(p, r)
    BY <1>1, <1>3 DEF Calls, ClearCheck
  <2>. HIDE DEF r
  <2>2. QuietInv(r)
    BY <1>3, <2>1 DEF QuietInv, Undisturbed
  <2>. QED BY <1>1, <2>1, <2>2, GotoKeeps
<1>4. ASSUME NEW s \in Shards, ClearCheck(p, s), ~(s \in dirs /\ Empty(s))
      PROVE  AnswerInv' /\ (IInv => IInv')
  <2>. DEFINE left == op[p].left \ {s}
              r == [op[p] EXCEPT !.left = left]
  <2>1. op[p].pc = "dirs" /\ left \in SUBSET Shards
    BY <1>1, <1>4 DEF ClearCheck, At, Calls
  <2>2. Look(p, r)
    BY <1>4 DEF ClearCheck
  <2>. HIDE DEF left
  <2>3. r \in Calls /\ r.pc = "dirs"
    BY <1>1, <2>1 DEF Calls
  <2>. HIDE DEF r
  <2>4. QuietInv(r)
    BY <2>3 DEF QuietInv, Undisturbed
  <2>. QED BY <1>1, <2>2, <2>3, <2>4, GotoKeeps
<1>. QED BY <1>2, <1>3, <1>4

-----------------------------------------------------------------------------
(* Steps that change the directory *)

LEMMA StepKeeps ==
  ASSUME AnswerInv, NEW p \in Procs \cup {None}, NEW r \in Calls \cup {Idle}, Step(p, r),
         files' \in [Keys -> Contents \cup {None}], dirs' \subseteq Shards,
         temps' \subseteq [shard : Shards, owner : Procs \cup {None}], calls' = calls,
         DirInv', p \in Procs => CallInv(op[p])'
  PROVE  /\ AnswerInv'
         /\ IInv /\ (p \in Procs => QuietInv(op[p])') => IInv'
<1>1. TypeInv
  BY DEF AnswerInv
<1>2. TypeInv'
  BY <1>1, StepStep DEF TypeInv, TypeOK
<1>3. \A q \in Procs \ {p} : /\ CallInv(op[q]) => CallInv(op[q])'
                             /\ QuietInv(op[q]) => QuietInv(op[q])'
  BY <1>1, OthersStep
<1>4. AnswerInv'
  BY <1>2, <1>3 DEF AnswerInv
<1>. QED BY <1>3, <1>4 DEF IInv

(* The puts of other processes are where they were. *)
LEMMA OtherPuts ==
  ASSUME TypeInv, NEW p \in Procs \cup {None}, NEW r \in Calls \cup {Idle}, Step(p, r),
         files' \in [Keys -> Contents \cup {None}], NEW q \in Procs \ {p}
  PROVE  /\ At(q, "replace")' <=> At(q, "replace")
         /\ At(q, "replace") => Temp(q)' = Temp(q)
<1>1. CASE ~Busy(q)
  <2>1. op'[q] = op[q]
    BY <1>1, StepStep
  <2>. QED BY <2>1 DEF At, Temp, Shard, KeyOf
<1>2. CASE Busy(q)
  <2>1. op[q] \in Calls /\ Shaken(op[q], op'[q])
    BY <1>2, StepStep, CallTyped DEF Busy, Resting
  <2>2. op'[q].pc = op[q].pc /\ op'[q].key = op[q].key
    BY <2>1 DEF Shaken, Calls
  <2>. QED BY <2>2 DEF At, Temp, Shard, KeyOf
<1>. QED BY <1>1, <1>2

(* A process that is not about to replace leaves the others their files.   *)
LEMMA PutsKept ==
  ASSUME TypeInv, DirInv, NEW p \in Procs \cup {None}, NEW r \in Calls \cup {Idle}, Step(p, r),
         files' \in [Keys -> Contents \cup {None}],
         p \in Procs => ~At(p, "replace")' /\ temps' = temps \ {Temp(p)},
         p \notin Procs => temps' = temps
  PROVE  /\ TempsOwned'
         /\ \A q \in Procs : At(q, "replace")' => Temp(q)' \in temps'
<1>1. \A q \in Procs \ {p} : /\ At(q, "replace")' <=> At(q, "replace")
                             /\ At(q, "replace") => Temp(q)' = Temp(q)
  BY OtherPuts
<1>2. \A q \in Procs : Temp(q).owner = q /\ Temp(q)'.owner = q
  BY DEF Temp
<1>3. ASSUME NEW t \in temps', t.owner # None
      PROVE  At(t.owner, "replace")' /\ Temp(t.owner)' = t
  <2>1. t \in temps
    OBVIOUS
  <2>2. t.owner \in Procs /\ At(t.owner, "replace") /\ Temp(t.owner) = t
    BY <1>3, <2>1 DEF TypeInv, TypeOK, DirInv, TempsOwned
  <2>3. t.owner # p
    BY <2>1, <2>2
  <2>. QED BY <1>1, <2>2, <2>3
<1>4. ASSUME NEW q \in Procs, At(q, "replace")'
      PROVE  Temp(q)' \in temps'
  <2>1. CASE q = p
    BY <1>4, <2>1
  <2>2. CASE q # p
    <3>1. At(q, "replace") /\ Temp(q)' = Temp(q) /\ Temp(q) \in temps
      BY <1>1, <1>4, <2>2 DEF DirInv
    <3>2. p \in Procs => Temp(q) # Temp(p)
      BY <1>2, <2>2
    <3>. QED BY <3>1, <3>2
  <2>. QED BY <2>1, <2>2
<1>. QED BY <1>3, <1>4 DEF TempsOwned

LEMMA NoTemp ==
  ASSUME DirInv, NEW p \in Procs, ~At(p, "replace")
  PROVE  Temp(p) \notin temps
BY NoneAssumption DEF DirInv, TempsOwned, Temp

LEMMA PutMkdirKeeps ==
  ASSUME AnswerInv, NEW p \in Procs, PutMkdir(p)
  PROVE  AnswerInv' /\ (IInv => IInv')
<1>. DEFINE r == [op[p] EXCEPT !.pc = "mkstemp"]
<1>1. op[p] \in Calls /\ op[p].pc = "mkdir" /\ TypeInv /\ DirInv
  BY CallTyped DEF PutMkdir, At, AnswerInv
<1>2. r \in Calls /\ r.pc = "mkstemp" /\ r.key = op[p].key /\ Step(p, r)
  BY <1>1 DEF Calls, PutMkdir, Goto
<1>. HIDE DEF r
<1>3. files' \in [Keys -> Contents \cup {None}] /\ op[p].key \in Keys
  BY <1>1 DEF PutMkdir, TypeInv, TypeOK, Calls
<1>4. op'[p] = r
  BY <1>1, <1>2, <1>3, StepStep
<1>5. Shard(p) \in Shards
  BY <1>3 DEF Shard, KeyOf, Shards
<1>6. ~At(p, "replace")' /\ temps' = temps \ {Temp(p)}
  <2>1. Temp(p) \notin temps
    BY <1>1, NoTemp DEF At
  <2>. QED BY <1>2, <1>4, <2>1 DEF PutMkdir, At
<1>7. TempsOwned' /\ \A q \in Procs : At(q, "replace")' => Temp(q)' \in temps'
  BY <1>1, <1>2, <1>3, <1>6, PutsKept
<1>8. DirInv'
  BY <1>1, <1>7 DEF DirInv, PutMkdir
<1>9. CallInv(op[p])' /\ QuietInv(op[p])'
  BY <1>2, <1>4 DEF CallInv, QuietInv, Reading, Scanning, Undisturbed, PutMkdir, Shard, KeyOf
<1>. QED BY <1>1, <1>2, <1>3, <1>5, <1>8, <1>9, StepKeeps DEF PutMkdir, TypeInv, TypeOK

LEMMA PutTempKeeps ==
  ASSUME AnswerInv, NEW p \in Procs, PutTemp(p)
  PROVE  AnswerInv' /\ (IInv => IInv')
<1>1. op[p] \in Calls /\ op[p].pc = "mkstemp" /\ TypeInv /\ DirInv
  BY CallTyped DEF PutTemp, At, AnswerInv
<1>2. CASE Shard(p) \in dirs
  <2>. DEFINE r == [op[p] EXCEPT !.pc = "replace"]
  <2>1. r \in Calls /\ r.pc = "replace" /\ r.key = op[p].key /\ Step(p, r)
    BY <1>1, <1>2 DEF Calls, PutTemp, Goto
  <2>. HIDE DEF r
  <2>2. UNCHANGED <<dirs, files, calls>> /\ temps' = temps \cup {Temp(p)}
        /\ files' \in [Keys -> Contents \cup {None}]
    BY <1>1, <1>2 DEF PutTemp, TypeInv, TypeOK
  <2>3. op'[p] = r
    BY <1>1, <2>1, <2>2, StepStep
  <2>4. At(p, "replace")' /\ Temp(p)' = Temp(p) /\ Temp(p).owner = p
    BY <1>1, <2>1, <2>2, <2>3 DEF At, Temp, Shard, KeyOf
  <2>5. TempsOwned' /\ \A q \in Procs : At(q, "replace")' => Temp(q)' \in temps'
    <3>1. \A q \in Procs \ {p} : /\ At(q, "replace")' <=> At(q, "replace")
                                 /\ At(q, "replace") => Temp(q)' = Temp(q)
      BY <1>1, <2>1, <2>2, OtherPuts
    <3>2. \A q \in Procs : At(q, "replace")' => Temp(q)' \in temps'
      BY <1>1, <2>2, <2>4, <3>1 DEF DirInv
    <3>3. ASSUME NEW t \in temps, t.owner # None
          PROVE  At(t.owner, "replace")' /\ Temp(t.owner)' = t
      <4>1. t.owner \in Procs /\ At(t.owner, "replace") /\ Temp(t.owner) = t
        BY <1>1, <3>3 DEF TypeInv, TypeOK, DirInv, TempsOwned
      <4>2. t.owner # p
        BY <1>1, <4>1 DEF At
      <4>. QED BY <3>1, <4>1, <4>2
    <3>4. TempsOwned'
      BY <2>2, <2>4, <3>3 DEF TempsOwned
    <3>. QED BY <3>2, <3>4
  <2>6. DirInv'
    BY <1>1, <1>2, <2>2, <2>5 DEF DirInv, Temp
  <2>7. CallInv(op[p])' /\ QuietInv(op[p])'
    BY <2>1, <2>3 DEF CallInv, QuietInv, Reading, Scanning, Undisturbed
  <2>8. temps' \subseteq [shard : Shards, owner : Procs \cup {None}] /\ dirs' \subseteq Shards
    BY <1>1, <1>2, <2>2 DEF TypeInv, TypeOK, Temp
  <2>. QED BY <1>1, <2>1, <2>2, <2>6, <2>7, <2>8, StepKeeps
<1>3. CASE Shard(p) \notin dirs
  <2>. DEFINE r == [op[p] EXCEPT !.pc = "raised"]
  <2>1. r \in Calls /\ r.pc = "raised" /\ r.disturbed = op[p].disturbed /\ Look(p, r)
    BY <1>1, <1>3 DEF Calls, PutTemp, Raised, Goto
  <2>. HIDE DEF r
  <2>2. QuietInv(op[p]) => QuietInv(r)
    BY <1>1, <1>3, <2>1 DEF QuietInv, Undisturbed, Shard, KeyOf
  <2>3. AnswerInv' /\ (IInv /\ QuietInv(r) => IInv')
    BY <1>1, <2>1, GotoKeeps
  <2>. QED BY <2>2, <2>3 DEF IInv
<1>. QED BY <1>2, <1>3

(* The shard directory is still there: the temporary file is in it.        *)
LEMMA PutReplaceKeeps ==
  ASSUME AnswerInv, NEW p \in Procs, PutReplace(p)
  PROVE  AnswerInv' /\ (IInv => IInv')
<1>. DEFINE r == [op[p] EXCEPT !.pc = "returned", !.result = None]
            k == op[p].key
            e == [key |-> k, stamp |-> op[p].stamp, fresh |-> TRUE]
            content == [data |-> "entry", entry |-> e]
<1>1. op[p] \in Calls /\ op[p].pc = "replace" /\ TypeInv /\ DirInv /\ k \in Keys
  BY CallTyped DEF PutReplace, At, AnswerInv, Calls
<1>2. r \in Calls /\ r.pc = "returned" /\ Step(p, r)
  BY <1>1 DEF Calls, PutReplace, Return
<1>. HIDE DEF r
<1>3. /\ UNCHANGED <<dirs, calls>> /\ temps' = temps \ {Temp(p)}
      /\ files' = [files EXCEPT ![k] = content]
  BY DEF PutReplace, KeyOf
<1>4. e \in Entries /\ content \in Contents /\ content.data = "entry" /\ content.entry.key = k
  BY <1>1 DEF Calls, Entries, Contents
<1>. HIDE DEF content
<1>5. files' \in [Keys -> Contents \cup {None}]
  BY <1>1, <1>3, <1>4 DEF TypeInv, TypeOK
<1>6. op'[p] = r
  BY <1>1, <1>2, <1>5, StepStep
<1>7. ~At(p, "replace")'
  BY <1>2, <1>6 DEF At
<1>8. TempsOwned' /\ \A q \in Procs : At(q, "replace")' => Temp(q)' \in temps'
  BY <1>1, <1>2, <1>3, <1>5, <1>7, PutsKept
<1>9. ShardOf[k] \in dirs
  <2>1. Temp(p) \in temps
    BY <1>1 DEF DirInv, At
  <2>. QED BY <1>1, <2>1 DEF DirInv, Temp, Shard, KeyOf
<1>10. ASSUME NEW j \in Keys, files'[j] # None
       PROVE  ShardOf[j] \in dirs' /\ (files'[j].data = "entry" => files'[j].entry.key = j)
  <2>1. CASE j = k
    BY <1>1, <1>3, <1>4, <1>9, <2>1 DEF TypeInv, TypeOK
  <2>2. CASE j # k
    BY <1>1, <1>3, <1>10, <2>2 DEF TypeInv, TypeOK, DirInv
  <2>. QED BY <2>1, <2>2
<1>11. DirInv'
  BY <1>1, <1>3, <1>8, <1>10 DEF DirInv
<1>12. CallInv(op[p])' /\ QuietInv(op[p])'
  BY <1>2, <1>6 DEF CallInv, QuietInv, Reading, Scanning, Undisturbed
<1>13. temps' \subseteq [shard : Shards, owner : Procs \cup {None}] /\ dirs' \subseteq Shards
  BY <1>1, <1>3 DEF TypeInv, TypeOK
<1>. QED BY <1>1, <1>2, <1>3, <1>5, <1>11, <1>12, <1>13, StepKeeps

LEMMA PutFailKeeps ==
  ASSUME AnswerInv, NEW p \in Procs, PutFail(p)
  PROVE  AnswerInv' /\ (IInv => IInv')
<1>. DEFINE r == [op[p] EXCEPT !.pc = "raised", !.failed = TRUE]
<1>1. op[p] \in Calls /\ TypeInv /\ DirInv
  BY CallTyped DEF PutFail, AnswerInv
<1>2. r \in Calls /\ r.pc = "raised" /\ r.failed /\ Step(p, r)
  BY <1>1 DEF Calls, PutFail, Failed
<1>. HIDE DEF r
<1>3. UNCHANGED <<dirs, files, calls>> /\ temps' = temps \ {Temp(p)}
      /\ files' \in [Keys -> Contents \cup {None}] /\ dirs' \subseteq Shards
      /\ temps' \subseteq [shard : Shards, owner : Procs \cup {None}]
  BY <1>1 DEF PutFail, TypeInv, TypeOK
<1>4. op'[p] = r
  BY <1>1, <1>2, <1>3, StepStep
<1>5. ~At(p, "replace")'
  BY <1>2, <1>4 DEF At
<1>6. TempsOwned' /\ \A q \in Procs : At(q, "replace")' => Temp(q)' \in temps'
  BY <1>1, <1>2, <1>3, <1>5, PutsKept
<1>7. DirInv'
  BY <1>1, <1>3, <1>6 DEF DirInv
<1>8. CallInv(op[p])' /\ QuietInv(op[p])'
  BY <1>2, <1>4 DEF CallInv, QuietInv, Reading, Scanning, Undisturbed
<1>. QED BY <1>1, <1>2, <1>3, <1>7, <1>8, StepKeeps

(* A call that removes a file it has found. *)
LEMMA UnlinkKeeps ==
  ASSUME AnswerInv, NEW p \in Procs, NEW k \in Keys, NEW r \in Calls,
         op[p].pc \in {"unlink", "unlink_all"}, r.pc \in {"returned", "unlink_all"},
         IInv => \/ op[p].disturbed \/ files[k] # None,
         r.pc = "unlink_all" =>
           /\ op[p].pc = "unlink_all" /\ r.left = op[p].left /\ r.disturbed = op[p].disturbed
           /\ r.found = op[p].found \ {k},
         Unlink(p, k, r)
  PROVE  AnswerInv' /\ (IInv => IInv')
<1>1. op[p] \in Calls /\ TypeInv /\ DirInv
  BY CallTyped DEF AnswerInv
<1>2. CASE files[k] = None
  <2>. DEFINE s == [op[p] EXCEPT !.pc = "raised"]
  <2>1. s \in Calls /\ s.pc = "raised" /\ s.disturbed = op[p].disturbed /\ Look(p, s)
    BY <1>1, <1>2 DEF Calls, Unlink, Raised, Goto
  <2>. HIDE DEF s
  <2>2. IInv => QuietInv(s)
    BY <1>2, <2>1 DEF QuietInv, Undisturbed
  <2>. QED BY <1>1, <2>1, <2>2, GotoKeeps
<1>3. CASE files[k] # None
  <2>1. UNCHANGED <<dirs, temps, calls>> /\ files' = [files EXCEPT ![k] = None] /\ Step(p, r)
    BY <1>3 DEF Unlink
  <2>2. files' \in [Keys -> Contents \cup {None}] /\ dirs' \subseteq Shards
        /\ temps' \subseteq [shard : Shards, owner : Procs \cup {None}]
    BY <1>1, <2>1 DEF TypeInv, TypeOK
  <2>3. op'[p] = r
    BY <1>1, <2>1, <2>2, StepStep
  <2>4. ~At(p, "replace")' /\ temps' = temps \ {Temp(p)}
    BY <1>1, <2>1, <2>3, NoTemp DEF At
  <2>5. TempsOwned' /\ \A q \in Procs : At(q, "replace")' => Temp(q)' \in temps'
    BY <1>1, <2>1, <2>2, <2>4, PutsKept
  <2>6. \A j \in Keys : files'[j] = IF j = k THEN None ELSE files[j]
    BY <1>1, <2>1 DEF TypeInv, TypeOK
  <2>7. DirInv'
    BY <1>1, <2>1, <2>5, <2>6 DEF DirInv
  <2>8. CallInv(op[p])'
    BY <2>3 DEF CallInv, Reading, Scanning
  <2>9. QuietInv(op[p]) => QuietInv(op[p])'
    <3>1. op[p].found \subseteq Keys
      BY <1>1 DEF Calls
    <3>. QED BY <2>1, <2>3, <2>6, <3>1 DEF QuietInv, Undisturbed
  <2>10. AnswerInv' /\ (IInv /\ QuietInv(op[p])' => IInv')
    BY <1>1, <2>1, <2>2, <2>7, <2>8, StepKeeps
  <2>. QED BY <2>9, <2>10 DEF IInv
<1>. QED BY <1>2, <1>3

LEMMA InvalidateUnlinkKeeps ==
  ASSUME AnswerInv, NEW p \in Procs, InvalidateUnlink(p)
  PROVE  AnswerInv' /\ (IInv => IInv')
<1>. DEFINE r == [op[p] EXCEPT !.pc = "returned"]
<1>1. op[p] \in Calls /\ op[p].pc = "unlink" /\ KeyOf(p) \in Keys
  BY CallTyped DEF InvalidateUnlink, At, AnswerInv, KeyOf, Calls
<1>2. r \in Calls /\ r.pc = "returned" /\ Unlink(p, KeyOf(p), r)
  BY <1>1 DEF Calls, InvalidateUnlink, Goto
<1>. HIDE DEF r
<1>3. IInv => op[p].disturbed \/ files[KeyOf(p)] # None
  BY <1>1 DEF IInv, QuietInv, Undisturbed, KeyOf
<1>. QED BY <1>1, <1>2, <1>3, UnlinkKeeps

LEMMA ClearUnlinkKeeps ==
  ASSUME AnswerInv, NEW p \in Procs, NEW k \in Keys, ClearUnlink(p, k)
  PROVE  AnswerInv' /\ (IInv => IInv')
<1>. DEFINE found == op[p].found \ {k}
            r == [op[p] EXCEPT !.found = found]
<1>1. op[p] \in Calls /\ op[p].pc = "unlink_all" /\ k \in op[p].found
  BY CallTyped DEF ClearUnlink, At, AnswerInv
<1>2. Unlink(p, k, r)
  BY <1>1 DEF ClearUnlink
<1>3. found \in SUBSET Keys
  BY <1>1 DEF Calls
<1>. HIDE DEF found
<1>4. /\ r \in Calls /\ r.pc = "unlink_all" /\ r.left = op[p].left /\ r.found = found
      /\ r.disturbed = op[p].disturbed
  BY <1>1, <1>3 DEF Calls
<1>. HIDE DEF r
<1>5. IInv => op[p].disturbed \/ files[k] # None
  BY <1>1 DEF IInv, QuietInv, Undisturbed
<1>. QED BY <1>1, <1>2, <1>4, <1>5, UnlinkKeeps DEF found

(* Only an empty directory goes. *)
LEMMA ClearRmdirKeeps ==
  ASSUME AnswerInv, NEW p \in Procs, ClearRmdir(p)
  PROVE  AnswerInv' /\ (IInv => IInv')
<1>. DEFINE s == op[p].shard
<1>1. op[p] \in Calls /\ op[p].pc = "rmdir" /\ TypeInv /\ DirInv
  BY CallTyped DEF ClearRmdir, At, AnswerInv
<1>2. CASE s \in dirs /\ Empty(s)
  <2>. DEFINE left == op[p].left \ {s}
              r == [op[p] EXCEPT !.pc = "dirs", !.left = left]
  <2>1. UNCHANGED <<files, temps, calls>> /\ dirs' = dirs \ {s} /\ Step(p, r)
    BY <1>1, <1>2 DEF ClearRmdir
  <2>2. left \in SUBSET Shards
    BY <1>1 DEF Calls
  <2>. HIDE DEF left
  <2>3. r \in Calls /\ r.pc = "dirs"
    BY <1>1, <2>2 DEF Calls
  <2>. HIDE DEF r
  <2>4. files' \in [Keys -> Contents \cup {None}] /\ dirs' \subseteq Shards
        /\ temps' \subseteq [shard : Shards, owner : Procs \cup {None}]
    BY <1>1, <2>1 DEF TypeInv, TypeOK
  <2>5. op'[p] = r
    BY <1>1, <2>1, <2>3, <2>4, StepStep
  <2>6. ~At(p, "replace")' /\ temps' = temps \ {Temp(p)}
    BY <1>1, <2>1, <2>3, <2>5, NoTemp DEF At
  <2>7. TempsOwned' /\ \A q \in Procs : At(q, "replace")' => Temp(q)' \in temps'
    BY <1>1, <2>1, <2>3, <2>4, <2>6, PutsKept
  <2>8. \A k \in Keys : files[k] # None => ShardOf[k] # s
    BY <1>2 DEF Empty, Existing
  <2>9. \A t \in temps : t.shard # s
    BY <1>2 DEF Empty
  <2>10. DirInv'
    BY <1>1, <2>1, <2>7, <2>8, <2>9 DEF DirInv
  <2>11. CallInv(op[p])' /\ QuietInv(op[p])'
    BY <2>3, <2>5 DEF CallInv, QuietInv, Reading, Scanning, Undisturbed
  <2>. QED BY <1>1, <2>1, <2>3, <2>4, <2>10, <2>11, StepKeeps
<1>3. CASE ~(s \in dirs /\ Empty(s))
  <2>. DEFINE r == [op[p] EXCEPT !.pc = "raised"]
  <2>1. r \in Calls /\ r.pc = "raised" /\ r.disturbed = op[p].disturbed /\ Look(p, r)
    BY <1>1, <1>3 DEF Calls, ClearRmdir, Raised, Goto
  <2>. HIDE DEF r
  <2>2. QuietInv(op[p]) => QuietInv(r)
    BY <1>1, <1>3, <2>1 DEF QuietInv, Undisturbed
  <2>3. AnswerInv' /\ (IInv /\ QuietInv(r) => IInv')
    BY <1>1, <2>1, GotoKeeps
  <2>. QED BY <2>2, <2>3 DEF IInv
<1>. QED BY <1>2, <1>3

-----------------------------------------------------------------------------
(* Calls begin, processes crash, files change *)

LEMMA BeginKeeps ==
  ASSUME AnswerInv, NEW p \in Procs, NEW k \in Keys, NEW name,
         NEW pc \in {"check", "scan", "mkdir", "is_file", "unlink_all"}, Begin(p, name, pc, k)
  PROVE  AnswerInv' /\ (IInv => IInv')
<1>. DEFINE usable == {j \in Keys : Usable(files[j])}
            r == [pc |-> pc, key |-> k, stamp |-> calls + 1, left |-> dirs, found |-> {},
                  shard |-> None, result |-> None, failed |-> FALSE, disturbed |-> FALSE,
                  seen |-> {files[k]}, stable |-> usable]
<1>1. /\ TypeInv /\ DirInv /\ UNCHANGED <<dirs, files, temps>> /\ calls' = calls + 1
      /\ op' = [op EXCEPT ![p] = r] /\ calls < MaxOps /\ calls \in Nat /\ ~Busy(p)
  BY DEF AnswerInv, Begin, TypeInv, TypeOK
<1>2. calls + 1 \in 1 .. MaxOps /\ calls' \in 0 .. MaxOps
  BY <1>1, CacheAssumption
<1>3. usable \in SUBSET Keys /\ \A j \in usable : Usable(files[j])
  OBVIOUS
<1>4. {files[k]} \in SUBSET (Contents \cup {None}) /\ dirs \in SUBSET Shards
  BY <1>1 DEF TypeInv, TypeOK
<1>. HIDE DEF usable
<1>5. r \in Calls
  BY <1>2, <1>3, <1>4 DEF Calls
<1>6. /\ r.pc = pc /\ r.key = k /\ r.left = dirs /\ r.found = {} /\ r.result = None
      /\ r.seen = {files[k]} /\ r.stable = usable
  OBVIOUS
<1>. HIDE DEF r
<1>7. op'[p] = r /\ \A q \in Procs \ {p} : op'[q] = op[q]
  BY <1>1 DEF TypeInv
<1>8. op' \in [Procs -> Calls \cup {Idle}] /\ \A q \in Procs : op'[q] = Idle \/ op'[q] \in Calls
  <2>1. op' \in [Procs -> Calls \cup {Idle}]
    BY <1>1, <1>5 DEF TypeInv
  <2>. QED BY <2>1
<1>9. TypeInv'
  BY <1>1, <1>2, <1>8 DEF TypeInv, TypeOK
<1>10. ~At(p, "replace") /\ ~At(p, "replace")'
  BY <1>1, <1>6, <1>7 DEF At, Busy, Resting
<1>11. \A q \in Procs \ {p} : /\ At(q, "replace")' <=> At(q, "replace")
                              /\ Temp(q)' = Temp(q)
  BY <1>7 DEF At, Temp, Shard, KeyOf
<1>12. \A q \in Procs : At(q, "replace")' => Temp(q)' \in temps'
  BY <1>1, <1>10, <1>11 DEF DirInv
<1>13. TempsOwned'
  <2>1. ASSUME NEW t \in temps, t.owner # None
        PROVE  At(t.owner, "replace")' /\ Temp(t.owner)' = t
    <3>1. t.owner \in Procs /\ At(t.owner, "replace") /\ Temp(t.owner) = t
      BY <1>1, <2>1 DEF TypeInv, TypeOK, DirInv, TempsOwned
    <3>. QED BY <1>10, <1>11, <3>1
  <2>. QED BY <1>1, <2>1 DEF TempsOwned
<1>14. DirInv'
  BY <1>1, <1>12, <1>13 DEF DirInv
<1>15. CallInv(op[p])'
  <2>1. \A j \in usable : ShardOf[j] \in dirs
    BY <1>1, <1>3 DEF DirInv, Usable
  <2>. QED BY <1>1, <1>3, <1>6, <1>7, <2>1 DEF CallInv, Reading, Scanning
<1>16. QuietInv(op[p])'
  BY <1>1, <1>6, <1>7 DEF QuietInv, Undisturbed
<1>17. ASSUME NEW q \in Procs \ {p}
       PROVE  /\ CallInv(op[q]) => CallInv(op[q])'
              /\ QuietInv(op[q]) => QuietInv(op[q])'
  BY <1>1, <1>7 DEF CallInv, QuietInv, Reading, Scanning, Undisturbed, Empty, Existing
<1>18. AnswerInv'
  BY <1>9, <1>14, <1>15, <1>17 DEF AnswerInv
<1>. QED BY <1>16, <1>17, <1>18 DEF IInv

(* A crash leaves the temporary file of a put to nobody. *)
LEMMA CrashKeeps ==
  ASSUME AnswerInv, NEW p \in Procs, Crash(p)
  PROVE  AnswerInv' /\ (IInv => IInv')
<1>1. /\ TypeInv /\ DirInv /\ UNCHANGED <<dirs, files, calls>>
      /\ temps' = {IF t.owner = p THEN [t EXCEPT !.owner = None] ELSE t : t \in temps}
      /\ op' = [op EXCEPT ![p] = Idle]
  BY DEF AnswerInv, Crash
<1>2. op'[p] = Idle /\ \A q \in Procs \ {p} : op'[q] = op[q]
  BY <1>1 DEF TypeInv
<1>3. op' \in [Procs -> Calls \cup {Idle}] /\ \A q \in Procs : op'[q] = Idle \/ op'[q] \in Calls
  <2>1. op' \in [Procs -> Calls \cup {Idle}]
    BY <1>1 DEF TypeInv
  <2>. QED BY <2>1
<1>4. temps \subseteq [shard : Shards, owner : Procs \cup {None}]
  BY <1>1 DEF TypeInv, TypeOK
<1>5. \A t \in temps : t.owner # p => t \in temps'
  BY <1>1
<1>6. ASSUME NEW u \in temps'
      PROVE  /\ u \in [shard : Shards, owner : Procs \cup {None}]
             /\ \E t \in temps : t.shard = u.shard
             /\ u.owner # None => u \in temps /\ u.owner # p
  <2>1. PICK t \in temps : u = IF t.owner = p THEN [t EXCEPT !.owner = None] ELSE t
    BY <1>1
  <2>2. CASE t.owner = p
    BY <1>4, <2>1, <2>2
  <2>3. CASE t.owner # p
    BY <1>4, <2>1, <2>3
  <2>. QED BY <2>2, <2>3
<1>7. TypeInv'
  BY <1>1, <1>3, <1>6 DEF TypeInv, TypeOK
<1>8. \A q \in Procs \ {p} : /\ At(q, "replace")' <=> At(q, "replace")
                             /\ Temp(q)' = Temp(q)
  BY <1>2 DEF At, Temp, Shard, KeyOf
<1>9. ASSUME NEW q \in Procs, At(q, "replace")'
      PROVE  Temp(q)' \in temps'
  <2>1. q # p
    BY <1>2, <1>9 DEF At, Idle
  <2>2. Temp(q) \in temps /\ Temp(q).owner = q
    BY <1>1, <1>8, <1>9, <2>1 DEF DirInv, Temp
  <2>. QED BY <1>5, <1>8, <2>1, <2>2
<1>10. TempsOwned'
  <2>1. ASSUME NEW u \in temps', u.owner # None
        PROVE  At(u.owner, "replace")' /\ Temp(u.owner)' = u
    <3>1. u \in temps /\ u.owner \in Procs \ {p}
      BY <1>6, <2>1
    <3>2. At(u.owner, "replace") /\ Temp(u.owner) = u
      BY <1>1, <2>1, <3>1 DEF DirInv, TempsOwned
    <3>. QED BY <1>8, <3>1, <3>2
  <2>. QED BY <2>1 DEF TempsOwned
<1>11. DirInv'
  BY <1>1, <1>6, <1>9, <1>10 DEF DirInv
<1>12. CallInv(op[p])' /\ QuietInv(op[p])'
  BY <1>2 DEF CallInv, QuietInv, Idle
<1>13. \A s : Empty(s) => Empty(s)'
  BY <1>1, <1>6 DEF Empty, Existing
<1>14. ASSUME NEW q \in Procs \ {p}
       PROVE  /\ CallInv(op[q]) => CallInv(op[q])'
              /\ QuietInv(op[q]) => QuietInv(op[q])'
  BY <1>1, <1>2, <1>13 DEF CallInv, QuietInv, Reading, Scanning, Undisturbed
<1>15. AnswerInv'
  BY <1>7, <1>11, <1>12, <1>14 DEF AnswerInv
<1>. QED BY <1>12, <1>14, <1>15 DEF IInv

LEMMA WorldKeeps ==
  ASSUME AnswerInv, NEW k \in Keys, Expire(k) \/ \E d \in Damage : GoBad(k, d)
  PROVE  AnswerInv' /\ (IInv => IInv')
<1>1. TypeInv /\ DirInv
  BY DEF AnswerInv
<1>2. \E content \in Contents :
          /\ Alter(k, content) /\ files[k] # None
          /\ content.data = "entry" => content.entry.key = k
  <2>1. CASE Expire(k)
    <3>. DEFINE e == [files[k].entry EXCEPT !.fresh = FALSE]
                content == [files[k] EXCEPT !.entry = e]
    <3>1. files[k] # None /\ files[k].data = "entry" /\ files[k].entry.key = k
      BY <1>1, <2>1 DEF Expire, Usable, DirInv
    <3>2. files[k].entry \in Entries
      BY <1>1, <3>1, FileTyped
    <3>3. files[k] \in [data : {"entry"}, entry : Entries]
      <4>1. files[k] \in Contents
        BY <1>1, <3>1, FileTyped
      <4>2. files[k] \notin [data : Damage]
        BY <3>1, CacheAssumption
      <4>. QED BY <4>1, <4>2 DEF Contents
    <3>4. e \in Entries /\ e.key = k
      BY <3>1, <3>2 DEF Entries
    <3>5. Alter(k, content)
      BY <2>1 DEF Expire
    <3>. HIDE DEF e
    <3>6. content \in Contents /\ content.entry = e
      BY <3>3, <3>4 DEF Contents
    <3>. HIDE DEF content
    <3>. QED BY <3>1, <3>4, <3>5, <3>6
  <2>2. ASSUME NEW d \in Damage, GoBad(k, d)
        PROVE  \E content \in Contents :
          /\ Alter(k, content) /\ files[k] # None
          /\ content.data = "entry" => content.entry.key = k
    <3>. DEFINE content == [data |-> d]
    <3>1. content \in Contents /\ content.data # "entry"
      BY CacheAssumption DEF Contents
    <3>. QED BY <2>2, <3>1 DEF GoBad
  <2>. QED BY <2>1, <2>2
<1>3. PICK content \in Contents :
          /\ Alter(k, content) /\ files[k] # None
          /\ content.data = "entry" => content.entry.key = k
  BY <1>2
<1>4. /\ files' = [files EXCEPT ![k] = content] /\ Step(None, Idle)
      /\ UNCHANGED <<dirs, temps, calls>>
  BY <1>3 DEF Alter
<1>5. files' \in [Keys -> Contents \cup {None}] /\ dirs' \subseteq Shards
      /\ temps' \subseteq [shard : Shards, owner : Procs \cup {None}]
  BY <1>1, <1>4 DEF TypeInv, TypeOK
<1>6. TempsOwned' /\ \A q \in Procs : At(q, "replace")' => Temp(q)' \in temps'
  BY <1>1, <1>4, <1>5, PutsKept, NoneAssumption
<1>7. \A j \in Keys : files'[j] = IF j = k THEN content ELSE files[j]
  BY <1>1, <1>4 DEF TypeInv, TypeOK
<1>8. DirInv'
  BY <1>1, <1>3, <1>4, <1>6, <1>7 DEF DirInv
<1>. QED BY <1>4, <1>5, <1>8, StepKeeps, NoneAssumption

-----------------------------------------------------------------------------
(* Every step *)

LEMMA InitHolds == Init => IInv
<1>. SUFFICES ASSUME Init PROVE IInv
  OBVIOUS
<1>1. TypeInv
  BY CacheAssumption DEF Init, TypeInv, TypeOK
<1>2. \A p \in Procs : op[p].pc = "idle"
  BY DEF Init, Idle
<1>3. DirInv
  BY <1>2 DEF Init, DirInv, TempsOwned, At
<1>. QED BY <1>1, <1>2, <1>3 DEF IInv, AnswerInv, CallInv, QuietInv

LEMMA NextKeeps ==
  ASSUME AnswerInv, [Next]_vars
  PROVE  AnswerInv' /\ ("binary" \notin Damage /\ IInv => IInv')
<1>1. CASE UNCHANGED vars
  <2>1. AnswerInv'
    BY <1>1 DEF vars, AnswerInv, TypeInv, TypeOK, DirInv, TempsOwned, At, Temp, Shard, KeyOf,
                CallInv, Reading, Scanning
  <2>2. (\A p \in Procs : QuietInv(op[p])) => (\A p \in Procs : QuietInv(op[p]))'
    BY <1>1 DEF vars, QuietInv, Undisturbed, Empty, Existing
  <2>. QED BY <2>1, <2>2 DEF IInv
<1>2. ASSUME NEW p \in Procs, NEW k \in Keys,
             \/ Begin(p, "get", "check", k) \/ Begin(p, "get_latest", "scan", k)
             \/ Begin(p, "put", "mkdir", k) \/ Begin(p, "invalidate", "is_file", k)
             \/ Begin(p, "clear", "unlink_all", k)
      PROVE  AnswerInv' /\ (IInv => IInv')
  BY <1>2, BeginKeeps
<1>3. ASSUME NEW p \in Procs, NEW k \in Keys, ScanFile(p, k) \/ ClearUnlink(p, k)
      PROVE  AnswerInv' /\ (IInv => IInv')
  BY <1>3, ScanFileKeeps, ClearUnlinkKeeps
<1>4. ASSUME NEW p \in Procs, GetRead(p)
      PROVE  AnswerInv' /\ ("binary" \notin Damage /\ IInv => IInv')
  BY <1>4, GetReadKeeps
<1>5. ASSUME NEW p \in Procs, GetCheck(p) \/ ScanEnd(p) \/ ClearEnd(p)
      PROVE  AnswerInv' /\ (IInv => IInv')
  BY <1>5, GetCheckKeeps, EndKeeps
<1>6. ASSUME NEW p \in Procs, PutMkdir(p) \/ PutTemp(p) \/ PutReplace(p) \/ PutFail(p)
      PROVE  AnswerInv' /\ (IInv => IInv')
  BY <1>6, PutMkdirKeeps, PutTempKeeps, PutReplaceKeeps, PutFailKeeps
<1>7. ASSUME NEW p \in Procs, InvalidateCheck(p) \/ InvalidateUnlink(p)
      PROVE  AnswerInv' /\ (IInv => IInv')
  BY <1>7, InvalidateCheckKeeps, InvalidateUnlinkKeeps
<1>8. ASSUME NEW p \in Procs,
             \/ ClearDirs(p) \/ ClearRmdir(p) \/ Crash(p)
             \/ \E s \in Shards : ListShard(p, s) \/ ClearCheck(p, s)
      PROVE  AnswerInv' /\ (IInv => IInv')
  BY <1>8, ClearLookKeeps, ClearRmdirKeeps, CrashKeeps, ListShardKeeps
<1>9. ASSUME NEW k \in Keys, Expire(k) \/ \E d \in Damage : GoBad(k, d)
      PROVE  AnswerInv' /\ (IInv => IInv')
  BY <1>9, WorldKeeps
<1>. QED BY <1>1, <1>2, <1>3, <1>4, <1>5, <1>6, <1>7, <1>8, <1>9 DEF Next

LEMMA AlwaysAnswers == Spec => []AnswerInv
<1>1. Init => AnswerInv
  BY InitHolds DEF IInv
<1>. QED BY <1>1, NextKeeps, PTL DEF Spec

-----------------------------------------------------------------------------
(* What get answers *)

(* A step of q leaves every other call where it is. *)
LEMMA OthersStay ==
  ASSUME TypeInv, NEW q \in Procs \cup {None}, NEW r,
         op' = [op EXCEPT ![q] = r] \/ Step(q, r),
         NEW p \in Procs \ {q}
  PROVE  op'[p].pc = op[p].pc
<1>1. CASE op' = [op EXCEPT ![q] = r]
  BY <1>1 DEF TypeInv
<1>2. CASE Step(q, r) /\ ~Busy(p)
  BY <1>2 DEF Step
<1>3. CASE Step(q, r) /\ Busy(p)
  <2>1. op[p] \in Calls
    BY <1>3, CallTyped DEF Busy, Resting
  <2>2. op'[p] = [op[p] EXCEPT !.disturbed = TRUE,
                               !.seen = op[p].seen \cup {files'[op[p].key]},
                               !.stable = {k \in op[p].stable : files'[k] = files[k]}]
    BY <1>3 DEF Step
  <2>. QED BY <2>1, <2>2 DEF Calls
<1>. QED BY <1>1, <1>2, <1>3

(* Only its own two steps let a get return. *)
LEMMA OnlyGets ==
  ASSUME TypeInv, Next, NEW p \in Procs,
         op[p].pc \in {"check", "read"}, op'[p].pc = "returned"
  PROVE  GetCheck(p) \/ GetRead(p)
<1>1. op'[p].pc # op[p].pc
  OBVIOUS
<1>2. ASSUME NEW q \in Procs, NEW k \in Keys, NEW name, NEW pc, Begin(q, name, pc, k)
      PROVE  FALSE
  <2>1. CASE q = p
    BY <1>2, <2>1 DEF Begin, Busy, Resting
  <2>2. CASE q # p
    BY <1>1, <1>2, <2>2 DEF Begin, TypeInv
  <2>. QED BY <2>1, <2>2
<1>3. ASSUME NEW q \in Procs, NEW k \in Keys, ScanFile(q, k) \/ ClearUnlink(q, k)
      PROVE  FALSE
  <2>1. CASE q = p
    BY <1>3, <2>1 DEF ScanFile, ClearUnlink, At
  <2>2. CASE q # p /\ ScanFile(q, k)
    BY <1>1, <2>2, OthersStay DEF ScanFile, Look
  <2>3. CASE q # p /\ ClearUnlink(q, k)
    <3>1. \E r : op' = [op EXCEPT ![q] = r] \/ Step(q, r)
      BY <2>3 DEF ClearUnlink, Unlink, Look
    <3>. QED BY <1>1, <2>3, <3>1, OthersStay
  <2>. QED BY <1>3, <2>1, <2>2, <2>3
<1>4. ASSUME NEW q \in Procs \ {p}, GetCheck(q) \/ GetRead(q) \/ ScanEnd(q) \/ ClearEnd(q)
      PROVE  FALSE
  <2>1. \E r : op' = [op EXCEPT ![q] = r]
    BY <1>4 DEF GetCheck, GetRead, ScanEnd, ClearEnd, Look
  <2>. QED BY <1>1, <1>4, <2>1, OthersStay
<1>5. ASSUME NEW q \in Procs,
             \/ ScanEnd(q) \/ ClearEnd(q) \/ PutMkdir(q) \/ PutTemp(q) \/ PutReplace(q)
             \/ PutFail(q) \/ InvalidateCheck(q) \/ InvalidateUnlink(q)
             \/ ClearDirs(q) \/ ClearRmdir(q)
             \/ \E s \in Shards : ListShard(q, s) \/ ClearCheck(q, s)
      PROVE  q # p
  BY <1>5 DEF ScanEnd, ClearEnd, PutMkdir, PutTemp, PutReplace, PutFail, InvalidateCheck,
              InvalidateUnlink, ClearDirs, ClearRmdir, ListShard, ClearCheck, At
<1>6. ASSUME NEW q \in Procs \ {p},
             \/ PutMkdir(q) \/ PutTemp(q) \/ PutReplace(q) \/ PutFail(q)
             \/ InvalidateCheck(q) \/ InvalidateUnlink(q)
             \/ ClearDirs(q) \/ ClearRmdir(q)
             \/ \E s \in Shards : ListShard(q, s) \/ ClearCheck(q, s)
      PROVE  FALSE
  <2>1. CASE PutMkdir(q) \/ PutReplace(q) \/ PutFail(q)
    <3>1. \E r : Step(q, r)
      BY <2>1 DEF PutMkdir, PutReplace, PutFail
    <3>. QED BY <1>1, <3>1, OthersStay
  <2>2. CASE PutTemp(q) \/ InvalidateUnlink(q) \/ ClearRmdir(q)
    <3>1. \E r : op' = [op EXCEPT ![q] = r] \/ Step(q, r)
      BY <2>2 DEF PutTemp, InvalidateUnlink, ClearRmdir, Unlink, Look
    <3>. QED BY <1>1, <3>1, OthersStay
  <2>3. CASE InvalidateCheck(q) \/ ClearDirs(q)
    <3>1. \E r : op' = [op EXCEPT ![q] = r]
      BY <2>3 DEF InvalidateCheck, ClearDirs, Look
    <3>. QED BY <1>1, <3>1, OthersStay
  <2>4. CASE \E s \in Shards : ListShard(q, s) \/ ClearCheck(q, s)
    <3>1. \E r : op' = [op EXCEPT ![q] = r]
      BY <2>4 DEF ListShard, ClearCheck, Look
    <3>. QED BY <1>1, <3>1, OthersStay
  <2>. QED BY <1>6, <2>1, <2>2, <2>3, <2>4
<1>7. ASSUME NEW q \in Procs, Crash(q)
      PROVE  FALSE
  <2>1. op' = [op EXCEPT ![q] = Idle]
    BY <1>7 DEF Crash
  <2>. QED BY <1>1, <2>1 DEF TypeInv, Idle
<1>8. ASSUME NEW k \in Keys, Expire(k) \/ \E d \in Damage : GoBad(k, d)
      PROVE  FALSE
  <2>1. Step(None, Idle)
    BY <1>8 DEF Expire, GoBad, Alter
  <2>. QED BY <1>1, <2>1, OthersStay, NoneAssumption
<1>. QED BY <1>2, <1>3, <1>4, <1>5, <1>6, <1>7, <1>8 DEF Next

LEMMA GetStep ==
  ASSUME AnswerInv, NEW p \in Procs, op[p].pc \in {"check", "read"}, op'[p].pc = "returned",
         GetCheck(p) \/ GetRead(p)
  PROVE  LET result == op'[p].result IN
         IF result = None
         THEN \E content \in op[p].seen :
                content = None \/ content.data \in Damage \/ ~content.entry.fresh
         ELSE /\ result.key = KeyOf(p)
              /\ \E content \in op[p].seen : Usable(content) /\ content.entry = result
<1>. DEFINE content == files[KeyOf(p)]
<1>1. TypeInv /\ DirInv /\ op[p] \in Calls /\ KeyOf(p) \in Keys
  BY CallTyped DEF AnswerInv, KeyOf, Calls
<1>2. content \in op[p].seen
  <2>1. CallInv(op[p])
    BY DEF AnswerInv
  <2>. QED BY <2>1 DEF CallInv, Reading, KeyOf
<1>3. content # None => /\ content.data = "entry" => content.entry.key = KeyOf(p)
                        /\ content.data = "entry" => content.entry \in Entries
                        /\ content.data # "entry" => content.data \in Damage
  BY <1>1, FileTyped DEF DirInv
<1>4. CASE GetCheck(p)
  <2>1. content = None /\ op'[p].result = None
    <3>1. CASE content = None
      BY <1>1, <1>4, <3>1 DEF GetCheck, Look, Return, TypeInv, Calls
    <3>2. CASE content # None
      <4>1. op'[p] = [op[p] EXCEPT !.pc = "read"]
        BY <1>1, <1>4, <3>2 DEF GetCheck, Look, Goto, TypeInv
      <4>. QED BY <1>1, <4>1 DEF Calls
    <3>. QED BY <3>1, <3>2
  <2>. QED BY <1>2, <2>1
<1>5. CASE GetRead(p)
  <2>. DEFINE value == IF Usable(content) THEN content.entry ELSE None
  <2>1. op'[p].result = value
    <3>1. CASE content # None /\ content.data = "binary"
      <4>1. op'[p] = [op[p] EXCEPT !.pc = "raised"]
        BY <1>1, <1>5, <3>1 DEF GetRead, Look, Raised, Goto, TypeInv
      <4>. QED BY <1>1, <4>1 DEF Calls
    <3>2. CASE ~(content # None /\ content.data = "binary")
      <4>1. op'[p] = [op[p] EXCEPT !.pc = "returned", !.result = value]
        BY <1>1, <1>5, <3>2 DEF GetRead, Look, Return, TypeInv
      <4>. HIDE DEF value
      <4>. QED BY <1>1, <4>1 DEF Calls
    <3>. QED BY <3>1, <3>2
  <2>2. CASE Usable(content)
    <3>1. value = content.entry /\ value \in Entries /\ value # None /\ value.key = KeyOf(p)
      BY <1>3, <2>2, NoneAssumption DEF Usable
    <3>. QED BY <1>2, <2>1, <2>2, <3>1
  <2>3. CASE ~Usable(content)
    <3>1. content = None \/ content.data \in Damage \/ ~content.entry.fresh
      BY <1>3, <2>3 DEF Usable
    <3>. QED BY <1>2, <2>1, <2>3, <3>1
  <2>. QED BY <2>2, <2>3
<1>. QED BY <1>4, <1>5

-----------------------------------------------------------------------------
(* Results *)

(* Directories, files, temporary files and calls are what they should be.  *)
THEOREM TypeCorrect == Spec => []TypeOK
<1>1. AnswerInv => TypeOK
  BY DEF AnswerInv, TypeInv
<1>. QED BY <1>1, AlwaysAnswers, PTL

(* Every temporary file belongs to a put under way or to one that crashed: *)
(* concurrent clears and failing writes leave none behind.                 *)
THEOREM NoLitter == Spec => []TempsOwned
<1>1. AnswerInv => TempsOwned
  BY DEF AnswerInv, DirInv
<1>. QED BY <1>1, AlwaysAnswers, PTL

(* A scan that ends has found an entry of its contract at least as new as  *)
(* every valid one that was there all along, whatever is written, removed  *)
(* or expires meanwhile.                                                   *)
THEOREM LatestIsCurrent == Spec => []LatestNotOlder
<1>1. ASSUME AnswerInv, NEW p \in Procs, At(p, "scan"), Enumerated(p)
      PROVE  LET best == op[p].result IN
             /\ best # None => ContractOf[best.key] = ContractOf[KeyOf(p)]
             /\ \A k \in op[p].stable :
                  ContractOf[files[k].entry.key] = ContractOf[KeyOf(p)] =>
                    best # None /\ files[k].entry.stamp <= best.stamp
  <2>1. CallInv(op[p])
    BY <1>1 DEF AnswerInv
  <2>. QED BY <1>1, <2>1 DEF CallInv, Scanning, At, Enumerated, KeyOf
<1>2. AnswerInv => LatestNotOlder
  BY <1>1 DEF LatestNotOlder
<1>. QED BY <1>2, AlwaysAnswers, PTL

(* A get returns what the file held at a moment of the call, under its own *)
(* key and valid then, or misses for a reason that held at such a moment.  *)
THEOREM GetsAnswer == Spec => GetAnswers
<1>. DEFINE Answers ==
       \A p \in Procs :
         op[p].pc \in {"check", "read"} /\ op'[p].pc = "returned" =>
           LET result == op'[p].result IN
           IF result = None
           THEN \E content \in op[p].seen :
                  content = None \/ content.data \in Damage \/ ~content.entry.fresh
           ELSE /\ result.key = KeyOf(p)
                /\ \E content \in op[p].seen : Usable(content) /\ content.entry = result
<1>1. AnswerInv /\ Next => Answers
  <2>. SUFFICES ASSUME AnswerInv, Next, NEW p \in Procs,
                       op[p].pc \in {"check", "read"}, op'[p].pc = "returned"
                PROVE  LET result == op'[p].result IN
                       IF result = None
                       THEN \E content \in op[p].seen :
                              content = None \/ content.data \in Damage \/ ~content.entry.fresh
                       ELSE /\ result.key = KeyOf(p)
                            /\ \E content \in op[p].seen :
                                 Usable(content) /\ content.entry = result
    OBVIOUS
  <2>1. GetCheck(p) \/ GetRead(p)
    BY OnlyGets DEF AnswerInv
  <2>. QED BY <2>1, GetStep
<1>2. AnswerInv /\ [Next]_vars => [Answers]_vars
  BY <1>1
<1>. QED BY <1>2, AlwaysAnswers, PTL DEF Spec, GetAnswers

(* While no file holds what cannot be decoded, only a race or its own      *)
(* failing write makes a call raise.                                       *)
THEOREM UndisturbedCallsSucceed ==
  ASSUME "binary" \notin Damage
  PROVE  Spec => []UndisturbedSucceeds
<1>1. IInv /\ [Next]_vars => IInv'
  BY NextKeeps DEF IInv
<1>2. IInv => UndisturbedSucceeds
  BY DEF IInv, QuietInv, Undisturbed, UndisturbedSucceeds, At
<1>. QED BY <1>1, <1>2, InitHolds, PTL DEF Spec
=============================================================================
