----------------------------- MODULE CacheStore -----------------------------
(***************************************************************************)
(* The result cache (cogant/cache/store.py) at the grain of its system     *)
(* calls: processes that share a cache directory read, scan, write,        *)
(* invalidate and clear it, crash in between, while entries grow old and   *)
(* files go bad.                                                           *)
(***************************************************************************)
EXTENDS Integers, FiniteSets

CONSTANTS
  Procs,         \* processes that use the cache
  Keys,          \* cache keys; _path_for gives each a file of its own
  ShardOf,       \* the shard directory of each key
  ContractOf,    \* the parts of each key that are not the content hash
  Ops,           \* operations the processes call
  MaxOps,        \* bound on the calls
  Damage,        \* what a file that goes bad may hold: "garbage", "binary"
  None

ASSUME CacheAssumption ==
  /\ IsFiniteSet(Keys)
  /\ DOMAIN ShardOf = Keys /\ DOMAIN ContractOf = Keys
  /\ Ops \subseteq {"get", "get_latest", "put", "invalidate", "clear"}
  /\ MaxOps \in Nat
  /\ Damage \subseteq {"garbage", "binary"}

Shards == {ShardOf[k] : k \in Keys}

VARIABLES
  dirs,      \* shard directories that exist
  files,     \* content of each key's .json file, None if there is none
  temps,     \* .tmp files: their shard and the process that made them
  op,        \* the call each process is in or was in last
  calls      \* calls so far, as the clock of created_at

vars == <<dirs, files, temps, op, calls>>

(* An entry records its key, its created_at, and whether the ttl has run   *)
(* out.  Damaged content is what json.loads refuses ("garbage") or what    *)
(* read_text cannot decode ("binary").                                     *)
Entries == [key : Keys, stamp : 1..MaxOps, fresh : BOOLEAN]
Contents == [data : {"entry"}, entry : Entries] \cup [data : Damage]

ASSUME NoneAssumption == None \notin Procs /\ None \notin Entries /\ None \notin Contents

Usable(content) ==
  content # None /\ content.data = "entry" /\ content.entry.fresh

Idle == [pc |-> "idle"]
Resting == {"idle", "returned", "raised"}
Busy(p) == op[p].pc \notin Resting

Init ==
  /\ dirs = {}
  /\ files = [k \in Keys |-> None]
  /\ temps = {}
  /\ op = [p \in Procs |-> Idle]
  /\ calls = 0

-----------------------------------------------------------------------------
(* Calls.  disturbed, seen and stable are history: whether another process *)
(* or the world changed the directory during the call, what the key's file *)
(* held at some time during it, and the files that never changed.          *)

Begin(p, name, pc, k) ==
  /\ ~Busy(p) /\ name \in Ops /\ calls < MaxOps
  /\ calls' = calls + 1
  /\ op' = [op EXCEPT ![p] =
       [pc |-> pc, key |-> k, stamp |-> calls', left |-> dirs, found |-> {},
        shard |-> None, result |-> None, failed |-> FALSE, disturbed |-> FALSE, seen |-> {files[k]},
        stable |-> {j \in Keys : Usable(files[j])}]]
  /\ UNCHANGED <<dirs, files, temps>>

(* A step of p that changes the directory, as the other calls see it.      *)
Step(p, record) ==
  op' = [q \in Procs |->
           IF q = p THEN record
           ELSE IF ~Busy(q) THEN op[q]
           ELSE [op[q] EXCEPT !.disturbed = TRUE,
                              !.seen = @ \cup {files'[op[q].key]},
                              !.stable = {k \in @ : files'[k] = files[k]}]]

(* A step of p that only looks.                                            *)
Look(p, record) ==
  /\ op' = [op EXCEPT ![p] = record]
  /\ UNCHANGED <<dirs, files, temps, calls>>

At(p, pc) == op[p].pc = pc
Goto(p, pc) == [op[p] EXCEPT !.pc = pc]
Return(p, value) == [op[p] EXCEPT !.pc = "returned", !.result = value]
Raised(p) == Goto(p, "raised")
Failed(p) == [op[p] EXCEPT !.pc = "raised", !.failed = TRUE]
KeyOf(p) == op[p].key

-----------------------------------------------------------------------------
(* rglob: the shard directories are listed when it starts, the files of a  *)
(* shard when it comes to it.  A shard that is gone by then is skipped by  *)
(* some versions of the standard library and an error in others.           *)

Existing == {k \in Keys : files[k] # None}
Listed(p, s) == [op[p] EXCEPT !.left = @ \ {s}, !.found = {k \in Existing : ShardOf[k] = s}]

ListShard(p, s) ==
  /\ op[p].pc \in {"scan", "unlink_all"} /\ op[p].found = {} /\ s \in op[p].left
  /\ \/ Look(p, Listed(p, s))
     \/ s \notin dirs /\ Look(p, Raised(p))

Enumerated(p) == op[p].left = {} /\ op[p].found = {}

-----------------------------------------------------------------------------
(* get *)

GetCheck(p) ==
  /\ At(p, "check")
  /\ Look(p, IF files[KeyOf(p)] = None THEN Return(p, None) ELSE Goto(p, "read"))

(* Mutant: the ttl is not looked at.                                       *)
GetReadStale(p) ==
  LET content == files[KeyOf(p)] IN
  /\ At(p, "read")
  /\ Look(p, IF content # None /\ content.data = "binary" THEN Raised(p)
             ELSE Return(p, IF content # None /\ content.data = "entry" THEN content.entry
                            ELSE None))

(* A file that is gone, or not JSON, or old, is a miss; a decoding error   *)
(* of read_text is not among the exceptions this try names.                *)
GetRead(p) ==
  LET content == files[KeyOf(p)] IN
  /\ At(p, "read")
  /\ Look(p, IF content # None /\ content.data = "binary" THEN Raised(p)
             ELSE Return(p, IF Usable(content) THEN content.entry ELSE None))

(* Mutant: the first match is taken.                                       *)
ScanFileFirst(p, k) ==
  LET takes == /\ Usable(files[k]) /\ op[p].result = None
               /\ ContractOf[files[k].entry.key] = ContractOf[KeyOf(p)]
  IN
  /\ At(p, "scan") /\ k \in op[p].found
  /\ Look(p, [op[p] EXCEPT !.found = @ \ {k},
                           !.result = IF takes THEN files[k].entry ELSE @])

(* get_latest reads each file that rglob finds and skips what it cannot    *)
(* use, or read any more.                                                  *)
ScanFile(p, k) ==
  LET best == op[p].result
      takes == /\ Usable(files[k])
               /\ ContractOf[files[k].entry.key] = ContractOf[KeyOf(p)]
               /\ best = None \/ best.stamp < files[k].entry.stamp
  IN
  /\ At(p, "scan") /\ k \in op[p].found
  /\ Look(p, [op[p] EXCEPT !.found = @ \ {k},
                           !.result = IF takes THEN files[k].entry ELSE @])

ScanEnd(p) ==
  /\ At(p, "scan") /\ Enumerated(p)
  /\ Look(p, Goto(p, "returned"))

-----------------------------------------------------------------------------
(* put *)

Shard(p) == ShardOf[KeyOf(p)]
Temp(p) == [shard |-> Shard(p), owner |-> p]

PutMkdir(p) ==
  /\ At(p, "mkdir")
  /\ dirs' = dirs \cup {Shard(p)}
  /\ UNCHANGED <<files, temps, calls>>
  /\ Step(p, Goto(p, "mkstemp"))

(* Mutant: the entry is written in place.                                  *)
PutInPlace(p) ==
  /\ At(p, "mkstemp") /\ Shard(p) \in dirs
  /\ temps' = temps \cup {Temp(p)}
  /\ files' = [files EXCEPT ![KeyOf(p)] = [data |-> "torn"]]
  /\ UNCHANGED <<dirs, calls>>
  /\ Step(p, Goto(p, "replace"))

(* mkstemp, which raises if the shard directory is gone.                   *)
PutTemp(p) ==
  /\ At(p, "mkstemp")
  /\ IF Shard(p) \in dirs
     THEN /\ temps' = temps \cup {Temp(p)}
          /\ UNCHANGED <<dirs, files, calls>>
          /\ Step(p, Goto(p, "replace"))
     ELSE Look(p, Raised(p))

(* write, fsync, replace *)
PutReplace(p) ==
  /\ At(p, "replace")
  /\ temps' = temps \ {Temp(p)}
  /\ files' = [files EXCEPT ![KeyOf(p)] =
       [data |-> "entry",
        entry |-> [key |-> KeyOf(p), stamp |-> op[p].stamp, fresh |-> TRUE]]]
  /\ UNCHANGED <<dirs, calls>>
  /\ Step(p, Return(p, None))

(* Mutant: no clean-up.                                                    *)
PutFailLitters(p) ==
  /\ At(p, "replace")
  /\ UNCHANGED <<temps, dirs, files, calls>>
  /\ Step(p, Failed(p))

(* The disk is full, or the payload is no JSON: the temporary file goes.   *)
PutFail(p) ==
  /\ op[p].pc \in {"mkdir", "mkstemp", "replace"}
  /\ temps' = temps \ {Temp(p)}
  /\ UNCHANGED <<dirs, files, calls>>
  /\ Step(p, Failed(p))

-----------------------------------------------------------------------------
(* invalidate, clear *)

(* path.unlink(), which raises if the file is gone.                        *)
Unlink(p, k, record) ==
  IF files[k] = None THEN Look(p, Raised(p))
  ELSE /\ files' = [files EXCEPT ![k] = None]
       /\ UNCHANGED <<dirs, temps, calls>>
       /\ Step(p, record)

InvalidateCheck(p) ==
  /\ At(p, "is_file")
  /\ Look(p, Goto(p, IF files[KeyOf(p)] = None THEN "returned" ELSE "unlink"))

InvalidateUnlink(p) ==
  /\ At(p, "unlink")
  /\ Unlink(p, KeyOf(p), Goto(p, "returned"))

ClearUnlink(p, k) ==
  /\ At(p, "unlink_all") /\ k \in op[p].found
  /\ Unlink(p, k, [op[p] EXCEPT !.found = @ \ {k}])

ClearDirs(p) ==
  /\ At(p, "unlink_all") /\ Enumerated(p)
  /\ Look(p, [op[p] EXCEPT !.pc = "dirs", !.left = dirs])

Empty(s) == (\A k \in Existing : ShardOf[k] # s) /\ (\A t \in temps : t.shard # s)

(* Mutant: the directory is not checked for files.                         *)
ClearCheckAny(p, s) ==
  /\ At(p, "dirs") /\ s \in op[p].left
  /\ Look(p, IF s \in dirs
             THEN [op[p] EXCEPT !.pc = "rmdir", !.shard = s]
             ELSE [op[p] EXCEPT !.left = @ \ {s}])

(* child.is_dir() and not any(child.iterdir()), taken as one look.         *)
ClearCheck(p, s) ==
  /\ At(p, "dirs") /\ s \in op[p].left
  /\ Look(p, IF s \in dirs /\ Empty(s)
             THEN [op[p] EXCEPT !.pc = "rmdir", !.shard = s]
             ELSE [op[p] EXCEPT !.left = @ \ {s}])

(* rmdir, which raises unless the directory is there and empty.            *)
ClearRmdir(p) ==
  LET s == op[p].shard IN
  /\ At(p, "rmdir")
  /\ IF s \in dirs /\ Empty(s)
     THEN /\ dirs' = dirs \ {s}
          /\ UNCHANGED <<files, temps, calls>>
          /\ Step(p, [op[p] EXCEPT !.pc = "dirs", !.left = @ \ {s}])
     ELSE Look(p, Raised(p))

ClearEnd(p) ==
  /\ At(p, "dirs") /\ op[p].left = {}
  /\ Look(p, Goto(p, "returned"))

-----------------------------------------------------------------------------
(* The world *)

Crash(p) ==
  /\ Busy(p)
  /\ temps' = {IF t.owner = p THEN [t EXCEPT !.owner = None] ELSE t : t \in temps}
  /\ op' = [op EXCEPT ![p] = Idle]
  /\ UNCHANGED <<dirs, files, calls>>

Alter(k, content) ==
  /\ files' = [files EXCEPT ![k] = content]
  /\ Step(None, Idle)
  /\ UNCHANGED <<dirs, temps, calls>>

Expire(k) ==
  /\ Usable(files[k])
  /\ Alter(k, [files[k] EXCEPT !.entry.fresh = FALSE])

GoBad(k, d) == files[k] # None /\ Alter(k, [data |-> d])

Next ==
  \/ \E p \in Procs, k \in Keys :
       \/ Begin(p, "get", "check", k)
       \/ Begin(p, "get_latest", "scan", k)
       \/ Begin(p, "put", "mkdir", k)
       \/ Begin(p, "invalidate", "is_file", k)
       \/ Begin(p, "clear", "unlink_all", k)
       \/ ScanFile(p, k) \/ ClearUnlink(p, k)
  \/ \E p \in Procs :
       \/ GetCheck(p) \/ GetRead(p) \/ ScanEnd(p)
       \/ PutMkdir(p) \/ PutTemp(p) \/ PutReplace(p) \/ PutFail(p)
       \/ InvalidateCheck(p) \/ InvalidateUnlink(p)
       \/ ClearDirs(p) \/ ClearRmdir(p) \/ ClearEnd(p) \/ Crash(p)
       \/ \E s \in Shards : ListShard(p, s) \/ ClearCheck(p, s)
  \/ \E k \in Keys : Expire(k) \/ \E d \in Damage : GoBad(k, d)

Spec == Init /\ [][Next]_vars

-----------------------------------------------------------------------------
(* Properties *)

Calls ==
  [pc : {"check", "read", "scan", "mkdir", "mkstemp", "replace", "is_file", "unlink",
         "unlink_all", "dirs", "rmdir", "returned", "raised"},
   key : Keys, stamp : 1..MaxOps, left : SUBSET Shards, found : SUBSET Keys,
   shard : Shards \cup {None}, result : Entries \cup {None}, failed : BOOLEAN,
   disturbed : BOOLEAN,
   seen : SUBSET (Contents \cup {None}), stable : SUBSET Keys]

(* Every variable has its type. *)
TypeOK ==
  /\ dirs \subseteq Shards
  /\ files \in [Keys -> Contents \cup {None}]
  /\ temps \subseteq [shard : Shards, owner : Procs \cup {None}]
  /\ \A p \in Procs : op[p] = Idle \/ op[p] \in Calls
  /\ calls \in 0..MaxOps

(* get, between puts, removals, crashes and expiry in other processes,     *)
(* returns what its file held at some moment of the call, whole, valid     *)
(* then and written under this key; and it reports a miss only if at some  *)
(* moment the file was missing, damaged from outside, or too old.          *)
GetAnswers ==
  [][ \A p \in Procs :
        op[p].pc \in {"check", "read"} /\ op'[p].pc = "returned" =>
          LET result == op'[p].result IN
          IF result = None
          THEN \E content \in op[p].seen :
                 content = None \/ content.data \in Damage \/ ~content.entry.fresh
          ELSE /\ result.key = KeyOf(p)
               /\ \E content \in op[p].seen : Usable(content) /\ content.entry = result
    ]_vars

(* get_latest returns an entry of its own contract that is no older than   *)
(* any valid entry of the contract that was there all through the scan.    *)
LatestNotOlder ==
  \A p \in Procs : At(p, "scan") /\ Enumerated(p) =>
    LET best == op[p].result IN
    /\ best # None => ContractOf[best.key] = ContractOf[KeyOf(p)]
    /\ \A k \in op[p].stable :
         ContractOf[files[k].entry.key] = ContractOf[KeyOf(p)] =>
           best # None /\ files[k].entry.stamp <= best.stamp

(* A temporary file belongs to a put that is under way, or was left by a   *)
(* crash: no error path leaves one behind.                                 *)
TempsOwned ==
  \A t \in temps : t.owner # None => At(t.owner, "replace") /\ Temp(t.owner) = t

(* A call that nobody disturbs raises only if its own write fails: every   *)
(* FileNotFoundError or "directory not empty" is a race with another       *)
(* process.                                                                *)
UndisturbedSucceeds ==
  \A p \in Procs : At(p, "raised") => op[p].disturbed \/ op[p].failed
=============================================================================
