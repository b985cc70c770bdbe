----------------------- MODULE ServerAdmission_proofs -----------------------
(***************************************************************************)
(* Proofs about the admission protocol of the HTTP service: its state is   *)
(* well typed, its concurrency slots are accounted for exactly, and its    *)
(* rate limiter keeps the sliding window.                                  *)
(***************************************************************************)
EXTENDS ServerAdmission, FiniteSetTheorems, SequenceTheorems,
        WellFoundedInduction, TLAPS

-----------------------------------------------------------------------------
(* Lemmas about the data *)

(* A set of naturals that is not empty has a least element.                *)
LEMMA LeastNatural ==
  ASSUME NEW S \in SUBSET Nat, S # {}
  PROVE  \E i \in S : \A j \in S : i <= j
<1>1. PICK i \in S : \A j \in S : <<j, i>> \notin OpToRel(<, Nat)
  BY WFMin, NatLessThanWellFounded
<1>2. \A j \in S : i <= j
  <2> TAKE j \in S
  <2>1. i \in Nat /\ j \in Nat
    OBVIOUS
  <2>2. j < i => <<j, i>> \in OpToRel(<, Nat)
    BY <2>1 DEF OpToRel
  <2>3. ~(j < i)
    BY <1>1, <2>2
  <2> QED
    BY <2>1, <2>3
<1> QED
  BY <1>2

(* The suffix of a sequence that starts at position f.                     *)
LEMMA SuffixProperties ==
  ASSUME NEW h \in Seq(Nat), NEW f \in 1..Len(h)
  PROVE  /\ SubSeq(h, f, Len(h)) \in Seq(Nat)
         /\ Len(SubSeq(h, f, Len(h))) = Len(h) - f + 1
         /\ \A i \in 1..Len(h) - f + 1 : SubSeq(h, f, Len(h))[i] = h[f + i - 1]
<1>1. \A i \in f..Len(h) : h[i] \in Nat
  OBVIOUS
<1> QED
  BY <1>1, SubSeqProperties

(* popleft leaves a suffix, shorter by d, that keeps every hit inside the  *)
(* window (check(), server/app.py:275-276).                                *)
LEMMA PrunedSuffix ==
  ASSUME NEW h \in Seq(Nat)
  PROVE  /\ Pruned(h) \in Seq(Nat)
         /\ \E d \in 0..Len(h) :
              /\ Len(Pruned(h)) = Len(h) - d
              /\ \A i \in DOMAIN h : h[i] >= now - Window =>
                   i - d \in DOMAIN Pruned(h) /\ Pruned(h)[i - d] = h[i]
<1> DEFINE fresh == {i \in DOMAIN h : h[i] >= now - Window}
<1>1. CASE fresh = {}
  <2>1. Pruned(h) = <<>> /\ Len(h) \in 0..Len(h)
    BY <1>1 DEF Pruned
  <2>2. \A i \in DOMAIN h : ~(h[i] >= now - Window)
    BY <1>1
  <2> QED
    BY <2>1, <2>2
<1>2. CASE fresh # {}
  <2>1. PICK f \in fresh : Pruned(h) = SubSeq(h, f, Len(h)) /\ \A j \in fresh : f <= j
    <3>1. \E i \in fresh : \A j \in fresh : i <= j
      <4>1. fresh \in SUBSET Nat
        OBVIOUS
      <4> HIDE DEF fresh
      <4> QED
        BY <1>2, <4>1, LeastNatural
    <3> QED
      BY <1>2, <3>1 DEF Pruned
  <2>2. f \in 1..Len(h) /\ f - 1 \in 0..Len(h)
    OBVIOUS
  <2>3. Pruned(h) \in Seq(Nat) /\ Len(Pruned(h)) = Len(h) - (f - 1)
    BY <2>1, <2>2, SuffixProperties
  <2>4. ASSUME NEW i \in DOMAIN h, h[i] >= now - Window
        PROVE  i - (f - 1) \in DOMAIN Pruned(h) /\ Pruned(h)[i - (f - 1)] = h[i]
    <3>1. i \in fresh
      BY <2>4
    <3>2. i \in f..Len(h) /\ i - (f - 1) \in 1..Len(h) - f + 1
      BY <2>1, <2>2, <3>1
    <3>3. SubSeq(h, f, Len(h))[i - (f - 1)] = h[f + (i - (f - 1)) - 1]
      BY <2>2, <3>2, SuffixProperties
    <3>4. f + (i - (f - 1)) - 1 = i
      BY <2>2
    <3> QED
      BY <2>1, <2>3, <3>2, <3>3, <3>4
  <2> QED
    BY <2>2, <2>3, <2>4
<1> QED
  BY <1>1, <1>2

(* A key without a deque has no hits; the others have natural ones.        *)
LEMMA HitsType ==
  ASSUME TypeOK, NEW k
  PROVE  Hits(k) \in Seq(Nat)
BY DEF TypeOK, Hits

(* Every path is counted under one of the metric labels.                   *)
LEMMA LabelType == \A p \in Paths : Label(p) \in Labels
BY DEF Label, Paths, Labels

(* Recording a response keeps the types of the metrics.                    *)
LEMMA MeterType ==
  ASSUME TypeOK, NEW p \in Paths, NEW s \in Statuses, Record(p, s)
  PROVE  /\ requests' \in [Labels \X Statuses -> Nat]
         /\ durationCount' \in [Labels -> Nat]
         /\ errors' \in [Labels -> Nat]
<1>1. Label(p) \in Labels
  BY LabelType
<1> QED
  BY <1>1 DEF TypeOK, Record

(* check() keeps the type of the hit history, whichever way it ends.       *)
LEMMA LimiterType ==
  ASSUME TypeOK, now' = now, NEW r \in Requests, NEW k \in Keys,
         \/ Charge(r, k)
         \/ Throttle(k) /\ UNCHANGED spentAt
         \/ UNCHANGED <<history, spentAt>>
  PROVE  /\ DOMAIN history' \subseteq Keys
         /\ \A j \in DOMAIN history' : history'[j] \in Seq(Nat)
         /\ spentAt' \in [Requests -> Nat \cup {None}]
<1>1. Pruned(Hits(k)) \in Seq(Nat)
  BY HitsType, PrunedSuffix
<1>2. now \in Nat
  BY DEF TypeOK
<1>3. Append(Pruned(Hits(k)), now) \in Seq(Nat)
  BY <1>1, <1>2
<1>4. ASSUME NEW hits \in Seq(Nat), SetHits(k, hits)
      PROVE  DOMAIN history' \subseteq Keys /\ \A j \in DOMAIN history' : history'[j] \in Seq(Nat)
  BY <1>4 DEF SetHits, TypeOK
<1>5. CASE Charge(r, k)
  <2>1. spentAt' = [spentAt EXCEPT ![r] = now]
    BY <1>5 DEF Charge
  <2>. QED BY <1>2, <1>3, <1>4, <1>5, <2>1 DEF Charge, TypeOK
<1>6. CASE Throttle(k) /\ UNCHANGED spentAt
  BY <1>1, <1>4, <1>6 DEF Throttle, TypeOK
<1>7. CASE UNCHANGED <<history, spentAt>>
  BY <1>7 DEF TypeOK
<1> QED
  BY <1>5, <1>6, <1>7

(* A request that has arrived belongs to a key of the limiter.             *)
LEMMA ArrivedType ==
  ASSUME TypeOK, Lifecycle, NEW r \in Requests, mw[r] # "idle"
  PROVE  /\ from[r] \in [client : Clients, path : Paths]
         /\ from[r].path \in Paths
         /\ <<from[r].client, from[r].path>> \in Keys
<1>1. from[r] \in [client : Clients, path : Paths]
  BY DEF TypeOK, Lifecycle
<1> QED
  BY <1>1 DEF Keys

(* The limiter's step keeps the types of what it changes.                  *)
LEMMA PassLimiterType ==
  ASSUME TypeOK, Lifecycle, NEW r \in Requests, mw[r] # "idle", now' = now,
         PassLimiter(r)
  PROVE  /\ DOMAIN history' \subseteq Keys
         /\ \A j \in DOMAIN history' : history'[j] \in Seq(Nat)
         /\ spentAt' \in [Requests -> Nat \cup {None}]
         /\ \A q \in Requests : q # r => spentAt'[q] = spentAt[q]
<1>1. \A q \in Requests : q # r => spentAt'[q] = spentAt[q]
  BY DEF PassLimiter, Charge, TypeOK
<1>2. <<from[r].client, from[r].path>> \in Keys
  BY ArrivedType
<1>3. \/ Charge(r, <<from[r].client, from[r].path>>)
      \/ UNCHANGED <<history, spentAt>>
  BY DEF PassLimiter
<1> QED
  BY <1>1, <1>2, <1>3, LimiterType

(* An answer keeps the types of what it changes.                           *)
LEMMA AnswerType ==
  ASSUME TypeOK, NEW r \in Requests, NEW p \in Paths, NEW s \in Statuses,
         Answer(r, p, s)
  PROVE  /\ mw' = [mw EXCEPT ![r] = "answered"]
         /\ status' = [status EXCEPT ![r] = s]
         /\ mw' \in [Requests -> {"idle", "reading", "waiting", "answered"}]
         /\ status' \in [Requests -> Statuses \cup {None}]
         /\ requests' \in [Labels \X Statuses -> Nat]
         /\ durationCount' \in [Labels -> Nat]
         /\ errors' \in [Labels -> Nat]
<1>1. /\ requests' \in [Labels \X Statuses -> Nat]
      /\ durationCount' \in [Labels -> Nat]
      /\ errors' \in [Labels -> Nat]
  BY MeterType DEF Answer
<1> QED
  BY <1>1 DEF Answer, TypeOK

-----------------------------------------------------------------------------
(* Type correctness *)

Typed == TypeOK /\ Lifecycle

(* A request that is past its headers and is answered now. *)
LEMMA LateAnswerType ==
  ASSUME Typed, NEW r \in Requests, mw[r] # "idle", NEW s \in Statuses,
         Answer(r, from[r].path, s)
  PROVE  /\ mw' = [mw EXCEPT ![r] = "answered"]
         /\ status' = [status EXCEPT ![r] = s]
         /\ mw' \in [Requests -> {"idle", "reading", "waiting", "answered"}]
         /\ status' \in [Requests -> Statuses \cup {None}]
         /\ requests' \in [Labels \X Statuses -> Nat]
         /\ durationCount' \in [Labels -> Nat]
         /\ errors' \in [Labels -> Nat]
<1> DEFINE p == from[r].path
<1>1. p \in Paths
  BY ArrivedType DEF Typed
<1>2. Answer(r, p, s) /\ TypeOK
  BY DEF Typed
<1> HIDE DEF p
<1> QED
  BY <1>1, <1>2, AnswerType

(* The service starts typed.                                               *)
LEMMA TypedInit == Init => Typed
<1> SUFFICES ASSUME Init PROVE Typed
  OBVIOUS
<1>1. Cardinality({}) = 0
  BY FS_EmptySet
<1>2. None \notin Nat
  BY AdmissionAssumption
<1> QED
  BY <1>1, <1>2, AdmissionAssumption DEF Init, Typed, TypeOK, Lifecycle

(* Every step keeps types and lifecycle: one case per action of Next.      *)
LEMMA TypedStep == Typed /\ [Next]_vars => Typed'
<1> SUFFICES ASSUME Typed, [Next]_vars PROVE Typed'
  OBVIOUS
<1> USE DEF Typed
<1> None \notin Nat /\ None \notin Statuses /\ None \notin [client : Clients, path : Paths]
  BY AdmissionAssumption
<1>1. ASSUME NEW r \in Requests, NEW c \in Clients, NEW p \in Paths, Arrive(r, c, p)
      PROVE  Typed'
  <2>1. [client |-> c, path |-> p] \in [client : Clients, path : Paths]
    OBVIOUS
  <2>2. CASE mw' = [mw EXCEPT ![r] = "reading"] /\ UNCHANGED <<status, meters>>
    <3>1. TypeOK'
      BY <1>1, <2>1, <2>2 DEF Arrive, TypeOK, gate, pool, meters
    <3>2. Lifecycle'
      BY <1>1, <2>1, <2>2 DEF Arrive, TypeOK, Lifecycle, pool
    <3> QED
      BY <3>1, <3>2
  <2>3. CASE \E s \in {400, 413} : Answer(r, p, s)
    <3>1. PICK s \in {400, 413} : Answer(r, p, s)
      BY <2>3
    <3>2. s \in Statuses
      BY <3>1 DEF Statuses
    <3>3. p \in Paths
      BY <1>1 DEF Paths
    <3>4. /\ mw' = [mw EXCEPT ![r] = "answered"]
          /\ status' = [status EXCEPT ![r] = s]
          /\ mw' \in [Requests -> {"idle", "reading", "waiting", "answered"}]
          /\ status' \in [Requests -> Statuses \cup {None}]
          /\ requests' \in [Labels \X Statuses -> Nat]
          /\ durationCount' \in [Labels -> Nat]
          /\ errors' \in [Labels -> Nat]
      BY <3>1, <3>2, <3>3, AnswerType
    <3>5. TypeOK'
      BY <1>1, <2>1, <3>4 DEF Arrive, TypeOK, gate, pool
    <3>6. Lifecycle'
      BY <1>1, <2>1, <3>2, <3>4 DEF Arrive, TypeOK, Lifecycle, pool
    <3> QED
      BY <3>5, <3>6
  <2> QED
    BY <1>1, <2>2, <2>3 DEF Arrive
<1>2. ASSUME NEW r \in Requests, BodyTooLarge(r) \/ Unauthorized(r)
      PROVE  Typed'
  <2>1. mw[r] = "reading"
    BY <1>2 DEF BodyTooLarge, Unauthorized
  <2>2. PICK s \in {401, 413} : Answer(r, from[r].path, s)
    BY <1>2 DEF BodyTooLarge, Unauthorized
  <2>3. s \in Statuses
    BY DEF Statuses
  <2>4. UNCHANGED <<rateLimited, now, hd, from, spentAt, startedAt, history, gate, pool>>
    BY <1>2 DEF BodyTooLarge, Unauthorized
  <2>5. /\ mw' = [mw EXCEPT ![r] = "answered"]
        /\ status' = [status EXCEPT ![r] = s]
        /\ mw' \in [Requests -> {"idle", "reading", "waiting", "answered"}]
        /\ status' \in [Requests -> Statuses \cup {None}]
        /\ requests' \in [Labels \X Statuses -> Nat]
        /\ durationCount' \in [Labels -> Nat]
        /\ errors' \in [Labels -> Nat]
    BY <2>1, <2>2, <2>3, LateAnswerType
  <2>6. TypeOK'
    BY <2>4, <2>5 DEF TypeOK, gate, pool
  <2>7. Lifecycle'
    BY <2>1, <2>3, <2>4, <2>5 DEF TypeOK, Lifecycle, pool
  <2> QED
    BY <2>6, <2>7
<1>3. ASSUME NEW r \in Requests, TooManyRequests(r)
      PROVE  Typed'
  <2>1. mw[r] = "reading" /\ Answer(r, from[r].path, 429)
    BY <1>3 DEF TooManyRequests
  <2>2. 429 \in Statuses
    BY DEF Statuses
  <2>3. /\ Label(from[r].path) \in Labels
        /\ <<from[r].client, from[r].path>> \in Keys
    BY <2>1, ArrivedType, LabelType
  <2>4. UNCHANGED <<now, hd, from, spentAt, startedAt, gate, pool>>
    BY <1>3 DEF TooManyRequests
  <2>5. /\ DOMAIN history' \subseteq Keys
        /\ \A j \in DOMAIN history' : history'[j] \in Seq(Nat)
    BY <1>3, <2>3, <2>4, LimiterType DEF TooManyRequests
  <2>6. rateLimited' \in [Labels -> Nat]
    BY <1>3, <2>3 DEF TooManyRequests, TypeOK
  <2>7. /\ mw' = [mw EXCEPT ![r] = "answered"]
        /\ status' = [status EXCEPT ![r] = 429]
        /\ mw' \in [Requests -> {"idle", "reading", "waiting", "answered"}]
        /\ status' \in [Requests -> Statuses \cup {None}]
        /\ requests' \in [Labels \X Statuses -> Nat]
        /\ durationCount' \in [Labels -> Nat]
        /\ errors' \in [Labels -> Nat]
    BY <2>1, <2>2, LateAnswerType
  <2>8. TypeOK'
    BY <2>4, <2>5, <2>6, <2>7 DEF TypeOK, gate, pool
  <2>9. Lifecycle'
    BY <2>1, <2>2, <2>4, <2>7 DEF TypeOK, Lifecycle, pool
  <2> QED
    BY <2>8, <2>9
<1>4. ASSUME NEW r \in Requests, Busy(r)
      PROVE  Typed'
  <2>1. mw[r] = "reading" /\ Answer(r, from[r].path, 503)
    BY <1>4 DEF Busy
  <2>2. 503 \in Statuses
    BY DEF Statuses
  <2>3. UNCHANGED <<rateLimited, now, hd, from, startedAt, gate, pool>>
    BY <1>4 DEF Busy
  <2>4. /\ DOMAIN history' \subseteq Keys
        /\ \A j \in DOMAIN history' : history'[j] \in Seq(Nat)
        /\ spentAt' \in [Requests -> Nat \cup {None}]
        /\ \A q \in Requests : q # r => spentAt'[q] = spentAt[q]
    BY <1>4, <2>1, <2>3, PassLimiterType DEF Busy
  <2>5. /\ mw' = [mw EXCEPT ![r] = "answered"]
        /\ status' = [status EXCEPT ![r] = 503]
        /\ mw' \in [Requests -> {"idle", "reading", "waiting", "answered"}]
        /\ status' \in [Requests -> Statuses \cup {None}]
        /\ requests' \in [Labels \X Statuses -> Nat]
        /\ durationCount' \in [Labels -> Nat]
        /\ errors' \in [Labels -> Nat]
    BY <2>1, <2>2, LateAnswerType
  <2>6. TypeOK'
    BY <2>3, <2>4, <2>5 DEF TypeOK, gate, pool
  <2>7. Lifecycle'
    BY <2>1, <2>2, <2>3, <2>4, <2>5 DEF TypeOK, Lifecycle, pool
  <2> QED
    BY <2>6, <2>7
<1>5. ASSUME NEW r \in Requests, Dispatch(r)
      PROVE  Typed'
  <2>1. mw[r] = "reading"
    BY <1>5 DEF Dispatch
  <2>2. /\ mw' = [mw EXCEPT ![r] = "waiting"]
        /\ hd' = [hd EXCEPT ![r] = "running"]
        /\ startedAt' = [startedAt EXCEPT ![r] = now]
        /\ UNCHANGED <<now, from, status, meters, pool>>
    BY <1>5 DEF Dispatch
  <2>3. /\ DOMAIN history' \subseteq Keys
        /\ \A j \in DOMAIN history' : history'[j] \in Seq(Nat)
        /\ spentAt' \in [Requests -> Nat \cup {None}]
        /\ \A q \in Requests : q # r => spentAt'[q] = spentAt[q]
    BY <1>5, <2>1, <2>2, PassLimiterType DEF Dispatch
  <2>4. sem' \in Nat /\ activeSessions' \in Int
    BY <1>5 DEF Dispatch, TypeOK, gate
  <2>5. TypeOK'
    BY <2>2, <2>3, <2>4 DEF TypeOK, meters, pool
  <2>6. Lifecycle'
    BY <2>1, <2>2, <2>3 DEF TypeOK, Lifecycle, pool
  <2> QED
    BY <2>5, <2>6
<1>6. ASSUME NEW r \in Requests, TimeOut(r) \/ \E s \in Statuses : Complete(r, s)
      PROVE  Typed'
  <2>1. mw[r] = "waiting" /\ Leave(r)
    BY <1>6 DEF TimeOut, Complete
  <2>2. PICK t \in Statuses : Answer(r, from[r].path, t)
    BY <1>6 DEF TimeOut, Complete, Statuses
  <2>3. UNCHANGED <<rateLimited, now, hd, from, spentAt, startedAt, history, pool>>
    BY <1>6 DEF TimeOut, Complete
  <2>4. sem' \in Nat /\ activeSessions' \in Int
    BY <2>1 DEF Leave, TypeOK, gate
  <2>5. /\ mw' = [mw EXCEPT ![r] = "answered"]
        /\ status' = [status EXCEPT ![r] = t]
        /\ mw' \in [Requests -> {"idle", "reading", "waiting", "answered"}]
        /\ status' \in [Requests -> Statuses \cup {None}]
        /\ requests' \in [Labels \X Statuses -> Nat]
        /\ durationCount' \in [Labels -> Nat]
        /\ errors' \in [Labels -> Nat]
    BY <2>1, <2>2, LateAnswerType
  <2>6. TypeOK'
    BY <2>3, <2>4, <2>5 DEF TypeOK, pool
  <2>7. Lifecycle'
    BY <2>1, <2>2, <2>3, <2>5 DEF TypeOK, Lifecycle, pool
  <2> QED
    BY <2>6, <2>7
<1>7. ASSUME NEW r \in Requests, Reply(r) \/ ToThread(r)
      PROVE  Typed'
  <2>1. hd[r] = "running" /\ hd' \in {[hd EXCEPT ![r] = "finished"], [hd EXCEPT ![r] = "pooled"]}
    BY <1>7 DEF Reply, ToThread
  <2>2. UNCHANGED <<Others, running>> /\ (queue' = queue \/ queue' = Append(queue, r))
    BY <1>7 DEF Reply, ToThread, pool
  <2>3. /\ queue' \in Seq(Requests)
        /\ \A i \in DOMAIN queue' : queue'[i] = r \/ \E j \in DOMAIN queue : queue'[i] = queue[j]
    <3>1. queue \in Seq(Requests)
      BY DEF TypeOK
    <3>2. CASE queue' = queue
      BY <3>1, <3>2
    <3>3. CASE queue' = Append(queue, r)
      <4>1. Append(queue, r) \in Seq(Requests) /\ DOMAIN Append(queue, r) = 1..Len(queue) + 1
        BY <3>1
      <4>2. \A i \in 1..Len(queue) + 1 : Append(queue, r)[i] = IF i = Len(queue) + 1 THEN r ELSE queue[i]
        BY <3>1
      <4> QED
        BY <3>1, <3>3, <4>1, <4>2
    <3> QED
      BY <2>2, <3>2, <3>3
  <2>4. UNCHANGED <<now, mw, from, status, spentAt, startedAt, history, sem, activeSessions,
                    requests, durationCount, errors, rateLimited, running>>
    BY <2>2 DEF Others, gate, meters
  <2>5. TypeOK'
    BY <2>1, <2>3, <2>4 DEF TypeOK
  <2>6. Lifecycle'
    BY <2>1, <2>3, <2>4 DEF TypeOK, Lifecycle
  <2> QED
    BY <2>5, <2>6
<1>8. CASE StartWork
  <2>1. Head(queue) \in Requests /\ Tail(queue) \in Seq(Requests)
    BY <1>8 DEF StartWork, TypeOK
  <2>2. IsFiniteSet(running) /\ Cardinality(running) \in Nat
    <3>1. running \in SUBSET Requests /\ IsFiniteSet(Requests)
      BY AdmissionAssumption DEF TypeOK
    <3>2. IsFiniteSet(running)
      BY <3>1, FS_Subset
    <3> QED
      BY <3>2, FS_CardinalityType
  <2>3. Cardinality(running') <= Workers
    <3>1. Cardinality(running \cup {Head(queue)}) <= Cardinality(running) + 1
      <4>1. Cardinality(running \cup {Head(queue)}) =
              IF Head(queue) \in running THEN Cardinality(running) ELSE Cardinality(running) + 1
        BY <2>2, FS_AddElement
      <4> QED
        BY <2>2, <4>1
    <3>2. running' = running \cup {Head(queue)} /\ Cardinality(running) < Workers
      BY <1>8 DEF StartWork
    <3>3. Cardinality(running \cup {Head(queue)}) \in Nat
      BY <2>2, FS_AddElement, FS_CardinalityType
    <3> QED
      BY <2>2, <3>1, <3>2, <3>3, AdmissionAssumption
  <2>4. UNCHANGED <<Others, hd>> /\ queue' = Tail(queue) /\ running' = running \cup {Head(queue)}
    BY <1>8 DEF StartWork
  <2>5. TypeOK'
    BY <2>1, <2>3, <2>4 DEF Others, gate, meters, TypeOK
  <2>6. /\ 1 \in DOMAIN queue /\ Head(queue) = queue[1]
        /\ \A i \in DOMAIN Tail(queue) : i + 1 \in DOMAIN queue /\ Tail(queue)[i] = queue[i + 1]
    BY <1>8 DEF StartWork, TypeOK
  <2>7. Lifecycle'
    BY <2>4, <2>6 DEF Others, Lifecycle
  <2> QED
    BY <2>5, <2>7
<1>9. ASSUME NEW r \in Requests, EndWork(r)
      PROVE  Typed'
  <2>1. IsFiniteSet(running) /\ Cardinality(running) \in Nat
    BY FS_Subset, FS_CardinalityType, AdmissionAssumption DEF TypeOK
  <2>2. /\ r \in running /\ running' = running \ {r}
        /\ hd' = [hd EXCEPT ![r] = "finished"]
        /\ UNCHANGED <<Others, queue>>
    BY <1>9 DEF EndWork
  <2>3. Cardinality(running') <= Workers
    <3>1. running \ {r} \in SUBSET running
      OBVIOUS
    <3>2. /\ Cardinality(running \ {r}) <= Cardinality(running)
          /\ Cardinality(running \ {r}) \in Nat
      BY <2>1, <3>1, FS_Subset, FS_CardinalityType
    <3>3. Cardinality(running) <= Workers
      BY DEF TypeOK
    <3> QED
      BY <2>1, <2>2, <3>2, <3>3, AdmissionAssumption
  <2>4. TypeOK'
    BY <2>2, <2>3 DEF Others, gate, meters, TypeOK
  <2>5. Lifecycle'
    BY <2>2 DEF Others, TypeOK, Lifecycle
  <2> QED
    BY <2>4, <2>5
<1>10. CASE Tick
  BY <1>10 DEF Tick, TypeOK, Lifecycle, gate, meters, pool
<1>11. CASE UNCHANGED vars
  BY <1>11 DEF vars, Others, TypeOK, Lifecycle, gate, meters, pool
<1> QED
  BY <1>1, <1>2, <1>3, <1>4, <1>5, <1>6, <1>7, <1>8, <1>9, <1>10, <1>11
     DEF Next, Middleware

(* Every reachable state of the service is well typed, and the middleware  *)
(* knows of each request what its stage implies, for any number of         *)
(* requests, threads and slots.                                            *)
THEOREM TypeCorrect == Spec => [](TypeOK /\ Lifecycle)
<1>1. Init => Typed
  BY TypedInit
<1>2. Typed /\ [Next]_vars => Typed'
  BY TypedStep
<1>3. Typed => TypeOK /\ Lifecycle
  BY DEF Typed
<1> QED
  BY <1>1, <1>2, <1>3, PTL DEF Spec

-----------------------------------------------------------------------------
(* Concurrency slots *)

(* The steps that neither acquire nor release the semaphore leave the set  *)
(* of requests inside alone.                                               *)
LEMMA InsideUnchanged ==
  ASSUME Typed, NEW r \in Requests,
         \/ \E c \in Clients, p \in Paths : Arrive(r, c, p)
         \/ BodyTooLarge(r) \/ Unauthorized(r) \/ TooManyRequests(r) \/ Busy(r)
  PROVE  Inside' = Inside /\ UNCHANGED gate
<1>1. /\ mw[r] \in {"idle", "reading"}
      /\ \E m \in {"reading", "answered"} : mw' = [mw EXCEPT ![r] = m]
      /\ \A q \in Requests : q # r => from'[q] = from[q]
      /\ UNCHANGED gate
  <2>1. CASE \E c \in Clients, p \in Paths : Arrive(r, c, p)
    BY <2>1 DEF Arrive, Answer, Typed, TypeOK
  <2>2. CASE BodyTooLarge(r) \/ Unauthorized(r) \/ TooManyRequests(r) \/ Busy(r)
    BY <2>2 DEF BodyTooLarge, Unauthorized, TooManyRequests, Busy, Answer
  <2> QED
    BY <2>1, <2>2
<1> QED
  BY <1>1 DEF Inside, Typed, TypeOK

(* Only finitely many requests are inside, so they can be counted.         *)
LEMMA InsideFinite ==
  IsFiniteSet(Inside) /\ Cardinality(Inside) \in Nat
<1>1. Inside \in SUBSET Requests
  BY DEF Inside
<1> QED
  BY <1>1, FS_Subset, FS_CardinalityType, AdmissionAssumption

(* A gated request that is dispatched comes inside, one that is answered   *)
(* goes out.                                                               *)
LEMMA InsideEnters ==
  ASSUME Typed, NEW r \in Requests, Dispatch(r)
  PROVE  /\ r \notin Inside
         /\ Inside' = IF Gated(from[r].path) THEN Inside \cup {r} ELSE Inside
<1>1. /\ mw[r] = "reading" /\ mw' = [mw EXCEPT ![r] = "waiting"]
      /\ UNCHANGED from
  BY DEF Dispatch
<1> QED
  BY <1>1 DEF Inside, Typed, TypeOK

(* A request that is answered goes out of the gate.                        *)
LEMMA InsideLeaves ==
  ASSUME Typed, NEW r \in Requests, TimeOut(r) \/ \E s \in Statuses : Complete(r, s)
  PROVE  /\ Gated(from[r].path) <=> r \in Inside
         /\ Inside' = Inside \ {r}
         /\ Leave(r)
<1>1. /\ mw[r] = "waiting" /\ mw' = [mw EXCEPT ![r] = "answered"]
      /\ UNCHANGED from /\ Leave(r)
  BY DEF TimeOut, Complete, Answer
<1> QED
  BY <1>1 DEF Inside, Typed, TypeOK

(* Every step keeps the semaphore and the gauge in line with Inside.       *)
LEMMA SlotStep ==
  ASSUME Typed, SlotAccounting, [Next]_vars
  PROVE  SlotAccounting'
<1> USE AdmissionAssumption
<1>1. ASSUME NEW r \in Requests,
             \/ \E c \in Clients, p \in Paths : Arrive(r, c, p)
             \/ BodyTooLarge(r) \/ Unauthorized(r) \/ TooManyRequests(r) \/ Busy(r)
      PROVE  SlotAccounting'
  BY <1>1, InsideUnchanged DEF SlotAccounting, gate
<1>2. ASSUME NEW r \in Requests, Dispatch(r)
      PROVE  SlotAccounting'
  <2>1. CASE Gated(from[r].path)
    <3>1. Inside' = Inside \cup {r} /\ r \notin Inside
      BY <1>2, <2>1, InsideEnters
    <3>2. Cardinality(Inside') = Cardinality(Inside) + 1
      BY <3>1, InsideFinite, FS_AddElement
    <3>3. sem' = sem - 1 /\ activeSessions' = activeSessions + 1
      BY <1>2, <2>1 DEF Dispatch
    <3> QED
      BY <3>2, <3>3, InsideFinite DEF SlotAccounting
  <2>2. CASE ~Gated(from[r].path)
    <3>1. Inside' = Inside /\ UNCHANGED gate
      BY <1>2, <2>2, InsideEnters DEF Dispatch
    <3> QED
      BY <3>1 DEF SlotAccounting, gate
  <2> QED
    BY <2>1, <2>2
<1>3. ASSUME NEW r \in Requests, TimeOut(r) \/ \E s \in Statuses : Complete(r, s)
      PROVE  SlotAccounting'
  <2>1. CASE Gated(from[r].path)
    <3>1. r \in Inside /\ Inside' = Inside \ {r} /\ Leave(r)
      BY <1>3, <2>1, InsideLeaves
    <3>2. Cardinality(Inside') = Cardinality(Inside) - 1
      BY <3>1, InsideFinite, FS_RemoveElement
    <3>3. sem' = sem + 1 /\ activeSessions' = activeSessions - 1
      BY <2>1, <3>1 DEF Leave
    <3> QED
      BY <3>2, <3>3, InsideFinite DEF SlotAccounting
  <2>2. CASE ~Gated(from[r].path)
    <3>1. r \notin Inside /\ Inside' = Inside \ {r} /\ Leave(r)
      BY <1>3, <2>2, InsideLeaves
    <3>2. Inside' = Inside /\ UNCHANGED gate
      BY <2>2, <3>1 DEF Leave
    <3> QED
      BY <3>2 DEF SlotAccounting, gate
  <2> QED
    BY <2>1, <2>2
<1>4. ASSUME NEW r \in Requests, Reply(r) \/ ToThread(r) \/ EndWork(r)
      PROVE  SlotAccounting'
  BY <1>4 DEF Reply, ToThread, EndWork, Others, SlotAccounting, Inside, gate
<1>5. CASE StartWork
  BY <1>5 DEF StartWork, Others, SlotAccounting, Inside, gate
<1>6. CASE Tick
  BY <1>6 DEF Tick, SlotAccounting, Inside, gate
<1>7. CASE UNCHANGED vars
  BY <1>7 DEF vars, Others, SlotAccounting, Inside, gate
<1> QED
  BY <1>1, <1>2, <1>3, <1>4, <1>5, <1>6, <1>7 DEF Next, Middleware

(* Whatever way requests end, and however many there are, the semaphore    *)
(* and the active_sessions gauge count exactly the requests between        *)
(* acquire and the finally clause: no slot is leaked or returned twice.    *)
THEOREM SlotsAccounted == Spec => []SlotAccounting
<1>1. Init => Typed /\ SlotAccounting
  <2> SUFFICES ASSUME Init PROVE SlotAccounting
    BY TypedInit
  <2>1. Inside = {}
    BY DEF Init, Inside
  <2>2. Cardinality(Inside) = 0
    BY <2>1, FS_EmptySet
  <2> QED
    BY <2>2, AdmissionAssumption DEF Init, SlotAccounting
<1>2. Typed /\ SlotAccounting /\ [Next]_vars => (Typed /\ SlotAccounting)'
  BY TypedStep, SlotStep
<1> QED
  BY <1>1, <1>2, PTL DEF Spec

-----------------------------------------------------------------------------
(* The sliding window *)

(* Every request that was charged inside the window still has a hit of its *)
(* own in the history of its key, and the history is no longer than the    *)
(* limit: this is why the length check suffices.                           *)
Recent(k) == ChargedSince(k, now - Window)

Matches(g, k) ==
  /\ g \in [Recent(k) -> DOMAIN Hits(k)]
  /\ \A a, b \in Recent(k) : g[a] = g[b] => a = b
  /\ \A a \in Recent(k) : Hits(k)[g[a]] = spentAt[a]

Covered(k) == Len(Hits(k)) <= MaxRequests /\ \E g : Matches(g, k)

HistoryCovers == \A k \in Keys : Covered(k)

(* SetHits changes the deque of one key only.                              *)
LEMMA SetHitsEffect ==
  ASSUME NEW k, NEW h, SetHits(k, h)
  PROVE  Hits(k)' = h /\ \A j : j # k => Hits(j)' = Hits(j)
BY DEF SetHits, Hits

(* A step that keeps the hits of a key and charges nobody for it.          *)
LEMMA CoveredFrame ==
  ASSUME NEW k \in Keys, Covered(k), Hits(k)' = Hits(k),
         Recent(k)' \subseteq Recent(k),
         \A a \in Recent(k)' : spentAt'[a] = spentAt[a]
  PROVE  Covered(k)'
<1>1. PICK g : Matches(g, k)
  BY DEF Covered
<1> PICK f : f = [a \in Recent(k)' |-> g[a]]
  OBVIOUS
<1>2. /\ f \in [Recent(k)' -> DOMAIN Hits(k)']
      /\ \A a, b \in Recent(k)' : f[a] = f[b] => a = b
      /\ \A a \in Recent(k)' : Hits(k)'[f[a]] = spentAt'[a]
  BY <1>1 DEF Matches
<1>3. Matches(f, k)'
  BY <1>2 DEF Matches
<1> QED
  BY <1>3 DEF Covered

(* The refusal of check() only drops hits that have left the window.       *)
LEMMA CoveredThrottle ==
  ASSUME Typed, NEW k \in Keys, Covered(k), Throttle(k),
         UNCHANGED <<now, from, spentAt>>
  PROVE  Covered(k)'
<1>1. PICK g : Matches(g, k)
  BY DEF Covered
<1> DEFINE h == Hits(k)
<1>2. h \in Seq(Nat)
  BY HitsType DEF Typed
<1>3. Hits(k)' = Pruned(h) /\ Recent(k)' = Recent(k)
  BY SetHitsEffect DEF Throttle, Recent, ChargedSince
<1>4. PICK d \in 0..Len(h) :
        /\ Len(Pruned(h)) = Len(h) - d
        /\ \A i \in DOMAIN h : h[i] >= now - Window =>
             i - d \in DOMAIN Pruned(h) /\ Pruned(h)[i - d] = h[i]
  BY <1>2, PrunedSuffix
<1> PICK f : f = [a \in Recent(k) |-> g[a] - d]
  OBVIOUS
<1>5. \A a \in Recent(k) : g[a] \in DOMAIN h /\ h[g[a]] = spentAt[a] /\ spentAt[a] >= now - Window
  BY <1>1 DEF Matches, Recent, ChargedSince
<1>6. \A a \in Recent(k) : f[a] \in DOMAIN Pruned(h) /\ Pruned(h)[f[a]] = spentAt[a]
  BY <1>4, <1>5
<1>7. \A a, b \in Recent(k) : f[a] = f[b] => a = b
  <2>1. DOMAIN h \subseteq Int /\ d \in Int
    BY <1>2
  <2> QED
    BY <1>1, <1>5, <2>1 DEF Matches
<1>8. Matches(f, k)'
  BY <1>3, <1>6, <1>7 DEF Matches
<1>9. Len(Hits(k)') <= MaxRequests
  BY <1>2, <1>3, <1>4, AdmissionAssumption DEF Covered
<1> QED
  BY <1>8, <1>9 DEF Covered

(* The request that check() lets pass gets the new last hit.               *)
LEMMA CoveredCharge ==
  ASSUME Typed, NEW k \in Keys, Covered(k), NEW r \in Requests, spentAt[r] = None,
         Charge(r, k), UNCHANGED <<now, from>>
  PROVE  Covered(k)'
<1>1. PICK g : Matches(g, k)
  BY DEF Covered
<1> DEFINE h == Hits(k)
           q == Pruned(h)
<1>2. h \in Seq(Nat) /\ now \in Nat
  BY HitsType DEF Typed, TypeOK
<1>3. q \in Seq(Nat)
  BY <1>2, PrunedSuffix
<1>4. PICK d \in 0..Len(h) :
        /\ Len(q) = Len(h) - d
        /\ \A i \in DOMAIN h : h[i] >= now - Window => i - d \in DOMAIN q /\ q[i - d] = h[i]
  BY <1>2, PrunedSuffix
<1> HIDE DEF q
<1>5. Hits(k)' = Append(q, now)
  BY SetHitsEffect DEF Charge, q
<1>6. /\ Recent(k)' \subseteq Recent(k) \cup {r} /\ r \notin Recent(k)
      /\ \A a \in Recent(k) : spentAt'[a] = spentAt[a]
      /\ spentAt'[r] = now
  BY DEF Charge, Recent, ChargedSince, Typed, TypeOK
<1>7. \A a \in Recent(k) : g[a] \in DOMAIN h /\ h[g[a]] = spentAt[a] /\ spentAt[a] >= now - Window
  BY <1>1 DEF Matches, Recent, ChargedSince
<1>8. \A a \in Recent(k) : g[a] - d \in 1..Len(q) /\ q[g[a] - d] = spentAt[a]
  BY <1>3, <1>4, <1>7
<1>9. /\ Append(q, now) \in Seq(Nat) /\ DOMAIN Append(q, now) = 1..Len(q) + 1
      /\ \A i \in 1..Len(q) : Append(q, now)[i] = q[i]
      /\ Append(q, now)[Len(q) + 1] = now
      /\ Len(Append(q, now)) = Len(q) + 1 /\ Len(q) \in Nat
  BY <1>2, <1>3
<1> PICK f : f = [a \in Recent(k)' |-> IF a = r THEN Len(q) + 1 ELSE g[a] - d]
  OBVIOUS
<1>10. \A a \in Recent(k)' : f[a] \in DOMAIN Hits(k)' /\ Hits(k)'[f[a]] = spentAt'[a]
  <2> TAKE a \in Recent(k)'
  <2>1. CASE a = r
    BY <1>5, <1>6, <1>9, <2>1
  <2>2. CASE a # r
    <3>1. a \in Recent(k) /\ f[a] = g[a] - d
      BY <1>6, <2>2
    <3>2. f[a] \in 1..Len(q) /\ q[f[a]] = spentAt[a] /\ spentAt'[a] = spentAt[a]
      BY <1>6, <1>8, <3>1
    <3> QED
      BY <1>5, <1>9, <3>2
  <2> QED
    BY <2>1, <2>2
<1>11. \A a, b \in Recent(k)' : f[a] = f[b] => a = b
  <2>1. DOMAIN h \subseteq Int /\ d \in Int
    BY <1>2
  <2>2. \A a \in Recent(k)' : a # r => a \in Recent(k)
    BY <1>6
  <2> TAKE a, b \in Recent(k)'
  <2>3. CASE a # r /\ b # r
    <3>1. a \in Recent(k) /\ b \in Recent(k) /\ f[a] = g[a] - d /\ f[b] = g[b] - d
      BY <2>2, <2>3
    <3>2. g[a] \in Int /\ g[b] \in Int
      BY <1>7, <2>1, <3>1
    <3> QED
      BY <1>1, <2>1, <3>1, <3>2 DEF Matches
  <2>4. ASSUME NEW x \in Recent(k)', x # r PROVE f[x] # Len(q) + 1
    <3>1. f[x] \in 1..Len(q)
      BY <1>8, <2>2, <2>4
    <3> QED
      BY <1>9, <3>1
  <2>5. a = r => f[a] = Len(q) + 1
    OBVIOUS
  <2>6. b = r => f[b] = Len(q) + 1
    OBVIOUS
  <2> QED
    BY <2>3, <2>4, <2>5, <2>6
<1>12. Matches(f, k)'
  BY <1>10, <1>11 DEF Matches
<1>13. Len(Hits(k)') <= MaxRequests
  <2>1. Len(q) < MaxRequests
    BY DEF Charge, Allows, q
  <2> QED
    BY <1>5, <1>9, <2>1, AdmissionAssumption
<1> QED
  BY <1>12, <1>13 DEF Covered

(* A charge of one key leaves the others as they are.                      *)
LEMMA CoveredOther ==
  ASSUME Typed, NEW r \in Requests, NEW k \in Keys, NEW j \in Keys, j # k,
         Covered(j), <<from[r].client, from[r].path>> = k, UNCHANGED <<now, from>>,
         Charge(r, k) \/ (Throttle(k) /\ UNCHANGED spentAt)
  PROVE  Covered(j)'
<1>1. Hits(j)' = Hits(j)
  BY SetHitsEffect DEF Charge, Throttle
<1>2. \A q \in Requests : q # r => spentAt'[q] = spentAt[q]
  BY DEF Charge, Typed, TypeOK
<1>3. Recent(j)' \subseteq Recent(j) /\ \A a \in Recent(j)' : spentAt'[a] = spentAt[a]
  BY <1>2 DEF Recent, ChargedSince
<1> QED
  BY <1>1, <1>3, CoveredFrame

(* A step that touches neither hits nor passes keeps the cover.            *)
LEMMA CoversIdle ==
  ASSUME HistoryCovers, UNCHANGED <<now, from, history, spentAt>>
  PROVE  HistoryCovers'
<1> SUFFICES ASSUME NEW j \in Keys PROVE Covered(j)'
  BY DEF HistoryCovers
<1>1. Recent(j)' \subseteq Recent(j) /\ \A a \in Recent(j)' : spentAt'[a] = spentAt[a]
  BY DEF Recent, ChargedSince
<1>2. Hits(j)' = Hits(j) /\ Covered(j)
  BY DEF Hits, HistoryCovers
<1> QED
  BY <1>1, <1>2, CoveredFrame

(* The limiter's step keeps the cover: pass, refusal, and no limiter.      *)
LEMMA CoversPass ==
  ASSUME Typed, HistoryCovers, NEW r \in Requests, mw[r] = "reading",
         PassLimiter(r), UNCHANGED <<now, from>>
  PROVE  HistoryCovers'
<1> PICK k : k = <<from[r].client, from[r].path>>
  OBVIOUS
<1>1. k \in Keys /\ spentAt[r] = None
  BY ArrivedType DEF Typed, Lifecycle
<1>2. CASE Charge(r, k)
  <2> SUFFICES ASSUME NEW j \in Keys PROVE Covered(j)'
    BY DEF HistoryCovers
  <2>1. Covered(j)
    BY DEF HistoryCovers
  <2>2. CASE j = k
    BY <1>1, <1>2, <2>1, <2>2, CoveredCharge
  <2>3. CASE j # k
    BY <1>1, <1>2, <2>1, <2>3, CoveredOther
  <2> QED
    BY <2>2, <2>3
<1>3. CASE UNCHANGED <<history, spentAt>>
  BY <1>3, CoversIdle
<1> QED
  BY <1>2, <1>3 DEF PassLimiter

(* Every step keeps the cover.                                             *)
LEMMA CoversStep ==
  ASSUME Typed, HistoryCovers, [Next]_vars
  PROVE  HistoryCovers'
<1>1. ASSUME NEW r \in Requests, NEW c \in Clients, NEW p \in Paths, Arrive(r, c, p)
      PROVE  HistoryCovers'
  <2> SUFFICES ASSUME NEW j \in Keys PROVE Covered(j)'
    BY DEF HistoryCovers
  <2>1. /\ mw[r] = "idle" /\ UNCHANGED <<now, history, spentAt>>
        /\ \A q \in Requests : q # r => from'[q] = from[q]
    BY <1>1 DEF Arrive, Typed, TypeOK
  <2>2. spentAt[r] = None
    BY <2>1 DEF Typed, Lifecycle
  <2>3. Recent(j)' \subseteq Recent(j) /\ \A a \in Recent(j)' : spentAt'[a] = spentAt[a]
    BY <2>1, <2>2 DEF Recent, ChargedSince
  <2>4. Hits(j)' = Hits(j) /\ Covered(j)
    BY <2>1 DEF Hits, HistoryCovers
  <2> QED
    BY <2>3, <2>4, CoveredFrame
<1>2. ASSUME NEW r \in Requests, TooManyRequests(r)
      PROVE  HistoryCovers'
  <2> PICK k : k = <<from[r].client, from[r].path>>
    OBVIOUS
  <2>1. Throttle(k) /\ UNCHANGED <<now, from, spentAt>> /\ mw[r] = "reading"
    BY <1>2 DEF TooManyRequests
  <2>2. k \in Keys
    BY <2>1, ArrivedType DEF Typed
  <2> SUFFICES ASSUME NEW j \in Keys PROVE Covered(j)'
    BY DEF HistoryCovers
  <2>3. Covered(j)
    BY DEF HistoryCovers
  <2>4. CASE j = k
    BY <2>1, <2>2, <2>3, <2>4, CoveredThrottle
  <2>5. CASE j # k
    BY <2>1, <2>2, <2>3, <2>5, CoveredOther
  <2> QED
    BY <2>4, <2>5
<1>3. ASSUME NEW r \in Requests, Busy(r) \/ Dispatch(r)
      PROVE  HistoryCovers'
  <2>1. mw[r] = "reading" /\ PassLimiter(r) /\ UNCHANGED <<now, from>>
    BY <1>3 DEF Busy, Dispatch
  <2> QED
    BY <2>1, CoversPass
<1>4. CASE Tick
  <2> SUFFICES ASSUME NEW j \in Keys PROVE Covered(j)'
    BY DEF HistoryCovers
  <2>1. now' = now + 1 /\ UNCHANGED <<from, history, spentAt>> /\ now \in Nat
    BY <1>4 DEF Tick, Typed, TypeOK
  <2>2. \A q \in Requests : spentAt[q] # None => spentAt[q] \in Nat
    BY DEF Typed, TypeOK
  <2>3. Recent(j)' \subseteq Recent(j) /\ \A a \in Recent(j)' : spentAt'[a] = spentAt[a]
    BY <2>1, <2>2, AdmissionAssumption DEF Recent, ChargedSince
  <2>4. Hits(j)' = Hits(j) /\ Covered(j)
    BY <2>1 DEF Hits, HistoryCovers
  <2> QED
    BY <2>3, <2>4, CoveredFrame
<1>5. ASSUME UNCHANGED <<now, from, history, spentAt>>
      PROVE  HistoryCovers'
  BY <1>5, CoversIdle
<1>6. ASSUME NEW r \in Requests,
             \/ BodyTooLarge(r) \/ Unauthorized(r) \/ TimeOut(r)
             \/ \E s \in Statuses : Complete(r, s)
             \/ Reply(r) \/ ToThread(r) \/ EndWork(r)
      PROVE  UNCHANGED <<now, from, history, spentAt>>
  BY <1>6 DEF BodyTooLarge, Unauthorized, TimeOut, Complete, Reply, ToThread, EndWork, Others
<1>7. CASE StartWork \/ UNCHANGED vars
  BY <1>5, <1>7 DEF StartWork, Others, vars
<1> QED
  BY <1>1, <1>2, <1>3, <1>4, <1>5, <1>6, <1>7 DEF Next, Middleware

(* As many requests as have a hit of their own is no more than the limit.  *)
LEMMA CoveredBound ==
  ASSUME Typed, NEW k \in Keys, Covered(k)
  PROVE  Cardinality(Recent(k)) <= MaxRequests
<1>1. PICK g : Matches(g, k)
  BY DEF Covered
<1>2. Hits(k) \in Seq(Nat) /\ Len(Hits(k)) \in Nat /\ DOMAIN Hits(k) = 1..Len(Hits(k))
  BY HitsType DEF Typed
<1>3. /\ IsFiniteSet(1..Len(Hits(k)))
      /\ Cardinality(1..Len(Hits(k))) = Len(Hits(k))
  <2>1. 1 \in Int /\ Len(Hits(k)) \in Int
    BY <1>2
  <2>2. /\ IsFiniteSet(1..Len(Hits(k)))
        /\ Cardinality(1..Len(Hits(k))) =
             IF 1 > Len(Hits(k)) THEN 0 ELSE Len(Hits(k)) - 1 + 1
    BY <2>1, FS_Interval
  <2> QED
    BY <1>2, <2>2
<1>4. g \in Injection(Recent(k), 1..Len(Hits(k)))
  BY <1>1, <1>2 DEF Matches, Injection, IsInjective
<1>5. /\ IsFiniteSet(Recent(k))
      /\ Cardinality(Recent(k)) <= Len(Hits(k))
  BY <1>3, <1>4, FS_Injection
<1>6. Cardinality(Recent(k)) \in Nat
  BY <1>5, FS_CardinalityType
<1> QED
  BY <1>2, <1>5, <1>6, AdmissionAssumption DEF Covered

(* The sliding window guarantee of the limiter, for every limit, window,   *)
(* number of clients and interleaving of their requests: no client gets    *)
(* more than MaxRequests requests to one path past check() in any stretch  *)
(* of Window time units.                                                   *)
THEOREM WindowKept == Spec => []WindowBound
<1>1. Init => Typed /\ HistoryCovers
  <2> SUFFICES ASSUME Init PROVE HistoryCovers
    BY TypedInit
  <2> SUFFICES ASSUME NEW k \in Keys PROVE Covered(k)
    BY DEF HistoryCovers
  <2>1. Hits(k) = <<>> /\ Recent(k) = {}
    BY DEF Init, Hits, Recent, ChargedSince
  <2>2. Matches(<<>>, k)
    BY <2>1 DEF Matches
  <2> QED
    BY <2>1, <2>2, AdmissionAssumption DEF Covered
<1>2. Typed /\ HistoryCovers /\ [Next]_vars => (Typed /\ HistoryCovers)'
  BY TypedStep, CoversStep
<1>3. Typed /\ HistoryCovers => WindowBound
  BY CoveredBound DEF HistoryCovers, WindowBound, Recent
<1> QED
  BY <1>1, <1>2, <1>3, PTL DEF Spec

-----------------------------------------------------------------------------
(* Answers *)

(* r, of path p, is answered s in this step, and metered. *)
Answering(r, p, s) ==
  /\ Answer(r, p, s)
  /\ mw[r] # "answered" /\ from'[r].path = p
  /\ \A q \in Requests \ {r} : from'[q] = from[q]
  /\ rateLimited' = IF s = 429 THEN [rateLimited EXCEPT ![Label(p)] = @ + 1] ELSE rateLimited

(* No request is answered in this step. *)
Silent ==
  /\ \A q \in Requests : /\ mw'[q] = "answered" <=> mw[q] = "answered"
                         /\ mw[q] = "answered" => from'[q] = from[q]
  /\ UNCHANGED <<status, meters, rateLimited>>

(* Every step answers one request or none. *)
LEMMA AnswerOrSilent ==
  ASSUME Typed, [Next]_vars
  PROVE  Silent \/ \E r \in Requests, p \in Paths, s \in Statuses : Answering(r, p, s)
<1>1. ASSUME NEW r \in Requests, NEW c \in Clients, NEW p \in Paths, Arrive(r, c, p)
      PROVE  Silent \/ \E s \in Statuses : Answering(r, p, s)
  <2>1. /\ mw[r] = "idle" /\ from'[r].path = p /\ rateLimited' = rateLimited
        /\ \A q \in Requests \ {r} : from'[q] = from[q]
    BY <1>1 DEF Arrive, Typed, TypeOK
  <2>2. ASSUME NEW s \in {400, 413}, Answer(r, p, s)
        PROVE  s \in Statuses /\ Answering(r, p, s)
    BY <2>1, <2>2 DEF Answering, Statuses
  <2>3. CASE mw' = [mw EXCEPT ![r] = "reading"] /\ UNCHANGED <<status, meters>>
    BY <2>1, <2>3 DEF Silent, Typed, TypeOK
  <2>. QED BY <1>1, <2>2, <2>3 DEF Arrive
<1>2. ASSUME NEW r \in Requests, NEW s \in Statuses, mw[r] \in {"reading", "waiting"},
             Answer(r, from[r].path, s), UNCHANGED from,
             rateLimited' = IF s = 429 THEN [rateLimited EXCEPT ![Label(from[r].path)] = @ + 1]
                            ELSE rateLimited
      PROVE  \E p \in Paths : Answering(r, p, s)
  <2>. DEFINE p == from[r].path
  <2>1. p \in Paths
    BY <1>2, ArrivedType DEF Typed
  <2>2. Answering(r, p, s)
    BY <1>2 DEF Answering
  <2>. QED BY <2>1, <2>2
<1>3. ASSUME NEW r \in Requests, BodyTooLarge(r) \/ Unauthorized(r)
      PROVE  \E p \in Paths, s \in Statuses : Answering(r, p, s)
  <2>1. PICK s \in {401, 413} : Answer(r, from[r].path, s)
    BY <1>3 DEF BodyTooLarge, Unauthorized
  <2>2. s \in Statuses /\ s # 429
    BY <2>1 DEF Statuses
  <2>3. mw[r] = "reading" /\ UNCHANGED <<rateLimited, from>>
    BY <1>3 DEF BodyTooLarge, Unauthorized
  <2>. QED BY <1>2, <2>1, <2>2, <2>3
<1>4. ASSUME NEW r \in Requests, TooManyRequests(r)
      PROVE  \E p \in Paths, s \in Statuses : Answering(r, p, s)
  <2>1. 429 \in Statuses
    BY DEF Statuses
  <2>. QED BY <1>2, <1>4, <2>1 DEF TooManyRequests
<1>5. ASSUME NEW r \in Requests, Busy(r)
      PROVE  \E p \in Paths, s \in Statuses : Answering(r, p, s)
  <2>1. 503 \in Statuses
    BY DEF Statuses
  <2>2. Answer(r, from[r].path, 503) /\ mw[r] = "reading" /\ UNCHANGED <<rateLimited, from>>
    BY <1>5 DEF Busy
  <2>. QED BY <1>2, <2>1, <2>2
<1>6. ASSUME NEW r \in Requests, TimeOut(r) \/ \E s \in Statuses : Complete(r, s)
      PROVE  \E p \in Paths, s \in Statuses : Answering(r, p, s)
  <2>1. PICK s \in Statuses : Answer(r, from[r].path, s) /\ s # 429
    BY <1>6 DEF TimeOut, Complete, Statuses, Outcomes
  <2>2. mw[r] = "waiting" /\ UNCHANGED <<rateLimited, from>>
    BY <1>6 DEF TimeOut, Complete
  <2>. QED BY <1>2, <2>1, <2>2
<1>7. ASSUME NEW r \in Requests, Dispatch(r)
      PROVE  Silent
  BY <1>7 DEF Dispatch, Silent, meters, Typed, TypeOK
<1>8. ASSUME NEW r \in Requests, Reply(r) \/ ToThread(r) \/ EndWork(r)
      PROVE  Silent
  BY <1>8 DEF Reply, ToThread, EndWork, Others, Silent, meters
<1>9. CASE StartWork \/ Tick \/ UNCHANGED vars
  BY <1>9 DEF StartWork, Tick, vars, Others, Silent, meters
<1>. QED BY <1>1, <1>3, <1>4, <1>5, <1>6, <1>7, <1>8, <1>9 DEF Next, Middleware

(* An answer belongs to the counts of its label and its status, and to no  *)
(* other.                                                                  *)
LEMMA AnswerCounted ==
  ASSUME Typed, NEW r \in Requests, NEW p \in Paths, NEW s \in Statuses, Answering(r, p, s),
         NEW l \in Labels, NEW S
  PROVE  /\ Cardinality(Answered(l, S)) \in Nat
         /\ Cardinality(Answered(l, S))' =
              IF Label(p) = l /\ s \in S THEN Cardinality(Answered(l, S)) + 1
              ELSE Cardinality(Answered(l, S))
<1>1. /\ mw' = [mw EXCEPT ![r] = "answered"] /\ status' = [status EXCEPT ![r] = s]
      /\ mw[r] # "answered" /\ from'[r].path = p
      /\ \A q \in Requests \ {r} : from'[q] = from[q]
  BY DEF Answering, Answer
<1>2. \A q \in Requests \ {r} : mw'[q] = mw[q] /\ status'[q] = status[q]
  BY <1>1 DEF Typed, TypeOK
<1>3. mw'[r] = "answered" /\ status'[r] = s
  BY <1>1 DEF Typed, TypeOK
<1>4. /\ r \notin Answered(l, S)
      /\ Answered(l, S)' = IF Label(p) = l /\ s \in S THEN Answered(l, S) \cup {r}
                           ELSE Answered(l, S)
  BY <1>1, <1>2, <1>3 DEF Answered
<1>5. Answered(l, S) \in SUBSET Requests
  BY DEF Answered
<1>6. IsFiniteSet(Answered(l, S)) /\ Cardinality(Answered(l, S)) \in Nat
  BY <1>5, FS_Subset, FS_CardinalityType, AdmissionAssumption
<1>7. Cardinality(Answered(l, S) \cup {r}) = Cardinality(Answered(l, S)) + 1
  BY <1>4, <1>6, FS_AddElement
<1>. QED BY <1>4, <1>6, <1>7

LEMMA SilentCounts ==
  ASSUME Silent, NEW l, NEW S
  PROVE  Cardinality(Answered(l, S))' = Cardinality(Answered(l, S))
<1>1. Answered(l, S)' = Answered(l, S)
  BY DEF Silent, Answered
<1>. QED BY <1>1

LEMMA MeteredStep ==
  ASSUME Typed, MeteredOnce, [Next]_vars
  PROVE  MeteredOnce'
<1>. DEFINE Failing == {s \in Statuses : s >= 500}
<1>1. CASE Silent
  <2>1. UNCHANGED <<requests, durationCount, errors, rateLimited>>
    BY <1>1 DEF Silent, meters
  <2>. QED BY <1>1, <2>1, SilentCounts DEF MeteredOnce
<1>2. ASSUME NEW r \in Requests, NEW p \in Paths, NEW s \in Statuses, Answering(r, p, s)
      PROVE  MeteredOnce'
  <2>. DEFINE m == Label(p)
  <2>1. m \in Labels
    BY LabelType
  <2>2. /\ requests' = [requests EXCEPT ![<<m, s>>] = @ + 1]
        /\ durationCount' = [durationCount EXCEPT ![m] = @ + 1]
        /\ errors' = IF s >= 500 THEN [errors EXCEPT ![m] = @ + 1] ELSE errors
        /\ rateLimited' = IF s = 429 THEN [rateLimited EXCEPT ![m] = @ + 1] ELSE rateLimited
    BY <1>2 DEF Answering, Answer, Record
  <2>. HIDE DEF m
  <2>. SUFFICES ASSUME NEW l \in Labels
                PROVE  /\ \A t \in Statuses : requests'[<<l, t>>] = Cardinality(Answered(l, {t}))'
                       /\ durationCount'[l] = Cardinality(Answered(l, Statuses))'
                       /\ errors'[l] = Cardinality(Answered(l, Failing))'
                       /\ rateLimited'[l] = Cardinality(Answered(l, {429}))'
    BY DEF MeteredOnce
  <2>3. \A S : Cardinality(Answered(l, S))' =
                IF m = l /\ s \in S THEN Cardinality(Answered(l, S)) + 1
                ELSE Cardinality(Answered(l, S))
    BY <1>2, AnswerCounted DEF m
  <2>4. /\ \A t \in Statuses : requests[<<l, t>>] = Cardinality(Answered(l, {t}))
        /\ durationCount[l] = Cardinality(Answered(l, Statuses))
        /\ errors[l] = Cardinality(Answered(l, Failing))
        /\ rateLimited[l] = Cardinality(Answered(l, {429}))
    BY DEF MeteredOnce
  <2>5. ASSUME NEW t \in Statuses
        PROVE  requests'[<<l, t>>] = Cardinality(Answered(l, {t}))'
    <3>1. requests \in [Labels \X Statuses -> Nat]
      BY DEF Typed, TypeOK
    <3>2. requests'[<<l, t>>] = IF m = l /\ s = t THEN requests[<<l, t>>] + 1
                                ELSE requests[<<l, t>>]
      BY <2>1, <2>2, <3>1
    <3>3. s \in {t} <=> s = t
      OBVIOUS
    <3>. QED BY <2>3, <2>4, <3>2, <3>3
  <2>6. durationCount'[l] = Cardinality(Answered(l, Statuses))'
    <3>1. durationCount \in [Labels -> Nat]
      BY DEF Typed, TypeOK
    <3>2. durationCount'[l] = IF m = l THEN durationCount[l] + 1 ELSE durationCount[l]
      BY <2>1, <2>2, <3>1
    <3>. QED BY <2>3, <2>4, <3>2
  <2>7. errors'[l] = Cardinality(Answered(l, Failing))'
    <3>1. errors \in [Labels -> Nat]
      BY DEF Typed, TypeOK
    <3>2. errors'[l] = IF m = l /\ s >= 500 THEN errors[l] + 1 ELSE errors[l]
      BY <2>1, <2>2, <3>1
    <3>3. s \in Failing <=> s >= 500
      OBVIOUS
    <3>. HIDE DEF Failing
    <3>. QED BY <2>3, <2>4, <3>2, <3>3
  <2>8. rateLimited'[l] = Cardinality(Answered(l, {429}))'
    <3>1. rateLimited \in [Labels -> Nat]
      BY DEF Typed, TypeOK
    <3>2. rateLimited'[l] = IF m = l /\ s = 429 THEN rateLimited[l] + 1 ELSE rateLimited[l]
      BY <2>1, <2>2, <3>1
    <3>3. s \in {429} <=> s = 429
      OBVIOUS
    <3>. QED BY <2>3, <2>4, <3>2, <3>3
  <2>. QED BY <2>5, <2>6, <2>7, <2>8
<1>. QED BY <1>1, <1>2, AnswerOrSilent

(* Whichever way a request ends, its response is metered once, under its   *)
(* own route and status, as an error from 500 on, and as rate limited.     *)
THEOREM EveryAnswerMetered == Spec => []MeteredOnce
<1>1. Init => Typed /\ MeteredOnce
  <2> SUFFICES ASSUME Init PROVE MeteredOnce
    BY TypedInit
  <2>1. \A l, S : Answered(l, S) = {}
    BY DEF Init, Answered
  <2>2. \A l, S : Cardinality(Answered(l, S)) = 0
    BY <2>1, FS_EmptySet
  <2> QED
    BY <2>2 DEF Init, MeteredOnce
<1>2. Typed /\ MeteredOnce /\ [Next]_vars => (Typed /\ MeteredOnce)'
  BY TypedStep, MeteredStep
<1> QED
  BY <1>1, <1>2, PTL DEF Spec

-----------------------------------------------------------------------------
(* Payment *)

(* What a request that passed the limiter has paid. *)
PaidWaiting ==
  \A r \in Requests : mw[r] = "waiting" /\ from[r].path \in RateLimited => spentAt[r] # None

LEMMA PaymentStep ==
  ASSUME Typed, PaidWaiting, OnlyAdmittedPay, [Next]_vars
  PROVE  PaidWaiting' /\ OnlyAdmittedPay'
<1>. DEFINE Fine(q) == /\ mw[q] = "waiting" /\ from[q].path \in RateLimited => spentAt[q] # None
                       /\ mw[q] = "answered" /\ from[q].path \in RateLimited =>
                            (spentAt[q] = None <=> hd[q] = "none" /\ status[q] # 503)
<1>. SUFFICES (\A q \in Requests : Fine(q)) => (\A q \in Requests : Fine(q))'
  BY DEF PaidWaiting, OnlyAdmittedPay
<1>. SUFFICES ASSUME \A q \in Requests : Fine(q)
              PROVE  \A q \in Requests : Fine(q)'
  OBVIOUS
<1>1. ASSUME NEW r \in Requests,
             /\ \E m \in {"idle", "reading", "waiting", "answered"} : mw' = [mw EXCEPT ![r] = m]
             /\ status' = status \/ \E s : status' = [status EXCEPT ![r] = s]
             /\ spentAt' = spentAt \/ \E t : spentAt' = [spentAt EXCEPT ![r] = t]
             /\ from' = from \/ \E f : from' = [from EXCEPT ![r] = f]
             /\ hd' = hd,
             Fine(r)'
      PROVE  \A q \in Requests : Fine(q)'
  <2>1. \A q \in Requests \ {r} : /\ mw'[q] = mw[q] /\ status'[q] = status[q]
                                  /\ spentAt'[q] = spentAt[q] /\ from'[q] = from[q]
    BY <1>1 DEF Typed, TypeOK
  <2>. QED BY <1>1, <2>1
<1>2. ASSUME NEW r \in Requests, NEW c \in Clients, NEW p \in Paths, Arrive(r, c, p)
      PROVE  \A q \in Requests : Fine(q)'
  <2>0. /\ mw[r] = "idle" /\ UNCHANGED <<spentAt, hd>>
        /\ \E f : from' = [from EXCEPT ![r] = f]
    BY <1>2 DEF Arrive
  <2>1. /\ mw[r] = "idle" /\ spentAt[r] = None /\ hd[r] = "none"
        /\ UNCHANGED <<spentAt, hd>>
        /\ \E f : from' = [from EXCEPT ![r] = f]
    BY <2>0 DEF Typed, Lifecycle
  <2>2. CASE mw' = [mw EXCEPT ![r] = "reading"] /\ UNCHANGED status
    <3>1. Fine(r)'
      BY <2>1, <2>2 DEF Typed, TypeOK
    <3>. QED BY <1>1, <2>1, <2>2, <3>1
  <2>3. ASSUME NEW s \in {400, 413}, Answer(r, p, s)
        PROVE  \A q \in Requests : Fine(q)'
    <3>1. mw' = [mw EXCEPT ![r] = "answered"] /\ status' = [status EXCEPT ![r] = s]
      BY <2>3 DEF Answer
    <3>2. Fine(r)'
      BY <2>1, <3>1 DEF Typed, TypeOK
    <3>. QED BY <1>1, <2>1, <3>1, <3>2
  <2>. QED BY <1>2, <2>2, <2>3 DEF Arrive
<1>3. ASSUME NEW r \in Requests, BodyTooLarge(r) \/ Unauthorized(r) \/ TooManyRequests(r)
      PROVE  \A q \in Requests : Fine(q)'
  <2>1. PICK s \in {401, 413, 429} : Answer(r, from[r].path, s)
    BY <1>3 DEF BodyTooLarge, Unauthorized, TooManyRequests
  <2>2. /\ mw[r] = "reading" /\ UNCHANGED <<from, spentAt, hd>>
        /\ spentAt[r] = None /\ hd[r] = "none"
    BY <1>3 DEF BodyTooLarge, Unauthorized, TooManyRequests, Typed, Lifecycle
  <2>3. mw' = [mw EXCEPT ![r] = "answered"] /\ status' = [status EXCEPT ![r] = s]
    BY <2>1 DEF Answer
  <2>4. Fine(r)'
    BY <2>2, <2>3 DEF Typed, TypeOK
  <2>. QED BY <1>1, <2>2, <2>3, <2>4
<1>4. ASSUME NEW r \in Requests, Busy(r) \/ Dispatch(r)
      PROVE  \A q \in Requests : Fine(q)'
  <2>1. UNCHANGED from /\ PassLimiter(r) /\ now \in Nat
    BY <1>4 DEF Busy, Dispatch, Typed, TypeOK
  <2>2. /\ from[r].path \in RateLimited => spentAt'[r] # None
        /\ \A q \in Requests \ {r} : spentAt'[q] = spentAt[q]
    BY <2>1, AdmissionAssumption DEF PassLimiter, Charge, Typed, TypeOK
  <2>3. CASE Busy(r)
    <3>1. /\ mw' = [mw EXCEPT ![r] = "answered"] /\ status' = [status EXCEPT ![r] = 503]
          /\ hd' = hd
      BY <2>3 DEF Busy, Answer
    <3>2. mw'[r] = "answered" /\ status'[r] = 503 /\ from'[r] = from[r]
      BY <2>1, <3>1 DEF Typed, TypeOK
    <3>3. Fine(r)'
      BY <2>2, <3>2
    <3>4. \A q \in Requests \ {r} : /\ mw'[q] = mw[q] /\ status'[q] = status[q]
                                    /\ spentAt'[q] = spentAt[q] /\ from'[q] = from[q]
                                    /\ hd'[q] = hd[q]
      BY <2>1, <2>2, <3>1 DEF Typed, TypeOK
    <3>. QED BY <3>3, <3>4
  <2>4. CASE Dispatch(r)
    <3>1. /\ mw' = [mw EXCEPT ![r] = "waiting"] /\ UNCHANGED status
          /\ hd' = [hd EXCEPT ![r] = "running"]
      BY <2>4 DEF Dispatch
    <3>2. mw'[r] = "waiting" /\ from'[r] = from[r]
      BY <2>1, <3>1 DEF Typed, TypeOK
    <3>3. Fine(r)'
      BY <2>2, <3>2
    <3>4. \A q \in Requests \ {r} : /\ mw'[q] = mw[q] /\ status'[q] = status[q]
                                    /\ spentAt'[q] = spentAt[q] /\ from'[q] = from[q]
                                    /\ hd'[q] = hd[q]
      BY <2>1, <2>2, <3>1 DEF Typed, TypeOK
    <3>. QED BY <3>3, <3>4
  <2>. QED BY <1>4, <2>3, <2>4
<1>5. ASSUME NEW r \in Requests, TimeOut(r) \/ \E s \in Statuses : Complete(r, s)
      PROVE  \A q \in Requests : Fine(q)'
  <2>1. PICK s \in Statuses : Answer(r, from[r].path, s)
    BY <1>5 DEF TimeOut, Complete, Statuses
  <2>2. mw[r] = "waiting" /\ UNCHANGED <<from, spentAt, hd>> /\ hd[r] # "none"
    BY <1>5 DEF TimeOut, Complete, Typed, Lifecycle
  <2>3. mw' = [mw EXCEPT ![r] = "answered"] /\ status' = [status EXCEPT ![r] = s]
    BY <2>1 DEF Answer
  <2>4. Fine(r)'
    BY <2>1, <2>2, <2>3 DEF Typed, TypeOK
  <2>. QED BY <1>1, <2>2, <2>3, <2>4
<1>6. ASSUME UNCHANGED <<mw, from, status, spentAt>>,
             \A q \in Requests : hd'[q] = "none" <=> hd[q] = "none"
      PROVE  \A q \in Requests : Fine(q)'
  BY <1>6
<1>7. ASSUME NEW r \in Requests, Reply(r) \/ ToThread(r) \/ EndWork(r)
      PROVE  \A q \in Requests : Fine(q)'
  <2>1. UNCHANGED <<mw, from, status, spentAt>>
    BY <1>7 DEF Reply, ToThread, EndWork, Others
  <2>2. /\ hd[r] # "none"
        /\ \E h \in {"pooled", "finished"} : hd' = [hd EXCEPT ![r] = h]
    BY <1>7 DEF Reply, ToThread, EndWork, Typed, Lifecycle
  <2>3. \A q \in Requests : hd'[q] = "none" <=> hd[q] = "none"
    BY <2>2 DEF Typed, TypeOK
  <2>. QED BY <1>6, <2>1, <2>3
<1>8. CASE StartWork \/ Tick \/ UNCHANGED vars
  BY <1>6, <1>8 DEF StartWork, Tick, Others, vars
<1>. QED BY <1>2, <1>3, <1>4, <1>5, <1>6, <1>7, <1>8 DEF Next, Middleware

(* A request to a limited path is charged unless it is refused before or   *)
(* by the limiter, however the requests interleave.                        *)
THEOREM RefusalsAreFree == Spec => []OnlyAdmittedPay
<1>1. Init => Typed /\ PaidWaiting /\ OnlyAdmittedPay
  <2> SUFFICES ASSUME Init PROVE PaidWaiting /\ OnlyAdmittedPay
    BY TypedInit
  <2> QED
    BY DEF Init, PaidWaiting, OnlyAdmittedPay
<1>2. Typed /\ PaidWaiting /\ OnlyAdmittedPay /\ [Next]_vars
        => (Typed /\ PaidWaiting /\ OnlyAdmittedPay)'
  BY TypedStep, PaymentStep
<1> QED
  BY <1>1, <1>2, PTL DEF Spec

-----------------------------------------------------------------------------
(* The gate *)

GateInv == Typed /\ SlotAccounting
kinds == [r \in Requests |-> Kind(r)]

(* Both modules count with the same Cardinality. *)
LEMMA SameCount == \A S : Gate!Cardinality(S) = Cardinality(S)
BY DEF Gate!Cardinality, Cardinality

LEMMA SameGate ==
  ASSUME UNCHANGED <<from, status>>, Inside' = Inside
  PROVE  UNCHANGED Gate!gateVars
BY DEF Gate!gateVars, Kind

(* What the gate sees of a request that has arrived. *)
LEMMA KindOf ==
  ASSUME Typed, NEW r \in Requests, mw[r] # "idle"
  PROVE  kinds[r] = IF Gated(from[r].path) THEN "expensive" ELSE "cheap"
BY DEF Typed, Lifecycle, kinds, Kind

LEMMA ArrivalMapped ==
  ASSUME Typed, NEW r \in Requests, NEW c \in Clients, NEW p \in Paths, Arrive(r, c, p)
  PROVE  Gate!Arrive(r)
<1>1. mw[r] = "idle" /\ from[r] = None /\ status[r] = None
  BY DEF Arrive, Typed, Lifecycle
<1>2. kinds[r] = "unknown"
  BY <1>1 DEF kinds, Kind
<1>3. from' = [from EXCEPT ![r] = [client |-> c, path |-> p]]
  BY DEF Arrive
<1>4. [client |-> c, path |-> p] # None
  BY AdmissionAssumption
<1>5. \E k \in {"cheap", "expensive"} : kinds' = [kinds EXCEPT ![r] = k]
  <2>. DEFINE k == IF Gated(p) THEN "expensive" ELSE "cheap"
  <2>1. from'[r] # None /\ from'[r].path = p /\ \A q \in Requests \ {r} : from'[q] = from[q]
    BY <1>3, <1>4 DEF Typed, TypeOK
  <2>2. Kind(r)' = k /\ \A q \in Requests \ {r} : Kind(q)' = Kind(q)
    BY <2>1 DEF Kind
  <2>. HIDE DEF k
  <2>3. kinds' = [kinds EXCEPT ![r] = k]
    BY <2>2 DEF kinds
  <2>. QED BY <2>3 DEF k
<1>6. Inside' = Inside
  BY InsideUnchanged
<1>7. UNCHANGED status \/ Gate!Reply(r, Gate!AtHeaders)
  BY <1>1 DEF Arrive, Answer, Gate!Reply, Gate!AtHeaders
<1>. QED BY <1>2, <1>5, <1>6, <1>7 DEF Gate!Arrive, kinds

(* A request that is answered at or before the gate. *)
LEMMA RefusalMapped ==
  ASSUME Typed, NEW r \in Requests, BodyTooLarge(r) \/ Unauthorized(r) \/ TooManyRequests(r)
  PROVE  Gate!Serve(r) \/ Gate!Refuse(r)
<1>1. /\ mw[r] = "reading" /\ UNCHANGED from /\ status[r] = None /\ r \notin Inside
      /\ \E s \in {401, 413, 429} : status' = [status EXCEPT ![r] = s]
  BY DEF BodyTooLarge, Unauthorized, TooManyRequests, Answer, Typed, Lifecycle, Inside
<1>2. Gate!Reply(r, Statuses) /\ Gate!Reply(r, Gate!Refusals)
  <2>1. PICK s \in {401, 413, 429} : status' = [status EXCEPT ![r] = s]
    BY <1>1
  <2>2. s \in Statuses /\ s \in Gate!Refusals
    BY <2>1 DEF Statuses, Gate!Refusals, Gate!AtGate
  <2>. QED BY <1>1, <2>1, <2>2 DEF Gate!Reply
<1>3. Inside' = Inside
  BY InsideUnchanged
<1>4. kinds' = kinds
  BY <1>1 DEF kinds, Kind
<1>5. kinds[r] \in {"expensive", "cheap"}
  BY <1>1, KindOf
<1>. QED BY <1>1, <1>2, <1>3, <1>4, <1>5 DEF Gate!Serve, Gate!Refuse, kinds

(* The semaphore is at zero only when every slot is taken. *)
LEMMA BusyMapped ==
  ASSUME GateInv, NEW r \in Requests, Busy(r)
  PROVE  Gate!RefuseBusy(r)
<1>1. /\ mw[r] = "reading" /\ UNCHANGED from /\ status[r] = None /\ r \notin Inside
      /\ status' = [status EXCEPT ![r] = 503] /\ Gated(from[r].path) /\ sem = 0
  BY DEF GateInv, Busy, Answer, Typed, Lifecycle, Inside
<1>2. Cardinality(Inside) = MaxConcurrent
  BY <1>1, InsideFinite, AdmissionAssumption DEF GateInv, SlotAccounting
<1>3. Inside' = Inside
  BY InsideUnchanged DEF GateInv
<1>4. kinds' = kinds /\ kinds[r] = "expensive"
  BY <1>1, KindOf DEF GateInv, kinds, Kind
<1>5. Gate!Reply(r, {503})
  BY <1>1 DEF Gate!Reply
<1>. QED BY <1>1, <1>2, <1>3, <1>4, <1>5, SameCount DEF Gate!RefuseBusy, kinds

LEMMA DispatchMapped ==
  ASSUME GateInv, NEW r \in Requests, Dispatch(r)
  PROVE  Gate!Enter(r) \/ UNCHANGED Gate!gateVars
<1>1. mw[r] = "reading" /\ UNCHANGED <<from, status>> /\ status[r] = None
  BY DEF GateInv, Dispatch, Typed, Lifecycle
<1>2. /\ r \notin Inside
      /\ Inside' = IF Gated(from[r].path) THEN Inside \cup {r} ELSE Inside
  BY InsideEnters DEF GateInv
<1>3. CASE Gated(from[r].path)
  <2>1. Cardinality(Inside) < MaxConcurrent
    BY <1>3, InsideFinite, AdmissionAssumption DEF GateInv, SlotAccounting, Dispatch
  <2>2. kinds' = kinds /\ kinds[r] = "expensive"
    BY <1>1, <1>3, KindOf DEF GateInv, kinds, Kind
  <2>. QED BY <1>1, <1>2, <1>3, <2>1, <2>2, SameCount DEF Gate!Enter, kinds
<1>4. CASE ~Gated(from[r].path)
  BY <1>1, <1>2, <1>4, SameGate
<1>. QED BY <1>3, <1>4

(* The answer and the slot go in the same step. *)
LEMMA ExitMapped ==
  ASSUME GateInv, NEW r \in Requests, TimeOut(r) \/ \E s \in Statuses : Complete(r, s)
  PROVE  Gate!Serve(r) \/ Gate!Leave(r)
<1>1. PICK s \in Statuses \ {401, 413, 429} : status' = [status EXCEPT ![r] = s]
  BY DEF TimeOut, Complete, Answer, Outcomes, Statuses
<1>2. mw[r] = "waiting" /\ UNCHANGED from /\ status[r] = None
  BY DEF GateInv, TimeOut, Complete, Typed, Lifecycle
<1>3. /\ Gated(from[r].path) <=> r \in Inside
      /\ Inside' = Inside \ {r}
  BY InsideLeaves DEF GateInv
<1>4. kinds' = kinds /\ kinds[r] = IF Gated(from[r].path) THEN "expensive" ELSE "cheap"
  BY <1>2, KindOf DEF GateInv, kinds, Kind
<1>5. Gate!Reply(r, Statuses) /\ Gate!Reply(r, Statuses \ Gate!AtGate)
  BY <1>1, <1>2 DEF Gate!Reply, Gate!AtGate
<1>6. CASE Gated(from[r].path)
  BY <1>3, <1>4, <1>5, <1>6 DEF Gate!Leave, kinds
<1>7. CASE ~Gated(from[r].path)
  BY <1>3, <1>4, <1>5, <1>7 DEF Gate!Serve, kinds
<1>. QED BY <1>6, <1>7

LEMMA GateStep == GateInv /\ [Next]_vars => [Gate!Next]_(Gate!gateVars)
<1>. SUFFICES ASSUME GateInv, [Next]_vars
              PROVE  Gate!Next \/ UNCHANGED Gate!gateVars
  OBVIOUS
<1>1. ASSUME NEW r \in Requests, NEW c \in Clients, NEW p \in Paths, Arrive(r, c, p)
      PROVE  Gate!Next
  BY <1>1, ArrivalMapped DEF GateInv, Gate!Next
<1>2. ASSUME NEW r \in Requests, BodyTooLarge(r) \/ Unauthorized(r) \/ TooManyRequests(r)
      PROVE  Gate!Next
  BY <1>2, RefusalMapped DEF GateInv, Gate!Next
<1>3. ASSUME NEW r \in Requests, Busy(r)
      PROVE  Gate!Next
  BY <1>3, BusyMapped DEF Gate!Next
<1>4. ASSUME NEW r \in Requests, Dispatch(r)
      PROVE  Gate!Next \/ UNCHANGED Gate!gateVars
  BY <1>4, DispatchMapped DEF Gate!Next
<1>5. ASSUME NEW r \in Requests, TimeOut(r) \/ \E s \in Statuses : Complete(r, s)
      PROVE  Gate!Next
  BY <1>5, ExitMapped DEF Gate!Next
<1>6. ASSUME UNCHANGED <<mw, from, status>>
      PROVE  UNCHANGED Gate!gateVars
  BY <1>6, SameGate DEF Inside
<1>7. ASSUME NEW r \in Requests, Reply(r) \/ ToThread(r) \/ EndWork(r)
      PROVE  UNCHANGED <<mw, from, status>>
  BY <1>7 DEF Reply, ToThread, EndWork, Others
<1>8. CASE StartWork \/ Tick \/ UNCHANGED vars
  BY <1>6, <1>8 DEF StartWork, Tick, Others, vars
<1>. QED BY <1>1, <1>2, <1>3, <1>4, <1>5, <1>6, <1>7, <1>8 DEF Next, Middleware

(* The service implements the gate its clients see: one answer each, busy  *)
(* only when every slot is taken, and the slot given back with the answer. *)
THEOREM KeepsGate == Spec => ImplementsGate
<1>1. Init => GateInv /\ Gate!Init
  <2>. SUFFICES ASSUME Init
                PROVE  SlotAccounting /\ Gate!Init
    BY TypedInit DEF GateInv
  <2>1. Inside = {}
    BY DEF Init, Inside
  <2>2. Cardinality(Inside) = 0
    BY <2>1, FS_EmptySet
  <2>3. kinds = [r \in Requests |-> "unknown"]
    BY DEF Init, kinds, Kind
  <2>. QED BY <2>1, <2>2, <2>3, AdmissionAssumption
           DEF Init, SlotAccounting, Gate!Init, kinds
<1>2. GateInv /\ [Next]_vars => GateInv'
  BY TypedStep, SlotStep DEF GateInv
<1>. QED BY <1>1, <1>2, GateStep, PTL DEF Spec, Gate!Spec, ImplementsGate
=============================================================================
