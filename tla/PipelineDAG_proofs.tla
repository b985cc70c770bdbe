-------------------------- MODULE PipelineDAG_proofs --------------------------
(***************************************************************************)
(* For any finite number of stages and any lists of dependencies: the sort *)
(* is sound, what it leaves contains a cycle, which is reported, and what  *)
(* runs runs as StageContract says.                                        *)
(***************************************************************************)
EXTENDS PipelineDAG, FiniteSetTheorems, TLAPS

-----------------------------------------------------------------------------
(* The inductive invariant *)

Closed == \A n \in Known : DepSet(n) \subseteq Known

Listed == ToSet(order)
Before(i) == {order[j] : j \in 1 .. i - 1}

(* What is listed is listed once and after what it needs.                  *)
Listing ==
  /\ Listed \subseteq Known
  /\ \A i, j \in 1 .. Len(order) : order[i] = order[j] => i = j
  /\ \A i \in 1 .. Len(order) : DepSet(order[i]) \subseteq Before(i)

(* The positions of a list of dependencies that are still waited for.      *)
Pending(n) == {k \in DOMAIN stages[n] : stages[n][k] \notin Listed}
Ready == {n \in Remaining : DepSet(n) \subseteq Listed}

SortInv ==
  phase = "sorting" =>
    /\ position = 0 /\ failedAncestors = {}
    /\ \A n \in Known : inDegree[n] = Cardinality(Pending(n))
    /\ \A i, j \in 1 .. Len(queue) : queue[i] = queue[j] => i = j
    /\ ToSet(queue) = Ready

Follows(p) == \A i \in 1 .. Len(p) - 1 : p[i + 1] \in DepSet(p[i])

TraceInv ==
  /\ phase = "tracing" =>
       /\ Remaining # {} /\ \A n \in Remaining : DepSet(n) \cap Remaining # {}
       /\ Len(path) > 0 /\ ToSet(path) \subseteq Remaining /\ Follows(path)
  /\ raised = "cycle" =>
       /\ phase = "idle" /\ ToSet(path) \subseteq Known /\ Follows(path)
       /\ Len(path) > 1 /\ path[1] = path[Len(path)]

(* The stages before the position are settled, the others are not.         *)
ExecutionInv ==
  phase = "executing" =>
    /\ Remaining = {}
    /\ \A n \in Known : results[n] # "none" <=> n \in Before(position + 1)
    /\ failedAncestors = {n \in Before(position + 1) : results[n] \in {"FAILED", "SKIPPED"}}

IInv ==
  /\ TypeOK
  /\ phase # "idle" => Closed /\ Listing
  /\ SortInv /\ TraceInv /\ ExecutionInv
-----------------------------------------------------------------------------
(* Sorted enumerations *)

(* The rank of an element of a finite set of numbers is its place. *)
LEMMA Ranked ==
  ASSUME NEW S \in SUBSET Nat, IsFiniteSet(S)
  PROVE  \E s \in [1..Cardinality(S) -> S] :
           \A i, j \in 1..Cardinality(S) : i < j => s[i] < s[j]
<1>. DEFINE n == Cardinality(S)
            UpTo(x) == {y \in S : y <= x}
            rank == [x \in S |-> Cardinality(UpTo(x))]
            s == [i \in 1..n |-> CHOOSE x \in S : rank[x] = i]
<1>1. n \in Nat
  BY FS_CardinalityType
<1>2. ASSUME NEW x \in S
      PROVE  IsFiniteSet(UpTo(x)) /\ Cardinality(UpTo(x)) \in 1..n
  <2>1. UpTo(x) \in SUBSET S
    OBVIOUS
  <2>2. IsFiniteSet(UpTo(x)) /\ Cardinality(UpTo(x)) <= n
    BY <2>1, FS_Subset
  <2>3. UpTo(x) # {}
    OBVIOUS
  <2>. QED BY <1>1, <2>2, <2>3, FS_EmptySet, FS_CardinalityType
<1>3. ASSUME NEW x \in S, NEW y \in S, x < y
      PROVE  rank[x] < rank[y]
  <2>1. UpTo(x) \in SUBSET UpTo(y)
    <3>1. \A z \in S : z <= x => z <= y
      BY <1>3
    <3>. QED BY <3>1
  <2>2. y \in UpTo(y) /\ y \notin UpTo(x)
    BY <1>3
  <2>3. Cardinality(UpTo(x)) <= Cardinality(UpTo(y))
        /\ Cardinality(UpTo(x)) # Cardinality(UpTo(y))
    BY <1>2, <2>1, <2>2, FS_Subset
  <2>. QED BY <1>1, <1>2, <2>3
<1>4. rank \in [S -> 1..n]
  BY <1>2
<1>5. \A x, y \in S : rank[x] = rank[y] => x = y
  <2>. SUFFICES ASSUME NEW x \in S, NEW y \in S, rank[x] = rank[y], x # y
                PROVE  FALSE
    OBVIOUS
  <2>1. rank[x] \in Int /\ rank[y] \in Int
    BY <1>4, <1>1
  <2>2. x < y \/ y < x
    OBVIOUS
  <2>. HIDE DEF rank
  <2>. QED BY <2>1, <2>2, <1>3
<1>. HIDE DEF rank
<1>6. rank \in Injection(S, 1..n)
  BY <1>4, <1>5 DEF Injection, IsInjective
<1>7. rank \in Surjection(S, 1..n)
  BY <1>1, <1>6, FS_Interval, FS_Injection
<1>8. \A i \in 1..n : \E x \in S : rank[x] = i
  BY <1>7 DEF Surjection
<1>9. s \in [1..n -> S] /\ \A i \in 1..n : rank[s[i]] = i
  BY <1>8
<1>10. ASSUME NEW i \in 1..n, NEW j \in 1..n, i < j
       PROVE  s[i] < s[j]
  <2>1. s[i] \in S /\ s[j] \in S /\ rank[s[i]] = i /\ rank[s[j]] = j
    BY <1>9
  <2>. HIDE DEF s
  <2>2. s[i] # s[j]
    BY <1>10, <2>1
  <2>3. ~(s[j] < s[i])
    <3>1. s[j] < s[i] => j < i
      BY <1>3, <2>1
    <3>. QED BY <1>1, <1>10, <3>1
  <2>4. s[i] \in Nat /\ s[j] \in Nat
    BY <2>1
  <2>. QED BY <2>2, <2>3, <2>4
<1>. QED BY <1>9, <1>10

LEMMA SortedLists ==
  ASSUME NEW S \in SUBSET Names
  PROVE  /\ Sorted(S) \in Seq(S) /\ Len(Sorted(S)) = Cardinality(S)
         /\ Cardinality(S) \in Nat
         /\ \A i, j \in 1 .. Len(Sorted(S)) : Sorted(S)[i] = Sorted(S)[j] => i = j
         /\ ToSet(Sorted(S)) = S
<1>. DEFINE n == Cardinality(S)
            s == Sorted(S)
<1>1. S \in SUBSET Nat /\ IsFiniteSet(S) /\ n \in Nat
  BY DagAssumption, FS_Subset, FS_CardinalityType
<1>2. s \in [1..n -> S] /\ \A i, j \in 1..n : i < j => s[i] < s[j]
  BY <1>1, Ranked DEF Sorted
<1>. HIDE DEF s
<1>3. s \in Seq(S) /\ Len(s) = n /\ DOMAIN s = 1..n
  BY <1>1, <1>2
<1>4. ASSUME NEW i \in 1..n, NEW j \in 1..n, s[i] = s[j]
      PROVE  i = j
  <2>1. s[i] \in Nat /\ s[j] \in Nat
    BY <1>1, <1>2
  <2>2. ~(i < j) /\ ~(j < i)
    BY <1>2, <1>4, <2>1
  <2>. QED BY <1>1, <2>2
<1>5. s \in Injection(1..n, S)
  BY <1>2, <1>4 DEF Injection, IsInjective
<1>6. s \in Surjection(1..n, S)
  BY <1>1, <1>5, FS_Interval, FS_Injection
<1>7. ToSet(s) = S
  BY <1>3, <1>6 DEF Surjection, ToSet
<1>. QED BY <1>1, <1>3, <1>4, <1>7 DEF s
-----------------------------------------------------------------------------
(* Stages and their dependencies *)

LEMMA LeastNatural ==
  ASSUME NEW S \in SUBSET Nat, S # {}
  PROVE  \E i \in S : \A j \in S : i <= j
<1>1. PICK i \in S : \A j \in S : ~(<<j, i>> \in OpToRel(<, Nat))
  BY NatLessThanWellFounded, WFMin
<1>2. \A j \in S : ~(j < i)
  BY <1>1 DEF OpToRel
<1>. QED BY <1>2

LEMMA StagesTyped ==
  ASSUME TypeOK, NEW n \in Known
  PROVE  /\ n \in Names /\ stages[n] \in DepLists /\ stages[n] \in Seq(Nat)
         /\ Len(stages[n]) \in Nat /\ DOMAIN stages[n] = 1 .. Len(stages[n])
         /\ DepSet(n) \subseteq Nat
<1>1. n \in Names /\ stages[n] \in DepLists
  BY DEF TypeOK, Known
<1>2. stages[n] \in Seq(Nat)
  BY <1>1, DagAssumption
<1>3. Len(stages[n]) \in Nat /\ DOMAIN stages[n] = 1 .. Len(stages[n])
  BY <1>2
<1>4. DepSet(n) \subseteq Nat
  BY <1>2, <1>3 DEF DepSet, ToSet
<1>. QED BY <1>1, <1>2, <1>3, <1>4

LEMMA PendingFinite ==
  ASSUME TypeOK, NEW n \in Known, NEW K \in SUBSET DOMAIN stages[n]
  PROVE  IsFiniteSet(K) /\ Cardinality(K) \in Nat
<1>1. IsFiniteSet(DOMAIN stages[n])
  BY StagesTyped, FS_Interval
<1>. QED BY <1>1, FS_Subset, FS_CardinalityType

(* Nothing is waited for iff everything needed is listed. *)
LEMMA PendingEmpty ==
  ASSUME TypeOK, NEW n \in Known
  PROVE  Cardinality(Pending(n)) = 0 <=> DepSet(n) \subseteq Listed
<1>1. IsFiniteSet(Pending(n))
  BY PendingFinite DEF Pending
<1>2. Cardinality(Pending(n)) = 0 <=> Pending(n) = {}
  BY <1>1, FS_EmptySet
<1>3. Pending(n) = {} <=> DepSet(n) \subseteq Listed
  BY DEF Pending, DepSet, ToSet
<1>. QED BY <1>2, <1>3

(* Registering a stage leaves the others as they were. *)
LEMMA Registered ==
  ASSUME TypeOK, NEW n \in Names, NEW deps \in DepLists, AddStage(n, deps)
  PROVE  /\ n \notin Known /\ Known' = Known \cup {n}
         /\ DepSet(n)' = ToSet(deps)
         /\ \A m \in Names \ {n} : stages'[m] = stages[m] /\ DepSet(m)' = DepSet(m)
         /\ stages' \in [Names -> DepLists \cup {None}]
<1>1. stages' = [stages EXCEPT ![n] = deps] /\ stages[n] = None
  BY DEF AddStage
<1>2. stages \in [Names -> DepLists \cup {None}] /\ deps # None
  BY DagAssumption DEF TypeOK
<1>3. stages'[n] = deps /\ \A m \in Names \ {n} : stages'[m] = stages[m]
  BY <1>1, <1>2
<1>4. Known' = Known \cup {n} /\ n \notin Known
  BY <1>1, <1>2, <1>3 DEF Known
<1>. QED BY <1>1, <1>2, <1>3, <1>4 DEF DepSet

-----------------------------------------------------------------------------
(* The start of a run *)

LEMMA Started ==
  ASSUME IInv, StartSort
  PROVE  /\ TypeOK' /\ Closed' /\ Listing' /\ SortInv'
         /\ Known' = Known
<1>1. /\ phase = "idle" /\ runs < MaxRuns /\ runs' = runs + 1
      /\ order' = <<>> /\ path' = <<>> /\ position' = 0 /\ failedAncestors' = {}
      /\ stages' = stages /\ results' = results
      /\ raised' = "none" /\ phase' = "sorting"
      /\ \A n \in Known : DepSet(n) \subseteq Known
      /\ inDegree' = [n \in Names |-> IF n \in Known THEN Len(stages[n]) ELSE 0]
      /\ queue' = Sorted({n \in Known : Len(stages[n]) = 0})
  BY DEF StartSort, BeginRun
<1>2. TypeOK /\ Known \subseteq Names
  BY DEF IInv, Known
<1>. DEFINE S == {n \in Known : Len(stages[n]) = 0}
<1>3. S \in SUBSET Names
  BY <1>2
<1>4. /\ queue' \in Seq(S)
      /\ \A i, j \in 1 .. Len(queue') : queue'[i] = queue'[j] => i = j
      /\ ToSet(queue') = S
  BY <1>1, <1>3, SortedLists
<1>5. Known' = Known /\ \A n : DepSet(n)' = DepSet(n)
  BY <1>1 DEF Known, DepSet
<1>6. Listed' = {} /\ Len(order') = 0
  BY <1>1 DEF Listed, ToSet
<1>7. Closed' /\ Listing'
  BY <1>1, <1>5, <1>6 DEF Closed, Listing
<1>8. ASSUME NEW n \in Known
      PROVE  /\ inDegree'[n] = Cardinality(Pending(n)') /\ inDegree'[n] \in Nat
             /\ Len(stages[n]) = 0 <=> DepSet(n) = {}
  <2>1. Pending(n)' = 1 .. Len(stages[n])
    BY <1>1, <1>2, <1>6, StagesTyped DEF Pending
  <2>2. inDegree'[n] = Len(stages[n]) /\ Len(stages[n]) \in Nat
    BY <1>1, <1>2, StagesTyped
  <2>3. Cardinality(1 .. Len(stages[n])) = Len(stages[n])
    BY <2>2, FS_Interval
  <2>4. Len(stages[n]) = 0 <=> DepSet(n) = {}
    <3>1. DepSet(n) = {stages[n][k] : k \in 1 .. Len(stages[n])}
      BY <1>2, StagesTyped DEF DepSet, ToSet
    <3>2. Len(stages[n]) # 0 => 1 \in 1 .. Len(stages[n])
      BY <2>2
    <3>3. Len(stages[n]) = 0 => 1 .. Len(stages[n]) = {}
      OBVIOUS
    <3>4. Len(stages[n]) # 0 => stages[n][1] \in DepSet(n)
      BY <3>1, <3>2
    <3>5. Len(stages[n]) = 0 => DepSet(n) = {}
      BY <3>1, <3>3
    <3>. QED BY <3>4, <3>5
  <2>. QED BY <2>1, <2>2, <2>3, <2>4
<1>9. S = Ready'
  BY <1>1, <1>5, <1>6, <1>8 DEF Ready, Remaining, Listed
<1>10. SortInv'
  BY <1>1, <1>4, <1>5, <1>8, <1>9 DEF SortInv
<1>11. TypeOK'
  <2>1. inDegree' \in [Names -> Nat]
    BY <1>1, <1>2, StagesTyped
  <2>2. queue' \in Seq(Names)
    BY <1>3, <1>4
  <2>3. order' \in Seq(Names) /\ path' \in Seq(Names) /\ Len(order') = 0
    BY <1>1
  <2>4. runs' \in 0..MaxRuns /\ position' \in 0..Len(order')
    BY <1>1, <1>2, <2>3, DagAssumption DEF TypeOK
  <2>. QED BY <1>1, <1>2, <2>1, <2>2, <2>3, <2>4 DEF TypeOK
<1>. QED BY <1>5, <1>7, <1>10, <1>11
-----------------------------------------------------------------------------
(* One round of the sort *)

LEMMA Popped ==
  ASSUME IInv, PopNode
  PROVE  /\ Head(queue) \in Ready /\ order' = Append(order, Head(queue))
         /\ Listed' = Listed \cup {Head(queue)} /\ Len(order') = Len(order) + 1
         /\ Known' = Known /\ \A n : DepSet(n)' = DepSet(n)
         /\ phase = "sorting" /\ phase' = "sorting" /\ stages' = stages
         /\ Closed /\ Listing /\ TypeOK
<1>1. /\ phase = "sorting" /\ queue # <<>> /\ order' = Append(order, Head(queue))
      /\ stages' = stages /\ phase' = phase
  BY DEF PopNode
<1>2. TypeOK /\ Closed /\ Listing /\ ToSet(queue) = Ready
  BY <1>1 DEF IInv, SortInv
<1>3. queue \in Seq(Names) /\ order \in Seq(Names)
  BY <1>2 DEF TypeOK
<1>4. Head(queue) = queue[1] /\ 1 \in DOMAIN queue
  BY <1>1, <1>3
<1>5. Head(queue) \in Ready
  BY <1>2, <1>4 DEF ToSet
<1>6. Listed' = Listed \cup {Head(queue)} /\ Len(order') = Len(order) + 1
  <2>1. /\ DOMAIN order = 1 .. Len(order) /\ DOMAIN order' = 1 .. Len(order) + 1
        /\ Len(order) \in Nat /\ Len(order') = Len(order) + 1
        /\ \A i \in 1 .. Len(order) : order'[i] = order[i]
        /\ order'[Len(order) + 1] = Head(queue)
    BY <1>1, <1>3
  <2>. QED BY <2>1 DEF Listed, ToSet
<1>7. Known' = Known /\ \A n : DepSet(n)' = DepSet(n)
  BY <1>1 DEF Known, DepSet
<1>. QED BY <1>1, <1>2, <1>5, <1>6, <1>7

(* Each position at which a child names the node is waited for no more.    *)
LEMMA Lowered ==
  ASSUME IInv, PopNode, NEW c \in Known
  PROVE  /\ inDegree'[c] = Cardinality(Pending(c)') /\ inDegree'[c] \in Nat
         /\ inDegree'[c] = 0 <=> DepSet(c) \subseteq Listed \cup {Head(queue)}
         /\ Head(queue) \in DepSet(c) =>
              inDegree'[c] = inDegree[c] - Occurrences(c, Head(queue))
<1>. DEFINE node == Head(queue)
            here == {k \in DOMAIN stages[c] : stages[c][k] = node}
<1>1. /\ node \in Remaining /\ Listed' = Listed \cup {node} /\ phase = "sorting"
      /\ stages' = stages /\ Known' = Known /\ TypeOK
  BY Popped DEF Ready
<1>2. inDegree[c] = Cardinality(Pending(c))
  BY <1>1 DEF IInv, SortInv
<1>3. Pending(c)' = Pending(c) \ here /\ Pending(c) \cap here = here
  BY <1>1 DEF Pending, Remaining, Listed
<1>4. /\ IsFiniteSet(Pending(c)) /\ Cardinality(Pending(c)) \in Nat
      /\ IsFiniteSet(here) /\ Cardinality(here) \in Nat
  BY <1>1, PendingFinite DEF Pending
<1>. HIDE DEF here
<1>5. Cardinality(Pending(c) \ here) = Cardinality(Pending(c)) - Cardinality(here)
      /\ IsFiniteSet(Pending(c) \ here)
  BY <1>3, <1>4, FS_Difference
<1>6. Cardinality(Pending(c)') \in Nat
  BY <1>3, <1>5, FS_CardinalityType
<1>7. Occurrences(c, node) = Cardinality(here)
  BY DEF here, Occurrences
<1>8. node \notin DepSet(c) => here = {}
  BY DEF here, DepSet, ToSet
<1>9. c \in Names /\ inDegree \in [Names -> Nat]
  BY <1>1 DEF TypeOK, Known
<1>10. inDegree'[c] = IF node \in DepSet(c) THEN inDegree[c] - Occurrences(c, node)
                      ELSE inDegree[c]
  BY <1>9 DEF PopNode
<1>11. inDegree'[c] = Cardinality(Pending(c)')
  <2>1. CASE node \in DepSet(c)
    BY <2>1, <1>2, <1>3, <1>5, <1>7, <1>10
  <2>2. CASE node \notin DepSet(c)
    BY <2>2, <1>2, <1>3, <1>8, <1>10
  <2>. QED BY <2>1, <2>2
<1>12. Cardinality(Pending(c)') = 0 <=> DepSet(c) \subseteq Listed'
  <2>1. Cardinality(Pending(c) \ here) = 0 <=> Pending(c) \ here = {}
    BY <1>5, FS_EmptySet
  <2>2. Pending(c)' = {} <=> DepSet(c) \subseteq Listed'
    BY <1>1 DEF Pending, DepSet, ToSet
  <2>. QED BY <1>3, <2>1, <2>2
<1>. QED BY <1>1, <1>6, <1>10, <1>11, <1>12

LEMMA PoppedListing ==
  ASSUME IInv, PopNode
  PROVE  Listing'
<1>. DEFINE n == Len(order)
            node == Head(queue)
<1>1. /\ node \in Known /\ node \notin Listed /\ DepSet(node) \subseteq Listed
      /\ Listed' = Listed \cup {node} /\ Known' = Known
      /\ \A m : DepSet(m)' = DepSet(m)
      /\ order' = Append(order, node) /\ Listing /\ order \in Seq(Names)
  BY Popped DEF Ready, Remaining, Listed, TypeOK
<1>2. node \in Names /\ n \in Nat
  BY <1>1 DEF Known
<1>3. /\ Len(order') = n + 1 /\ order'[n + 1] = node
      /\ \A i \in 1 .. n : order'[i] = order[i]
  BY <1>1, <1>2
<1>4. Listed = {order[i] : i \in 1 .. n}
  BY <1>1 DEF Listed, ToSet
<1>5. \A i \in 1 .. n + 1 : Before(i)' = Before(i)
  BY <1>2, <1>3 DEF Before
<1>6. \A i, j \in 1 .. n + 1 : order'[i] = order'[j] => i = j
  <2>. SUFFICES ASSUME NEW i \in 1 .. n + 1, NEW j \in 1 .. n + 1, order'[i] = order'[j]
                PROVE  i = j
    OBVIOUS
  <2>1. (i \in 1 .. n \/ i = n + 1) /\ (j \in 1 .. n \/ j = n + 1)
    BY <1>2
  <2>. QED BY <1>1, <1>3, <1>4, <2>1 DEF Listing
<1>7. ASSUME NEW i \in 1 .. n + 1
      PROVE  DepSet(order'[i]) \subseteq Before(i)
  <2>1. CASE i \in 1 .. n
    BY <1>1, <1>3, <2>1 DEF Listing
  <2>2. CASE i = n + 1
    BY <1>1, <1>2, <1>3, <1>4, <2>2 DEF Before
  <2>. QED BY <1>2, <2>1, <2>2
<1>. QED BY <1>1, <1>3, <1>5, <1>6, <1>7 DEF Listing
(* The ready list loses its head and takes on the children whose degree    *)
(* reaches zero, none of which was in it.                                  *)
LEMMA PoppedQueue ==
  ASSUME IInv, PopNode
  PROVE  /\ queue' \in Seq(Names)
         /\ \A i, j \in 1 .. Len(queue') : queue'[i] = queue'[j] => i = j
         /\ ToSet(queue') = Ready'
<1>. DEFINE node == Head(queue)
            tail == Tail(queue)
            children == {c \in Known : node \in DepSet(c)}
            lowered == [c \in Names |->
                          IF c \in children THEN inDegree[c] - Occurrences(c, node)
                          ELSE inDegree[c]]
            ready == {c \in children : lowered[c] = 0}
            new == Sorted(ready)
<1>1. queue' = tail \o new /\ inDegree' = lowered /\ queue # <<>>
  BY DEF PopNode
<1>2. /\ node \in Ready /\ Listed' = Listed \cup {node} /\ Known' = Known
      /\ \A n : DepSet(n)' = DepSet(n)
      /\ queue \in Seq(Names) /\ Known \subseteq Names /\ Listing
  BY Popped DEF TypeOK, Known
<1>3. ToSet(queue) = Ready /\ \A i, j \in 1 .. Len(queue) : queue[i] = queue[j] => i = j
  BY Popped DEF IInv, SortInv
<1>4. ready = {c \in Known : node \in DepSet(c) /\ DepSet(c) \subseteq Listed \cup {node}}
  BY <1>1, Lowered
<1>. HIDE DEF ready, lowered, new, children
<1>5. /\ new \in Seq(ready) /\ ToSet(new) = ready
      /\ \A i, j \in 1 .. Len(new) : new[i] = new[j] => i = j
      /\ DOMAIN new = 1 .. Len(new) /\ Len(new) \in Nat
  <2>1. /\ new \in Seq(ready) /\ ToSet(new) = ready
        /\ \A i, j \in 1 .. Len(new) : new[i] = new[j] => i = j
    BY <1>2, <1>4, SortedLists DEF new
  <2>2. DOMAIN new = 1 .. Len(new) /\ Len(new) \in Nat
    BY <2>1
  <2>. QED BY <2>1, <2>2
<1>6. /\ tail \in Seq(Names) /\ Len(tail) = Len(queue) - 1 /\ Len(queue) \in Nat \ {0}
      /\ \A i \in 1 .. Len(tail) : tail[i] = queue[i + 1]
      /\ node = queue[1] /\ DOMAIN tail = 1 .. Len(tail) /\ Len(tail) \in Nat
  BY <1>1, <1>2
<1>. HIDE DEF tail
<1>7. ToSet(tail) = Ready \ {node}
  <2>1. ToSet(queue) = {queue[i] : i \in 1 .. Len(queue)}
    BY <1>2 DEF ToSet
  <2>2. ToSet(tail) = {tail[i] : i \in 1 .. Len(tail)}
    BY <1>6 DEF ToSet
  <2>3. ASSUME NEW x \in ToSet(tail)
        PROVE  x \in Ready \ {node}
    <3>1. PICK i \in 1 .. Len(tail) : x = tail[i]
      BY <2>2
    <3>2. i + 1 \in 1 .. Len(queue) /\ i + 1 # 1 /\ x = queue[i + 1]
      BY <1>6, <3>1
    <3>3. 1 \in 1 .. Len(queue)
      BY <1>6
    <3>. QED BY <1>3, <1>6, <2>1, <3>2, <3>3
  <2>4. ASSUME NEW x \in Ready \ {node}
        PROVE  x \in ToSet(tail)
    <3>1. PICK i \in 1 .. Len(queue) : x = queue[i]
      BY <1>3, <2>1
    <3>2. i # 1
      BY <1>6, <3>1
    <3>3. i - 1 \in 1 .. Len(tail) /\ x = tail[i - 1]
      BY <1>6, <3>1, <3>2
    <3>. QED BY <2>2, <3>3
  <2>. QED BY <2>3, <2>4
<1>8. ready \cap Ready = {}
  BY <1>2, <1>4 DEF Ready, Remaining, Listed
<1>9. /\ queue' \in Seq(Names) /\ Len(queue') = Len(tail) + Len(new)
      /\ Len(tail) \in Nat /\ Len(new) \in Nat
      /\ \A i \in 1 .. Len(tail) : queue'[i] = tail[i] /\ tail[i] \in ToSet(tail)
      /\ \A i \in 1 .. Len(new) : queue'[Len(tail) + i] = new[i] /\ new[i] \in ToSet(new)
  <2>1. new \in Seq(Names)
    BY <1>2, <1>4, <1>5
  <2>2. \A i \in 1 .. Len(tail) : tail[i] \in ToSet(tail)
    BY <1>6 DEF ToSet
  <2>3. \A i \in 1 .. Len(new) : new[i] \in ToSet(new)
    BY <1>5 DEF ToSet
  <2>4. queue' \in Seq(Names) /\ Len(queue') = Len(tail) + Len(new)
    <3>1. tail \in Seq(Names) /\ queue' = tail \o new
      BY <1>1, <1>6
    <3>. HIDE DEF node
    <3>. QED BY <2>1, <3>1
  <2>5. \A i \in 1 .. Len(tail) : queue'[i] = tail[i]
    BY <1>1, <1>5, <1>6, <2>1
  <2>6. ASSUME NEW i \in 1 .. Len(new)
        PROVE  queue'[Len(tail) + i] = new[i]
    BY <1>1, <1>5, <1>6, <2>1
  <2>. QED BY <1>5, <1>6, <2>2, <2>3, <2>4, <2>5, <2>6
<1>10. ASSUME NEW i \in 1 .. Len(queue'), NEW j \in 1 .. Len(queue'), queue'[i] = queue'[j]
       PROVE  i = j
  <2>. DEFINE t == Len(tail)
  <2>1. /\ i \in 1 .. t \/ i - t \in 1 .. Len(new)
        /\ j \in 1 .. t \/ j - t \in 1 .. Len(new)
    BY <1>9
  <2>2. i = t + (i - t) /\ j = t + (j - t)
    BY <1>9
  <2>3. CASE i \in 1 .. t /\ j \in 1 .. t
    <3>1. /\ i + 1 \in 1 .. Len(queue) /\ j + 1 \in 1 .. Len(queue)
          /\ queue[i + 1] = queue[j + 1]
      BY <1>6, <1>9, <1>10, <2>3
    <3>2. i + 1 = j + 1
      BY <1>3, <3>1
    <3>. QED BY <3>2
  <2>4. CASE i - t \in 1 .. Len(new) /\ j - t \in 1 .. Len(new)
    <3>1. queue'[t + (i - t)] = new[i - t] /\ queue'[t + (j - t)] = new[j - t]
      BY <1>9, <2>4
    <3>2. new[i - t] = new[j - t]
      BY <1>10, <2>2, <3>1
    <3>3. i - t = j - t
      BY <1>5, <2>4, <3>2
    <3>. QED BY <1>9, <3>3
  <2>5. CASE i \in 1 .. t /\ j - t \in 1 .. Len(new)
    <3>1. queue'[i] \in Ready /\ queue'[t + (j - t)] \in ready
      BY <1>5, <1>7, <1>9, <2>5
    <3>. QED BY <1>8, <1>10, <2>2, <3>1
  <2>6. CASE i - t \in 1 .. Len(new) /\ j \in 1 .. t
    <3>1. queue'[t + (i - t)] \in ready /\ queue'[j] \in Ready
      BY <1>5, <1>7, <1>9, <2>6
    <3>. QED BY <1>8, <1>10, <2>2, <3>1
  <2>. QED BY <2>1, <2>3, <2>4, <2>5, <2>6
<1>11. ToSet(queue') = ToSet(tail) \cup ToSet(new)
  <2>1. ToSet(queue') = {queue'[i] : i \in 1 .. Len(tail) + Len(new)}
    BY <1>9 DEF ToSet
  <2>2. ToSet(tail) = {tail[i] : i \in 1 .. Len(tail)} /\ ToSet(new) = {new[i] : i \in 1 .. Len(new)}
    BY <1>5, <1>6 DEF ToSet
  <2>3. ASSUME NEW i \in 1 .. Len(tail) + Len(new)
        PROVE  queue'[i] \in ToSet(tail) \cup ToSet(new)
    <3>1. CASE i \in 1 .. Len(tail)
      BY <1>9, <3>1
    <3>2. CASE i - Len(tail) \in 1 .. Len(new)
      <4>1. i = Len(tail) + (i - Len(tail))
        BY <1>9
      <4>. QED BY <1>9, <3>2, <4>1
    <3>. QED BY <1>9, <3>1, <3>2
  <2>4. \A i \in 1 .. Len(tail) : i \in 1 .. Len(tail) + Len(new)
    BY <1>9
  <2>5. \A i \in 1 .. Len(new) : Len(tail) + i \in 1 .. Len(tail) + Len(new)
    BY <1>9
  <2>6. ToSet(tail) \subseteq ToSet(queue')
    BY <1>9, <2>1, <2>2, <2>4
  <2>7. ToSet(new) \subseteq ToSet(queue')
    BY <1>9, <2>1, <2>2, <2>5
  <2>. QED BY <2>1, <2>3, <2>6, <2>7
<1>12. Ready' = (Ready \ {node}) \cup ready
  <2>1. Listed = {order[i] : i \in 1 .. Len(order)} /\ Len(order) \in Nat
    BY Popped DEF Listed, ToSet, TypeOK
  <2>2. \A n \in Listed : node \notin DepSet(n)
    <3>1. \A i \in 1 .. Len(order) : Before(i) \subseteq Listed
      BY <2>1 DEF Before
    <3>2. \A n \in Listed : DepSet(n) \subseteq Listed
      BY <1>2, <2>1, <3>1 DEF Listing
    <3>. QED BY <1>2, <3>2 DEF Ready, Remaining, Listed
  <2>3. node \notin DepSet(node)
    BY <1>2 DEF Ready, Remaining, Listed
  <2>4. Ready' = {n \in Known \ (Listed \cup {node}) : DepSet(n) \subseteq Listed \cup {node}}
    BY <1>2 DEF Ready, Remaining, Listed
  <2>5. Ready = {n \in Known \ Listed : DepSet(n) \subseteq Listed}
    BY DEF Ready, Remaining, Listed
  <2>. QED BY <1>4, <2>2, <2>3, <2>4, <2>5
<1>. QED BY <1>5, <1>7, <1>9, <1>10, <1>11, <1>12
LEMMA PoppedInv ==
  ASSUME IInv, PopNode
  PROVE  IInv'
<1>1. /\ phase' = "sorting" /\ Closed /\ Known' = Known /\ \A n : DepSet(n)' = DepSet(n)
      /\ order' = Append(order, Head(queue)) /\ Head(queue) \in Names
      /\ Len(order') = Len(order) + 1 /\ TypeOK /\ stages' = stages
  BY Popped DEF Ready, Remaining, Known
<1>2. UNCHANGED <<path, raised, position, results, failedAncestors, runs>>
  BY DEF PopNode, execution
<1>3. inDegree' \in [Names -> Nat]
  <2>1. inDegree' = [c \in Names |-> IF c \in Known /\ Head(queue) \in DepSet(c)
                                     THEN inDegree[c] - Occurrences(c, Head(queue))
                                     ELSE inDegree[c]]
    BY DEF PopNode
  <2>2. \A c \in Known : inDegree'[c] \in Nat
    BY Lowered
  <2>3. \A c \in Names \ Known : inDegree'[c] = inDegree[c] /\ inDegree[c] \in Nat
    BY <1>1, <2>1 DEF TypeOK
  <2>. QED BY <2>1, <2>2, <2>3
<1>4. TypeOK'
  BY <1>1, <1>2, <1>3, PoppedQueue DEF TypeOK
<1>5. Closed' /\ Listing'
  BY <1>1, PoppedListing DEF Closed
<1>6. SortInv'
  <2>1. position' = 0 /\ failedAncestors' = {}
    BY <1>2, Popped DEF IInv, SortInv
  <2>. QED BY <1>1, <2>1, PoppedQueue, Lowered DEF SortInv
<1>7. TraceInv'
  BY <1>1, <1>2, Popped DEF TraceInv, IInv
<1>8. ExecutionInv'
  BY <1>1 DEF ExecutionInv
<1>. QED BY <1>4, <1>5, <1>6, <1>7, <1>8 DEF IInv

-----------------------------------------------------------------------------
(* When the ready list is empty, what is left waits for what is left.      *)

LEMMA LeftBlocked ==
  ASSUME IInv, phase = "sorting", queue = <<>>, NEW n \in Remaining
  PROVE  DepSet(n) \cap Remaining # {}
<1>1. Ready = {}
  BY DEF IInv, SortInv, ToSet
<1>2. ~(DepSet(n) \subseteq Listed) /\ DepSet(n) \subseteq Known
  BY <1>1 DEF IInv, Ready, Closed, Remaining
<1>. QED BY <1>2 DEF Remaining, Listed

(* The search goes to a dependency that remains. *)
LEMMA NextRemains ==
  ASSUME TypeOK, NEW n \in Remaining, DepSet(n) \cap Remaining # {}
  PROVE  FirstRemaining(n) \in DepSet(n) \cap Remaining
<1>. DEFINE at == {i \in 1 .. Len(stages[n]) : stages[n][i] \in Remaining}
<1>1. n \in Known
  BY DEF Remaining
<1>2. DOMAIN stages[n] = 1 .. Len(stages[n]) /\ Len(stages[n]) \in Nat
  BY <1>1, StagesTyped
<1>3. at # {} /\ at \in SUBSET Nat
  BY <1>2 DEF DepSet, ToSet
<1>4. \E i \in at : \A j \in at : i <= j
  BY <1>3, LeastNatural
<1>5. SelectInSeq(stages[n], LAMBDA d : d \in Remaining) \in at
  BY <1>3, <1>4 DEF SelectInSeq, Min
<1>. QED BY <1>2, <1>5 DEF FirstRemaining, DepSet, ToSet
-----------------------------------------------------------------------------
(* The other actions *)

LEMMA TracedInv ==
  ASSUME IInv, TraceCycle
  PROVE  IInv'
<1>. DEFINE m == Len(path)
            next == FirstRemaining(path[m])
            back == SelectInSeq(path, LAMBDA n : n = next)
<1>1. /\ phase = "tracing" /\ TypeOK /\ Closed /\ Listing
      /\ UNCHANGED <<stages, inDegree, queue, order, position, results, failedAncestors, runs>>
  BY DEF TraceCycle, IInv, sort, execution
<1>2. /\ m > 0 /\ ToSet(path) \subseteq Remaining /\ Follows(path) /\ raised # "cycle"
      /\ Remaining # {} /\ \A n \in Remaining : DepSet(n) \cap Remaining # {}
  BY <1>1 DEF IInv, TraceInv
<1>3. path \in Seq(Names) /\ m \in Nat /\ DOMAIN path = 1 .. m
  BY <1>1 DEF TypeOK
<1>4. path[m] \in Remaining /\ \A i \in 1 .. m : path[i] \in Remaining
  BY <1>2, <1>3 DEF ToSet
<1>5. next \in DepSet(path[m]) /\ next \in Remaining /\ next \in Known /\ next \in Names
  BY <1>1, <1>2, <1>4, NextRemains DEF Remaining, Known
<1>6. /\ Known' = Known /\ Remaining' = Remaining /\ Listing' /\ Closed'
      /\ \A n : DepSet(n)' = DepSet(n)
  <2>1. Known' = Known /\ \A n : DepSet(n)' = DepSet(n)
    BY <1>1 DEF Known, DepSet
  <2>2. \A i : Before(i)' = Before(i)
    BY <1>1 DEF Before
  <2>. QED BY <1>1, <2>1, <2>2 DEF Remaining, Listing, Listed, Closed
<1>. HIDE DEF next, back
<1>7. CASE next \notin ToSet(path)
  <2>1. path' = Append(path, next) /\ raised' = raised /\ phase' = phase
    BY <1>7 DEF TraceCycle, next
  <2>2. /\ path' \in Seq(Names) /\ Len(path') = m + 1 /\ DOMAIN path' = 1 .. m + 1
        /\ path'[m + 1] = next /\ \A i \in 1 .. m : path'[i] = path[i]
    BY <1>3, <1>5, <2>1
  <2>3. ToSet(path') \subseteq Remaining
    BY <1>3, <1>4, <1>5, <2>2 DEF ToSet
  <2>4. \A i \in 1 .. m : path'[i + 1] \in DepSet(path'[i])
    <3>1. ASSUME NEW i \in 1 .. m
          PROVE  path'[i + 1] \in DepSet(path'[i])
      <4>1. CASE i = m
        BY <1>3, <1>5, <2>2, <4>1
      <4>2. CASE i \in 1 .. m - 1
        BY <1>2, <1>3, <2>2, <4>2 DEF Follows
      <4>3. i = m \/ i \in 1 .. m - 1
        <5>1. m \in Nat
          BY <1>3
        <5>. HIDE DEF m
        <5>. QED BY <5>1
      <4>. QED BY <4>1, <4>2, <4>3
    <3>. QED BY <3>1
  <2>5. Follows(path)'
    BY <1>3, <1>6, <2>2, <2>4 DEF Follows
  <2>6. TraceInv'
    BY <1>1, <1>2, <1>3, <1>6, <2>1, <2>2, <2>3, <2>5 DEF TraceInv
  <2>7. TypeOK'
    BY <1>1, <2>1, <2>2 DEF TypeOK
  <2>. QED BY <1>1, <1>6, <2>1, <2>6, <2>7 DEF IInv, SortInv, ExecutionInv
<1>8. CASE next \in ToSet(path)
  <2>. DEFINE loop == SubSeq(path, back, m)
  <2>1. path' = Append(loop, next) /\ raised' = "cycle" /\ phase' = "idle"
    BY <1>8 DEF TraceCycle, next, back
  <2>2. back \in 1 .. m /\ path[back] = next
    <3>. DEFINE at == {i \in 1 .. m : path[i] = next}
    <3>1. at # {} /\ at \in SUBSET Nat
      BY <1>3, <1>8 DEF ToSet
    <3>2. \E i \in at : \A j \in at : i <= j
      BY <3>1, LeastNatural
    <3>3. back \in at
      BY <3>1, <3>2 DEF back, SelectInSeq, Min
    <3>. QED BY <3>3
  <2>3. /\ loop \in Seq(Names) /\ Len(loop) = m - back + 1
        /\ \A i \in 1 .. m - back + 1 : loop[i] = path[back + i - 1]
    BY <1>3, <2>2
  <2>. DEFINE k == m - back + 1
  <2>4. /\ k \in Nat \ {0} /\ path' \in Seq(Names) /\ Len(path') = k + 1
        /\ DOMAIN path' = 1 .. k + 1
        /\ path'[k + 1] = next /\ \A i \in 1 .. k : path'[i] = path[back + i - 1]
    <3>1. k \in Nat \ {0}
      BY <1>3, <2>2
    <3>. HIDE DEF loop
    <3>. QED BY <1>5, <2>1, <2>3, <3>1
  <2>5. path'[1] = next /\ path'[Len(path')] = next
    BY <1>3, <2>2, <2>4
  <2>6. ASSUME NEW i \in 1 .. k
        PROVE  path'[i + 1] \in DepSet(path'[i]) /\ path'[i] \in Remaining
    <3>1. back + i - 1 \in 1 .. m /\ path'[i] = path[back + i - 1]
      BY <1>3, <2>2, <2>4
    <3>2. CASE i = k
      <4>1. back + i - 1 = m /\ path'[i + 1] = next
        BY <1>3, <2>2, <2>4, <3>2
      <4>. QED BY <1>4, <1>5, <3>1, <4>1
    <3>3. CASE i \in 1 .. k - 1
      <4>1. i + 1 \in 1 .. k /\ back + i - 1 \in 1 .. m - 1
        BY <1>3, <2>2, <2>4, <3>3
      <4>2. path'[i + 1] = path[(back + i - 1) + 1]
        <5>1. path'[i + 1] = path[back + (i + 1) - 1]
          BY <2>4, <4>1
        <5>2. back + (i + 1) - 1 = (back + i - 1) + 1
          BY <1>3, <2>2
        <5>. QED BY <5>1, <5>2
      <4>. QED BY <1>2, <1>4, <3>1, <4>1, <4>2 DEF Follows
    <3>. QED BY <2>4, <3>2, <3>3
  <2>. HIDE DEF k
  <2>7. ToSet(path') \subseteq Known
    <3>1. \A i \in 1 .. k + 1 : path'[i] \in Known
      BY <1>5, <2>4, <2>6 DEF Remaining
    <3>. QED BY <2>4, <3>1 DEF ToSet
  <2>8. Follows(path)'
    BY <1>6, <2>4, <2>6 DEF Follows
  <2>9. TraceInv'
    BY <1>6, <2>1, <2>4, <2>5, <2>7, <2>8 DEF TraceInv
  <2>10. TypeOK'
    BY <1>1, <2>1, <2>4 DEF TypeOK
  <2>. QED BY <2>1, <2>9, <2>10 DEF IInv, SortInv, ExecutionInv
<1>. QED BY <1>7, <1>8

LEMMA Kept ==
  ASSUME UNCHANGED <<stages, order>>
  PROVE  /\ Known' = Known /\ Remaining' = Remaining /\ \A n : DepSet(n)' = DepSet(n)
         /\ Closed' = Closed /\ Listing' = Listing /\ \A i : Before(i)' = Before(i)
<1>1. Known' = Known /\ \A n : DepSet(n)' = DepSet(n)
  BY DEF Known, DepSet
<1>2. \A i : Before(i)' = Before(i)
  BY DEF Before
<1>3. Remaining' = Remaining /\ Listed' = Listed
  BY <1>1 DEF Remaining, Listed
<1>4. Closed' = Closed
  BY <1>1 DEF Closed
<1>5. Listing' = Listing
  BY <1>1, <1>2, <1>3 DEF Listing
<1>. QED BY <1>1, <1>2, <1>3, <1>4, <1>5

(* In the other steps that keep the paths and what was raised: *)
LEMMA KeptTrace ==
  ASSUME IInv, UNCHANGED <<stages, order, path, raised>>, phase' # "tracing",
         phase = "idle" => phase' = "idle"
  PROVE  TraceInv'
<1>1. Known' = Known /\ \A n : DepSet(n)' = DepSet(n)
  BY Kept
<1>2. Follows(path)' = Follows(path)
  BY <1>1 DEF Follows
<1>. QED BY <1>1, <1>2 DEF TraceInv, IInv

(* A registration changes nothing for the path of an earlier exception.    *)
LEMMA AddedInv ==
  ASSUME IInv, NEW n \in Names, NEW deps \in DepLists, AddStage(n, deps)
  PROVE  IInv'
<1>1. /\ phase = "idle" /\ phase' = "idle" /\ TypeOK
      /\ UNCHANGED <<inDegree, queue, order, path, raised, position, results,
                     failedAncestors, runs>>
  BY DEF AddStage, IInv, sort, execution
<1>2. /\ Known' = Known \cup {n} /\ n \notin Known /\ Known \subseteq Names
      /\ \A m \in Names \ {n} : DepSet(m)' = DepSet(m)
      /\ stages' \in [Names -> DepLists \cup {None}]
  BY <1>1, Registered DEF Known
<1>3. TypeOK'
  BY <1>1, <1>2 DEF TypeOK
<1>4. TraceInv'
  <2>. SUFFICES ASSUME raised = "cycle"
                PROVE  ToSet(path) \subseteq Known' /\ Follows(path)'
                       /\ Len(path) > 1 /\ path[1] = path[Len(path)]
    BY <1>1 DEF TraceInv
  <2>1. /\ ToSet(path) \subseteq Known /\ Follows(path)
        /\ Len(path) > 1 /\ path[1] = path[Len(path)]
    BY DEF IInv, TraceInv
  <2>2. \A i \in 1 .. Len(path) : path[i] \in Known
    BY <1>1, <2>1 DEF ToSet, TypeOK
  <2>3. \A i \in 1 .. Len(path) : DepSet(path[i])' = DepSet(path[i])
    <3>1. \A m \in Known : m \in Names \ {n}
      BY <1>2
    <3>. QED BY <1>1, <1>2, <2>2, <3>1 DEF DepSet
  <2>4. path \in Seq(Names) /\ Len(path) \in Nat
    BY <1>1 DEF TypeOK
  <2>5. Follows(path)'
    BY <1>1, <2>1, <2>3, <2>4 DEF Follows
  <2>. QED BY <1>2, <2>1, <2>5
<1>. QED BY <1>1, <1>3, <1>4 DEF IInv, SortInv, ExecutionInv

LEMMA RejectedInv ==
  ASSUME IInv, RejectUnknown
  PROVE  IInv'
<1>1. /\ phase = "idle" /\ phase' = "idle" /\ raised' = "unknown" /\ TypeOK
      /\ order' = <<>> /\ path' = <<>> /\ position' = 0 /\ failedAncestors' = {}
      /\ UNCHANGED <<stages, inDegree, queue, results>>
      /\ runs' = runs + 1 /\ runs < MaxRuns
  BY DEF RejectUnknown, BeginRun, IInv
<1>2. order' \in Seq(Names) /\ path' \in Seq(Names) /\ Len(order') = 0
  BY <1>1
<1>3. runs' \in 0 .. MaxRuns
  BY <1>1, DagAssumption DEF TypeOK
<1>4. TypeOK'
  BY <1>1, <1>2, <1>3 DEF TypeOK
<1>. QED BY <1>1, <1>4 DEF IInv, SortInv, TraceInv, ExecutionInv

LEMMA StartedInv ==
  ASSUME IInv, StartSort
  PROVE  IInv'
<1>1. phase' = "sorting" /\ raised' = "none"
  BY DEF StartSort
<1>. QED BY <1>1, Started DEF IInv, TraceInv, ExecutionInv

LEMMA ExecutesInv ==
  ASSUME IInv, StartExecution
  PROVE  IInv'
<1>1. /\ phase = "sorting" /\ phase' = "executing" /\ Remaining = {} /\ TypeOK
      /\ results' = Unsettled /\ Closed /\ Listing
      /\ UNCHANGED <<stages, inDegree, queue, order, path, raised, position,
                     failedAncestors, runs>>
  BY DEF StartExecution, IInv, sort
<1>2. TypeOK'
  BY <1>1 DEF TypeOK, Unsettled
<1>3. TraceInv'
  BY <1>1, KeptTrace
<1>4. position = 0 /\ failedAncestors = {}
  BY <1>1 DEF IInv, SortInv
<1>5. ExecutionInv'
  BY <1>1, <1>4, Kept DEF ExecutionInv, Before, Unsettled, Known
<1>. QED BY <1>1, <1>2, <1>3, <1>5, Kept DEF IInv, SortInv

LEMMA TracesInv ==
  ASSUME IInv, StartTrace
  PROVE  IInv'
<1>1. /\ phase = "sorting" /\ phase' = "tracing" /\ Remaining # {} /\ queue = <<>>
      /\ path' = <<Sorted(Remaining)[1]>> /\ Closed /\ Listing /\ TypeOK
      /\ UNCHANGED <<stages, inDegree, queue, order, raised, position, results,
                     failedAncestors, runs>>
  BY DEF StartTrace, IInv, sort, execution
<1>2. raised # "cycle"
  BY <1>1 DEF IInv, TraceInv
<1>3. Remaining \in SUBSET Names
  BY DEF Remaining, Known
<1>4. Sorted(Remaining)[1] \in Remaining
  <2>1. /\ Sorted(Remaining) \in Seq(Remaining) /\ ToSet(Sorted(Remaining)) = Remaining
    BY <1>3, SortedLists
  <2>2. DOMAIN Sorted(Remaining) # {}
    BY <1>1, <2>1 DEF ToSet
  <2>. QED BY <2>1, <2>2
<1>5. path' \in Seq(Names) /\ Len(path') = 1 /\ ToSet(path') \subseteq Remaining
  BY <1>1, <1>3, <1>4 DEF ToSet
<1>6. \A n \in Remaining : DepSet(n) \cap Remaining # {}
  BY <1>1, LeftBlocked
<1>7. Follows(path)'
  BY <1>5 DEF Follows
<1>8. TraceInv'
  BY <1>1, <1>2, <1>5, <1>6, <1>7, Kept DEF TraceInv
<1>9. TypeOK'
  BY <1>1, <1>5 DEF TypeOK
<1>. QED BY <1>1, <1>8, <1>9, Kept DEF IInv, SortInv, ExecutionInv
-----------------------------------------------------------------------------
(* Execution *)

(* The stage at the position: what it needs is settled, itself it is not.  *)
LEMMA AtPosition ==
  ASSUME IInv, Executing
  PROVE  /\ TypeOK /\ Closed /\ Listing /\ Remaining = {} /\ Known = Listed
         /\ position + 1 \in 1 .. Len(order) /\ Current = order[position + 1]
         /\ Current \in Known /\ Current \notin Before(position + 1)
         /\ results[Current] = "none"
         /\ DepSet(Current) \subseteq Before(position + 1)
         /\ Before(position + 2) = Before(position + 1) \cup {Current}
<1>1. /\ phase = "executing" /\ position < Len(order) /\ TypeOK /\ Closed /\ Listing
      /\ Remaining = {}
  BY DEF Executing, IInv, ExecutionInv
<1>2. order \in Seq(Names) /\ Len(order) \in Nat /\ position \in Nat
  BY <1>1 DEF TypeOK
<1>3. position + 1 \in 1 .. Len(order) /\ Current = order[position + 1]
  BY <1>1, <1>2 DEF Current
<1>4. Known = Listed
  BY <1>1 DEF Remaining, Listing, Listed
<1>5. Listed = {order[i] : i \in 1 .. Len(order)}
  BY <1>2 DEF Listed, ToSet
<1>6. Current \in Known /\ Current \notin Before(position + 1)
  <2>1. Current \in Known
    BY <1>3, <1>4, <1>5
  <2>2. ASSUME NEW j \in 1 .. position, order[j] = Current
        PROVE  FALSE
    <3>1. j \in 1 .. Len(order) /\ j # position + 1
      BY <1>1, <1>2
    <3>. QED BY <1>1, <1>3, <2>2, <3>1 DEF Listing
  <2>3. (position + 1) - 1 = position
    BY <1>2
  <2>. QED BY <2>1, <2>2, <2>3 DEF Before
<1>7. results[Current] = "none"
  BY <1>1, <1>6 DEF IInv, ExecutionInv
<1>8. DepSet(Current) \subseteq Before(position + 1)
  BY <1>1, <1>3 DEF Listing
<1>9. Before(position + 2) = Before(position + 1) \cup {Current}
  <2>1. 1 .. position + 1 = (1 .. position) \cup {position + 1}
    BY <1>2
  <2>2. (position + 1) - 1 = position /\ (position + 2) - 1 = position + 1
    BY <1>2
  <2>. QED BY <1>3, <2>1, <2>2 DEF Before
<1>. QED BY <1>1, <1>3, <1>4, <1>6, <1>7, <1>8, <1>9

LEMMA FinishedInv ==
  ASSUME IInv, Executing, NEW status \in {"SUCCESS", "FAILED", "SKIPPED"}, Finish(status)
  PROVE  IInv'
<1>. DEFINE c == Current
<1>1. /\ phase = "executing" /\ phase' = "executing" /\ position' = position + 1
      /\ results' = [results EXCEPT ![c] = status]
      /\ failedAncestors' = IF status = "SUCCESS" THEN failedAncestors
                            ELSE failedAncestors \cup {c}
      /\ UNCHANGED <<stages, inDegree, queue, order, path, raised, runs>>
  BY DEF Executing, Finish, sort
<1>2. /\ TypeOK /\ c \in Names /\ position + 1 \in 1 .. Len(order) /\ Remaining = {}
      /\ c \notin Before(position + 1) /\ Before(position + 2) = Before(position + 1) \cup {c}
      /\ Closed /\ Listing /\ position \in Nat
  BY AtPosition DEF Known, TypeOK
<1>. HIDE DEF c
<1>3. /\ results'[c] = status /\ \A n \in Names \ {c} : results'[n] = results[n]
      /\ results' \in [Names -> {"none", "SUCCESS", "FAILED", "SKIPPED"}]
  BY <1>1, <1>2 DEF TypeOK
<1>4. TypeOK'
  BY <1>1, <1>2, <1>3 DEF TypeOK
<1>5. ExecutionInv'
  <2>1. Before(position + 1)' = Before(position + 1) \cup {c}
    <3>1. (position + 1)' = position + 2
      BY <1>1, <1>2
    <3>2. Before(position + 1)' = Before(position + 2)
      BY <1>1, <3>1 DEF Before
    <3>. QED BY <1>2, <3>2
  <2>2. /\ \A n \in Known : results[n] # "none" <=> n \in Before(position + 1)
        /\ failedAncestors = {n \in Before(position + 1) : results[n] \in {"FAILED", "SKIPPED"}}
    BY <1>1 DEF IInv, ExecutionInv
  <2>3. Before(position + 1) \subseteq Names /\ Known \subseteq Names
    <3>1. \A j \in 1 .. position : j \in 1 .. Len(order)
      BY <1>2
    <3>2. \A j \in 1 .. Len(order) : order[j] \in Names
      BY <1>2 DEF TypeOK
    <3>3. (position + 1) - 1 = position
      BY <1>2
    <3>. QED BY <3>1, <3>2, <3>3 DEF Before, Known
  <2>4. failedAncestors' =
          {n \in Before(position + 1) \cup {c} : results'[n] \in {"FAILED", "SKIPPED"}}
    BY <1>1, <1>2, <1>3, <2>2, <2>3
  <2>5. \A n \in Known : results'[n] # "none" <=> n \in Before(position + 1) \cup {c}
    BY <1>2, <1>3, <2>2, <2>3
  <2>. QED BY <1>1, <1>2, <2>1, <2>4, <2>5, Kept DEF ExecutionInv
<1>6. TraceInv'
  BY <1>1, KeptTrace
<1>. QED BY <1>1, <1>2, <1>4, <1>5, <1>6, Kept DEF IInv, SortInv

LEMMA EndedInv ==
  ASSUME IInv, ReturnResult \/ Interrupt
  PROVE  IInv'
<1>1. /\ phase = "executing" /\ phase' = "idle" /\ TypeOK
      /\ results' \in {results, Unsettled}
      /\ UNCHANGED <<stages, inDegree, queue, order, path, raised, position,
                     failedAncestors, runs>>
  BY DEF ReturnResult, Interrupt, Executing, IInv, sort, execution
<1>2. TypeOK'
  BY <1>1 DEF TypeOK, Unsettled
<1>3. TraceInv'
  BY <1>1, KeptTrace
<1>. QED BY <1>1, <1>2, <1>3 DEF IInv, SortInv, ExecutionInv

-----------------------------------------------------------------------------
(* The invariant *)

LEMMA InitInv == Init => IInv
<1>. SUFFICES ASSUME Init
              PROVE  IInv
  OBVIOUS
<1>1. /\ phase = "idle" /\ raised = "none" /\ position = 0
      /\ order = <<>> /\ queue = <<>> /\ path = <<>>
  BY DEF Init
<1>2. TypeOK
  BY <1>1, DagAssumption DEF Init, TypeOK, Unsettled
<1>. QED BY <1>1, <1>2 DEF IInv, SortInv, TraceInv, ExecutionInv

LEMMA NextInv == IInv /\ [Next]_vars => IInv'
<1>. SUFFICES ASSUME IInv, [Next]_vars
              PROVE  IInv'
  OBVIOUS
<1>1. ASSUME NEW n \in Names, NEW deps \in DepLists, AddStage(n, deps)
      PROVE  IInv'
  BY <1>1, AddedInv
<1>2. ASSUME RejectUnknown
      PROVE  IInv'
  BY <1>2, RejectedInv
<1>3. ASSUME StartSort
      PROVE  IInv'
  BY <1>3, StartedInv
<1>4. ASSUME PopNode
      PROVE  IInv'
  BY <1>4, PoppedInv
<1>5. ASSUME StartExecution
      PROVE  IInv'
  BY <1>5, ExecutesInv
<1>6. ASSUME StartTrace
      PROVE  IInv'
  BY <1>6, TracesInv
<1>7. ASSUME TraceCycle
      PROVE  IInv'
  BY <1>7, TracedInv
<1>8. ASSUME SkipStage \/ Succeed \/ Fail
      PROVE  IInv'
  BY <1>8, FinishedInv DEF SkipStage, Succeed, Fail
<1>9. ASSUME ReturnResult \/ Interrupt
      PROVE  IInv'
  BY <1>9, EndedInv
<1>10. ASSUME UNCHANGED vars
       PROVE  IInv'
  <2>1. UNCHANGED <<stages, phase, inDegree, queue, order, path, raised, position, results,
                    failedAncestors, runs>>
    BY <1>10 DEF vars, sort, execution
  <2>2. TypeOK' = TypeOK
    BY <2>1 DEF TypeOK
  <2>3. SortInv' = SortInv
    BY <2>1, Kept DEF SortInv, Pending, Ready, Listed
  <2>4. TraceInv' = TraceInv
    <3>1. Follows(path)' = Follows(path)
      BY <2>1, Kept DEF Follows
    <3>. QED BY <2>1, <3>1, Kept DEF TraceInv
  <2>5. ExecutionInv' = ExecutionInv
    BY <2>1, Kept DEF ExecutionInv
  <2>. QED BY <2>1, <2>2, <2>3, <2>4, <2>5, Kept DEF IInv
<1>. QED BY <1>1, <1>2, <1>3, <1>4, <1>5, <1>6, <1>7, <1>8, <1>9, <1>10 DEF Next

(* The inductive invariant of every behaviour. *)
LEMMA Invariant == Spec => []IInv
BY InitInv, NextInv, PTL DEF Spec

(* Every variable has its type, for any finite set of stages. *)
THEOREM TypeCorrect == Spec => []TypeOK
<1>1. IInv => TypeOK
  BY DEF IInv
<1>. QED BY <1>1, Invariant, PTL

(* The sort lists stages once and after what they need, and its ready list *)
(* is exact, for any lists of dependencies, repeated or circular.          *)
THEOREM SortIsSound == Spec => []SortSound
<1>1. IInv => SortSound
  <2>. SUFFICES ASSUME IInv, phase = "sorting"
                PROVE  /\ IsInjective(order) /\ IsInjective(queue)
                       /\ ToSet(queue) = {n \in Remaining : DepSet(n) \subseteq ToSet(order)}
                       /\ \A i \in DOMAIN order :
                            DepSet(order[i]) \subseteq ToSet(SubSeq(order, 1, i - 1))
    BY DEF SortSound
  <2>1. TypeOK /\ Listing /\ SortInv
    BY DEF IInv
  <2>2. /\ order \in Seq(Names) /\ queue \in Seq(Names) /\ Len(order) \in Nat
        /\ DOMAIN order = 1 .. Len(order) /\ DOMAIN queue = 1 .. Len(queue)
    BY <2>1 DEF TypeOK
  <2>3. IsInjective(order) /\ IsInjective(queue)
    BY <2>1, <2>2 DEF IsInjective, Listing, SortInv
  <2>4. ToSet(queue) = {n \in Remaining : DepSet(n) \subseteq ToSet(order)}
    BY <2>1 DEF SortInv, Ready, Listed
  <2>5. ASSUME NEW i \in 1 .. Len(order)
        PROVE  DepSet(order[i]) \subseteq ToSet(SubSeq(order, 1, i - 1))
    <3>1. Len(SubSeq(order, 1, i - 1)) = i - 1 /\ SubSeq(order, 1, i - 1) \in Seq(Names)
      BY <2>2
    <3>2. \A j \in 1 .. i - 1 : SubSeq(order, 1, i - 1)[j] = order[j]
      BY <2>2
    <3>3. DOMAIN SubSeq(order, 1, i - 1) = 1 .. i - 1
      BY <2>2, <3>1
    <3>4. ToSet(SubSeq(order, 1, i - 1)) = Before(i)
      BY <3>2, <3>3 DEF ToSet, Before
    <3>. QED BY <2>1, <3>4 DEF Listing
  <2>. QED BY <2>2, <2>3, <2>4, <2>5
<1>. QED BY <1>1, Invariant, PTL

(* What an unfinished sort leaves waits for each other: the search for a   *)
(* cycle never backs up.                                                   *)
THEOREM LeftoversBlocked == Spec => []RemainingBlocked
<1>1. IInv => RemainingBlocked
  BY DEF IInv, TraceInv, RemainingBlocked
<1>. QED BY <1>1, Invariant, PTL

(* The path in the exception is a cycle of the dependencies, also after    *)
(* more stages have been registered.                                       *)
THEOREM CycleReported == Spec => []ReportsCycle
<1>1. IInv => ReportsCycle
  BY DEF IInv, TraceInv, ReportsCycle, Follows
<1>. QED BY <1>1, Invariant, PTL

-----------------------------------------------------------------------------
(* The refinement of StageContract *)

Deps == [n \in Names |-> IF stages[n] = None THEN None ELSE DepSet(n)]

LEMMA DepsMapped ==
  ASSUME TypeOK
  PROVE  /\ Deps \in [Names -> (SUBSET Nat) \cup {None}]
         /\ \A n \in Names : Deps[n] = None <=> n \notin Known
         /\ \A n \in Known : Deps[n] = DepSet(n)
         /\ Contract!Stages = Known
<1>1. \A n \in Known : DepSet(n) # None
  BY StagesTyped, DagAssumption DEF DepSet
<1>2. \A n \in Names : Deps[n] = None <=> n \notin Known
  BY <1>1 DEF Deps, Known
<1>3. Contract!Stages = Known
  BY <1>2 DEF Contract!Stages, Deps, Known
<1>. QED BY <1>2, <1>3, StagesTyped DEF Deps, Known
LEMMA SameContract ==
  ASSUME UNCHANGED stages, (phase' = "executing") = (phase = "executing"),
         UNCHANGED results
  PROVE  UNCHANGED Contract!contractVars
BY DEF Contract!contractVars, DepSet

LEMMA AddRegisters ==
  ASSUME IInv, NEW n \in Names, NEW deps \in DepLists, AddStage(n, deps)
  PROVE  Contract!Register(n)
<1>1. TypeOK /\ phase = "idle" /\ phase' = "idle" /\ results' = results /\ stages[n] = None
  BY DEF IInv, AddStage, execution
<1>2. /\ Deps'[n] = ToSet(deps) /\ ToSet(deps) # None
      /\ \A m \in Names \ {n} : Deps'[m] = Deps[m]
  <2>1. /\ n \in Known' /\ stages'[n] # None /\ DepSet(n)' = ToSet(deps)
        /\ \A m \in Names \ {n} : stages'[m] = stages[m] /\ DepSet(m)' = DepSet(m)
    BY <1>1, Registered DEF Known
  <2>. QED BY <2>1, DagAssumption DEF Deps
<1>3. Deps' = [Deps EXCEPT ![n] = Deps'[n]]
  BY <1>2 DEF Deps
<1>4. Deps[n] = None
  BY <1>1 DEF Deps
<1>. QED BY <1>1, <1>2, <1>3, <1>4 DEF Contract!Register, Deps

LEMMA ExecutionBegins ==
  ASSUME IInv, StartExecution
  PROVE  Contract!Begin
<1>1. /\ phase = "sorting" /\ phase' = "executing" /\ results' = Unsettled
      /\ stages' = stages /\ TypeOK /\ Closed
  BY DEF IInv, StartExecution
<1>2. \A n \in Contract!Stages : Deps[n] \subseteq Contract!Stages
  BY <1>1, DepsMapped DEF Closed
<1>3. results' = Contract!Unsettled
  BY <1>1 DEF Unsettled, Contract!Unsettled
<1>4. Deps' = Deps
  BY <1>1, Kept DEF Deps, DepSet
<1>. QED BY <1>1, <1>2, <1>3, <1>4 DEF Contract!Begin, Deps

(* What is settled before the position has a result, and failed or was     *)
(* skipped iff it is a failed ancestor.                                    *)
LEMMA FinishSettles ==
  ASSUME IInv, Executing, NEW status \in {"SUCCESS", "FAILED", "SKIPPED"}, Finish(status),
         NEW O, status \in O
  PROVE  Contract!Settle(Current, O)
<1>1. /\ results[Current] = "none" /\ Current \in Known /\ TypeOK /\ Closed
      /\ DepSet(Current) \subseteq Before(position + 1)
  BY AtPosition
<1>2. \A d \in DepSet(Current) : results[d] # "none"
  BY <1>1 DEF IInv, ExecutionInv, Executing, Closed
<1>3. results' = [results EXCEPT ![Current] = status] /\ stages' = stages /\ phase' = phase
  BY DEF Finish
<1>4. Deps' = Deps
  BY <1>3, Kept DEF Deps, DepSet
<1>5. Deps[Current] = DepSet(Current)
  BY <1>1, DepsMapped
<1>. QED BY <1>1, <1>2, <1>3, <1>4, <1>5 DEF Contract!Settle, Deps

LEMMA FailedAncestors ==
  ASSUME IInv, Executing, NEW d \in DepSet(Current)
  PROVE  /\ d \in failedAncestors <=> results[d] \in {"FAILED", "SKIPPED"}
         /\ d \notin failedAncestors => results[d] = "SUCCESS"
<1>1. TypeOK /\ d \in Before(position + 1) /\ d \in Names /\ d \in Known
  BY AtPosition DEF Known, Closed
<1>2. results[d] # "none" /\ results[d] \in {"none", "SUCCESS", "FAILED", "SKIPPED"}
  BY <1>1 DEF IInv, ExecutionInv, Executing, TypeOK
<1>3. d \in failedAncestors <=> results[d] \in {"FAILED", "SKIPPED"}
  BY <1>1 DEF IInv, ExecutionInv, Executing
<1>. QED BY <1>2, <1>3

LEMMA StageSettled ==
  ASSUME IInv, SkipStage \/ Succeed \/ Fail
  PROVE  \E n \in Names : Contract!Execute(n) \/ Contract!Skip(n)
<1>. DEFINE c == Current
<1>1. Executing /\ phase = "executing"
  BY DEF SkipStage, Succeed, Fail, Executing
<1>2. c \in Known /\ c \in Names /\ TypeOK
  BY <1>1, AtPosition DEF Known
<1>3. c \in Contract!Stages /\ Deps[c] = DepSet(c)
  BY <1>2, DepsMapped
<1>4. CASE SkipStage
  <2>1. Blocked(c) /\ Finish("SKIPPED")
    BY <1>4 DEF SkipStage
  <2>2. \E d \in DepSet(c) : results[d] \in {"FAILED", "SKIPPED"}
    BY <1>1, <2>1, FailedAncestors DEF Blocked
  <2>3. Contract!Settle(c, {"SKIPPED"})
    BY <1>1, <2>1, FinishSettles
  <2>4. Contract!Skip(c)
    BY <1>1, <1>3, <2>2, <2>3 DEF Contract!Skip, Deps
  <2>. QED BY <1>2, <2>4
<1>5. CASE Succeed \/ Fail
  <2>1. ~Blocked(c) /\ (Finish("SUCCESS") \/ Finish("FAILED"))
    BY <1>5 DEF Succeed, Fail
  <2>2. \A d \in DepSet(c) : results[d] = "SUCCESS"
    BY <1>1, <2>1, FailedAncestors DEF Blocked
  <2>3. Contract!Settle(c, {"SUCCESS", "FAILED"})
    BY <1>1, <2>1, FinishSettles
  <2>4. Contract!Execute(c)
    BY <1>1, <1>3, <2>2, <2>3 DEF Contract!Execute, Deps
  <2>. QED BY <1>2, <2>4
<1>. QED BY <1>4, <1>5

LEMMA RunReturns ==
  ASSUME IInv, ReturnResult
  PROVE  Contract!Return
<1>1. /\ phase = "executing" /\ phase' = "idle" /\ position = Len(order)
      /\ stages' = stages /\ results' = results /\ TypeOK /\ Remaining = {} /\ Listing
  BY DEF ReturnResult, IInv, execution, ExecutionInv
<1>2. \A n \in Known : n \in Before(position + 1)
  <2>1. Listed = {order[i] : i \in 1 .. Len(order)} /\ Len(order) \in Nat
    <3>1. order \in Seq(Names)
      BY <1>1 DEF TypeOK
    <3>. QED BY <3>1 DEF Listed, ToSet
  <2>2. Before(position + 1) = Listed
    BY <1>1, <2>1 DEF Before
  <2>. QED BY <1>1, <2>2 DEF Remaining, Listed
<1>3. \A n \in Contract!Stages : results[n] # "none"
  BY <1>1, <1>2, DepsMapped DEF IInv, ExecutionInv
<1>. QED BY <1>1, <1>3 DEF Contract!Return, DepSet

LEMMA InterruptAbandons ==
  ASSUME IInv, Interrupt
  PROVE  Contract!Abandon
<1>1. /\ phase = "executing" /\ phase' = "idle" /\ stages' = stages
      /\ results' = Contract!Unsettled
  BY DEF Interrupt, Executing, Unsettled, Contract!Unsettled
<1>. QED BY <1>1 DEF Contract!Abandon, DepSet

(* Each step of the pipeline is a step of the contract or none of it.      *)
LEMMA StepMapped == IInv /\ [Next]_vars => [Contract!Next]_(Contract!contractVars)
<1>. SUFFICES ASSUME IInv, [Next]_vars
              PROVE  [Contract!Next]_(Contract!contractVars)
  OBVIOUS
<1>1. ASSUME NEW n \in Names, NEW deps \in DepLists, AddStage(n, deps)
      PROVE  Contract!Next
  BY <1>1, AddRegisters DEF Contract!Next
<1>2. CASE RejectUnknown
  BY <1>2, SameContract DEF RejectUnknown, BeginRun
<1>3. CASE StartSort
  BY <1>3, SameContract DEF StartSort, BeginRun
<1>4. CASE PopNode
  BY <1>4, SameContract DEF PopNode, execution
<1>5. CASE StartExecution
  BY <1>5, ExecutionBegins DEF Contract!Next
<1>6. CASE StartTrace
  BY <1>6, SameContract DEF StartTrace, execution
<1>7. CASE TraceCycle
  <2>1. stages' = stages /\ results' = results /\ phase = "tracing" /\ phase' # "executing"
    BY <1>7 DEF TraceCycle, execution
  <2>. QED BY <2>1, SameContract
<1>8. CASE SkipStage \/ Succeed \/ Fail
  BY <1>8, StageSettled DEF Contract!Next
<1>9. CASE ReturnResult
  BY <1>9, RunReturns DEF Contract!Next
<1>10. CASE Interrupt
  BY <1>10, InterruptAbandons DEF Contract!Next
<1>11. CASE UNCHANGED vars
  BY <1>11, SameContract DEF vars, execution
<1>. QED BY <1>1, <1>2, <1>3, <1>4, <1>5, <1>6, <1>7, <1>8, <1>9, <1>10, <1>11 DEF Next

(* The pipeline keeps StageContract: no stage runs before what it needs or *)
(* after a failure of it, and none is left out.                            *)
THEOREM KeepsContract == Spec => ImplementsContract
<1>1. Init => Contract!Init
  BY DEF Init, Contract!Init, Unsettled, Contract!Unsettled
<1>. QED BY <1>1, Invariant, StepMapped, PTL DEF Spec, Contract!Spec, ImplementsContract
=============================================================================
