---------------------------- MODULE Bundle_proofs ----------------------------
(***************************************************************************)
(* What becomes of the artifacts of a bundle.  The first part is about its *)
(* mappings (CuratedModel): for every set of mappings, every sequence of   *)
(* reviews and every way in which the ids of splits and merges collide,    *)
(* the log explains the statuses, and every bonus has its reason.          *)
(* Compilations do not touch the review: every behaviour of the two        *)
(* together is a behaviour of the review, and keeps what it guarantees.    *)
(*                                                                         *)
(* The second part is about the stages (AnalysisSession): whatever is      *)
(* skipped, raised or edited meanwhile, a session derives its artifacts in *)
(* order, a run is about one graph, a package that is certified and what a *)
(* reader finds after a success are of the run itself.  StageInv is        *)
(* inductive: of a session it knows the stages that are still to be done   *)
(* and what they will find, of a run how far it has come and what every    *)
(* file it settled was written from.                                       *)
(***************************************************************************)
EXTENDS CuratedModel, AnalysisSession, FiniteSetTheorems, WellFoundedInduction, TLAPS

-----------------------------------------------------------------------------
(* Sequences *)

LEMMA GreatestNumber ==
  ASSUME NEW n \in Nat, NEW S \in SUBSET (1..n), S # {}
  PROVE  Max(S) \in S /\ \A j \in S : j <= Max(S)
<1>0. \A i \in S : i \in Int
  OBVIOUS
<1>. DEFINE T == {n - i : i \in S}
<1>1. T \in SUBSET Nat /\ T # {}
  <2>1. \A i \in S : i \in Int /\ i <= n
    OBVIOUS
  <2>2. \A i \in S : n - i \in Nat
    BY <2>1
  <2>. QED BY <2>2
<1>2. PICK m \in T : \A j \in T : ~(<<j, m>> \in OpToRel(<, Nat))
  BY <1>1, NatLessThanWellFounded, WFMin
<1>3. PICK i \in S : m = n - i
  BY <1>2
<1>4. ASSUME NEW j \in S
      PROVE  j <= i
  <2>1. n - j \in Nat /\ m \in Nat /\ ~(<<n - j, m>> \in OpToRel(<, Nat))
    <3>1. n - j \in T
      OBVIOUS
    <3>. HIDE DEF T
    <3>. QED BY <1>1, <1>2, <3>1
  <2>2. ~(n - j < m)
    BY <2>1 DEF OpToRel
  <2>3. i \in Int /\ j \in Int
    BY <1>0
  <2>. QED BY <1>3, <2>2, <2>3
<1>5. \E x \in S : \A y \in S : x >= y
  BY <1>4
<1>. QED BY <1>5 DEF Max

(* The positions that a filter picks: all that are in the set, in order.   *)
Picks(f, n, s, S) ==
  /\ n \in Nat /\ f \in [1..n -> {i \in DOMAIN s : s[i] \in S}]
  /\ \A i, j \in 1..n : i < j => f[i] < f[j]
  /\ \A i \in DOMAIN s : s[i] \in S => \E k \in 1..n : f[k] = i
  /\ Filtered(s, S) = [k \in 1..n |-> s[f[k]]]

LEMMA FilterPicks ==
  ASSUME NEW T, NEW s \in Seq(T), NEW S
  PROVE  \E f, n : Picks(f, n, s, S)
<1>. DEFINE at == {i \in DOMAIN s : s[i] \in S}
            n == Cardinality(at)
            UpTo(i) == {j \in at : j <= i}
            rank == [i \in at |-> Cardinality(UpTo(i))]
            f == [k \in 1..n |-> CHOOSE i \in at : Cardinality(UpTo(i)) = k]
<1>1. at \in SUBSET (1..Len(s)) /\ IsFiniteSet(at) /\ n \in Nat
  <2>1. at \in SUBSET (1..Len(s)) /\ Len(s) \in Nat
    OBVIOUS
  <2>2. IsFiniteSet(1..Len(s))
    BY <2>1, FS_Interval
  <2>3. IsFiniteSet(at)
    BY <2>1, <2>2, FS_Subset
  <2>. QED BY <2>1, <2>3, FS_CardinalityType
<1>0. at \in SUBSET Nat
  BY <1>1
<1>. HIDE DEF at
<1>2. ASSUME NEW x \in at
      PROVE  IsFiniteSet(UpTo(x)) /\ Cardinality(UpTo(x)) \in 1..n
  <2>1. UpTo(x) \in SUBSET at
    OBVIOUS
  <2>2. IsFiniteSet(UpTo(x)) /\ Cardinality(UpTo(x)) <= n
    BY <1>1, <2>1, FS_Subset
  <2>3. UpTo(x) # {}
    BY <1>0
  <2>4. Cardinality(UpTo(x)) \in Nat /\ Cardinality(UpTo(x)) # 0
    BY <2>2, <2>3, FS_EmptySet, FS_CardinalityType
  <2>. QED BY <1>1, <2>2, <2>4
<1>3. ASSUME NEW x \in at, NEW y \in at, x < y
      PROVE  rank[x] < rank[y]
  <2>1. UpTo(x) \in SUBSET UpTo(y)
    <3>1. \A z \in at : z <= x => z <= y
      BY <1>0, <1>3
    <3>. QED BY <3>1
  <2>2. y \in UpTo(y) /\ y \notin UpTo(x)
    BY <1>0, <1>3
  <2>3. Cardinality(UpTo(x)) <= Cardinality(UpTo(y))
        /\ Cardinality(UpTo(x)) # Cardinality(UpTo(y))
    BY <1>2, <2>1, <2>2, FS_Subset
  <2>4. rank[x] = Cardinality(UpTo(x)) /\ rank[y] = Cardinality(UpTo(y))
    OBVIOUS
  <2>5. Cardinality(UpTo(x)) \in Int /\ Cardinality(UpTo(y)) \in Int
    <3>1. \A z \in 1..n : z \in Int
      BY <1>1
    <3>2. Cardinality(UpTo(x)) \in 1..n /\ Cardinality(UpTo(y)) \in 1..n
      BY <1>2
    <3>. QED BY <3>1, <3>2
  <2>. HIDE DEF rank, UpTo
  <2>. QED BY <2>3, <2>4, <2>5
<1>4. rank \in [at -> 1..n]
  BY <1>2
<1>5. \A x, y \in at : rank[x] = rank[y] => x = y
  <2>. SUFFICES ASSUME NEW x \in at, NEW y \in at, rank[x] = rank[y], x # y
                PROVE  FALSE
    OBVIOUS
  <2>1. rank[x] \in Int /\ rank[y] \in Int
    BY <1>4, <1>1
  <2>2. x < y \/ y < x
    BY <1>0
  <2>. HIDE DEF rank
  <2>. QED BY <2>1, <2>2, <1>3
<1>8. \A k \in 1..n : \E x \in at : rank[x] = k
  <2>. HIDE DEF rank
  <2>1. rank \in Injection(at, 1..n)
    BY <1>4, <1>5 DEF Injection, IsInjective
  <2>2. IsFiniteSet(1..n) /\ Cardinality(1..n) = n
    <3>. HIDE DEF n
    <3>0. 1 \in Int /\ n \in Int
      BY <1>1
    <3>1. IsFiniteSet(1..n) /\ Cardinality(1..n) = IF 1 > n THEN 0 ELSE n - 1 + 1
      BY <3>0, FS_Interval
    <3>. QED BY <1>1, <3>1
  <2>3. rank \in Surjection(at, 1..n)
    BY <1>1, <2>1, <2>2, FS_Injection
  <2>. QED BY <2>3 DEF Surjection
<1>9. f \in [1..n -> at] /\ \A k \in 1..n : rank[f[k]] = k
  BY <1>8
<1>10. ASSUME NEW i \in 1..n, NEW j \in 1..n, i < j
       PROVE  f[i] < f[j]
  <2>1. f[i] \in at /\ f[j] \in at /\ rank[f[i]] = i /\ rank[f[j]] = j
    BY <1>9
  <2>. HIDE DEF f, rank
  <2>2. f[i] # f[j]
    BY <1>10, <2>1
  <2>3. ~(f[j] < f[i])
    <3>1. f[j] < f[i] => j < i
      BY <1>3, <2>1
    <3>. QED BY <1>1, <1>10, <3>1
  <2>4. f[i] \in Int /\ f[j] \in Int
    <3>1. \A z \in at : z \in Int
      BY <1>0
    <3>. QED BY <2>1, <3>1
  <2>. QED BY <2>2, <2>3, <2>4
<1>11. ASSUME NEW i \in at
       PROVE  \E k \in 1..n : f[k] = i
  <2>1. rank[i] \in 1..n
    BY <1>4
  <2>2. f[rank[i]] \in at /\ rank[f[rank[i]]] = rank[i]
    BY <1>9, <2>1
  <2>. HIDE DEF f, rank
  <2>3. f[rank[i]] = i
    BY <1>5, <2>2
  <2>. QED BY <2>1, <2>3
<1>12. Filtered(s, S) = [k \in 1..n |-> s[f[k]]]
  BY DEF Filtered, at
<1>. HIDE DEF f
<1>13. Picks(f, n, s, S)
  BY <1>1, <1>9, <1>10, <1>11, <1>12 DEF Picks, at
<1>. QED BY <1>13

(* The filter of a sequence keeps what is in the set, and only that.       *)
LEMMA FilterTyped ==
  ASSUME NEW T, NEW s \in Seq(T), NEW S
  PROVE  Filtered(s, S) \in Seq(T) /\ ToSet(Filtered(s, S)) = ToSet(s) \cap S
<1>1. PICK f, n : Picks(f, n, s, S)
  BY FilterPicks
<1>2. /\ n \in Nat /\ Filtered(s, S) = [k \in 1..n |-> s[f[k]]]
      /\ \A k \in 1..n : f[k] \in DOMAIN s /\ s[f[k]] \in S
      /\ \A i \in DOMAIN s : s[i] \in S => \E k \in 1..n : f[k] = i
  BY <1>1 DEF Picks
<1>3. \A k \in 1..n : s[f[k]] \in T
  BY <1>2
<1>4. Filtered(s, S) \in Seq(T) /\ DOMAIN Filtered(s, S) = 1..n
  BY <1>2, <1>3
<1>5. \A k \in 1..n : Filtered(s, S)[k] = s[f[k]]
  BY <1>2
<1>6. ToSet(Filtered(s, S)) = {s[f[k]] : k \in 1..n}
  BY <1>4, <1>5 DEF ToSet
<1>7. {s[f[k]] : k \in 1..n} = {s[i] : i \in DOMAIN s} \cap S
  <2>1. \A k \in 1..n : s[f[k]] \in {s[i] : i \in DOMAIN s} \cap S
    BY <1>2
  <2>2. \A i \in DOMAIN s : s[i] \in S => s[i] \in {s[f[k]] : k \in 1..n}
    BY <1>2
  <2>. QED BY <2>1, <2>2
<1>. QED BY <1>4, <1>6, <1>7 DEF ToSet

LEMMA Joined ==
  ASSUME NEW S, NEW p \in Seq(S), NEW q \in Seq(S)
  PROVE  /\ p \o q \in Seq(S) /\ DOMAIN (p \o q) = 1 .. Len(p) + Len(q)
         /\ \A i \in 1 .. Len(p) + Len(q) :
              (p \o q)[i] = IF i <= Len(p) THEN p[i] ELSE q[i - Len(p)]
OBVIOUS

-----------------------------------------------------------------------------
(* Ids and records *)

LEMMA ChildType ==
  ASSUME NEW id \in Ids, NEW i \in Nat
  PROVE  Child(id, i) \in Ids
BY DEF Child, Ids

LEMMA ShortType ==
  ASSUME NEW id \in Ids
  PROVE  ShortOf(id) \in Names
BY DEF ShortOf, Names

LEMMA MergedType ==
  ASSUME NEW ids \in Seq(Ids)
  PROVE  Merged(ids) \in Ids
<1>1. \A i \in 1..Len(ids) : ShortOf(ids[i]) \in Names
  BY ShortType
<1>2. [i \in DOMAIN ids |-> ShortOf(ids[i])] \in Seq(Names)
  BY <1>1
<1>. QED BY <1>2 DEF Merged, Ids

(* An entry with its ids is an entry.                                      *)
LEMMA LogType ==
  ASSUME history \in Seq(Entry),
         NEW action \in {"accept", "reject", "edit", "split", "merge"},
         NEW ids \in SUBSET Ids, NEW made \in SUBSET Ids, NEW scored \in BOOLEAN,
         NEW lowered \in BOOLEAN, Log(action, ids, made, scored, lowered)
  PROVE  history' \in Seq(Entry)
BY DEF Log, Entry

LEMMA DecidedType ==
  ASSUME NEW m \in Mapping, NEW status \in Statuses, NEW score \in 0..Full,
         NEW human \in BOOLEAN
  PROVE  Decided(m, status, score, human) \in Mapping
BY DEF Decided, Mapping

LEMMA CappedType ==
  ASSUME NEW score \in 0..Full
  PROVE  Capped(score) \in 0..Full /\ Capped(score) >= score
BY ReviewAssumption DEF Capped

(* How a review may change a mapping: made anew, rescored, at most put to  *)
(* zero, its tier lowered on record, or given the bonus for becoming human *)
(* reviewed.                                                               *)
Changed(e, id) ==
  \/ id \in e.made /\ mappings'[id].score = 0 /\ mappings'[id].human
  \/ id \notin e.made /\ e.scored /\ id \in e.ids
  \/ /\ id \notin e.made
     /\ mappings'[id].score \in {0, mappings[id].score}
     /\ \/ mappings'[id].human = mappings[id].human
        \/ mappings'[id].human
        \/ e.lowered /\ id \in e.ids
  \/ /\ id \notin e.made /\ ~mappings[id].human /\ mappings'[id].human
     /\ mappings'[id].score = Capped(mappings[id].score)

(* What every review does: it logs one entry, stores what the entry says   *)
(* it made, gives every mapping that the entry names the status that the   *)
(* entry gives, and leaves the others alone.                               *)
Reviewed(e) ==
  /\ e \in Entry /\ e.ids \subseteq DOMAIN mappings
  /\ history' = Append(history, e)
  /\ DOMAIN mappings' = DOMAIN mappings \cup e.made
  /\ mappings' \in [DOMAIN mappings' -> Mapping]
  /\ \A id \in DOMAIN mappings' :
       /\ IF Touches(e, id) THEN mappings'[id].status = Gives(e, id)
                            ELSE mappings'[id] = mappings[id]
       /\ Changed(e, id)

(* Accept, Reject and Edit replace one mapping.                            *)
LEMMA ReplaceReviews ==
  ASSUME MappingsTyped, NEW id \in DOMAIN mappings, NEW new \in Mapping,
         NEW action \in {"accept", "reject", "edit"}, NEW scored \in BOOLEAN,
         NEW lowered \in BOOLEAN,
         mappings' = [mappings EXCEPT ![id] = new],
         Log(action, {id}, {}, scored, lowered),
         new.status = Gives([action |-> action, ids |-> {id}, made |-> {}, scored |-> scored,
                             lowered |-> lowered], id),
         \/ scored
         \/ /\ new.score \in {0, mappings[id].score}
            /\ new.human = mappings[id].human \/ new.human \/ lowered
         \/ ~mappings[id].human /\ new.human /\ new.score = Capped(mappings[id].score)
  PROVE  \E e \in Entry : Reviewed(e)
<1>. DEFINE e == [action |-> action, ids |-> {id}, made |-> {}, scored |-> scored,
                  lowered |-> lowered]
<1>1. e \in Entry
  BY DEF Entry, MappingsTyped
<1>2. history' = Append(history, e)
  BY DEF Log
<1>3. DOMAIN mappings' = DOMAIN mappings /\ mappings' \in [DOMAIN mappings' -> Mapping]
  BY DEF MappingsTyped
<1>4. ASSUME NEW m \in DOMAIN mappings'
      PROVE  /\ IF Touches(e, m) THEN mappings'[m].status = Gives(e, m)
                                 ELSE mappings'[m] = mappings[m]
             /\ Changed(e, m)
  <2>1. CASE m = id
    BY <2>1, <1>3 DEF Touches, Changed
  <2>2. CASE m # id
    BY <2>2, <1>3 DEF Touches, Changed
  <2>. QED BY <2>1, <2>2
<1>5. e.ids \subseteq DOMAIN mappings /\ e.made = {}
  OBVIOUS
<1>6. Reviewed(e)
  <2>. HIDE DEF e
  <2>. QED BY <1>1, <1>2, <1>3, <1>4, <1>5 DEF Reviewed
<1>. QED BY <1>1, <1>6

LEMMA AcceptReviews ==
  ASSUME MappingsTyped, NEW id \in DOMAIN mappings, Accept(id)
  PROVE  \E e \in Entry : Reviewed(e)
<1>. DEFINE m == mappings[id]
            score == IF m.human THEN m.score ELSE Capped(m.score)
            new == Decided(m, "accepted", score, TRUE)
<1>1. m \in Mapping /\ m.score \in 0..Full /\ m.human \in BOOLEAN
  BY DEF MappingsTyped, Mapping
<1>2. new \in Mapping
  BY <1>1, CappedType, DecidedType DEF Statuses
<1>3. new.status = "accepted" /\ new.score = score /\ new.human = TRUE
  BY DEF Decided
<1>4. mappings' = [mappings EXCEPT ![id] = new] /\ Log("accept", {id}, {}, FALSE, FALSE)
  BY DEF Accept
<1>. HIDE DEF new
<1>. QED BY <1>1, <1>2, <1>3, <1>4, ReplaceReviews DEF Gives

LEMMA RejectReviews ==
  ASSUME MappingsTyped, NEW id \in DOMAIN mappings, Reject(id)
  PROVE  \E e \in Entry : Reviewed(e)
<1>. DEFINE m == mappings[id]
            new == Decided(m, "rejected", 0, m.human)
<1>1. m \in Mapping /\ m.human \in BOOLEAN /\ 0 \in 0..Full
  BY ReviewAssumption DEF MappingsTyped, Mapping
<1>2. new \in Mapping
  BY <1>1, DecidedType DEF Statuses
<1>3. new.status = "rejected" /\ new.score = 0 /\ new.human = m.human
  BY DEF Decided
<1>4. mappings' = [mappings EXCEPT ![id] = new] /\ Log("reject", {id}, {}, FALSE, FALSE)
  BY DEF Reject
<1>. HIDE DEF new
<1>. QED BY <1>1, <1>2, <1>3, <1>4, ReplaceReviews DEF Gives

LEMMA EditReviews ==
  ASSUME MappingsTyped, NEW id \in DOMAIN mappings, NEW u \in Updates, Edit(id, u)
  PROVE  \E e \in Entry : Reviewed(e)
<1>. DEFINE m == mappings[id]
            new == Edited(m, u)
            scored == u.score # NoScore
            lowered == m.human /\ u.tier = "automatic"
<1>1. m.score \in 0..Full /\ m.human \in BOOLEAN
  BY DEF MappingsTyped, Mapping
<1>2. /\ u.kind \in Kinds /\ u.nodes \subseteq Nodes /\ (u.score = NoScore \/ u.score \in 0..Full)
      /\ u.tier \in {"kept", "human", "automatic"}
  BY ReviewAssumption
<1>3. new \in Mapping
  BY <1>1, <1>2 DEF Edited, Mapping, Statuses
<1>4. /\ new.status = "edited" /\ (scored \/ new.score = m.score)
      /\ new.human = m.human \/ new.human \/ lowered
  BY <1>1, <1>2 DEF Edited
<1>5. mappings' = [mappings EXCEPT ![id] = new] /\ Log("edit", {id}, {}, scored, lowered)
  BY DEF Edit
<1>6. scored \in BOOLEAN /\ lowered \in BOOLEAN
  OBVIOUS
<1>. HIDE DEF new, scored, lowered
<1>. QED BY <1>3, <1>4, <1>5, <1>6, ReplaceReviews DEF Gives

LEMMA SplitReviews ==
  ASSUME MappingsTyped, NEW id \in DOMAIN mappings, NEW defs \in Definitions, Split(id, defs)
  PROVE  \E e \in Entry : Reviewed(e)
<1>. DEFINE made == ToSet(Children(id, defs))
            e == [action |-> "split", ids |-> {id}, made |-> made, scored |-> FALSE, lowered |-> FALSE]
<1>1. defs \in Seq([kind : Kinds \cup {NoKind}, nodes : SUBSET Nodes])
  BY ReviewAssumption
<1>2. made \subseteq Ids
  <2>1. \A i \in 1..Len(defs) : Child(id, i - 1) \in Ids
    BY ChildType DEF MappingsTyped
  <2>. QED BY <1>1, <2>1 DEF ToSet, Children
<1>3. id \notin made
  <2>1. \A i \in 1..Len(defs) : Child(id, i - 1) # id
    <3>1. id.splits \in Seq(Nat)
      BY DEF MappingsTyped, Ids
    <3>2. \A i \in 1..Len(defs) : Len(Child(id, i - 1).splits) = Len(id.splits) + 1
      BY <3>1 DEF Child
    <3>. QED BY <3>1, <3>2
  <2>. QED BY <1>1, <2>1 DEF ToSet, Children
<1>4. e \in Entry
  BY <1>2 DEF Entry, MappingsTyped
<1>5. history' = Append(history, e)
  BY DEF Split, Log
<1>6. DOMAIN mappings' = DOMAIN mappings \cup made
  BY DEF Split
<1>7. ASSUME NEW m \in made
      PROVE  /\ mappings'[m] \in Mapping /\ mappings'[m].status = "edited"
             /\ mappings'[m].score = 0 /\ mappings'[m].human
  <2>. DEFINE i == CHOOSE i \in DOMAIN defs : Children(id, defs)[i] = m
  <2>1. i \in DOMAIN defs
    BY <1>1 DEF ToSet, Children
  <2>3. mappings'[m] = Part(mappings[id], defs[i])
    BY DEF Split
  <2>. HIDE DEF i
  <2>. DEFINE D == [kind : Kinds \cup {NoKind}, nodes : SUBSET Nodes]
  <2>2. defs[i].kind \in Kinds \cup {NoKind} /\ defs[i].nodes \subseteq Nodes
    <3>1. defs \in Seq(D) /\ i \in 1..Len(defs)
      BY <1>1, <2>1
    <3>2. defs[i] \in D
      <4>. HIDE DEF D
      <4>. QED BY <3>1
    <3>. QED BY <3>2
  <2>4. mappings[id].kind \in Kinds \cup {NoKind} /\ 0 \in 0..Full
    BY ReviewAssumption DEF MappingsTyped, Mapping
  <2>. QED BY <2>2, <2>3, <2>4 DEF Part, ByHand, Mapping, Statuses
<1>8. /\ mappings'[id] \in Mapping /\ mappings'[id].status = "split"
      /\ mappings'[id].score = mappings[id].score
      /\ mappings'[id].human = mappings[id].human
  <2>1. mappings[id] \in Mapping /\ mappings[id].score \in 0..Full
        /\ mappings[id].human \in BOOLEAN
    BY DEF MappingsTyped, Mapping
  <2>2. mappings'[id] = Decided(mappings[id], "split", mappings[id].score, mappings[id].human)
    BY <1>3 DEF Split
  <2>3. mappings'[id] \in Mapping
    BY <2>1, <2>2, DecidedType DEF Statuses
  <2>. QED BY <2>2, <2>3 DEF Decided
<1>9. ASSUME NEW m \in DOMAIN mappings, m \notin made, m # id
      PROVE  mappings'[m] = mappings[m] /\ mappings'[m] \in Mapping
  BY <1>9 DEF Split, MappingsTyped
<1>10. mappings' \in [DOMAIN mappings' -> Mapping]
  <2>1. \A m \in DOMAIN mappings' : mappings'[m] \in Mapping
    BY <1>6, <1>7, <1>8, <1>9
  <2>2. mappings' = [m \in DOMAIN mappings' |-> mappings'[m]]
    BY DEF Split
  <2>. QED BY <2>1, <2>2
<1>11. ASSUME NEW m \in DOMAIN mappings'
       PROVE  /\ IF Touches(e, m) THEN mappings'[m].status = Gives(e, m)
                                  ELSE mappings'[m] = mappings[m]
              /\ Changed(e, m)
  <2>1. CASE m \in made
    BY <2>1, <1>7 DEF Touches, Gives, Changed
  <2>2. CASE m = id
    BY <2>2, <1>3, <1>8 DEF Touches, Gives, Changed
  <2>3. CASE m \notin made /\ m # id
    BY <2>3, <1>6, <1>9 DEF Touches, Changed
  <2>. QED BY <2>1, <2>2, <2>3
<1>12. e.ids \subseteq DOMAIN mappings /\ e.made = made
  OBVIOUS
<1>13. Reviewed(e)
  <2>. HIDE DEF e
  <2>. QED BY <1>4, <1>5, <1>6, <1>10, <1>11, <1>12 DEF Reviewed
<1>. QED BY <1>4, <1>13

LEMMA MergeReviews ==
  ASSUME MappingsTyped, NEW ids \in Seq(DOMAIN mappings), NEW kind \in MergedKinds,
         Merge(ids, kind)
  PROVE  \E e \in Entry : Reviewed(e)
<1>. DEFINE mid == Merged(ids)
            old == ToSet(ids)
            e == [action |-> "merge", ids |-> old, made |-> {mid}, scored |-> FALSE,
                  lowered |-> FALSE]
<1>1. mid \in Ids /\ old \subseteq DOMAIN mappings
  <2>1. ids \in Seq(Ids)
    BY DEF MappingsTyped
  <2>. QED BY <2>1, MergedType DEF ToSet
<1>2. e \in Entry
  BY <1>1 DEF Entry, MappingsTyped
<1>3. history' = Append(history, e)
  BY DEF Merge, Log
<1>4. DOMAIN mappings' = DOMAIN mappings \cup {mid}
  BY DEF Merge
<1>5. /\ mappings'[mid] \in Mapping /\ mappings'[mid].status = "merged"
      /\ mappings'[mid].score = 0 /\ mappings'[mid].human
  <2>1. mappings'[mid] = ByHand(kind, NodesOf(ids), "merged")
    BY DEF Merge
  <2>2. NodesOf(ids) \subseteq Nodes
    BY <1>1 DEF NodesOf, MappingsTyped, Mapping
  <2>3. kind \in Kinds \cup {NoKind} /\ 0 \in 0..Full
    BY ReviewAssumption
  <2>. QED BY <2>1, <2>2, <2>3 DEF ByHand, Mapping, Statuses
<1>6. ASSUME NEW m \in old, m # mid
      PROVE  /\ mappings'[m] \in Mapping /\ mappings'[m].status = "merged"
             /\ mappings'[m].score = mappings[m].score
             /\ mappings'[m].human = mappings[m].human
  <2>1. mappings[m] \in Mapping /\ mappings[m].score \in 0..Full
        /\ mappings[m].human \in BOOLEAN
    BY <1>1 DEF MappingsTyped, Mapping
  <2>2. mappings'[m] = Decided(mappings[m], "merged", mappings[m].score, mappings[m].human)
    BY <1>1, <1>6 DEF Merge
  <2>3. mappings'[m] \in Mapping
    BY <2>1, <2>2, DecidedType DEF Statuses
  <2>. QED BY <2>2, <2>3 DEF Decided
<1>7. ASSUME NEW m \in DOMAIN mappings, m \notin old, m # mid
      PROVE  mappings'[m] = mappings[m] /\ mappings'[m] \in Mapping
  BY <1>7 DEF Merge, MappingsTyped
<1>8. mappings' \in [DOMAIN mappings' -> Mapping]
  <2>1. \A m \in DOMAIN mappings' : mappings'[m] \in Mapping
    BY <1>4, <1>5, <1>6, <1>7
  <2>2. mappings' = [m \in DOMAIN mappings' |-> mappings'[m]]
    BY DEF Merge
  <2>. QED BY <2>1, <2>2
<1>9. ASSUME NEW m \in DOMAIN mappings'
      PROVE  /\ IF Touches(e, m) THEN mappings'[m].status = Gives(e, m)
                                 ELSE mappings'[m] = mappings[m]
             /\ Changed(e, m)
  <2>1. CASE m = mid
    BY <2>1, <1>5 DEF Touches, Gives, Changed
  <2>2. CASE m \in old /\ m # mid
    BY <2>2, <1>6 DEF Touches, Gives, Changed
  <2>3. CASE m \notin old /\ m # mid
    BY <2>3, <1>4, <1>7 DEF Touches, Changed
  <2>. QED BY <2>1, <2>2, <2>3
<1>10. e.ids \subseteq DOMAIN mappings /\ e.made = {mid}
  BY <1>1
<1>11. Reviewed(e)
  <2>. HIDE DEF e
  <2>. QED BY <1>2, <1>3, <1>4, <1>8, <1>9, <1>10 DEF Reviewed
<1>. QED BY <1>2, <1>11

LEMMA ReviewReviews == MappingsTyped /\ Review => \E e \in Entry : Reviewed(e)
<1>. SUFFICES ASSUME MappingsTyped, Review
              PROVE  \E e \in Entry : Reviewed(e)
  OBVIOUS
<1>1. PICK id \in DOMAIN mappings :
        \/ Accept(id) \/ Reject(id)
        \/ \E u \in Updates : Edit(id, u)
        \/ \E defs \in Definitions : Split(id, defs)
        \/ \E other \in DOMAIN mappings \ {id}, kind \in MergedKinds :
             Merge(<<id, other>>, kind)
  BY DEF Review
<1>2. CASE Accept(id)
  BY <1>2, AcceptReviews
<1>3. CASE Reject(id)
  BY <1>3, RejectReviews
<1>4. CASE \E u \in Updates : Edit(id, u)
  BY <1>4, EditReviews
<1>5. CASE \E defs \in Definitions : Split(id, defs)
  BY <1>5, SplitReviews
<1>6. CASE \E other \in DOMAIN mappings \ {id}, kind \in MergedKinds :
             Merge(<<id, other>>, kind)
  <2>1. PICK other \in DOMAIN mappings \ {id}, kind \in MergedKinds : Merge(<<id, other>>, kind)
    BY <1>6
  <2>2. <<id, other>> \in Seq(DOMAIN mappings)
    OBVIOUS
  <2>. QED BY <2>1, <2>2, MergeReviews
<1>. QED BY <1>1, <1>2, <1>3, <1>4, <1>5, <1>6
-----------------------------------------------------------------------------
(* The invariants *)

(* Entries name mappings that are there: an id that is derived for the     *)
(* first time is in no entry.                                              *)
Known == \A i \in DOMAIN history : history[i].ids \cup history[i].made \subseteq DOMAIN mappings

AuditInv == MappingsTyped /\ Known /\ AuditTrail

(* Adding a mapping of the translation, before any review.                 *)
LEMMA AddStep ==
  ASSUME MappingsTyped, NEW b \in Base, AddMapping(b)
  PROVE  /\ MappingsTyped' /\ history' = <<>>
         /\ \A id \in DOMAIN mappings' \ {Id(b)} :
              id \in DOMAIN mappings /\ mappings'[id] = mappings[id]
         /\ mappings'[Id(b)].status = "auto_proposed"
         /\ mappings'[Id(b)].score = Proposed[b].score
<1>. DEFINE p == Proposed[b]
            new == Decided(p, "auto_proposed", p.score, FALSE)
<1>1. p.kind \in Kinds /\ p.nodes \subseteq Nodes /\ p.score \in 0..Full
  BY ReviewAssumption
<1>2. new \in Mapping /\ new.status = "auto_proposed" /\ new.score = p.score
  BY <1>1 DEF Decided, Mapping, Statuses
<1>3. Id(b) \in Ids
  BY DEF Id, Ids, Names
<1>4. DOMAIN mappings' = DOMAIN mappings \cup {Id(b)}
  BY DEF AddMapping
<1>5. mappings'[Id(b)] = new
  BY DEF AddMapping
<1>6. \A id \in DOMAIN mappings' \ {Id(b)} : id \in DOMAIN mappings /\ mappings'[id] = mappings[id]
  BY DEF AddMapping
<1>7. mappings' = [id \in DOMAIN mappings' |-> mappings'[id]]
  BY DEF AddMapping
<1>. HIDE DEF new
<1>8. \A id \in DOMAIN mappings' : mappings'[id] \in Mapping
  BY <1>2, <1>5, <1>6 DEF MappingsTyped
<1>9. history' = <<>> /\ history' \in Seq(Entry)
  BY DEF AddMapping, MappingsTyped
<1>10. MappingsTyped'
  BY <1>3, <1>4, <1>7, <1>8, <1>9 DEF MappingsTyped
<1>. QED BY <1>2, <1>5, <1>6, <1>9, <1>10

(* Appending an entry leaves the entries before it alone.                  *)
LEMMA Appending ==
  ASSUME NEW e \in Entry, history \in Seq(Entry), history' = Append(history, e)
  PROVE  /\ history' \in Seq(Entry)
         /\ DOMAIN history = 1..Len(history) /\ Len(history) \in Nat
         /\ DOMAIN history' = 1..(Len(history) + 1)
         /\ \A i \in DOMAIN history : history'[i] = history[i]
         /\ history'[Len(history) + 1] = e
OBVIOUS

LEMMA ReviewedTyped ==
  ASSUME MappingsTyped, NEW e \in Entry, Reviewed(e)
  PROVE  MappingsTyped'
<1>1. history' \in Seq(Entry)
  BY Appending DEF Reviewed, MappingsTyped
<1>2. DOMAIN mappings' \subseteq Ids
  BY DEF Reviewed, MappingsTyped, Entry
<1>. QED BY <1>1, <1>2 DEF Reviewed, MappingsTyped

LEMMA ReviewedKnown ==
  ASSUME MappingsTyped, Known, NEW e \in Entry, Reviewed(e)
  PROVE  Known'
<1>1. /\ DOMAIN history' = 1..(Len(history) + 1) /\ Len(history) \in Nat
      /\ DOMAIN history = 1..Len(history)
      /\ \A i \in DOMAIN history : history'[i] = history[i]
      /\ history'[Len(history) + 1] = e
  BY Appending DEF Reviewed, MappingsTyped
<1>2. ASSUME NEW i \in DOMAIN history'
      PROVE  history'[i].ids \cup history'[i].made \subseteq DOMAIN mappings'
  <2>1. CASE i \in DOMAIN history
    BY <1>1, <2>1 DEF Known, Reviewed
  <2>2. CASE i = Len(history) + 1
    BY <1>1, <2>2 DEF Reviewed
  <2>. QED BY <1>1, <2>1, <2>2
<1>. QED BY <1>2 DEF Known

LEMMA ReviewedAudited ==
  ASSUME AuditInv, NEW e \in Entry, Reviewed(e)
  PROVE  AuditTrail'
<1>1. /\ DOMAIN history' = 1..(Len(history) + 1) /\ Len(history) \in Nat
      /\ DOMAIN history = 1..Len(history)
      /\ \A i \in DOMAIN history : history'[i] = history[i]
      /\ history'[Len(history) + 1] = e
  BY Appending DEF Reviewed, MappingsTyped, AuditInv
<1>. DEFINE Latest(i, id) ==
       /\ Touches(history'[i], id) /\ mappings'[id].status = Gives(history'[i], id)
       /\ \A j \in DOMAIN history' : j > i => ~Touches(history'[j], id)
<1>2. ASSUME NEW id \in DOMAIN mappings'
      PROVE  \/ /\ mappings'[id].status = "auto_proposed"
                /\ \A i \in DOMAIN history' : ~Touches(history'[i], id)
             \/ \E i \in DOMAIN history' : Latest(i, id)
  <2>1. CASE Touches(e, id)
    <3>1. Latest(Len(history) + 1, id)
      BY <1>1, <2>1 DEF Reviewed
    <3>. QED BY <1>1, <3>1
  <2>2. CASE ~Touches(e, id)
    <3>1. id \in DOMAIN mappings /\ mappings'[id] = mappings[id]
      BY <2>2 DEF Reviewed, Touches
    <3>2. CASE /\ mappings[id].status = "auto_proposed"
               /\ \A i \in DOMAIN history : ~Touches(history[i], id)
      BY <1>1, <2>2, <3>1, <3>2
    <3>3. CASE \E i \in DOMAIN history :
                 /\ Touches(history[i], id) /\ mappings[id].status = Gives(history[i], id)
                 /\ \A j \in DOMAIN history : j > i => ~Touches(history[j], id)
      <4>1. PICK i \in DOMAIN history :
              /\ Touches(history[i], id) /\ mappings[id].status = Gives(history[i], id)
              /\ \A j \in DOMAIN history : j > i => ~Touches(history[j], id)
        BY <3>3
      <4>2. \A j \in DOMAIN history' : j \in DOMAIN history \/ j = Len(history) + 1
        BY <1>1
      <4>3. Latest(i, id)
        BY <1>1, <2>2, <3>1, <4>1, <4>2
      <4>. QED BY <1>1, <4>3
    <3>. QED BY <3>1, <3>2, <3>3 DEF AuditInv, AuditTrail
  <2>. QED BY <2>1, <2>2
<1>. QED BY <1>2 DEF AuditTrail

LEMMA AuditStep == AuditInv /\ [ReviewNext]_reviewVars => AuditInv'
<1>. SUFFICES ASSUME AuditInv, [ReviewNext]_reviewVars
              PROVE  AuditInv'
  OBVIOUS
<1>1. CASE Review
  <2>1. PICK e \in Entry : Reviewed(e)
    BY <1>1, ReviewReviews DEF AuditInv
  <2>. QED BY <2>1, ReviewedTyped, ReviewedKnown, ReviewedAudited DEF AuditInv
<1>2. ASSUME NEW b \in Base, AddMapping(b)
      PROVE  AuditInv'
  <2>1. /\ MappingsTyped' /\ history' = <<>>
        /\ \A id \in DOMAIN mappings' \ {Id(b)} :
             id \in DOMAIN mappings /\ mappings'[id] = mappings[id]
        /\ mappings'[Id(b)].status = "auto_proposed"
    BY <1>2, AddStep DEF AuditInv
  <2>2. Known'
    BY <2>1 DEF Known
  <2>3. history = <<>>
    BY <1>2 DEF AddMapping
  <2>4. \A id \in DOMAIN mappings : mappings[id].status = "auto_proposed"
    BY <2>3 DEF AuditInv, AuditTrail
  <2>5. AuditTrail'
    BY <2>1, <2>4 DEF AuditTrail
  <2>. QED BY <2>1, <2>2, <2>5 DEF AuditInv
<1>3. CASE UNCHANGED reviewVars
  BY <1>3 DEF reviewVars, AuditInv, MappingsTyped, Known, AuditTrail
<1>. QED BY <1>1, <1>2, <1>3 DEF ReviewNext

(* The log explains the status of every mapping (translate/review.py).     *)
THEOREM Audited == ReviewSpec => []AuditTrail
<1>1. ReviewInit => AuditInv
  BY DEF ReviewInit, AuditInv, MappingsTyped, Known, AuditTrail
<1>2. AuditInv => AuditTrail
  BY DEF AuditInv
<1>. QED BY <1>1, <1>2, AuditStep, PTL DEF ReviewSpec

-----------------------------------------------------------------------------
(* How often a mapping has become human reviewed.                          *)
Reviews(id) == Cardinality(Lowered(id)) + IF mappings[id].human THEN 1 ELSE 0

ScoreInv == MappingsTyped /\ \A b \in Base :
  Present(Id(b)) /\ ~Rescored(Id(b)) =>
    mappings[Id(b)].score <= Proposed[b].score + Bonus * Reviews(Id(b))

LEMMA LoweredCount ==
  ASSUME MappingsTyped, NEW id
  PROVE  IsFiniteSet(Lowered(id)) /\ Cardinality(Lowered(id)) \in Nat
<1>1. Lowered(id) \subseteq 1..Len(history) /\ Len(history) \in Nat
  BY DEF Lowered, MappingsTyped
<1>2. IsFiniteSet(1..Len(history))
  BY <1>1, FS_Interval
<1>. QED BY <1>1, <1>2, FS_Subset, FS_CardinalityType

LEMMA LoweredGrows ==
  ASSUME MappingsTyped, NEW e \in Entry, Reviewed(e), NEW id
  PROVE  Cardinality(Lowered(id))' =
           Cardinality(Lowered(id)) + IF e.lowered /\ id \in e.ids THEN 1 ELSE 0
<1>1. /\ DOMAIN history' = 1..(Len(history) + 1) /\ Len(history) \in Nat
      /\ DOMAIN history = 1..Len(history)
      /\ \A i \in DOMAIN history : history'[i] = history[i]
      /\ history'[Len(history) + 1] = e
  BY Appending DEF Reviewed, MappingsTyped
<1>2. IsFiniteSet(Lowered(id)) /\ Cardinality(Lowered(id)) \in Nat
  BY LoweredCount
<1>3. Len(history) + 1 \notin Lowered(id)
  BY <1>1 DEF Lowered
<1>4. CASE e.lowered /\ id \in e.ids
  <2>1. Lowered(id)' = Lowered(id) \cup {Len(history) + 1}
    BY <1>1, <1>4 DEF Lowered
  <2>. QED BY <1>2, <1>3, <1>4, <2>1, FS_AddElement
<1>5. CASE ~(e.lowered /\ id \in e.ids)
  <2>1. Lowered(id)' = Lowered(id)
    BY <1>1, <1>5 DEF Lowered
  <2>. QED BY <1>2, <1>5, <2>1
<1>. QED BY <1>4, <1>5

LEMMA BonusGrows ==
  ASSUME NEW m \in Nat, NEW n \in Nat, m <= n
  PROVE  Bonus * m \in Nat /\ Bonus * m <= Bonus * n /\ Bonus * (m + 1) = Bonus * m + Bonus
<1>1. Bonus \in Nat
  BY ReviewAssumption
<1>2. PICK d \in Nat : n = m + d
  <2>1. n - m \in Nat /\ n = m + (n - m)
    OBVIOUS
  <2>. QED BY <2>1
<1>3. Bonus * m \in Nat /\ Bonus * d \in Nat
  BY <1>1, <1>2
<1>4. Bonus * (m + d) = Bonus * m + Bonus * d /\ Bonus * (m + 1) = Bonus * m + Bonus
  BY <1>1, <1>2
<1>. QED BY <1>2, <1>3, <1>4

LEMMA ReviewedScore ==
  ASSUME ScoreInv, NEW e \in Entry, Reviewed(e)
  PROVE  ScoreInv'
<1>1. /\ DOMAIN history' = 1..(Len(history) + 1) /\ Len(history) \in Nat
      /\ DOMAIN history = 1..Len(history)
      /\ \A i \in DOMAIN history : history'[i] = history[i]
      /\ history'[Len(history) + 1] = e
  BY Appending DEF Reviewed, MappingsTyped, ScoreInv
<1>2. MappingsTyped'
  BY ReviewedTyped DEF ScoreInv
<1>3. ASSUME NEW b \in Base, Present(Id(b))', ~Rescored(Id(b))'
      PROVE  mappings'[Id(b)].score <= Proposed[b].score + Bonus * Reviews(Id(b))'
  <2>. DEFINE id == Id(b)
              p == Proposed[b].score
              n == Cardinality(Lowered(id))
              n1 == Cardinality(Lowered(id))'
  <2>1. p \in 0..Full /\ p \in Nat /\ Bonus \in Nat
    BY ReviewAssumption
  <2>2. ~Rescored(id) /\ ~(e.scored /\ id \in e.ids)
    BY <1>1, <1>3 DEF Rescored
  <2>3. id \in DOMAIN mappings' /\ Changed(e, id)
    BY <1>3 DEF Present, Reviewed
  <2>4. n \in Nat /\ n1 = n + (IF e.lowered /\ id \in e.ids THEN 1 ELSE 0)
    BY LoweredCount, LoweredGrows DEF ScoreInv
  <2>5. Reviews(id)' = n1 + IF mappings'[id].human THEN 1 ELSE 0
    BY DEF Reviews
  <2>6. mappings'[id] \in Mapping
    BY <1>2, <2>3 DEF MappingsTyped
  <2>7. mappings'[id].human \in BOOLEAN
    BY <2>6 DEF Mapping
  <2>. HIDE DEF id, p, n, n1
  <2>8. Reviews(id)' \in Nat
    BY <2>4, <2>5, <2>7
  <2>9. CASE id \in e.made
    <3>1. mappings'[id].score = 0
      BY <2>3, <2>9 DEF Changed
    <3>2. Bonus * Reviews(id)' \in Nat
      BY <2>8, BonusGrows
    <3>. QED BY <2>1, <3>1, <3>2 DEF id, p
  <2>10. CASE id \notin e.made
    <3>1. Present(id)
      BY <2>3, <2>10 DEF Present, Reviewed
    <3>2. mappings[id].score <= p + Bonus * Reviews(id)
      BY <2>2, <3>1 DEF ScoreInv, id, p
    <3>3. mappings[id] \in Mapping
      BY <3>1 DEF ScoreInv, MappingsTyped, Present
    <3>4. mappings[id].score \in 0..Full /\ mappings[id].human \in BOOLEAN
      BY <3>3 DEF Mapping
    <3>5. Reviews(id) = n + IF mappings[id].human THEN 1 ELSE 0
      BY DEF Reviews, n
    <3>6. Reviews(id) \in Nat
      BY <2>4, <3>4, <3>5
    <3>7. CASE /\ mappings'[id].score \in {0, mappings[id].score}
               /\ \/ mappings'[id].human = mappings[id].human
                  \/ mappings'[id].human
                  \/ e.lowered /\ id \in e.ids
      <4>1. Reviews(id) <= Reviews(id)'
        BY <2>4, <2>5, <2>7, <3>4, <3>5, <3>7
      <4>2. Bonus * Reviews(id) <= Bonus * Reviews(id)' /\ Bonus * Reviews(id) \in Nat
        BY <2>8, <3>6, <4>1, BonusGrows
      <4>3. Bonus * Reviews(id)' \in Nat
        BY <2>8, BonusGrows
      <4>. QED BY <2>1, <3>2, <3>4, <3>7, <4>2, <4>3 DEF id, p
    <3>8. CASE /\ ~mappings[id].human /\ mappings'[id].human
               /\ mappings'[id].score = Capped(mappings[id].score)
      <4>1. n <= n1 /\ n1 \in Nat /\ Reviews(id) = n /\ Reviews(id)' = n1 + 1
        BY <2>4, <2>5, <3>5, <3>8
      <4>2. /\ Bonus * n <= Bonus * n1 /\ Bonus * n \in Nat
            /\ Bonus * n1 \in Nat /\ Bonus * (n1 + 1) = Bonus * n1 + Bonus
        BY <2>4, <4>1, BonusGrows
      <4>3. mappings'[id].score <= mappings[id].score + Bonus
        BY <2>1, <3>4, <3>8, ReviewAssumption DEF Capped
      <4>4. mappings'[id].score \in Int
        BY <2>6 DEF Mapping
      <4>5. mappings[id].score <= p + Bonus * n
        BY <3>2, <4>1
      <4>6. mappings'[id].score <= p + Bonus * (n1 + 1)
        BY <2>1, <3>4, <4>2, <4>3, <4>4, <4>5
      <4>. QED BY <4>1, <4>6 DEF id, p
    <3>. QED BY <2>2, <2>3, <2>10, <3>7, <3>8 DEF Changed
  <2>. QED BY <2>9, <2>10
<1>. QED BY <1>2, <1>3 DEF ScoreInv

LEMMA ScoreStep == ScoreInv /\ [ReviewNext]_reviewVars => ScoreInv'
<1>. SUFFICES ASSUME ScoreInv, [ReviewNext]_reviewVars
              PROVE  ScoreInv'
  OBVIOUS
<1>1. CASE Review
  BY <1>1, ReviewReviews, ReviewedScore DEF ScoreInv
<1>2. ASSUME NEW b \in Base, AddMapping(b)
      PROVE  ScoreInv'
  <2>1. /\ MappingsTyped' /\ history' = <<>>
        /\ \A id \in DOMAIN mappings' \ {Id(b)} :
             id \in DOMAIN mappings /\ mappings'[id] = mappings[id]
        /\ mappings'[Id(b)].score = Proposed[b].score
    BY <1>2, AddStep DEF ScoreInv
  <2>2. ASSUME NEW x \in Base, Present(Id(x))'
        PROVE  mappings'[Id(x)].score <= Proposed[x].score + Bonus * Reviews(Id(x))'
    <3>. DEFINE grown == Bonus * Reviews(Id(x))'
    <3>0. grown \in Nat
      <4>1. mappings'[Id(x)].human \in BOOLEAN
        BY <2>1, <2>2 DEF MappingsTyped, Mapping, Present
      <4>2. Cardinality(Lowered(Id(x)))' \in Nat
        <5>1. Lowered(Id(x))' = {}
          BY <2>1 DEF Lowered
        <5>. QED BY <5>1, FS_EmptySet
      <4>3. Reviews(Id(x))' \in Nat
        BY <4>1, <4>2 DEF Reviews
      <4>. QED BY <4>3, ReviewAssumption
    <3>1. CASE x = b
      <4>1. Proposed[x].score \in 0..Full
        BY ReviewAssumption
      <4>. QED BY <2>1, <3>0, <3>1, <4>1
    <3>2. CASE x # b
      <4>1. Id(x) # Id(b)
        BY <3>2 DEF Id
      <4>2. Present(Id(x)) /\ mappings'[Id(x)] = mappings[Id(x)]
        BY <2>1, <2>2, <4>1 DEF Present
      <4>3. ~Rescored(Id(x)) /\ Lowered(Id(x))' = Lowered(Id(x))
        BY <1>2 DEF AddMapping, Rescored, Lowered
      <4>. QED BY <4>2, <4>3 DEF ScoreInv, Reviews
    <3>. QED BY <3>1, <3>2
  <2>. QED BY <2>1, <2>2 DEF ScoreInv
<1>3. CASE UNCHANGED reviewVars
  BY <1>3 DEF reviewVars, ScoreInv, MappingsTyped, Rescored, Present, Reviews, Lowered
<1>. QED BY <1>1, <1>2, <1>3 DEF ReviewNext

(* The bonus of a human review is given once for every time that a mapping *)
(* becomes human reviewed (translate/review.py:54).                        *)
THEOREM BonusPerReview == ReviewSpec => []ScoreBounded
<1>1. ReviewInit => ScoreInv
  BY DEF ReviewInit, ScoreInv, MappingsTyped, Present
<1>2. ASSUME ScoreInv PROVE ScoreBounded
  <2>1. ASSUME NEW b \in Base, Present(Id(b)), ~Rescored(Id(b))
        PROVE  mappings[Id(b)].score <= Proposed[b].score + Bonus * (1 + Cardinality(Lowered(Id(b))))
    <3>. DEFINE n == Cardinality(Lowered(Id(b)))
    <3>1. n \in Nat /\ Proposed[b].score \in Nat /\ Bonus \in Nat
      BY <1>2, LoweredCount, ReviewAssumption DEF ScoreInv
    <3>2. mappings[Id(b)].score \in Nat /\ mappings[Id(b)].human \in BOOLEAN
      BY <1>2, <2>1 DEF ScoreInv, MappingsTyped, Mapping, Present
    <3>3. Reviews(Id(b)) \in Nat /\ Reviews(Id(b)) <= 1 + n
      BY <3>1, <3>2 DEF Reviews
    <3>4. mappings[Id(b)].score <= Proposed[b].score + Bonus * Reviews(Id(b))
      BY <1>2, <2>1 DEF ScoreInv
    <3>5. 1 + n \in Nat
      BY <3>1
    <3>. HIDE DEF n
    <3>6. Bonus * Reviews(Id(b)) <= Bonus * (1 + n) /\ Bonus * Reviews(Id(b)) \in Nat
          /\ Bonus * (1 + n) \in Nat
      BY <3>3, <3>5, BonusGrows
    <3>7. mappings[Id(b)].score <= Proposed[b].score + Bonus * (1 + n)
      BY <3>1, <3>2, <3>4, <3>6
    <3>. QED BY <3>7 DEF n
  <2>. QED BY <2>1 DEF ScoreBounded
<1>. QED BY <1>1, <1>2, ScoreStep, PTL DEF ReviewSpec

-----------------------------------------------------------------------------
(* The order of the dict *)

(* Storing under several keys keeps the order one of the stored mappings.  *)
LEMMA OrderGrows ==
  ASSUME ReviewTypeOK, NEW ids \in Seq(Ids)
  PROVE  /\ Appended(ids) \in Seq(Ids)
         /\ ToSet(Appended(ids)) = DOMAIN mappings \cup ToSet(ids)
<1>. DEFINE new == Filtered(ids, ToSet(ids) \ DOMAIN mappings)
<1>1. order \in Seq(Ids) /\ ToSet(order) = DOMAIN mappings
  BY DEF ReviewTypeOK
<1>2. new \in Seq(Ids) /\ ToSet(new) = ToSet(ids) \cap (ToSet(ids) \ DOMAIN mappings)
  BY FilterTyped
<1>. HIDE DEF new
<1>3. Appended(ids) = order \o new
  BY DEF Appended, new
<1>4. ToSet(order \o new) = ToSet(order) \cup ToSet(new)
  <2>1. /\ order \o new \in Seq(Ids) /\ DOMAIN (order \o new) = 1 .. Len(order) + Len(new)
        /\ \A i \in 1 .. Len(order) + Len(new) :
             (order \o new)[i] = IF i <= Len(order) THEN order[i] ELSE new[i - Len(order)]
        /\ Len(order) \in Nat /\ Len(new) \in Nat
        /\ DOMAIN order = 1 .. Len(order) /\ DOMAIN new = 1 .. Len(new)
    BY <1>1, <1>2, Joined
  <2>2. ASSUME NEW i \in 1 .. Len(order) + Len(new)
        PROVE  (order \o new)[i] \in ToSet(order) \cup ToSet(new)
    <3>1. CASE i <= Len(order)
      BY <2>1, <3>1 DEF ToSet
    <3>2. CASE ~(i <= Len(order))
      <4>1. i - Len(order) \in 1 .. Len(new)
        BY <2>1, <3>2
      <4>. QED BY <2>1, <3>2, <4>1 DEF ToSet
    <3>. QED BY <3>1, <3>2
  <2>3. ASSUME NEW i \in 1 .. Len(order)
        PROVE  order[i] \in ToSet(order \o new)
    <3>1. i \in 1 .. Len(order) + Len(new) /\ i <= Len(order)
      BY <2>1
    <3>. QED BY <2>1, <3>1 DEF ToSet
  <2>4. ASSUME NEW i \in 1 .. Len(new)
        PROVE  new[i] \in ToSet(order \o new)
    <3>1. /\ Len(order) + i \in 1 .. Len(order) + Len(new)
          /\ ~(Len(order) + i <= Len(order)) /\ Len(order) + i - Len(order) = i
      BY <2>1
    <3>2. (order \o new)[Len(order) + i] = new[i]
      BY <2>1, <3>1
    <3>. QED BY <2>1, <3>1, <3>2 DEF ToSet
  <2>. QED BY <2>1, <2>2, <2>3, <2>4 DEF ToSet
<1>. QED BY <1>1, <1>2, <1>3, <1>4

LEMMA PlacesKept ==
  ASSUME ReviewTypeOK, [ReviewNext]_reviewVars
  PROVE  order' \in Seq(Ids) /\ ToSet(order') = DOMAIN mappings'
<1>1. /\ MappingsTyped /\ order \in Seq(Ids) /\ ToSet(order) = DOMAIN mappings
      /\ DOMAIN mappings \subseteq Ids
  BY DEF ReviewTypeOK, MappingsTyped
<1>2. ASSUME NEW id \in DOMAIN mappings,
             \/ Accept(id) \/ Reject(id)
             \/ \E u \in Updates : Edit(id, u)
      PROVE  order' = order /\ DOMAIN mappings' = DOMAIN mappings
  BY <1>2 DEF Accept, Reject, Edit
<1>3. ASSUME NEW id \in DOMAIN mappings, NEW defs \in Definitions, Split(id, defs)
      PROVE  order' \in Seq(Ids) /\ ToSet(order') = DOMAIN mappings'
  <2>. DEFINE made == Children(id, defs)
  <2>1. made \in Seq(Ids)
    <3>1. defs \in Seq([kind : Kinds \cup {NoKind}, nodes : SUBSET Nodes])
      BY ReviewAssumption
    <3>2. \A i \in 1 .. Len(defs) : Child(id, i - 1) \in Ids
      BY <1>1, ChildType
    <3>. QED BY <3>1, <3>2 DEF Children
  <2>2. order' = Appended(made) /\ DOMAIN mappings' = DOMAIN mappings \cup ToSet(made)
    BY <1>3 DEF Split
  <2>. HIDE DEF made
  <2>. QED BY <2>1, <2>2, OrderGrows
<1>4. ASSUME NEW id \in DOMAIN mappings, NEW other \in DOMAIN mappings,
             NEW kind \in MergedKinds, Merge(<<id, other>>, kind)
      PROVE  order' \in Seq(Ids) /\ ToSet(order') = DOMAIN mappings'
  <2>. DEFINE mid == Merged(<<id, other>>)
  <2>1. mid \in Ids
    <3>1. <<id, other>> \in Seq(Ids)
      BY <1>1
    <3>. QED BY <3>1, MergedType
  <2>2. order' = Appended(<<mid>>) /\ DOMAIN mappings' = DOMAIN mappings \cup {mid}
    BY <1>4 DEF Merge
  <2>. HIDE DEF mid
  <2>3. <<mid>> \in Seq(Ids) /\ ToSet(<<mid>>) = {mid}
    BY <2>1 DEF ToSet
  <2>. QED BY <2>2, <2>3, OrderGrows
<1>5. ASSUME NEW b \in Base, AddMapping(b)
      PROVE  order' \in Seq(Ids) /\ ToSet(order') = DOMAIN mappings'
  <2>1. order' = Append(order, Id(b)) /\ DOMAIN mappings' = DOMAIN mappings \cup {Id(b)}
    BY <1>5 DEF AddMapping
  <2>2. Id(b) \in Ids
    BY DEF Id, Ids, Names
  <2>3. /\ order' \in Seq(Ids) /\ DOMAIN order' = 1 .. Len(order) + 1 /\ Len(order) \in Nat
        /\ DOMAIN order = 1 .. Len(order)
        /\ order'[Len(order) + 1] = Id(b) /\ \A i \in 1 .. Len(order) : order'[i] = order[i]
    BY <1>1, <2>1, <2>2
  <2>4. 1 .. Len(order) + 1 = 1 .. Len(order) \cup {Len(order) + 1}
    BY <2>3
  <2>5. ToSet(order') = ToSet(order) \cup {Id(b)}
    BY <2>3, <2>4 DEF ToSet
  <2>. QED BY <1>1, <2>1, <2>3, <2>5
<1>6. CASE UNCHANGED reviewVars
  BY <1>1, <1>6 DEF reviewVars
<1>. QED BY <1>1, <1>2, <1>3, <1>4, <1>5, <1>6 DEF ReviewNext, Review

LEMMA ReviewTypeKept == ReviewTypeOK /\ [ReviewNext]_reviewVars => ReviewTypeOK'
<1>. SUFFICES ASSUME ReviewTypeOK, [ReviewNext]_reviewVars
              PROVE  ReviewTypeOK'
  OBVIOUS
<1>1. MappingsTyped
  BY DEF ReviewTypeOK
<1>2. MappingsTyped'
  <2>1. CASE Review
    BY <1>1, <2>1, ReviewReviews, ReviewedTyped
  <2>2. ASSUME NEW b \in Base, AddMapping(b)
        PROVE  MappingsTyped'
    BY <1>1, <2>2, AddStep
  <2>3. CASE UNCHANGED reviewVars
    BY <1>1, <2>3 DEF MappingsTyped, reviewVars
  <2>. QED BY <2>1, <2>2, <2>3 DEF ReviewNext
<1>. QED BY <1>2, PlacesKept DEF ReviewTypeOK

-----------------------------------------------------------------------------
(* Compilations in between *)

LEMMA StepReviews == [Next]_vars => [ReviewNext]_reviewVars
<1>. SUFFICES ASSUME [Next]_vars
              PROVE  [ReviewNext]_reviewVars
  OBVIOUS
<1>1. CASE Review
  BY <1>1 DEF ReviewNext
<1>2. ASSUME NEW b \in Base, AddMapping(b)
      PROVE  ReviewNext
  BY <1>2 DEF ReviewNext
<1>3. ASSUME NEW curated \in BOOLEAN,
             RunStatespace(curated) \/ CompileAgain(curated) \/ CompileNext(curated)
      PROVE  UNCHANGED reviewVars
  BY <1>3 DEF RunStatespace, CompileAgain, CompileNext, reviewVars
<1>4. CASE UNCHANGED vars
  BY <1>4 DEF vars, reviewVars
<1>. QED BY <1>1, <1>2, <1>3, <1>4 DEF Next

(* With compilations in between, the review is still a review.             *)
THEOREM ImplementsReview == Spec => ReviewSpec
<1>1. Init => ReviewInit
  BY DEF Init
<1>. QED BY <1>1, StepReviews, PTL DEF Spec, ReviewSpec

(* Whatever is compiled meanwhile, the log explains every status.          *)
THEOREM CuratedAudited == Spec => []AuditTrail
BY ImplementsReview, Audited, PTL

(* Whatever is compiled meanwhile, every bonus has its review.             *)
THEOREM CuratedBonusPerReview == Spec => []ScoreBounded
BY ImplementsReview, BonusPerReview, PTL

-----------------------------------------------------------------------------
(* What a compilation is given *)

CompilerInput == [id : Ids, kind : Kinds \cup {NoKind}, nodes : SUBSET Nodes, score : 0..Full]

LEMMA RecordsTyped ==
  ASSUME MappingsTyped, NEW ids \in Seq(DOMAIN mappings)
  PROVE  /\ Records(ids) \in Seq(CompilerInput)
         /\ DOMAIN Records(ids) = 1 .. Len(ids) /\ DOMAIN ids = 1 .. Len(ids)
         /\ \A i \in 1 .. Len(ids) :
              LET r == Records(ids)[i] m == mappings[ids[i]] IN
              ids[i] \in DOMAIN mappings /\ r.id = ids[i] /\ r.kind = m.kind
                /\ r.nodes = m.nodes /\ r.score = m.score
<1>1. DOMAIN ids = 1 .. Len(ids) /\ Len(ids) \in Nat
      /\ \A i \in 1 .. Len(ids) : ids[i] \in DOMAIN mappings
  OBVIOUS
<1>. DEFINE rec(i) == [id |-> ids[i], kind |-> mappings[ids[i]].kind,
                       nodes |-> mappings[ids[i]].nodes, score |-> mappings[ids[i]].score]
<1>2. \A i \in 1 .. Len(ids) : rec(i) \in CompilerInput
  BY <1>1 DEF MappingsTyped, Mapping, CompilerInput
<1>3. Records(ids) = [i \in 1 .. Len(ids) |-> rec(i)]
  BY <1>1 DEF Records
<1>4. \A i \in 1 .. Len(ids) :
        /\ rec(i).id = ids[i] /\ rec(i).kind = mappings[ids[i]].kind
        /\ rec(i).nodes = mappings[ids[i]].nodes /\ rec(i).score = mappings[ids[i]].score
  OBVIOUS
<1>. HIDE DEF rec
<1>5. Records(ids) \in Seq(CompilerInput)
  BY <1>1, <1>2, <1>3
<1>. QED BY <1>1, <1>3, <1>4, <1>5

LEMMA InputsTyped ==
  ASSUME ReviewTypeOK
  PROVE  InBundle \in Seq(DOMAIN mappings) /\ Exported \in Seq(DOMAIN mappings)
<1>1. order \in Seq(DOMAIN mappings)
  <2>1. order \in Seq(Ids) /\ ToSet(order) = DOMAIN mappings
    BY DEF ReviewTypeOK
  <2>2. \A i \in 1 .. Len(order) : order[i] \in DOMAIN mappings
    BY <2>1 DEF ToSet
  <2>. QED BY <2>1, <2>2
<1>. QED BY <1>1, FilterTyped DEF InBundle, Exported

(* Of a node, the last mapping that a full compilation reads is the last   *)
(* one among the mappings that an incremental one reuses.                  *)
LEMMA ReusedDecides ==
  ASSUME NEW maps \in Seq(CompilerInput), NEW kinds \in SUBSET (Hidden \cup Observing), NEW n
  PROVE  LET all == About(maps, kinds, n) reused == About(Reused(maps), kinds, n) IN
         /\ all = {} <=> reused = {}
         /\ all # {} => maps[Max(all)] = Reused(maps)[Max(reused)]
<1>. DEFINE S == {m \in ToSet(maps) : m.kind \in Hidden \cup Observing}
            r == Reused(maps)
            all == About(maps, kinds, n)
            reused == About(r, kinds, n)
<1>1. PICK f, c : Picks(f, c, maps, S)
  BY FilterPicks
<1>2. /\ c \in Nat /\ r = [k \in 1..c |-> maps[f[k]]]
      /\ \A k \in 1..c : f[k] \in DOMAIN maps
      /\ \A i, j \in 1..c : i < j => f[i] < f[j]
      /\ \A i \in DOMAIN maps : maps[i] \in S => \E k \in 1..c : f[k] = i
  BY <1>1 DEF Picks, Reused
<1>3. Len(maps) \in Nat /\ DOMAIN maps = 1 .. Len(maps)
  OBVIOUS
<1>. HIDE DEF r
<1>4. DOMAIN r = 1..c /\ \A k \in 1..c : r[k] = maps[f[k]]
  BY <1>2
<1>5. \A k \in 1..c : k \in reused <=> f[k] \in all
  BY <1>2, <1>4 DEF About
<1>6. \A i \in all : \E k \in 1..c : f[k] = i
  <2>1. \A i \in all : i \in DOMAIN maps /\ maps[i] \in S
    BY DEF About, ToSet
  <2>. HIDE DEF all, S
  <2>. QED BY <1>2, <2>1
<1>7. all \in SUBSET (1 .. Len(maps)) /\ reused \in SUBSET (1..c)
  BY <1>3, <1>4 DEF About
<1>. HIDE DEF all, reused, S
<1>8. all = {} <=> reused = {}
  BY <1>5, <1>6, <1>7
<1>9. ASSUME all # {}
      PROVE  maps[Max(all)] = r[Max(reused)]
  <2>1. Max(all) \in all /\ \A j \in all : j <= Max(all)
    BY <1>3, <1>7, <1>9, GreatestNumber
  <2>2. Max(reused) \in reused /\ \A j \in reused : j <= Max(reused)
    BY <1>2, <1>7, <1>8, <1>9, GreatestNumber
  <2>3. PICK k \in 1..c : f[k] = Max(all)
    BY <1>6, <2>1
  <2>4. k \in reused /\ k <= Max(reused) /\ Max(reused) \in 1..c
    BY <1>5, <1>7, <2>1, <2>2, <2>3
  <2>5. f[Max(reused)] \in all /\ f[Max(reused)] <= f[k]
    BY <1>5, <2>1, <2>2, <2>3, <2>4
  <2>6. ~(k < Max(reused))
    <3>1. f[k] \in Int /\ f[Max(reused)] \in Int
      <4>1. \A i \in all : i \in Int
        BY <1>3, <1>7
      <4>. QED BY <2>1, <2>3, <2>5, <4>1
    <3>2. k < Max(reused) => f[k] < f[Max(reused)]
      BY <1>2, <2>4
    <3>. QED BY <2>5, <3>1, <3>2
  <2>7. k = Max(reused)
    BY <1>2, <2>4, <2>6
  <2>. QED BY <1>4, <2>3, <2>7
<1>. QED BY <1>8, <1>9 DEF all, reused, r

LEMMA ReusedSuffices ==
  ASSUME NEW maps \in Seq(CompilerInput)
  PROVE  /\ Extract(NoVariables, maps) = Extract(NoVariables, Reused(maps))
         /\ Observations(maps) = Observations(Reused(maps))
<1>. DEFINE r == Reused(maps)
<1>1. \A kinds \in {Hidden, Observing} : \A n :
        /\ About(maps, kinds, n) = {} <=> About(r, kinds, n) = {}
        /\ About(maps, kinds, n) # {} =>
             maps[Max(About(maps, kinds, n))] = r[Max(About(r, kinds, n))]
  <2>1. \A kinds \in {Hidden, Observing} : kinds \in SUBSET (Hidden \cup Observing)
    OBVIOUS
  <2>. QED BY <2>1, ReusedDecides
<1>. HIDE DEF r
<1>2. \A kinds \in {Hidden, Observing} : Spoken(maps, kinds) = Spoken(r, kinds)
  BY <1>1 DEF Spoken
<1>3. Observations(maps) = Observations(r)
  <2>1. \A n \in Spoken(maps, Observing) : About(maps, Observing, n) # {}
    BY DEF Spoken
  <2>. QED BY <1>1, <1>2, <2>1 DEF Observations
<1>4. DOMAIN NoVariables = {}
  BY DEF NoVariables
<1>. DEFINE var(m, n) ==
       [level |-> IF About(m, Hidden, n) = {} THEN NoVariables[n].level
                  ELSE Level(m[Max(About(m, Hidden, n))].score),
        observable |-> About(m, Observing, n) # {}
                       \/ (About(m, Hidden, n) = {} /\ NoVariables[n].observable)]
<1>5. \A m : Extract(NoVariables, m) = [n \in Spoken(m, Hidden) |-> var(m, n)]
  BY <1>4 DEF Extract
<1>6. ASSUME NEW n \in Spoken(maps, Hidden)
      PROVE  var(maps, n) = var(r, n)
  <2>1. About(maps, Hidden, n) # {} /\ About(r, Hidden, n) # {}
    BY <1>1 DEF Spoken
  <2>2. maps[Max(About(maps, Hidden, n))] = r[Max(About(r, Hidden, n))]
    BY <1>1, <2>1
  <2>3. (About(maps, Observing, n) # {}) = (About(r, Observing, n) # {})
    BY <1>1
  <2>. QED BY <2>1, <2>2, <2>3
<1>. HIDE DEF var
<1>7. Extract(NoVariables, maps) = Extract(NoVariables, r)
  BY <1>2, <1>5, <1>6
<1>. QED BY <1>3, <1>7 DEF r

-----------------------------------------------------------------------------
(* The last model *)

(* A rejected mapping has no score: only a person's edit gives it one      *)
(* again, and its status with it.                                          *)
RejectedScoreless ==
  \A id \in DOMAIN mappings : mappings[id].status = "rejected" => mappings[id].score = 0

(* The model is the one that compile returns for its mappings; after an    *)
(* incremental compilation, with the variables and observations of its     *)
(* basis.                                                                  *)
ModelInv ==
  model # NoModel =>
    /\ model.how \in {"fresh", "again", "incremental"}
    /\ model.maps \in Seq(CompilerInput) /\ model.basis \in Seq(CompilerInput)
    /\ model.how = "fresh" =>
         model.basis = model.maps /\ model.data = Compile(NoVariables, model.maps)
    /\ model.how = "incremental" =>
         model.data = Assemble(Extract(NoVariables, model.basis),
                               Observations(model.basis), model.maps)

CurationInv == ReviewTypeOK /\ RejectedScoreless /\ ModelInv

LEMMA ScorelessKept ==
  ASSUME MappingsTyped, RejectedScoreless, [ReviewNext]_reviewVars
  PROVE  RejectedScoreless'
<1>. DEFINE Stays(id) == id \in DOMAIN mappings /\ mappings'[id] = mappings[id]
            Fine(id) == Stays(id) \/ mappings'[id].status # "rejected" \/ mappings'[id].score = 0
<1>1. ASSUME \A id \in DOMAIN mappings' : Fine(id)
      PROVE  RejectedScoreless'
  BY <1>1 DEF RejectedScoreless
<1>2. ASSUME NEW id \in DOMAIN mappings, NEW new,
             mappings' = [mappings EXCEPT ![id] = new],
             new.status # "rejected" \/ new.score = 0
      PROVE  \A x \in DOMAIN mappings' : Fine(x)
  <2>1. DOMAIN mappings' = DOMAIN mappings /\ mappings'[id] = new
        /\ \A x \in DOMAIN mappings \ {id} : mappings'[x] = mappings[x]
    BY <1>2 DEF MappingsTyped
  <2>. QED BY <1>2, <2>1
<1>3. ASSUME NEW id \in DOMAIN mappings, Accept(id)
      PROVE  \A x \in DOMAIN mappings' : Fine(x)
  <2>. DEFINE new == Decided(mappings[id], "accepted",
                IF mappings[id].human THEN mappings[id].score ELSE Capped(mappings[id].score), TRUE)
  <2>1. mappings' = [mappings EXCEPT ![id] = new] /\ new.status # "rejected"
    BY <1>3 DEF Accept, Decided
  <2>. HIDE DEF new, Fine
  <2>. QED BY <1>2, <2>1
<1>4. ASSUME NEW id \in DOMAIN mappings, Reject(id)
      PROVE  \A x \in DOMAIN mappings' : Fine(x)
  <2>. DEFINE new == Decided(mappings[id], "rejected", 0, mappings[id].human)
  <2>1. mappings' = [mappings EXCEPT ![id] = new] /\ new.score = 0
    BY <1>4 DEF Reject, Decided
  <2>. HIDE DEF new, Fine
  <2>. QED BY <1>2, <2>1
<1>5. ASSUME NEW id \in DOMAIN mappings, NEW u \in Updates, Edit(id, u)
      PROVE  \A x \in DOMAIN mappings' : Fine(x)
  <2>. DEFINE new == Edited(mappings[id], u)
  <2>1. mappings' = [mappings EXCEPT ![id] = new] /\ new.status # "rejected"
    BY <1>5 DEF Edit, Edited
  <2>. HIDE DEF new, Fine
  <2>. QED BY <1>2, <2>1
<1>6. ASSUME NEW id \in DOMAIN mappings, NEW defs \in Definitions, Split(id, defs)
      PROVE  \A x \in DOMAIN mappings' : Fine(x)
  <2>1. ASSUME NEW x \in DOMAIN mappings'
        PROVE  \/ \E d : mappings'[x] = Part(mappings[id], d)
               \/ mappings'[x] = Decided(mappings[x], "split", mappings[x].score, mappings[x].human)
               \/ Stays(x)
    BY <1>6 DEF Split
  <2>. QED BY <2>1 DEF Part, ByHand, Decided
<1>7. ASSUME NEW ids, NEW kind, Merge(ids, kind)
      PROVE  \A x \in DOMAIN mappings' : Fine(x)
  <2>1. ASSUME NEW x \in DOMAIN mappings'
        PROVE  \/ mappings'[x] = ByHand(kind, NodesOf(ids), "merged")
               \/ mappings'[x] = Decided(mappings[x], "merged", mappings[x].score, mappings[x].human)
               \/ Stays(x)
    BY <1>7 DEF Merge
  <2>. QED BY <2>1 DEF ByHand, Decided
<1>8. ASSUME NEW b \in Base, AddMapping(b)
      PROVE  \A x \in DOMAIN mappings' : Fine(x)
  BY <1>8 DEF AddMapping, Decided
<1>9. CASE UNCHANGED reviewVars
  BY <1>9 DEF reviewVars, RejectedScoreless
<1>. HIDE DEF Fine
<1>. QED BY <1>1, <1>3, <1>4, <1>5, <1>6, <1>7, <1>8, <1>9 DEF ReviewNext, Review

(* A fresh compiler and an incremental one; what a compiler that is called *)
(* again returns is not said.                                              *)
LEMMA ModelCompiled ==
  ASSUME ReviewTypeOK, ModelInv, NEW curated \in BOOLEAN,
         RunStatespace(curated) \/ CompileAgain(curated) \/ CompileNext(curated)
  PROVE  ModelInv'
<1>. DEFINE maps == Records(IF curated THEN Exported ELSE InBundle)
<1>1. maps \in Seq(CompilerInput)
  BY InputsTyped, RecordsTyped DEF ReviewTypeOK
<1>. HIDE DEF maps
<1>2. CASE RunStatespace(curated)
  <2>1. model' = Compiled(Compile(NoVariables, maps), "fresh", maps, maps, curated)
    BY <1>2 DEF RunStatespace, maps
  <2>. QED BY <1>1, <2>1 DEF ModelInv, Compiled
<1>3. CASE CompileAgain(curated)
  <2>1. model' = Compiled(Compile(extracted, maps), "again", maps, maps, curated)
    BY <1>3 DEF CompileAgain, maps
  <2>. QED BY <1>1, <2>1 DEF ModelInv, Compiled
<1>4. CASE CompileNext(curated)
  <2>1. /\ model # NoModel /\ model.how # "again"
        /\ model' = Compiled(CompileIncremental(model.data, maps), "incremental",
                             maps, model.basis, curated)
    BY <1>4 DEF CompileNext, maps
  <2>2. model.basis \in Seq(CompilerInput)
    BY <2>1 DEF ModelInv
  <2>3. /\ model.data.variables = Extract(NoVariables, model.basis)
        /\ model.data.observations = Observations(model.basis)
    BY <2>1 DEF ModelInv, Compile, Assemble
  <2>4. CompileIncremental(model.data, maps) =
          Assemble(Extract(NoVariables, model.basis), Observations(model.basis), maps)
    BY <2>3 DEF CompileIncremental
  <2>. QED BY <1>1, <2>1, <2>2, <2>4 DEF ModelInv, Compiled
<1>. QED BY <1>2, <1>3, <1>4

LEMMA CurationKept == CurationInv /\ [Next]_vars => CurationInv'
<1>. SUFFICES ASSUME CurationInv, [Next]_vars
              PROVE  CurationInv'
  OBVIOUS
<1>1. ReviewTypeOK' /\ RejectedScoreless'
  BY StepReviews, ReviewTypeKept, ScorelessKept DEF CurationInv, ReviewTypeOK
<1>2. ModelInv'
  <2>1. CASE UNCHANGED <<extracted, model>>
    BY <2>1 DEF CurationInv, ModelInv
  <2>2. CASE UNCHANGED vars
    BY <2>2 DEF vars, CurationInv, ModelInv
  <2>3. ASSUME NEW curated \in BOOLEAN,
               RunStatespace(curated) \/ CompileAgain(curated) \/ CompileNext(curated)
        PROVE  ModelInv'
    BY <2>3, ModelCompiled DEF CurationInv
  <2>. QED BY <2>1, <2>2, <2>3 DEF Next
<1>. QED BY <1>1, <1>2 DEF CurationInv

LEMMA AlwaysCurated == Spec => []CurationInv
<1>1. Init => CurationInv
  <2>1. ASSUME Init
        PROVE  ReviewTypeOK /\ RejectedScoreless /\ ModelInv
    BY <2>1 DEF Init, ReviewInit, ReviewTypeOK, MappingsTyped, RejectedScoreless, ModelInv, ToSet
  <2>. QED BY <2>1 DEF CurationInv
<1>. QED BY <1>1, CurationKept, PTL DEF Spec

(* A mapping is stored under an id, has its types, and has a place in the  *)
(* order of the dict, whatever ids splits and merges derive.               *)
THEOREM CuratedTyped == Spec => []ReviewTypeOK
<1>1. CurationInv => ReviewTypeOK
  BY DEF CurationInv
<1>. QED BY <1>1, AlwaysCurated, PTL

(* As long as the mappings that are reused stay, an incremental            *)
(* compilation, or any number of them, makes the model of a full one       *)
(* (statespace/compiler.py:1338).                                          *)
THEOREM ReuseIsExact == Spec => []QuietReuseExact
<1>1. ASSUME CurationInv, model # NoModel, model.how = "incremental",
             Reused(model.basis) = Reused(model.maps)
      PROVE  model.data = Compile(NoVariables, model.maps)
  <2>1. /\ model.maps \in Seq(CompilerInput) /\ model.basis \in Seq(CompilerInput)
        /\ model.data = Assemble(Extract(NoVariables, model.basis),
                                 Observations(model.basis), model.maps)
    BY <1>1 DEF CurationInv, ModelInv
  <2>2. /\ Extract(NoVariables, model.basis) = Extract(NoVariables, model.maps)
        /\ Observations(model.basis) = Observations(model.maps)
    BY <1>1, <2>1, ReusedSuffices
  <2>. QED BY <2>1, <2>2 DEF Compile
<1>2. CurationInv => QuietReuseExact
  BY <1>1 DEF QuietReuseExact
<1>. QED BY <1>2, AlwaysCurated, PTL

(* run_statespace compiles rejected mappings like any other, and believes  *)
(* none of them: a node with rejected hidden states only is uncertain, a   *)
(* rejected preference weighs nothing.                                     *)
THEOREM RejectedNotBelieved == Spec => []RejectedIsUncertain
<1>1. ASSUME CurationInv, model # NoModel, model.how = "fresh",
             model.maps = Records(InBundle)
      PROVE  /\ \A n \in DOMAIN model.data.variables :
                  (\A id \in ToSet(InBundle) :
                     mappings[id].kind \in Hidden /\ n \in mappings[id].nodes
                       => mappings[id].status = "rejected")
                  => model.data.variables[n].level = "uncertain"
             /\ \A id \in DOMAIN model.data.preferences :
                  mappings[id].status = "rejected" => model.data.preferences[id].weight = 0
  <2>. DEFINE maps == model.maps
              ids == InBundle
  <2>1. ids \in Seq(DOMAIN mappings) /\ MappingsTyped /\ RejectedScoreless
    BY <1>1, InputsTyped DEF CurationInv, ReviewTypeOK
  <2>2. /\ maps \in Seq(CompilerInput) /\ Len(ids) \in Nat
        /\ DOMAIN maps = 1 .. Len(ids) /\ DOMAIN ids = 1 .. Len(ids)
        /\ \A i \in 1 .. Len(ids) :
             /\ ids[i] \in DOMAIN mappings /\ maps[i].id = ids[i]
             /\ maps[i].kind = mappings[ids[i]].kind
             /\ maps[i].nodes = mappings[ids[i]].nodes
             /\ maps[i].score = mappings[ids[i]].score
    BY <1>1, <2>1, RecordsTyped
  <2>3. /\ model.data.variables = Extract(NoVariables, maps)
        /\ model.data.preferences = Preferences(maps)
    BY <1>1 DEF CurationInv, ModelInv, Compile, Assemble
  <2>. HIDE DEF maps, ids
  <2>4. ASSUME NEW n \in DOMAIN Extract(NoVariables, maps),
               \A id \in ToSet(ids) :
                 mappings[id].kind \in Hidden /\ n \in mappings[id].nodes
                   => mappings[id].status = "rejected"
        PROVE  Extract(NoVariables, maps)[n].level = "uncertain"
    <3>. DEFINE at == About(maps, Hidden, n)
                i == Max(at)
    <3>1. n \in DOMAIN NoVariables \cup Spoken(maps, Hidden) /\ DOMAIN NoVariables = {}
      BY <2>4 DEF Extract, NoVariables
    <3>2. at # {} /\ at \in SUBSET (1 .. Len(ids))
      BY <2>2, <3>1 DEF Spoken, About
    <3>3. i \in at
      BY <2>2, <3>2, GreatestNumber
    <3>4. i \in 1 .. Len(ids) /\ maps[i].kind \in Hidden /\ n \in maps[i].nodes
      BY <2>2, <3>3 DEF About
    <3>5. ids[i] \in ToSet(ids) /\ mappings[ids[i]].kind \in Hidden
          /\ n \in mappings[ids[i]].nodes
      BY <2>2, <3>4 DEF ToSet
    <3>6. mappings[ids[i]].score = 0
      BY <2>1, <2>2, <2>4, <3>4, <3>5 DEF RejectedScoreless
    <3>7. Extract(NoVariables, maps)[n].level = Level(maps[i].score)
      BY <3>1, <3>2 DEF Extract
    <3>8. Level(0) = "uncertain"
      BY DEF Level
    <3>. QED BY <2>2, <3>4, <3>6, <3>7, <3>8
  <2>5. ASSUME NEW id \in DOMAIN Preferences(maps), mappings[id].status = "rejected"
        PROVE  Preferences(maps)[id].weight = 0
    <3>. DEFINE i == CHOOSE i \in DOMAIN maps : maps[i].id = id
    <3>1. i \in DOMAIN maps /\ maps[i].id = id
      BY <2>5 DEF Preferences
    <3>2. Preferences(maps)[id].weight = maps[i].score
      BY <2>5 DEF Preferences
    <3>. HIDE DEF i
    <3>3. ids[i] = id /\ id \in DOMAIN mappings /\ maps[i].score = mappings[id].score
      BY <2>2, <3>1
    <3>. QED BY <2>1, <2>5, <3>2, <3>3 DEF RejectedScoreless
  <2>. QED BY <2>3, <2>4, <2>5 DEF ids
<1>2. CurationInv => RejectedIsUncertain
  BY <1>1 DEF RejectedIsUncertain
<1>. QED BY <1>2, AlwaysCurated, PTL

-----------------------------------------------------------------------------
(* Stages: types and the inductive invariant *)

(* The types, with the fields of the records.                              *)
CallRecords ==
  [by : {"session", "runner"}, name : Methods \cup {"none", "run"}, todo : Seq(Steps),
   skip : SkipSets \cup {{}}, data : BOOLEAN, layout : BOOLEAN]
Bundles ==
  [snapshot : Opt(Versions), detail : Opt(Versions), facts : Opt(Versions),
   graph : Opt(Graphs), mappings : Opt(Graphs), trace : Opt(Graphs),
   statespace : Opt(StateSpaces), process : Opt(Graphs), translated : Opt(Graphs),
   syntax : Opt(SyntaxTrees), packaged : BOOLEAN, warned : BOOLEAN, certified : BOOLEAN]
Places == ToSet(Moved)

SessionTypes ==
  /\ tree \in Versions /\ calls \in 0..MaxCalls /\ runs \in 0..MaxRuns
  /\ bundle \in Bundles /\ call \in CallRecords
  /\ outcomes \in [Stages -> {"none", "success", "failed", "skipped"}]
  /\ DOMAIN disk = Places /\ DOMAIN placed = Places

(* What is still to be done in a session: a state space is compiled only   *)
(* where mappings are there or are made before, and a process model only   *)
(* right after a state space.  Nothing is validated.                       *)
Ordered(q) == \A i \in DOMAIN q :
  /\ q[i] # "validate"
  /\ q[i] = "statespace" =>
       /\ Has("mappings") \/ \E j \in 1 .. i - 1 : q[j] = "translate"
       /\ i + 1 \in DOMAIN q /\ q[i + 1] = "process"
  /\ q[i] = "process" =>
       IF i = 1 THEN Has("statespace") /\ bundle.statespace.graph = bundle.graph
       ELSE q[i - 1] = "statespace"

(* Nothing in a session is newer than what it would be derived from, and   *)
(* the graph not than the tree.                                            *)
InOrder(b, t) ==
  /\ b.graph # Nothing => b.graph.read <= t
  /\ b.mappings # Nothing => b.graph # Nothing /\ b.mappings.read <= b.graph.read
  /\ b.trace # Nothing => b.mappings # Nothing /\ b.trace.read <= b.mappings.read
  /\ b.statespace # Nothing =>
       /\ b.mappings # Nothing /\ b.statespace.mappings # Nothing
       /\ b.statespace.mappings.read <= b.statespace.graph.read
       /\ b.statespace.mappings.read <= b.mappings.read
       /\ b.statespace.graph.read <= b.graph.read
  /\ b.process # Nothing =>
       b.statespace # Nothing /\ b.process.read <= b.statespace.graph.read

SessionInv ==
  /\ call.skip = {} /\ call.name # "run"
  /\ Ordered(call.todo)
  /\ InOrder(bundle, tree) /\ ~bundle.certified

(* The steps of a run that have had their turn.                            *)
Settled == Len(RunPlan) - Len(call.todo)

(* What a run has derived by its number of settled steps.                  *)
Progress ==
  /\ Settled \in 0 .. 11
  /\ \A i \in 1 .. Len(call.todo) : call.todo[i] = RunPlan[Settled + i]
  /\ Settled < 4 => bundle.graph = Nothing
  /\ Settled < 5 /\ Has("graph") => ~bundle.graph.enriched
  /\ Settled < 6 => /\ bundle.mappings = Nothing /\ bundle.trace = Nothing
                    /\ bundle.translated = Nothing
  /\ Settled < 7 => bundle.statespace = Nothing
  /\ Settled < 8 => bundle.process = Nothing
  /\ Settled < 9 => ~bundle.packaged /\ ~bundle.warned
  /\ Settled < 10 => ~bundle.certified
  /\ \A i \in 1 .. 10 : outcomes[AllStages[i]] = "none" <=> i > Settled

(* The files that a package lists were written, and of the artifacts of    *)
(* the run.                                                                *)
Own == {Whole(Package), File(Package, "record")}
Sound(p) == Mandatory \subseteq DOMAIN p.sums
            /\ \A f \in DOMAIN p.sums : p.files[f] = p.sums[f] /\ p.sums[f] \in Own

WrittenOf(f) == [of : {Artifact(f)}, form : FormsOf(f)]

(* What the outcome of each stage of a run says of its artifacts.          *)
Outcomes ==
  /\ outcomes["graph"] = "success" => Has("graph")
  /\ outcomes["dynamic"] \in {"success", "skipped"} /\ Has("graph") =>
       bundle.graph.enriched = (call.data /\ outcomes["dynamic"] = "success")
  /\ outcomes["translate"] = "success" =>
       /\ bundle.mappings = bundle.graph /\ bundle.trace = bundle.graph
       /\ bundle.translated = bundle.graph
  /\ outcomes["statespace"] = "success" =>
       bundle.statespace = [graph |-> bundle.graph, mappings |-> bundle.mappings]
  /\ outcomes["process"] = "success" => bundle.process = bundle.graph
  /\ outcomes["export"] = "success" =>
       /\ \A f \in ToSet(Files) : Artifact(f) # Nothing => Found(f) \in WrittenOf(f)
       /\ Packable /\ ~bundle.warned => Sound(package)

(* A package is registered only when it has been built to its end.         *)
Packaged == bundle.packaged => \A f \in DOMAIN package.sums : package.sums[f] \in Own

RunnerInv == Progress /\ Outcomes /\ RunOneGraph /\ Packaged /\ CertifiedIsOwn

StageInv ==
  /\ SessionTypes
  /\ call.by = "session" => SessionInv
  /\ call.by = "runner" => RunnerInv

-----------------------------------------------------------------------------
(* Plans *)

LEMMA StageSet ==
  /\ Stages = {"ingest", "static", "normalize", "graph", "dynamic",
               "translate", "statespace", "process", "export", "validate"}
  /\ Steps = Stages \cup {"syntax", "layout"} /\ {"syntax", "layout"} \cap Stages = {}
  /\ ToSet(Files) \cup {"syntax"} = Places
  /\ ToSet(Files) = {"graph", "statespace", "process", "gnn", "trace"}
BY DEF Stages, AllStages, Steps, ToSet, Files, Moved, Places

(* The stages a plan begins with when an artifact is missing.              *)
Calm(q) == q \in Seq(Steps) /\ \A i \in DOMAIN q : q[i] \notin {"statespace", "process", "validate"}

LEMMA JoinedCalm ==
  ASSUME NEW p, NEW q, Calm(p), Calm(q)
  PROVE  Calm(p \o q)
BY DEF Calm

LEMMA MissingCalm ==
  ASSUME NEW k, NEW p, Calm(p)
  PROVE  Calm(Missing(k, p))
BY DEF Calm, Missing

LEMMA CalmPlans ==
  /\ Calm(<<"ingest">>) /\ Calm(<<"static">>) /\ Calm(<<"normalize">>)
  /\ Calm(<<"graph">>) /\ Calm(<<"dynamic">>) /\ Calm(<<"translate">>)
  /\ Calm(<<"normalize", "graph">>) /\ Calm(<<"ingest", "static">>)
  /\ Calm(<<"export", "syntax", "layout">>)
BY StageSet DEF Calm

LEMMA GraphPlanCalm == Calm(GraphPlan)
BY CalmPlans, JoinedCalm, MissingCalm DEF GraphPlan

LEMMA TranslatePlanCalm ==
  Calm(TranslatePlan) /\ \E j \in DOMAIN TranslatePlan : TranslatePlan[j] = "translate"
<1>. DEFINE p == Missing("graph", GraphPlan)
            q == <<"translate">>
<1>1. Calm(p) /\ Calm(q)
  BY CalmPlans, MissingCalm, GraphPlanCalm
<1>2. p \in Seq(Steps) /\ q \in Seq(Steps) /\ Len(q) = 1 /\ q[1] = "translate"
  BY <1>1 DEF Calm
<1>3. TranslatePlan = p \o q
  BY DEF TranslatePlan
<1>. HIDE DEF p, q
<1>4. Len(p) + 1 \in DOMAIN (p \o q) /\ (p \o q)[Len(p) + 1] = "translate"
  <2>1. /\ Len(p) \in Nat /\ DOMAIN (p \o q) = 1 .. Len(p) + Len(q)
        /\ \A i \in 1 .. Len(p) + Len(q) :
             (p \o q)[i] = IF i <= Len(p) THEN p[i] ELSE q[i - Len(p)]
    BY <1>2, Joined
  <2>2. /\ Len(p) + 1 \in 1 .. Len(p) + Len(q) /\ ~(Len(p) + 1 <= Len(p))
        /\ (Len(p) + 1) - Len(p) = 1
    BY <1>2, <2>1
  <2>. QED BY <1>2, <2>1, <2>2
<1>. QED BY <1>1, <1>3, <1>4, JoinedCalm

LEMMA CalmOrdered ==
  ASSUME NEW q, Calm(q)
  PROVE  Ordered(q)
BY DEF Calm, Ordered

(* A compilation comes after the stages that make its mappings.            *)
LEMMA CompilesLast ==
  ASSUME NEW p, Calm(p),
         Has("mappings") \/ \E j \in DOMAIN p : p[j] = "translate"
  PROVE  /\ p \o <<"statespace", "process">> \in Seq(Steps)
         /\ Ordered(p \o <<"statespace", "process">>)
<1>. DEFINE q == <<"statespace", "process">>
            r == p \o q
            n == Len(p)
<1>1. /\ q \in Seq(Steps) /\ Len(q) = 2 /\ q[1] = "statespace" /\ q[2] = "process"
      /\ p \in Seq(Steps) /\ n \in Nat /\ DOMAIN p = 1 .. n
  BY StageSet DEF Calm
<1>. HIDE DEF q
<1>0. /\ r \in Seq(Steps) /\ DOMAIN r = 1 .. n + 2
      /\ \A i \in 1 .. n + 2 : r[i] = IF i <= n THEN p[i] ELSE q[i - n]
  <2>1. /\ p \o q \in Seq(Steps) /\ DOMAIN (p \o q) = 1 .. Len(p) + Len(q)
        /\ \A i \in 1 .. Len(p) + Len(q) :
             (p \o q)[i] = IF i <= Len(p) THEN p[i] ELSE q[i - Len(p)]
    BY <1>1, Joined
  <2>2. Len(p) + Len(q) = n + 2
    BY <1>1
  <2>. HIDE DEF n
  <2>. QED BY <2>1, <2>2 DEF n
<1>2. /\ r \in Seq(Steps) /\ DOMAIN r = 1 .. n + 2
      /\ \A i \in 1 .. n : r[i] = p[i]
      /\ r[n + 1] = "statespace" /\ r[n + 2] = "process"
  <2>1. n + 1 - n = 1 /\ n + 2 - n = 2 /\ ~(n + 1 <= n) /\ ~(n + 2 <= n)
    BY <1>1
  <2>2. n + 1 \in 1 .. n + 2 /\ n + 2 \in 1 .. n + 2 /\ 1 .. n \subseteq 1 .. n + 2
    BY <1>1
  <2>. QED BY <1>0, <1>1, <2>1, <2>2
<1>. HIDE DEF r, n
<1>3. \A i \in 1 .. n : r[i] \notin {"statespace", "process", "validate"}
  BY <1>1, <1>2 DEF Calm
<1>4. Has("mappings") \/ \E j \in 1 .. n : r[j] = "translate"
  BY <1>1, <1>2
<1>5. \A i \in 1 .. n + 2 : i \in 1 .. n \/ i = n + 1 \/ i = n + 2
  BY <1>1
<1>6. ASSUME NEW i \in DOMAIN r, r[i] = "statespace"
      PROVE  /\ Has("mappings") \/ \E j \in 1 .. i - 1 : r[j] = "translate"
             /\ i + 1 \in DOMAIN r /\ r[i + 1] = "process"
  <2>1. i = n + 1
    BY <1>2, <1>3, <1>5, <1>6
  <2>2. i - 1 = n /\ i + 1 = n + 2 /\ i + 1 \in 1 .. n + 2
    BY <2>1, <1>1
  <2>. QED BY <2>2, <1>2, <1>4
<1>7. ASSUME NEW i \in DOMAIN r, r[i] = "process"
      PROVE  i # 1 /\ r[i - 1] = "statespace"
  <2>1. i = n + 2
    BY <1>2, <1>3, <1>5, <1>7
  <2>2. i # 1 /\ i - 1 = n + 1
    BY <2>1, <1>1
  <2>. QED BY <2>2, <1>2
<1>8. \A i \in DOMAIN r : r[i] # "validate"
  BY <1>2, <1>3, <1>5
<1>. QED BY <1>2, <1>6, <1>7, <1>8 DEF Ordered, r, q

(* What follows an ordered plan does not disturb it.                       *)
LEMMA OrderedThenCalm ==
  ASSUME NEW p \in Seq(Steps), Ordered(p), NEW q, Calm(q)
  PROVE  p \o q \in Seq(Steps) /\ Ordered(p \o q)
<1>. DEFINE r == p \o q
            n == Len(p)
            m == Len(q)
<1>1. /\ n \in Nat /\ m \in Nat /\ DOMAIN p = 1 .. n /\ DOMAIN q = 1 .. m
      /\ q \in Seq(Steps)
  BY DEF Calm
<1>2. /\ r \in Seq(Steps) /\ DOMAIN r = 1 .. n + m
      /\ \A i \in 1 .. n : r[i] = p[i]
      /\ \A i \in 1 .. n + m : i > n => i - n \in 1 .. m /\ r[i] = q[i - n]
  BY <1>1
<1>. HIDE DEF r, n, m
<1>3. ASSUME NEW i \in 1 .. n + m, r[i] \in {"statespace", "process", "validate"}
      PROVE  i \in 1 .. n
  <2>1. \A k \in 1 .. m : q[k] \notin {"statespace", "process", "validate"}
    BY <1>1 DEF Calm
  <2>2. ~(i > n)
    BY <1>2, <1>3, <2>1
  <2>. QED BY <1>1, <2>2
<1>4. ASSUME NEW i \in DOMAIN r, r[i] = "statespace"
      PROVE  /\ Has("mappings") \/ \E j \in 1 .. i - 1 : r[j] = "translate"
             /\ i + 1 \in DOMAIN r /\ r[i + 1] = "process"
  <2>1. i \in 1 .. n /\ p[i] = "statespace"
    BY <1>2, <1>3, <1>4
  <2>2. /\ Has("mappings") \/ \E j \in 1 .. i - 1 : p[j] = "translate"
        /\ i + 1 \in 1 .. n /\ p[i + 1] = "process"
    BY <1>1, <2>1 DEF Ordered
  <2>3. \A j \in 1 .. i - 1 : j \in 1 .. n
    BY <1>1, <2>1
  <2>4. 1 .. n \subseteq 1 .. n + m
    BY <1>1
  <2>. QED BY <1>2, <2>2, <2>3, <2>4
<1>5. ASSUME NEW i \in DOMAIN r, r[i] = "process"
      PROVE  IF i = 1 THEN Has("statespace") /\ bundle.statespace.graph = bundle.graph
             ELSE r[i - 1] = "statespace"
  <2>1. i \in 1 .. n /\ p[i] = "process"
    BY <1>2, <1>3, <1>5
  <2>2. IF i = 1 THEN Has("statespace") /\ bundle.statespace.graph = bundle.graph
        ELSE p[i - 1] = "statespace"
    BY <1>1, <2>1 DEF Ordered
  <2>3. i # 1 => i - 1 \in 1 .. n
    BY <1>1, <2>1
  <2>. QED BY <1>2, <2>2, <2>3
<1>6. ASSUME NEW i \in DOMAIN r
      PROVE  r[i] # "validate"
  BY <1>1, <1>2, <1>3 DEF Ordered
<1>. QED BY <1>2, <1>4, <1>5, <1>6 DEF Ordered, r

(* The plans of all methods, whatever artifacts are there already.         *)
LEMMA PlanOrdered ==
  ASSUME NEW m \in Methods
  PROVE  Plan(m) \in Seq(Steps) /\ Ordered(Plan(m))
<1>1. \A q : Calm(q) => q \in Seq(Steps) /\ Ordered(q)
  BY CalmOrdered DEF Calm
<1>2. CASE m = "extract_static"
  BY <1>1, <1>2, CalmPlans DEF Plan
<1>3. CASE m = "extract_dynamic"
  <2>1. Calm(DynamicPlan)
    BY CalmPlans, JoinedCalm, MissingCalm DEF DynamicPlan
  <2>. QED BY <1>1, <1>3, <2>1 DEF Plan
<1>4. CASE m = "build_graph"
  BY <1>1, <1>4, GraphPlanCalm DEF Plan
<1>5. CASE m = "translate_to_gnn"
  BY <1>1, <1>5, TranslatePlanCalm DEF Plan
<1>6. CASE m = "compile_state_space"
  <2>. DEFINE p == Missing("mappings", TranslatePlan)
  <2>1. Calm(p)
    BY TranslatePlanCalm, MissingCalm
  <2>2. Has("mappings") \/ \E j \in DOMAIN p : p[j] = "translate"
    BY TranslatePlanCalm DEF Missing
  <2>3. CompilePlan = p \o <<"statespace", "process">>
    BY DEF CompilePlan
  <2>. HIDE DEF p
  <2>. QED BY <1>6, <2>1, <2>2, <2>3, CompilesLast DEF Plan
<1>7. CASE m = "export_all"
  <2>. DEFINE a == Missing("graph", GraphPlan)
              b == Missing("mappings", <<"translate">>)
              p == a \o b
              c == Missing("statespace", <<"statespace", "process">>)
  <2>1. Calm(a) /\ Calm(b) /\ Calm(p)
    BY CalmPlans, JoinedCalm, MissingCalm, GraphPlanCalm
  <2>2. Has("mappings") \/ \E j \in DOMAIN p : p[j] = "translate"
    <3>1. CASE Has("mappings")
      BY <3>1
    <3>2. CASE ~Has("mappings")
      <4>1. b = <<"translate">> /\ a \in Seq(Steps)
        BY <2>1, <3>2 DEF Missing, Calm
      <4>2. Len(b) = 1 /\ b[1] = "translate" /\ b \in Seq(Steps)
        BY <2>1, <4>1 DEF Calm
      <4>. HIDE DEF a, b
      <4>3. Len(a) + 1 \in DOMAIN (a \o b) /\ (a \o b)[Len(a) + 1] = "translate"
        BY <4>1, <4>2
      <4>. QED BY <4>3
    <3>. QED BY <3>1, <3>2
  <2>3. ExportPlan = (p \o c) \o <<"export", "syntax", "layout">>
    BY DEF ExportPlan
  <2>. HIDE DEF p
  <2>4. p \o c \in Seq(Steps) /\ Ordered(p \o c)
    <3>1. CASE Has("statespace")
      <4>1. c = <<>> /\ p \in Seq(Steps)
        BY <2>1, <3>1 DEF Missing, Calm
      <4>2. p \o c = p
        BY <4>1
      <4>. QED BY <1>1, <2>1, <4>2
    <3>2. CASE ~Has("statespace")
      <4>1. c = <<"statespace", "process">>
        BY <3>2 DEF Missing
      <4>. QED BY <2>1, <2>2, <4>1, CompilesLast
    <3>. QED BY <3>1, <3>2
  <2>. HIDE DEF c
  <2>. QED BY <1>7, <2>3, <2>4, CalmPlans, OrderedThenCalm DEF Plan
<1>. QED BY <1>2, <1>3, <1>4, <1>5, <1>6, <1>7 DEF Methods

-----------------------------------------------------------------------------
(* How a stage ends *)

(* The step at hand is done with, or a method is over.                     *)
Passes ==
  /\ tree' = tree /\ calls' = calls /\ runs' = runs
  /\ call' \in CallRecords
  /\ call'.by = call.by /\ call'.name = call.name
  /\ call'.skip = call.skip /\ call'.data = call.data
  /\ call'.todo = Tail(call.todo) \/ call'.todo = <<>>

(* The step is a stage, and has this outcome.                              *)
Ends(o) ==
  /\ Passes /\ Head(call.todo) \in Stages
  /\ outcomes' \in [Stages -> {"none", "success", "failed", "skipped"}]
  /\ call.by = "runner" => /\ call'.todo = Tail(call.todo)
                           /\ outcomes' = [outcomes EXCEPT ![Head(call.todo)] = o]

SameOutput == disk' = disk /\ placed' = placed /\ package' = package

LEMMA RestOfPlan ==
  ASSUME SessionTypes, ~Idle
  PROVE  /\ call.todo \in Seq(Steps) /\ Len(call.todo) \in Nat \ {0}
         /\ Head(call.todo) = call.todo[1] /\ Head(call.todo) \in Steps
         /\ DOMAIN call.todo = 1 .. Len(call.todo)
         /\ Tail(call.todo) \in Seq(Steps) /\ Len(Tail(call.todo)) = Len(call.todo) - 1
         /\ \A i \in 1 .. Len(call.todo) - 1 : Tail(call.todo)[i] = call.todo[i + 1]
<1>1. call.todo \in Seq(Steps) /\ call.todo # <<>>
  BY DEF SessionTypes, CallRecords, Idle
<1>2. Len(call.todo) \in Nat \ {0} /\ DOMAIN call.todo = 1 .. Len(call.todo)
  BY <1>1
<1>3. Head(call.todo) = call.todo[1] /\ call.todo[1] \in Steps
  BY <1>1, <1>2
<1>4. Tail(call.todo) \in Seq(Steps) /\ Len(Tail(call.todo)) = Len(call.todo) - 1
  BY <1>1, <1>2
<1>5. \A i \in 1 .. Len(call.todo) - 1 : Tail(call.todo)[i] = call.todo[i + 1]
  BY <1>1, <1>2
<1>. QED BY <1>1, <1>2, <1>3, <1>4, <1>5

LEMMA SettleTyped ==
  ASSUME SessionTypes, Head(call.todo) \in Stages,
         NEW o \in {"success", "failed", "skipped"}, Settle(o)
  PROVE  /\ outcomes' \in [Stages -> {"none", "success", "failed", "skipped"}]
         /\ call.by = "runner" => outcomes' = [outcomes EXCEPT ![Head(call.todo)] = o]
BY DEF SessionTypes, Settle

LEMMA StageEnds ==
  ASSUME SessionTypes, ~Idle, Head(call.todo) \in Stages
  PROVE  /\ Returns => Ends("success")
         /\ Raises => Ends("failed")
         /\ SkipStage => Ends("skipped")
         /\ \A valid : RunValidate(TRUE, valid) => Ends("success")
         /\ \A valid : RunValidate(FALSE, valid) => Ends("failed")
<1>1. call \in CallRecords /\ Tail(call.todo) \in Seq(Steps) /\ <<>> \in Seq(Steps)
  BY RestOfPlan DEF SessionTypes
<1>2. ASSUME NEW o \in {"success", "failed", "skipped"}, Settle(o),
             tree' = tree, calls' = calls, runs' = runs,
             \/ call' = [call EXCEPT !.todo = Tail(@)]
             \/ call' = [call EXCEPT !.todo = IF call.by = "runner" THEN Tail(@) ELSE <<>>]
      PROVE  Ends(o)
  <2>1. /\ outcomes' \in [Stages -> {"none", "success", "failed", "skipped"}]
        /\ call.by = "runner" => outcomes' = [outcomes EXCEPT ![Head(call.todo)] = o]
    BY <1>2, SettleTyped
  <2>2. PICK q \in {Tail(call.todo), IF call.by = "runner" THEN Tail(call.todo) ELSE <<>>} :
          call' = [call EXCEPT !.todo = q]
    BY <1>2
  <2>3. q \in Seq(Steps) /\ call.by \in {"session", "runner"}
    BY <1>1 DEF CallRecords
  <2>4. /\ call' \in CallRecords
        /\ call'.by = call.by /\ call'.name = call.name
        /\ call'.skip = call.skip /\ call'.data = call.data
        /\ call'.todo = q
    BY <1>1, <2>2, <2>3 DEF CallRecords
  <2>. QED BY <1>2, <2>1, <2>2, <2>3, <2>4 DEF Ends, Passes
<1>3. Returns => Ends("success")
  BY <1>2 DEF Returns
<1>4. Raises => Ends("failed")
  BY <1>2 DEF Raises
<1>5. SkipStage => Ends("skipped")
  BY <1>2 DEF SkipStage
<1>6. \A valid : RunValidate(TRUE, valid) => Ends("success")
  BY <1>2 DEF RunValidate
<1>7. \A valid : RunValidate(FALSE, valid) => Ends("failed")
  BY <1>2 DEF RunValidate
<1>. QED BY <1>3, <1>4, <1>5, <1>6, <1>7

(* A stage that is passed over is one of the skip set.                     *)
LEMMA SkippedStage ==
  ASSUME SessionTypes, SkipStage
  PROVE  ~Idle /\ Head(call.todo) \in Stages
BY SessionAssumption DEF SkipStage, Skipped, SessionTypes, CallRecords

(* In a session: the plan stays in order as its first stage returns.       *)
LEMMA OrderKept ==
  ASSUME SessionTypes, ~Idle, Ordered(call.todo), Passes,
         Has("mappings") => Has("mappings")',
         call'.todo = Tail(call.todo) /\ Head(call.todo) = "translate" => Has("mappings")',
         call'.todo = Tail(call.todo) /\ Head(call.todo) = "statespace" =>
           Has("statespace")' /\ bundle'.statespace.graph = bundle'.graph
  PROVE  Ordered(call.todo)'
<1>. DEFINE q == call.todo
            n == Len(q)
<1>1. /\ n \in Nat \ {0} /\ DOMAIN q = 1 .. n /\ Head(q) = q[1]
      /\ DOMAIN Tail(q) = 1 .. n - 1 /\ \A i \in 1 .. n - 1 : Tail(q)[i] = q[i + 1]
  BY RestOfPlan
<1>2. CASE call'.todo = <<>>
  BY <1>2 DEF Ordered
<1>3. CASE call'.todo = Tail(q)
  <2>. DEFINE r == call'.todo
  <2>1. DOMAIN r = 1 .. n - 1 /\ \A i \in 1 .. n - 1 : r[i] = q[i + 1]
    BY <1>1, <1>3
  <2>2. /\ q[1] = "translate" => Has("mappings")'
        /\ q[1] = "statespace" =>
             Has("statespace")' /\ bundle'.statespace.graph = bundle'.graph
    BY <1>1, <1>3
  <2>. HIDE DEF r, q, n
  <2>3. ASSUME NEW i \in DOMAIN r, r[i] = "statespace"
        PROVE  /\ Has("mappings")' \/ \E j \in 1 .. i - 1 : r[j] = "translate"
               /\ i + 1 \in DOMAIN r /\ r[i + 1] = "process"
    <3>1. i \in Nat \ {0} /\ i + 1 \in 1 .. n /\ q[i + 1] = "statespace"
      BY <1>1, <2>1, <2>3
    <3>2. /\ Has("mappings") \/ \E j \in 1 .. (i + 1) - 1 : q[j] = "translate"
          /\ (i + 1) + 1 \in 1 .. n /\ q[(i + 1) + 1] = "process"
      BY <1>1, <3>1 DEF Ordered, q
    <3>3. i + 1 \in 1 .. n - 1
      BY <1>1, <3>1, <3>2
    <3>4. ASSUME NEW j \in 1 .. (i + 1) - 1, q[j] = "translate"
          PROVE  Has("mappings")' \/ \E k \in 1 .. i - 1 : r[k] = "translate"
      <4>1. CASE j = 1
        BY <2>2, <3>4, <4>1
      <4>2. CASE j # 1
        <5>1. j - 1 \in 1 .. i - 1 /\ j - 1 \in 1 .. n - 1 /\ (j - 1) + 1 = j
          BY <1>1, <3>1, <4>2
        <5>2. r[j - 1] = q[j]
          BY <2>1, <5>1
        <5>. QED BY <3>4, <5>1, <5>2
      <4>. QED BY <4>1, <4>2
    <3>5. Has("mappings")' \/ \E k \in 1 .. i - 1 : r[k] = "translate"
      BY <3>2, <3>4
    <3>. QED BY <2>1, <3>2, <3>3, <3>5
  <2>4. ASSUME NEW i \in DOMAIN r, r[i] = "process"
        PROVE  IF i = 1 THEN Has("statespace")' /\ bundle'.statespace.graph = bundle'.graph
               ELSE r[i - 1] = "statespace"
    <3>1. i \in Nat \ {0} /\ i + 1 \in 1 .. n /\ q[i + 1] = "process" /\ i + 1 # 1
      BY <1>1, <2>1, <2>4
    <3>2. q[(i + 1) - 1] = "statespace" /\ (i + 1) - 1 = i
      BY <1>1, <3>1 DEF Ordered, q
    <3>3. CASE i = 1
      BY <2>2, <3>2, <3>3
    <3>4. CASE i # 1
      <4>1. i - 1 \in 1 .. n - 1 /\ (i - 1) + 1 = i
        BY <1>1, <3>1, <3>4
      <4>. QED BY <2>1, <3>2, <3>4, <4>1
    <3>. QED BY <3>3, <3>4
  <2>5. ASSUME NEW i \in DOMAIN r
        PROVE  r[i] # "validate"
    <3>1. i + 1 \in 1 .. n /\ r[i] = q[i + 1]
      BY <1>1, <2>1
    <3>. QED BY <1>1, <3>1 DEF Ordered, q
  <2>. QED BY <2>3, <2>4, <2>5 DEF Ordered, r
<1>. QED BY <1>2, <1>3 DEF Passes

LEMMA StageAt ==
  /\ Len(AllStages) = 10 /\ Stages = {AllStages[i] : i \in 1 .. 10}
  /\ AllStages[1] = "ingest" /\ AllStages[2] = "static" /\ AllStages[3] = "normalize"
  /\ AllStages[4] = "graph" /\ AllStages[5] = "dynamic" /\ AllStages[6] = "translate"
  /\ AllStages[7] = "statespace" /\ AllStages[8] = "process" /\ AllStages[9] = "export"
  /\ AllStages[10] = "validate"
  /\ \A i, j \in 1 .. 10 : AllStages[i] = AllStages[j] => i = j
  /\ RunPlan \in Seq(Steps) /\ Len(RunPlan) = 11 /\ RunPlan[11] = "layout"
  /\ \A i \in 1 .. 10 : RunPlan[i] = AllStages[i]
<1>1. Len(AllStages) = 10 /\ DOMAIN AllStages = 1 .. 10
  BY DEF AllStages
<1>2. /\ AllStages[1] = "ingest" /\ AllStages[2] = "static" /\ AllStages[3] = "normalize"
      /\ AllStages[4] = "graph" /\ AllStages[5] = "dynamic" /\ AllStages[6] = "translate"
      /\ AllStages[7] = "statespace" /\ AllStages[8] = "process" /\ AllStages[9] = "export"
      /\ AllStages[10] = "validate"
  BY DEF AllStages
<1>3. Stages = {AllStages[i] : i \in 1 .. 10}
  BY <1>1 DEF Stages, ToSet
<1>4. ASSUME NEW i \in 1 .. 10
      PROVE  i = 1 \/ i = 2 \/ i = 3 \/ i = 4 \/ i = 5 \/ i = 6 \/ i = 7 \/ i = 8
             \/ i = 9 \/ i = 10
  OBVIOUS
<1>5. \A i, j \in 1 .. 10 : AllStages[i] = AllStages[j] => i = j
  BY <1>2, <1>4
<1>6. /\ RunPlan \in Seq(Steps) /\ Len(RunPlan) = 11 /\ RunPlan[11] = "layout"
      /\ \A i \in 1 .. 10 : RunPlan[i] = AllStages[i]
  <2>1. AllStages \in Seq(Stages)
    BY StageSet DEF AllStages
  <2>2. AllStages \in Seq(Steps) /\ "layout" \in Steps
    BY <2>1, StageSet
  <2>3. ASSUME NEW S, NEW q \in Seq(S), NEW x \in S, NEW plan, plan = Append(q, x)
        PROVE  /\ plan \in Seq(S) /\ Len(plan) = Len(q) + 1 /\ plan[Len(q) + 1] = x
               /\ DOMAIN q = 1 .. Len(q) /\ \A i \in DOMAIN q : plan[i] = q[i]
    BY <2>3
  <2>4. RunPlan = Append(AllStages, "layout")
    BY DEF RunPlan
  <2>5. /\ RunPlan \in Seq(Steps) /\ Len(RunPlan) = Len(AllStages) + 1
        /\ RunPlan[Len(AllStages) + 1] = "layout"
        /\ \A i \in DOMAIN AllStages : RunPlan[i] = AllStages[i]
    BY <2>2, <2>3, <2>4
  <2>. QED BY <1>1, <2>5
<1>. QED BY <1>1, <1>2, <1>3, <1>5, <1>6

(* In a run: one more stage is settled, with its outcome.                  *)
LEMMA Advanced ==
  ASSUME SessionTypes, ~Idle, call.by = "runner", Progress,
         NEW o \in {"success", "failed", "skipped"}, Ends(o)
  PROVE  /\ Settled \in 0 .. 9 /\ Settled' = Settled + 1
         /\ Head(call.todo) = AllStages[Settled + 1]
         /\ \A i \in 1 .. Len(call'.todo) : call'.todo[i] = RunPlan[Settled' + i]
         /\ \A i \in 1 .. 10 : outcomes'[AllStages[i]] = "none" <=> i > Settled'
         /\ outcomes'[Head(call.todo)] = o
         /\ \A s \in Stages : s # Head(call.todo) => outcomes'[s] = outcomes[s]
<1>. DEFINE q == call.todo
            n == Len(q)
            k == Settled
<1>1. /\ n \in Nat \ {0} /\ Head(q) = q[1]
      /\ Len(Tail(q)) = n - 1 /\ \A i \in 1 .. n - 1 : Tail(q)[i] = q[i + 1]
  BY RestOfPlan
<1>2. /\ call'.todo = Tail(q) /\ Head(q) \in Stages
      /\ outcomes' = [outcomes EXCEPT ![Head(q)] = o]
      /\ outcomes \in [Stages -> {"none", "success", "failed", "skipped"}]
  BY DEF Ends, Passes, SessionTypes
<1>3. /\ k = 11 - n /\ k \in 0 .. 11 /\ Settled' = 11 - Len(call'.todo)
      /\ \A i \in 1 .. n : q[i] = RunPlan[k + i]
      /\ \A i \in 1 .. 10 : outcomes[AllStages[i]] = "none" <=> i > k
  BY StageAt DEF Progress, Settled
<1>. HIDE DEF q, n, k
<1>4. k \in 0 .. 9 /\ Settled' = k + 1
  <2>1. k \in 0 .. 10 /\ Settled' = k + 1 /\ Head(q) = RunPlan[k + 1]
    BY <1>1, <1>2, <1>3
  <2>2. k # 10
    BY <1>2, <2>1, StageAt, StageSet
  <2>. QED BY <2>1, <2>2
<1>5. Head(q) = AllStages[k + 1] /\ k + 1 \in 1 .. 10
  BY <1>1, <1>3, <1>4, StageAt
<1>6. ASSUME NEW i \in 1 .. Len(call'.todo)
      PROVE  call'.todo[i] = RunPlan[Settled' + i]
  <2>1. i \in 1 .. n - 1 /\ i + 1 \in 1 .. n /\ k + (i + 1) = Settled' + i
    BY <1>1, <1>2, <1>4
  <2>2. call'.todo[i] = q[i + 1]
    BY <1>1, <1>2, <2>1
  <2>3. q[i + 1] = RunPlan[k + (i + 1)]
    BY <1>3, <2>1
  <2>. QED BY <2>1, <2>2, <2>3
<1>7. ASSUME NEW i \in 1 .. 10
      PROVE  outcomes'[AllStages[i]] = "none" <=> i > Settled'
  <2>1. AllStages[i] \in Stages /\ (AllStages[i] = Head(q) => i = k + 1)
    BY <1>5, StageAt
  <2>2. CASE i = k + 1
    BY <1>1, <1>2, <1>4, <1>5, <2>2
  <2>3. CASE i # k + 1
    <3>1. outcomes'[AllStages[i]] = outcomes[AllStages[i]]
      BY <1>2, <2>1, <2>3
    <3>2. i > k <=> i > k + 1
      BY <1>4, <2>3
    <3>. QED BY <1>3, <1>4, <3>1, <3>2
  <2>. QED BY <2>2, <2>3
<1>. QED BY <1>1, <1>2, <1>4, <1>5, <1>6, <1>7 DEF q, k

-----------------------------------------------------------------------------
(* What each stage does to the bundle *)

Keys == Artifacts \cup Flags
Keeps(K) == bundle' \in Bundles /\ \A k \in Keys \ K : bundle'[k] = bundle[k]

LEMMA FreshTyped ==
  /\ FreshBundle \in Bundles
  /\ \A k \in Artifacts : FreshBundle[k] = Nothing
  /\ \A k \in Flags : FreshBundle[k] = FALSE
<1>1. /\ \A k \in Artifacts : FreshBundle[k] = Nothing
      /\ \A k \in Flags : FreshBundle[k] = FALSE
  BY DEF FreshBundle, Artifacts, Flags
<1>2. DOMAIN FreshBundle = {"snapshot", "detail", "facts", "graph", "mappings", "trace",
                          "statespace", "process", "translated", "syntax",
                          "packaged", "warned", "certified"}
  BY DEF FreshBundle, Artifacts, Flags
<1>3. FreshBundle \in Bundles
  <2>1. FreshBundle = [k \in DOMAIN FreshBundle |-> FreshBundle[k]]
    BY DEF FreshBundle
  <2>2. /\ FreshBundle.snapshot = Nothing /\ FreshBundle.detail = Nothing
        /\ FreshBundle.facts = Nothing /\ FreshBundle.graph = Nothing
        /\ FreshBundle.mappings = Nothing /\ FreshBundle.trace = Nothing
        /\ FreshBundle.statespace = Nothing /\ FreshBundle.process = Nothing
        /\ FreshBundle.translated = Nothing /\ FreshBundle.syntax = Nothing
        /\ FreshBundle.packaged = FALSE /\ FreshBundle.warned = FALSE
        /\ FreshBundle.certified = FALSE
    BY <1>1 DEF Artifacts, Flags
  <2>3. Nothing \in Opt(Versions) /\ Nothing \in Opt(Graphs) /\ Nothing \in Opt(StateSpaces)
        /\ Nothing \in Opt(SyntaxTrees)
    BY DEF Opt
  <2>. HIDE DEF FreshBundle
  <2>. QED BY <1>2, <2>1, <2>2, <2>3 DEF Bundles
<1>. QED BY <1>1, <1>3

LEMMA SameBundle ==
  ASSUME SessionTypes, bundle' = bundle
  PROVE  Keeps({})
BY DEF SessionTypes, Keeps

LEMMA SourceStages ==
  ASSUME SessionTypes, RunIngest \/ RunStatic \/ RunNormalize
  PROVE  Keeps({"snapshot", "detail", "facts", "syntax"}) /\ SameOutput
<1>1. bundle \in Bundles /\ tree \in Opt(Versions)
  BY DEF SessionTypes, Opt
<1>2. SameOutput
  BY DEF RunIngest, RunStatic, RunNormalize, output, SameOutput
<1>3. CASE bundle' = [bundle EXCEPT !.snapshot = tree]
  <2>1. Keeps({"snapshot"})
    BY <1>1, <1>3 DEF Keeps, Keys, Artifacts, Flags, Bundles
  <2>. QED BY <1>2, <2>1 DEF Keeps
<1>4. CASE RunStatic
  <2>. DEFINE syntax == IF call.name = "extract_static" THEN Whole(tree) ELSE bundle.syntax
  <2>1. syntax \in Opt(SyntaxTrees)
    BY <1>1 DEF Bundles, SyntaxTrees, Opt, Whole
  <2>2. bundle' = [bundle EXCEPT !.detail = tree, !.syntax = syntax]
    BY <1>4 DEF RunStatic
  <2>. HIDE DEF syntax
  <2>3. Keeps({"detail", "syntax"})
    BY <1>1, <2>1, <2>2 DEF Keeps, Keys, Artifacts, Flags, Bundles
  <2>. QED BY <1>2, <2>3 DEF Keeps
<1>5. CASE bundle' = [bundle EXCEPT !.facts = tree]
  <2>1. Keeps({"facts"})
    BY <1>1, <1>5 DEF Keeps, Keys, Artifacts, Flags, Bundles
  <2>. QED BY <1>2, <2>1 DEF Keeps
<1>. QED BY <1>3, <1>4, <1>5 DEF RunIngest, RunNormalize

LEMMA GraphStage ==
  ASSUME SessionTypes, RunGraph
  PROVE  /\ Keeps({"facts", "graph", "syntax"}) /\ SameOutput
         /\ bundle'.graph \in Graphs
         /\ bundle'.graph.read = tree /\ bundle'.graph.enriched = FALSE
<1>. DEFINE g == [files |-> bundle.snapshot, read |-> tree, enriched |-> FALSE]
            f == IF Has("facts") THEN bundle.facts ELSE tree
<1>1. bundle \in Bundles /\ tree \in Versions /\ bundle.snapshot \in Opt(Versions)
      /\ bundle.facts \in Opt(Versions) /\ bundle.syntax \in Opt(SyntaxTrees)
  BY DEF SessionTypes, Bundles
<1>2. bundle.snapshot \in Versions
  BY <1>1 DEF RunGraph, Has, Opt
<1>3. g \in Graphs /\ g \in Opt(Graphs) /\ f \in Opt(Versions)
  BY <1>1, <1>2 DEF Graphs, Opt
<1>4. g.read = tree /\ g.enriched = FALSE
  OBVIOUS
<1>5. PICK syntax \in {bundle.syntax, File(Nothing, "record")} : bundle' = Built(syntax)
  BY DEF RunGraph
<1>6. syntax \in Opt(SyntaxTrees) /\ SameOutput
  BY <1>1, <1>5 DEF SyntaxTrees, Opt, RunGraph, output, SameOutput
<1>. HIDE DEF g, f
<1>7. bundle' = [bundle EXCEPT !.facts = f, !.graph = g, !.syntax = syntax]
  BY <1>5 DEF Built, f, g
<1>8. bundle'.graph = g /\ Keeps({"facts", "graph", "syntax"})
  BY <1>1, <1>3, <1>6, <1>7 DEF Keeps, Keys, Artifacts, Flags, Bundles
<1>. QED BY <1>3, <1>4, <1>6, <1>8

LEMMA DynamicStage ==
  ASSUME SessionTypes, RunDynamic
  PROVE  /\ Keeps({"graph"}) /\ SameOutput
         /\ IF Has("graph") /\ call.data
            THEN /\ bundle'.graph \in Graphs /\ bundle'.graph.enriched = TRUE
                 /\ bundle'.graph.read = bundle.graph.read
            ELSE bundle'.graph = bundle.graph
<1>1. bundle \in Bundles /\ bundle.graph \in Opt(Graphs) /\ SameOutput
  BY DEF SessionTypes, Bundles, RunDynamic, output, SameOutput
<1>2. CASE Has("graph") /\ call.data
  <2>. DEFINE g == [bundle.graph EXCEPT !.enriched = TRUE]
  <2>1. bundle.graph \in Graphs
    BY <1>1, <1>2 DEF Has, Opt
  <2>2. g \in Graphs /\ g.enriched = TRUE /\ g.read = bundle.graph.read /\ g \in Opt(Graphs)
    BY <2>1 DEF Graphs, Opt
  <2>3. bundle' = [bundle EXCEPT !.graph = g]
    BY <1>2 DEF RunDynamic
  <2>. HIDE DEF g
  <2>4. bundle'.graph = g /\ Keeps({"graph"})
    BY <1>1, <2>2, <2>3 DEF Keeps, Keys, Artifacts, Flags, Bundles
  <2>. QED BY <1>1, <1>2, <2>2, <2>4
<1>3. CASE ~(Has("graph") /\ call.data)
  <2>1. bundle' = bundle
    BY <1>3 DEF RunDynamic
  <2>. QED BY <1>1, <1>3, <2>1 DEF Keeps
<1>. QED BY <1>2, <1>3

LEMMA TranslateStage ==
  ASSUME SessionTypes, RunTranslate
  PROVE  /\ Keeps({"mappings", "trace", "translated"}) /\ SameOutput
         /\ bundle'.mappings = bundle.graph
         /\ bundle'.trace \in {bundle.trace, bundle.graph}
         /\ bundle'.translated \in {bundle.translated, bundle.graph}
         /\ \/ Ends("success") /\ bundle'.trace = bundle.graph
               /\ (call.by = "runner" => bundle'.translated = bundle.graph)
            \/ Ends("failed")
<1>1. bundle \in Bundles /\ bundle.graph \in Opt(Graphs)
      /\ bundle.translated \in Opt(Graphs) /\ bundle.trace \in Opt(Graphs) /\ SameOutput
  BY DEF SessionTypes, Bundles, RunTranslate, output, SameOutput
<1>2. ~Idle /\ Head(call.todo) \in Stages
  BY StageSet DEF RunTranslate, Running
<1>3. CASE Returns /\ bundle' = [bundle EXCEPT
             !.mappings = bundle.graph, !.trace = bundle.graph,
             !.translated = IF call.by = "runner" THEN bundle.graph ELSE @]
  <2>. DEFINE t == IF call.by = "runner" THEN bundle.graph ELSE bundle.translated
  <2>1. t \in Opt(Graphs) /\ t \in {bundle.translated, bundle.graph}
        /\ (call.by = "runner" => t = bundle.graph)
    BY <1>1
  <2>2. bundle' = [bundle EXCEPT !.mappings = bundle.graph, !.trace = bundle.graph,
                                 !.translated = t]
    BY <1>3
  <2>. HIDE DEF t
  <2>3. /\ bundle'.mappings = bundle.graph /\ bundle'.trace = bundle.graph
        /\ bundle'.translated = t
        /\ Keeps({"mappings", "trace", "translated"})
    BY <1>1, <2>1, <2>2 DEF Keeps, Keys, Artifacts, Flags, Bundles
  <2>. QED BY <1>1, <1>2, <1>3, <2>1, <2>3, StageEnds
<1>4. CASE Raises /\ bundle' = [bundle EXCEPT !.mappings = bundle.graph]
  <2>1. /\ bundle'.mappings = bundle.graph /\ bundle'.trace = bundle.trace
        /\ bundle'.translated = bundle.translated
        /\ Keeps({"mappings", "trace", "translated"})
    BY <1>1, <1>4 DEF Keeps, Keys, Artifacts, Flags, Bundles
  <2>. QED BY <1>1, <1>2, <1>4, <2>1, StageEnds
<1>. QED BY <1>3, <1>4 DEF RunTranslate

LEMMA StatespaceStage ==
  ASSUME SessionTypes, CompileStatespace
  PROVE  /\ Keeps({"statespace"}) /\ SameOutput
         /\ bundle'.statespace = [graph |-> bundle.graph, mappings |-> bundle.mappings]
         /\ bundle'.statespace \in StateSpaces
<1>. DEFINE ss == [graph |-> bundle.graph, mappings |-> bundle.mappings]
<1>1. bundle \in Bundles /\ bundle.graph \in Opt(Graphs)
      /\ bundle.mappings \in Opt(Graphs) /\ SameOutput
  BY DEF SessionTypes, Bundles, CompileStatespace, output, SameOutput
<1>2. bundle.graph \in Graphs
  BY <1>1 DEF CompileStatespace, Has, Opt
<1>3. ss \in StateSpaces /\ ss \in Opt(StateSpaces)
  BY <1>1, <1>2 DEF StateSpaces, Opt
<1>4. bundle' = [bundle EXCEPT !.statespace = ss]
  BY DEF CompileStatespace
<1>. HIDE DEF ss
<1>5. bundle'.statespace = ss /\ Keeps({"statespace"})
  BY <1>1, <1>3, <1>4 DEF Keeps, Keys, Artifacts, Flags, Bundles
<1>. QED BY <1>1, <1>3, <1>5 DEF ss

LEMMA ProcessStage ==
  ASSUME SessionTypes, RunProcess
  PROVE  Keeps({"process"}) /\ SameOutput /\ bundle'.process = bundle.graph
<1>1. bundle \in Bundles /\ bundle.graph \in Opt(Graphs) /\ SameOutput
      /\ bundle' = [bundle EXCEPT !.process = bundle.graph]
  BY DEF SessionTypes, Bundles, RunProcess, output, SameOutput
<1>. QED BY <1>1 DEF Keeps, Keys, Artifacts, Flags, Bundles

LEMMA WrittenFiles ==
  ASSUME SessionTypes, NEW k, NEW form \in FormsWritten
  PROVE  /\ DOMAIN Written(k, form) = Places
         /\ k = Len(Files) => \A f \in ToSet(Files) :
              Artifact(f) # Nothing => Written(k, form)[f] \in WrittenOf(f)
<1>1. DOMAIN Written(k, form) = Places
  BY DEF Written, SessionTypes
<1>2. ASSUME k = Len(Files), NEW f \in ToSet(Files), Artifact(f) # Nothing
      PROVE  Written(k, form)[f] \in WrittenOf(f)
  <2>1. f \in Places
    BY StageSet
  <2>2. \E i \in 1 .. k : Files[i] = f
    BY <1>2 DEF ToSet, Files
  <2>3. Written(k, form)[f] = File(Artifact(f), form[f])
    BY <1>2, <2>1, <2>2 DEF Written, SessionTypes
  <2>4. form[f] \in FormsOf(f)
    BY DEF FormsWritten
  <2>. QED BY <2>3, <2>4 DEF WrittenOf, File
<1>. QED BY <1>1, <1>2

(* A package that was built to its end lists what the builder has written. *)
LEMMA BuildSound ==
  ASSUME NEW old, NEW q \in Builds(old, Package)
  PROVE  Sound(q)
<1>. DEFINE p == Package
<1>1. PICK ends \in [Sections -> SectionEnds], blanket \in {"whole", "record"} :
        q = Build(old, p, ends, blanket)
  BY DEF Builds
<1>. DEFINE files == BuiltFiles(old, p, ends, blanket)
            entered == Mandatory \cup {x \in Sections : ends[x] = "entered"}
<1>2. q.files = files /\ q.sums = [f \in entered |-> files[f]]
  BY <1>1 DEF Build
<1>3. ASSUME NEW f \in entered
      PROVE  files[f] \in Own
  <2>0. f \in PackageFiles
    BY DEF PackageFiles
  <2>1. CASE f = "model"
    <3>1. files[f] = Whole(p)
      BY <2>0, <2>1 DEF BuiltFiles
    <3>. QED BY <3>1 DEF Own
  <2>2. CASE f = "blanket"
    <3>1. files[f] = File(p, blanket)
      BY <2>0, <2>2 DEF BuiltFiles
    <3>. QED BY <3>1 DEF Own, Whole
  <2>3. CASE f \in Sections /\ ends[f] = "entered" /\ f # "model" /\ f # "blanket"
    <3>1. files[f] = Section(old.files[f], p, ends[f])
      BY <2>0, <2>3 DEF BuiltFiles
    <3>. QED BY <2>3, <3>1 DEF Section, Own
  <2>. QED BY <2>1, <2>2, <2>3 DEF Mandatory
<1>. HIDE DEF p, files, entered
<1>4. DOMAIN q.sums = entered /\ \A f \in entered : q.sums[f] = files[f]
  BY <1>2
<1>5. Mandatory \subseteq entered
  BY DEF entered
<1>. QED BY <1>2, <1>3, <1>4, <1>5 DEF Sound

LEMMA ExportStage ==
  ASSUME SessionTypes, RunExport
  PROVE  /\ Keeps({"packaged", "warned"})
         /\ DOMAIN disk' = Places /\ DOMAIN placed' = Places
         /\ \A f \in ToSet(Files) : Artifact(f) # Nothing => disk'[f] \in WrittenOf(f)
         /\ bundle'.packaged => bundle.packaged \/ Sound(package')
         /\ Packable /\ ~bundle'.warned => Sound(package')
<1>1. bundle \in Bundles /\ bundle.warned \in BOOLEAN /\ bundle.packaged \in BOOLEAN
  BY DEF SessionTypes, Bundles
<1>2. /\ DOMAIN disk' = Places /\ DOMAIN placed' = Places
      /\ \A f \in ToSet(Files) : Artifact(f) # Nothing => disk'[f] \in WrittenOf(f)
  BY WrittenFiles DEF RunExport, SessionTypes
<1>3. PICK unrendered \in BOOLEAN :
        \/ /\ ~Packable /\ UNCHANGED package
           /\ bundle' = [bundle EXCEPT !.warned = @ \/ unrendered]
        \/ /\ Packable /\ package' \in Builds(package, Package)
           /\ bundle' = [bundle EXCEPT !.packaged = TRUE, !.warned = @ \/ unrendered]
        \/ /\ Packable /\ package' \in AbandonedBuilds(package, Package)
           /\ bundle' = [bundle EXCEPT !.warned = TRUE]
  BY DEF RunExport
<1>. DEFINE w == bundle.warned \/ unrendered
<1>4. w \in BOOLEAN
  OBVIOUS
<1>5. CASE ~Packable /\ bundle' = [bundle EXCEPT !.warned = @ \/ unrendered]
  <2>1. bundle' = [bundle EXCEPT !.warned = w]
    BY <1>5
  <2>. HIDE DEF w
  <2>2. Keeps({"packaged", "warned"}) /\ bundle'.packaged = bundle.packaged
    BY <1>1, <1>4, <2>1 DEF Keeps, Keys, Artifacts, Flags, Bundles
  <2>. QED BY <1>2, <1>5, <2>2
<1>6. CASE /\ package' \in Builds(package, Package)
           /\ bundle' = [bundle EXCEPT !.packaged = TRUE, !.warned = @ \/ unrendered]
  <2>1. bundle' = [bundle EXCEPT !.packaged = TRUE, !.warned = w]
    BY <1>6
  <2>. HIDE DEF w
  <2>2. Keeps({"packaged", "warned"})
    BY <1>1, <1>4, <2>1 DEF Keeps, Keys, Artifacts, Flags, Bundles
  <2>3. Sound(package')
    BY <1>6, BuildSound
  <2>. QED BY <1>2, <2>2, <2>3
<1>7. CASE bundle' = [bundle EXCEPT !.warned = TRUE]
  <2>1. /\ Keeps({"packaged", "warned"}) /\ bundle'.packaged = bundle.packaged
        /\ bundle'.warned = TRUE
    BY <1>1, <1>7 DEF Keeps, Keys, Artifacts, Flags, Bundles
  <2>. QED BY <1>2, <2>1
<1>. QED BY <1>3, <1>5, <1>6, <1>7

LEMMA ValidateStage ==
  ASSUME SessionTypes, NEW passed \in BOOLEAN, NEW valid \in BOOLEAN,
         RunValidate(passed, valid)
  PROVE  /\ ~Idle /\ Head(call.todo) = "validate" /\ SameOutput
         /\ Ends("success") \/ Ends("failed")
         /\ Keeps({"certified"})
         /\ bundle'.certified => bundle.packaged /\ Certifies(package)
<1>1. ~Idle /\ Head(call.todo) = "validate" /\ Head(call.todo) \in Stages /\ SameOutput
  BY StageSet DEF RunValidate, Running, output, SameOutput
<1>2. passed = TRUE \/ passed = FALSE
  OBVIOUS
<1>3. Ends("success") \/ Ends("failed")
  BY <1>1, <1>2, StageEnds
<1>4. bundle' = [bundle EXCEPT !.certified = valid] /\ bundle \in Bundles
  BY DEF RunValidate, SessionTypes
<1>5. Keeps({"certified"}) /\ bundle'.certified = valid
  BY <1>4 DEF Keeps, Keys, Artifacts, Flags, Bundles
<1>6. valid => bundle.packaged /\ Certifies(package)
  BY DEF RunValidate
<1>. QED BY <1>1, <1>3, <1>5, <1>6

-----------------------------------------------------------------------------
(* The syntax tree and the layout *)

StepAction ==
  \/ WriteSyntax \/ LeaveFlat
  \/ \E k \in Stops \cup {Len(Moved)}, cut \in BOOLEAN : Organize(k, cut)

(* Wherever the layout pass stops, a file that could be found can be found.*)
LEMMA LayoutStep ==
  ASSUME SessionTypes, NEW k, NEW cut, Organize(k, cut)
  PROVE  /\ DOMAIN disk' = Places /\ DOMAIN placed' = Places
         /\ \A f \in Places : Found(f)' = Found(f)
<1>1. /\ disk' = [f \in Places |-> IF Moves(f, k) THEN Nothing ELSE disk[f]]
      /\ placed' = [f \in Places |->
           IF Moves(f, k) THEN disk[f] ELSE IF Clears(f, k, cut) THEN Nothing ELSE placed[f]]
  BY DEF Organize, SessionTypes
<1>2. ASSUME NEW f \in Places
      PROVE  (IF disk'[f] # Nothing THEN disk'[f] ELSE placed'[f])
               = IF disk[f] # Nothing THEN disk[f] ELSE placed[f]
  <2>1. CASE Moves(f, k)
    BY <1>1, <2>1 DEF Moves
  <2>2. CASE ~Moves(f, k)
    <3>1. disk'[f] = disk[f]
      BY <1>1, <2>2
    <3>2. disk[f] = Nothing => placed'[f] = placed[f]
      BY <1>1, <2>2 DEF Clears
    <3>. QED BY <3>1, <3>2
  <2>. QED BY <2>1, <2>2
<1>. QED BY <1>1, <1>2 DEF Found

LEMMA StepPasses ==
  ASSUME SessionTypes, StepAction
  PROVE  /\ ~Idle /\ Passes /\ Head(call.todo) \in {"syntax", "layout"}
         /\ outcomes' = outcomes /\ bundle' = bundle /\ package' = package
         /\ DOMAIN disk' = Places /\ DOMAIN placed' = Places
         /\ Head(call.todo) = "layout" =>
              call'.todo = Tail(call.todo) /\ \A f \in Places : Found(f)' = Found(f)
<1>1. ASSUME ~Idle, tree' = tree, calls' = calls, runs' = runs,
             NEW q \in {Tail(call.todo), <<>>}, call' = [call EXCEPT !.todo = q]
      PROVE  Passes /\ call'.todo = q
  <2>1. call \in CallRecords /\ Tail(call.todo) \in Seq(Steps) /\ <<>> \in Seq(Steps)
    BY <1>1, RestOfPlan DEF SessionTypes
  <2>2. q \in Seq(Steps)
    BY <2>1
  <2>3. /\ call' \in CallRecords
        /\ call'.by = call.by /\ call'.name = call.name
        /\ call'.skip = call.skip /\ call'.data = call.data
        /\ call'.todo = q
    BY <1>1, <2>1, <2>2 DEF CallRecords
  <2>. QED BY <1>1, <2>3 DEF Passes
<1>2. CASE WriteSyntax
  <2>1. /\ ~Idle /\ Head(call.todo) = "syntax" /\ tree' = tree /\ calls' = calls
        /\ runs' = runs /\ outcomes' = outcomes /\ bundle' = bundle /\ package' = package
        /\ placed' = placed /\ DOMAIN disk' = DOMAIN disk
    BY <1>2 DEF WriteSyntax, Running
  <2>2. PICK q \in {Tail(call.todo), <<>>} : call' = [call EXCEPT !.todo = q]
    BY <1>2 DEF WriteSyntax
  <2>. QED BY <1>1, <2>1, <2>2 DEF SessionTypes
<1>3. CASE LeaveFlat
  <2>1. /\ ~Idle /\ Head(call.todo) = "layout" /\ tree' = tree /\ calls' = calls
        /\ runs' = runs /\ outcomes' = outcomes /\ bundle' = bundle /\ package' = package
        /\ placed' = placed /\ disk' = disk
        /\ call' = [call EXCEPT !.todo = Tail(call.todo)]
    BY <1>3 DEF LeaveFlat, Running, output
  <2>2. \A f \in Places : Found(f)' = Found(f)
    BY <2>1 DEF Found
  <2>. QED BY <1>1, <2>1, <2>2 DEF SessionTypes
<1>4. ASSUME NEW k, NEW cut, Organize(k, cut)
      PROVE  /\ ~Idle /\ Passes /\ Head(call.todo) = "layout"
             /\ outcomes' = outcomes /\ bundle' = bundle /\ package' = package
             /\ DOMAIN disk' = Places /\ DOMAIN placed' = Places
             /\ call'.todo = Tail(call.todo) /\ \A f \in Places : Found(f)' = Found(f)
  <2>1. /\ ~Idle /\ Head(call.todo) = "layout" /\ tree' = tree /\ calls' = calls
        /\ runs' = runs /\ outcomes' = outcomes /\ bundle' = bundle /\ package' = package
        /\ call' = [call EXCEPT !.todo = Tail(call.todo)]
    BY <1>4 DEF Organize, Running
  <2>. QED BY <1>1, <1>4, <2>1, LayoutStep
<1>. QED BY <1>2, <1>3, <1>4 DEF StepAction

-----------------------------------------------------------------------------
(* Types *)

StageAction ==
  \/ SkipStage \/ RaiseEarly \/ RunIngest \/ RunStatic \/ RunNormalize \/ RunGraph
  \/ RunDynamic \/ RunTranslate \/ CompileStatespace \/ RunProcess \/ RunExport
  \/ \E k \in 1..Len(Files) : RaiseInExport(k)
  \/ \E passed, valid \in BOOLEAN : RunValidate(passed, valid)

LEMMA RaisedExport ==
  ASSUME SessionTypes, NEW k, RaiseInExport(k)
  PROVE  /\ ~Idle /\ Ends("failed") /\ Head(call.todo) = "export"
         /\ bundle' = bundle /\ package' = package
         /\ DOMAIN disk' = Places /\ DOMAIN placed' = Places
<1>1. /\ ~Idle /\ Raises /\ bundle' = bundle /\ package' = package /\ placed' = placed
      /\ Head(call.todo) = "export"
  BY DEF RaiseInExport, Running
<1>2. PICK form \in FormsWritten : DOMAIN disk' = DOMAIN Written(k - 1, form)
  BY DEF RaiseInExport
<1>3. DOMAIN disk' = Places
  BY <1>2, WrittenFiles
<1>. QED BY <1>1, <1>3, StageEnds, StageSet DEF SessionTypes

LEMMA StageActionEnds ==
  ASSUME SessionTypes, StageAction
  PROVE  /\ ~Idle
         /\ \E o \in {"success", "failed", "skipped"} : Ends(o)
         /\ bundle' \in Bundles /\ DOMAIN disk' = Places /\ DOMAIN placed' = Places
         /\ Head(call.todo) # "validate" => bundle'.certified = bundle.certified
<1>1. /\ DOMAIN disk = Places /\ DOMAIN placed = Places /\ bundle \in Bundles
      /\ (\A k \in Keys : bundle[k] = bundle[k]) /\ "certified" \in Keys
  BY DEF SessionTypes, Keys, Flags
<1>2. CASE SkipStage
  BY <1>1, <1>2, StageEnds, SkippedStage DEF SkipStage, output
<1>3. CASE RaiseEarly
  BY <1>1, <1>3, StageEnds DEF RaiseEarly, output
<1>4. ASSUME NEW s \in Stages, Running(s), Returns \/ Raises
      PROVE  ~Idle /\ \E o \in {"success", "failed", "skipped"} : Ends(o)
  BY <1>4, StageEnds DEF Running
<1>5. ASSUME NEW K, Keeps(K), "certified" \notin K
      PROVE  bundle' \in Bundles /\ bundle'.certified = bundle.certified
  BY <1>1, <1>5 DEF Keeps
<1>6. ASSUME SameOutput
      PROVE  DOMAIN disk' = Places /\ DOMAIN placed' = Places
  BY <1>1, <1>6 DEF SameOutput
<1>7. CASE RunIngest \/ RunStatic \/ RunNormalize
  <2>1. \E s \in Stages : Running(s) /\ Returns
    BY <1>7, StageSet DEF RunIngest, RunStatic, RunNormalize
  <2>. QED BY <1>4, <1>5, <1>6, <1>7, <2>1, SourceStages
<1>8. CASE RunGraph
  <2>1. \E s \in Stages : Running(s) /\ (Returns \/ Raises)
    BY <1>8, StageSet DEF RunGraph
  <2>. QED BY <1>4, <1>5, <1>6, <1>8, <2>1, GraphStage
<1>9. CASE RunDynamic
  <2>1. \E s \in Stages : Running(s) /\ (Returns \/ Raises)
    BY <1>9, StageSet DEF RunDynamic
  <2>. QED BY <1>4, <1>5, <1>6, <1>9, <2>1, DynamicStage
<1>10. CASE RunTranslate
  <2>1. \E s \in Stages : Running(s) /\ (Returns \/ Raises)
    BY <1>10, StageSet DEF RunTranslate
  <2>. QED BY <1>4, <1>5, <1>6, <1>10, <2>1, TranslateStage
<1>11. CASE CompileStatespace
  <2>1. \E s \in Stages : Running(s) /\ Returns
    BY <1>11, StageSet DEF CompileStatespace
  <2>. QED BY <1>4, <1>5, <1>6, <1>11, <2>1, StatespaceStage
<1>12. CASE RunProcess
  <2>1. \E s \in Stages : Running(s) /\ Returns
    BY <1>12, StageSet DEF RunProcess
  <2>. QED BY <1>4, <1>5, <1>6, <1>12, <2>1, ProcessStage
<1>13. CASE RunExport
  <2>1. \E s \in Stages : Running(s) /\ Returns
    BY <1>13, StageSet DEF RunExport
  <2>. QED BY <1>4, <1>5, <1>13, <2>1, ExportStage
<1>14. CASE \E k \in 1..Len(Files) : RaiseInExport(k)
  BY <1>1, <1>14, RaisedExport
<1>15. CASE \E passed, valid \in BOOLEAN : RunValidate(passed, valid)
  BY <1>6, <1>15, ValidateStage DEF Keeps
<1>. QED BY <1>2, <1>3, <1>7, <1>8, <1>9, <1>10, <1>11, <1>12, <1>13, <1>14, <1>15
         DEF StageAction

LEMMA TypesKept == SessionTypes /\ [SessionNext]_sessionVars => SessionTypes'
<1>. SUFFICES ASSUME SessionTypes, [SessionNext]_sessionVars
              PROVE  SessionTypes'
  OBVIOUS
<1>. USE SessionAssumption
<1>1. CASE NewSession
  <2>1. <<>> \in Seq(Steps) /\ call.todo = <<>> /\ call \in CallRecords
    BY <1>1 DEF NewSession, Idle, SessionTypes
  <2>2. call' \in CallRecords
    BY <1>1, <2>1 DEF NewSession, CallRecords
  <2>3. outcomes' \in [Stages -> {"none", "success", "failed", "skipped"}]
    BY <1>1 DEF NewSession
  <2>. QED BY <1>1, <2>2, <2>3, FreshTyped DEF NewSession, SessionTypes, output
<1>2. ASSUME NEW m \in Methods, NEW data \in BOOLEAN,
             NEW layout \in Layouts \cup {FALSE}, CallMethod(m, data, layout)
      PROVE  SessionTypes'
  <2>1. call \in CallRecords /\ Plan(m) \in Seq(Steps)
    BY PlanOrdered DEF SessionTypes
  <2>2. call' \in CallRecords
    BY <1>2, <2>1 DEF CallMethod, CallRecords
  <2>3. calls' \in 0 .. MaxCalls
    BY <1>2, SessionAssumption DEF CallMethod, SessionTypes, Weight
  <2>. QED BY <1>2, <2>2, <2>3 DEF CallMethod, SessionTypes, output
<1>3. ASSUME NEW skip \in SkipSets, NEW data \in BOOLEAN, NEW layout \in Layouts,
             StartRun(skip, data, layout)
      PROVE  SessionTypes'
  <2>1. RunPlan \in Seq(Steps)
    BY StageAt
  <2>2. call' \in CallRecords
    BY <1>3, <2>1 DEF StartRun, CallRecords
  <2>3. calls' \in 0 .. MaxCalls /\ runs' \in 0 .. MaxRuns
    BY <1>3, SessionAssumption DEF StartRun, SessionTypes, Weight
  <2>4. outcomes' \in [Stages -> {"none", "success", "failed", "skipped"}]
    BY <1>3 DEF StartRun
  <2>. QED BY <1>3, <2>2, <2>3, <2>4, FreshTyped DEF StartRun, SessionTypes, output
<1>4. CASE StageAction
  BY <1>4, StageActionEnds DEF Ends, Passes, SessionTypes
<1>5. CASE StepAction
  BY <1>5, StepPasses DEF Passes, SessionTypes
<1>6. CASE EditTree
  BY <1>6 DEF EditTree, SessionTypes, Versions, output
<1>7. CASE UNCHANGED sessionVars
  BY <1>7 DEF sessionVars, SessionTypes
<1>. QED BY <1>1, <1>2, <1>3, <1>4, <1>5, <1>6, <1>7 DEF SessionNext, StageAction, StepAction

-----------------------------------------------------------------------------
(* Sessions *)

LEMMA BundleReads ==
  ASSUME NEW b \in Bundles
  PROVE  /\ \A k \in {"graph", "mappings", "trace", "process"} :
              b[k] # Nothing => b[k].read \in Nat
         /\ b.statespace # Nothing =>
              /\ b.statespace.graph.read \in Nat
              /\ b.statespace.mappings # Nothing => b.statespace.mappings.read \in Nat
<1>1. \A g \in Graphs : g.read \in Nat
  BY SessionAssumption DEF Graphs, Versions
<1>2. \A k \in {"graph", "mappings", "trace", "process"} : b[k] \in Opt(Graphs)
  BY DEF Bundles
<1>3. b.statespace # Nothing => b.statespace \in StateSpaces
  BY DEF Bundles, Opt
<1>. QED BY <1>1, <1>2, <1>3 DEF StateSpaces, Opt

(* The artifacts that InOrder is about.                                    *)
Derived == {"graph", "mappings", "trace", "statespace", "process"}

LEMMA SameOrder ==
  ASSUME NEW b, NEW c, NEW t, InOrder(b, t), \A k \in Derived : c[k] = b[k]
  PROVE  InOrder(c, t)
BY DEF InOrder, Derived

LEMMA KeptDerived ==
  ASSUME NEW K, Keeps(K)
  PROVE  \A k \in Derived \ K : bundle'[k] = bundle[k]
BY DEF Keeps, Keys, Artifacts, Flags, Derived

(* A step whose outputs are not among those keeps a session in order.      *)
LEMMA OrderUndisturbed ==
  ASSUME SessionTypes, SessionInv, ~Idle, Passes,
         \A k \in Derived : bundle'[k] = bundle[k], bundle'.certified = bundle.certified,
         Head(call.todo) \notin {"translate", "statespace"} \/ call'.todo = <<>>
  PROVE  SessionInv'
<1>1. InOrder(bundle', tree)
  BY SameOrder DEF SessionInv
<1>2. Has("mappings") => Has("mappings")'
  BY DEF Has, Derived
<1>3. Ordered(call.todo)'
  <2>1. CASE call'.todo = <<>>
    BY <2>1 DEF Ordered
  <2>2. CASE Head(call.todo) \notin {"translate", "statespace"}
    BY <1>2, <2>2, OrderKept DEF SessionInv
  <2>. QED BY <2>1, <2>2
<1>. QED BY <1>1, <1>3 DEF SessionInv, Passes

LEMMA SessionStage ==
  ASSUME SessionTypes, SessionInv, call.by = "session", StageAction
  PROVE  SessionInv'
<1>. DEFINE b == bundle
            c == bundle'
<1>0. /\ ~Idle /\ Passes
      /\ tree' = tree /\ tree \in Nat /\ b \in Bundles /\ c \in Bundles
      /\ InOrder(b, tree) /\ Ordered(call.todo)
  BY StageActionEnds, SessionAssumption
     DEF SessionTypes, Versions, Ends, Passes, SessionInv
<1>1. Head(call.todo) # "validate" /\ c.certified = b.certified /\ ~b.certified
  <2>1. call.todo[1] # "validate" /\ Head(call.todo) = call.todo[1]
    BY <1>0, RestOfPlan DEF Ordered
  <2>. QED BY <2>1, StageActionEnds DEF SessionInv
<1>2. SUFFICES InOrder(c, tree) /\ Ordered(call.todo)'
  BY <1>0, <1>1 DEF SessionInv, Passes
<1>3. CASE SkipStage
  BY <1>3 DEF SkipStage, Skipped, SessionInv
<1>4. CASE RaiseEarly
  <2>1. call'.todo = <<>> /\ c = b
    BY <1>4 DEF RaiseEarly, Raises, SessionTypes, CallRecords
  <2>. QED BY <1>0, <1>1, <2>1, OrderUndisturbed DEF SessionInv
<1>5. CASE RunIngest \/ RunStatic \/ RunNormalize
  <2>1. Head(call.todo) \notin {"translate", "statespace"}
    BY <1>5 DEF RunIngest, RunStatic, RunNormalize, Running
  <2>2. \A k \in Derived : c[k] = b[k]
    BY <1>5, SourceStages, KeptDerived DEF Derived
  <2>. QED BY <1>0, <1>1, <2>1, <2>2, OrderUndisturbed DEF SessionInv
<1>6. CASE RunGraph
  <2>1. Head(call.todo) = "graph" /\ c.graph \in Graphs /\ c.graph.read = tree
    BY <1>6, GraphStage DEF RunGraph, Running
  <2>2. \A k \in Derived \ {"graph"} : c[k] = b[k]
    BY <1>6, GraphStage, KeptDerived DEF Derived
  <2>3. Has("mappings") => Has("mappings")'
    BY <2>2 DEF Has, Derived
  <2>4. Ordered(call.todo)'
    BY <1>0, <1>1, <2>1, <2>3, OrderKept
  <2>5. c.graph # Nothing
    BY <2>1, SessionAssumption
  <2>6. /\ c.mappings = b.mappings /\ c.trace = b.trace
        /\ c.statespace = b.statespace /\ c.process = b.process
    BY <2>2 DEF Derived
  <2>7. InOrder(c, tree)
    <3>. HIDE DEF b, c
    <3>. QED BY <1>0, <2>1, <2>5, <2>6, BundleReads DEF InOrder
  <2>. QED BY <2>4, <2>7
<1>7. CASE RunDynamic
  <2>1. Head(call.todo) = "dynamic"
    BY <1>7 DEF RunDynamic, Running
  <2>2. \A k \in Derived \ {"graph"} : c[k] = b[k]
    BY <1>7, DynamicStage, KeptDerived DEF Derived
  <2>3. /\ b.graph # Nothing => c.graph # Nothing /\ c.graph.read = b.graph.read
        /\ b.graph = Nothing => c.graph = Nothing
    BY <1>7, DynamicStage, SessionAssumption DEF Has
  <2>4. Has("mappings") => Has("mappings")'
    BY <2>2 DEF Has, Derived
  <2>5. Ordered(call.todo)'
    BY <1>0, <1>1, <2>1, <2>4, OrderKept
  <2>6. /\ c.mappings = b.mappings /\ c.trace = b.trace
        /\ c.statespace = b.statespace /\ c.process = b.process
    BY <2>2 DEF Derived
  <2>7. InOrder(c, tree)
    <3>. HIDE DEF b, c
    <3>. QED BY <1>0, <2>3, <2>6 DEF InOrder
  <2>. QED BY <2>5, <2>7
<1>8. CASE RunTranslate
  <2>1. Head(call.todo) = "translate" /\ b.graph # Nothing
    BY <1>8 DEF RunTranslate, Running, Has
  <2>2. /\ c.mappings = b.graph /\ c.trace \in {b.trace, b.graph}
        /\ \A k \in Derived \ {"mappings", "trace"} : c[k] = b[k]
    BY <1>8, TranslateStage, KeptDerived DEF Derived
  <2>3. Has("mappings")'
    BY <2>1, <2>2 DEF Has
  <2>4. Ordered(call.todo)'
    BY <1>0, <1>1, <2>1, <2>3, OrderKept
  <2>5. c.graph = b.graph /\ c.statespace = b.statespace /\ c.process = b.process
    BY <2>2 DEF Derived
  <2>6. InOrder(c, tree)
    <3>. HIDE DEF b, c
    <3>1. /\ b.graph.read \in Nat
          /\ b.mappings # Nothing => b.mappings.read \in Nat
          /\ b.trace # Nothing => b.trace.read \in Nat
          /\ b.statespace # Nothing =>
               /\ b.statespace.graph.read \in Nat
               /\ b.statespace.mappings # Nothing => b.statespace.mappings.read \in Nat
      BY <1>0, <2>1, BundleReads
    <3>. QED BY <1>0, <2>1, <2>2, <2>5, <3>1 DEF InOrder
  <2>. QED BY <2>4, <2>6
<1>9. CASE CompileStatespace
  <2>1. Head(call.todo) = "statespace" /\ b.graph # Nothing
    BY <1>9 DEF CompileStatespace, Running, Has
  <2>2. /\ c.statespace = [graph |-> b.graph, mappings |-> b.mappings]
        /\ c.statespace \in StateSpaces
        /\ \A k \in Derived \ {"statespace"} : c[k] = b[k]
    BY <1>9, StatespaceStage, KeptDerived DEF Derived
  <2>3. /\ c.graph = b.graph /\ c.mappings = b.mappings /\ c.trace = b.trace
        /\ c.process = b.process
    BY <2>2 DEF Derived
  <2>4. /\ c.statespace # Nothing /\ c.statespace.graph = b.graph
        /\ c.statespace.mappings = b.mappings
    BY <2>2, SessionAssumption
  <2>5. b.mappings # Nothing
    <3>1. /\ call.todo[1] = "statespace" /\ 1 \in DOMAIN call.todo
      BY <1>0, <2>1, RestOfPlan
    <3>2. 1 .. 1 - 1 = {}
      OBVIOUS
    <3>. QED BY <1>0, <3>1, <3>2 DEF Ordered, Has
  <2>6. Ordered(call.todo)'
    BY <1>0, <1>1, <2>1, <2>3, <2>4, OrderKept DEF Has
  <2>7. InOrder(c, tree)
    <3>. HIDE DEF b, c
    <3>1. /\ b.graph.read \in Nat /\ b.mappings.read \in Nat
          /\ b.process # Nothing => b.process.read \in Nat
          /\ b.statespace # Nothing => b.statespace.graph.read \in Nat
      BY <1>0, <2>1, <2>5, BundleReads
    <3>. QED BY <1>0, <2>1, <2>3, <2>4, <2>5, <3>1 DEF InOrder
  <2>. QED BY <2>6, <2>7
<1>10. CASE RunProcess
  <2>1. Head(call.todo) = "process" /\ b.graph # Nothing
    BY <1>10 DEF RunProcess, Running, Has
  <2>2. /\ c.process = b.graph
        /\ \A k \in Derived \ {"process"} : c[k] = b[k]
    BY <1>10, ProcessStage, KeptDerived DEF Derived
  <2>3. /\ c.graph = b.graph /\ c.mappings = b.mappings /\ c.trace = b.trace
        /\ c.statespace = b.statespace
    BY <2>2 DEF Derived
  <2>4. b.statespace # Nothing /\ b.statespace.graph = b.graph
    <3>1. /\ call.todo[1] = "process" /\ 1 \in DOMAIN call.todo
      BY <1>0, <2>1, RestOfPlan
    <3>. QED BY <1>0, <3>1 DEF Ordered, Has
  <2>5. Ordered(call.todo)'
    BY <1>0, <1>1, <2>1, <2>3, OrderKept DEF Has
  <2>6. InOrder(c, tree)
    <3>. HIDE DEF b, c
    <3>1. b.graph.read \in Nat
      BY <1>0, <2>1, BundleReads
    <3>. QED BY <1>0, <2>1, <2>2, <2>3, <2>4, <3>1 DEF InOrder
  <2>. QED BY <2>5, <2>6
<1>11. CASE RunExport \/ \E k \in 1..Len(Files) : RaiseInExport(k)
  <2>1. Head(call.todo) \notin {"translate", "statespace"}
    BY <1>11 DEF RunExport, RaiseInExport, Running
  <2>2. \A k \in Derived : c[k] = b[k]
    <3>1. CASE RunExport
      BY <3>1, ExportStage, KeptDerived DEF Derived
    <3>2. CASE \E k \in 1..Len(Files) : RaiseInExport(k)
      BY <3>2 DEF RaiseInExport
    <3>. QED BY <1>11, <3>1, <3>2
  <2>. QED BY <1>0, <1>1, <2>1, <2>2, OrderUndisturbed DEF SessionInv
<1>12. ~\E passed, valid \in BOOLEAN : RunValidate(passed, valid)
  BY <1>1 DEF RunValidate, Running
<1>. QED BY <1>3, <1>4, <1>5, <1>6, <1>7, <1>8, <1>9, <1>10, <1>11, <1>12
         DEF StageAction

LEMMA SessionStep ==
  ASSUME SessionTypes, SessionInv, call.by = "session", StepAction
  PROVE  SessionInv'
BY StepPasses, OrderUndisturbed

-----------------------------------------------------------------------------
(* Runs *)

(* Where a run is when a stage ends, and what the outcomes then are.       *)
LEMMA RunAdvanced ==
  ASSUME SessionTypes, ~Idle, call.by = "runner", Progress,
         NEW o \in {"success", "failed", "skipped"}, Ends(o)
  PROVE  /\ Settled \in 0 .. 9 /\ Settled' = Settled + 1
         /\ \A i \in 1 .. Len(call'.todo) : call'.todo[i] = RunPlan[Settled' + i]
         /\ \A i \in 1 .. 10 : outcomes'[AllStages[i]] = "none" <=> i > Settled'
         /\ outcomes'[Head(call.todo)] = o
         /\ \A s \in Stages : s # Head(call.todo) => outcomes'[s] = outcomes[s]
         /\ call'.by = "runner" /\ call'.data = call.data
         /\ Head(call.todo) = "graph" => Settled = 3
         /\ Head(call.todo) = "dynamic" => Settled = 4
         /\ Head(call.todo) = "translate" => Settled = 5
         /\ Head(call.todo) = "statespace" => Settled = 6
         /\ Head(call.todo) = "process" => Settled = 7
         /\ Head(call.todo) = "export" => Settled = 8
         /\ Head(call.todo) = "validate" <=> Settled = 9
         /\ Head(call.todo) \in {"ingest", "static", "normalize"} => Settled <= 2
<1>1. Head(call.todo) = AllStages[Settled + 1] /\ Settled \in 0 .. 9
  BY Advanced
<1>. DEFINE k == Settled
<1>2. k = 0 \/ k = 1 \/ k = 2 \/ k = 3 \/ k = 4 \/ k = 5 \/ k = 6 \/ k = 7 \/ k = 8 \/ k = 9
  BY <1>1
<1>. HIDE DEF k
<1>3. /\ Head(call.todo) = "graph" => k = 3
      /\ Head(call.todo) = "dynamic" => k = 4
      /\ Head(call.todo) = "translate" => k = 5
      /\ Head(call.todo) = "statespace" => k = 6
      /\ Head(call.todo) = "process" => k = 7
      /\ Head(call.todo) = "export" => k = 8
      /\ Head(call.todo) = "validate" <=> k = 9
      /\ Head(call.todo) \in {"ingest", "static", "normalize"} => k <= 2
  BY <1>1, <1>2, StageAt DEF k
<1>. QED BY <1>3, Advanced DEF Ends, Passes, k

LEMMA OutcomesByName ==
  ASSUME Settled' \in 0 .. 11,
         \A i \in 1 .. 10 : outcomes'[AllStages[i]] = "none" <=> i > Settled'
  PROVE  /\ Settled' < 4 => outcomes'["graph"] = "none"
         /\ Settled' < 5 => outcomes'["dynamic"] = "none"
         /\ Settled' < 6 => outcomes'["translate"] = "none"
         /\ Settled' < 7 => outcomes'["statespace"] = "none"
         /\ Settled' < 8 => outcomes'["process"] = "none"
         /\ Settled' < 9 => outcomes'["export"] = "none"
BY StageAt

LEMMA NamedStages ==
  {"graph", "dynamic", "translate", "statespace", "process", "export"} \subseteq Stages
BY StageSet

(* Neither package nor artifacts change unless the bundle does.            *)
LEMMA PackageStays ==
  ASSUME \A k \in {"graph", "statespace", "process", "mappings"} : bundle'[k] = bundle[k]
  PROVE  Package' = Package /\ (Packable' <=> Packable)
BY DEF Package, Packable, Has

LEMMA ArtifactStays ==
  ASSUME NEW f \in ToSet(Files),
         \A k \in Artifacts : bundle'[k] = bundle[k]
  PROVE  Artifact(f)' = Artifact(f)
BY StageSet DEF Artifact, Artifacts

(* A stage that leaves output directory and bundle alone, unless it is the *)
(* last, which says whether the package is certified.                      *)
LEMMA RunUndisturbed ==
  ASSUME SessionTypes, ~Idle, call.by = "runner", RunnerInv,
         NEW o \in {"success", "failed", "skipped"}, Ends(o),
         Keeps({"certified"}), SameOutput,
         o = "success" => Head(call.todo) = "validate",
         Head(call.todo) # "validate" => bundle'.certified = bundle.certified,
         CertifiedIsOwn'
  PROVE  RunnerInv'
<1>1. Progress /\ Outcomes /\ RunOneGraph /\ Packaged
  BY DEF RunnerInv
<1>2. /\ Settled \in 0 .. 9 /\ Settled' = Settled + 1
      /\ \A i \in 1 .. Len(call'.todo) : call'.todo[i] = RunPlan[Settled' + i]
      /\ \A i \in 1 .. 10 : outcomes'[AllStages[i]] = "none" <=> i > Settled'
      /\ outcomes'[Head(call.todo)] = o
      /\ \A s \in Stages : s # Head(call.todo) => outcomes'[s] = outcomes[s]
      /\ call'.by = "runner" /\ call'.data = call.data
      /\ Head(call.todo) = "dynamic" => Settled = 4
      /\ Head(call.todo) = "validate" <=> Settled = 9
  BY <1>1, RunAdvanced
<1>0. /\ bundle'.graph = bundle.graph /\ bundle'.mappings = bundle.mappings
      /\ bundle'.trace = bundle.trace /\ bundle'.translated = bundle.translated
      /\ bundle'.statespace = bundle.statespace /\ bundle'.process = bundle.process
      /\ bundle'.packaged = bundle.packaged /\ bundle'.warned = bundle.warned
      /\ disk' = disk /\ placed' = placed /\ package' = package
  BY DEF Keeps, Keys, Artifacts, Flags, SameOutput
<1>3. Progress'
  <2>. DEFINE j == Settled'
              k == Settled
  <2>1. k \in 0 .. 9 /\ j = k + 1
    BY <1>2
  <2>2. /\ j < 4 => k < 4
        /\ j < 5 => k < 5
        /\ j < 6 => k < 6
        /\ j < 7 => k < 7
        /\ j < 8 => k < 8
        /\ j < 9 => k < 9
        /\ j < 10 => k < 10 /\ k # 9
        /\ j \in 0 .. 11
    <3>. HIDE DEF j, k
    <3>. QED BY <2>1
  <2>. QED BY <1>0, <1>1, <1>2, <2>2 DEF Progress, Has
<1>4. /\ Package' = Package /\ (Packable' <=> Packable)
      /\ \A f \in ToSet(Files) : Artifact(f)' = Artifact(f)
  BY <1>0, StageSet DEF Package, Packable, Has, Artifact
<1>5. \A s \in {"graph", "translate", "statespace", "process", "export"} :
        outcomes'[s] = "success" => outcomes[s] = "success"
  BY <1>2, NamedStages
<1>6. outcomes'["dynamic"] \in {"success", "skipped"} /\ Has("graph") =>
        bundle.graph.enriched = (call.data /\ outcomes'["dynamic"] = "success")
  <2>1. CASE Head(call.todo) = "dynamic"
    <3>1. outcomes'["dynamic"] # "success" /\ Settled < 5
      BY <1>2, <2>1
    <3>2. Has("graph") => ~bundle.graph.enriched /\ bundle.graph.enriched \in BOOLEAN
      BY <1>1, <3>1 DEF Progress, SessionTypes, Bundles, Has, Opt, Graphs
    <3>. QED BY <3>1, <3>2
  <2>2. CASE Head(call.todo) # "dynamic"
    BY <1>1, <1>2, <2>2, NamedStages DEF Outcomes
  <2>. QED BY <2>1, <2>2
<1>9. Own' = Own /\ Packaged'
  BY <1>0, <1>1, <1>4 DEF Own, Packaged
<1>7. Outcomes'
  <2>1. outcomes'["graph"] = "success" => Has("graph")'
    BY <1>0, <1>1, <1>5 DEF Outcomes, Has
  <2>2. outcomes'["dynamic"] \in {"success", "skipped"} /\ Has("graph")' =>
          bundle'.graph.enriched = (call'.data /\ outcomes'["dynamic"] = "success")
    BY <1>0, <1>2, <1>6 DEF Has
  <2>3. outcomes'["export"] = "success" =>
          /\ \A f \in ToSet(Files) :
               Artifact(f)' # Nothing => Found(f)' \in WrittenOf(f)'
          /\ Packable' /\ ~bundle'.warned => Sound(package)'
    BY <1>0, <1>1, <1>4, <1>5, <1>9 DEF Outcomes, Found, WrittenOf, Sound
  <2>. QED BY <1>0, <1>1, <1>5, <2>1, <2>2, <2>3 DEF Outcomes
<1>8. RunOneGraph'
  BY <1>0, <1>1, <1>2 DEF RunOneGraph
<1>. QED BY <1>3, <1>7, <1>8, <1>9 DEF RunnerInv

(* The last step of a run, after its stages.                               *)
LEMMA RunLayout ==
  ASSUME SessionTypes, call.by = "runner", RunnerInv, StepAction
  PROVE  RunnerInv'
<1>1. /\ ~Idle /\ Passes /\ Head(call.todo) \in {"syntax", "layout"}
      /\ outcomes' = outcomes /\ bundle' = bundle /\ package' = package
      /\ Head(call.todo) = "layout" =>
           call'.todo = Tail(call.todo) /\ \A f \in Places : Found(f)' = Found(f)
  BY StepPasses
<1>2. Progress /\ Outcomes /\ RunOneGraph /\ Packaged /\ CertifiedIsOwn
  BY DEF RunnerInv
<1>. DEFINE n == Len(call.todo)
            k == Settled
<1>3. /\ n \in Nat \ {0} /\ Head(call.todo) = call.todo[1]
      /\ Len(Tail(call.todo)) = n - 1
  BY <1>1, RestOfPlan
<1>4. k = 11 - n /\ Settled' = 11 - Len(call'.todo) /\ k \in 0 .. 11
      /\ \A i \in 1 .. n : call.todo[i] = RunPlan[k + i]
  BY <1>2, StageAt DEF Progress, Settled
<1>. HIDE DEF n, k
<1>5. k \in 0 .. 10 /\ Head(call.todo) = RunPlan[k + 1] /\ k + 1 \in 1 .. 11
  BY <1>3, <1>4
<1>6. k = 10 /\ Head(call.todo) = "layout"
  <2>1. CASE k \in 0 .. 9
    <3>1. k + 1 \in 1 .. 10
      BY <2>1
    <3>2. RunPlan[k + 1] \in Stages
      BY <3>1, StageAt
    <3>. QED BY <1>1, <1>5, <3>2, StageSet
  <2>2. CASE k = 10
    BY <1>5, <2>2, StageAt
  <2>. QED BY <1>5, <2>1, <2>2
<1>7. n = 1 /\ Len(call'.todo) = 0 /\ Settled' = 11
  <2>1. n = 1
    BY <1>3, <1>4, <1>6
  <2>2. Len(call'.todo) = 0
    <3>1. call'.todo = Tail(call.todo)
      BY <1>1, <1>6
    <3>2. Len(Tail(call.todo)) = 0
      BY <1>3, <2>1
    <3>. QED BY <3>1, <3>2
  <2>. QED BY <1>4, <2>1, <2>2
<1>8. /\ call'.by = "runner" /\ call'.data = call.data
      /\ \A f \in ToSet(Files) : Found(f)' = Found(f)
  BY <1>1, <1>6, StageSet DEF Passes
<1>9. /\ Package' = Package /\ (Packable' <=> Packable) /\ Own' = Own
      /\ \A f : Artifact(f)' = Artifact(f)
  BY <1>1 DEF Package, Packable, Has, Artifact, Own
<1>10. Progress'
  <2>1. \A i \in 1 .. 10 : ~(i > 10) /\ ~(i > 11)
    OBVIOUS
  <2>2. \A i \in 1 .. 10 : outcomes[AllStages[i]] # "none"
    BY <1>2, <1>6, <2>1 DEF Progress, k
  <2>3. 1 .. Len(call'.todo) = {}
    BY <1>7
  <2>. QED BY <1>1, <1>7, <2>1, <2>2, <2>3 DEF Progress
<1>11. Outcomes'
  BY <1>1, <1>2, <1>8, <1>9 DEF Outcomes, WrittenOf, Sound, Has
<1>12. RunOneGraph' /\ Packaged' /\ CertifiedIsOwn'
  BY <1>1, <1>2, <1>8, <1>9 DEF RunOneGraph, Packaged, CertifiedIsOwn
<1>. QED BY <1>10, <1>11, <1>12 DEF RunnerInv

(* What all stages of a run have in common, by the number settled before.  *)
RunStep(k) ==
  /\ k \in 0 .. 9 /\ Settled = k /\ Settled' = k + 1
  /\ \A i \in 1 .. Len(call'.todo) : call'.todo[i] = RunPlan[Settled' + i]
  /\ \A i \in 1 .. 10 : outcomes'[AllStages[i]] = "none" <=> i > Settled'
  /\ k # 3 => outcomes'["graph"] = outcomes["graph"]
  /\ k # 4 => outcomes'["dynamic"] = outcomes["dynamic"]
  /\ k # 5 => outcomes'["translate"] = outcomes["translate"]
  /\ k # 6 => outcomes'["statespace"] = outcomes["statespace"]
  /\ k # 7 => outcomes'["process"] = outcomes["process"]
  /\ k # 8 => outcomes'["export"] = outcomes["export"]
  /\ k < 3 => outcomes'["graph"] = "none"
  /\ k < 4 => outcomes'["dynamic"] = "none"
  /\ k < 5 => outcomes'["translate"] = "none"
  /\ k < 6 => outcomes'["statespace"] = "none"
  /\ k < 7 => outcomes'["process"] = "none"
  /\ k < 8 => outcomes'["export"] = "none"
  /\ call'.by = "runner" /\ call'.data = call.data
  /\ k # 9 => bundle'.certified = FALSE

LEMMA RunSteps ==
  ASSUME SessionTypes, ~Idle, call.by = "runner", Progress,
         NEW o \in {"success", "failed", "skipped"}, Ends(o),
         Head(call.todo) # "validate" => bundle'.certified = bundle.certified
  PROVE  RunStep(Settled)
<1>. DEFINE k == Settled
            h == Head(call.todo)
<1>1. /\ k \in 0 .. 9 /\ Settled' = k + 1
      /\ \A i \in 1 .. Len(call'.todo) : call'.todo[i] = RunPlan[Settled' + i]
      /\ \A i \in 1 .. 10 : outcomes'[AllStages[i]] = "none" <=> i > Settled'
      /\ \A s \in Stages : s # h => outcomes'[s] = outcomes[s]
      /\ call'.by = "runner" /\ call'.data = call.data
      /\ h = "graph" => k = 3
      /\ h = "dynamic" => k = 4
      /\ h = "translate" => k = 5
      /\ h = "statespace" => k = 6
      /\ h = "process" => k = 7
      /\ h = "export" => k = 8
      /\ h = "validate" <=> k = 9
  BY RunAdvanced
<1>0. k # 9 => bundle'.certified = FALSE
  <2>1. k < 9 => ~bundle.certified /\ bundle.certified \in BOOLEAN
    BY <1>1 DEF Progress, SessionTypes, Bundles
  <2>. QED BY <1>1, <2>1
<1>. HIDE DEF k, h
<1>2. /\ k < 3 => outcomes'["graph"] = "none"
      /\ k < 4 => outcomes'["dynamic"] = "none"
      /\ k < 5 => outcomes'["translate"] = "none"
      /\ k < 6 => outcomes'["statespace"] = "none"
      /\ k < 7 => outcomes'["process"] = "none"
      /\ k < 8 => outcomes'["export"] = "none"
  <2>1. Settled' \in 0 .. 11
    BY <1>1
  <2>. QED BY <1>1, <2>1, OutcomesByName
<1>. QED BY <1>0, <1>1, <1>2, NamedStages DEF RunStep, k

(* The stages up to normalize derive nothing that a run is judged by.      *)
LEMMA RunSources ==
  ASSUME SessionTypes, call.by = "runner", RunnerInv,
         RunIngest \/ RunStatic \/ RunNormalize
  PROVE  RunnerInv'
<1>0. Head(call.todo) # "validate" => bundle'.certified = bundle.certified
  BY StageActionEnds DEF StageAction
<1>1. ~Idle /\ Ends("success") /\ Head(call.todo) \in {"ingest", "static", "normalize"}
  BY StageEnds, StageSet DEF RunIngest, RunStatic, RunNormalize, Running
<1>2. Progress /\ Outcomes /\ RunOneGraph
  BY DEF RunnerInv
<1>3. RunStep(Settled) /\ Settled <= 2
  BY <1>0, <1>1, <1>2, RunSteps, RunAdvanced
<1>4. /\ bundle'.graph = bundle.graph /\ bundle'.mappings = bundle.mappings
      /\ bundle'.trace = bundle.trace /\ bundle'.translated = bundle.translated
      /\ bundle'.statespace = bundle.statespace /\ bundle'.process = bundle.process
      /\ bundle'.packaged = bundle.packaged /\ bundle'.warned = bundle.warned
  BY SourceStages DEF Keeps, Keys, Artifacts, Flags
<1>5. /\ bundle.graph = Nothing /\ bundle.mappings = Nothing /\ bundle.trace = Nothing
      /\ bundle.translated = Nothing /\ bundle.statespace = Nothing
      /\ bundle.process = Nothing /\ ~bundle.packaged /\ ~bundle.warned
  BY <1>2, <1>3 DEF Progress, RunStep
<1>6. Progress'
  BY <1>3, <1>4, <1>5 DEF Progress, RunStep, Has
<1>7. Outcomes'
  BY <1>3 DEF Outcomes, RunStep
<1>8. RunOneGraph'
  BY <1>4, <1>5 DEF RunOneGraph, Opt
<1>9. Packaged' /\ CertifiedIsOwn'
  BY <1>3, <1>4, <1>5 DEF Packaged, CertifiedIsOwn, RunStep
<1>. QED BY <1>6, <1>7, <1>8, <1>9 DEF RunnerInv

LEMMA RunsGraph ==
  ASSUME SessionTypes, call.by = "runner", RunnerInv, RunGraph
  PROVE  RunnerInv'
<1>0. Head(call.todo) # "validate" => bundle'.certified = bundle.certified
  BY StageActionEnds DEF StageAction
<1>1. /\ ~Idle /\ Head(call.todo) = "graph"
      /\ \E o \in {"success", "failed", "skipped"} : Ends(o)
  BY StageEnds, StageSet DEF RunGraph, Running
<1>2. Progress /\ Outcomes /\ RunOneGraph
  BY DEF RunnerInv
<1>3. RunStep(3) /\ Settled = 3
  BY <1>0, <1>1, <1>2, RunSteps, RunAdvanced
<1>4. /\ bundle'.mappings = bundle.mappings
      /\ bundle'.trace = bundle.trace /\ bundle'.translated = bundle.translated
      /\ bundle'.statespace = bundle.statespace /\ bundle'.process = bundle.process
      /\ bundle'.packaged = bundle.packaged /\ bundle'.warned = bundle.warned
  BY GraphStage DEF Keeps, Keys, Artifacts, Flags
<1>5. /\ bundle.mappings = Nothing /\ bundle.trace = Nothing
      /\ bundle.translated = Nothing /\ bundle.statespace = Nothing
      /\ bundle.process = Nothing /\ ~bundle.packaged /\ ~bundle.warned
  BY <1>2, <1>3 DEF Progress
<1>6. bundle'.graph # Nothing /\ bundle'.graph.enriched = FALSE
  BY GraphStage, SessionAssumption
<1>7. Progress'
  BY <1>3, <1>4, <1>5, <1>6 DEF Progress, RunStep, Has
<1>8. Outcomes'
  BY <1>3, <1>6 DEF Outcomes, RunStep, Has
<1>9. RunOneGraph'
  BY <1>4, <1>5 DEF RunOneGraph, Opt
<1>10. Packaged' /\ CertifiedIsOwn'
  BY <1>3, <1>4, <1>5 DEF Packaged, CertifiedIsOwn, RunStep
<1>. QED BY <1>7, <1>8, <1>9, <1>10 DEF RunnerInv

LEMMA RunsDynamic ==
  ASSUME SessionTypes, call.by = "runner", RunnerInv, RunDynamic
  PROVE  RunnerInv'
<1>0. Head(call.todo) # "validate" => bundle'.certified = bundle.certified
  BY StageActionEnds DEF StageAction
<1>1. ~Idle /\ Head(call.todo) = "dynamic"
  BY DEF RunDynamic, Running
<1>2. Progress /\ Outcomes /\ RunOneGraph
  BY DEF RunnerInv
<1>3. PICK o \in {"success", "failed"} :
        Ends(o)
  BY <1>1, StageEnds, StageSet DEF RunDynamic
<1>4. RunStep(4) /\ Settled = 4 /\ outcomes'["dynamic"] = o
  BY <1>0, <1>1, <1>2, <1>3, RunSteps, RunAdvanced
<1>5. /\ bundle'.mappings = bundle.mappings
      /\ bundle'.trace = bundle.trace /\ bundle'.translated = bundle.translated
      /\ bundle'.statespace = bundle.statespace /\ bundle'.process = bundle.process
      /\ bundle'.packaged = bundle.packaged /\ bundle'.warned = bundle.warned
  BY DynamicStage DEF Keeps, Keys, Artifacts, Flags
<1>6. /\ bundle.mappings = Nothing /\ bundle.trace = Nothing
      /\ bundle.translated = Nothing /\ bundle.statespace = Nothing
      /\ bundle.process = Nothing /\ ~bundle.packaged /\ ~bundle.warned
      /\ Has("graph") => ~bundle.graph.enriched
  BY <1>2, <1>4 DEF Progress
<1>7. Has("graph") <=> Has("graph")'
  BY DynamicStage, SessionAssumption DEF Has
<1>8. Has("graph") => bundle'.graph.enriched = call.data
  <2>. SUFFICES ASSUME Has("graph")
                PROVE  bundle'.graph.enriched = call.data
    OBVIOUS
  <2>1. call.data \in BOOLEAN /\ bundle.graph.enriched \in BOOLEAN
    BY DEF SessionTypes, CallRecords, Bundles, Has, Opt, Graphs
  <2>2. CASE call.data
    BY <2>1, <2>2, DynamicStage
  <2>3. CASE ~call.data
    <3>1. bundle'.graph = bundle.graph
      BY <2>3, DynamicStage
    <3>. QED BY <1>6, <2>1, <2>3, <3>1
  <2>. QED BY <2>2, <2>3
<1>9. Progress'
  BY <1>4, <1>5, <1>6 DEF Progress, RunStep, Has
<1>10. Outcomes'
  <2>1. outcomes'["dynamic"] \in {"success", "skipped"} /\ Has("graph")' =>
          bundle'.graph.enriched = (call'.data /\ outcomes'["dynamic"] = "success")
    <3>. SUFFICES ASSUME outcomes'["dynamic"] \in {"success", "skipped"}, Has("graph")'
                  PROVE  bundle'.graph.enriched = (call'.data /\ outcomes'["dynamic"] = "success")
      OBVIOUS
    <3>1. outcomes'["dynamic"] = "success"
      BY <1>3, <1>4
    <3>2. bundle'.graph.enriched = call'.data /\ call'.data \in BOOLEAN
      BY <1>4, <1>7, <1>8 DEF RunStep, SessionTypes, CallRecords
    <3>. QED BY <3>1, <3>2
  <2>2. outcomes'["graph"] = "success" => Has("graph")'
    BY <1>2, <1>4, <1>7 DEF Outcomes, RunStep
  <2>. QED BY <1>4, <2>1, <2>2 DEF Outcomes, RunStep
<1>11. RunOneGraph'
  BY <1>5, <1>6 DEF RunOneGraph, Opt
<1>12. Packaged' /\ CertifiedIsOwn'
  BY <1>4, <1>5, <1>6 DEF Packaged, CertifiedIsOwn, RunStep
<1>. QED BY <1>9, <1>10, <1>11, <1>12 DEF RunnerInv

LEMMA RunsTranslate ==
  ASSUME SessionTypes, call.by = "runner", RunnerInv, RunTranslate
  PROVE  RunnerInv'
<1>0. Head(call.todo) # "validate" => bundle'.certified = bundle.certified
  BY StageActionEnds DEF StageAction
<1>1. ~Idle /\ Head(call.todo) = "translate"
  BY DEF RunTranslate, Running
<1>2. Progress /\ Outcomes /\ RunOneGraph
  BY DEF RunnerInv
<1>3. PICK o \in {"success", "failed"} :
        /\ Ends(o)
        /\ o = "success" => /\ bundle'.trace = bundle.graph
                            /\ bundle'.translated = bundle.graph
  BY TranslateStage
<1>4. RunStep(5) /\ Settled = 5 /\ outcomes'["translate"] = o
  BY <1>0, <1>1, <1>2, <1>3, RunSteps, RunAdvanced
<1>5. /\ bundle'.graph = bundle.graph
      /\ bundle'.statespace = bundle.statespace /\ bundle'.process = bundle.process
      /\ bundle'.packaged = bundle.packaged /\ bundle'.warned = bundle.warned
  BY TranslateStage DEF Keeps, Keys, Artifacts, Flags
<1>6. /\ bundle.trace = Nothing /\ bundle.translated = Nothing
      /\ bundle.statespace = Nothing
      /\ bundle.process = Nothing /\ ~bundle.packaged /\ ~bundle.warned
  BY <1>2, <1>4 DEF Progress
<1>7. /\ bundle'.mappings = bundle.graph
      /\ bundle'.trace \in {Nothing, bundle.graph}
      /\ bundle'.translated \in {Nothing, bundle.graph}
  BY <1>6, TranslateStage
<1>8. Progress'
  BY <1>4, <1>5, <1>6 DEF Progress, RunStep, Has
<1>9. Outcomes'
  BY <1>2, <1>3, <1>4, <1>5, <1>7 DEF Outcomes, RunStep, Has
<1>10. RunOneGraph'
  BY <1>5, <1>6, <1>7 DEF RunOneGraph, Opt
<1>11. Packaged' /\ CertifiedIsOwn'
  BY <1>4, <1>5, <1>6 DEF Packaged, CertifiedIsOwn, RunStep
<1>. QED BY <1>8, <1>9, <1>10, <1>11 DEF RunnerInv

LEMMA RunsStatespace ==
  ASSUME SessionTypes, call.by = "runner", RunnerInv, CompileStatespace
  PROVE  RunnerInv'
<1>0. Head(call.todo) # "validate" => bundle'.certified = bundle.certified
  BY StageActionEnds DEF StageAction
<1>1. ~Idle /\ Head(call.todo) = "statespace" /\ Ends("success")
  BY StageEnds, StageSet DEF CompileStatespace, Running
<1>2. Progress /\ Outcomes /\ RunOneGraph
  BY DEF RunnerInv
<1>3. RunStep(6) /\ Settled = 6
  BY <1>0, <1>1, <1>2, RunSteps, RunAdvanced
<1>4. /\ bundle'.graph = bundle.graph /\ bundle'.mappings = bundle.mappings
      /\ bundle'.trace = bundle.trace /\ bundle'.translated = bundle.translated
      /\ bundle'.process = bundle.process
      /\ bundle'.packaged = bundle.packaged /\ bundle'.warned = bundle.warned
  BY StatespaceStage DEF Keeps, Keys, Artifacts, Flags
<1>5. bundle.process = Nothing /\ ~bundle.packaged /\ ~bundle.warned
  BY <1>2, <1>3 DEF Progress
<1>6. bundle'.statespace = [graph |-> bundle.graph, mappings |-> bundle.mappings]
  BY StatespaceStage
<1>7. Progress'
  BY <1>3, <1>4, <1>5 DEF Progress, RunStep, Has
<1>8. Outcomes'
  BY <1>2, <1>3, <1>4, <1>6 DEF Outcomes, RunStep, Has
<1>9. RunOneGraph'
  <2>1. \A k \in {"mappings", "trace", "process", "translated"} :
          bundle[k] \in Opt({bundle.graph})
    BY <1>2 DEF RunOneGraph
  <2>2. bundle'.statespace \in [graph : {bundle.graph}, mappings : Opt({bundle.graph})]
    BY <1>6, <2>1
  <2>. QED BY <1>4, <1>5, <2>1, <2>2 DEF RunOneGraph, Opt
<1>10. Packaged' /\ CertifiedIsOwn'
  BY <1>3, <1>4, <1>5 DEF Packaged, CertifiedIsOwn, RunStep
<1>. QED BY <1>7, <1>8, <1>9, <1>10 DEF RunnerInv

LEMMA RunsProcess ==
  ASSUME SessionTypes, call.by = "runner", RunnerInv, RunProcess
  PROVE  RunnerInv'
<1>0. Head(call.todo) # "validate" => bundle'.certified = bundle.certified
  BY StageActionEnds DEF StageAction
<1>1. ~Idle /\ Head(call.todo) = "process" /\ Ends("success")
  BY StageEnds, StageSet DEF RunProcess, Running
<1>2. Progress /\ Outcomes /\ RunOneGraph
  BY DEF RunnerInv
<1>3. RunStep(7) /\ Settled = 7
  BY <1>0, <1>1, <1>2, RunSteps, RunAdvanced
<1>4. /\ bundle'.graph = bundle.graph /\ bundle'.mappings = bundle.mappings
      /\ bundle'.trace = bundle.trace /\ bundle'.translated = bundle.translated
      /\ bundle'.statespace = bundle.statespace
      /\ bundle'.packaged = bundle.packaged /\ bundle'.warned = bundle.warned
      /\ bundle'.process = bundle.graph
  BY ProcessStage DEF Keeps, Keys, Artifacts, Flags
<1>5. ~bundle.packaged /\ ~bundle.warned
  BY <1>2, <1>3 DEF Progress
<1>6. Progress'
  BY <1>3, <1>4, <1>5 DEF Progress, RunStep, Has
<1>7. Outcomes'
  BY <1>2, <1>3, <1>4 DEF Outcomes, RunStep, Has
<1>8. RunOneGraph'
  BY <1>2, <1>4, <1>5 DEF RunOneGraph, Opt
<1>9. Packaged' /\ CertifiedIsOwn'
  BY <1>3, <1>4, <1>5 DEF Packaged, CertifiedIsOwn, RunStep
<1>. QED BY <1>6, <1>7, <1>8, <1>9 DEF RunnerInv

(* What is written of an artifact is a file.                               *)
LEMMA ArtifactTyped ==
  ASSUME SessionTypes, NEW f \in ToSet(Files)
  PROVE  Artifact(f) \in Opt(Graphs \cup StateSpaces)
BY StageSet DEF Artifact, SessionTypes, Bundles, Opt

LEMMA FileIsSomething ==
  ASSUME NEW f, NEW x \in Opt(Graphs \cup StateSpaces)
  PROVE  Nothing \notin [of : {x}, form : FormsOf(f)]
<1>1. FormsOf(f) \subseteq Forms
  BY SessionAssumption DEF FormsOf, Forms
<1>2. x \in Opt(Versions \cup Graphs \cup StateSpaces)
  BY DEF Opt
<1>3. [of : {x}, form : FormsOf(f)]
        \subseteq [of : Opt(Versions \cup Graphs \cup StateSpaces), form : Forms]
  BY <1>1, <1>2
<1>. QED BY <1>3, SessionAssumption

LEMMA RunsExport ==
  ASSUME SessionTypes, call.by = "runner", RunnerInv, RunExport
  PROVE  RunnerInv'
<1>0. Head(call.todo) # "validate" => bundle'.certified = bundle.certified
  BY StageActionEnds DEF StageAction
<1>1. ~Idle /\ Head(call.todo) = "export" /\ Ends("success")
  BY StageEnds, StageSet DEF RunExport, Running
<1>2. Progress /\ Outcomes /\ RunOneGraph
  BY DEF RunnerInv
<1>3. RunStep(8) /\ Settled = 8
  BY <1>0, <1>1, <1>2, RunSteps, RunAdvanced
<1>4. \A k \in Artifacts : bundle'[k] = bundle[k]
  BY ExportStage DEF Keeps, Keys, Artifacts, Flags
<1>5. /\ bundle'.graph = bundle.graph /\ bundle'.mappings = bundle.mappings
      /\ bundle'.trace = bundle.trace /\ bundle'.translated = bundle.translated
      /\ bundle'.statespace = bundle.statespace /\ bundle'.process = bundle.process
  BY <1>4 DEF Artifacts
<1>6. ~bundle.packaged /\ ~bundle.warned
  BY <1>2, <1>3 DEF Progress
<1>7. Package' = Package /\ (Packable' <=> Packable)
  BY <1>4, PackageStays DEF Artifacts
<1>8. Own' = Own /\ \A f \in ToSet(Files) : Artifact(f)' = Artifact(f)
  BY <1>4, <1>7, ArtifactStays DEF Own
<1>9. /\ \A f \in ToSet(Files) : Artifact(f)' # Nothing => Found(f)' \in WrittenOf(f)'
      /\ Packable' /\ ~bundle'.warned => Sound(package)'
      /\ bundle'.packaged => Sound(package)'
  <2>1. /\ \A f \in ToSet(Files) : Artifact(f) # Nothing => disk'[f] \in WrittenOf(f)
        /\ Packable /\ ~bundle'.warned => Sound(package')
        /\ bundle'.packaged => Sound(package')
    BY <1>6, ExportStage
  <2>2. \A f \in ToSet(Files) : Artifact(f) # Nothing => Nothing \notin WrittenOf(f)
    BY ArtifactTyped, FileIsSomething DEF WrittenOf
  <2>3. /\ \A f : WrittenOf(f) = [of : {Artifact(f)}, form : FormsOf(f)]
        /\ \A f : WrittenOf(f)' = [of : {Artifact(f)'}, form : FormsOf(f)]
    BY DEF WrittenOf, FormsOf
  <2>4. \A f \in ToSet(Files) : Artifact(f)' # Nothing => Found(f)' \in WrittenOf(f)'
    BY <1>8, <2>1, <2>2, <2>3 DEF Found
  <2>5. Sound(package') => Sound(package)'
    BY <1>8 DEF Sound
  <2>. QED BY <1>7, <2>1, <2>4, <2>5
<1>10. Progress'
  BY <1>3 DEF Progress, RunStep
<1>11. Outcomes'
  BY <1>2, <1>3, <1>5, <1>9 DEF Outcomes, RunStep, Has
<1>12. RunOneGraph'
  BY <1>2, <1>5 DEF RunOneGraph
<1>13. Packaged' /\ CertifiedIsOwn'
  BY <1>3, <1>9 DEF Packaged, Sound, CertifiedIsOwn, RunStep
<1>. QED BY <1>10, <1>11, <1>12, <1>13 DEF RunnerInv

LEMMA RunsBrokenExport ==
  ASSUME SessionTypes, call.by = "runner", RunnerInv, NEW k \in 1 .. Len(Files), RaiseInExport(k)
  PROVE  RunnerInv'
<1>0. Head(call.todo) # "validate" => bundle'.certified = bundle.certified
  BY StageActionEnds DEF StageAction
<1>1. /\ ~Idle /\ Head(call.todo) = "export" /\ Ends("failed") /\ bundle' = bundle
  BY RaisedExport DEF RaiseInExport, Running
<1>2. Progress /\ Outcomes /\ RunOneGraph
  BY DEF RunnerInv
<1>3. RunStep(8) /\ Settled = 8 /\ outcomes'["export"] = "failed"
  BY <1>0, <1>1, <1>2, RunSteps, RunAdvanced
<1>4. ~bundle.packaged
  BY <1>2, <1>3 DEF Progress
<1>5. Progress'
  BY <1>3 DEF Progress, RunStep
<1>6. Outcomes'
  BY <1>1, <1>2, <1>3 DEF Outcomes, RunStep, Has
<1>7. RunOneGraph'
  BY <1>1, <1>2, <1>4 DEF RunOneGraph
<1>8. Packaged' /\ CertifiedIsOwn'
  BY <1>1, <1>3, <1>4 DEF Packaged, CertifiedIsOwn, RunStep
<1>. QED BY <1>5, <1>6, <1>7, <1>8 DEF RunnerInv

(* Validation certifies a package that lists what it requires.             *)
LEMMA RunsValidate ==
  ASSUME SessionTypes, call.by = "runner", RunnerInv,
         NEW passed \in BOOLEAN, NEW valid \in BOOLEAN, RunValidate(passed, valid)
  PROVE  RunnerInv'
<1>1. /\ ~Idle /\ Head(call.todo) = "validate" /\ SameOutput
      /\ Ends("success") \/ Ends("failed")
      /\ Keeps({"certified"})
      /\ bundle'.certified => bundle.packaged /\ Certifies(package)
  BY ValidateStage
<1>2. Package' = Package /\ package' = package
  BY <1>1, PackageStays DEF Keeps, Keys, Artifacts, Flags, SameOutput
<1>3. ASSUME bundle'.certified, NEW f \in Mandatory \cup Required
      PROVE  package.files[f] \in Own
  <2>1. f \in DOMAIN package.sums /\ package.files[f] = package.sums[f]
    BY <1>1, <1>3 DEF Certifies, Listed, Matching
  <2>. QED BY <1>1, <1>3, <2>1 DEF RunnerInv, Packaged
<1>4. CertifiedIsOwn'
  BY <1>2, <1>3 DEF CertifiedIsOwn, Own
<1>. QED BY <1>1, <1>4, RunUndisturbed

LEMMA RunnerStage ==
  ASSUME SessionTypes, call.by = "runner", RunnerInv, StageAction
  PROVE  RunnerInv'
<1>1. ~Idle
  BY StageActionEnds
<1>2. ASSUME NEW o \in {"failed", "skipped"}, Ends(o), bundle' = bundle, SameOutput
      PROVE  RunnerInv'
  <2>1. CertifiedIsOwn'
    BY <1>2, PackageStays DEF CertifiedIsOwn, RunnerInv, SameOutput
  <2>2. Keeps({"certified"})
    BY <1>2 DEF SessionTypes, Keeps
  <2>. QED BY <1>1, <1>2, <2>1, <2>2, RunUndisturbed
<1>3. CASE SkipStage
  BY <1>1, <1>2, <1>3, StageEnds, SkippedStage DEF SkipStage, output, SameOutput
<1>4. CASE RaiseEarly
  BY <1>1, <1>2, <1>4, StageEnds DEF RaiseEarly, output, SameOutput
<1>. QED BY <1>3, <1>4, RunSources, RunsGraph, RunsDynamic, RunsTranslate, RunsStatespace,
            RunsProcess, RunsExport, RunsBrokenExport, RunsValidate DEF StageAction

-----------------------------------------------------------------------------
(* The theorems *)

LEMMA StageInvInit == SessionInit => StageInv
<1>. SUFFICES ASSUME SessionInit
              PROVE  StageInv
  OBVIOUS
<1>1. call.todo = <<>> /\ call.by = "session" /\ call.skip = {} /\ call.name = "none"
  BY DEF SessionInit
<1>2. SessionTypes
  <2>1. call \in CallRecords
    <3>1. <<>> \in Seq(Steps)
      OBVIOUS
    <3>. QED BY <3>1 DEF SessionInit, CallRecords
  <2>2. outcomes \in [Stages -> {"none", "success", "failed", "skipped"}]
    BY DEF SessionInit
  <2>3. DOMAIN disk = Places /\ DOMAIN placed = Places
    BY DEF SessionInit, Places
  <2>. QED BY <2>1, <2>2, <2>3, FreshTyped, SessionAssumption
           DEF SessionInit, SessionTypes, Versions
<1>3. InOrder(bundle, tree)
  BY FreshTyped DEF SessionInit, InOrder, Artifacts
<1>4. Ordered(call.todo)
  BY <1>1 DEF Ordered
<1>5. ~bundle.certified
  BY FreshTyped DEF SessionInit, Flags
<1>. QED BY <1>1, <1>2, <1>3, <1>4, <1>5 DEF StageInv, SessionInv

LEMMA FreshOrder == ~FreshBundle.certified /\ \A t : InOrder(FreshBundle, t)
BY FreshTyped DEF InOrder, Artifacts, Flags

LEMMA StageInvStep == StageInv /\ [SessionNext]_sessionVars => StageInv'
<1>. SUFFICES ASSUME StageInv, [SessionNext]_sessionVars
              PROVE  StageInv'
  OBVIOUS
<1>0. SessionTypes /\ SessionTypes'
  BY TypesKept DEF StageInv
<1>1. CASE NewSession
  <2>1. /\ bundle' = FreshBundle /\ call'.todo = <<>> /\ call'.by = "session"
        /\ call'.skip = {} /\ call'.name = "none"
    BY <1>0, <1>1 DEF NewSession, Idle, SessionTypes, CallRecords
  <2>2. Ordered(call.todo)'
    BY <2>1 DEF Ordered
  <2>. QED BY <1>0, <2>1, <2>2, FreshOrder DEF StageInv, SessionInv
<1>2. ASSUME NEW m \in Methods, NEW data \in BOOLEAN,
             NEW layout \in Layouts \cup {FALSE}, CallMethod(m, data, layout)
      PROVE  StageInv'
  <2>1. /\ call.by = "session" /\ call'.by = "session" /\ call'.name = m
        /\ call'.skip = call.skip /\ call'.todo = Plan(m)
        /\ bundle' = bundle /\ tree' = tree
    BY <1>0, <1>2 DEF CallMethod, SessionTypes, CallRecords
  <2>2. m # "run"
    BY DEF Methods
  <2>3. Ordered(call.todo)'
    <3>1. Ordered(Plan(m))
      BY PlanOrdered
    <3>. QED BY <2>1, <3>1 DEF Ordered, Has
  <2>. QED BY <1>0, <2>1, <2>2, <2>3 DEF StageInv, SessionInv
<1>3. ASSUME NEW skip \in SkipSets, NEW data \in BOOLEAN, NEW layout \in Layouts,
             StartRun(skip, data, layout)
      PROVE  StageInv'
  <2>1. /\ bundle' = FreshBundle /\ call'.by = "runner" /\ call'.todo = RunPlan
        /\ \A s \in Stages : outcomes'[s] = "none"
    BY <1>3 DEF StartRun
  <2>2. /\ bundle'.graph = Nothing /\ bundle'.mappings = Nothing
        /\ bundle'.trace = Nothing /\ bundle'.translated = Nothing
        /\ bundle'.statespace = Nothing /\ bundle'.process = Nothing
        /\ bundle'.packaged = FALSE /\ bundle'.warned = FALSE
        /\ bundle'.certified = FALSE
    BY <2>1, FreshTyped DEF Artifacts, Flags
  <2>3. Settled' = 0
    BY <2>1, StageAt DEF Settled
  <2>4. Progress'
    <3>1. \A i \in 1 .. 10 : outcomes'[AllStages[i]] = "none" /\ i > 0
      BY <2>1, StageAt
    <3>2. \A i \in 1 .. Len(call'.todo) : call'.todo[i] = RunPlan[Settled' + i]
      BY <2>1, <2>3, StageAt
    <3>. QED BY <2>2, <2>3, <3>1, <3>2 DEF Progress, Has
  <2>5. Outcomes'
    BY <2>1, NamedStages DEF Outcomes
  <2>6. RunOneGraph'
    BY <2>2 DEF RunOneGraph, Opt
  <2>7. Packaged' /\ CertifiedIsOwn'
    BY <2>2 DEF Packaged, CertifiedIsOwn
  <2>. QED BY <1>0, <2>1, <2>4, <2>5, <2>6, <2>7 DEF StageInv, RunnerInv
<1>4. CASE StageAction
  <2>1. call'.by = call.by /\ call.by \in {"session", "runner"}
    BY <1>0, <1>4, StageActionEnds DEF Ends, Passes, SessionTypes, CallRecords
  <2>. QED BY <1>0, <1>4, <2>1, SessionStage, RunnerStage DEF StageInv
<1>6. CASE StepAction
  <2>1. call'.by = call.by /\ call.by \in {"session", "runner"}
    BY <1>0, <1>6, StepPasses DEF Passes, SessionTypes, CallRecords
  <2>. QED BY <1>0, <1>6, <2>1, SessionStep, RunLayout DEF StageInv
<1>5. CASE EditTree \/ UNCHANGED sessionVars
  <2>1. /\ bundle' = bundle /\ call' = call /\ outcomes' = outcomes /\ disk' = disk
        /\ placed' = placed /\ package' = package
        /\ tree \in Nat /\ (tree' = tree \/ tree' = tree + 1)
    BY <1>0, <1>5, SessionAssumption DEF EditTree, sessionVars, SessionTypes, Versions, output
  <2>2. SessionInv => SessionInv'
    <3>1. Ordered(call.todo) => Ordered(call.todo)'
      BY <2>1 DEF Ordered, Has
    <3>2. InOrder(bundle, tree) => InOrder(bundle', tree')
      <4>1. bundle \in Bundles
        BY <1>0 DEF SessionTypes
      <4>2. bundle.graph # Nothing => bundle.graph.read \in Nat
        BY <4>1, BundleReads
      <4>. QED BY <2>1, <4>2 DEF InOrder
    <3>. QED BY <2>1, <3>1, <3>2 DEF SessionInv
  <2>3. RunnerInv => RunnerInv'
    <3>1. /\ Package' = Package /\ (Packable' <=> Packable) /\ Settled' = Settled
          /\ Own' = Own /\ \A f : Artifact(f)' = Artifact(f) /\ Found(f)' = Found(f)
      BY <2>1 DEF Package, Packable, Has, Artifact, Settled, Own, Found
    <3>2. Progress => Progress'
      BY <2>1, <3>1 DEF Progress, Has
    <3>3. Outcomes => Outcomes'
      BY <2>1, <3>1 DEF Outcomes, Has, WrittenOf, Sound
    <3>4. /\ RunOneGraph => RunOneGraph'
          /\ Packaged => Packaged'
          /\ CertifiedIsOwn => CertifiedIsOwn'
      BY <2>1, <3>1 DEF RunOneGraph, Packaged, CertifiedIsOwn
    <3>. QED BY <3>2, <3>3, <3>4 DEF RunnerInv
  <2>. QED BY <1>0, <2>1, <2>2, <2>3 DEF StageInv
<1>. QED BY <1>1, <1>2, <1>3, <1>4, <1>5, <1>6 DEF SessionNext, StageAction, StepAction

LEMMA StageInvariant == SessionSpec => []StageInv
<1>1. StageInv /\ [SessionNext]_sessionVars => StageInv'
  BY StageInvStep
<1>. QED BY <1>1, StageInvInit, PTL DEF SessionSpec

(* Every variable has its type, whatever stages are skipped and raise.     *)
THEOREM StagesTyped == SessionSpec => []SessionTypeOK
<1>1. StageInv => SessionTypeOK
  BY DEF StageInv, SessionTypes, SessionTypeOK, CallRecords, Bundles, Flags
<1>. QED BY <1>1, StageInvariant, PTL

(* In a session the artifacts are derived in order, for every sequence of  *)
(* method calls, edits and exceptions.                                     *)
THEOREM SessionsInOrder == SessionSpec => []Lineage
<1>1. StageInv => Lineage
  BY DEF StageInv, SessionInv, InOrder, Lineage, Has
<1>. QED BY <1>1, StageInvariant, PTL

(* A run is about one graph, for every set of skipped stages, every        *)
(* sequence of edits and all exceptions.                                   *)
THEOREM RunsOneGraph == SessionSpec => []RunOneGraph
<1>1. StageInv => RunOneGraph
  BY DEF StageInv, RunnerInv, RunOneGraph, SessionTypes, CallRecords
<1>. QED BY <1>1, StageInvariant, PTL

(* A package that is certified is of the artifacts of its run, whatever    *)
(* sections of it failed and whatever an earlier run had left there.       *)
THEOREM CertifiedPackagesOwn == SessionSpec => []CertifiedIsOwn
<1>1. StageInv => CertifiedIsOwn
  BY DEF StageInv, SessionInv, RunnerInv, CertifiedIsOwn, SessionTypes, CallRecords
<1>. QED BY <1>1, StageInvariant, PTL

(* A run that says success and warned of nothing leaves no reader with a   *)
(* file of an earlier run, whatever was there before and however far its   *)
(* files were moved.                                                       *)
THEOREM SuccessMeansWhole == SessionSpec => []SuccessIsWhole
<1>1. StageInv => SuccessIsWhole
  <2>. SUFFICES ASSUME StageInv, Idle, call.name = "run", Status = "success",
                       ~bundle.warned,
                       \A s \in Stages \ {"dynamic"} : outcomes[s] # "skipped"
                PROVE  LET g == bundle.graph
                           ss == [graph |-> g, mappings |-> g]
                           p == [graph |-> g, statespace |-> ss, process |-> g,
                                 mappings |-> g]
                       IN  /\ \A f \in {"graph", "gnn", "trace"} : Found(f) = Whole(g)
                           /\ Found("process") \in [of : {g}, form : Forms]
                           /\ Found("statespace") \in [of : {ss}, form : Forms]
                           /\ Mandatory \subseteq DOMAIN package.sums
                           /\ \A f \in DOMAIN package.sums :
                                /\ package.files[f] = package.sums[f]
                                /\ package.sums[f].of = p
                           /\ g.enriched = (call.data /\ outcomes["dynamic"] # "skipped")
    BY DEF SuccessIsWhole
  <2>1. Progress /\ Outcomes /\ SessionTypes
    BY DEF StageInv, SessionInv, RunnerInv, SessionTypes, CallRecords
  <2>2. Settled = 11
    BY <2>1, StageAt DEF Settled, Idle
  <2>3. \A s \in Stages : outcomes[s] # "none"
    <3>1. \A i \in 1 .. 10 : ~(i > 11)
      OBVIOUS
    <3>. QED BY <2>1, <2>2, <3>1, StageAt DEF Progress
  <2>4. \A s \in Stages : outcomes[s] # "failed"
    BY DEF Status
  <2>5. \A s \in Stages : outcomes[s] \in {"none", "success", "failed", "skipped"}
    BY <2>1 DEF SessionTypes
  <2>6. /\ \A s \in Stages \ {"dynamic"} : outcomes[s] = "success"
        /\ outcomes["dynamic"] \in {"success", "skipped"}
    BY <2>3, <2>4, <2>5, NamedStages
  <2>7. /\ bundle.graph # Nothing
        /\ bundle.mappings = bundle.graph /\ bundle.trace = bundle.graph
        /\ bundle.translated = bundle.graph /\ bundle.process = bundle.graph
        /\ bundle.statespace = [graph |-> bundle.graph, mappings |-> bundle.graph]
        /\ bundle.graph.enriched = (call.data /\ outcomes["dynamic"] # "skipped")
    BY <2>1, <2>6, NamedStages DEF Outcomes, Has
  <2>8. bundle.statespace # Nothing
    <3>1. bundle.graph \in Graphs
      BY <2>1, <2>7 DEF SessionTypes, Bundles, Opt
    <3>2. bundle.statespace \in StateSpaces
      BY <2>7, <3>1 DEF StateSpaces, Opt
    <3>. QED BY <3>2, SessionAssumption
  <2>9. /\ \A f \in ToSet(Files) : Artifact(f) # Nothing => Found(f) \in WrittenOf(f)
        /\ Sound(package)
    BY <2>1, <2>6, <2>7, <2>8, NamedStages DEF Outcomes, Packable, Has
  <2>10. /\ Artifact("graph") = bundle.graph /\ Artifact("gnn") = bundle.translated
         /\ Artifact("trace") = bundle.trace /\ Artifact("process") = bundle.process
         /\ Artifact("statespace") = bundle.statespace
    BY DEF Artifact
  <2>11. \A f \in {"graph", "gnn", "trace"} : Found(f) = Whole(bundle.graph)
    <3>1. \A f \in {"graph", "gnn", "trace"} : FormsOf(f) = {"whole"}
      <4>1. \A f \in {"graph", "gnn", "trace"}, form \in Forms : <<f, form>> \notin Garbled
        BY SessionAssumption
      <4>. QED BY <4>1 DEF FormsOf
    <3>2. \A f \in {"graph", "gnn", "trace"} :
            Found(f) \in [of : {bundle.graph}, form : {"whole"}]
      BY <2>7, <2>9, <2>10, <3>1, StageSet DEF WrittenOf
    <3>. QED BY <3>2 DEF Whole, File
  <2>12. /\ Found("process") \in [of : {bundle.graph}, form : Forms]
         /\ Found("statespace") \in [of : {bundle.statespace}, form : Forms]
    <3>1. \A f : FormsOf(f) \subseteq Forms
      BY SessionAssumption DEF FormsOf, Forms
    <3>. QED BY <2>7, <2>8, <2>9, <2>10, <3>1, StageSet DEF WrittenOf
  <2>13. Package = [graph |-> bundle.graph, statespace |-> bundle.statespace,
                    process |-> bundle.process, mappings |-> bundle.mappings]
    BY DEF Package
  <2>14. \A x \in Own : x.of = Package
    BY DEF Own, Whole, File
  <2>15. /\ Mandatory \subseteq DOMAIN package.sums
         /\ \A f \in DOMAIN package.sums :
              package.files[f] = package.sums[f] /\ package.sums[f].of = Package
    BY <2>9, <2>14 DEF Sound
  <2>. QED BY <2>7, <2>11, <2>12, <2>13, <2>15
<1>. QED BY <1>1, StageInvariant, PTL
=============================================================================
