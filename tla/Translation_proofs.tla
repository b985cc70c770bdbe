------------------------- MODULE Translation_proofs -------------------------
(***************************************************************************)
(* What conflict resolution guarantees for every rule set, every graph and *)
(* every order of the pairs.                                               *)
(***************************************************************************)
EXTENDS Translation, FiniteSetTheorems, TLAPS

(* The arguments of translate are of the type InputRecords declares.       *)
LEMMA InputType ==
  ASSUME NEW in \in Inputs
  PROVE  /\ in.active \in SUBSET Rules
         /\ in.emits \in [Rules -> SUBSET Ids]
         /\ in.fragment \in [Ids -> Seq(Nodes)]
         /\ in.score \in [Ids -> Nat]
         /\ in.rescored \in [Ids -> Nat]
BY TranslationAssumption DEF InputRecords

(* Creating mappings keeps the types of what it assigns.                   *)
LEMMA CreateType ==
  ASSUME TypeOK, NEW rule \in Rules, NEW ids \in SUBSET Ids, Create(rule, ids)
  PROVE  /\ mappings' \subseteq Ids
         /\ rulePriority' \in [Ids -> Int]
         /\ fresh' \in Nat
<1>. DEFINE new == ids \ mappings
<1>1. mappings' \subseteq Ids
  BY DEF Create, TypeOK
<1>2. rulePriority' \in [Ids -> Int]
  BY TranslationAssumption DEF Create, TypeOK
<1>3. IsFiniteSet(new)
  BY TranslationAssumption, FS_Subset
<1>4. Cardinality(new) \in Nat
  BY <1>3, FS_CardinalityType
<1>5. fresh' \in Nat
  BY <1>4 DEF Create, TypeOK
<1>. QED BY <1>1, <1>2, <1>5

(* Conflict pairs are pairs of the mappings they are taken from.           *)
LEMMA ConflictPairsType ==
  ASSUME NEW ids \in SUBSET Ids
  PROVE  ConflictPairs(ids) \subseteq Ids \X Ids
BY DEF ConflictPairs

(* Each step of the engine keeps the types.                                *)
LEMMA TypeStep == TypeOK /\ [Next]_vars => TypeOK'
<1>. SUFFICES ASSUME TypeOK, [Next]_vars
              PROVE  TypeOK'
  OBVIOUS
<1>. USE TranslationAssumption
<1>1. ASSUME NEW in \in Inputs, NEW s \in {"none", "due"}, Translate(in, s)
      PROVE  TypeOK'
  BY <1>1, InputType DEF TypeOK, Translate
<1>2. ASSUME NEW rule \in Rules, ApplyRule(rule)
      PROVE  TypeOK'
  <2>1. input.emits[rule] \in SUBSET Ids
    BY InputType DEF TypeOK
  <2>2. mappings' \subseteq Ids /\ rulePriority' \in [Ids -> Int] /\ fresh' \in Nat
    BY <1>2, <2>1, CreateType DEF ApplyRule
  <2>. QED BY <1>2, <2>2 DEF TypeOK, ApplyRule, call, resolution
<1>3. ASSUME NEW rule \in Rules, Raise(rule)
      PROVE  TypeOK'
  <2>1. PICK ids \in SUBSET input.emits[rule] : Create(rule, ids)
    BY <1>3 DEF Raise
  <2>2. ids \in SUBSET Ids
    BY InputType DEF TypeOK
  <2>3. mappings' \subseteq Ids /\ rulePriority' \in [Ids -> Int] /\ fresh' \in Nat
    BY <2>1, <2>2, CreateType
  <2>. QED BY <1>3, <2>3 DEF TypeOK, Raise, call, resolution
<1>4. ASSUME NextPass
      PROVE  TypeOK'
  BY <1>4, InputType DEF TypeOK, NextPass, call, resolution
<1>5. ASSUME EndPasses
      PROVE  TypeOK'
  <2>1. pairs' \subseteq Ids \X Ids /\ removed' \subseteq Ids
    BY <1>5, ConflictPairsType DEF TypeOK, EndPasses, StartResolution
  <2>2. converged' \in 0..iteration /\ phase' = "resolving"
    BY <1>5 DEF TypeOK, EndPasses, StartResolution
  <2>3. /\ input' = input /\ scoring' = scoring /\ calls' = calls
        /\ todo' = todo /\ iteration' = iteration /\ fresh' = fresh
        /\ mappings' = mappings /\ proposed' = mappings /\ log' = log
        /\ rulePriority' = rulePriority /\ confidence' = confidence
    BY <1>5 DEF EndPasses, call
  <2>. QED BY <2>1, <2>2, <2>3 DEF TypeOK
<1>6. ASSUME EndResolution
      PROVE  TypeOK'
  <2>1. confidence' \in [Ids -> Nat]
    BY <1>6, InputType DEF TypeOK, EndResolution
  <2>3. mappings' \subseteq Ids
    BY <1>6 DEF TypeOK, EndResolution
  <2>2. pairs' \subseteq Ids \X Ids /\ removed' \subseteq Ids
    <3>1. CASE scoring = "due"
      <4>1. pairs' = ConflictPairs(mappings') /\ removed' = {}
        BY <1>6, <3>1 DEF EndResolution, StartResolution
      <4>. QED BY <2>3, <4>1, ConflictPairsType
    <3>2. CASE scoring # "due"
      BY <1>6, <3>2 DEF TypeOK, EndResolution
    <3>. QED BY <3>1, <3>2
  <2>4. /\ phase' \in {"idle", "applying", "resolving", "returned", "raised"}
        /\ scoring' \in {"none", "due", "done"}
    BY <1>6 DEF TypeOK, EndResolution, StartResolution
  <2>. QED BY <1>6, <2>1, <2>2, <2>3, <2>4 DEF TypeOK, EndResolution, pass
<1>7. ASSUME NEW p \in Ids \X Ids, VisitPair(p)
      PROVE  TypeOK'
  <2>1. Loser(p) \in Ids /\ Winner(p) \in Ids
    BY DEF Loser, Winner
  <2>2. removed' \subseteq Ids /\ log' \subseteq [removed : Ids, kept : Ids]
    <3>1. CASE UNCHANGED <<removed, log>>
      BY <3>1 DEF TypeOK
    <3>2. CASE /\ removed' = removed \cup {Loser(p)}
               /\ log' = log \cup {[removed |-> Loser(p), kept |-> Winner(p)]}
      <4>1. [removed |-> Loser(p), kept |-> Winner(p)] \in [removed : Ids, kept : Ids]
        BY <2>1
      <4>. QED BY <2>1, <3>2, <4>1 DEF TypeOK
    <3>. QED BY <1>7, <3>1, <3>2 DEF VisitPair
  <2>3. pairs' \subseteq Ids \X Ids
    BY <1>7 DEF TypeOK, VisitPair
  <2>4. /\ phase' = phase /\ input' = input /\ scoring' = scoring /\ calls' = calls
        /\ todo' = todo /\ iteration' = iteration /\ fresh' = fresh
        /\ converged' = converged /\ mappings' = mappings /\ proposed' = proposed
        /\ rulePriority' = rulePriority /\ confidence' = confidence
    BY <1>7 DEF VisitPair, call, pass
  <2>. QED BY <2>2, <2>3, <2>4 DEF TypeOK
<1>8. ASSUME UNCHANGED vars
      PROVE  TypeOK'
  BY <1>8 DEF TypeOK, vars, call, pass, resolution
<1>. QED BY <1>1, <1>2, <1>3, <1>4, <1>5, <1>6, <1>7, <1>8 DEF Next

(* The engine's variables have their types, whatever the rules emit.       *)
THEOREM TypeCorrect == Spec => []TypeOK
<1>1. Init => TypeOK
  BY TranslationAssumption DEF Init, TypeOK
<1>2. TypeOK /\ [Next]_vars => TypeOK'
  BY TypeStep
<1>. QED BY <1>1, <1>2, PTL DEF Spec

-----------------------------------------------------------------------------
(* Every collision between two mappings that are still in is yet to be     *)
(* visited, or has removed one of them; and no mapping that beats its      *)
(* rivals has been removed.                                                *)
Resolving ==
  /\ mappings \subseteq proposed
  /\ pairs \subseteq ConflictPairs(mappings)
  /\ \A a, b \in mappings : a <= b /\ Collide(a, b) =>
       <<a, b>> \in pairs \/ a \in removed \/ b \in removed
  /\ scoring # "done" => confidence = input.score
  /\ scoring = "done" => pairs = {} /\ removed = {}
  /\ \A i \in proposed : Dominant(i) => i \in mappings /\ i \notin removed

(* What a call has left in the engine. *)
Settled ==
  /\ \A a, b \in mappings : a <= b => ~Collide(a, b)
  /\ \A i \in proposed : Dominant(i) => i \in mappings

ResolutionInv ==
  /\ TypeOK
  /\ phase = "applying" => scoring # "done" /\ confidence = input.score
  /\ phase = "resolving" => Resolving
  /\ phase = "returned" => Settled

(* Visiting a pair keeps the invariant: the mapping that goes is not one   *)
(* that beats its rivals.                                                  *)
LEMMA VisitPairKeeps ==
  ASSUME ResolutionInv, NEW p \in Ids \X Ids, VisitPair(p)
  PROVE  Resolving'
<1>1. Resolving /\ TypeOK
  BY DEF ResolutionInv, VisitPair
<1>2. /\ input' = input /\ scoring' = scoring /\ confidence' = confidence
      /\ mappings' = mappings /\ rulePriority' = rulePriority /\ proposed' = proposed
  BY DEF VisitPair, call
<1>3. /\ p \in pairs /\ pairs' = pairs \ {p}
      /\ \/ removed' = removed /\ (p[1] \in removed \/ p[2] \in removed)
         \/ removed' = removed \cup {Loser(p)}
  BY DEF VisitPair, FirstPair
<1>4. scoring # "done" /\ confidence = input.score
  BY <1>1, <1>3 DEF Resolving
<1>5. /\ p[1] \in mappings /\ p[2] \in mappings /\ Collide(p[1], p[2])
      /\ p[1] \in proposed /\ p[2] \in proposed
  BY <1>1, <1>3 DEF Resolving, ConflictPairs
<1>6. ConflictPairs(mappings)' = ConflictPairs(mappings)
  BY <1>2 DEF ConflictPairs, Collide, NodesOf
<1>7. ASSUME NEW a \in mappings, NEW b \in mappings, a <= b, Collide(a, b)
      PROVE  <<a, b>> \in pairs' \/ a \in removed' \/ b \in removed'
  <2>1. <<a, b>> \in pairs \/ a \in removed \/ b \in removed
    BY <1>1, <1>7 DEF Resolving
  <2>2. CASE <<a, b>> = p
    BY <1>3, <2>2 DEF Loser
  <2>3. CASE <<a, b>> # p
    BY <1>3, <2>1, <2>3
  <2>. QED BY <2>2, <2>3
<1>8. ASSUME NEW i \in proposed, Dominant(i)
      PROVE  i \in mappings /\ i \notin removed'
  <2>1. i \in mappings /\ i \notin removed
    BY <1>1, <1>8 DEF Resolving
  <2>2. i # Loser(p)
    <3>1. CASE p[1] = p[2]
      <4>1. i # p[2]
        BY <1>5, <1>8, <3>1 DEF Dominant
      <4>. QED BY <3>1, <4>1 DEF Loser
    <3>2. CASE p[1] # p[2] /\ i = p[1]
      <4>1. p[2] \in Rivals(i)
        BY <1>5, <3>2 DEF Rivals, Collide
      <4>2. Above(Key(i, input.score), Key(p[2], input.score))
        BY <1>8, <4>1 DEF Dominant
      <4>3. Outranks(i, p[2])
        BY <1>1, <1>4, <4>2, <3>2 DEF Above, Key, Outranks, TypeOK
      <4>. QED BY <3>2, <4>3 DEF Loser
    <3>3. CASE p[1] # p[2] /\ i = p[2]
      <4>1. p[1] \in Rivals(i)
        BY <1>5, <3>3 DEF Rivals, Collide
      <4>2. Above(Key(i, input.score), Key(p[1], input.score))
        BY <1>8, <4>1 DEF Dominant
      <4>3. ~Outranks(p[1], i)
        BY <1>1, <1>4, <4>2, <3>3 DEF Above, Key, Outranks, TypeOK
      <4>. QED BY <3>3, <4>3 DEF Loser
    <3>4. CASE i # p[1] /\ i # p[2]
      BY <3>4 DEF Loser
    <3>. QED BY <3>1, <3>2, <3>3, <3>4
  <2>. QED BY <1>3, <2>1, <2>2
<1>9. \A i : Dominant(i)' <=> Dominant(i)
  BY <1>2 DEF Dominant, Collide, NodesOf, Rivals, Key
<1>10. \A a, b : Collide(a, b)' <=> Collide(a, b)
  BY <1>2 DEF Collide, NodesOf
<1>. QED BY <1>1, <1>2, <1>3, <1>4, <1>6, <1>7, <1>8, <1>9, <1>10 DEF Resolving

(* A resolution that ends has settled every collision; the one that        *)
(* follows a rescoring finds none.                                         *)
LEMMA EndResolutionKeeps ==
  ASSUME ResolutionInv, EndResolution
  PROVE  /\ phase' = "resolving" => Resolving'
         /\ phase' = "returned" => Settled'
<1>1. Resolving /\ TypeOK
  BY DEF ResolutionInv, EndResolution
<1>2. /\ input' = input /\ proposed' = proposed /\ rulePriority' = rulePriority
      /\ mappings' = mappings \ removed /\ pairs = {}
  BY DEF EndResolution
<1>3. \A a, b \in mappings' : a <= b => ~Collide(a, b)
  BY <1>1, <1>2 DEF Resolving
<1>4. \A i \in proposed : Dominant(i) => i \in mappings'
  BY <1>1, <1>2 DEF Resolving
<1>5. \A i : Dominant(i)' <=> Dominant(i)
  BY <1>2 DEF Dominant, Collide, NodesOf, Rivals, Key
<1>6. \A a, b : Collide(a, b)' <=> Collide(a, b)
  BY <1>2 DEF Collide, NodesOf
<1>7. ASSUME phase' = "resolving"
      PROVE  Resolving'
  <2>1. scoring' = "done" /\ pairs' = ConflictPairs(mappings') /\ removed' = {}
    BY <1>7 DEF EndResolution, StartResolution
  <2>2. ConflictPairs(mappings') = {}
    BY <1>3 DEF ConflictPairs
  <2>3. mappings' \subseteq proposed'
    BY <1>1, <1>2 DEF Resolving
  <2>. QED BY <1>2, <1>3, <1>4, <1>5, <1>6, <2>1, <2>2, <2>3 DEF Resolving
<1>8. ASSUME phase' = "returned"
      PROVE  Settled'
  BY <1>2, <1>3, <1>4, <1>5, <1>6, <1>8 DEF Settled
<1>. QED BY <1>7, <1>8

(* The invariant is inductive. *)
LEMMA ResolutionStep == ResolutionInv /\ [Next]_vars => ResolutionInv'
<1>. SUFFICES ASSUME ResolutionInv, [Next]_vars
              PROVE  ResolutionInv'
  OBVIOUS
<1>0. TypeOK'
  BY TypeStep DEF ResolutionInv
<1>1. ASSUME NEW in \in Inputs, NEW s \in {"none", "due"}, Translate(in, s)
      PROVE  ResolutionInv'
  BY <1>0, <1>1 DEF ResolutionInv, Translate
<1>2. ASSUME NEW rule \in Rules, ApplyRule(rule)
      PROVE  ResolutionInv'
  BY <1>0, <1>2 DEF ResolutionInv, ApplyRule, call
<1>3. ASSUME NEW rule \in Rules, Raise(rule)
      PROVE  ResolutionInv'
  BY <1>0, <1>3 DEF ResolutionInv, Raise
<1>4. ASSUME NextPass
      PROVE  ResolutionInv'
  BY <1>0, <1>4 DEF ResolutionInv, NextPass, call
<1>5. ASSUME EndPasses
      PROVE  ResolutionInv'
  <2>1. /\ phase' = "resolving" /\ scoring # "done" /\ confidence = input.score
        /\ input' = input /\ scoring' = scoring /\ confidence' = confidence
        /\ mappings' = mappings /\ proposed' = mappings /\ rulePriority' = rulePriority
        /\ pairs' = ConflictPairs(mappings) /\ removed' = {}
    BY <1>5 DEF ResolutionInv, EndPasses, StartResolution, call
  <2>2. ConflictPairs(mappings)' = ConflictPairs(mappings)
    BY <2>1 DEF ConflictPairs, Collide, NodesOf
  <2>3. \A a, b : Collide(a, b)' <=> Collide(a, b)
    BY <2>1 DEF Collide, NodesOf
  <2>4. \A a, b \in mappings : a <= b /\ Collide(a, b) => <<a, b>> \in ConflictPairs(mappings)
    BY DEF ConflictPairs
  <2>5. Resolving'
    BY <2>1, <2>2, <2>3, <2>4 DEF Resolving
  <2>. QED BY <1>0, <2>1, <2>5 DEF ResolutionInv
<1>6. ASSUME EndResolution
      PROVE  ResolutionInv'
  <2>1. phase' \in {"resolving", "returned"}
    BY <1>6 DEF EndResolution, StartResolution
  <2>. QED BY <1>0, <1>6, <2>1, EndResolutionKeeps DEF ResolutionInv
<1>7. ASSUME NEW p \in Ids \X Ids, VisitPair(p)
      PROVE  ResolutionInv'
  <2>1. phase' = "resolving"
    BY <1>7 DEF VisitPair
  <2>. QED BY <1>0, <1>7, <2>1, VisitPairKeeps DEF ResolutionInv
<1>8. ASSUME UNCHANGED vars
      PROVE  ResolutionInv'
  <2>1. \A i : Dominant(i)' <=> Dominant(i)
    BY <1>8 DEF Dominant, Collide, NodesOf, Rivals, Key, vars, call, resolution
  <2>2. \A a, b : Collide(a, b)' <=> Collide(a, b)
    BY <1>8 DEF Collide, NodesOf, vars, call
  <2>3. ConflictPairs(mappings)' = ConflictPairs(mappings)
    BY <1>8 DEF ConflictPairs, Collide, NodesOf, vars, call
  <2>4. /\ phase' = phase /\ scoring' = scoring /\ confidence' = confidence
        /\ input' = input /\ mappings' = mappings /\ proposed' = proposed
        /\ pairs' = pairs /\ removed' = removed
    BY <1>8 DEF vars, call, resolution
  <2>5. (phase = "resolving" => Resolving) => (phase = "resolving" => Resolving)'
    BY <2>1, <2>2, <2>3, <2>4 DEF Resolving
  <2>6. (phase = "returned" => Settled) => (phase = "returned" => Settled)'
    BY <2>1, <2>2, <2>4 DEF Settled
  <2>. QED BY <1>0, <2>4, <2>5, <2>6 DEF ResolutionInv
<1>. QED BY TranslationAssumption, <1>1, <1>2, <1>3, <1>4, <1>5, <1>6, <1>7, <1>8 DEF Next

(* The invariant holds of every engine. *)
LEMMA ResolutionInvariant == Spec => []ResolutionInv
<1>1. Init => ResolutionInv
  BY TranslationAssumption DEF Init, TypeOK, ResolutionInv
<1>2. ResolutionInv /\ [Next]_vars => ResolutionInv'
  BY ResolutionStep
<1>. QED BY <1>1, <1>2, PTL DEF Spec

(* No node is left with two mappings, for all rules, graphs and scores.    *)
THEOREM DisjointRoles == Spec => []NoOverlap
<1>1. ResolutionInv => NoOverlap
  <2>. SUFFICES ASSUME ResolutionInv, phase = "returned",
                       NEW a \in mappings, NEW b \in mappings, a # b
                PROVE  NodesOf(a) \cap NodesOf(b) = {}
    BY DEF NoOverlap
  <2>1. a \in Nat /\ b \in Nat
    BY TranslationAssumption DEF ResolutionInv, TypeOK
  <2>2. Settled
    BY DEF ResolutionInv
  <2>3. CASE a <= b
    BY <2>2, <2>3 DEF Settled, Collide
  <2>4. CASE b <= a
    BY <2>2, <2>4 DEF Settled, Collide
  <2>. QED BY <2>1, <2>3, <2>4
<1>. QED BY <1>1, ResolutionInvariant, PTL

(* A mapping that beats all its rivals is returned, for all rules, graphs  *)
(* and scores, whatever else is removed around it.                         *)
THEOREM StrongestKept == Spec => []DominantKept
<1>1. ResolutionInv => DominantKept
  BY DEF ResolutionInv, Settled, DominantKept
<1>. QED BY <1>1, ResolutionInvariant, PTL

-----------------------------------------------------------------------------
(* While rules are applied: each mapping has the highest priority of the   *)
(* rules that emit it, since rules come in descending order of priority in *)
(* the first pass and later passes find nothing new; and the mappings of   *)
(* each rule that has had its turn are there.                              *)
Collecting ==
  /\ todo \subseteq input.active
  /\ iteration >= 1
  /\ \A i \in mappings :
       /\ \E r \in Sources(i) : rulePriority[i] = Priority[r]
       /\ \A r \in Sources(i) : rulePriority[i] >= Priority[r]
  /\ \A r \in input.active :
       iteration > 1 \/ r \notin todo => input.emits[r] \subseteq mappings

ConsideringInv ==
  /\ TypeOK
  /\ phase = "applying" => Collecting
  /\ ConsidersThisGraph

(* Applying a rule keeps the account of the mappings: what it adds was not *)
(* there, so no rule before it emits it, and those after it rank lower.    *)
LEMMA ApplyRuleKeeps ==
  ASSUME TypeOK, Collecting, NEW rule \in Rules, ApplyRule(rule)
  PROVE  Collecting'
<1>. DEFINE new == input.emits[rule] \ mappings
<1>. USE TranslationAssumption
<1>1. /\ input' = input /\ iteration' = iteration /\ todo' = todo \ {rule}
      /\ rule \in todo /\ \A r \in todo : Priority[r] <= Priority[rule]
  BY DEF ApplyRule, NextRule, call
<1>2. /\ mappings' = mappings \cup new
      /\ rulePriority' = [i \in Ids |-> IF i \in new THEN Priority[rule]
                                       ELSE rulePriority[i]]
  BY DEF ApplyRule, Create
<1>3. \A i : Sources(i)' = Sources(i)
  BY <1>1 DEF Sources
<1>4. input.active \in SUBSET Rules /\ input.emits \in [Rules -> SUBSET Ids]
  BY InputType DEF TypeOK
<1>5. ASSUME NEW i \in mappings'
      PROVE  /\ \E r \in Sources(i) : rulePriority'[i] = Priority[r]
             /\ \A r \in Sources(i) : rulePriority'[i] >= Priority[r]
  <2>1. CASE i \in new
    <3>1. rulePriority'[i] = Priority[rule]
      BY <1>2, <1>4, <2>1
    <3>2. rule \in Sources(i)
      BY <1>1, <2>1 DEF Sources, Collecting
    <3>3. ASSUME NEW r \in Sources(i)
          PROVE  Priority[rule] >= Priority[r]
      <4>1. r \in todo
        BY <2>1 DEF Sources, Collecting
      <4>. QED BY <1>1, <1>4, <4>1 DEF TypeOK
    <3>. QED BY <3>1, <3>2, <3>3
  <2>2. CASE i \notin new
    <3>1. i \in mappings /\ rulePriority'[i] = rulePriority[i]
      BY <1>2, <2>2 DEF TypeOK
    <3>. QED BY <3>1 DEF Collecting
  <2>. QED BY <2>1, <2>2
<1>6. ASSUME NEW r \in input.active, iteration > 1 \/ r \notin todo'
      PROVE  input.emits[r] \subseteq mappings'
  <2>1. CASE r = rule
    BY <1>2, <2>1
  <2>2. CASE r # rule
    BY <1>1, <1>2, <1>6, <2>2 DEF Collecting
  <2>. QED BY <2>1, <2>2
<1>7. todo' \subseteq input.active /\ iteration >= 1
  BY <1>1 DEF Collecting
<1>. QED BY <1>1, <1>3, <1>5, <1>6, <1>7 DEF Collecting

(* After a full pass the mappings are those of all active rules.           *)
LEMMA CollectedAll ==
  ASSUME TypeOK, Collecting, todo = {}
  PROVE  mappings = {i \in Ids : Sources(i) # {}}
<1>1. \A i \in mappings : i \in Ids /\ Sources(i) # {}
  BY DEF TypeOK, Collecting
<1>2. \A i \in Ids : Sources(i) # {} => i \in mappings
  BY DEF Sources, Collecting
<1>. QED BY <1>1, <1>2

(* The account of the mappings is inductive.                               *)
LEMMA ConsideringStep == ConsideringInv /\ [Next]_vars => ConsideringInv'
<1>. SUFFICES ASSUME ConsideringInv, [Next]_vars
              PROVE  ConsideringInv'
  OBVIOUS
<1>0. TypeOK /\ TypeOK'
  BY TypeStep DEF ConsideringInv
<1>1. ASSUME NEW in \in Inputs, NEW s \in {"none", "due"}, Translate(in, s)
      PROVE  ConsideringInv'
  <2>1. /\ phase' = "applying" /\ input' = in /\ todo' = in.active
        /\ iteration' = 1 /\ mappings' = {}
    BY <1>1 DEF Translate
  <2>2. Collecting'
    BY <2>1 DEF Collecting
  <2>. QED BY <1>0, <2>1, <2>2 DEF ConsideringInv, ConsidersThisGraph
<1>2. ASSUME NEW rule \in Rules, ApplyRule(rule)
      PROVE  ConsideringInv'
  <2>1. phase = "applying" /\ phase' = "applying"
    BY <1>2 DEF ApplyRule
  <2>2. Collecting'
    BY <1>0, <1>2, <2>1, ApplyRuleKeeps DEF ConsideringInv
  <2>. QED BY <1>0, <2>1, <2>2 DEF ConsideringInv, ConsidersThisGraph
<1>3. ASSUME NEW rule \in Rules, Raise(rule)
      PROVE  ConsideringInv'
  <2>1. phase' = "raised"
    BY <1>3 DEF Raise
  <2>. QED BY <1>0, <2>1 DEF ConsideringInv, ConsidersThisGraph
<1>4. ASSUME NextPass
      PROVE  ConsideringInv'
  <2>1. /\ phase = "applying" /\ phase' = phase /\ todo = {}
        /\ input' = input /\ mappings' = mappings /\ rulePriority' = rulePriority
        /\ todo' = input.active /\ iteration' = iteration + 1
    BY <1>4 DEF NextPass, call
  <2>2. Collecting
    BY <2>1 DEF ConsideringInv
  <2>3. \A i : Sources(i)' = Sources(i)
    BY <2>1 DEF Sources
  <2>4. iteration' >= 1
    BY <1>0, <2>1, <2>2 DEF Collecting, TypeOK
  <2>5. Collecting'
    BY <2>1, <2>2, <2>3, <2>4 DEF Collecting
  <2>. QED BY <1>0, <2>1, <2>5 DEF ConsideringInv, ConsidersThisGraph
<1>5. ASSUME EndPasses
      PROVE  ConsideringInv'
  <2>1. /\ phase = "applying" /\ phase' = "resolving" /\ todo = {}
        /\ input' = input /\ mappings' = mappings /\ rulePriority' = rulePriority
        /\ proposed' = mappings
    BY <1>5 DEF EndPasses, StartResolution, call
  <2>2. Collecting
    BY <2>1 DEF ConsideringInv
  <2>3. mappings = {i \in Ids : Sources(i) # {}}
    BY <1>0, <2>1, <2>2, CollectedAll
  <2>4. \A i : Sources(i)' = Sources(i)
    BY <2>1 DEF Sources
  <2>5. {i \in Ids : Sources(i) # {}}' = {i \in Ids : Sources(i) # {}}
    BY <2>4
  <2>6. ConsidersThisGraph'
    BY <2>1, <2>2, <2>3, <2>4, <2>5 DEF ConsidersThisGraph, Collecting
  <2>. QED BY <1>0, <2>1, <2>6 DEF ConsideringInv
<1>6. ASSUME \/ EndResolution
             \/ \E p \in Ids \X Ids : VisitPair(p)
      PROVE  ConsideringInv'
  <2>1. /\ phase = "resolving" /\ phase' \in {"resolving", "returned"}
        /\ input' = input /\ rulePriority' = rulePriority /\ proposed' = proposed
        /\ mappings' \subseteq mappings
    BY <1>6 DEF EndResolution, StartResolution, VisitPair, call
  <2>2. \A i : Sources(i)' = Sources(i)
    BY <2>1 DEF Sources
  <2>3. ConsidersThisGraph'
    BY <2>1, <2>2 DEF ConsideringInv, ConsidersThisGraph
  <2>. QED BY <1>0, <2>1, <2>3 DEF ConsideringInv
<1>7. ASSUME UNCHANGED vars
      PROVE  ConsideringInv'
  <2>1. /\ phase' = phase /\ input' = input /\ rulePriority' = rulePriority
        /\ proposed' = proposed /\ mappings' = mappings
        /\ todo' = todo /\ iteration' = iteration
    BY <1>7 DEF vars, call, pass, resolution
  <2>2. \A i : Sources(i)' = Sources(i)
    BY <2>1 DEF Sources
  <2>3. ConsidersThisGraph'
    BY <2>1, <2>2 DEF ConsideringInv, ConsidersThisGraph
  <2>4. Collecting => Collecting'
    BY <2>1, <2>2 DEF Collecting
  <2>. QED BY <1>0, <2>1, <2>3, <2>4 DEF ConsideringInv
<1>. QED BY TranslationAssumption, <1>1, <1>2, <1>3, <1>4, <1>5, <1>6, <1>7 DEF Next

(* Whatever calls came before, and whether they raised, a call considers   *)
(* the mappings of all rules that its filter lets through, with the        *)
(* highest priority of those that emit it, for any rules and priorities.   *)
THEOREM GraphConsidered == Spec => []ConsidersThisGraph
<1>1. Init => ConsideringInv
  BY TranslationAssumption DEF Init, TypeOK, ConsideringInv, ConsidersThisGraph
<1>2. ConsideringInv /\ [Next]_vars => ConsideringInv'
  BY ConsideringStep
<1>3. ConsideringInv => ConsidersThisGraph
  BY DEF ConsideringInv
<1>. QED BY <1>1, <1>2, <1>3, PTL DEF Spec

-----------------------------------------------------------------------------
(* What one event of the log says of the mapping that went and the one     *)
(* that stayed.                                                            *)
Justified(e) ==
  /\ Collide(e.removed, e.kept)
  /\ ~Above(Key(e.removed, input.score), Key(e.kept, input.score))
  /\ \/ e.kept = e.removed
     \/ Above(Key(e.kept, input.score), Key(e.removed, input.score))
     \/ e.kept < e.removed

(* The events name the mappings that are gone or marked, each once.        *)
Accounted ==
  /\ {e.removed : e \in log} = (proposed \ mappings) \cup removed
  /\ removed \subseteq mappings
  /\ \A e, f \in log : e.removed = f.removed => e = f
  /\ \A e \in log : Justified(e)

LogInv ==
  /\ ResolutionInv
  /\ phase = "applying" => log = {}
  /\ phase = "resolving" => Accounted
  /\ RemovalsExplained

(* A visit that removes a mapping records why: the two collide, and the    *)
(* one that goes does not rank above the one that stays.                   *)
LEMMA EventJustified ==
  ASSUME TypeOK, confidence = input.score,
         NEW a \in Ids, NEW b \in Ids, a <= b, Collide(a, b)
  PROVE  Justified([removed |-> Loser(<<a, b>>), kept |-> Winner(<<a, b>>)])
<1>. DEFINE e == [removed |-> Loser(<<a, b>>), kept |-> Winner(<<a, b>>)]
<1>1. /\ a \in Nat /\ b \in Nat
      /\ rulePriority[a] \in Int /\ rulePriority[b] \in Int
      /\ confidence[a] \in Nat /\ confidence[b] \in Nat
  BY TranslationAssumption DEF TypeOK
<1>2. CASE Outranks(a, b)
  <2>1. e.removed = b /\ e.kept = a
    BY <1>2 DEF Loser, Winner
  <2>2. Collide(b, a)
    BY DEF Collide
  <2>3. ~Above(Key(b, input.score), Key(a, input.score))
    BY <1>1, <1>2 DEF Outranks, Above, Key
  <2>4. a = b \/ a < b
    BY <1>1
  <2>. QED BY <2>1, <2>2, <2>3, <2>4 DEF Justified
<1>3. CASE ~Outranks(a, b)
  <2>1. e.removed = a /\ e.kept = b
    BY <1>3 DEF Loser, Winner
  <2>2. /\ ~Above(Key(a, input.score), Key(b, input.score))
        /\ Above(Key(b, input.score), Key(a, input.score))
    BY <1>1, <1>3 DEF Outranks, Above, Key
  <2>. QED BY <2>1, <2>2 DEF Justified
<1>. QED BY <1>2, <1>3

(* Whether an event is justified depends on the graph and the priorities   *)
(* alone, which no step of the resolution changes.                         *)
LEMMA JustifiedStays ==
  ASSUME input' = input, rulePriority' = rulePriority, NEW e
  PROVE  Justified(e)' <=> Justified(e)
BY DEF Justified, Collide, NodesOf, Key, Above

(* Visiting a pair keeps the log complete and free of double entries.      *)
LEMMA VisitPairLogs ==
  ASSUME LogInv, NEW p \in Ids \X Ids, VisitPair(p)
  PROVE  Accounted'
<1>1. Accounted /\ Resolving /\ TypeOK
  BY DEF LogInv, ResolutionInv, VisitPair
<1>2. /\ input' = input /\ mappings' = mappings
      /\ rulePriority' = rulePriority /\ proposed' = proposed
  BY DEF VisitPair, call
<1>3. p \in pairs
  BY DEF VisitPair, FirstPair
<1>4. /\ confidence = input.score
      /\ p[1] \in mappings /\ p[2] \in mappings /\ p[1] <= p[2]
      /\ Collide(p[1], p[2]) /\ p = <<p[1], p[2]>>
  BY <1>1, <1>3 DEF Resolving, ConflictPairs
<1>5. CASE UNCHANGED <<removed, log>>
  BY <1>1, <1>2, <1>5, JustifiedStays DEF Accounted
<1>6. CASE /\ p[1] \notin removed /\ p[2] \notin removed
           /\ removed' = removed \cup {Loser(p)}
           /\ log' = log \cup {[removed |-> Loser(p), kept |-> Winner(p)]}
  <2>. DEFINE d == [removed |-> Loser(p), kept |-> Winner(p)]
  <2>1. Justified(d)
    BY <1>1, <1>4, EventJustified
  <2>2. d.removed = Loser(p) /\ Loser(p) \in mappings /\ Loser(p) \notin removed
    BY <1>4, <1>6 DEF Loser
  <2>3. log' = log \cup {d} /\ removed' = removed \cup {d.removed}
    BY <1>6
  <2>. HIDE DEF d
  <2>4. \A e \in log : e.removed # d.removed
    BY <1>1, <2>2 DEF Accounted
  <2>5. {e.removed : e \in log'} = {e.removed : e \in log} \cup {d.removed}
    BY <2>3
  <2>6. {e.removed : e \in log'} = (proposed \ mappings) \cup removed'
    BY <1>1, <2>3, <2>5 DEF Accounted
  <2>7. removed' \subseteq mappings
    BY <1>1, <2>2, <2>3 DEF Accounted
  <2>8. \A e, f \in log' : e.removed = f.removed => e = f
    BY <1>1, <2>3, <2>4 DEF Accounted
  <2>9. \A e \in log' : Justified(e)
    BY <1>1, <2>1, <2>3 DEF Accounted
  <2>. QED BY <1>2, <2>6, <2>7, <2>8, <2>9, JustifiedStays DEF Accounted
<1>. QED BY <1>5, <1>6 DEF VisitPair

(* The end of a resolution turns marked mappings into missing ones.        *)
LEMMA EndResolutionLogs ==
  ASSUME LogInv, EndResolution
  PROVE  /\ phase' = "resolving" => Accounted'
         /\ RemovalsExplained'
<1>1. Accounted /\ Resolving
  BY DEF LogInv, ResolutionInv, EndResolution
<1>2. /\ input' = input /\ rulePriority' = rulePriority /\ proposed' = proposed
      /\ mappings' = mappings \ removed /\ log' = log
  BY DEF EndResolution
<1>3. {e.removed : e \in log} = proposed \ mappings'
  BY <1>1, <1>2 DEF Accounted, Resolving
<1>4. \A e, f \in log : e.removed = f.removed => e = f
  BY <1>1 DEF Accounted
<1>5. \A e \in log : Justified(e)'
  BY <1>1, <1>2, JustifiedStays DEF Accounted
<1>6. ASSUME phase' = "resolving"
      PROVE  Accounted'
  <2>1. removed' = {}
    BY <1>6 DEF EndResolution, StartResolution
  <2>. QED BY <1>2, <1>3, <1>4, <1>5, <2>1 DEF Accounted
<1>7. RemovalsExplained'
  BY <1>2, <1>3, <1>4, <1>5 DEF RemovalsExplained, Justified
<1>. QED BY <1>6, <1>7

(* The account of the removals is inductive.                               *)
LEMMA LogStep == LogInv /\ [Next]_vars => LogInv'
<1>. SUFFICES ASSUME LogInv, [Next]_vars
              PROVE  LogInv'
  OBVIOUS
<1>0. ResolutionInv /\ ResolutionInv'
  BY ResolutionStep DEF LogInv
<1>1. ASSUME NEW in \in Inputs, NEW s \in {"none", "due"}, Translate(in, s)
      PROVE  LogInv'
  <2>1. phase' = "applying" /\ log' = {}
    BY <1>1 DEF Translate
  <2>. QED BY <1>0, <2>1 DEF LogInv, RemovalsExplained
<1>2. ASSUME \/ \E rule \in Rules : ApplyRule(rule)
             \/ NextPass
      PROVE  LogInv'
  <2>1. phase = "applying" /\ phase' = "applying" /\ log' = log
    BY <1>2 DEF ApplyRule, NextPass, resolution
  <2>. QED BY <1>0, <2>1 DEF LogInv, RemovalsExplained
<1>3. ASSUME NEW rule \in Rules, Raise(rule)
      PROVE  LogInv'
  <2>1. phase' = "raised"
    BY <1>3 DEF Raise
  <2>. QED BY <1>0, <2>1 DEF LogInv, RemovalsExplained
<1>4. ASSUME EndPasses
      PROVE  LogInv'
  <2>1. /\ phase = "applying" /\ phase' = "resolving"
        /\ log' = log /\ removed' = {} /\ proposed' = mappings /\ mappings' = mappings
    BY <1>4 DEF EndPasses, StartResolution
  <2>2. log = {}
    BY <2>1 DEF LogInv
  <2>3. Accounted'
    BY <2>1, <2>2 DEF Accounted
  <2>. QED BY <1>0, <2>1, <2>3 DEF LogInv, RemovalsExplained
<1>5. ASSUME EndResolution
      PROVE  LogInv'
  <2>1. phase' \in {"resolving", "returned"}
    BY <1>5 DEF EndResolution, StartResolution
  <2>. QED BY <1>0, <1>5, <2>1, EndResolutionLogs DEF LogInv
<1>6. ASSUME NEW p \in Ids \X Ids, VisitPair(p)
      PROVE  LogInv'
  <2>1. phase' = "resolving"
    BY <1>6 DEF VisitPair
  <2>. QED BY <1>0, <1>6, <2>1, VisitPairLogs DEF LogInv, RemovalsExplained
<1>7. ASSUME UNCHANGED vars
      PROVE  LogInv'
  <2>1. /\ phase' = phase /\ input' = input /\ rulePriority' = rulePriority
        /\ proposed' = proposed /\ mappings' = mappings
        /\ removed' = removed /\ log' = log
    BY <1>7 DEF vars, call, resolution
  <2>2. \A e : Justified(e)' <=> Justified(e)
    BY <2>1, JustifiedStays
  <2>3. Accounted => Accounted'
    BY <2>1, <2>2 DEF Accounted
  <2>4. RemovalsExplained'
    BY <2>1, <2>2 DEF LogInv, RemovalsExplained, Justified
  <2>. QED BY <1>0, <2>1, <2>3, <2>4 DEF LogInv
<1>. QED BY TranslationAssumption, <1>1, <1>2, <1>3, <1>4, <1>5, <1>6, <1>7 DEF Next

(* Each mapping a call drops has exactly one event that names a colliding  *)
(* mapping that ranked no lower, and the events never go in a circle, for  *)
(* all rules, graphs, scores and with or without a rescoring.              *)
THEOREM RemovalsAccounted == Spec => []RemovalsExplained
<1>1. Init => LogInv
  BY TranslationAssumption
     DEF Init, TypeOK, ResolutionInv, LogInv, RemovalsExplained
<1>2. LogInv /\ [Next]_vars => LogInv'
  BY LogStep
<1>3. LogInv => RemovalsExplained
  BY DEF LogInv
<1>. QED BY <1>1, <1>2, <1>3, PTL DEF Spec
=============================================================================
