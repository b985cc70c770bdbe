---------------------------- MODULE MappingReview ----------------------------
(***************************************************************************)
(* ReviewManager (translate/review.py): the semantic mappings of a         *)
(* translation are accepted, rejected, edited, split and merged by people, *)
(* and every decision is logged.                                           *)
(*                                                                         *)
(* An id is kept as what it was derived from, because ids are how one      *)
(* mapping overwrites another: `parts` names a mapping of the translation, *)
(* or the eight characters that a merge takes of each of its ids, and      *)
(* `splits` the suffixes _split_i.  The ids of the translation are longer  *)
(* than eight characters, so a suffix does not change the short form, and  *)
(* they are taken to begin with the same letter, so that all merged ids    *)
(* have one short form.                                                    *)
(***************************************************************************)
EXTENDS Integers, SequencesExt, FiniteSets

CONSTANTS
  Base,        \* mappings of the translation
  Short,       \* the first eight characters of their ids
  MergedShort, \* those of an id that a merge has made
  Nodes, Kinds, NoKind,
  Proposed,    \* kind, nodes and score of the mappings of the translation
  Full, Bonus, \* the scores 1.0 and 0.15
  Updates,     \* what edit_mapping is given: kind, nodes, score, tier
  Definitions, \* what split_mapping is given: sequences of kind and nodes
  MergedKinds, \* what merge_mappings is given
  MaxReviews   \* bound on the review log

NoScore == -1

ASSUME ReviewAssumption ==
  /\ Full \in Nat /\ Bonus \in Nat /\ MaxReviews \in Nat
  /\ NoKind \notin Kinds /\ MergedKinds \subseteq Kinds \cup {NoKind}
  /\ DOMAIN Short = Base
  /\ Proposed \in [Base -> [kind : Kinds, nodes : SUBSET Nodes, score : 0..Full]]
  /\ Updates \subseteq [kind : Kinds, nodes : SUBSET Nodes, score : {NoScore} \cup 0..Full,
                 tier : {"kept", "human", "automatic"}]
  /\ \A d \in Definitions : d \in Seq([kind : Kinds \cup {NoKind}, nodes : SUBSET Nodes])

VARIABLES
  mappings,  \* ReviewManager.mappings
  order,     \* the order of that dict
  history    \* ReviewManager.review_history

reviewVars == <<mappings, order, history>>

Id(b) == [parts |-> <<b>>, splits |-> <<>>]
Child(id, i) == [parts |-> id.parts, splits |-> Append(id.splits, i)]
ShortOf(id) == IF id.parts[1] \in Base THEN Short[id.parts[1]] ELSE MergedShort
Merged(ids) == [parts |-> [i \in DOMAIN ids |-> ShortOf(ids[i])], splits |-> <<>>]

Present(id) == id \in DOMAIN mappings

ReviewInit ==
  /\ mappings = [id \in {} |-> {}]
  /\ order = <<>>
  /\ history = <<>>

(* The elements of a sequence that are in a set, in their order.           *)
Filtered(s, S) ==
  LET at == {i \in DOMAIN s : s[i] \in S}
  IN  [k \in 1..Cardinality(at) |->
         s[CHOOSE i \in at : Cardinality({j \in at : j <= i}) = k]]

(* A dict keeps the place of a key that is stored again.                   *)
Appended(ids) == order \o Filtered(ids, ToSet(ids) \ DOMAIN mappings)

(* scored, lowered: what the old and the new values of an edit tell, that  *)
(* it set the score, and that it took the tier of a human review away.     *)
Log(action, ids, made, scored, lowered) ==
  history' = Append(history, [action |-> action, ids |-> ids, made |-> made,
                              scored |-> scored, lowered |-> lowered])

(* A mapping with another status and score; human: its tier says so.       *)
Decided(m, status, score, human) ==
  [kind |-> m.kind, nodes |-> m.nodes, score |-> score, human |-> human, status |-> status]

(* Whoever fills a manager adds every mapping once, before any review.     *)
AddMapping(b) ==
  /\ history = <<>> /\ ~Present(Id(b))
  /\ mappings' = [id \in DOMAIN mappings \cup {Id(b)} |->
       IF id = Id(b) THEN Decided(Proposed[b], "auto_proposed", Proposed[b].score, FALSE)
                     ELSE mappings[id]]
  /\ order' = Append(order, Id(b))
  /\ UNCHANGED history

(* Mutant: the sum is not capped.                                          *)
Uncapped(score) == score + Bonus
Capped(score) == IF score + Bonus > Full THEN Full ELSE score + Bonus

(* Mutant: the bonus is given with every acceptance.                       *)
AcceptAgain(id) ==
  /\ Present(id)
  /\ mappings' = [mappings EXCEPT ![id] = Decided(@, "accepted", Capped(@.score), TRUE)]
  /\ Log("accept", {id}, {}, FALSE, FALSE)
  /\ UNCHANGED order
Accept(id) ==
  /\ Present(id)
  /\ mappings' = [mappings EXCEPT ![id] =
       Decided(@, "accepted", IF @.human THEN @.score ELSE Capped(@.score), TRUE)]
  /\ Log("accept", {id}, {}, FALSE, FALSE)
  /\ UNCHANGED order

(* Mutant: a rejected mapping keeps its score.                             *)
RejectOnly(id) ==
  /\ Present(id)
  /\ mappings' = [mappings EXCEPT ![id] = Decided(@, "rejected", @.score, @.human)]
  /\ Log("reject", {id}, {}, FALSE, FALSE)
  /\ UNCHANGED order
Reject(id) ==
  /\ Present(id)
  /\ mappings' = [mappings EXCEPT ![id] = Decided(@, "rejected", 0, @.human)]
  /\ Log("reject", {id}, {}, FALSE, FALSE)
  /\ UNCHANGED order

(* updates may name any attribute; those that are used here are modelled.  *)
Edited(m, u) ==
  [kind |-> u.kind, nodes |-> u.nodes, status |-> "edited",
   human |-> IF u.tier = "kept" THEN m.human ELSE u.tier = "human",
   score |-> IF u.score = NoScore THEN m.score ELSE u.score]

Edit(id, u) ==
  /\ Present(id)
  /\ mappings' = [mappings EXCEPT ![id] = Edited(@, u)]
  /\ Log("edit", {id}, {}, u.score # NoScore, mappings[id].human /\ u.tier = "automatic")
  /\ UNCHANGED order

(* A mapping made by a person: no score is given to it.                    *)
ByHand(kind, nodes, status) ==
  [kind |-> kind, nodes |-> nodes, score |-> 0, human |-> TRUE, status |-> status]

Part(m, d) == ByHand(IF d.kind = NoKind THEN m.kind ELSE d.kind, d.nodes, "edited")

Children(id, defs) == [i \in DOMAIN defs |-> Child(id, i - 1)]

Split(id, defs) ==
  LET made == Children(id, defs)
  IN  /\ Present(id)
      /\ mappings' = [m \in DOMAIN mappings \cup ToSet(made) |->
           IF m \in ToSet(made)
           THEN Part(mappings[id], defs[CHOOSE i \in DOMAIN defs : made[i] = m])
           ELSE IF m = id THEN Decided(mappings[m], "split", mappings[m].score, mappings[m].human)
           ELSE mappings[m]]
      /\ order' = Appended(made)
      /\ Log("split", {id}, ToSet(made), FALSE, FALSE)

NodesOf(ids) == UNION {mappings[m].nodes : m \in ToSet(ids)}

(* Mutant: the mappings that were merged keep their status.                *)
MergeOnly(ids, kind) ==
  /\ \A i \in DOMAIN ids : Present(ids[i])
  /\ mappings' = [m \in DOMAIN mappings \cup {Merged(ids)} |->
       IF m = Merged(ids) THEN ByHand(kind, NodesOf(ids), "merged") ELSE mappings[m]]
  /\ order' = Appended(<<Merged(ids)>>)
  /\ Log("merge", ToSet(ids), {Merged(ids)}, FALSE, FALSE)
Merge(ids, kind) ==
  /\ \A i \in DOMAIN ids : Present(ids[i])
  /\ mappings' = [m \in DOMAIN mappings \cup {Merged(ids)} |->
       IF m = Merged(ids) THEN ByHand(kind, NodesOf(ids), "merged")
       ELSE IF m \in ToSet(ids)
       THEN Decided(mappings[m], "merged", mappings[m].score, mappings[m].human)
       ELSE mappings[m]]
  /\ order' = Appended(<<Merged(ids)>>)
  /\ Log("merge", ToSet(ids), {Merged(ids)}, FALSE, FALSE)

Review ==
  /\ Len(history) < MaxReviews
  /\ \E id \in DOMAIN mappings :
       \/ Accept(id) \/ Reject(id)
       \/ \E u \in Updates : Edit(id, u)
       \/ \E defs \in Definitions : Split(id, defs)
       \/ \E other \in DOMAIN mappings \ {id}, kind \in MergedKinds :
            Merge(<<id, other>>, kind)

ReviewNext == Review \/ \E b \in Base : AddMapping(b)

ReviewSpec == ReviewInit /\ [][ReviewNext]_reviewVars

Approved == {"accepted", "edited", "merged"}
Exported == Filtered(order, {id \in DOMAIN mappings : mappings[id].status \in Approved})

-----------------------------------------------------------------------------
(* Properties *)

Names == Base \cup {Short[b] : b \in Base} \cup {MergedShort}
Ids == [parts : Seq(Names), splits : Seq(Nat)]
Statuses == {"auto_proposed", "accepted", "rejected", "edited", "split", "merged"}
Mapping == [kind : Kinds \cup {NoKind}, nodes : SUBSET Nodes, score : 0..Full,
            human : BOOLEAN, status : Statuses]
Entry == [action : {"accept", "reject", "edit", "split", "merge"},
          ids : SUBSET Ids, made : SUBSET Ids, scored : BOOLEAN, lowered : BOOLEAN]

MappingsTyped ==
  /\ DOMAIN mappings \subseteq Ids
  /\ mappings \in [DOMAIN mappings -> Mapping]
  /\ history \in Seq(Entry)

(* Types.  Every stored mapping has a place in the order of the dict.      *)
ReviewTypeOK ==
  /\ MappingsTyped
  /\ order \in Seq(Ids) /\ ToSet(order) = DOMAIN mappings

Touches(e, id) == id \in e.ids \/ id \in e.made

(* The status that a log entry gives to a mapping it names.                *)
Gives(e, id) == CASE e.action = "accept" -> "accepted"
                  [] e.action = "reject" -> "rejected"
                  [] e.action = "edit"   -> "edited"
                  [] e.action = "merge"  -> "merged"
                  [] OTHER -> IF id \in e.made THEN "edited" ELSE "split"

(* The review log explains every status: a mapping that nobody touched is  *)
(* as the translation proposed it, and any other has the status that the   *)
(* last entry naming it gives, even if splits and merges have derived its  *)
(* id twice and overwritten it in between.                                 *)
AuditTrail == \A id \in DOMAIN mappings :
  \/ /\ mappings[id].status = "auto_proposed"
     /\ \A i \in DOMAIN history : ~Touches(history[i], id)
  \/ \E i \in DOMAIN history :
       /\ Touches(history[i], id) /\ mappings[id].status = Gives(history[i], id)
       /\ \A j \in DOMAIN history : j > i => ~Touches(history[j], id)

Rescored(id) == \E i \in DOMAIN history : history[i].scored /\ id \in history[i].ids

(* The reviews that took the tier of a human review from a mapping.        *)
Lowered(id) == {i \in DOMAIN history : history[i].lowered /\ id \in history[i].ids}

(* However often a mapping is accepted, rejected, edited and accepted      *)
(* again, the bonus is given once for every time that it becomes human     *)
(* reviewed: unless an edit has set its score, that is at most what the    *)
(* translation proposed and one bonus, and one more for each edit that     *)
(* took the tier away and let the next acceptance give the bonus again.    *)
ScoreBounded == \A b \in Base :
  Present(Id(b)) /\ ~Rescored(Id(b)) =>
    mappings[Id(b)].score <= Proposed[b].score + Bonus * (1 + Cardinality(Lowered(Id(b))))
=============================================================================
