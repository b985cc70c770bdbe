---------------------------- MODULE MCCuratedModel ----------------------------
(* A small instance of CuratedModel for TLC: a state and an observation on *)
(* nodes that overlap; edits make an action and a preference of them, and  *)
(* the first takes the tier of a human review away.                        *)
EXTENDS CuratedModel

CONSTANTS a, b

TwoMappings == {a, b}
Shorts == [m \in Base |-> IF m = a THEN "aa" ELSE "bb"]
TwoNodes == {1, 2}
FewKinds == {"hidden_state", "observation", "preference", "action"}
Proposals == [m \in Base |->
  IF m = a THEN [kind |-> "hidden_state", nodes |-> {1}, score |-> 70]
           ELSE [kind |-> "observation", nodes |-> {1, 2}, score |-> 90]]
FewUpdates == {[kind |-> "action", nodes |-> {2}, score |-> NoScore, tier |-> "automatic"],
               [kind |-> "preference", nodes |-> {2}, score |-> 95, tier |-> "kept"]}
FewSplits == {<<[kind |-> NoKind, nodes |-> {1}], [kind |-> "observation", nodes |-> {2}]>>,
              <<[kind |-> "hidden_state", nodes |-> {1, 2}]>>}
HiddenOrNone == {"hidden_state", NoKind}
TwoEdges == {[s |-> 2, t |-> 1, kind |-> "writes"], [s |-> 1, t |-> 2, kind |-> "observes"]}
=============================================================================
