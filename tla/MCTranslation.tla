---------------------------- MODULE MCTranslation ----------------------------
(* Small instances of Translation for TLC. *)
EXTENDS Translation, TLC

CONSTANTS low, high, n1, n2

TwoPriorities == (low :> 0) @@ (high :> 1)

(* Two rules that emit one id in common, with and without a filter, and    *)
(* two that emit one mapping each.                                         *)
Emissions ==
  {[active |-> {low, high}, emits |-> (low :> {1, 2}) @@ (high :> {2, 3})],
   [active |-> {low}, emits |-> (low :> {1, 2, 3}) @@ (high :> {2})],
   [active |-> {low, high}, emits |-> (low :> {3}) @@ (high :> {1})]}

Graph(e, f, s) ==
  [active |-> e.active, emits |-> e.emits, fragment |-> f,
   score |-> s, rescored |-> [i \in Ids |-> 3 - s[i]]]

InputsOver(fragments) ==
  {Graph(e, f, s) : e \in Emissions, f \in [Ids -> fragments], s \in [Ids -> {1, 2}]}

AllFragments == {<<n1>>, <<n2>>, <<n1, n2>>, <<n2, n2>>}
AllInputs == InputsOver(AllFragments)
FewInputs == InputsOver({<<n1>>, <<n1, n2>>})
=============================================================================
