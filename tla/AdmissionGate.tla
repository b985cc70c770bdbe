---------------------------- MODULE AdmissionGate ----------------------------
(***************************************************************************)
(* What the service promises its clients, whatever its internals: a        *)
(* request gets at most one answer; a request of an expensive route is     *)
(* served only inside one of a fixed number of slots; from outside it is   *)
(* told the service is busy only when every slot is taken; and it gives    *)
(* its slot back in the step that answers it.                              *)
(***************************************************************************)
EXTENDS Integers, FiniteSets

CONSTANTS Requests, Statuses, None, Slots

VARIABLES
  kind,        \* "unknown" until the request arrives
  inside,      \* requests that hold a slot
  answer       \* the status each request was answered, None before

gateVars == <<kind, inside, answer>>

AtHeaders == {400, 413}
AtGate == {401, 413, 429}
Refusals == AtHeaders \cup AtGate

Init ==
  /\ kind = [r \in Requests |-> "unknown"]
  /\ inside = {}
  /\ answer = [r \in Requests |-> None]

Reply(r, S) ==
  /\ answer[r] = None
  /\ \E s \in S : answer' = [answer EXCEPT ![r] = s]

Arrive(r) ==
  /\ kind[r] = "unknown"
  /\ \E k \in {"cheap", "expensive"} : kind' = [kind EXCEPT ![r] = k]
  /\ UNCHANGED answer \/ Reply(r, AtHeaders)
  /\ UNCHANGED inside

Serve(r) ==
  /\ kind[r] = "cheap"
  /\ Reply(r, Statuses)
  /\ UNCHANGED <<kind, inside>>

Refuse(r) ==
  /\ kind[r] = "expensive" /\ r \notin inside
  /\ Reply(r, Refusals)
  /\ UNCHANGED <<kind, inside>>

RefuseBusy(r) ==
  /\ kind[r] = "expensive" /\ r \notin inside
  /\ Cardinality(inside) = Slots
  /\ Reply(r, {503})
  /\ UNCHANGED <<kind, inside>>

Enter(r) ==
  /\ kind[r] = "expensive" /\ r \notin inside
  /\ answer[r] = None
  /\ Cardinality(inside) < Slots
  /\ inside' = inside \cup {r}
  /\ UNCHANGED <<kind, answer>>

Leave(r) ==
  /\ r \in inside
  /\ Reply(r, Statuses \ AtGate)
  /\ inside' = inside \ {r}
  /\ UNCHANGED kind

Next ==
  \E r \in Requests :
    \/ Arrive(r) \/ Serve(r) \/ Refuse(r) \/ RefuseBusy(r)
    \/ Enter(r) \/ Leave(r)

Spec == Init /\ [][Next]_gateVars
=============================================================================
