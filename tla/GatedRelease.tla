---------------------------- MODULE GatedRelease ----------------------------
(***************************************************************************)
(* What the product promises about anything that leaves the firm           *)
(* (compliance/reviewGate.ts:1-17): an item is submitted, a lawyer decides *)
(* it exactly once, and only an item that was granted is ever released.    *)
(* A grant is never withdrawn and a refusal is never reversed.             *)
(***************************************************************************)
CONSTANT Item

VARIABLES
  verdict,    \* what the lawyers have decided about each item
  released    \* the items that have left the firm, at least once

Init ==
  /\ verdict = [i \in Item |-> "absent"]
  /\ released = {}

Submit(i) ==
  /\ verdict[i] = "absent"
  /\ verdict' = [verdict EXCEPT ![i] = "open"]
  /\ UNCHANGED released

Decide(i) ==
  /\ verdict[i] = "open"
  /\ \E v \in {"granted", "refused"} : verdict' = [verdict EXCEPT ![i] = v]
  /\ UNCHANGED released

Release(i) ==
  /\ verdict[i] = "granted"
  /\ released' = released \cup {i}
  /\ UNCHANGED verdict

Next == \E i \in Item : Submit(i) \/ Decide(i) \/ Release(i)

vars == <<verdict, released>>

Spec == Init /\ [][Next]_vars

=============================================================================
