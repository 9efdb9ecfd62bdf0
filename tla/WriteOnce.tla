------------------------------ MODULE WriteOnce ------------------------------
(***************************************************************************)
(* What the verifier's registry promises its callers: a cell that one      *)
(* publisher fills and nobody changes afterwards.  A publisher either wins *)
(* with its value, loses because the cell is full, or is rejected for its  *)
(* own arguments without any effect on the cell.                           *)
(***************************************************************************)
CONSTANTS Publishers, Values, NoValue

VARIABLES cell, outcome

vars == <<cell, outcome>>

Init ==
  /\ cell = NoValue
  /\ outcome = [p \in Publishers |-> "pending"]

Win(p) ==
  /\ outcome[p] = "pending"
  /\ cell = NoValue
  /\ cell' \in Values
  /\ outcome' = [outcome EXCEPT ![p] = "won"]

Lose(p) ==
  /\ outcome[p] = "pending"
  /\ cell # NoValue
  /\ outcome' = [outcome EXCEPT ![p] = "lost"]
  /\ UNCHANGED cell

Reject(p) ==
  /\ outcome[p] = "pending"
  /\ outcome' = [outcome EXCEPT ![p] = "rejected"]
  /\ UNCHANGED cell

Next == \E p \in Publishers : Win(p) \/ Lose(p) \/ Reject(p)

Spec == Init /\ [][Next]_vars
=============================================================================
