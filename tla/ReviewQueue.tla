----------------------------- MODULE ReviewQueue -----------------------------
(***************************************************************************)
(* What the comparisons of one order and invoice promise their reviewers:  *)
(* they see one verdict at a time, a later one replaces an earlier one,    *)
(* and a flag belongs to whoever closed it first.                          *)
(***************************************************************************)
EXTENDS Naturals

CONSTANTS Flags, Reviewers, Nobody

VARIABLES
  shown,         \* the comparison whose flags are current, 0 for none
  doubted,       \* comparisons that were given up although they may succeed
  closedBy       \* who closed each flag

Init == shown = 0 /\ doubted = {} /\ closedBy = [f \in Flags |-> Nobody]

Publish ==
  /\ shown' \in Nat /\ shown' > shown
  /\ doubted \subseteq doubted'
  /\ UNCHANGED closedBy

Doubt ==
  /\ doubted \subseteq doubted'
  /\ UNCHANGED <<shown, closedBy>>

\* Only a comparison that was given up takes its verdict back.
Withdraw ==
  /\ shown \in doubted
  /\ shown' \in Nat /\ shown' < shown
  /\ UNCHANGED <<doubted, closedBy>>

Close(f, u) ==
  /\ closedBy[f] = Nobody
  /\ closedBy' = [closedBy EXCEPT ![f] = u]
  /\ UNCHANGED <<shown, doubted>>

Next == Publish \/ Doubt \/ Withdraw \/ \E f \in Flags, u \in Reviewers : Close(f, u)

Spec == Init /\ [][Next]_<<shown, doubted, closedBy>>
=============================================================================
