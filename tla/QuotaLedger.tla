---------------------------- MODULE QuotaLedger -----------------------------
(***************************************************************************)
(* What the billing ledger promises of one workspace, with no lock and no  *)
(* transaction: a charge happens at once, pays exactly the lines of its    *)
(* pair not yet paid in the period, and never takes the use of its window  *)
(* above the quota it was granted under.  UsageLedger implements it.       *)
(***************************************************************************)
EXTENDS BillingPeriods

CONSTANTS
  Pairs,         \* purchase order and invoice pairs
  MaxLines,      \* bound on the lines of a purchase order
  Quotas,        \* the quotas an entitlement may grant
  NoLimit,       \* the quota of an exempt workspace, and with enforcement off
  NoCharge

VARIABLES
  paid,          \* lines paid, by pair and period start
  used,          \* use summed over each window, by kind
  lastCharge     \* the window and the quota of the latest charge

Kinds == {"matched_line", "photo_check"}

\* One more row of quantity n and kind k at time t, as each window sums it.
Added(k, t, n) == [used EXCEPT ![k] =
  [w \in Windows |-> IF Covers(w, t) THEN @[w] + n ELSE @[w]]]

\* A charge of n under one quota or none, which it records.
Grant(k, w, n) == \E limit \in Quotas \cup {NoLimit} :
  /\ lastCharge' = [kind |-> k, window |-> w, limit |-> limit]
  /\ limit # NoLimit => used[k][w] + n <= limit

\* Pays for the lines of p not yet paid in the period of w.
ChargePair(p, w, n) ==
  LET due == n - paid[<<p, w.start>>] IN
  /\ due > 0
  /\ paid' = [paid EXCEPT ![<<p, w.start>>] = n]
  /\ \E t \in Times : used' = Added("matched_line", t, due)
  /\ Grant("matched_line", w, due)

ChargePhoto(w) ==
  /\ Grant("photo_check", w, 1)
  /\ \E t \in Times : used' = Added("photo_check", t, 1)
  /\ UNCHANGED paid

Init ==
  /\ paid = [k \in Pairs \X Starts |-> 0]
  /\ used = [k \in Kinds |-> [w \in Windows |-> 0]]
  /\ lastCharge = NoCharge

Next == \E w \in Windows :
  \/ \E p \in Pairs, n \in 1..MaxLines : ChargePair(p, w, n)
  \/ ChargePhoto(w)

Spec == Init /\ [][Next]_<<paid, used, lastCharge>>
=============================================================================
