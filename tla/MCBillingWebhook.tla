-------------------------- MODULE MCBillingWebhook --------------------------
(* Two subscriptions of w1: s1 changes once it is paid, and its events may  *)
(* name w2.                                                                *)
EXTENDS BillingWebhook, TLC

CONSTANTS s1, s2, w1, w2

OneForeign == {[kind |-> "foreign", sub |-> s1, ws |-> w1, at |-> 0, until |-> 0]}

BothOfW1 == s1 :> w1 @@ s2 :> w1

Changes == s1 :> 2 @@ s2 :> 1
=============================================================================
