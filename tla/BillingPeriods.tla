--------------------------- MODULE BillingPeriods ---------------------------
(***************************************************************************)
(* The windows over which a workspace's usage is summed (plans.ts,         *)
(* entitlement.service.ts): the UTC calendar month, and the trial.  Time is *)
(* counted in days; months have one length.  A trial window may straddle   *)
(* two months.                                                             *)
(***************************************************************************)
EXTENDS Integers

CONSTANTS
  MaxTime,       \* bound on time
  MonthLength,   \* days in a month
  TrialStart,    \* trial_ends_at minus TRIAL_DAYS
  TrialEnd       \* trial_ends_at

ASSUME TimesAreNatural ==
  /\ MaxTime \in Nat
  /\ MonthLength \in Nat \ {0}
  /\ TrialStart \in Nat
  /\ TrialEnd \in Nat

Times == 0..MaxTime

\* currentMonthPeriod(): [start, end) of the month that contains t.
Month(t) == LET first == t - (t % MonthLength) IN
              [start |-> first, end |-> first + MonthLength]

Trial == [start |-> TrialStart, end |-> TrialEnd]

Windows == {Month(t) : t \in Times} \cup {Trial}

\* start <= occurred_at < end, in every sum over a window.
Covers(w, t) == w.start <= t /\ t < w.end

Starts == {w.start : w \in Windows}
=============================================================================
