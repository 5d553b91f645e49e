---------------------------- MODULE UsageLedger -----------------------------
(***************************************************************************)
(* Metered requests of one workspace (billing-gate.service.ts): each reads *)
(* its entitlement (entitlement.service.ts), then charges the append-only  *)
(* ledger in a transaction that holds the workspace's advisory lock        *)
(* (usage-ledger.service.ts).  The subscription may change, and the month  *)
(* may end, between those two.                                             *)
(*                                                                         *)
(* usage_events is represented by the sums the code reads from it: the     *)
(* rows of a pair and period (`paid`), and the rows in a window (`used`).  *)
(***************************************************************************)
EXTENDS BillingPeriods

CONSTANTS
  Requests,      \* calls of the gate: each is one comparison or photo search
  NoRequest,
  Pairs,         \* purchase order and invoice pairs
  NoPair,        \* a photo check has none
  MaxLines,      \* bound on the lines of a purchase order
  Quotas,        \* the quotas of the plans on sale
  TrialQuota,    \* what a trial grants
  NoLimit,       \* `limit: null`
  NoCharge,      \* nothing charged yet
  Enforced       \* BILLING_ENFORCEMENT=on

ASSUME QuotasNatural == Quotas \subseteq Nat /\ TrialQuota \in Quotas /\ NoLimit \notin Quotas
\* A workspace exists from the start of its trial.
ASSUME TrialInside == TrialStart \in Times /\ TrialStart < TrialEnd
ASSUME LinesNatural == MaxLines \in Nat
ASSUME EnforcedBoolean == Enforced \in BOOLEAN
ASSUME NoRequestFresh == NoRequest \notin Requests
ASSUME NoPairFresh == NoPair \notin Pairs

VARIABLES
  now,           \* the app's clock
  req,           \* each request's progress and what it has read
  lock,          \* the request that holds pg_advisory_xact_lock
  paid,          \* lines paid, by pair and period start
  used,          \* use summed over each window, by kind
  lastCharge,    \* history: the window and the quota of the latest charge
  asked          \* history: the most lines any request asked for, by the same key

vars == <<now, req, lock, paid, used, lastCharge, asked>>

Kinds == {"matched_line", "photo_check"}
Keys == Pairs \X Starts

-----------------------------------------------------------------------------
(* Entitlement *)

\* What load() reads of a workspace.  The webhook and the operators may change
\* it at any time, so a read may find any of these.  isEntitledStatus() is a
\* function of the clock: a cancelled subscription counts until its ends_at, an
\* active one beyond every bound, an expired one never did.
Account == [exempt : BOOLEAN, entitledUntil : 0..MaxTime + 1, quota : Quotas]

\* load(): exempt, else subscribed, else trialing, else none.
StateAt(a, t) ==
  CASE a.exempt -> "exempt"
    [] ~a.exempt /\ t < a.entitledUntil -> "subscribed"
    [] ~a.exempt /\ t >= a.entitledUntil /\ t < TrialEnd -> "trialing"
    [] OTHER -> "none"

QuotaOf(a, state) ==
  CASE state = "subscribed" -> a.quota
    [] state = "trialing" -> TrialQuota
    [] OTHER -> NoLimit

\* windowOf()
WindowOf(state, t) == IF state = "trialing" THEN Trial ELSE Month(t)

-----------------------------------------------------------------------------
(* The ledger *)

\* Rows of the pair in the period: `starts_with(idempotency_key, prefix)`.
Key(r) == <<req[r].pair, req[r].window.start>>
PaidFor(r) == paid[Key(r)]

\* A row of quantity n, as each window sums it.
Added(k, t, n) == [used EXCEPT ![k] =
  [w \in Windows |-> IF Covers(w, t) THEN @[w] + n ELSE @[w]]]

Due(r) == IF req[r].kind = "matched_line" THEN req[r].lines - req[r].counted ELSE 1

-----------------------------------------------------------------------------

IdleRequest == [pc |-> "idle", kind |-> "photo_check", pair |-> NoPair, lines |-> 0,
                at |-> 0, window |-> Trial, limit |-> NoLimit, counted |-> 0]

Init ==
  /\ now = TrialStart
  /\ req = [r \in Requests |-> IdleRequest]
  /\ lock = NoRequest
  /\ paid = [k \in Keys |-> 0]
  /\ used = [k \in Kinds |-> [w \in Windows |-> 0]]
  /\ lastCharge = NoCharge
  /\ asked = [k \in Keys |-> 0]

Tick ==
  /\ now < MaxTime
  /\ now' = now + 1
  /\ UNCHANGED <<req, lock, paid, used, lastCharge, asked>>

\* assertMatchedLines() and assertPhotoCheck(): `now` is read once, here.
Arrive(r) ==
  /\ req[r].pc = "idle"
  /\ \/ \E p \in Pairs, n \in 1..MaxLines :
          req' = [req EXCEPT ![r] = [@ EXCEPT
                    !.pc = "resolve", !.kind = "matched_line", !.pair = p, !.lines = n, !.at = now]]
     \/ req' = [req EXCEPT ![r] = [@ EXCEPT !.pc = "resolve", !.at = now]]
  /\ UNCHANGED <<now, lock, paid, used, lastCharge, asked>>

\* Reads the entitlement, outside the lock.  With enforcement off it is not read,
\* the window is the month and nothing is limited.
Resolve(r) == \E a \in Account :
  LET state == IF Enforced THEN StateAt(a, req[r].at) ELSE "exempt"
      w == WindowOf(state, req[r].at)
      key == <<req[r].pair, w.start>>
  IN
  /\ req[r].pc = "resolve"
  /\ state # "none"
  /\ req' = [req EXCEPT ![r] = [@ EXCEPT
               !.pc = "lock", !.window = w, !.limit = QuotaOf(a, state)]]
  /\ asked' = IF req[r].kind = "matched_line" /\ asked[key] < req[r].lines
              THEN [asked EXCEPT ![key] = req[r].lines] ELSE asked
  /\ UNCHANGED <<now, lock, paid, used, lastCharge>>

\* 402: no entitlement, or (a photo check) the AI budget is spent.
Stop(r) ==
  /\ Enforced
  /\ req[r].pc = "resolve"
  /\ \/ \E a \in Account : StateAt(a, req[r].at) = "none"
     \/ req[r].kind = "photo_check"
  /\ req' = [req EXCEPT ![r].pc = "stopped"]
  /\ UNCHANGED <<now, lock, paid, used, lastCharge, asked>>

\* Mutant of TakeLock: the transaction does not take the advisory lock.
TakeNoLock(r) ==
  /\ req[r].pc = "lock"
  /\ lock' = r
  /\ req' = [req EXCEPT ![r].pc = IF req[r].kind = "matched_line" THEN "count" ELSE "sum"]
  /\ UNCHANGED <<now, paid, used, lastCharge, asked>>

\* pg_advisory_xact_lock().  A photo check has a fresh key: there is no earlier
\* row of its own to count.
TakeLock(r) ==
  /\ req[r].pc = "lock"
  /\ lock = NoRequest
  /\ lock' = r
  /\ req' = [req EXCEPT ![r].pc = IF req[r].kind = "matched_line" THEN "count" ELSE "sum"]
  /\ UNCHANGED <<now, paid, used, lastCharge, asked>>

\* The transaction ends, and its lock with it.
Leave(r, outcome) ==
  /\ req' = [req EXCEPT ![r].pc = outcome, ![r].counted = 0]
  /\ lock' = NoRequest

\* reservePairLines(): the pair's rows already pay for these lines, or fewer are
\* paid and the rest is due.
CountPaid(r) ==
  /\ req[r].pc = "count"
  /\ PaidFor(r) < req[r].lines
  /\ req' = [req EXCEPT ![r] = [@ EXCEPT !.pc = "sum", !.counted = PaidFor(r)]]
  /\ UNCHANGED <<now, lock, paid, used, lastCharge, asked>>

AlreadyPaid(r) ==
  /\ req[r].pc = "count"
  /\ PaidFor(r) >= req[r].lines
  /\ Leave(r, "through")
  /\ UNCHANGED <<now, paid, used, lastCharge, asked>>

\* Mutant of CheckQuota: the window's sum alone is compared with the quota.
CheckQuotaSoFar(r) ==
  /\ req[r].pc = "sum"
  /\ req[r].limit # NoLimit => used[req[r].kind][req[r].window] <= req[r].limit
  /\ req' = [req EXCEPT ![r].pc = "insert"]
  /\ UNCHANGED <<now, lock, paid, used, lastCharge, asked>>

\* The window's sum leaves room, or there is no limit to check.
CheckQuota(r) ==
  /\ req[r].pc = "sum"
  /\ req[r].limit # NoLimit => used[req[r].kind][req[r].window] + Due(r) <= req[r].limit
  /\ req' = [req EXCEPT ![r].pc = "insert"]
  /\ UNCHANGED <<now, lock, paid, used, lastCharge, asked>>

OverQuota(r) ==
  /\ req[r].pc = "sum"
  /\ req[r].limit # NoLimit
  /\ used[req[r].kind][req[r].window] + Due(r) > req[r].limit
  /\ Leave(r, "stopped")
  /\ UNCHANGED <<now, paid, used, lastCharge, asked>>

\* The first row of a pair and period carries the bare prefix as its key, which
\* is unique: a second such row is dropped by `on conflict do nothing`.
Conflict(r) == req[r].kind = "matched_line" /\ req[r].counted = 0 /\ PaidFor(r) > 0

InsertRow(r) ==
  LET q == req[r] IN
  /\ q.pc = "insert"
  /\ paid' = IF q.kind = "matched_line" /\ ~Conflict(r)
             THEN [paid EXCEPT ![Key(r)] = @ + Due(r)] ELSE paid
  /\ used' = IF Conflict(r) THEN used ELSE Added(q.kind, q.at, Due(r))
  /\ lastCharge' = IF Conflict(r) THEN lastCharge
                   ELSE [kind |-> q.kind, window |-> q.window, limit |-> q.limit]
  /\ Leave(r, "through")
  /\ UNCHANGED <<now, asked>>

\* A database error rolls the transaction back: refused when enforced, let
\* through uncounted (bestEffort) when not.
Abort(r) ==
  /\ req[r].pc \in {"count", "sum", "insert"}
  /\ Leave(r, IF Enforced THEN "stopped" ELSE "through")
  /\ UNCHANGED <<now, paid, used, lastCharge, asked>>

Next ==
  \/ Tick
  \/ \E r \in Requests : \/ Arrive(r) \/ Resolve(r) \/ Stop(r) \/ TakeLock(r)
                         \/ CountPaid(r) \/ AlreadyPaid(r) \/ CheckQuota(r)
                         \/ OverQuota(r) \/ InsertRow(r) \/ Abort(r)

Spec == Init /\ [][Next]_vars

-----------------------------------------------------------------------------
(* Properties *)

InTransaction == {"count", "sum", "insert"}

Request == [pc : {"idle", "resolve", "lock", "through", "stopped"} \cup InTransaction,
            kind : Kinds, pair : Pairs \cup {NoPair}, lines : 0..MaxLines, at : Times,
            window : Windows, limit : Quotas \cup {NoLimit}, counted : Nat]

TypeOK ==
  /\ now \in Times
  /\ req \in [Requests -> Request]
  /\ lock \in Requests \cup {NoRequest}
  /\ paid \in [Keys -> Nat]
  /\ used \in [Kinds -> [Windows -> Nat]]
  /\ asked \in [Keys -> Nat]
  /\ lastCharge \in {NoCharge} \cup
       [kind : Kinds, window : Windows, limit : Quotas \cup {NoLimit}]

\* No pair is charged twice for a line: what is paid in a period never exceeds
\* the largest line count any comparison of the pair asked for in that period.
NeverOvercharged == \A k \in Keys : paid[k] <= asked[k]

\* With enforcement on, a comparison that was let through is paid for.
ThroughIsPaid == Enforced => \A r \in Requests :
  req[r].pc = "through" /\ req[r].kind = "matched_line" => PaidFor(r) >= req[r].lines

\* A charge never takes the use of the window it was checked in above the quota
\* it was granted under, however many requests are in flight.
ChargeWithinQuota == [][used' # used /\ lastCharge'.limit # NoLimit
  => used'[lastCharge'.kind][lastCharge'.window] <= lastCharge'.limit]_vars

\* The locked transactions implement charges that happen at once.
Atomic == INSTANCE QuotaLedger
ImplementsAtomic == Atomic!Spec
=============================================================================
