--------------------------- MODULE BillingWebhook ---------------------------
(***************************************************************************)
(* Subscription events from the payment provider, and the one row each     *)
(* workspace has for them (billing-webhook.service.ts).  Events arrive     *)
(* late, in any order, more than once and concurrently; every delivery is  *)
(* recorded by its hash, then processed, the row being written in a        *)
(* transaction that holds the workspace's advisory lock.                   *)
(*                                                                         *)
(* An event and a row are [sub, ws, at, until]: `at` is the provider's     *)
(* updated_at; `until` stands for status and ends_at, as isEntitledStatus() *)
(* reads them: Forever for active, past_due and on_trial, ends_at for      *)
(* cancelled, 0 for every other status.                                    *)
(***************************************************************************)
EXTENDS Integers

CONSTANTS
  Handlers,     \* deliveries that may be in progress at once
  Workspaces,
  Subs,         \* subscriptions at the provider
  Home,         \* the workspace whose members buy each subscription
  NoEvent,
  NoRow,
  Others,       \* deliveries that no row is to be written from: see Kinds
  Rebound,      \* subscriptions whose events may name another workspace
  MaxTime,      \* bound on the clock
  MaxChanges,   \* bound on the events of each subscription
  BadConfigs,   \* environments the API may be started with by mistake
  MaxFaults     \* bound on failures of the database and on those mistakes

\* invoice: not a subscription event; stray: of another store; foreign: a variant and a
\* workspace binding that are not ours; unbound: our variant, no valid binding; invalid:
\* ours, but an unknown workspace or an impossible number of seats.  A variant of ours
\* that is not mapped to a plan is BadConfigs' "wrong variant".
Kinds == {"ours", "invoice", "stray", "foreign", "unbound", "invalid"}

Ours(e) == e.kind = "ours"

ASSUME Bounds == MaxTime \in Nat /\ MaxFaults \in Nat /\ MaxChanges \in [Subs -> Nat]
ASSUME HomeKnown == Home \in [Subs -> Workspaces]

VARIABLES
  now,       \* the clock, the provider's and ours
  ls,        \* each subscription as the provider has it
  sent,      \* the distinct deliveries the provider has made or will make
  config,    \* LEMONSQUEEZY_STORE_ID and _VARIANT_*, as the API was started with
  stored,    \* billing_events, by body_sha256
  done,      \* those with processed_at
  rejected,  \* those of them with the reason of a rejection in last_error
  row,       \* workspace_subscriptions
  pc,        \* what each delivery in progress has reached
  event,     \* its event
  seen,      \* the row it has read under the lock
  faults

handlers == <<pc, event, seen>>
books == <<stored, done, rejected>>
vars == <<now, ls, sent, config, stored, done, rejected, row, pc, event, seen, faults>>

Forever == MaxTime + 1
Times == 0..MaxTime
Untils == 0..Forever
Configs == BadConfigs \cup {"right"}

Event == [kind : Kinds, sub : Subs, ws : Workspaces, at : Times, until : Untils]
Row == [sub : Subs, at : Times, until : Untils]

ASSUME OthersKnown == Others \subseteq {e \in Event : ~Ours(e)}
ASSUME ConfigsKnown == BadConfigs \subseteq {"no store", "no variants", "wrong variant"}
ASSUME NoRowFresh == NoRow \notin Row

\* isEntitledStatus()
Entitled(r) == now < r.until

Holds(w, s) == row[w] # NoRow /\ row[w].sub = s

-----------------------------------------------------------------------------

Init ==
  /\ now = 0
  /\ ls = [s \in Subs |-> [at |-> 0, until |-> 0, changes |-> 0]]
  /\ sent = Others \* the store is shared, and sends more than subscriptions
  /\ config = "right"
  /\ stored = {} /\ done = {} /\ rejected = {}
  /\ row = [w \in Workspaces |-> NoRow]
  /\ pc = [h \in Handlers |-> "idle"]
  /\ event = [h \in Handlers |-> NoEvent]
  /\ seen = [h \in Handlers |-> NoRow]
  /\ faults = 0

Tick ==
  /\ now < MaxTime
  /\ now' = now + 1
  /\ UNCHANGED <<ls, sent, config, books, row, handlers, faults>>

-----------------------------------------------------------------------------
(* The provider *)

\* A checkout is paid, or its subscription cancelled, resumed, paused...  Two
\* changes may carry the same updated_at.  createCheckout() is refused while the
\* row is entitled, but a checkout opened earlier can be paid at any time.
Change(s) == \E u \in Untils, w \in Workspaces :
  /\ ls[s].changes < MaxChanges[s]
  /\ u = 0 \/ u > now
  /\ ls[s].changes = 0 => u = Forever
  /\ w = Home[s] \/ s \in Rebound
  /\ ls' = [ls EXCEPT ![s].at = now, ![s].until = u, ![s].changes = @ + 1]
  /\ sent' = sent \cup {[kind |-> "ours", sub |-> s, ws |-> w, at |-> now, until |-> u]}
  /\ UNCHANGED <<now, config, books, row, handlers, faults>>

-----------------------------------------------------------------------------
(* handle() *)

Goto(h, label) ==
  /\ pc' = [pc EXCEPT ![h] = label]
  /\ UNCHANGED <<event, seen>>

\* The request is answered, or dies.
Answer(h) ==
  /\ pc' = [pc EXCEPT ![h] = "idle"]
  /\ event' = [event EXCEPT ![h] = NoEvent]
  /\ seen' = [seen EXCEPT ![h] = NoRow]

\* processed_at is set, and last_error to the reason or to null.
Close(h, reason) ==
  /\ done' = done \cup {event[h]}
  /\ rejected' = IF reason THEN rejected \cup {event[h]} ELSE rejected \ {event[h]}
  /\ UNCHANGED stored

\* Mutant of Receive: a body that is on record is acknowledged.
ReceiveOnce(h) == \E e \in sent \ stored :
  /\ pc[h] = "idle"
  /\ stored' = stored \cup {e}
  /\ event' = [event EXCEPT ![h] = e]
  /\ pc' = [pc EXCEPT ![h] = "process"]
  /\ UNCHANGED <<now, ls, sent, config, done, rejected, row, seen, faults>>

\* A delivery or a resend: insert, on conflict do nothing.  An event with
\* processed_at is acknowledged, which changes nothing; any other is processed,
\* again if need be.
Receive(h) == \E e \in sent \ done :
  /\ pc[h] = "idle"
  /\ stored' = stored \cup {e}
  /\ event' = [event EXCEPT ![h] = e]
  /\ pc' = [pc EXCEPT ![h] = "process"]
  /\ UNCHANGED <<now, ls, sent, config, done, rejected, row, seen, faults>>

-----------------------------------------------------------------------------
(* process() and upsert() *)

PlanKnown(e) == config = "right" /\ e.kind # "foreign"
Bound(e) == e.kind \in {"ours", "invalid"}

\* RetryableFailure: no store, or no plan for an event of our store that may be ours.
Retryable(e) ==
  /\ e.kind # "invoice"
  /\ \/ config = "no store"
     \/ e.kind # "stray" /\ ~PlanKnown(e) /\ (Bound(e) \/ config = "no variants")

\* No row is written: the event is ignored, or a TerminalRejection.
NotOurs(h) ==
  /\ pc[h] = "process"
  /\ ~Ours(event[h]) /\ ~Retryable(event[h])
  /\ Close(h, event[h].kind # "invoice") /\ Answer(h)
  /\ UNCHANGED <<now, ls, sent, config, row, faults>>

\* Answered with 500, to be resent.
Misconfigured(h) ==
  /\ pc[h] = "process"
  /\ Retryable(event[h])
  /\ Answer(h)
  /\ UNCHANGED <<now, ls, sent, config, books, row, faults>>

Elsewhere(e) == \E w \in Workspaces \ {e.ws} : Holds(w, e.sub)

\* Mutant of CheckElsewhere: processed_at is stamped before the transaction.
CheckElsewhereStamped(h) ==
  /\ pc[h] = "process"
  /\ Ours(event[h]) /\ ~Retryable(event[h])
  /\ Close(h, Elsewhere(event[h]))
  /\ IF Elsewhere(event[h]) THEN Answer(h) ELSE Goto(h, "lock")
  /\ UNCHANGED <<now, ls, sent, config, row, faults>>

\* The check for another workspace's row, before the transaction.
CheckElsewhere(h) ==
  /\ pc[h] = "process"
  /\ Ours(event[h]) /\ ~Retryable(event[h])
  /\ IF Elsewhere(event[h])
     THEN Close(h, TRUE) /\ Answer(h)
     ELSE Goto(h, "lock") /\ UNCHANGED books
  /\ UNCHANGED <<now, ls, sent, config, row, faults>>

\* Mutant of Free: no lock.
FreeAlways(w) == TRUE

\* pg_advisory_xact_lock: no other transaction for the workspace is open.
Free(w) == \A g \in Handlers : pc[g] = "write" => event[g].ws # w

\* The lock, then the current row.
Begin(h) ==
  /\ pc[h] = "lock"
  /\ Free(event[h].ws)
  /\ pc' = [pc EXCEPT ![h] = "write"]
  /\ seen' = [seen EXCEPT ![h] = row[event[h].ws]]
  /\ UNCHANGED <<now, ls, sent, config, books, row, event, faults>>

Stale(h) == seen[h] # NoRow /\ event[h].at < seen[h].at

Occupied(h) == seen[h] # NoRow /\ seen[h].sub # event[h].sub /\ Entitled(seen[h])

Reject(h) ==
  /\ pc[h] = "write"
  /\ Stale(h) \/ Occupied(h)
  /\ Close(h, TRUE) /\ Answer(h)
  /\ UNCHANGED <<now, ls, sent, config, row, faults>>

RowOf(e) == [sub |-> e.sub, at |-> e.at, until |-> e.until]

\* The row and processed_at, in one transaction.
Upsert(h) ==
  /\ pc[h] = "write"
  /\ ~Stale(h) /\ ~Occupied(h)
  /\ ~Elsewhere(event[h])
  /\ row' = [row EXCEPT ![event[h].ws] = RowOf(event[h])]
  /\ Close(h, FALSE) /\ Answer(h)
  /\ UNCHANGED <<now, ls, sent, config, faults>>

\* ls_subscription_id is unique: the insert fails, the transaction rolls back.
Duplicate(h) ==
  /\ pc[h] = "write"
  /\ ~Stale(h) /\ ~Occupied(h)
  /\ Elsewhere(event[h])
  /\ Answer(h)
  /\ UNCHANGED <<now, ls, sent, config, books, row, faults>>

\* A statement fails: 500, and no processed_at.
Fail(h) ==
  /\ faults < MaxFaults /\ faults' = faults + 1
  /\ pc[h] # "idle"
  /\ Answer(h)
  /\ UNCHANGED <<now, ls, sent, config, books, row>>

\* The API is restarted with another environment; the right one is always found.
Configure(c) ==
  /\ c # config
  /\ IF c = "right" THEN UNCHANGED faults ELSE faults < MaxFaults /\ faults' = faults + 1
  /\ config' = c
  /\ pc' = [h \in Handlers |-> "idle"]
  /\ event' = [h \in Handlers |-> NoEvent]
  /\ seen' = [h \in Handlers |-> NoRow]
  /\ UNCHANGED <<now, ls, sent, books, row>>

-----------------------------------------------------------------------------

Step(h) ==
  \/ NotOurs(h) \/ Misconfigured(h) \/ CheckElsewhere(h)
  \/ Begin(h) \/ Reject(h) \/ Upsert(h) \/ Duplicate(h)

Next ==
  \/ Tick
  \/ \E s \in Subs : Change(s)
  \/ \E h \in Handlers : Receive(h) \/ Step(h) \/ Fail(h)
  \/ \E c \in Configs : Configure(c)

Spec == Init /\ [][Next]_vars

\* Requests run; the environment is mended; while some event has no
\* acknowledgement, one of those is sent again, by the provider or by hand.
Fairness ==
  /\ \A h \in Handlers : WF_vars(Step(h))
  /\ WF_vars(Configure("right"))
  /\ WF_vars(\E h \in Handlers : Receive(h))

FairSpec == Spec /\ Fairness

-----------------------------------------------------------------------------
(* Properties *)

TypeOK ==
  /\ now \in Times
  /\ ls \in [Subs -> [at : Times, until : Untils, changes : Nat]]
  /\ \A s \in Subs : ls[s].changes <= MaxChanges[s]
  /\ sent \subseteq Event
  /\ config \in Configs
  /\ stored \subseteq sent /\ done \subseteq stored /\ rejected \subseteq done
  /\ row \in [Workspaces -> Row \cup {NoRow}]
  /\ pc \in [Handlers -> {"idle", "process", "lock", "write"}]
  /\ event \in [Handlers -> Event \cup {NoEvent}]
  /\ seen \in [Handlers -> Row \cup {NoRow}]
  /\ faults \in 0..MaxFaults
  /\ \A h \in Handlers : pc[h] # "idle" => event[h] \in stored

\* An event recorded as applied, without a rejection, is in its workspace's row
\* or was superseded there by one that is not older, whatever failed: processed_at
\* never runs ahead of the row.
AppliedIsKept == \A e \in done \ rejected :
  Ours(e) => row[e.ws] # NoRow /\ row[e.ws].at >= e.at

Forward == \A w \in Workspaces :
  row[w] # NoRow => row'[w] # NoRow /\ row'[w].at >= row[w].at

\* A row is never written from an older event, of its own or another
\* subscription, however deliveries overlap.
NeverOlder == [][Forward]_row

Kept == \A w \in Workspaces :
  row[w] # NoRow /\ Entitled(row[w]) => row'[w] # NoRow /\ row'[w].sub = row[w].sub

\* While a workspace's subscription entitles it, no other one takes its place.
EntitledKept == [][Kept]_row

\* Every delivery is acknowledged in the end, through failures, restarts, bad
\* configurations and duplicates.
Settles == <>[](sent \subseteq done)
=============================================================================
