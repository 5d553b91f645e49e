# Optra: TLA+ models of the API's core

Optra (`apps/api`, NestJS over Postgres, Redis and an object store; `apps/web`,
Next.js) compares a buyer's purchase orders with the invoices and goods receipts that
answer them, keeps catalogues and contract prices of vendors, and answers questions
from documents, tickets and crawled sites. This directory holds the TLA+ modules that
model those parts, the TLC runs that check them, and the TLAPS proofs about them.

Paths below are relative to `apps/api/src/` unless they start with `apps/`, `docs/` or
`packages/`.

## 1. The system

| Component | State it keeps | Operations | Hard behaviours | What makes it correct |
|---|---|---|---|---|
| Upload and parse queue (`procurement/procurement-documents.service`, `-parse.service`, `-parse.processor`) | header rows (status, `queue_job_id`, stamps), line rows, Bull jobs | upload, queueDoc, handleParse, reconcile (boot and every 5 minutes), remove | attempts that outlive their timeout, jobs redelivered or lost, a sweep acting on what it read earlier | a document settles; it is not requeued for ever |
| Review (`procurement/procurement-review.service`) | `reviewed_at`, edited lines | list, page image, confirm | two confirmations, a re-parse under the reviewer | confirmed once |
| Automatic comparison (`procurement/procurement-compare.service`, `-compare.processor`) | Bull jobs named by pair and input version | enqueueForDocument, handlePair, reconcile | documents that settle in any order, stale freshness checks, coalescing, retries | every comparable pair gets a verdict on its current lines; no redundant runs |
| Comparison runs, flags, review queue, export (`procurement/comparison.service`) | runs, flags, decisions | compare, list, export, dismiss, decide | reads spread over statements, overlapping runs, ordering by insertion time, batches | verdicts rest on what was read; later ones replace earlier ones; the trail matches the flags |
| Match engine and contract prices (`procurement/comparison.service`, `catalog/vendor-price-terms.service`) | vendor price terms | COMPARISON_SQL, contractPriceFlags, create | unstated numbers, units, items on one side only, terms that abut, two terms recorded at once | accuses by evidence, is silent only on agreement |
| Usage ledger and gate (`billing/usage-ledger.service`, `billing-gate.service`, `entitlement.service`, `plans`) | append-only `usage_events` | reserve, reservePairLines, recordLlmCost, resolve | concurrent charges, a period that ends mid-request, failed writes | never over quota, never twice, nothing unpaid |
| Subscription webhook (`billing/billing-webhook.service`) | `billing_events`, one subscription row per workspace | handle | late, repeated and reordered events, two subscriptions | the row follows the newest event; every event is acknowledged |
| Authentication (`auth`) | users, codes, refresh tokens, Redis counters | register, verify, resend, login, refresh, logout, change password | guesses and refreshes at once, mails that fail, attempts at the limit | the limits hold; one heir per token; ended sessions stay ended |
| Session of the browser (`apps/web/middleware.ts`, `apps/web/src/lib/api/client.ts`) | two cookies, a shared promise per page | navigate, call, refresh | pages and navigations renewing one token | nobody is signed out for nothing |
| Workspaces (`workspaces/workspaces.service`) | members, invitations | invite, accept, remove | accept twice, remove while accepting | an owner remains; who is removed is out |
| Chat and answer cache (`chat/chat.service`, `cache/cache.service`) | Redis answers and pgvector rows under a version | ask, bump version | an answer computed before a change and stored after it | no answer from before an announced change |
| Ingest, crawls, tickets (`ingest`, `documents`, `scrape`, `tickets`) | a row with a status each, chunks, Bull jobs under fixed ids | queue, process, remove, edit, reconcile at boot | late handlers, ids that are kept, checks before inserts, restarts | the index follows the rows; every row settles; outcomes stay |
| Catalogues and matches (`catalog`) | catalogue headers and items, verdicts | upload, parse, search, dismiss | writes outside transactions, overlapping searches, items replaced under them | done means parsed once; verdicts are lost only to better ones |
| Crawler (`packages/ai/src/web`) | queue, visited set, results, limiter | crawl | concurrent pages that link to each other | each page once, none overlooked, no slot lost |
| AI budget (`limits/usage.service`, `billing/billing-gate.service`, `chat`) | Redis tokens, `llm_cost` rows | assert, metered, record | checks before and charges after a call | overspending is bounded, every use is priced |
| FAQ drafts (`insights/faq-*`) | drafts, runs, documents made of them | weekly run, approve, reject | retried runs, two reviewers | a ticket is drafted once, a draft decided once |
| Datasets, digests, rate limits, notifications, search, storage, knowledge bases, AI package otherwise, web application otherwise, tooling | see `PROJECT.json` | single calls, formatting, pure I/O | few | not modelled |

How they interact. An upload writes a header and adds a parse job. The parse job
replaces the lines and calls `enqueueForDocument()`; so does a confirmation. That
resolves the pairs the document can have changed and adds compare jobs. A compare
job, or a user, runs `compare()`, which asks the billing gate before it writes its
run. Documents, tickets and crawled pages change one index; whoever changes it
announces it to the answer cache. Every model call passes the budget. Periodic sweeps,
or a reconciliation as the process starts, repair what a crash left behind. All calls
between services are in-process; the only queues are Bull's, and the only shared state
is Postgres, Redis and the object store.

`PROJECT.json` lists every component, and under `hazards` what is hard to test in
this code, at its line, with the properties that cover it.

## 2. Modules

| Module | Models |
|---|---|
| `PairCompare`, `PairCompareProofs` | automatic and manual comparison of one order with its invoices and receipts; proofs |
| `MatchEngine` | what one comparison flags, over every small order, invoice and receipt |
| `PriceTerms` | the recording of contract prices, and the check of an order against them |
| `OrderChecks` | composes the two; a behaviour is one comparison, or the recording of terms |
| `ReviewQueue` | what runs of a pair promise their reviewers (abstract) |
| `RunHistory`, `RunHistoryProofs` | overlapping runs, the sweep, dismissals, decisions, the export; implements `ReviewQueue`; proofs |
| `DocumentParse` | the life of one uploaded document: upload, parse attempts, sweep, review |
| `CatalogParse` | the life of one catalogue, over the steps of `DocumentParse` |
| `ParseJobs` | composes the two |
| `BillingPeriods` | the windows usage is summed over |
| `QuotaLedger` | what the ledger promises: charges that happen at once (abstract) |
| `UsageLedger`, `UsageLedgerProofs` | metered requests and the locked transactions; implements `QuotaLedger`; proofs |
| `BillingWebhook`, `BillingWebhookProofs` | deliveries of subscription events, and each workspace's subscription row; proofs |
| `AuthSessions` | one account: codes, sign-ins, refresh tokens |
| `WebSession` | the pages of one browser and the session they share |
| `Membership` | invitations and members of one workspace |
| `Accounts`, `AccountsProofs` | composes the three; proofs |
| `AnswerCache` | the two caches and the questions that read and fill them |
| `DocumentIngest`, `TicketReview`, `CrawlRuns` | a document, a ticket and the crawls of a site, each over `AnswerCache` |
| `Knowledge`, `KnowledgeProofs` | composes the four; proofs |
| `SiteCrawl` | one crawl under its limiter |
| `CatalogMatches` | verdicts of the vision model, searches, dismissals, replaced items |
| `Sourcing` | composes the two |
| `IntakeProofs` | proofs about `ParseJobs` and `Sourcing` |
| `AiBudget` | model calls against a budget in two stores |
| `FaqDrafts` | the weekly drafts and their review |
| `AiJobs` | composes the two |
| `ChecksProofs` | proofs about `OrderChecks` and `AiJobs`, which share the lemmas about sums |
| `MC*` | the modules TLC runs: values of constants, symmetry sets, views |

Composition. A composing module takes its parts by EXTENDS or INSTANCE and says what they
share. `PairCompare` interleaves the writers of documents with the comparisons that read
them, and `CatalogParse` the queue of `DocumentParse` with the items. The parts of
`ParseJobs`, `OrderChecks`, `Accounts`, `Sourcing` and `AiJobs` share no state;
interleaving them would only multiply their states, so a behaviour follows one of them,
named by a variable (`focus`, `kind`, `check`). The parts of `Knowledge` meet in the index and its
cache: a document, a ticket, the crawls and the questions each run against that shared
state and against restarts of the process, one of them per behaviour, and the questions
against changes by any author (Change, Announce).

### PairCompare

`doc` holds each document's header: `status` (`unsettled` is pending or
processing), `at` (`updated_at`), whether a human must still confirm it, and a
counter that names the version of its lines. `writer` is the parse job or the
review writing it; `updatedAt: new Date()` (Stamp) and the transaction that stores
it (CommitLines) are separate steps, because the code takes the time first.
`queue` is Bull's set of compare jobs, `handler` what each running comparison has
read, and `runs` the table `comparison_runs`.

A comparison reads the order and the invoice (LoadPair), then the receipts
(ReadReceipts), then writes its run with the database's `now()` (InsertRun), then
ends (Succeed, Fail). A document may be written between any two of these.
`overlap`, `known` and `tied` are history: the documents whose write was in flight
while the run read, the runs that had succeeded when its job was checked, and
whether an input was stamped in the run's own millisecond.

Abstractions. The reads of one resolution of pairs are one step, and so are the
additions of its jobs, the reads of one document's header and lines, and the reads
of the freshness check; jobs of different invoices commute. `strategy_version` is
constant. A document has one writer at a time (DocumentParse has overlapping
writers). What the match engine computes is in `MatchEngine`.

### MatchEngine and PriceTerms

`MatchEngine` draws an order, an invoice and receipts in its initial states, line by
line, and computes the flags as `COMPARISON_SQL` does: lines are grouped by SKU, or by
description where there is none, or stand alone; sums are unknown as soon as one line
leaves its quantity unstated; units are compared within and across sides; `FlagType` is
the `CASE`, arm by arm, and `flags` what `toFlag` keeps of a row. Folding of case and
blanks is left out (a name stands for its spellings), numbers are integers.

`PriceTerms` follows `create()` call by call: the open term of the agreement is read,
closed and the new one inserted by separate statements, a second call in between. `Judge`
is `contractPriceFlags()` over the terms live on an order's day.

### RunHistory and ReviewQueue

A comparison is modelled from the insertion of its run: its transaction begins and
takes its time (`stamp`, the flags' `created_at`), and commits flags and status together
under the lock of the order's row. The sweep selects runs first and fails them by id
later. Dismiss is one conditional transaction, a decision reads its flag first and
closes it if it is still open. The export reads batches by a cursor on (created_at, id).

`ReviewQueue` promises that later verdicts replace earlier ones, that only a run which
was given up takes its verdict back, and that a flag stays its first closer's.
`RunHistory` implements it with `shown` as the latest run that succeeded and `closedBy`
read off the flags. `doubted` holds the runs that were given up although they may yet
succeed: selected by the sweep, or committed with the answer lost.

### DocumentParse and CatalogParse

`row` is one photo document's header and the origin of its lines, `queue` its
parse jobs (the id of a job is the requeue count, the suffix `:rN` of
`queue_job_id`), `parse` what each attempt has reached, `sweep` what a run of
`reconcile()` has read. Header updates are unconditional, by id, as in the code;
only the claim of a review has a condition. Bull's timeout rejects the job and
leaves the handler running: `owns` becomes FALSE, and the attempt is counted on the
object the handler holds. Time is not counted: a row that is unsettled may be found
stale at any moment, which covers every delay of the queue.

Parsing is an outcome. The transactions of a review and of
`replaceLineItemsAndFinish()` are one step each: they write the same rows, so they
are serialised by row locks or one of them aborts. Age, the reads of a sweep
(Select, Check) and its writes are separate steps.

The catalogue's service is, in its own words, a single-kind mirror of the document's, so
`CatalogParse` takes the queue, the attempts and the sweep from `DocumentParse` by
INSTANCE and replaces what differs: items are deleted, inserted and the header is
finished by three statements outside a transaction.

### UsageLedger and QuotaLedger

`usage_events` is represented by the sums the code reads from it: `paid` (rows of a
pair and period) and `used` (rows in a window). A request reads the clock
(Arrive), its entitlement (Resolve, which may find any subscription, since the
webhook and operators change it at any time), takes the advisory lock (TakeLock),
counts, sums and inserts (CountPaid, CheckQuota, InsertRow); the transaction ends
with the lock. With enforcement off no entitlement is read, nothing is limited, and
a failed write lets the request through uncounted.

`hashtext()` may map two workspaces to one lock: that only makes them wait. One
workspace is modelled. Quotas are per plan; photo checks and matched lines use the
same set of quotas. The AI budget is a possible refusal only; `AiBudget` has it.

### BillingWebhook

`sent` is the set of distinct bodies the provider has made: any of them may be
delivered at any time, in any order, again, and several at once. `stored`, `done`
and `rejected` are `billing_events`, by hash: recorded, with `processed_at`, with
the reason of a rejection. A delivery is recorded (Receive), checked against the
environment and the other workspaces' rows outside any transaction (NotOurs,
Misconfigured, CheckElsewhere), then takes the workspace's advisory lock and reads
its row (Begin), and writes the row and `processed_at` together (Reject, Upsert).
The unique index on `ls_subscription_id` turns a write that slipped past
CheckElsewhere into a failure (Duplicate). Any statement may fail (Fail), and the
API may be restarted with another environment (Configure), which ends every
request.

Abstractions. `status` and `ends_at` are one number, the moment the entitlement
ends, which is what `isEntitledStatus()` makes of them. A resend of a processed body
changes nothing and is left out. Recording a body and finding it recorded are one
step. Deliveries that no row is to be written from are the constant `Others`, of one
kind for each way `process()` and `upsert()` tell them apart; the run has a foreign one,
the theorems any. An event of ours without a readable `updated_at`
(`billing-webhook.service.ts:203`) is left out: it is answered with 500 as often as it is
sent, and writes nothing. The events of a
subscription in `Rebound` may name different workspaces, the case the "belongs to
another workspace" refusal is for. A checkout is refused while the row entitles its
workspace, but one opened earlier can still be paid, so a first payment may come at
any time. `last_error` of a failure, and the plan, seats and customer columns, are
left out. `UsageLedger` does not EXTEND this module: it lets the entitlement change to
anything at any moment, which covers every history of the row.

### AuthSessions, WebSession and Membership

`AuthSessions` is one account: its row, its codes in the order of their creation, its
refresh tokens, the two Redis counters, and requests that stand between two statements.
A guess first reserves an attempt by a conditional update, then compares, then claims
the account in a transaction that checks `is_verified` again; a resend inserts a new
code, mails it, and then retires the old ones, or kills the new one if the mail fails.
`refresh()` reads a token, then rotates it in a transaction that does not look at it
again; a revoked token ends every session. Timestamps compared with the present are
flags that lapse at any moment. `era`, `late` and `raced` are history.

`WebSession` is the other side of `refresh()`: pages of one browser share the cookies,
but the promise that makes the calls of a page share a refresh is the page's. It keeps
its own short model of the API's `refresh()` (`live`), which is the interface the two
modules have in common. `Membership` has the invitations and member rows of one
workspace, the checks of `acceptInvite()` and `removeMember()` and their later writes as
steps of their own.

### AnswerCache, DocumentIngest, TicketReview, CrawlRuns and Knowledge

`AnswerCache` counts the changes of the index (`epoch`) and remembers the last that was
announced (`floor`). A question reads the version for the exact cache, again for the
semantic one, again when it misses, and a fourth time when `setExact()` files the
answer; each read and each write is a step. An answer is the epoch it was computed from.

`DocumentIngest` has a document, the one job its id allows, handlers that outlive a
timeout, the removal, and `reconcileDocuments()` at boot. `TicketReview` has a ticket,
its extraction, overlapping edits that hold the row they read, and the chunk that is to
follow the row. `CrawlRuns` has the runs of a site, the requests that look for one in
flight before they insert one, the handler, the listener of the queue and
`reconcileRuns()`. The writes of those that publish may be refused as those of the
handlers may: a crawler counts the page as failed and goes on, an upload goes on to mark
its document failed, `create()` and `startScrape()` fail (`MarkQueued`, `MarkRefused`,
`QueueUpdate`, `WriteRefused`), and what is left without a job is recorded (`orphaned`,
`abandoned`, `forsaken`). A listener's `failRun` that is refused is awaited by nobody,
and so is a restart of the process. Every change of the index is followed by BumpVersion, which may fail
and is then forgotten (`unannounced`). `Knowledge` adds the restart of the process, which
drops handlers, requests and listeners and begins a reconciliation.

### SiteCrawl, CatalogMatches and Sourcing

`SiteCrawl` is the loop of `crawl()`: batches from the queue, concurrent fetches under a
limiter that serves its waiting list first come first served, and links put back while
the rest of the batch is under way. The site is not fixed: a page's links are chosen
when it answers, so one run covers every site of that size. `CatalogMatches` has
searches that choose candidates, ask the model (an outcome) and then replace the
verdicts in their scope in one transaction, users who dismiss, reviews that edit the text
of a line, and the parses that replace the items under them. A text is the set of items it
is found in; which item matches is otherwise free. A request of `SiteCrawl` is one
`fetchWithRetry()`, which may ask the site three times; `FetchedOnce` counts those.

### AiBudget, FaqDrafts and AiJobs

`AiBudget` follows `metered()`, calls that only the ledger counts, and the chat's stream,
which charges in another order: checks (CheckCap, CheckTokens), use, the end of the call,
and the charges (AddUsage, Record) are steps of their own, and the month may turn
between any two. Tokens and dollars are one number. `FaqDrafts` has the weekly job with
Bull's retries, runs that read which tickets are drafted before they write, and
approvals that store a document between reading and marking a draft.

## 3. Runs

| Run | Question | Result |
|---|---|---|
| `pair_compare` | Is a pair called up to date only when its latest run read the current lines; is every comparable pair compared; does automation repeat runs? With a user comparing by hand, or under two deaths, timeouts or refusals. | holds, with the exceptions each property names |
| `pair_torn` | Is `started_at` the moment the inputs were read? | violated |
| `order_checks` | Does a comparison accuse by evidence only, and is its silence agreement? Is an order held against the one price that can apply? | holds |
| `match_missing` | Does every missing-side flag carry the value of the side that is present? | violated for an item that is on a receipt only |
| `run_history` | Do overlapping runs, the sweep and reviewers keep the promises of `ReviewQueue`; does the audit trail match; is an export complete? | holds |
| `usage_ledger` | Are charges exact, within quota, and as if they happened at once? | holds |
| `billing_webhook` | Does the row ever go back, is it taken over while it entitles, is a processed event ever lost, is every delivery acknowledged? | holds |
| `parse_jobs` | Is a document confirmed once; does a catalogue that is done hold its items once; does either settle? | holds |
| `accounts` | Do the limits on codes hold, are sessions ended for good, is a browser kept signed in, do owners stay, as one member, and removed members go? | holds, with the races each property names |
| `knowledge` | Are answers current, does the index follow its rows, does every row settle, is there one crawl of a site, and do outcomes stay? | holds, with the exceptions each property names |
| `sourcing` | Is each page crawled once and none overlooked; do searches take away only what they replace? | holds |
| `ai_jobs` | By how much may a cap be exceeded, is every use priced, is a ticket drafted and a draft decided once? | holds |

`FreshUnlessOverlapped` is the freshness guarantee the code does give: the one
exception is a write in flight while the run reads, and `pair_torn` shows that this
exception is needed. `ComparedAtRest` speaks of the moments when nothing runs any
more; it excepts a receipt that failed to parse, a follow-up that was lost or refused,
and a job that failed for good. `SettledAtRest` does the same for documents, tickets and
crawls: it excepts failed jobs that are kept under their id, rows that lost their job to a
death of the process, and rows the database would not let be queued, or be marked as
refused. `NoRedundantRun` excepts runs that start in the
millisecond of an input's stamp. Where another property excepts a race, the race is
recorded by a history variable at the step where it happens, and section 6 says what the
code does then. The `TypeOK` of a module states the shape of its state; those that are
proved are listed in section 4.

### Bounds

- `pair_compare`: one order, one invoice and one photo receipt, the smallest case with
  a document that is neither side of the pair; two workers, so that two jobs of the
  pair overlap; three ticks and two runs, enough for a document to be stamped before,
  in and after the tick in which a run starts. A behaviour has a user and no fault, or
  two faults and no user, so that a job can be delivered twice and fail for good.
- `order_checks`: every order, invoice and receipts of up to three lines together, of an
  item with a SKU, one with a description and one with neither, quantities and prices of
  two values or none and two units or none: an item can be split, be missing on any side
  or disagree in every column. Terms: two calls at once, three terms of four agreements,
  three days, so that a term abuts both another and the order's day, and one failure.
- `run_history`: two comparisons and two reviewers that overlap, two lines, verdicts of
  none and both, an export that needs a batch per flag, two requests, one death or lost
  answer.
- `usage_ledger`: three requests of one pair or of photo checks, months of two days and
  a trial across two of them, quotas of 1 and 2 against up to 2 lines: the quota is met
  exactly and exceeded, and the same pair is charged in three periods.
- `billing_webhook`: two deliveries at once, which is what the lock is about; two
  subscriptions of one workspace and two changes of the first, so that an event can be
  older than the row, by the same or by the other subscription, and tie with it; a
  second workspace the first subscription may name; a foreign delivery; two instants;
  one failure or one bad environment, in which a delivery is refused and resent.
- `parse_jobs`: two attempts that may overlap, one sweep at a time, two attempts per job
  and one requeue where the code has three and two, and two faults for a document, one
  for a catalogue, so that a late attempt meets a second one and a requeue is lost. One
  reviewer is enough for confirmations that overlap: the claim is one step, and the
  request may be repeated from the same screen.
- `accounts`: two requests of one account with every limit at one, two codes, three
  tokens, one ending of all sessions and one fault; two pages with two calls each, three
  tokens, one lost answer; three users, two requests, three invitations, four member
  rows.
- `knowledge`: two handlers, two contents and two attempts (the code has three) of a
  document; two overlapping edits and three texts of a ticket; two requests and three
  crawls; two questions at once, three in all, over two changes of the index; two faults
  or restarts, among which a refused write of a publisher counts: one leaves a row
  without a job, two also refuse to record that the queue refused it.
- `sourcing`: five pages, one barred and none foreign (the theorem has any of either), depth two, at most three pages, two at once, which
  allows batches of mixed depth and a full limiter; two overlapping searches, three in
  all, of a line for the items of two vendors, one of which is parsed again, and two texts
  of the line, one of which not every item fits.
- `ai_jobs`: two callers, a cap of 2 and a token budget of 3 against uses of 1 and 2, two
  months, four calls, one fault; two weekly jobs over four tickets of two topics, two
  workers, two reviewers, two attempts, one fault.

Symmetry is used for names that nothing else tells apart, and in runs without liveness
properties only. Two runs have a VIEW. `accounts`: once the account is verified, codes
matter only to requests in progress, and a revoked token no longer shows when it
expired or which era it began in. `knowledge`: a cached answer under a version that no
question holds or can still read is not told apart from none. Every action and every
property reads the viewed part alone.

Every run sets `CHECK_DEADLOCK FALSE`: clocks, runs, requests and faults are bounded,
everything may be settled, and a system with nothing to do may stop.

### Fairness

`ParseJobs` assumes weak fairness of the upload's second write, of a row growing stale,
of each worker and of the sweep, for either kind of file. Time passes; the sweep is a
repeatable Bull job and also runs at boot; a process that is up goes on; and its
calls return or throw in the end. Nothing is assumed of users, and faults need
never happen but are bounded.

`BillingWebhook` assumes weak fairness of each request in progress, of mending the
environment, and of some unacknowledged event being delivered: the provider retries
what was not answered with 200 for days, and after that the runbook
(`docs/ops/billing.md` section 6) has an operator press Resend on it.

The other specifications state no fairness: their properties are safety. That a
document, a ticket and a crawl settle is stated of the states at rest
(`SettledAtRest`), because the code repairs them only as the process starts, and
nothing makes it start again.

## 4. Proofs

Proved for every value of the constants:

| Module | Theorem | States |
|---|---|---|
| `PairCompareProofs` | `PairSafe`, `PairTyping` | `Spec => []PairInv`, `Spec => []TypeOK` |
| | `FreshSafe` | `Spec => []FreshUnlessOverlapped` |
| | `RunsAdvance` | `Spec => []NoRedundantRun` |
| | `AllCompared` | `Spec => []ComparedAtRest` |
| `RunHistoryProofs` | `RunsImplementQueue` | `Spec => ImplementsQueue` |
| | `TrailKept` | `Spec => []TrailMatches` |
| | `ExportsComplete` | `Spec => []ExportComplete` |
| | `ExportGoesOn` | an export that is reading has a next batch |
| `UsageLedgerProofs` | `Typing` | `Spec => []TypeOK` |
| | `NoDoubleCharge` | `Spec => []NeverOvercharged` |
| | `NothingUnpaid` | `Spec => []ThroughIsPaid` |
| | `WithinQuota` | `Spec => ChargeWithinQuota` |
| | `Refinement` | `Spec => ImplementsAtomic` |
| `BillingWebhookProofs` | `WebhookTyping` | `Spec => []TypeOK` |
| | `AppliedKept` | `Spec => []AppliedIsKept` |
| | `RowNeverOlder` | `Spec => NeverOlder` |
| | `EntitledNotReplaced` | `Spec => EntitledKept` |
| `IntakeProofs` | `ParseTyping` | `Spec => []TypeOK` (of `DocumentParse`) |
| | `OneConfirmation` | `Spec => []ConfirmedOnce` (of `DocumentParse`) |
| | `ItemsOnce` | `JobsSpec => []DoneHoldsItemsOnce` |
| | `CrawlsExactly` | `SourcingSpec => []CrawlExact` |
| | `MissesNothing` | `SourcingSpec => []NothingMissed` |
| | `OneVerdictHolds` | `SourcingSpec => []OneVerdict` |
| | `VerdictsStay` | `SourcingSpec => VerdictsKept` |
| `AccountsProofs` | `AccountSafe`, `BrowserSafe` | `AccountsSpec => []AuthInv`, `AccountsSpec => []WebInv` |
| | `CodesSafe` | `AccountsSpec => []CodesGuarded` |
| | `SessionsSafe` | `AccountsSpec => []SessionsGuarded` |
| | `BrowserStays` | `AccountsSpec => []BrowserKept` |
| | `MembersFollowed`, `MembersSafe` | `AccountsSpec => Spec`, `Spec => []MembersInv` (of `Membership`) |
| | `KeepsOwner` | `Spec => []OwnerKept` |
| | `ServesOnce` | `Spec => []SingleUseUnlessCrossed` |
| | `RemovedStaysOut` | `Spec => RemovedIsOut` |
| `KnowledgeProofs` | `AnswersCurrent` | `Spec => []AnswersAreCurrent` |
| | `IndexIsTrue` | `Spec => []IndexFollows` |
| | `NothingStuck` | `Spec => []SettledAtRest` |
| | `CrawledOnce` | `Spec => []OneCrawl` |
| | `OutcomesKept` | `Spec => OutcomeKept` |
| `ChecksProofs` | `BudgetTyping` | `AiJobsSpec => []TypeOK` |
| | `CapKept` | `AiJobsSpec => []CapHolds` |
| | `PricedOnce` | `AiJobsSpec => []Priced` |
| | `DraftsSafe` | `AiJobsSpec => []DraftsExact` |
| | `AccusedByEvidence` | `ChecksSpec => []AccusesByEvidence` |
| | `QuestionsStay` | `ChecksSpec => []ReceiptNeverClears` |
| | `SilenceIsAgreement` | `ChecksSpec => []SilenceAgrees` |
| | `OneTermAtMost` | `ChecksSpec => []OneTermApplies` |
| | `PastStays` | `ChecksSpec => PastKept` |

None of these properties is inductive as it stands, the types apart. What each
inductive invariant adds, and why:

**PairCompare.** `PairInv` has eight parts. `Timed`: nothing is dated after now, and a job
is due after the version it was enqueued for. `Routed`: a handler at the engine has a run
of its own, inserted after the version of its job. `Fresh` is
`FreshUnlessOverlapped` followed through the reading: what a handler has read of a
document is the document's lines, or a write of it overlaps the reading; for a run, or the
document has been stamped since. It has to speak of the writer that holds its stamp and
has yet to write, because `extracted_at` is taken before the lines are. `Grown`: nobody
has read lines yet to be written. `Advancing` carries `NoRedundantRun`: an input stamped in
a run's millisecond or later has lines the run has not read (`Passed`), so whoever
starts for that input reads, or is about to read, more than every run it knew of
(`Outreads`, `Outread`); without faults, what is done stays done while it is being read
(`Steady`). `AllAttended` is `ComparedAtRest` before rest: a pair that is
owed a comparison has been compared, its job failed for good, or a writer, a list of
pairs or a queued job as new as its documents will see to it. That `InputVersion` is the stamp of
one of the documents, and the newest (`NewestInput`), follows from the well-foundedness
of `<` on the naturals.

**RunHistory.** `Inv` says that comparisons in progress own distinct runs (`Owned`); that
such a run has neither flags nor success before its commit, and that a comparison which
is about to record a failure does so over a success only after its commit's answer was
lost (`Unwritten`); that the sweep fails only what it gave up (`GivenUp`); and how
decisions and closed flags belong together (`Trail`). A commit then makes the latest
successful run no smaller and touches no closed flag (`CommittedRun`), a failure takes
back a doubted run only (`FailedRun`), so every step is a step of `ReviewQueue` or a
stutter. That a finite set of run numbers has a greatest one (`MaxIsGreatest`) follows
from the well-foundedness of `<` on the naturals.

The export needs `ExportInv` beside it: the rows read are flags that are there, none
twice, none after the cursor (`Read`), and a flag that has matched from the start is among
the rows or comes after the cursor (`Reached`). The cursor is on the date and the id of a
flag, so a batch strictly passes what was read before; a flag keeps its place because its
run's date changes only when the run commits, when it has no flags yet (`DatesKept`, from
`Unwritten`). A batch that is not full has as many rows as the rest and no row twice,
hence all of the rest (`LastBatch`).

**UsageLedger.** The inductive invariant
`Inv` adds what the advisory lock buys: only its holder is inside a transaction
(`Exclusive`), a request that charges a pair names one (`Named`) and has counted less
than it asks for (`Counting`), what the holder counted is still what is paid
(`Accurate`), and after the check the window still has room for what is due (`Room`).
With `Accurate` an insertion pays exactly up to the lines asked for, which gives
`NeverOvercharged` and `ThroughIsPaid`; with `Room` it stays within the quota; with
both, an insertion is the abstract charge and every other step leaves the abstract
state alone. Without the lock, `Exclusive` is lost and the proof fails at TakeLock;
TLC finds the double charge too (the mutant `TakeNoLock`).

**BillingWebhook.** `IInv` adds two facts to the type and `AppliedIsKept`: of the
requests inside a transaction no two name one workspace (`Exclusive`), and the row
such a request has read is still the row (`SeenIsRow`). `SeenIsRow` makes the
comparison with what was read a comparison with what is replaced, from which both
action properties follow; it survives another request's write because of
`Exclusive`. `AppliedIsKept` follows from `RowNeverOlder`'s argument and from the row
and `processed_at` being written together. The model looks at the clock in the step
that writes, the code just before: an entitlement that had ended when it was
looked at does not come back before the write.

**ParseJobs.** Of a document, `IInv` adds that what a sweep is about to queue is below the
cap on requeues and that an attempt which answers its job has not been counted twice
(`Capped`), from which no job id passes `MAX_RECONCILE_REQUEUES`; and that `reviewed_at`
is the record of the one confirmation (`Recorded`). Of a catalogue, `CatalogInv` says
that until attempts overlap there is one at a time, the header is not done while it
reads and writes, and the items are what its last statement made of them (`Single`): none
after the deletion, one copy after the insertion.

**Sourcing.** `CrawlInv`: a page waits or is crawled in one place only and was queued
(`Apart`); one that was requested is on its way and waits nowhere (`Requested`), hence a
page is requested once; what was announced is among the results or found in the batch, and
the batch fits what is left of the limit, so that collecting it cuts nothing off
(`Returned`); the pages that wait for the limiter wait there once each, and only while its
slots are all taken (`Slots`). `NothingMissed` needs the depths at which pages were
queued, which the program forgets: `LinksInv` says that while no batch was mixed and no
link dropped there are such depths (`Levels`), the queue goes by them, what is queued lies
at most one level below anything that waits, and a link followed leads at most one level
down. Then whatever a chain of links reaches is queued, by induction on its length
(`EveryNumber`: from the well-foundedness of `<`, with a set for the predicate; that the
recursive function `Within` exists is shown by walks, `WithinSteps`). `MatchesInv`: what a
search is about to delete is in its scope and, unless another search of the line was
replacing at the time, all of its scope (`Doomed`); two searches that replace verdicts of
one line are remembered (`Crossing`); so an insertion meets no open verdict of its line and
kind on an item it judged.

**Accounts.** `AuthInv`: guesses are reserved by a conditional update, so those made and
those reserved never pass the limit (`Reserved`); a code is used by the one transaction
that verifies the account, which starts the one trial (`Begun`); while codes are made one
at a time, the last that was sent died of nothing but age and those after it are dead
(`Works`, `Orderly`), which is followed through the four statements of a resend (`Made`);
a token that was exchanged is revoked and, unless refreshes raced, no second request
still holds it (`Exchanged`); what is not revoked began after the last end of all sessions, or
was being exchanged then (`Current`). `WebInv`: a call waits only while its page refreshes
(`Waiting`); without a lost answer and with one renewal at a time, the cookie's token is
live until the other is issued (`Alone`). `MembersInv`: the only owner's row is the
creator's, it is their only row, and nobody is about to remove an owner or to make the
creator a member again (`Owned`); the requests that are accepting
belong to the invitation's user (`Taken`), and find it unused (`Unspent`) and their user
no member (`Single`), unless that user's acceptances overlapped.

**Knowledge.** Its invariant has one part for each of its parts, and one for what they share.
`CacheInv`: an answer that may be found under the current version is as new as the last
announcement, and no older than any question that looks for answers under its version
(`Found`); a question in progress holds no version newer than the current one, and what
it is about to store may be found (`Sound`). So a question is never served from
before the changes announced when it was asked. `Owed`: a change of the index that is not
announced is in the hands of someone who will announce it, or its announcement was lost.
`DocInv`: the active job has one handler, unless one outlived its timeout (`OneHandler`); a
document that is not settled is in someone's hands, or an exception of `SettledAtRest` is on
record (`DocCovered`); an upload, the only publisher that goes on after a refused update, has
a row without a job yet (`FirstContent`); and while no handler was
late, no job dropped or kept as failed, what the handler has read, deleted and inserted
so far is what its place in the code says (`DocFollows`). `TicketInv`: edits that overlap leave
a doubt (`Uncrowded`), and without a doubt the chunk follows the row or the edit that will
see to it holds the row as it is (`ChunkFollows`). `CrawlInv`: one request at a time is
between its check and its insertion, and one run in flight (`Crawled`); a run without its job
has one request that will add it (`Handled`); a run in flight has someone who will end it,
unless it is forsaken (`CrawlCovered`). The steps of one part touch the others through
announcements only (`Feeds`), so each part's invariant is proved for its own steps.

**AiJobs.** `Covered`: what the rows of this month cost, with the most that every call already
admitted may add, is below the cap and one call of every caller. An admission adds one
call's worth to the second term and needs the first below the cap; a row moves its cost from
the second term to the first; at the turn of the month the new one is empty. Of the
drafts, `FaqInv` says that unless runs overlapped the clusters still to be drafted are apart
from each other and from every draft that stands (`Apart`), and that unless reviews of it
overlapped a draft has the documents its status and its reviewer's place say (`Counted`).

`Priced` is a sum over the months and the calls. `Balanced` is the same equation with sums
of the functions `cost` and `call` (`Rows`, `Held`), and each step moves an amount between
three places: a use enters the meter of its call, a record takes it from there into the row of
a month, a failure or a death into what is lost. It needs `Unused`: a call
that has not begun has used nothing.

**OrderChecks.** What a comparison flags is a function of what it read (`EngineInv`), so the
three properties of `MatchEngine` are statements about that function for documents of any
length. `AccusesByEvidence` follows arm by arm from the `CASE`: a sum is a number only when
every line states its quantity, and a delta is computed in the arms behind the test of units.
`ReceiptNeverClears`: an item in question between order and invoice has the same sides
whatever the receipts say, and the arms that a receipt adds all flag. `SilenceAgrees`: in an item
without a flag both sides have one price (`PricesDiffer` compares the least and the
greatest with each other and across), so the cost of each side is that price times its sum
(`SumScales`), and the sums agree.

Of the terms, `TermsInv` says that what a call is about to write begins after the open term
it read (`Pending`); that two calls about to write one agreement are remembered (`Sole`), and
one that writes alone has read the agreement as it is (`Current`); and that the terms of an
agreement recorded by one call at a time follow each other without a gap, each closed on the
day the next begins, the last one open (`Tiled`). Exactly one is then live on each day from
the first on, and a write only moves the end of a term that was open to the first day of the
new one, which leaves the days before it alone.

The sums of both are `SumFunction`, a fold of the community modules. `SumsExist` shows,
by induction on the size of the set, that such a sum exists; `SumTakes` and `SumMinus` that
one element can be taken out of it. The rest follows from these three.

Assumptions: those the modules name. Natural bounds, `MaxClock` and the size of batches
positive, finitely many lines, pages, callers and amounts of use, `TrialQuota` among the quotas, a
trial that ends after it starts, integer quantities and
prices, model values distinct from data, a `Home` for every
subscription, `Others` that are not ours, reviewers that are not states of a flag. TLC
evaluates them on every run.

Model-checked only. Liveness under fairness (`SettlesForGood`, `Settles`) is outside what the
prover handles. Every other property of a passing run is stated by a theorem.

## 5. Not modelled

- The jobs of a catalogue scrape (`catalog/catalog-scrape.*`), which combine `SiteCrawl`
  and the write of `CatalogParse`; the history of a vendor.
- The removal of a document while a comparison references it
  (`procurement-documents.service.ts:334`).
- Rate limits (Redis counters with an expiry), notifications, digests, topic gaps and
  freshness flags (one query and one insert each), profiling of datasets and structured
  queries (an external engine), billing API and checkout (one call to the provider).
- Formatting, parsing of files, prompts, column mapping, photo checks, the graph of the
  answer agent: pure functions or I/O. The pages of the web application: rendering. These
  are most of the lines of the repository, which is why the map covers a small share of
  all lines while the services with state are covered.

## 6. Known divergences

What the models show or except, and the line that does it. Two are checked as runs.

- A run can be stamped newer than a write it has not read (`pair_torn`), and an item on
  receipts only is flagged without any value (`match_missing`).
- A pair deferred for a receipt whose parse then fails is not enqueued again
  (`procurement/procurement-compare.service.ts:215-217`,
  `procurement/procurement-parse.processor.ts:309-332`).
- A redelivered parse can repeat a run that started between its check and its read. The
  sweep of stale runs (`procurement-compare.service.ts:276`) turns a run that has
  succeeded meanwhile into a failed one with flags. An export may mix the flags of two
  runs.
- `missing_on_*` deltas are summed across units.
- A pair is charged once per period, not once for good (`procurement/comparison.service.ts:521-522`
  says for good; `billing/billing-gate.service.ts:18-21`).
- Lines a reviewer confirmed are replaced by a late attempt
  (`procurement-parse.processor.ts:416`; `docs/plans/photo-batch-intake.md:68`). The sweep
  queues a second job beside a running one that it cannot read
  (`procurement-parse.service.ts:154`). An attempt that timed out records a failure although its
  retry is due (`procurement-parse.processor.ts:312`).
- A subscription refused while another one was active stays refused
  (`billing/billing-webhook.service.ts:242`; `docs/ops/billing.md:129`).
- Two overlapping calls leave two open terms of one agreement
  (`catalog/vendor-price-terms.service.ts:48`).
- Catalogue attempts that overlap may leave duplicate items, or none, under `done`
  (`catalog/catalog-parse.processor.ts:310-313`). A slower search with older candidates
  deletes a newer item's verdict, two overlapping searches duplicate verdicts, and a
  re-parse deletes dismissals with their items (`catalog/catalog-match.service.ts:154`).
- Crawler: a deeper page that answers first can hide pages above the depth limit, a page
  whose `onPage` throws is lost silently (`packages/ai/src/web/crawl.ts:350`), and the cap
  counts results of finished batches only (`crawl.ts:332`).
- Ingest: a page published while its job is active is not indexed again, a refused
  re-queue may be overwritten by the older job's `done`, a failed job kept under its id
  blocks the next, and the check at boot skips young rows (`ingest/ingest.service.ts:45-74`).
- Cache: `setExact` reads the version last (`chat/chat.service.ts:216`), and an unreadable
  version counts as 1, which may find old rows.
- Tickets: an edit before the extraction ends is overwritten, overlapping edits leave a
  stale chunk. A crawl given up is revived by its handler.
- A refused update while something is queued leaves a row that nobody works on until a
  start of the process finds it old enough to fail: a run `queued`
  (`scrape/scrape.service.ts:100`, outside any try; `:125`), a document of a crawl `pending`
  (`ingest/ingest.service.ts:33`, `:61`; `scrape/scrape.processor.ts:98` only counts the
  page), a ticket `pending` (`tickets/tickets.service.ts:309`, `:335`), which `create()`
  returns to the next request with the transcript without queueing it (`:102-105`). The
  `failRun` of the listener (`scrape.service.ts:293`) is not awaited: refused, it is an
  unhandled rejection, which ends the process.
- A search of a line whose text was edited deletes the open verdicts on the items that no
  longer match it (`catalog/catalog-match.service.ts:139-155`, `:339`).
- Sessions: a sign-in in progress survives a change of password; two pages, or a page and a
  navigation, that renew with one token are signed out (`apps/web/middleware.ts:41`,
  `apps/web/src/lib/api/client.ts:6`, `auth/auth.service.ts:218-224`;
  `docs/ai/risk-register.md:40`).
- Two overlapping acceptances use an invitation twice and may insert two memberships, one
  of which outlives a removal (`workspaces/workspaces.service.ts:162-194`;
  `docs/ai/contracts/db-contracts.md:36`).
- Concurrent calls overspend a budget by what each uses; the estimate of a broken chat
  stream is not counted in Redis.
- FAQ drafts: two decisions of one draft at once overwrite each other, two approvals make
  two documents, a half-failed approval leaves its document
  (`insights/faq-drafts.service.ts:45`).

## 7. Plan

Done: the comparison pipeline, its verdicts, its history and its review; the ledger and
the webhook; parse queues; accounts; the knowledge index and its cache; sourcing; AI
work; proofs of all of these.

Next:

1. The removal guard of procurement documents, composed with `PairCompare`.
2. The jobs of a catalogue scrape over `SiteCrawl` and `CatalogParse`.
3. Digest and freshness jobs: a redelivered job sends or flags again.
