---------------------------- MODULE PairCompare ----------------------------
(***************************************************************************)
(* Automatic comparison of one purchase order with its invoices and goods  *)
(* receipts: how "a document finished parsing" becomes a comparison job    *)
(* (procurement-compare.service.ts), how a job decides that the pair is    *)
(* already up to date (procurement-compare.processor.ts), and what a       *)
(* comparison has read when it writes its run (comparison.service.ts).     *)
(*                                                                         *)
(* Time is a logical clock, the milliseconds of `new Date()` and now():    *)
(* several steps may happen in one tick.  A document has one writer at a   *)
(* time here; DocumentParse models writers of one document that overlap.   *)
(***************************************************************************)
EXTENDS Integers, FiniteSets, FiniteSetsExt, Sequences

CONSTANTS
  PO,           \* the purchase order
  Invoices,     \* the invoices linked to it
  Receipts,     \* the goods receipts linked to it
  Photos,       \* the documents uploaded as photos: a human must confirm them
  Workers,      \* concurrent handlers of the compare queue
  Users,        \* requests of the manual Compare button
  NoJob,        \* a handler that answers no job
  MaxClock,     \* bound on time
  MaxRuns,      \* bound on the runs written
  MaxFaults     \* bound on deaths, timeouts and refusals of the infrastructure

Docs == {PO} \cup Invoices \cup Receipts
Handlers == Workers \cup Users

ASSUME DocumentsDistinct ==
  /\ PO \notin Invoices \cup Receipts
  /\ Invoices \cap Receipts = {}
  /\ Photos \subseteq Docs
ASSUME HandlersDistinct == Workers \cap Users = {}
ASSUME NoJobIsNone == NoJob \notin Invoices \cup (Invoices \X (0..MaxClock))
ASSUME BoundsNatural == MaxClock \in Nat \ {0} /\ MaxRuns \in Nat /\ MaxFaults \in Nat

Attempts == 2         \* `attempts` of a compare job
StallLimit == 1       \* Bull's maxStalledCount: one redelivery of a dead worker's job

VARIABLES
  clock,
  doc,       \* the header row of each document, and the version of its lines
  writer,    \* the parse job or the review request writing each document
  queue,     \* procurement-compare-queue: the jobs Bull holds
  handler,   \* what each running comparison has reached and read
  runs,      \* comparison_runs, in insertion order
  missed,    \* documents whose follow-up was lost for good, or refused by the gate
  faults     \* infrastructure failures so far

vars == <<clock, doc, writer, queue, handler, runs, missed, faults>>

-----------------------------------------------------------------------------
(* Reading the documents *)

Ready(d) == doc[d].status = "done" /\ ~doc[d].unconfirmed

DoneReceipts == {r \in Receipts : doc[r].status = "done"}

\* receiptState().defer
Deferred == \E r \in Receipts :
  \/ doc[r].status = "unsettled"
  \/ doc[r].status = "done" /\ doc[r].unconfirmed

\* The newest updated_at among the documents that feed the pair.
InputVersion(i) == Max({doc[d].at : d \in {PO, i} \cup DoneReceipts})

Pair(i) == [inv |-> i, version |-> InputVersion(i)]

\* Mutant of PairsFor: a receipt enqueues nothing, only the two named sides do.
PairsForNamedSides(d) ==
  IF ~Ready(PO) \/ Deferred \/ d \in Receipts THEN {}
  ELSE {Pair(i) : i \in {v \in Invoices : (d \in Invoices => v = d) /\ Ready(v)}}

\* pairsFor(): the pairs whose comparison document d could have changed.
PairsFor(d) ==
  IF ~Ready(PO) \/ Deferred THEN {}
  ELSE {Pair(i) : i \in {v \in Invoices : (d \in Invoices => v = d) /\ Ready(v)}}

-----------------------------------------------------------------------------
(* The runs *)

Succeeded(i) == {n \in DOMAIN runs : runs[n].inv = i /\ runs[n].status = "succeeded"}

\* The runs `order by started_at desc` may put first: ties are broken by a
\* random uuid.
LatestRuns(i) == {n \in Succeeded(i) :
                    \A m \in Succeeded(i) : runs[m].startedAt <= runs[n].startedAt}

\* Mutant of IsUpToDate: an input stamped in the run's own millisecond counts as
\* read.
IsUpToDateLoose(i) == \E n \in LatestRuns(i) : runs[n].startedAt >= InputVersion(i)

\* isUpToDate(): strictly newer than every input.  Neither the order nor the
\* invoice need be `done` for this.
IsUpToDate(i) == \E n \in LatestRuns(i) : runs[n].startedAt > InputVersion(i)

-----------------------------------------------------------------------------
(* The compare queue *)

JobId(j) == <<j.inv, j.version>>

NewJob(p) == [inv |-> p.inv, version |-> p.version, state |-> "waiting",
              due |-> clock + 1, tries |-> 0, stalls |-> 0]

\* Bull's add: a job whose id the queue still holds is not added again.  Failed
\* jobs are kept, completed ones removed.
AddJobs(pairs) == queue \cup
  {j \in {NewJob(p) : p \in pairs} : \A k \in queue : JobId(k) # JobId(j)}

Replace(j, k) == (queue \ {j}) \cup {k}

\* A handler that rejects, or whose job times out: retried after a back-off,
\* kept as failed after the last attempt.
Rejected(j) ==
  IF j.tries + 1 < Attempts
  THEN [j EXCEPT !.state = "waiting", !.tries = @ + 1, !.due = clock + 1]
  ELSE [j EXCEPT !.state = "failed"]

\* The worker died: Bull delivers the job again, once.
Stalled(j) ==
  IF j.stalls < StallLimit
  THEN [j EXCEPT !.state = "waiting", !.stalls = @ + 1, !.due = clock + 1]
  ELSE [j EXCEPT !.state = "failed"]

-----------------------------------------------------------------------------
(* Initial state *)

Unread == [d \in Docs |-> 0]

IdleHandler == [pc |-> "idle", job |-> NoJob, inv |-> NoJob, reads |-> Unread,
                overlap |-> {}, known |-> {}, run |-> 0]

IdleWriter == [pc |-> "idle", review |-> FALSE, stamp |-> 0, stalls |-> 0, pairs |-> {}]

Init ==
  /\ clock = 1
  /\ doc = [d \in Docs |-> [status |-> "absent", at |-> 0, lines |-> 0,
                            unconfirmed |-> d \in Photos]]
  /\ writer = [d \in Docs |-> IdleWriter]
  /\ queue = {}
  /\ handler = [h \in Handlers |-> IdleHandler]
  /\ runs = <<>>
  /\ missed = {}
  /\ faults = 0

Fault == faults < MaxFaults /\ faults' = faults + 1

Tick ==
  /\ clock < MaxClock
  /\ clock' = clock + 1
  /\ UNCHANGED <<doc, writer, queue, handler, runs, missed, faults>>

-----------------------------------------------------------------------------
(* Writing a document *)

\* upload(), queueDoc() and setProcessing(): the header is unsettled, pending
\* and then processing, from its upload to the end of its parse; so it is again
\* when Bull delivers the parse job a second time.  An invoice and a receipt name
\* an order that exists.
StartParse(d) ==
  /\ doc[d].status = "absent" \/ writer[d].pc = "queued"
  /\ d # PO => doc[PO].status # "absent"
  /\ doc' = [doc EXCEPT ![d].status = "unsettled", ![d].at = clock]
  /\ writer' = [writer EXCEPT ![d].pc = "parsing"]
  /\ UNCHANGED <<clock, queue, handler, runs, missed, faults>>

\* markFailed(): a permanent error or the last attempt.  Nothing is enqueued.
FailParse(d) ==
  /\ writer[d].pc = "parsing"
  /\ doc' = [doc EXCEPT ![d].status = "failed", ![d].at = clock]
  /\ writer' = [writer EXCEPT ![d] = IdleWriter]
  /\ UNCHANGED <<clock, queue, handler, runs, missed, faults>>

\* Readers whose inputs a write of d, stamped now, may miss.
Reading == {h \in Handlers : handler[h].pc \in {"receipts", "insert"}}

\* `updatedAt: new Date()` is taken before the transaction that writes it: by
\* replaceLineItemsAndFinish(), or by review() for a document that is done and
\* awaits confirmation.
Stamp(d, isReview) ==
  /\ writer' = [writer EXCEPT ![d].pc = "stamped", ![d].review = isReview,
                              ![d].stamp = clock]
  /\ handler' = [h \in Handlers |->
                   IF h \in Reading
                   THEN [handler[h] EXCEPT !.overlap = @ \cup {d}]
                   ELSE handler[h]]
  /\ UNCHANGED <<clock, doc, queue, runs, missed, faults>>

StampParse(d) == writer[d].pc = "parsing" /\ Stamp(d, FALSE)

StampReview(d) ==
  /\ writer[d].pc = "idle"
  /\ doc[d].status = "done"
  /\ doc[d].unconfirmed
  /\ Stamp(d, TRUE)

\* The transaction: new lines and the stamped header become visible together.
\* Only a review clears the confirmation.
CommitLines(d) ==
  /\ writer[d].pc = "stamped"
  /\ doc' = [doc EXCEPT ![d] = [status |-> "done", at |-> writer[d].stamp,
                                lines |-> @.lines + 1,
                                unconfirmed |-> @.unconfirmed /\ ~writer[d].review]]
  /\ writer' = [writer EXCEPT ![d].pc = "enqueue"]
  /\ UNCHANGED <<clock, queue, handler, runs, missed, faults>>

\* enqueueForDocument() resolves the pairs, then adds their jobs.
ResolvePairs(d) ==
  /\ writer[d].pc = "enqueue"
  /\ writer' = [writer EXCEPT ![d] = IF PairsFor(d) = {} THEN IdleWriter
                                     ELSE [@ EXCEPT !.pc = "add", !.pairs = PairsFor(d)]]
  /\ UNCHANGED <<clock, doc, queue, handler, runs, missed, faults>>

AddPairs(d) ==
  /\ writer[d].pc = "add"
  /\ queue' = AddJobs(writer[d].pairs)
  /\ writer' = [writer EXCEPT ![d] = IdleWriter]
  /\ UNCHANGED <<clock, doc, handler, runs, missed, faults>>

\* The database or the queue refuses: the error is logged and swallowed.
EnqueueFails(d) ==
  /\ Fault
  /\ writer[d].pc \in {"enqueue", "add"}
  /\ writer' = [writer EXCEPT ![d] = IdleWriter]
  /\ missed' = missed \cup {d}
  /\ UNCHANGED <<clock, doc, queue, handler, runs>>

\* The process dies while a parse job runs: Bull delivers the job again.
ParseWorkerDies(d) ==
  /\ Fault
  /\ writer[d].pc \in {"parsing", "stamped", "enqueue", "add"}
  /\ ~writer[d].review
  /\ writer[d].stalls < StallLimit
  /\ writer' = [writer EXCEPT ![d] = [IdleWriter EXCEPT !.pc = "queued",
                                                         !.stalls = writer[d].stalls + 1]]
  /\ UNCHANGED <<clock, doc, queue, handler, runs, missed>>

-----------------------------------------------------------------------------
(* Comparing a pair *)

\* The job a handler answers: none when it is a manual request, or when Bull has
\* already given up on it.
Own(h) == {j \in queue : JobId(j) = handler[h].job /\ j.state = "active"}

\* handlePair() returns: Bull completes the job and removes it.
JobDone(h) ==
  /\ queue' = queue \ Own(h)
  /\ handler' = [handler EXCEPT ![h] = IdleHandler]

\* A job that a worker may take: its delay, or back-off, is over.
Due(j) == j.state = "waiting" /\ j.due <= clock

\* handlePair(): nothing changed since the latest run, the job is complete.
SkipUpToDate(w) == \E j \in queue :
  /\ handler[w].pc = "idle"
  /\ Due(j)
  /\ IsUpToDate(j.inv)
  /\ queue' = queue \ {j}
  /\ UNCHANGED <<clock, doc, writer, handler, runs, missed, faults>>

\* Mutant of BeginCompare: no freshness check.
BeginCompareUnchecked(w) == \E j \in queue :
  /\ handler[w].pc = "idle"
  /\ Due(j)
  /\ queue' = Replace(j, [j EXCEPT !.state = "active"])
  /\ handler' = [handler EXCEPT ![w] = [IdleHandler EXCEPT
                   !.pc = "read", !.job = JobId(j), !.inv = j.inv,
                   !.known = Succeeded(j.inv)]]
  /\ UNCHANGED <<clock, doc, writer, runs, missed, faults>>

\* handlePair(): something did.
BeginCompare(w) == \E j \in queue :
  /\ handler[w].pc = "idle"
  /\ Due(j)
  /\ ~IsUpToDate(j.inv)
  /\ queue' = Replace(j, [j EXCEPT !.state = "active"])
  /\ handler' = [handler EXCEPT ![w] = [IdleHandler EXCEPT
                   !.pc = "read", !.job = JobId(j), !.inv = j.inv,
                   !.known = Succeeded(j.inv)]]
  /\ UNCHANGED <<clock, doc, writer, runs, missed, faults>>

\* compare() loads the order, the invoice and their lines.
LoadPair(h, i) ==
  /\ Ready(PO)
  /\ Ready(i)
  /\ handler' = [handler EXCEPT ![h] = [@ EXCEPT
       !.pc = "receipts",
       !.inv = i,
       !.reads = [Unread EXCEPT ![PO] = doc[PO].lines, ![i] = doc[i].lines],
       !.overlap = {d \in Docs : writer[d].pc = "stamped"}]]
  /\ UNCHANGED <<clock, doc, writer, queue, runs, missed, faults>>

ReadPair(w) == handler[w].pc = "read" /\ LoadPair(w, handler[w].inv)

\* POST .../compare: no freshness check and no deferral; a pair that is not
\* ready is a 400 that changes nothing.
ManualCompare(u) ==
  /\ handler[u].pc = "idle"
  /\ Len(runs) < MaxRuns
  /\ \E i \in Invoices : LoadPair(u, i)

\* compare() loads the receipts that are done, and their lines.
ReadReceipts(h) ==
  /\ handler[h].pc = "receipts"
  /\ \A r \in DoneReceipts : ~doc[r].unconfirmed
  /\ handler' = [handler EXCEPT
       ![h].pc = "insert",
       ![h].reads = [d \in Docs |-> IF d \in DoneReceipts THEN doc[d].lines ELSE @[d]]]
  /\ UNCHANGED <<clock, doc, writer, queue, runs, missed, faults>>

\* A 400: a document is not ready, or a receipt awaits its confirmation.  The
\* processor swallows it and the job completes.
Refuse(h) ==
  /\ \/ handler[h].pc = "read" /\ ~(Ready(PO) /\ Ready(handler[h].inv))
     \/ handler[h].pc = "receipts" /\ \E r \in DoneReceipts : doc[r].unconfirmed
  /\ JobDone(h)
  /\ UNCHANGED <<clock, doc, writer, runs, missed, faults>>

\* The run row, stamped by the database's now() at its insertion.
InsertRun(h) ==
  /\ handler[h].pc = "insert"
  /\ Len(runs) < MaxRuns
  /\ runs' = Append(runs, [inv |-> handler[h].inv, known |-> handler[h].known,
                           startedAt |-> clock, status |-> "running", reads |-> handler[h].reads,
                           overlap |-> handler[h].overlap,
                           tied |-> InputVersion(handler[h].inv) = clock])
  /\ handler' = [handler EXCEPT ![h].pc = "engine", ![h].run = Len(runs) + 1]
  /\ UNCHANGED <<clock, doc, writer, queue, missed, faults>>

\* The engine answered and the transaction with the flags committed.
Succeed(h) ==
  /\ handler[h].pc = "engine"
  /\ runs' = [runs EXCEPT ![handler[h].run].status = "succeeded"]
  /\ JobDone(h)
  /\ UNCHANGED <<clock, doc, writer, missed, faults>>

\* A 402: the gate refuses the pair's lines.  The processor swallows it too, and
\* only a later parse or review would try again.
GateRefuses(h) ==
  /\ Fault
  /\ handler[h].pc = "insert"
  /\ missed' = missed \cup {handler[h].inv}
  /\ JobDone(h)
  /\ UNCHANGED <<clock, doc, writer, runs>>

\* failRun(), if there is a run, and rethrow: the job is retried, or kept as
\* failed.
Fail(h) ==
  /\ Fault
  /\ handler[h].pc # "idle"
  /\ runs' = IF handler[h].pc = "engine"
             THEN [runs EXCEPT ![handler[h].run].status = "failed"] ELSE runs
  /\ queue' = (queue \ Own(h)) \cup {Rejected(j) : j \in Own(h)}
  /\ handler' = [handler EXCEPT ![h] = IdleHandler]
  /\ UNCHANGED <<clock, doc, writer, missed>>

\* The job times out: Bull rejects it, but the handler goes on.
TimeOut(w) ==
  /\ Fault
  /\ handler[w].pc \in {"read", "receipts", "insert", "engine"}
  /\ Own(w) # {}
  /\ queue' = (queue \ Own(w)) \cup {Rejected(j) : j \in Own(w)}
  /\ handler' = [handler EXCEPT ![w].job = NoJob]
  /\ UNCHANGED <<clock, doc, writer, runs, missed>>

\* The process dies: its run, if any, stays `running`.
Die(h) ==
  /\ Fault
  /\ handler[h].pc # "idle"
  /\ queue' = (queue \ Own(h)) \cup {Stalled(j) : j \in Own(h)}
  /\ handler' = [handler EXCEPT ![h] = IdleHandler]
  /\ UNCHANGED <<clock, doc, writer, runs, missed>>

Next ==
  \/ Tick
  \/ \E d \in Docs : \/ StartParse(d) \/ FailParse(d)
                     \/ StampParse(d) \/ StampReview(d) \/ CommitLines(d)
                     \/ ResolvePairs(d) \/ AddPairs(d) \/ EnqueueFails(d) \/ ParseWorkerDies(d)
  \/ \E w \in Workers : SkipUpToDate(w) \/ BeginCompare(w) \/ ReadPair(w) \/ TimeOut(w)
  \/ \E u \in Users : ManualCompare(u)
  \/ \E h \in Handlers : \/ ReadReceipts(h) \/ Refuse(h)
                         \/ InsertRun(h) \/ GateRefuses(h) \/ Succeed(h) \/ Fail(h) \/ Die(h)

Spec == Init /\ [][Next]_vars

-----------------------------------------------------------------------------
(* Properties *)

DocRow == [status : {"absent", "unsettled", "done", "failed"},
           at : 0..MaxClock, lines : Nat, unconfirmed : BOOLEAN]

WriterState == [pc : {"idle", "queued", "parsing", "stamped", "enqueue", "add"},
                review : BOOLEAN, stamp : 0..MaxClock, stalls : 0..StallLimit,
                pairs : SUBSET [inv : Invoices, version : 0..MaxClock]]

Job == [inv : Invoices, version : 0..MaxClock, state : {"waiting", "active", "failed"},
        due : 0..MaxClock + 1, tries : 0..Attempts - 1, stalls : 0..StallLimit]

Run == [inv : Invoices, known : SUBSET (1..MaxRuns), startedAt : 0..MaxClock,
        status : {"running", "succeeded", "failed"},
        reads : [Docs -> Nat], overlap : SUBSET Docs, tied : BOOLEAN]

HandlerState == [pc : {"idle", "read", "receipts", "insert", "engine"},
                 job : (Invoices \X (0..MaxClock)) \cup {NoJob},
                 inv : Invoices \cup {NoJob}, reads : [Docs -> Nat],
                 overlap : SUBSET Docs, known : SUBSET (1..MaxRuns), run : 0..MaxRuns]

\* Every row, job and handler has the shape its table or queue gives it.
TypeOK ==
  /\ clock \in 0..MaxClock
  /\ doc \in [Docs -> DocRow]
  /\ writer \in [Docs -> WriterState]
  /\ queue \subseteq Job
  /\ handler \in [Handlers -> HandlerState]
  /\ runs \in Seq(Run)
  /\ Len(runs) <= MaxRuns
  /\ missed \subseteq Docs
  /\ faults \in 0..MaxFaults

\* What a verdict of run n should rest on: the current lines of the pair and of
\* every receipt that is done.
ReadCurrent(n, d) == runs[n].reads[d] = doc[d].lines

Feeding(i) == {PO, i} \cup DoneReceipts

\* When the processor's freshness check calls a pair up to date, its latest run
\* read the current lines of every document feeding it -- except a document
\* whose write was in flight (stamped, not committed) while the run was reading.
FreshUnlessOverlapped == \A i \in Invoices : IsUpToDate(i) =>
  \A n \in LatestRuns(i), d \in Feeding(i) : ReadCurrent(n, d) \/ d \in runs[n].overlap

\* The comment on isUpToDate(): "`started_at` is the moment the inputs were
\* actually read", so an up-to-date pair has no torn read.
FreshnessSound == \A i \in Invoices : IsUpToDate(i) =>
  \A n \in LatestRuns(i), d \in Feeding(i) : ReadCurrent(n, d)

AtRest ==
  /\ \A d \in Docs : writer[d].pc = "idle"
  /\ \A h \in Handlers : handler[h].pc = "idle"
  /\ \A j \in queue : j.state = "failed"

Comparable(i) == Ready(PO) /\ Ready(i) /\ ~Deferred

FailedJob(i) == \E j \in queue : j.inv = i /\ j.state = "failed"

Compared(i) == \E n \in Succeeded(i) : \A d \in Feeding(i) :
                 ReadCurrent(n, d) \/ d \in runs[n].overlap

\* When nothing is running any more, every pair that can be compared has been,
\* on the current lines, whatever the order in which its documents were parsed
\* and confirmed -- unless a receipt failed to parse, a follow-up was lost or
\* refused, or the pair's job failed for good.
ComparedAtRest ==
  AtRest /\ missed = {} /\ (\A r \in Receipts : doc[r].status # "failed")
    => \A i \in Invoices : Comparable(i) => FailedJob(i) \/ Compared(i)

\* The freshness check bounds the runs automation writes: an automatic run never
\* reads again what a run that had succeeded when its job was checked has read,
\* however many documents enqueued the pair -- unless that run started in the
\* millisecond in which one of its inputs was stamped, or a fault (a receipt whose parse
\* is delivered again is not read, though it was new when the job was checked).
NoRedundantRun == \A n \in DOMAIN runs : \A m \in runs[n].known :
  runs[m].reads = runs[n].reads => runs[m].tied \/ faults > 0
=============================================================================
