--------------------------- MODULE DocumentParse ----------------------------
(***************************************************************************)
(* The life of one uploaded photo document: queued for parsing by its      *)
(* upload (procurement-documents.service.ts, procurement-parse.service.ts),*)
(* parsed by jobs that are retried, time out and are redelivered           *)
(* (procurement-parse.processor.ts), re-queued by a periodic sweep         *)
(* (reconcile), and confirmed by a reviewer                                *)
(* (procurement-review.service.ts).                                        *)
(*                                                                         *)
(* Header updates are by id, without a condition; only the review's is     *)
(* conditional.  An attempt that Bull has timed out keeps running.         *)
(***************************************************************************)
EXTENDS Integers, FiniteSets

CONSTANTS
  Workers,      \* parse attempts that may be running, timed-out ones included
  Sweeps,       \* runs of reconcile() that may overlap
  Reviewers,
  Attempts,     \* `attempts` of a parse job
  MaxRequeues,  \* MAX_RECONCILE_REQUEUES
  MaxFaults     \* bound on timeouts, deaths and failures of Redis

ASSUME BoundsNatural == Attempts \in Nat \ {0} /\ MaxRequeues \in Nat /\ MaxFaults \in Nat

StallLimit == 1 \* Bull's maxStalledCount: one redelivery of a dead worker's job

VARIABLES
  row,       \* the document's header, and where its lines come from
  upload,    \* the upload request
  queue,     \* procurement-parse-queue: the jobs of this document
  parse,     \* what each running attempt has reached
  sweep,     \* what each run of reconcile() has read and decided
  shown,     \* the lines each reviewer has on screen
  confirms,  \* history: confirmations that succeeded
  faults     \* infrastructure failures so far

vars == <<row, upload, queue, parse, sweep, shown, confirms, faults>>

Unsettled == {"pending", "processing"}

Fault == faults < MaxFaults /\ faults' = faults + 1

-----------------------------------------------------------------------------
(* Jobs: the id is the requeue count, the suffix of queueJobId *)

NewJob(n) == [id |-> n, state |-> "waiting", tries |-> 0, stalls |-> 0]

JobsOf(n) == {j \in queue : j.id = n}

\* Bull's add: an id the queue still holds, failed jobs included, is not added.
AddJob(n) ==
  queue' = IF JobsOf(n) = {} THEN queue \cup {NewJob(n)} ELSE queue

\* A rejected attempt is retried; after the last one the job is kept as failed.
Rejected(j) == IF j.tries + 1 < Attempts
               THEN [j EXCEPT !.state = "waiting", !.tries = @ + 1]
               ELSE [j EXCEPT !.state = "failed"]

\* The job of a dead worker is delivered again, once.
Stalled(j) == IF j.stalls < StallLimit
              THEN [j EXCEPT !.state = "waiting", !.stalls = @ + 1]
              ELSE [j EXCEPT !.state = "failed"]

\* The active job an attempt answers: none once it has timed out or vanished.
Own(w) == {j \in queue : parse[w].owns /\ j.id = parse[w].id /\ j.state = "active"}

-----------------------------------------------------------------------------

IdleParse == [pc |-> "idle", id |-> 0, owns |-> FALSE, attempt |-> 0]
IdleSweep == [pc |-> "idle", seen |-> 0]

Init ==
  /\ row = [status |-> "absent", requeue |-> 0, stale |-> FALSE,
            reviewed |-> FALSE, lines |-> "none"]
  /\ upload = "idle"
  /\ queue = {}
  /\ parse = [w \in Workers |-> IdleParse]
  /\ sweep = [s \in Sweeps |-> IdleSweep]
  /\ shown = [u \in Reviewers |-> "nothing"]
  /\ confirms = 0
  /\ faults = 0

-----------------------------------------------------------------------------
(* Upload and queueDoc() *)

\* insertHeader() and queueDoc()'s patch: pending, before the job is added.
Upload ==
  /\ upload = "idle"
  /\ upload' = "adding"
  /\ row' = [row EXCEPT !.status = "pending"]
  /\ UNCHANGED <<queue, parse, sweep, shown, confirms, faults>>

UploadAdds ==
  /\ upload = "adding"
  /\ upload' = "over"
  /\ AddJob(0)
  /\ UNCHANGED <<row, parse, sweep, shown, confirms, faults>>

\* add() throws: markFailed().
UploadAddFails ==
  /\ Fault
  /\ upload = "adding"
  /\ upload' = "over"
  /\ row' = [row EXCEPT !.status = "failed"]
  /\ UNCHANGED <<queue, parse, sweep, shown, confirms>>

\* The process dies between the two writes.
UploadDies ==
  /\ Fault
  /\ upload = "adding"
  /\ upload' = "over"
  /\ UNCHANGED <<row, queue, parse, sweep, shown, confirms>>

-----------------------------------------------------------------------------
(* handleParse() *)

Deliver(w) == \E j \in queue :
  /\ parse[w].pc = "idle"
  /\ j.state = "waiting"
  /\ queue' = (queue \ {j}) \cup {[j EXCEPT !.state = "active"]}
  /\ parse' = [parse EXCEPT ![w] =
       [pc |-> "start", id |-> j.id, owns |-> TRUE, attempt |-> j.tries + 1]]
  /\ UNCHANGED <<row, upload, sweep, shown, confirms, faults>>

\* setProcessing(), and the header is loaded.
SetProcessing(w) ==
  /\ parse[w].pc = "start"
  /\ row' = [row EXCEPT !.status = "processing", !.stale = FALSE]
  /\ parse' = [parse EXCEPT ![w].pc = "read"]
  /\ UNCHANGED <<upload, queue, sweep, shown, confirms, faults>>

\* replaceLineItemsAndFinish(): one transaction, whatever the header says now.
\* The lines that reviewers have on screen are gone.
ReplaceLines(w) ==
  /\ parse[w].pc = "read"
  /\ row' = [row EXCEPT !.status = "done", !.lines = "parsed"]
  /\ shown' = [u \in Reviewers |-> IF shown[u] = "nothing" THEN "nothing" ELSE "replaced"]
  /\ parse' = [parse EXCEPT ![w].pc = "return"]
  /\ UNCHANGED <<upload, queue, sweep, confirms, faults>>

\* handleFailure(), a document problem: failed, without a retry.
FailForGood(w) ==
  /\ parse[w].pc = "read"
  /\ row' = [row EXCEPT !.status = "failed"]
  /\ parse' = [parse EXCEPT ![w].pc = "return"]
  /\ UNCHANGED <<upload, queue, sweep, shown, confirms, faults>>

\* handleFailure(), a transient problem: only the final attempt writes `failed`.
FailForNow(w) ==
  /\ parse[w].pc = "read"
  /\ row' = IF parse[w].attempt >= Attempts THEN [row EXCEPT !.status = "failed"] ELSE row
  /\ parse' = [parse EXCEPT ![w].pc = "throw"]
  /\ UNCHANGED <<upload, queue, sweep, shown, confirms, faults>>

\* The database refuses setProcessing() or the record of a failure: the attempt
\* throws and the header is left as it is.
FailUnrecorded(w) ==
  /\ Fault
  /\ parse[w].pc \in {"start", "read"}
  /\ parse' = [parse EXCEPT ![w].pc = "throw"]
  /\ UNCHANGED <<row, upload, queue, sweep, shown, confirms>>

\* enqueueCompare() swallows its errors; the job is completed and removed.
Return(w) ==
  /\ parse[w].pc = "return"
  /\ queue' = queue \ Own(w)
  /\ parse' = [parse EXCEPT ![w] = IdleParse]
  /\ UNCHANGED <<row, upload, sweep, shown, confirms, faults>>

Throw(w) ==
  /\ parse[w].pc = "throw"
  /\ queue' = (queue \ Own(w)) \cup {Rejected(j) : j \in Own(w)}
  /\ parse' = [parse EXCEPT ![w] = IdleParse]
  /\ UNCHANGED <<row, upload, sweep, shown, confirms, faults>>

\* PARSE_JOB_TIMEOUT_MS: Bull rejects the job, which counts the attempt on the
\* object the handler holds; the handler runs on.
TimeOut(w) ==
  /\ Fault
  /\ Own(w) # {}
  /\ queue' = (queue \ Own(w)) \cup {Rejected(j) : j \in Own(w)}
  /\ parse' = [parse EXCEPT ![w].owns = FALSE, ![w].attempt = @ + 1]
  /\ UNCHANGED <<row, upload, sweep, shown, confirms>>

Die(w) ==
  /\ Fault
  /\ parse[w].pc # "idle"
  /\ queue' = (queue \ Own(w)) \cup {Stalled(j) : j \in Own(w)}
  /\ parse' = [parse EXCEPT ![w] = IdleParse]
  /\ UNCHANGED <<row, upload, sweep, shown, confirms>>

\* Redis loses a job.
LoseJob == \E j \in queue :
  /\ Fault
  /\ queue' = queue \ {j}
  /\ UNCHANGED <<row, upload, parse, sweep, shown, confirms>>

-----------------------------------------------------------------------------
(* reconcile() *)

\* Two minutes after it was queued, thirty after its last attempt started.  The
\* queue may be that late, so this may come at any point of an attempt's life.
Age ==
  /\ row.status \in Unsettled
  /\ ~row.stale
  /\ row' = [row EXCEPT !.stale = TRUE]
  /\ UNCHANGED <<upload, queue, parse, sweep, shown, confirms, faults>>

\* The rows are selected once, before any of them is looked at.
Select(s) ==
  /\ sweep[s].pc = "idle"
  /\ row.status \in Unsettled
  /\ row.stale
  /\ sweep' = [sweep EXCEPT ![s] = [pc |-> "check", seen |-> row.requeue]]
  /\ UNCHANGED <<row, upload, queue, parse, shown, confirms, faults>>

\* Mutant of Decision: a failed job counts as alive.
DecisionFailedAlive(n) ==
  CASE JobsOf(n) # {} -> "idle"
    [] OTHER -> IF n >= MaxRequeues THEN "fail" ELSE "requeue"

\* What reconcileRows() does about a row whose queueJobId has requeue count n.
Decision(n) ==
  CASE \E j \in JobsOf(n) : j.state = "failed" -> "fail"
    [] \E j \in JobsOf(n) : j.state # "failed" -> "idle"
    [] OTHER -> IF n >= MaxRequeues THEN "fail" ELSE "requeue"

Check(s) ==
  /\ sweep[s].pc = "check"
  /\ sweep' = [sweep EXCEPT ![s].pc = Decision(sweep[s].seen)]
  /\ UNCHANGED <<row, upload, queue, parse, shown, confirms, faults>>

\* `getJob(...).catch(() => null)`: a job that cannot be read counts as missing.
CheckFails(s) ==
  /\ Fault
  /\ sweep[s].pc = "check"
  /\ sweep' = [sweep EXCEPT ![s].pc = IF sweep[s].seen >= MaxRequeues THEN "fail" ELSE "requeue"]
  /\ UNCHANGED <<row, upload, queue, parse, shown, confirms>>

\* markFailed()
SweepFails(s) ==
  /\ sweep[s].pc = "fail"
  /\ row' = [row EXCEPT !.status = "failed"]
  /\ sweep' = [sweep EXCEPT ![s] = IdleSweep]
  /\ UNCHANGED <<upload, queue, parse, shown, confirms, faults>>

\* queueDoc(requeues + 1): the patch, then the job under a fresh id.
SweepRequeues(s) ==
  /\ sweep[s].pc = "requeue"
  /\ row' = [row EXCEPT !.status = "pending", !.requeue = sweep[s].seen + 1, !.stale = FALSE]
  /\ sweep' = [sweep EXCEPT ![s].pc = "add"]
  /\ UNCHANGED <<upload, queue, parse, shown, confirms, faults>>

SweepAdds(s) ==
  /\ sweep[s].pc = "add"
  /\ AddJob(sweep[s].seen + 1)
  /\ sweep' = [sweep EXCEPT ![s] = IdleSweep]
  /\ UNCHANGED <<row, upload, parse, shown, confirms, faults>>

SweepAddFails(s) ==
  /\ Fault
  /\ sweep[s].pc = "add"
  /\ row' = [row EXCEPT !.status = "failed"]
  /\ sweep' = [sweep EXCEPT ![s] = IdleSweep]
  /\ UNCHANGED <<upload, queue, parse, shown, confirms>>

SweepDies(s) ==
  /\ Fault
  /\ sweep[s].pc # "idle"
  /\ sweep' = [sweep EXCEPT ![s] = IdleSweep]
  /\ UNCHANGED <<row, upload, queue, parse, shown, confirms>>

-----------------------------------------------------------------------------
(* Review *)

\* listLines(): the lines, with the ids that a confirmation will name.
ShowLines(u) ==
  /\ shown[u] = "nothing"
  /\ row.lines # "none"
  /\ shown' = [shown EXCEPT ![u] = "current"]
  /\ UNCHANGED <<row, upload, queue, parse, sweep, confirms, faults>>

\* claimHeader()
Claimable == ~row.reviewed /\ row.status = "done"

\* Mutant of Review: the claim does not look at reviewed_at.
ReviewAgain(u) ==
  /\ shown[u] = "current"
  /\ row.status = "done"
  /\ row' = [row EXCEPT !.reviewed = TRUE, !.lines = "confirmed"]
  /\ confirms' = confirms + 1
  /\ UNCHANGED <<upload, queue, parse, sweep, shown, faults>>

\* review(): one transaction claims the header and applies the lines, which must
\* still exist.  The request may be repeated: the screen stays as it is.
Review(u) ==
  /\ shown[u] = "current"
  /\ Claimable
  /\ row' = [row EXCEPT !.reviewed = TRUE, !.lines = "confirmed"]
  /\ confirms' = confirms + 1
  /\ UNCHANGED <<upload, queue, parse, sweep, shown, faults>>

\* 409, or 404 for a line that a parse has replaced: rolled back.
ReviewRefused(u) ==
  /\ shown[u] # "nothing"
  /\ ~Claimable \/ shown[u] = "replaced"
  /\ shown' = [shown EXCEPT ![u] = "nothing"]
  /\ UNCHANGED <<row, upload, queue, parse, sweep, confirms, faults>>

-----------------------------------------------------------------------------

WorkerStep(w) ==
  \/ Deliver(w) \/ SetProcessing(w) \/ ReplaceLines(w) \/ FailForGood(w) \/ FailForNow(w)
  \/ Return(w) \/ Throw(w)

SweepStep(s) == Select(s) \/ Check(s) \/ SweepFails(s) \/ SweepRequeues(s) \/ SweepAdds(s)

Next ==
  \/ Upload \/ UploadAdds \/ UploadAddFails \/ UploadDies \/ LoseJob \/ Age
  \/ \E w \in Workers : WorkerStep(w) \/ FailUnrecorded(w) \/ TimeOut(w) \/ Die(w)
  \/ \E s \in Sweeps : SweepStep(s) \/ CheckFails(s) \/ SweepAddFails(s) \/ SweepDies(s)
  \/ \E u \in Reviewers : ShowLines(u) \/ Review(u) \/ ReviewRefused(u)

\* Time passes, reconcile() is a repeatable job, a running process goes on, and
\* calls return or throw in the end.  Nobody has to upload or to review.
Fairness ==
  /\ WF_vars(UploadAdds)
  /\ WF_vars(Age)
  /\ \A w \in Workers : WF_vars(WorkerStep(w))
  /\ \A s \in Sweeps : WF_vars(SweepStep(s))

Spec == Init /\ [][Next]_vars /\ Fairness

-----------------------------------------------------------------------------
(* Properties *)

Job == [id : 0..MaxRequeues, state : {"waiting", "active", "failed"},
        tries : 0..Attempts - 1, stalls : 0..StallLimit]

\* The header, the jobs and the processes have the shape the code gives them; no
\* job id goes past the cap, no job past its attempts.
TypeOK ==
  /\ row \in [status : Unsettled \cup {"absent", "done", "failed"}, requeue : 0..MaxRequeues,
              stale : BOOLEAN, reviewed : BOOLEAN, lines : {"none", "parsed", "confirmed"}]
  /\ upload \in {"idle", "adding", "over"}
  /\ queue \subseteq Job
  /\ parse \in [Workers -> [pc : {"idle", "start", "read", "return", "throw"},
                            id : 0..MaxRequeues, owns : BOOLEAN, attempt : 0..Attempts + 1]]
  /\ sweep \in [Sweeps -> [pc : {"idle", "check", "fail", "requeue", "add"},
                           seen : 0..MaxRequeues]]
  /\ shown \in [Reviewers -> {"nothing", "current", "replaced"}]
  /\ confirms \in Nat
  /\ faults \in 0..MaxFaults

\* However many reviewers confirm at once, and however often the document is
\* parsed again around them, one confirmation succeeds.
ConfirmedOnce == confirms <= 1

\* A document does not stay unsettled: after its upload died, its job was lost,
\* timed out or failed without a record, the sweep settles it in the end, and no
\* late attempt unsettles it for good.
SettlesForGood == <>[](row.status \notin Unsettled)
=============================================================================
