------------------------------ MODULE CrawlRuns ------------------------------
(***************************************************************************)
(* The crawls of one website: the requests that start one or take part in  *)
(* the one in progress (scrape.service.ts), the job that crawls            *)
(* (scrape.processor.ts), and what gives a crawl up: the queue, a request, *)
(* or the check made as the process starts.                                *)
(*                                                                         *)
(* crawls is in the order of created_at.  A job has the id of its run.     *)
(***************************************************************************)
EXTENDS AnswerCache, Sequences, FiniteSetsExt

CONSTANTS
  Starters,   \* requests in progress at once
  MaxCrawls   \* bound on crawls

ASSUME CrawlsNatural == MaxCrawls \in Nat

VARIABLES
  crawls,     \* scrape_runs: status, whether queue_job_id is set, its job, its handler
  starter,    \* what each request has reached, and the run it is about
  listener,   \* runs whose job's failure has yet to be heard
  checking,   \* the runs that reconcileRuns() has selected and has yet to look at
  met,        \* history: two requests overlapped, or a run given up came back
  forsaken    \* history: runs without a job as the process started, or that the database
              \* kept from getting one, or whose handler failed after its timeout

crawlVars == <<crawls, starter, listener, checking, met, forsaken>>

Crawl == [status : {"queued", "running", "completed", "failed"}, named : BOOLEAN,
          job : {"absent", "waiting", "active", "failed"},
          pc : {"idle", "start", "crawl", "end"}, late : BOOLEAN]
NewCrawl == [status |-> "queued", named |-> FALSE, job |-> "absent", pc |-> "idle", late |-> FALSE]
NoStart == [pc |-> "idle", run |-> 0]

CrawlTypeOK ==
  /\ crawls \in Seq(Crawl) /\ Len(crawls) <= MaxCrawls
  /\ \A c \in Starters : starter[c].run \in 0..Len(crawls)
  /\ listener \subseteq DOMAIN crawls /\ checking \subseteq DOMAIN crawls

CrawlInit ==
  /\ crawls = <<>> /\ starter = [c \in Starters |-> NoStart]
  /\ listener = {} /\ checking = {}
  /\ met = FALSE /\ forsaken = {}

Live(s) == s \in {"queued", "running"}
InFlight == {n \in DOMAIN crawls : Live(crawls[n].status)}
Put(n, c) == crawls' = [crawls EXCEPT ![n] = c]

\* Mutant of FailRun: by its id alone.
FailRunAnyway(n) == [crawls EXCEPT ![n].status = "failed"]

\* failRun(): only a run that is still queued or running.
FailRun(n) == IF n \in InFlight THEN [crawls EXCEPT ![n].status = "failed"] ELSE crawls

-----------------------------------------------------------------------------
(* startScrape() *)

Unheard == UNCHANGED <<questions, authors, announced, epoch, listener, checking>>
Steady == Unheard /\ UNCHANGED forsaken
At(c, label) == starter[c].pc = label

\* The database refuses what the request would write, and the request fails.
WriteRefused(c) ==
  /\ Fault /\ starter' = [starter EXCEPT ![c] = NoStart]
  /\ UNCHANGED crawls

\* Mutant of FindInFlight: a queued run is not looked for.
FindRunning(c) ==
  /\ At(c, "idle") /\ Len(crawls) < MaxCrawls
  /\ LET running == {n \in InFlight : crawls[n].status = "running"}
     IN  starter' = [starter EXCEPT ![c] = IF running = {} THEN [pc |-> "insert", run |-> 0]
                                           ELSE [pc |-> "look", run |-> Max(running)]]
  /\ met' = (met \/ \E o \in Starters : ~At(o, "idle"))
  /\ UNCHANGED <<crawls, faults>> /\ Steady

\* The latest run in flight of this site, within the quota of documents.
FindInFlight(c) ==
  /\ At(c, "idle") /\ Len(crawls) < MaxCrawls
  /\ starter' = [starter EXCEPT ![c] = IF InFlight = {} THEN [pc |-> "insert", run |-> 0]
                                       ELSE [pc |-> "look", run |-> Max(InFlight)]]
  /\ met' = (met \/ \E o \in Starters : ~At(o, "idle"))
  /\ UNCHANGED <<crawls, faults>> /\ Steady

\* The run is shared while the queue has its job or it is young; a job that cannot be
\* read counts as missing.
LookAtJob(c) ==
  /\ At(c, "look")
  /\ LET n == starter[c].run
     IN  \/ /\ starter' = [starter EXCEPT ![c] = NoStart] /\ UNCHANGED faults
         \/ /\ starter' = [starter EXCEPT ![c].pc = "replace"]
            /\ IF crawls[n].named /\ crawls[n].job # "absent" THEN Fault ELSE UNCHANGED faults
  /\ UNCHANGED <<crawls, met>> /\ Steady

Replace(c) ==
  /\ At(c, "replace")
  /\ \/ /\ crawls' = FailRun(starter[c].run)
        /\ starter' = [starter EXCEPT ![c] = [pc |-> "insert", run |-> 0]]
        /\ UNCHANGED faults
     \/ WriteRefused(c)
  /\ UNCHANGED met /\ Steady

InsertCrawl(c) ==
  /\ At(c, "insert") /\ Len(crawls) < MaxCrawls
  /\ \/ /\ crawls' = Append(crawls, NewCrawl)
        /\ starter' = [starter EXCEPT ![c] = [pc |-> "name", run |-> Len(crawls) + 1]]
        /\ UNCHANGED faults
     \/ WriteRefused(c)
  /\ UNCHANGED met /\ Steady

\* When this update is refused the run stays queued, and no job will ever carry it.
NameJob(c) ==
  /\ At(c, "name")
  /\ \/ /\ crawls' = [crawls EXCEPT ![starter[c].run].named = TRUE]
        /\ starter' = [starter EXCEPT ![c].pc = "add"]
        /\ UNCHANGED <<faults, forsaken>>
     \/ WriteRefused(c) /\ forsaken' = forsaken \cup {starter[c].run}
  /\ UNCHANGED met /\ Unheard

AddCrawl(c) ==
  /\ At(c, "add")
  /\ \/ /\ crawls' = [crawls EXCEPT ![starter[c].run].job = "waiting"]
        /\ starter' = [starter EXCEPT ![c] = NoStart] /\ UNCHANGED faults
     \/ Fault /\ starter' = [starter EXCEPT ![c].pc = "refused"] /\ UNCHANGED crawls
  /\ UNCHANGED met /\ Steady

CrawlRefused(c) ==
  /\ At(c, "refused")
  /\ \/ /\ crawls' = FailRun(starter[c].run)
        /\ starter' = [starter EXCEPT ![c] = NoStart]
        /\ UNCHANGED <<faults, forsaken>>
     \/ WriteRefused(c) /\ forsaken' = forsaken \cup {starter[c].run}
  /\ UNCHANGED met /\ Unheard

-----------------------------------------------------------------------------
(* handleScrape() *)

Alone == UNCHANGED <<questions, authors, announced, epoch, starter, checking, forsaken>>

TakeCrawl(n) ==
  /\ crawls[n].job = "waiting"
  /\ Put(n, [crawls[n] EXCEPT !.job = "active", !.pc = "start"])
  /\ UNCHANGED <<faults, listener, met>> /\ Alone

\* Running, even a run that was given up meanwhile.
StartCrawl(n) ==
  /\ crawls[n].pc = "start"
  /\ Put(n, [crawls[n] EXCEPT !.status = "running", !.pc = "crawl"])
  /\ met' = (met \/ ~Live(crawls[n].status))
  /\ UNCHANGED <<faults, listener>> /\ Alone

\* Completed or failed, whatever the run has become.
EndCrawl(n) ==
  /\ crawls[n].pc = "crawl"
  /\ \E s \in {"completed", "failed"} : Put(n, [crawls[n] EXCEPT !.status = s, !.pc = "end"])
  /\ UNCHANGED <<faults, listener, met>> /\ Alone

LeaveCrawl(n) ==
  /\ crawls[n].pc = "end"
  /\ Put(n, [crawls[n] EXCEPT !.pc = "idle", !.late = FALSE,
                              !.job = IF crawls[n].late THEN @ ELSE "absent"])
  /\ UNCHANGED <<faults, listener, met>> /\ Alone

\* The database refuses the update at the start, or the one in the catch block.
CrawlThrows(n) ==
  /\ crawls[n].pc \in {"start", "crawl"} /\ Fault
  /\ Put(n, [crawls[n] EXCEPT !.pc = "idle", !.late = FALSE, !.job = "failed"])
  /\ IF crawls[n].late
     THEN forsaken' = forsaken \cup {n} /\ UNCHANGED listener
     ELSE listener' = listener \cup {n} /\ UNCHANGED forsaken
  /\ UNCHANGED <<questions, authors, announced, epoch, starter, checking, met>>

\* The only attempt times out; its handler goes on.
CrawlTimeout(n) ==
  /\ crawls[n].pc # "idle" /\ ~crawls[n].late /\ Fault
  /\ Put(n, [crawls[n] EXCEPT !.job = "failed", !.late = TRUE])
  /\ listener' = listener \cup {n}
  /\ UNCHANGED met /\ Alone

\* Nobody awaits this update: when it is refused, the rejection ends the process.
HearFailure(n) ==
  /\ n \in listener /\ listener' = listener \ {n}
  /\ crawls' = FailRun(n)
  /\ UNCHANGED <<faults, met>> /\ Alone

-----------------------------------------------------------------------------
(* The process dies and starts again: reconcileRuns() *)

CrawlDies ==
  /\ starter' = [c \in Starters |-> NoStart]
  /\ \E after \in {"waiting", "failed"} :
       LET active == {n \in DOMAIN crawls : crawls[n].job = "active"}
       IN  /\ crawls' = [n \in DOMAIN crawls |->
                [crawls[n] EXCEPT !.pc = "idle", !.late = FALSE,
                                  !.job = IF n \in active THEN after ELSE @]]
           /\ listener' = IF after = "failed" THEN active ELSE {}
  /\ forsaken' = forsaken \cup {n \in InFlight : crawls[n].job \notin {"waiting", "active"}}
  /\ checking' = InFlight
  /\ UNCHANGED met

\* Given up: running without progress, whatever its job; or old and without a job.  The
\* check ends with an update that is refused.
CheckRun(n) ==
  /\ n \in checking
  /\ \/ checking' = checking \ {n} /\ UNCHANGED <<crawls, faults>>
     \/ /\ \/ crawls[n].status = "running" /\ UNCHANGED faults
           \/ crawls[n].job = "absent" /\ UNCHANGED faults
           \/ crawls[n].job # "absent" /\ Fault
        /\ checking' = checking \ {n} /\ crawls' = FailRun(n)
     \/ checking' = {} /\ Fault /\ UNCHANGED crawls
  /\ UNCHANGED <<questions, authors, announced, epoch, starter, listener, met, forsaken>>

CrawlStep ==
  \/ \E c \in Starters :
       \/ FindInFlight(c) \/ LookAtJob(c) \/ Replace(c) \/ InsertCrawl(c) \/ NameJob(c)
       \/ AddCrawl(c) \/ CrawlRefused(c)
  \/ \E n \in DOMAIN crawls :
       \/ TakeCrawl(n) \/ StartCrawl(n) \/ EndCrawl(n) \/ LeaveCrawl(n) \/ CrawlThrows(n)
       \/ CrawlTimeout(n) \/ HearFailure(n) \/ CheckRun(n)

-----------------------------------------------------------------------------
\* A site is crawled once at a time, whatever requests, timeouts and starts of the
\* process do, unless two requests overlapped or a run that was given up started or
\* ended after all.
OneCrawl == Cardinality(InFlight) <= 1 \/ met

\* A crawl that is over changes only by its own handler, which was taken for dead:
\* neither a request, nor the check, nor a failure heard late rewrites its outcome.
OutcomeKept == [][\A n \in DOMAIN crawls :
  ~Live(crawls[n].status) /\ crawls'[n].status # crawls[n].status
    => crawls[n].pc # "idle" /\ crawls'[n].pc # crawls[n].pc]_crawls

CrawlAtRest ==
  /\ listener = {} /\ checking = {}
  /\ \A c \in Starters : At(c, "idle")
  /\ \A n \in DOMAIN crawls : crawls[n].pc = "idle" /\ crawls[n].job \notin {"waiting", "active"}

\* Once nothing is under way every crawl is completed or failed, unless
\* - the process died and took the run for too young as it started, or its failure was
\*   lost with the process;
\* - the database refused the update that precedes the add of its job, or the one that
\*   records that the queue refused it;
\* - or its handler failed after its timeout without recording it.
CrawlSettled == CrawlAtRest => InFlight \subseteq forsaken
=============================================================================
