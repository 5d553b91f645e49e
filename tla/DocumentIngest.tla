--------------------------- MODULE DocumentIngest ----------------------------
(***************************************************************************)
(* A document of a knowledge base: how an upload or a crawler publishes its*)
(* content (documents.service.ts, scrape.processor.ts), how its job indexes*)
(* that content (ingest.service.ts, ingest.processor.ts) and how it is     *)
(* removed.  Every job of the document has the same id, so that the queue  *)
(* ignores an add while it still holds a job, failed ones included.        *)
(*                                                                         *)
(* A content stands for the chunk it is split into.                        *)
(***************************************************************************)
EXTENDS AnswerCache

CONSTANTS
  Workers,      \* handlers alive at once
  MaxContents,  \* bound on the contents published
  MaxTries      \* attempts of a job

ASSUME IngestBounds == MaxContents \in Nat /\ MaxTries \in Nat \ {0}

VARIABLES
  status,       \* documents.status, or "none" before the row and "removed" after it
  content,      \* the content its storageKey names, 0 before the first
  job, tries,   \* its job in the queue, and the attempts that have failed
  publisher,    \* what the upload, or the crawler at this page, has reached
  remover,      \* what remove() has reached
  worker,       \* the handlers
  chunks,       \* the indexed chunks of the document
  boot,         \* reconcileDocuments(), as the process starts
  dropped,      \* history: an add was ignored or refused while a job that had read the
                \* row before was still active
  outlived,     \* history: a handler went on after its timeout
  orphaned      \* history: the process died, or the database refused an update, before
                \* the job was added, or a handler failed or died after its timeout

docVars == <<status, content, job, tries, publisher, remover, worker, chunks, boot,
             dropped, outlived, orphaned>>

NoWork == [pc |-> "idle", content |-> 0, found |-> {}, late |-> FALSE]
Unsettled == status \in {"pending", "processing"}

DocTypeOK ==
  /\ status \in {"none", "pending", "processing", "done", "failed", "removed"}
  /\ content \in 0..MaxContents /\ chunks \subseteq 1..MaxContents
  /\ job \in {"absent", "waiting", "active", "failed"} /\ tries < MaxTries /\ tries \in Nat
  /\ \A w \in Workers : worker[w].content \in 0..MaxContents

DocInit ==
  /\ status = "none" /\ content = 0
  /\ job = "absent" /\ tries = 0
  /\ publisher = "idle" /\ remover = "idle" /\ boot = "off"
  /\ worker = [w \in Workers |-> NoWork]
  /\ chunks = {}
  /\ dropped = FALSE /\ outlived = FALSE /\ orphaned = FALSE

\* An update of the row, which does nothing when there is none.
Set(s) == status' = IF status = "removed" THEN status ELSE s

\* History: the chunks have changed.
Touch == epoch' = IF chunks' = chunks THEN epoch ELSE epoch + 1

-----------------------------------------------------------------------------
(* Publishing: the stored content and the row, then queueDocument() *)

Publish ==
  /\ publisher = "idle" /\ content < MaxContents /\ status # "removed"
  /\ content' = content + 1 /\ status' = "pending"
  /\ publisher' = "queue"
  /\ UNCHANGED <<cacheVars, job, tries, remover, worker, chunks, boot, dropped, outlived, orphaned>>

\* The update that precedes the add.  A crawler only counts the page as failed when it
\* is refused; an upload, the first content of its document, goes on to mark it failed.
MarkQueued ==
  /\ publisher = "queue"
  /\ \/ /\ Set("pending") /\ publisher' = "add"
        /\ UNCHANGED <<faults, orphaned>>
     \/ /\ Fault /\ UNCHANGED status
        /\ \/ publisher' = "idle" /\ orphaned' = TRUE
           \/ content = 1 /\ publisher' = "refused" /\ UNCHANGED orphaned
  /\ UNCHANGED <<questions, authors, announced, epoch, content, job, tries, remover, worker, chunks, boot,
                 dropped, outlived>>

HasRead == job = "active" /\ \E w \in Workers : worker[w].pc \notin {"idle", "begin", "load"}

AddJob ==
  /\ publisher = "add"
  /\ \/ /\ job = "absent" /\ job' = "waiting" /\ tries' = 0
        /\ publisher' = "idle"
        /\ dropped' = FALSE /\ orphaned' = FALSE
        /\ outlived' = \E w \in Workers : worker[w].pc # "idle"
        /\ UNCHANGED faults
     \/ /\ \/ job # "absent" /\ publisher' = "idle" /\ UNCHANGED faults
           \/ Fault /\ publisher' = "refused"
        /\ dropped' = (dropped \/ HasRead)
        /\ UNCHANGED <<job, tries, outlived, orphaned>>
  /\ UNCHANGED <<questions, authors, announced, epoch,
                 status, content, remover, worker, chunks, boot>>

\* The database may refuse this update as well.
MarkRefused ==
  /\ publisher = "refused" /\ publisher' = "idle"
  /\ \/ Set("failed") /\ UNCHANGED <<faults, orphaned>>
     \/ Fault /\ orphaned' = TRUE /\ UNCHANGED status
  /\ UNCHANGED <<questions, authors, announced, epoch, content, job, tries, remover, worker, chunks, boot,
                 dropped, outlived>>

\* remove(): the row goes, its chunks with it; then the announcement.
Remove ==
  /\ status \notin {"none", "removed"} /\ status' = "removed"
  /\ chunks' = {} /\ Touch
  /\ remover' = "bump"
  /\ UNCHANGED <<questions, authors, announced, faults, content, job, tries, publisher, worker, boot,
                 dropped, outlived, orphaned>>

AnnounceRemoval ==
  /\ remover = "bump" /\ remover' = "idle"
  /\ BumpVersion
  /\ UNCHANGED <<questions, authors, epoch, status, content, job, tries, publisher, worker, chunks, boot,
                 dropped, outlived, orphaned>>

-----------------------------------------------------------------------------
(* The job: handleIngest() *)

Go(w, label) == worker' = [worker EXCEPT ![w].pc = label]
Reached(w, label) == worker[w].pc = label
Elsewhere == UNCHANGED <<content, publisher, remover, boot, orphaned, questions, authors>>

Take(w) ==
  /\ Reached(w, "idle") /\ job = "waiting" /\ job' = "active"
  /\ Go(w, "begin")
  /\ UNCHANGED <<status, tries, chunks, dropped, outlived, announced, faults, epoch>> /\ Elsewhere

Begin(w) ==
  /\ Reached(w, "begin") /\ Go(w, "load")
  /\ Set("processing")
  /\ UNCHANGED <<job, tries, chunks, dropped, outlived, announced, faults, epoch>> /\ Elsewhere

\* How the job ends unless it has timed out: an error has it tried again, up to the
\* last attempt, and it is kept as failed.
Retry == IF tries + 1 < MaxTries
         THEN job' = "waiting" /\ tries' = tries + 1
         ELSE job' = "failed" /\ UNCHANGED tries
Ends(w, how) ==
  /\ worker' = [worker EXCEPT ![w] = NoWork]
  /\ \/ worker[w].late /\ UNCHANGED <<job, tries>>
     \/ ~worker[w].late /\ how

LoadRow(w) ==
  /\ Reached(w, "load")
  /\ \/ /\ status = "removed"
        /\ Ends(w, Retry)
     \/ /\ status # "removed"
        /\ worker' = [worker EXCEPT ![w].pc = "index", ![w].content = content]
        /\ UNCHANGED <<job, tries>>
  /\ UNCHANGED <<status, chunks, dropped, outlived, announced, faults, epoch>> /\ Elsewhere

\* The file is fetched, split and embedded, and syncChunks() reads what is indexed.
ReadChunks(w) ==
  /\ Reached(w, "index")
  /\ worker' = [worker EXCEPT ![w].pc = "delete", ![w].found = chunks]
  /\ UNCHANGED <<status, job, tries, chunks, dropped, outlived, announced, faults, epoch>> /\ Elsewhere

DeleteChunks(w) ==
  /\ Reached(w, "delete") /\ Go(w, "insert")
  /\ chunks' = chunks \ (worker[w].found \ {worker[w].content}) /\ Touch
  /\ UNCHANGED <<status, job, tries, dropped, outlived, announced, faults>> /\ Elsewhere

\* Only what was not found before; a removed document refuses it.
InsertChunks(w) ==
  /\ Reached(w, "insert")
  /\ LET new == {worker[w].content} \ worker[w].found
     IN  \/ /\ status = "removed" /\ new # {}
            /\ chunks' = chunks /\ Go(w, "catch")
            /\ unannounced' = (unannounced \/ epoch > floor)
         \/ /\ ~(status = "removed" /\ new # {})
            /\ chunks' = chunks \cup new /\ Go(w, "done")
            /\ UNCHANGED unannounced
  /\ Touch
  /\ UNCHANGED <<status, job, tries, dropped, outlived, version, floor, faults>> /\ Elsewhere

Finish(w) ==
  /\ Reached(w, "done") /\ Go(w, "bump")
  /\ Set("done")
  /\ UNCHANGED <<job, tries, chunks, dropped, outlived, announced, faults, epoch>> /\ Elsewhere

AnnounceChunks(w) ==
  /\ Reached(w, "bump") /\ Go(w, "end")
  /\ BumpVersion
  /\ UNCHANGED <<status, job, tries, chunks, dropped, outlived, epoch>> /\ Elsewhere

\* A step of the try block fails: an unreadable file, the provider, the database.
IngestFails(w) ==
  /\ worker[w].pc \in {"index", "delete", "insert", "done"}
  /\ Fault /\ Go(w, "catch")
  /\ unannounced' = (unannounced \/ epoch > floor)
  /\ UNCHANGED <<status, job, tries, chunks, dropped, outlived, version, floor, epoch>> /\ Elsewhere

\* Mutant of Catch: the failure is only logged.
CatchQuietly(w) ==
  /\ Reached(w, "catch") /\ Go(w, "end")
  /\ UNCHANGED <<status, job, tries, chunks, dropped, outlived, announced, faults, epoch>> /\ Elsewhere

Catch(w) ==
  /\ Reached(w, "catch") /\ Go(w, "end")
  /\ Set("failed")
  /\ UNCHANGED <<job, tries, chunks, dropped, outlived, announced, faults, epoch>> /\ Elsewhere

End(w) ==
  /\ Reached(w, "end")
  /\ Ends(w, job' = "absent" /\ UNCHANGED tries)
  /\ UNCHANGED <<status, chunks, dropped, outlived, announced, faults, epoch>> /\ Elsewhere

\* The database refuses an update outside the try block.  After a timeout nothing
\* tries it again.
Throw(w) ==
  /\ worker[w].pc \in {"begin", "load", "catch"}
  /\ Fault /\ Ends(w, Retry)
  /\ orphaned' = (orphaned \/ worker[w].late)
  /\ UNCHANGED <<status, chunks, dropped, outlived, announced, epoch>>
  /\ UNCHANGED <<content, publisher, remover, boot, questions, authors>>

\* The queue gives the attempt up; its handler goes on.
Timeout(w) ==
  /\ worker[w].pc # "idle" /\ ~worker[w].late
  /\ Fault /\ Retry
  /\ worker' = [worker EXCEPT ![w].late = TRUE]
  /\ outlived' = TRUE
  /\ UNCHANGED <<status, chunks, dropped, announced, epoch>> /\ Elsewhere

-----------------------------------------------------------------------------
(* The process dies and starts again: reconcileDocuments() *)

\* An active job is found stalled and redelivered, or kept as failed.
DocDies ==
  /\ publisher' = "idle" /\ remover' = "idle" /\ boot' = "on"
  /\ worker' = [w \in Workers |-> NoWork]
  /\ \/ job = "active" /\ job' \in {"waiting", "failed"}
     \/ job # "active" /\ UNCHANGED job
  /\ orphaned' = (orphaned \/ publisher # "idle" \/ \E w \in Workers : worker[w].late)
  /\ UNCHANGED <<status, content, tries, chunks, dropped, outlived>>

\* A row that is old enough and whose job is not there, or cannot be read.
Reconcile ==
  /\ boot = "on"
  /\ \/ /\ boot' = "off"
        /\ UNCHANGED faults
     \/ /\ Unsettled /\ boot' = "fail"
        /\ \/ job = "absent" /\ UNCHANGED faults
           \/ job # "absent" /\ Fault
  /\ UNCHANGED <<questions, authors, announced, epoch, status, content, job, tries, publisher, remover,
                 worker, chunks, dropped, outlived, orphaned>>

\* A refused update ends the reconciliation, which is only logged.
ReconcileFails ==
  /\ boot = "fail" /\ boot' = "off"
  /\ \/ Set("failed") /\ UNCHANGED faults
     \/ Fault /\ UNCHANGED status
  /\ UNCHANGED <<questions, authors, announced, epoch, content, job, tries, publisher, remover, worker,
                 chunks, dropped, outlived, orphaned>>

Document ==
  \/ Publish \/ MarkQueued \/ AddJob \/ MarkRefused \/ Remove \/ AnnounceRemoval
  \/ Reconcile \/ ReconcileFails
  \/ \E w \in Workers :
       \/ Take(w) \/ Begin(w) \/ LoadRow(w) \/ ReadChunks(w) \/ DeleteChunks(w)
       \/ InsertChunks(w) \/ Finish(w) \/ AnnounceChunks(w) \/ IngestFails(w) \/ Catch(w)
       \/ End(w) \/ Throw(w) \/ Timeout(w)

-----------------------------------------------------------------------------
DocAtRest ==
  /\ publisher = "idle" /\ remover = "idle" /\ boot = "off"
  /\ \A w \in Workers : worker[w].pc = "idle"
  /\ job \notin {"waiting", "active"}

\* A document that is done is indexed by its last content and by nothing else, unless
\* - queueing that content had no effect because a job that had read the row before
\*   was still active, or because the queue refused it then;
\* - its job failed and is kept, or a handler outlived its timeout;
\* - or the process died, or the database refused an update of the row, before that
\*   content was queued.
Excused == job = "failed" \/ dropped \/ orphaned

DoneIsIndexed ==
  DocAtRest /\ status = "done" => chunks = {content} \/ Excused \/ outlived

\* Once nothing is under way the document is done, failed or gone, unless
\* - a failed job is kept under its id;
\* - it was queued again while its job was about to end, or the queue refused it then;
\* - before its job was added, the process died and took the row for too young as it
\*   started, or the database refused an update of the row (the one that precedes the
\*   add, or the one that records that the queue refused it);
\* - or a handler failed, or died with the process, after its timeout.
DocumentSettled ==
  DocAtRest /\ Unsettled => Excused
=============================================================================
