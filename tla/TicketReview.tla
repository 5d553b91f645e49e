---------------------------- MODULE TicketReview -----------------------------
(***************************************************************************)
(* A support ticket: its extraction from a transcript by a job             *)
(* (tickets.service.ts, ticket-extraction.processor.ts), the edits of its  *)
(* reviewers, and the chunk that makes a reviewed and useful ticket        *)
(* retrievable (syncTicketChunk, vectorstore/index.ts).                    *)
(*                                                                         *)
(* A text stands for the fields of the ticket: text 0 before the first.    *)
(***************************************************************************)
EXTENDS AnswerCache

CONSTANTS
  Editors,    \* edits in progress at once
  MaxTexts    \* bound on the texts written and on the edits

ASSUME TextsNatural == MaxTexts \in Nat

VARIABLES
  ticket,     \* the row: status, text, reviewed, useful
  texts,      \* how many texts have been written
  edits,
  creator,    \* what create() has reached
  extraction, \* its job, and the handler
  editor,     \* what each update() has reached, and the rows it holds
  tchunk,     \* the text of the indexed chunk, 0 while there is none
  tboot,      \* reconcileTickets(), as the process starts
  doubted,    \* history: the chunk may not follow the row
  abandoned   \* history: nothing will settle the ticket before the next start

ticketVars == <<ticket, texts, edits, creator, extraction, editor, tchunk, tboot, doubted, abandoned>>

Row == [status : {"none", "pending", "processing", "done", "failed"}, text : 0..MaxTexts,
        reviewed : BOOLEAN, useful : BOOLEAN]
NoRow == [status |-> "none", text |-> 0, reviewed |-> FALSE, useful |-> FALSE]
NoEdit == [pc |-> "idle", existing |-> NoRow, updated |-> NoRow, crowded |-> FALSE]
NoJob == [job |-> "absent", pc |-> "idle", late |-> FALSE]

TicketTypeOK ==
  /\ ticket \in Row /\ texts \in 0..MaxTexts /\ edits \in 0..MaxTexts
  /\ extraction.job \in {"absent", "waiting", "active", "failed"}
  /\ \A e \in Editors : editor[e].existing \in Row /\ editor[e].updated \in Row
  /\ tchunk \in 0..MaxTexts

TicketInit ==
  /\ ticket = NoRow /\ texts = 0 /\ edits = 0
  /\ creator = "idle" /\ extraction = NoJob
  /\ editor = [e \in Editors |-> NoEdit]
  /\ tchunk = 0 /\ tboot = "off"
  /\ doubted = FALSE /\ abandoned = FALSE

Settling == ticket.status \in {"pending", "processing"}
SetTicket(s) == ticket' = [ticket EXCEPT !.status = s]
TouchTicket == epoch' = IF tchunk' = tchunk THEN epoch ELSE epoch + 1
Busy(e) == editor[e].pc # "idle"

-----------------------------------------------------------------------------
(* create() and queueTicket(): one row for a transcript, then one job for it *)

Create ==
  /\ ticket.status = "none" /\ SetTicket("pending")
  /\ creator' = "queue"
  /\ UNCHANGED <<cacheVars, texts, edits, extraction, editor, tchunk, tboot, doubted, abandoned>>

\* An update of queueTicket(): when it is refused create() fails and leaves the row as it
\* is, without a job.  Called again with the transcript, it finds that row and queues
\* nothing.
QueueUpdate(s, next) ==
  /\ \/ SetTicket(s) /\ creator' = next /\ UNCHANGED <<faults, abandoned>>
     \/ Fault /\ creator' = "idle" /\ abandoned' = TRUE /\ UNCHANGED ticket
  /\ UNCHANGED <<questions, authors, announced, epoch, texts, edits, extraction, editor, tchunk, tboot,
                 doubted>>

MarkTicket == creator = "queue" /\ QueueUpdate("pending", "add")

AddExtraction ==
  /\ creator = "add"
  /\ \/ creator' = "idle" /\ extraction' = [extraction EXCEPT !.job = "waiting"] /\ UNCHANGED faults
     \/ Fault /\ creator' = "refused" /\ UNCHANGED extraction
  /\ UNCHANGED <<questions, authors, announced, epoch, ticket, texts, edits, editor, tchunk, tboot,
                 doubted, abandoned>>

RefuseTicket == creator = "refused" /\ QueueUpdate("failed", "idle")

-----------------------------------------------------------------------------
(* handleExtraction() *)

Reach(label) == extraction' = [extraction EXCEPT !.pc = label]
Quietly == UNCHANGED <<questions, authors, announced, epoch, edits, creator, editor, tchunk, tboot>>

\* The job is over, unless it has timed out and is kept as failed.
Over == extraction' = IF extraction.late THEN [extraction EXCEPT !.pc = "idle"] ELSE NoJob

\* Only a pending ticket is extracted: a job redelivered after a death leaves it.
StartExtraction ==
  /\ extraction.job = "waiting"
  /\ \/ /\ ticket.status = "pending" /\ SetTicket("processing")
        /\ extraction' = [job |-> "active", pc |-> "extract", late |-> FALSE]
        /\ UNCHANGED abandoned
     \/ /\ ticket.status # "pending" /\ UNCHANGED ticket
        /\ extraction' = NoJob
        /\ abandoned' = (abandoned \/ Settling)
  /\ UNCHANGED <<texts, faults, doubted>> /\ Quietly

\* The extracted fields replace those of the row, a reviewer's included.
WriteExtraction ==
  /\ extraction.pc = "extract"
  /\ \/ /\ Settling /\ texts < MaxTexts /\ texts' = texts + 1
        /\ ticket' = [ticket EXCEPT !.status = "done", !.text = texts']
        /\ doubted' = (doubted \/ ticket.reviewed)
     \/ ~Settling /\ UNCHANGED <<ticket, texts, doubted>>
  /\ Over
  /\ UNCHANGED <<faults, abandoned>> /\ Quietly

\* The model or the budget refuses it: failed, whatever the row says by now.
ExtractionFails ==
  /\ extraction.pc = "extract" /\ Fault
  /\ SetTicket("failed") /\ Over
  /\ UNCHANGED <<texts, doubted, abandoned>> /\ Quietly

\* The database refuses an update, or a read, outside the try block: the job is kept.
ExtractionThrows ==
  /\ extraction.job = "waiting" \/ extraction.pc = "extract"
  /\ Fault
  /\ extraction' = [NoJob EXCEPT !.job = "failed"]
  /\ UNCHANGED <<ticket, texts, doubted, abandoned>> /\ Quietly

\* The only attempt times out; its handler goes on.
ExtractionTimeout ==
  /\ extraction.pc = "extract" /\ ~extraction.late /\ Fault
  /\ extraction' = [extraction EXCEPT !.job = "failed", !.late = TRUE]
  /\ UNCHANGED <<ticket, texts, doubted, abandoned>> /\ Quietly

-----------------------------------------------------------------------------
(* update(), then syncTicketChunk() with the row it has written *)

Aside == UNCHANGED <<questions, authors, creator, extraction, tboot, abandoned, edits>>
Step(e, label) == editor' = [editor EXCEPT ![e].pc = label]

\* History: edits of one ticket that overlap.
OpenTicket(e) ==
  /\ ~Busy(e) /\ ticket.status # "none"
  /\ edits < MaxTexts /\ edits' = edits + 1
  /\ LET others == {o \in Editors : Busy(o)}
     IN  /\ editor' = [o \in Editors |->
              IF o = e THEN [pc |-> "update", existing |-> ticket, updated |-> NoRow,
                             crowded |-> others # {}]
              ELSE [editor[o] EXCEPT !.crowded = @ \/ o \in others]]
         /\ doubted' = (doubted \/ others # {})
  /\ UNCHANGED <<questions, authors, announced, faults, epoch, ticket, texts, creator, extraction, tchunk,
                 tboot, abandoned>>

\* Mutant of ShouldSync: a ticket that no longer qualifies is not looked at.
ShouldSyncUseful(existing, updated) == updated.status = "done" /\ updated.useful

ShouldSync(existing, updated) ==
  updated.status = "done" /\ (updated.useful \/ existing.useful \/ existing.reviewed)

UpdateTicket(e) ==
  /\ editor[e].pc = "update"
  /\ \E rewrite \in BOOLEAN, useful \in BOOLEAN :
       /\ rewrite => texts < MaxTexts
       /\ texts' = IF rewrite THEN texts + 1 ELSE texts
       /\ ticket' = [ticket EXCEPT !.text = IF rewrite THEN texts' ELSE @,
                                   !.reviewed = TRUE, !.useful = useful]
       /\ editor' = [editor EXCEPT ![e] =
            IF ShouldSync(editor[e].existing, ticket')
            THEN [@ EXCEPT !.pc = "find", !.updated = ticket'] ELSE NoEdit]
       /\ doubted' = (editor[e].crowded \/ (doubted /\ ticket.status # "done"))
  /\ UNCHANGED <<announced, faults, epoch, tchunk>> /\ Aside

\* The database refuses the update.
EditRefused(e) ==
  /\ editor[e].pc = "update" /\ Fault
  /\ editor' = [editor EXCEPT ![e] = NoEdit]
  /\ UNCHANGED <<announced, epoch, ticket, texts, tchunk, doubted>> /\ Aside

\* History: doubt, as the sync ends early.
GiveUp(e) ==
  /\ editor' = [editor EXCEPT ![e] = NoEdit]
  /\ doubted' = TRUE
  /\ unannounced' = (unannounced \/ epoch > floor)
  /\ UNCHANGED <<version, floor>>

FindChunk(e) ==
  /\ editor[e].pc = "find"
  /\ LET u == editor[e].updated
     IN  editor' = [editor EXCEPT ![e] =
           IF (u.useful /\ tchunk = u.text) \/ (~u.useful /\ tchunk = 0)
           THEN NoEdit ELSE [@ EXCEPT !.pc = "delete"]]
  /\ UNCHANGED <<announced, faults, epoch, ticket, texts, tchunk, doubted>> /\ Aside

\* Mutant of DeleteChunk: only a new chunk is announced.
DeleteChunkQuietly(e) ==
  /\ editor[e].pc = "delete"
  /\ tchunk' = 0 /\ TouchTicket
  /\ editor' = [editor EXCEPT ![e] =
       IF editor[e].updated.useful THEN [@ EXCEPT !.pc = "insert"] ELSE NoEdit]
  /\ UNCHANGED <<announced, faults, ticket, texts, doubted>> /\ Aside

DeleteChunk(e) ==
  /\ editor[e].pc = "delete"
  /\ tchunk' = 0 /\ TouchTicket
  /\ Step(e, IF editor[e].updated.useful THEN "insert" ELSE "bump")
  /\ UNCHANGED <<announced, faults, ticket, texts, doubted>> /\ Aside

\* One chunk for a ticket: the second of two inserts is refused.
InsertChunk(e) ==
  /\ editor[e].pc = "insert"
  /\ \/ /\ tchunk = 0 /\ tchunk' = editor[e].updated.text
        /\ Step(e, "bump")
        /\ UNCHANGED <<announced, doubted>>
     \/ tchunk # 0 /\ GiveUp(e) /\ UNCHANGED tchunk
  /\ TouchTicket
  /\ UNCHANGED <<faults, ticket, texts>> /\ Aside

\* The provider or the database fails: update() only warns.
SyncFails(e) ==
  /\ editor[e].pc \in {"find", "delete", "insert"} /\ Fault
  /\ GiveUp(e)
  /\ UNCHANGED <<epoch, ticket, texts, tchunk>> /\ Aside

AnnounceTicket(e) ==
  /\ editor[e].pc = "bump"
  /\ BumpVersion
  /\ editor' = [editor EXCEPT ![e] = NoEdit]
  /\ UNCHANGED <<epoch, ticket, texts, tchunk, doubted>> /\ Aside

-----------------------------------------------------------------------------
(* The process dies and starts again: reconcileTickets() *)

TicketDies ==
  /\ creator' = "idle" /\ tboot' = "on"
  /\ doubted' = (doubted \/ \E e \in Editors : Busy(e))
  /\ editor' = [e \in Editors |-> NoEdit]
  /\ \/ extraction.job = "active" /\ \E j \in {"waiting", "failed"} :
          extraction' = [NoJob EXCEPT !.job = j]
     \/ extraction.job # "active" /\ extraction' = [NoJob EXCEPT !.job = extraction.job]
  /\ UNCHANGED <<ticket, texts, edits, tchunk, abandoned>>

ReconcileTicket ==
  /\ tboot = "on"
  /\ \/ /\ tboot' = "off"
        /\ abandoned' = (abandoned \/ (Settling /\ extraction.job = "absent" /\ creator = "idle"))
        /\ UNCHANGED faults
     \/ /\ Settling /\ tboot' = "fail"
        /\ \/ extraction.job = "absent" /\ UNCHANGED faults
           \/ extraction.job # "absent" /\ Fault
        /\ UNCHANGED abandoned
  /\ UNCHANGED <<questions, authors, announced, epoch, ticket, texts, edits, creator, extraction, editor,
                 tchunk, doubted>>

\* By its id alone, whatever became of the ticket since it was selected.  A refused update
\* ends the reconciliation, which is only logged.
ReconcileTicketFails ==
  /\ tboot = "fail" /\ tboot' = "off"
  /\ \/ /\ SetTicket("failed")
        /\ doubted' = (doubted \/ ticket.status = "done")
        /\ UNCHANGED <<faults, abandoned>>
     \/ /\ Fault
        /\ abandoned' = (abandoned \/ (Settling /\ extraction.job = "absent" /\ creator = "idle"))
        /\ UNCHANGED <<ticket, doubted>>
  /\ UNCHANGED <<questions, authors, announced, epoch, texts, edits, creator, extraction, editor, tchunk>>

Ticket ==
  \/ Create \/ MarkTicket \/ AddExtraction \/ RefuseTicket
  \/ StartExtraction \/ WriteExtraction \/ ExtractionFails \/ ExtractionThrows \/ ExtractionTimeout
  \/ ReconcileTicket \/ ReconcileTicketFails
  \/ \E e \in Editors :
       \/ OpenTicket(e) \/ UpdateTicket(e) \/ EditRefused(e) \/ FindChunk(e)
       \/ DeleteChunk(e) \/ InsertChunk(e) \/ SyncFails(e) \/ AnnounceTicket(e)

-----------------------------------------------------------------------------
TicketAtRest ==
  /\ creator = "idle" /\ tboot = "off"
  /\ extraction.pc = "idle" /\ extraction.job \notin {"waiting", "active"}
  /\ \A e \in Editors : ~Busy(e)

\* The list of tickets calls a ticket indexed when it is done, reviewed and useful:
\* so it is, with its last text, and any other ticket is not, unless its review came
\* before its extraction ended, its edits overlapped or its last sync failed.  The next
\* edit that nothing disturbs puts it right.
Indexed == ticket.status = "done" /\ ticket.reviewed /\ ticket.useful

TicketIsIndexed ==
  TicketAtRest /\ ~doubted => tchunk = IF Indexed THEN ticket.text ELSE 0

\* Once nothing is under way the ticket is done or failed, unless its job failed and is
\* kept, or the process died, or the database refused an update of the row, before it was
\* queued, or the process died during its extraction.
TicketSettled ==
  TicketAtRest /\ Settling => extraction.job = "failed" \/ abandoned
=============================================================================
