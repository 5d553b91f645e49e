---------------------------- MODULE CatalogParse -----------------------------
(***************************************************************************)
(* The life of an uploaded catalogue (catalog-documents.service.ts,        *)
(* catalog-parse.service.ts, catalog-parse.processor.ts).  Its service is  *)
(* "a single-kind mirror" of procurement's, so its queue, its attempts and *)
(* its sweep take the steps of DocumentParse; there is no review.  What    *)
(* differs is the write: items are deleted, inserted and the header        *)
(* finished by three statements, outside any transaction.                  *)
(***************************************************************************)
EXTENDS Integers, FiniteSets

CONSTANTS Workers, Sweeps, Attempts, MaxRequeues, MaxFaults

VARIABLES
  row, upload, queue, parse, sweep, faults, \* as in DocumentParse
  shown, confirms, \* a catalogue is not reviewed: these never change
  write,       \* the statements of replaceItems() each attempt has run
  copies,      \* catalog_items: how many times they hold the file's items
  overlapped   \* history: an attempt started while another was running

queueVars == <<row, upload, queue, parse, sweep, faults, shown, confirms>>
itemVars == <<write, copies, overlapped>>
vars == <<queueVars, itemVars>>

P == INSTANCE DocumentParse WITH Reviewers <- {}

Init ==
  /\ P!Init
  /\ write = [w \in Workers |-> "none"]
  /\ copies = 0 /\ overlapped = FALSE

\* The attempt's statements are over, however it ends.
Over(w) == write' = [write EXCEPT ![w] = "none"] /\ UNCHANGED <<copies, overlapped>>

-----------------------------------------------------------------------------
(* upload(), queueDoc() *)

Upload == P!Upload /\ UNCHANGED itemVars
QueueDoc == P!UploadAdds /\ UNCHANGED itemVars
QueueDocFails == P!UploadAddFails /\ UNCHANGED itemVars
UploadDies == P!UploadDies /\ UNCHANGED itemVars

-----------------------------------------------------------------------------
(* handleParse() *)

Deliver(w) ==
  /\ P!Deliver(w)
  /\ overlapped' = (overlapped \/ \E v \in Workers \ {w} : parse[v].pc # "idle")
  /\ UNCHANGED <<write, copies>>

SetProcessing(w) == P!SetProcessing(w) /\ UNCHANGED itemVars

\* Mutant of Cleared: the rows of an earlier attempt stay.
ClearedNever == copies

\* What the delete of replaceItems() leaves.
Cleared == 0

\* The file is read; then the items are deleted.
DeleteItems(w) ==
  /\ parse[w].pc = "read" /\ write[w] = "none"
  /\ copies' = Cleared
  /\ write' = [write EXCEPT ![w] = "deleted"]
  /\ UNCHANGED <<overlapped, queueVars>>

InsertItems(w) ==
  /\ write[w] = "deleted"
  /\ copies' = copies + 1
  /\ write' = [write EXCEPT ![w] = "inserted"]
  /\ UNCHANGED <<overlapped, queueVars>>

SetDone(w) == write[w] = "inserted" /\ P!ReplaceLines(w) /\ Over(w)

\* A file that cannot be read or holds no item, a missing object, a spent budget.
FailForGood(w) == write[w] = "none" /\ P!FailForGood(w) /\ Over(w)

\* Anything else, between the statements too.
FailForNow(w) == P!FailForNow(w) /\ Over(w)
FailUnrecorded(w) == P!FailUnrecorded(w) /\ Over(w)

Return(w) == P!Return(w) /\ UNCHANGED itemVars
Throw(w) == P!Throw(w) /\ UNCHANGED itemVars
TimeOut(w) == P!TimeOut(w) /\ UNCHANGED itemVars
Die(w) == P!Die(w) /\ Over(w)

-----------------------------------------------------------------------------
(* reconcile() *)

Age == P!Age /\ UNCHANGED itemVars
LoseJob == P!LoseJob /\ UNCHANGED itemVars
Select(s) == P!Select(s) /\ UNCHANGED itemVars

Check(s) == (P!Check(s) \/ P!CheckFails(s)) /\ UNCHANGED itemVars
MarkFailed(s) == P!SweepFails(s) /\ UNCHANGED itemVars

\* queueDoc(requeues + 1)
Requeue(s) == (P!SweepRequeues(s) \/ P!SweepAdds(s)) /\ UNCHANGED itemVars
RequeueFails(s) == (P!SweepAddFails(s) \/ P!SweepDies(s)) /\ UNCHANGED itemVars

-----------------------------------------------------------------------------

WorkerStep(w) ==
  \/ Deliver(w) \/ SetProcessing(w) \/ DeleteItems(w) \/ InsertItems(w) \/ SetDone(w)
  \/ FailForGood(w) \/ FailForNow(w) \/ Return(w) \/ Throw(w)

SweepStep(s) == Select(s) \/ Check(s) \/ MarkFailed(s) \/ Requeue(s)

Next ==
  \/ Upload \/ QueueDoc \/ QueueDocFails \/ UploadDies \/ Age \/ LoseJob
  \/ \E w \in Workers : WorkerStep(w) \/ FailUnrecorded(w) \/ TimeOut(w) \/ Die(w)
  \/ \E s \in Sweeps : SweepStep(s) \/ RequeueFails(s)

\* As for DocumentParse.
Fairness ==
  /\ WF_vars(QueueDoc)
  /\ WF_vars(Age)
  /\ \A w \in Workers : WF_vars(WorkerStep(w))
  /\ \A s \in Sweeps : WF_vars(SweepStep(s))

Spec == Init /\ [][Next]_vars /\ Fairness

-----------------------------------------------------------------------------
(* Properties *)

TypeOK ==
  /\ P!TypeOK
  /\ write \in [Workers -> {"none", "deleted", "inserted"}]
  /\ copies \in Nat /\ overlapped \in BOOLEAN

\* A retry is idempotent: through deaths, failures and redeliveries a catalogue that
\* is done holds its items, once.  Unless an attempt started while one that had timed out was
\* still running: the statements of the two may interleave.
DoneHoldsItemsOnce == row.status = "done" /\ ~overlapped => copies = 1
=============================================================================
