----------------------------- MODULE ParseJobs ------------------------------
(***************************************************************************)
(* The two parse queues of the API, procurement-parse and catalog-parse.   *)
(* They share one design and no state: a behaviour is the life of one      *)
(* uploaded file, a photo document (DocumentParse) or a catalogue          *)
(* (CatalogParse).                                                         *)
(***************************************************************************)
EXTENDS DocumentParse

CONSTANT CatalogFaults  \* MaxFaults of a catalogue

VARIABLES
  kind,                      \* what was uploaded: "procurement" or "catalog"
  write, copies, overlapped  \* as in CatalogParse

Catalog == INSTANCE CatalogParse WITH MaxFaults <- CatalogFaults

itemVars == <<write, copies, overlapped>>
jobsVars == <<vars, itemVars, kind>>

JobsInit ==
  \/ /\ kind = "procurement"
     /\ Init
     /\ write = [w \in Workers |-> "none"] /\ copies = 0 /\ overlapped = FALSE
  \/ /\ kind = "catalog"
     /\ Catalog!Init

\* A step of the queue that the file went to.
Either(document, catalogue) ==
  /\ \/ kind = "procurement" /\ document /\ UNCHANGED itemVars
     \/ kind = "catalog" /\ catalogue
  /\ UNCHANGED kind

JobsNext == Either(Next, Catalog!Next)

JobsFairness ==
  /\ WF_jobsVars(Either(UploadAdds, Catalog!QueueDoc))
  /\ WF_jobsVars(Either(Age, Catalog!Age))
  /\ \A w \in Workers : WF_jobsVars(Either(WorkerStep(w), Catalog!WorkerStep(w)))
  /\ \A s \in Sweeps : WF_jobsVars(Either(SweepStep(s), Catalog!SweepStep(s)))

JobsSpec == JobsInit /\ [][JobsNext]_jobsVars /\ JobsFairness

-----------------------------------------------------------------------------
(* Properties, with ConfirmedOnce and SettlesForGood of DocumentParse, which *)
(* speaks of the header of either kind                                       *)

\* A retry is idempotent: through deaths, failures and redeliveries a catalogue that
\* is done holds its items, once, unless attempts overlapped (CatalogParse).
DoneHoldsItemsOnce == kind = "catalog" => Catalog!DoneHoldsItemsOnce
=============================================================================
