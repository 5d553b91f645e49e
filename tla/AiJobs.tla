------------------------------- MODULE AiJobs -------------------------------
(***************************************************************************)
(* Work that calls a model: the calls of a workspace against its budget    *)
(* (AiBudget), and the weekly FAQ drafts, which are made by such calls and *)
(* reviewed by users (FaqDrafts).                                          *)
(*                                                                         *)
(* A budget that is used up ends a run of FaqDrafts at any point, so a     *)
(* behaviour follows either the budget or the drafts.                      *)
(***************************************************************************)
EXTENDS AiBudget

CONSTANTS
  Tickets, Topics, TopicOf, MinCluster, Workers, Reviewers, Attempts, MaxWeeks, MaxDrafts \* of FaqDrafts

VARIABLES
  arrived, jobs, worker, drafts, review, faqFaults, overlapped, crossed,  \* of FaqDrafts
  focus

Faq == INSTANCE FaqDrafts WITH faults <- faqFaults

ASSUME ConstantsOfParts == Faq!ConstantsTyped

faqVars == <<arrived, jobs, worker, drafts, review, faqFaults, overlapped, crossed>>

\* Nothing of FaqDrafts reads the switch of enforcement: one value of it is enough there.
AiJobsInit ==
  /\ focus \in {"budget", "drafts"} /\ Init /\ Faq!Init
  /\ focus = "drafts" => enforced

AiJobsNext ==
  /\ \/ focus = "budget" /\ Next /\ UNCHANGED faqVars
     \/ focus = "drafts" /\ Faq!Next /\ UNCHANGED vars
  /\ UNCHANGED focus

AiJobsSpec == AiJobsInit /\ [][AiJobsNext]_<<vars, faqVars, focus>>

-----------------------------------------------------------------------------
(* Properties, with those of AiBudget *)

\* No ticket is in two drafts, and no draft is decided twice, unless two runs, or the
\* reviews of a draft, overlapped (FaqDrafts).
DraftsExact == Faq!DraftedOnce /\ Faq!DecidedOnce
=============================================================================
