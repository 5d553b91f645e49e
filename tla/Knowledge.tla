------------------------------ MODULE Knowledge ------------------------------
(***************************************************************************)
(* What a workspace knows.  Its index is fed by documents, which crawls    *)
(* publish among others, and by tickets; questions are answered from it    *)
(* through the cache.  They meet in the index, whose every change is to be *)
(* announced to the cache, and in the process they share, which may die.   *)
(*                                                                         *)
(* A behaviour follows one of them, so that the parts are checked one at a *)
(* time: a document, a ticket, the crawls of a site, or the questions, with*)
(* changes of the index by authors left abstract.                          *)
(***************************************************************************)
EXTENDS DocumentIngest, TicketReview, CrawlRuns

VARIABLE focus

vars == <<cacheVars, docVars, ticketVars, crawlVars, focus>>

Init ==
  /\ CacheInit /\ DocInit /\ TicketInit /\ CrawlInit
  /\ focus \in {"document", "ticket", "crawls", "questions"}

\* Everything under way is lost; the queues, Redis and the database are not.
Restart ==
  /\ Fault
  /\ reader' = [r \in Readers |-> Waiting] /\ authors' = 0
  /\ unannounced' = (unannounced \/ epoch > floor)
  /\ IF focus = "document" THEN DocDies ELSE UNCHANGED docVars
  /\ IF focus = "ticket" THEN TicketDies ELSE UNCHANGED ticketVars
  /\ IF focus = "crawls" THEN CrawlDies ELSE UNCHANGED crawlVars
  /\ UNCHANGED <<version, exact, semantic, asks, epoch, floor, focus>>

Next ==
  \/ focus = "document" /\ Document /\ UNCHANGED <<ticketVars, crawlVars, focus>>
  \/ focus = "ticket" /\ Ticket /\ UNCHANGED <<docVars, crawlVars, focus>>
  \/ focus = "crawls" /\ CrawlStep /\ UNCHANGED <<docVars, ticketVars, focus>>
  \/ /\ focus = "questions"
     /\ Change \/ Announce \/ \E r \in Readers : Question(r)
     /\ UNCHANGED <<docVars, ticketVars, crawlVars, focus>>
  \/ Restart

Spec == Init /\ [][Next]_vars

-----------------------------------------------------------------------------
TypeOK == CacheTypeOK /\ DocTypeOK /\ TicketTypeOK /\ CrawlTypeOK

AtRest == DocAtRest /\ TicketAtRest /\ CrawlAtRest /\ authors = 0

\* Once nothing is under way, every change of the index has been announced, unless its
\* author failed or died between the change and its announcement, or Redis refused the
\* announcement, and nobody has announced anything since.
ChangesAnnounced == AtRest => floor = epoch \/ unannounced

\* The index follows the rows, and the cache the index: the index holds what documents and
\* tickets say (see DoneIsIndexed, TicketIsIndexed), and its changes are announced.
IndexFollows == DoneIsIndexed /\ TicketIsIndexed /\ ChangesAnnounced

\* Documents, tickets and crawls reach an end (see DocumentSettled, TicketSettled and
\* CrawlSettled).
SettledAtRest == DocumentSettled /\ TicketSettled /\ CrawlSettled
=============================================================================
