------------------------------ MODULE Sourcing ------------------------------
(***************************************************************************)
(* The catalogues of vendors: the crawl that reads one from a vendor's     *)
(* site (SiteCrawl), and the searches that judge its items for the lines   *)
(* of an order (CatalogMatches).                                           *)
(*                                                                         *)
(* Of a crawl a search sees items appear, which CatalogMatches lets happen *)
(* at any time; so a behaviour is one crawl, or the searches.              *)
(***************************************************************************)
EXTENDS Integers, Sequences, FiniteSets

CONSTANTS
  Pages, Seed, Foreign, Barred, MaxDepth, MaxPages, Concurrency,           \* of SiteCrawl
  None, Searches, Lines, Texts, Vendors, Parsed, MaxCandidates, MaxSearches, MaxItems \* of CatalogMatches

VARIABLES
  frontier,  \* the queue of SiteCrawl
  queued, visited, results, batch, base, pc, pending,       \* of SiteCrawl
  links, fetches, announced, dropped, mixed,                \* of SiteCrawl
  items, lines, text, matches, search, inserted, begun, crossed, \* of CatalogMatches
  focus

Site == INSTANCE SiteCrawl WITH queue <- frontier
Matches == INSTANCE CatalogMatches

ASSUME SourcingConstants == Site!ConstantsTyped /\ Matches!ConstantsTyped

crawlVars == <<frontier, queued, visited, results, batch, base, pc, pending,
               links, fetches, announced, dropped, mixed>>
matchVars == <<items, lines, text, matches, search, inserted, begun, crossed>>
sourcingVars == <<crawlVars, matchVars, focus>>

SourcingInit == focus \in {"crawl", "search"} /\ Site!Init /\ Matches!Init

SourcingNext ==
  /\ \/ focus = "crawl" /\ Site!Next /\ UNCHANGED matchVars
     \/ focus = "search" /\ Matches!Next /\ UNCHANGED crawlVars
  /\ UNCHANGED focus

SourcingSpec == SourcingInit /\ [][SourcingNext]_sourcingVars

-----------------------------------------------------------------------------
(* Properties *)

\* A crawl asks for each page once, returns what it announced, and leaves no slot of its
\* limiter idle (SiteCrawl).
CrawlExact == Site!FetchedOnce /\ Site!AnnouncedIsReturned /\ Site!NoIdleSlot

\* A crawl that ends short of its limits has considered every page within its depth
\* (SiteCrawl).
NothingMissed == Site!NothingMissed

\* What users dismissed stays dismissed, and a search takes away no verdict that it does
\* not replace (CatalogMatches).
VerdictsKept == Matches!DismissalsKept /\ Matches!VerdictsKept

\* One open verdict of a kind per line and item, unless searches of the line overlapped
\* (CatalogMatches).
OneVerdict == Matches!OneVerdict
=============================================================================
