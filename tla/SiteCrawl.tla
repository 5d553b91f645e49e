------------------------------ MODULE SiteCrawl ------------------------------
(***************************************************************************)
(* One crawl of a site (packages/ai, web/crawl.ts) under its limiter       *)
(* (web/limit.ts).  The queue is taken in batches; the pages of a batch    *)
(* are fetched concurrently, and each puts the links it finds back on the  *)
(* queue while the others are still under way.                             *)
(*                                                                         *)
(* The site is revealed as it is fetched: a page's links are chosen when   *)
(* the page answers, and kept in `links`.                                  *)
(***************************************************************************)
EXTENDS Integers, Sequences, FiniteSets, SequencesExt

CONSTANTS
  Pages, Seed,
  Foreign,       \* pages out of scope
  Barred,        \* pages robots.txt does not allow
  MaxDepth, MaxPages, Concurrency

ConstantsTyped ==
  /\ MaxDepth \in Nat /\ MaxPages \in Nat \ {0} /\ Concurrency \in Nat \ {0}
  /\ IsFiniteSet(Pages) /\ Seed \in Pages /\ Foreign \subseteq Pages /\ Barred \subseteq Pages

VARIABLES
  queue,         \* entries waiting, with their depth
  queued,        \* pages that were ever put on the queue
  visited,       \* pages whose fetch was decided
  results,       \* pages found
  batch,         \* the entries being crawled
  base,          \* results.length when the batch was taken
  pc,            \* what the crawl of each entry of the batch has reached
  pending,       \* entries waiting for the limiter, first come first served
  links,         \* history: what each page answered
  fetches,       \* history: how often each page was requested, an answer's retries included
  announced,     \* history: pages onPage() accepted
  dropped,       \* history: a link was left out for want of room
  mixed          \* history: a batch held entries of several depths

limiter == <<pc, pending>>
overlooked == <<dropped, mixed>>
vars == <<queue, queued, visited, results, batch, base, limiter, links, fetches, announced, overlooked>>

Entry == [url : Pages, depth : 0..MaxDepth]

Init ==
  /\ queue = <<[url |-> Seed, depth |-> 0]>> /\ queued = {Seed}
  /\ visited = {} /\ results = <<>>
  /\ batch = <<>> /\ base = 0 /\ pc = <<>> /\ pending = <<>>
  /\ links = [u \in Pages |-> {}]
  /\ fetches = [u \in Pages |-> 0]
  /\ announced = {} /\ dropped = FALSE /\ mixed = FALSE

Ended(i) == pc[i] \in {"null", "page"}
Active == {i \in DOMAIN pc : ~Ended(i) /\ pc[i] # "pending"}

-----------------------------------------------------------------------------
(* createLimit() *)

\* Mutant of Release: a task that gives no page keeps its slot.
ReleaseFound(i, outcome) ==
  LET ended == [pc EXCEPT ![i] = outcome]
  IN  IF pending = <<>> \/ outcome = "null"
      THEN pc' = ended /\ UNCHANGED pending
      ELSE pc' = [ended EXCEPT ![Head(pending)] = "start"] /\ pending' = Tail(pending)

\* A task ends, with a page or without: its slot goes to the first that waits.
Release(i, outcome) ==
  LET ended == [pc EXCEPT ![i] = outcome]
  IN  IF pending = <<>>
      THEN pc' = ended /\ UNCHANGED pending
      ELSE pc' = [ended EXCEPT ![Head(pending)] = "start"] /\ pending' = Tail(pending)

Goto(i, step) == pc' = [pc EXCEPT ![i] = step] /\ UNCHANGED pending

-----------------------------------------------------------------------------
(* crawlSite() *)

\* Mutant of Room: the whole queue is taken.
RoomForAll == Len(queue)

\* How many entries may be taken.
Room == Min({Len(queue), MaxPages - Len(results)})

More == queue # <<>> /\ Len(results) < MaxPages

\* A batch is taken; as many of its entries start as the limiter allows.
TakeBatch ==
  /\ batch = <<>> /\ More
  /\ batch' = SubSeq(queue, 1, Room)
  /\ queue' = SubSeq(queue, Room + 1, Len(queue))
  /\ base' = Len(results)
  /\ pc' = [i \in 1..Room |-> IF i <= Concurrency THEN "start" ELSE "pending"]
  /\ pending' = [k \in 1..Max({0, Room - Concurrency}) |-> k + Concurrency]
  /\ mixed' = (mixed \/ \E e, f \in ToSet(batch') : e.depth # f.depth)
  /\ UNCHANGED <<queued, visited, results, links, fetches, announced, dropped>>

\* The positions of a set, in order.
InOrder(positions) ==
  {kept \in [1..Cardinality(positions) -> positions] : \A k, l \in DOMAIN kept : k < l => kept[k] < kept[l]}

\* All have ended: the pages that were found are collected in the order of the batch, up
\* to the limit.
Collect == \E kept \in InOrder({i \in DOMAIN batch : pc[i] = "page"}) :
  LET all == results \o [k \in DOMAIN kept |-> batch[kept[k]].url] IN
  /\ batch # <<>> /\ \A i \in DOMAIN batch : Ended(i)
  /\ results' = SubSeq(all, 1, Min({Len(all), MaxPages}))
  /\ batch' = <<>> /\ pc' = <<>> /\ pending' = <<>> /\ base' = 0
  /\ UNCHANGED <<queue, queued, visited, links, fetches, announced, overlooked>>

-----------------------------------------------------------------------------
(* crawlPage() *)

InScope(u) == u \notin Foreign

\* Already decided, out of scope, or not for robots: no page.
Skip(i) == LET u == batch[i].url IN
  /\ pc[i] = "start"
  /\ u \in visited \/ ~InScope(u) \/ u \in Barred
  /\ visited' = IF u \notin visited /\ InScope(u) THEN visited \cup {u} ELSE visited
  /\ Release(i, "null")
  /\ UNCHANGED <<queue, queued, results, batch, base, links, fetches, announced, overlooked>>

\* The host's addresses are looked up.
Resolve(i) == LET u == batch[i].url IN
  /\ pc[i] = "start"
  /\ u \notin visited /\ InScope(u) /\ u \notin Barred
  /\ Goto(i, "resolve")
  /\ UNCHANGED <<queue, queued, visited, results, batch, base, links, fetches, announced, overlooked>>

\* The host is not public, or the lookup fails.
NotPublic(i) ==
  /\ pc[i] = "resolve"
  /\ Release(i, "null")
  /\ UNCHANGED <<queue, queued, visited, results, batch, base, links, fetches, announced, overlooked>>

\* The page is requested when its turn comes: one fetchWithRetry(), which asks the site
\* again, after a wait, up to three times in all.
Request(i) == LET u == batch[i].url IN
  /\ pc[i] = "resolve"
  /\ visited' = visited \cup {u}
  /\ fetches' = [fetches EXCEPT ![u] = @ + 1]
  /\ Goto(i, "fetch")
  /\ UNCHANGED <<queue, queued, results, batch, base, links, announced, overlooked>>

\* No answer, an error, a redirect, or not a page of HTML.
NoPage(i) ==
  /\ pc[i] = "fetch"
  /\ Release(i, "null")
  /\ UNCHANGED <<queue, queued, visited, results, batch, base, links, fetches, announced, overlooked>>

\* Mutant of Fresh: only what has been fetched counts as known.
FreshUnvisited(out) == {u \in out : u \notin visited /\ InScope(u)}

\* The links of a page that are new, and in scope.
Fresh(out) == {u \in out : u \notin visited /\ u \notin queued /\ InScope(u)}

\* How many links the queue has room for; the results are counted as of the batch's start.
Space == Max({0, MaxPages - (Len(queue) + base)})

\* Mutant of Expands: off by one.
ExpandsTooLittle(depth) == depth + 1 < MaxDepth

\* The links of a page at this depth are followed.
Expands(depth) == depth < MaxDepth

\* A page of HTML.  Above the last depth its new links join the queue, in the order of the
\* page, as far as there is room.  A page with too little text goes no further.
\* (A link to the seed changes nothing: the seed was queued first.)
Page(i) == \E out \in SUBSET (Pages \ {Seed}) :
  LET fresh == IF Expands(batch[i].depth) THEN Fresh(out) ELSE {}
      taken == Min({Cardinality(fresh), Space})
  IN  /\ pc[i] = "fetch"
      /\ links' = [links EXCEPT ![batch[i].url] = out]
      /\ \E new \in {s \in SetToAllKPermutations(fresh) : Len(s) = taken} :
           /\ queue' = queue \o [k \in DOMAIN new |-> [url |-> new[k], depth |-> batch[i].depth + 1]]
           /\ queued' = queued \cup ToSet(new)
      /\ dropped' = (dropped \/ Cardinality(fresh) > taken)
      /\ Goto(i, "announce") \/ Release(i, "null")
      /\ UNCHANGED <<visited, results, batch, base, fetches, announced, mixed>>

\* onPage() returns.
Announce(i) ==
  /\ pc[i] = "announce"
  /\ announced' = announced \cup {batch[i].url}
  /\ Release(i, "page")
  /\ UNCHANGED <<queue, queued, visited, results, batch, base, links, fetches, overlooked>>

\* onPage() throws: the page is left out, and the crawl goes on.
Refused(i) ==
  /\ pc[i] = "announce"
  /\ Release(i, "null")
  /\ UNCHANGED <<queue, queued, visited, results, batch, base, links, fetches, announced, overlooked>>

Crawl(i) == \/ Skip(i) \/ Resolve(i) \/ NotPublic(i) \/ Request(i)
            \/ NoPage(i) \/ Page(i) \/ Announce(i) \/ Refused(i)

Next == TakeBatch \/ Collect \/ \E i \in DOMAIN batch : Crawl(i)

Spec == Init /\ [][Next]_vars

-----------------------------------------------------------------------------
(* Properties *)

Done == batch = <<>> /\ ~More

TypeOK ==
  /\ queue \in Seq(Entry) /\ batch \in Seq(Entry)
  /\ queued \subseteq Pages /\ visited \subseteq queued
  /\ results \in Seq(Pages) /\ Len(results) <= MaxPages
  /\ DOMAIN pc = DOMAIN batch
  /\ \A i \in DOMAIN pc : pc[i] \in {"pending", "start", "resolve", "fetch", "announce", "null", "page"}
  /\ ToSet(pending) = {i \in DOMAIN pc : pc[i] = "pending"}
  /\ fetches \in [Pages -> Nat] /\ links \in [Pages -> SUBSET Pages]
  /\ announced \subseteq visited /\ base \in Nat /\ {dropped, mixed} \subseteq BOOLEAN

\* No page is requested twice, however often concurrent pages link to it.
FetchedOnce == \A u \in Pages : fetches[u] <= 1

\* Whatever was handed to onPage() is counted: what the crawl returns at its end is
\* what it announced, once each, and no more pages than were asked for.
AnnouncedIsReturned == Done =>
  /\ ToSet(results) = announced
  /\ Len(results) = Cardinality(announced)

\* Pages that a chain of at most n links leads to from the seed.
Within[n \in Nat] == IF n = 0 THEN {Seed}
                     ELSE Within[n - 1] \cup UNION {links[u] : u \in Within[n - 1]}

\* A crawl that ends short of its limit, and had room for every link, has considered
\* every page in scope within its depth.  It need not when a batch held pages of several
\* depths: of two that link to one page, the deeper may answer first.
NothingMissed == Done /\ ~dropped /\ ~mixed /\ Len(results) < MaxPages =>
  \A u \in Within[MaxDepth] : InScope(u) => u \in queued

\* No page waits while the limiter has a slot, however the pages before it ended: with
\* every request cut off by its timeout, the crawl ends.
NoIdleSlot == pending # <<>> => Cardinality(Active) = Concurrency
=============================================================================
