--------------------------- MODULE CatalogMatches ----------------------------
(***************************************************************************)
(* Verdicts of the vision model on catalogue items, for the lines of an    *)
(* order (catalog-match.service.ts): searches that replace them, users who *)
(* dismiss them, reviews that edit the text of a line, and the parses,     *)
(* scrapes and re-parses that replace the items and the lines under them.  *)
(*                                                                         *)
(* One vendor's catalogue is parsed again while verdicts about it exist,   *)
(* the other vendor's keeps its item.  A text is the set of the ids of the *)
(* items whose sku or description contains it.                             *)
(***************************************************************************)
EXTENDS Integers, FiniteSets

CONSTANTS
  None,
  Searches,      \* search() calls that may overlap
  Lines,         \* order lines that are searched for
  Texts,         \* what a line may say
  Vendors, Parsed, \* the vendor whose catalogue is parsed again
  MaxCandidates, \* CATALOG_MATCH_MAX_CANDIDATES
  MaxSearches, MaxItems \* bounds on searches begun and items inserted

ConstantsTyped ==
  /\ Parsed \in Vendors /\ None \notin Vendors \cup Lines
  /\ {MaxCandidates, MaxSearches, MaxItems} \subseteq Nat
  /\ Texts \subseteq SUBSET (1..MaxItems)

VARIABLES
  items,     \* catalog_items
  lines,     \* lines that exist
  text,      \* the sku, or else the description, of each line
  matches,   \* catalog_matches
  search,    \* what each search has reached
  inserted,  \* history: items inserted, which names the next
  begun,     \* history: searches begun
  crossed    \* history: keys two searches were replacing at once

vars == <<items, lines, text, matches, search, inserted, begun, crossed>>

Item == [id : 1..MaxItems, vendor : Vendors]
Scope == [line : Lines, vendor : Vendors \cup {None}]

\* matchType: a search that names a vendor verifies it, one that names none sources.
MatchType(scope) == IF scope.vendor = None THEN "sourcing" ELSE "compliance"

Match == [by : 1..MaxSearches, line : Lines \cup {None}, type : {"sourcing", "compliance"},
          item : Item, status : {"open", "dismissed"}]

Idle == [pc |-> "idle", by |-> 0, scope |-> None, candidates |-> {}, failed |-> {}, doomed |-> {}]

Init ==
  /\ items = {[id |-> 1, vendor |-> v] : v \in Vendors}
  /\ lines = Lines /\ text \in [Lines -> Texts] /\ matches = {}
  /\ search = [s \in Searches |-> Idle]
  /\ inserted = 1 /\ begun = 0 /\ crossed = {}

-----------------------------------------------------------------------------
(* search() *)

\* Oldest first.
Older(i, j) == i.id < j.id \/ (i.id = j.id /\ i.vendor = Parsed /\ j.vendor # Parsed)

\* textFilter: the item's sku or description contains the text of the line.
Fits(line, i) == i.id \in text[line]

\* findCandidates(): the oldest items of the vendor, or of all, that fit the line.
Candidates(scope) ==
  LET of == {i \in items : Fits(scope.line, i) /\ scope.vendor \in {None, i.vendor}}
  IN  {i \in of : Cardinality({j \in of : Older(j, i)}) < MaxCandidates}

\* Mutant of InScope: what the user has dismissed is replaced as well.
InScopeAnyStatus(m, q) ==
  /\ m.line = q.scope.line /\ m.type = MatchType(q.scope)
  /\ q.scope.vendor \in {None, m.item.vendor}
  /\ m.item \notin q.failed

\* Mutant of InScope: the verdicts of candidates that could not be judged go too.
InScopeUnjudged(m, q) ==
  /\ m.line = q.scope.line /\ m.status = "open" /\ m.type = MatchType(q.scope)
  /\ q.scope.vendor \in {None, m.item.vendor}

\* Mutant of InScope: a search that verifies a vendor looks for sourcing verdicts.
InScopeSourcing(m, q) ==
  /\ m.line = q.scope.line /\ m.status = "open" /\ m.type = "sourcing"
  /\ q.scope.vendor \in {None, m.item.vendor}
  /\ m.item \notin q.failed

\* The verdicts a search replaces.
InScope(m, q) ==
  /\ m.line = q.scope.line /\ m.status = "open" /\ m.type = MatchType(q.scope)
  /\ q.scope.vendor \in {None, m.item.vendor}
  /\ m.item \notin q.failed

\* The line exists; its candidates are read.  Without any the search answers at once.
Begin(s) == \E scope \in Scope :
  /\ search[s].pc = "idle"
  /\ begun < MaxSearches /\ begun' = begun + 1
  /\ scope.line \in lines
  /\ Candidates(scope) # {}
  /\ search' = [search EXCEPT ![s] =
       [pc |-> "judge", by |-> begun', scope |-> scope, candidates |-> Candidates(scope),
        failed |-> {}, doomed |-> {}]]
  /\ UNCHANGED <<items, lines, text, matches, inserted, crossed>>

\* Each candidate is judged, or its call fails.
Judge(s) == \E failed \in SUBSET search[s].candidates :
  /\ search[s].pc = "judge"
  /\ failed # search[s].candidates
  /\ search' = [search EXCEPT ![s].pc = "replace", ![s].failed = failed]
  /\ UNCHANGED <<items, lines, text, matches, inserted, begun, crossed>>

\* The photo check is refused, or nothing was judged: nothing is replaced.
GiveUp(s) ==
  /\ search[s].pc = "judge"
  /\ search' = [search EXCEPT ![s] = Idle]
  /\ UNCHANGED <<items, lines, text, matches, inserted, begun, crossed>>

\* The transaction's delete finds its rows.
Find(s) ==
  /\ search[s].pc = "replace"
  /\ search' = [search EXCEPT ![s].pc = "lock", ![s].doomed = {m \in matches : InScope(m, search[s])}]
  /\ crossed' = crossed \cup {search[s].scope.line :
                  t \in {t \in Searches \ {s} : search[t].pc \in {"lock", "insert"}
                                                /\ search[t].scope.line = search[s].scope.line}}
  /\ UNCHANGED <<items, lines, text, matches, inserted, begun>>

Locked == UNION {search[t].doomed : t \in {t \in Searches : search[t].pc = "insert"}}

\* It locks them one by one; one that another transaction holds it waits for, and one
\* that has changed it looks at again.
Lock(s) ==
  /\ search[s].pc = "lock"
  /\ search[s].doomed \cap Locked = {}
  /\ search' = [search EXCEPT ![s].pc = "insert", ![s].doomed = @ \cap matches]
  /\ UNCHANGED <<items, lines, text, matches, inserted, begun, crossed>>

New(q) == {[by |-> q.by, line |-> q.scope.line, type |-> MatchType(q.scope), item |-> i, status |-> "open"] :
             i \in q.candidates \ q.failed}

\* The new verdicts, if the line and the items still exist; commit.
Insert(s) == LET q == search[s] IN
  /\ q.pc = "insert"
  /\ q.scope.line \in lines /\ q.candidates \ q.failed \subseteq items
  /\ matches' = (matches \ q.doomed) \cup New(q)
  /\ search' = [search EXCEPT ![s] = Idle]
  /\ UNCHANGED <<items, lines, text, inserted, begun, crossed>>

\* Otherwise, or by a failure at any time, the transaction is rolled back.
Rollback(s) ==
  /\ search[s].pc \in {"lock", "insert"}
  /\ search' = [search EXCEPT ![s] = Idle]
  /\ UNCHANGED <<items, lines, text, matches, inserted, begun, crossed>>

-----------------------------------------------------------------------------

\* dismissMatch(); it waits for a transaction that holds the row.
Dismiss == \E m \in matches \ Locked :
  /\ m.status = "open"
  /\ matches' = (matches \ {m}) \cup {[m EXCEPT !.status = "dismissed"]}
  /\ UNCHANGED <<items, lines, text, search, inserted, begun, crossed>>

OfParsed == {i \in items : i.vendor = Parsed}

\* replaceItems() of a parse: the verdicts on the items go with them (ON DELETE CASCADE).
DeleteItems ==
  /\ inserted < MaxItems
  /\ OfParsed # {}
  /\ {m \in matches : m.item \in OfParsed} \cap Locked = {}
  /\ items' = items \ OfParsed
  /\ matches' = {m \in matches : m.item \in items'}
  /\ UNCHANGED <<lines, text, search, inserted, begun, crossed>>

\* replaceItems(), or a page of a scrape: an item is inserted.
InsertItem ==
  /\ inserted < MaxItems /\ inserted' = inserted + 1
  /\ items' = items \cup {[id |-> inserted', vendor |-> Parsed]}
  /\ UNCHANGED <<lines, text, matches, search, begun, crossed>>

\* A parse of the order replaces its lines: their verdicts lose the line (SET NULL).
DeleteLine == \E l \in lines :
  /\ {m \in matches : m.line = l} \cap Locked = {}
  /\ lines' = lines \ {l}
  /\ matches' = {[m EXCEPT !.line = IF @ = l THEN None ELSE @] : m \in matches}
  /\ UNCHANGED <<items, text, search, inserted, begun, crossed>>

\* A review of the order gives a line another text; its verdicts stay.
EditLine == \E l \in lines, t \in Texts :
  /\ text' = [text EXCEPT ![l] = t]
  /\ UNCHANGED <<items, lines, matches, search, inserted, begun, crossed>>

SearchStep(s) == Begin(s) \/ Judge(s) \/ GiveUp(s) \/ Find(s) \/ Lock(s) \/ Insert(s) \/ Rollback(s)

Next == (\E s \in Searches : SearchStep(s)) \/ Dismiss \/ DeleteItems \/ InsertItem \/ DeleteLine \/ EditLine

Spec == Init /\ [][Next]_vars

-----------------------------------------------------------------------------
(* Properties *)

TypeOK ==
  /\ items \subseteq Item /\ lines \subseteq Lines /\ text \in [Lines -> Texts]
  /\ matches \subseteq Match /\ \A m \in matches : m.item \in items
  /\ \A s \in Searches : search[s].pc \in {"idle", "judge", "replace", "lock", "insert"}
  /\ inserted \in 1..MaxItems /\ begun \in 0..MaxSearches
  /\ crossed \subseteq Lines

\* Verdicts of one kind on one item.
Alike(m, n) == m.item = n.item /\ m.type = n.type

\* What is left of a verdict after a step: it loses its line only with the line.
Still(m, n) == Alike(m, n) /\ n.line = IF m.line \in lines' THEN m.line ELSE None

\* "A dismissal a user made survives a re-search": it goes only with its item.
DismissalsKept == [][\A m \in matches : m.status = "dismissed" /\ m.item \in items' =>
  \E n \in matches' : Still(m, n) /\ n.status = "dismissed"]_vars

\* An item that the search would ask about now, and did not when it began.
Unseen(s, i) ==
  /\ search[s].pc # "idle"
  /\ search[s].scope.vendor \in {None, i.vendor} /\ Fits(search[s].scope.line, i)
  /\ i \notin search[s].candidates

\* A line that has a verdict on an item that fits it keeps one: a search that judged
\* another vendor, another kind, only some candidates or none, or that failed half-way,
\* takes nothing away.  Except what a later search said of an item that this one did not
\* see: newer than its candidates, or fitting only the text the line has by now.
VerdictsKept == [][
  \A m \in matches :
    /\ m.item \in items' /\ (m.line \in lines => Fits(m.line, m.item))
    /\ ~(\E s \in Searches : Unseen(s, m.item))
    => \E n \in matches' : Still(m, n)]_vars

\* A line has at most one open verdict of a kind on an item, unless two searches of the
\* line were replacing verdicts at once: each misses what the other inserts.
OneVerdict == \A m, n \in matches :
  m # n /\ Alike(m, n) /\ m.line = n.line /\ m.line \notin crossed \cup {None}
    => ~(m.status = "open" /\ n.status = "open")
=============================================================================
