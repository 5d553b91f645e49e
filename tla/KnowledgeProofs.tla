---------------------------- MODULE KnowledgeProofs ----------------------------
(***************************************************************************)
(* Theorems about the answers, the documents, the tickets and the crawls   *)
(* of a workspace, for any questions, workers, editors, requests and       *)
(* bounds.  Each part has an inductive invariant of its own, and every step*)
(* of another part leaves it alone.                                        *)
(***************************************************************************)
EXTENDS Knowledge, FiniteSetTheorems, TLAPS

-----------------------------------------------------------------------------
(* The answers *)

ReaderRecord ==
  [pc : {"idle", "exact", "embed", "semantic", "copy", "miss", "retrieve", "answer", "storeCopy",
         "store", "save", "served"},
   asked : Nat, at : Nat, read : Nat, excused : BOOLEAN, ver : Nat, blind : BOOLEAN,
   filed : Nat, filedBlind : BOOLEAN]

CacheTyped ==
  /\ version \in Nat /\ epoch \in Nat /\ floor \in Nat /\ floor <= epoch
  /\ authors \in Nat /\ unannounced \in BOOLEAN
  /\ exact \subseteq Entry /\ semantic \subseteq Entry
  /\ reader \in [Readers -> ReaderRecord]

\* A question looks for answers under a version it knows.
Looks(q) == q.pc \in {"exact", "semantic"} /\ ~q.blind

\* An answer may be found by the questions that look, and by those still to come.
Found(e) == ~e.excused =>
  /\ e.version <= version /\ (e.version = version => e.read >= floor)
  /\ \A s \in Readers : Looks(reader[s]) /\ reader[s].ver = e.version
                          => e.read >= reader[s].asked /\ e.read >= reader[s].at

\* What a question in progress knows of the version it holds and of what it has found.
Sound(q) ==
  /\ q.asked <= floor /\ q.at <= floor
  /\ q.pc \in {"exact", "semantic", "retrieve", "storeCopy", "store"} /\ ~q.blind => q.ver <= version
  /\ q.pc \in {"copy", "storeCopy", "answer", "store"} /\ ~q.excused => q.read >= q.at
  /\ q.pc \in {"copy", "storeCopy", "served"} /\ ~q.excused => q.read >= q.asked
  /\ q.pc \in {"answer", "store", "save"} => Found(SavedRow(q))

CacheInv ==
  /\ CacheTyped
  /\ \A e \in exact \cup semantic : Found(e)
  /\ \A r \in Readers : Sound(reader[r])

-----------------------------------------------------------------------------
(* The announcements *)

\* Someone who is at work will announce a change.
Announcer ==
  \/ remover = "bump"
  \/ \E w \in Workers : worker[w].pc \in {"insert", "done", "bump"}
  \/ \E e \in Editors : editor[e].pc \in {"insert", "bump"}

\* A change of the index that was not announced has someone who will announce it.
Owed == floor = epoch \/ unannounced \/ authors > 0 \/ Announcer

-----------------------------------------------------------------------------
(* The document *)

WorkRecord ==
  [pc : {"idle", "begin", "load", "index", "delete", "insert", "done", "bump", "catch", "end"},
   content : Nat, found : SUBSET Nat, late : BOOLEAN]

DocTyped ==
  /\ status \in {"none", "pending", "processing", "done", "failed", "removed"}
  /\ content \in Nat
  /\ job \in {"absent", "waiting", "active", "failed"}
  /\ publisher \in {"idle", "queue", "add", "refused"}
  /\ worker \in [Workers -> WorkRecord]
  /\ {dropped, outlived, orphaned} \subseteq BOOLEAN
  /\ chunks \subseteq Nat

\* The handler of the active job.
Runs(w) == worker[w].pc # "idle" /\ ~worker[w].late

OneHandler ==
  /\ \A w \in Workers : Runs(w) => job = "active"
  /\ job = "active" => \E w \in Workers : Runs(w)
  /\ \A v, w \in Workers : Runs(v) /\ Runs(w) => v = w
  /\ \A w \in Workers : worker[w].late => worker[w].pc # "idle" /\ outlived

\* Someone will settle the document, unless the job is kept as failed or was dropped.
DocCovered == Unsettled =>
  \/ publisher # "idle" \/ job \in {"waiting", "failed"} \/ dropped \/ orphaned
  \/ \E w \in Workers : worker[w].pc \in {"begin", "load", "index", "delete", "insert", "done", "catch"}

\* What the one handler has read and written so far, and what a document that is done holds.
Clean == ~outlived /\ ~dropped /\ ~orphaned /\ job # "failed"

DocFollows == Clean =>
  /\ \A w \in Workers :
       /\ worker[w].pc \in {"index", "delete", "insert", "done"}
            => worker[w].content = content \/ publisher \in {"queue", "add"}
       /\ worker[w].pc \in {"load", "index", "delete", "insert", "done"} => status # "done"
       /\ worker[w].pc = "delete" /\ status # "removed" => worker[w].found = chunks
       /\ worker[w].pc = "insert" /\ status # "removed"
            => chunks = worker[w].found \cap {worker[w].content}
       /\ worker[w].pc = "done" /\ status # "removed" => chunks = {worker[w].content}
  /\ status = "done" => \/ chunks = {content} \/ publisher # "idle" \/ job = "waiting"
                        \/ \E w \in Workers : worker[w].pc = "begin"

DocInv == DocTyped /\ OneHandler /\ DocCovered /\ DocFollows

\* Until its first content is queued the document has no job and no handler.
FirstContent ==
  /\ content = 0 => publisher = "idle"
  /\ content = 0 \/ (content = 1 /\ publisher # "idle") =>
       job = "absent" /\ \A w \in Workers : worker[w].pc = "idle"

-----------------------------------------------------------------------------
(* The ticket *)

EditRecord == [pc : {"idle", "update", "find", "delete", "insert", "bump"},
               existing : Row, updated : Row, crowded : BOOLEAN]
JobRecord == [job : {"absent", "waiting", "active", "failed"}, pc : {"idle", "extract"}, late : BOOLEAN]

TicketTyped ==
  /\ ticket \in Row /\ texts \in 0..MaxTexts
  /\ creator \in {"idle", "queue", "add", "refused"} /\ tboot \in {"off", "on", "fail"}
  /\ extraction \in JobRecord /\ editor \in [Editors -> EditRecord]
  /\ {doubted, abandoned} \subseteq BOOLEAN

\* A ticket that is done has no extraction to come.
Extracting ==
  /\ ticket.status = "none" => extraction = NoJob
  /\ extraction.pc = "extract" => ticket.status \in {"processing", "failed"}
  /\ creator # "idle" => ticket.status \in {"pending", "failed"} /\ extraction = NoJob

\* Edits that overlap leave a doubt.
Uncrowded ==
  /\ \A e \in Editors : Busy(e) /\ editor[e].crowded => doubted
  /\ \A e, o \in Editors : Busy(e) /\ Busy(o) /\ e # o => editor[e].crowded

\* Before the first review there is no chunk, and no edit that writes one.
Unreviewed ==
  /\ ~ticket.reviewed => tchunk = 0 /\ \A e \in Editors : editor[e].pc \in {"idle", "update"}
  /\ \A e \in Editors : editor[e].pc = "update" /\ ~editor[e].crowded /\ ticket.reviewed
                          => editor[e].existing.reviewed

\* The chunk follows the row, or the edit that will see to it holds the row as it is.
ChunkFollows ==
  /\ \A e \in Editors : editor[e].pc = "insert" => editor[e].updated.useful
  /\ ~doubted =>
       /\ \A e \in Editors : editor[e].pc \in {"find", "delete", "insert"}
            => editor[e].updated = ticket /\ ticket.status = "done"
       /\ \/ tchunk = IF Indexed THEN ticket.text ELSE 0
          \/ \E e \in Editors : editor[e].pc \in {"find", "delete", "insert"}

TicketCovered == Settling =>
  extraction.job # "absent" \/ abandoned \/ creator # "idle" \/ tboot # "off"

TicketInv == TicketTyped /\ Extracting /\ Uncrowded /\ Unreviewed /\ ChunkFollows /\ TicketCovered

-----------------------------------------------------------------------------
(* The crawls *)

CrawlTyped ==
  /\ crawls \in Seq(Crawl) /\ met \in BOOLEAN
  /\ starter = [c \in Starters |-> [pc |-> starter[c].pc, run |-> starter[c].run]]

Names(c) == starter[c].pc \in {"name", "add", "refused"}

\* One crawl at a time.
Crawled == met \/
  /\ \A c, o \in Starters : ~At(c, "idle") /\ ~At(o, "idle") => c = o
  /\ \A m, n \in InFlight : m = n
  /\ \A c \in Starters :
       /\ At(c, "insert") => InFlight = {}
       /\ starter[c].pc \in {"look", "replace"} => InFlight \subseteq {starter[c].run}

\* A run without its job has one request that will add it; one handled has its job.
Handled ==
  /\ \A c \in Starters : Names(c) =>
       /\ starter[c].run \in DOMAIN crawls
       /\ crawls[starter[c].run].job = "absent" /\ crawls[starter[c].run].pc = "idle"
       /\ \A o \in Starters : Names(o) /\ starter[o].run = starter[c].run => o = c
  /\ \A n \in DOMAIN crawls :
       /\ crawls[n].pc # "idle" => crawls[n].job \in {"active", "failed"}
       /\ crawls[n].pc = "end" => ~Live(crawls[n].status)

\* Whoever will end a run in flight, unless it is forsaken.
CrawlCovered == \A n \in InFlight :
  \/ n \in forsaken \/ n \in listener
  \/ crawls[n].job \in {"waiting", "active"} \/ crawls[n].pc # "idle"
  \/ \E c \in Starters : Names(c) /\ starter[c].run = n

CrawlInv == CrawlTyped /\ Crawled /\ Handled /\ CrawlCovered

Inv == CacheInv /\ Owed /\ DocInv /\ FirstContent /\ TicketInv /\ CrawlInv

-----------------------------------------------------------------------------
(* The answers are kept: steps of those who change and announce the index *)

LEMMA RowTyped ==
  ASSUME NEW q \in ReaderRecord
  PROVE  /\ SavedRow(q) \in Entry /\ SavedRow(q).version = q.filed
         /\ SavedRow(q).read = q.read /\ SavedRow(q).excused = q.filedBlind
BY DEF SavedRow, ReaderRecord, Entry

LEMMA WaitingTyped ==
  /\ Waiting \in ReaderRecord /\ Waiting.pc = "idle" /\ Waiting.asked = 0 /\ Waiting.at = 0
  /\ Waiting.excused = FALSE
BY DEF Waiting, ReaderRecord

\* The cache is left alone, and the version is, or is raised with the floor.
LEMMA CacheElsewhere ==
  ASSUME CacheInv, reader' = reader, exact' = exact, semantic' = semantic,
         epoch' \in Nat, epoch <= epoch', authors' \in Nat, unannounced' \in BOOLEAN,
         \/ version' = version /\ floor' = floor
         \/ version' = version + 1 /\ floor' = epoch
  PROVE  CacheInv'
<1>1. CacheTyped'
  BY DEF CacheInv, CacheTyped
<1>2. version \in Nat /\ version' \in Nat /\ floor \in Nat /\ floor' \in Nat /\ floor <= floor'
  BY DEF CacheInv, CacheTyped
<1>3. ASSUME NEW e \in Entry, Found(e) PROVE Found(e)'
  <2>1. e.version \in Nat /\ e.read \in Nat
    BY DEF Entry
  <2> QED BY <1>2, <1>3, <2>1 DEF Found
<1>4. ASSUME NEW r \in Readers PROVE Sound(reader[r])'
  <2> PICK q : q = reader[r]
    OBVIOUS
  <2>1. q \in ReaderRecord /\ Sound(q) /\ reader'[r] = q
    BY DEF CacheInv, CacheTyped
  <2>2. q.asked \in Nat /\ q.at \in Nat /\ q.ver \in Nat
    BY <2>1 DEF ReaderRecord
  <2>3. Found(SavedRow(q)) => Found(SavedRow(q))'
    BY <1>3, <2>1, RowTyped
  <2>4. Sound(q)'
    BY <1>2, <2>1, <2>2, <2>3 DEF Sound
  <2> QED BY <2>1, <2>4
<1>5. \A e \in exact' \cup semantic' : Found(e)'
  BY <1>3 DEF CacheInv, CacheTyped
<1> QED BY <1>1, <1>4, <1>5 DEF CacheInv

\* What an announcement does.
LEMMA Bumped ==
  ASSUME CacheInv, BumpVersion
  PROVE  /\ unannounced' \in BOOLEAN
         /\ \/ version' = version /\ floor' = floor
            \/ version' = version + 1 /\ floor' = epoch
         /\ floor' = epoch \/ unannounced'
BY DEF BumpVersion, CacheInv, CacheTyped

\* The process dies: no question is in progress.
LEMMA CacheRestart ==
  ASSUME CacheInv, reader' = [r \in Readers |-> Waiting], exact' = exact, semantic' = semantic,
         epoch' = epoch, authors' = 0, version' = version, floor' = floor, unannounced' \in BOOLEAN
  PROVE  CacheInv'
<1>1. \A r \in Readers : reader'[r] = Waiting
  OBVIOUS
<1>2. CacheTyped'
  BY WaitingTyped DEF CacheInv, CacheTyped
<1>3. version \in Nat /\ floor \in Nat
  BY DEF CacheInv, CacheTyped
<1>4. \A e \in exact' \cup semantic' : Found(e)'
  BY <1>1, WaitingTyped DEF CacheInv, Found, Looks
<1>5. Sound(Waiting)'
  BY <1>3, WaitingTyped DEF Sound
<1> QED BY <1>1, <1>2, <1>4, <1>5 DEF CacheInv

LEMMA CacheStart == CacheInit => CacheInv
<1> SUFFICES ASSUME CacheInit PROVE CacheInv
  OBVIOUS
<1>1. /\ version = 0 /\ epoch = 1 /\ floor = 1 /\ authors = 0 /\ unannounced = FALSE
      /\ exact = {} /\ semantic = {} /\ reader = [r \in Readers |-> Waiting]
  BY DEF CacheInit
<1>2. CacheTyped
  <2>1. reader \in [Readers -> ReaderRecord]
    BY <1>1, WaitingTyped
  <2>2. exact \subseteq Entry /\ semantic \subseteq Entry
    BY <1>1
  <2>3. version \in Nat /\ epoch \in Nat /\ floor \in Nat /\ floor <= epoch /\ authors \in Nat
    BY <1>1
  <2>4. unannounced \in BOOLEAN
    BY <1>1
  <2> QED BY <2>1, <2>2, <2>3, <2>4 DEF CacheTyped
<1>3. Sound(Waiting)
  BY <1>1, WaitingTyped DEF Sound
<1> QED BY <1>1, <1>2, <1>3 DEF CacheInv

-----------------------------------------------------------------------------
(* The answers are kept: the steps of a question *)

\* A question moves: answers are found as before, for a version is read as it is.
LEMMA FoundKept ==
  ASSUME CacheTyped, NEW r \in Readers, NEW q \in ReaderRecord, reader' = [reader EXCEPT ![r] = q],
         floor' = floor, version' \in Nat, version <= version',
         Looks(q) => q.ver = version' /\ q.asked <= floor /\ q.at <= floor
  PROVE  \A e \in Entry : Found(e) => Found(e)'
<1> SUFFICES ASSUME NEW e \in Entry, Found(e), ~e.excused
             PROVE  /\ e.version <= version' /\ (e.version = version' => e.read >= floor)
                    /\ \A s \in Readers : Looks(reader'[s]) /\ reader'[s].ver = e.version
                         => e.read >= reader'[s].asked /\ e.read >= reader'[s].at
  BY DEF Found, Looks
<1>1. e.version \in Nat /\ e.read \in Nat /\ version \in Nat /\ floor \in Nat
  BY DEF Entry, CacheTyped
<1>2. e.version <= version' /\ (e.version = version' => e.read >= floor)
  BY <1>1 DEF Found
<1>3. reader'[r] = q /\ \A s \in Readers \ {r} : reader'[s] = reader[s]
  BY DEF CacheTyped
<1>4. q.asked \in Nat /\ q.at \in Nat
  BY DEF ReaderRecord
<1>5. Looks(q) /\ q.ver = e.version => e.read >= q.asked /\ e.read >= q.at
  BY <1>1, <1>2, <1>4
<1>6. \A s \in Readers \ {r} : Looks(reader[s]) /\ reader[s].ver = e.version
                           => e.read >= reader[s].asked /\ e.read >= reader[s].at
  BY DEF Found
<1> QED BY <1>2, <1>3, <1>5, <1>6

LEMMA QuestionKeeps ==
  ASSUME CacheInv, NEW r \in Readers, NEW q \in ReaderRecord, reader' = [reader EXCEPT ![r] = q],
         epoch' = epoch, floor' = floor, authors' = authors, unannounced' = unannounced,
         version' \in Nat, version <= version',
         Looks(q) => q.ver = version' /\ q.asked <= floor /\ q.at <= floor,
         exact' \subseteq Entry, semantic' \subseteq Entry,
         \A e \in exact' \cup semantic' : e \in exact \cup semantic \/ Found(e)',
         Sound(q)'
  PROVE  CacheInv'
<1>1. CacheTyped
  BY DEF CacheInv
<1>2. \A e \in Entry : Found(e) => Found(e)'
  BY <1>1, FoundKept
<1>3. CacheTyped'
  BY <1>1 DEF CacheTyped
<1>4. \A e \in exact' \cup semantic' : Found(e)'
  BY <1>1, <1>2 DEF CacheInv, CacheTyped
<1>5. reader'[r] = q /\ \A s \in Readers \ {r} : reader'[s] = reader[s]
  BY <1>1 DEF CacheTyped
<1>6. ASSUME NEW s \in Readers \ {r} PROVE Sound(reader[s])'
  <2> PICK p : p = reader[s]
    OBVIOUS
  <2>1. p \in ReaderRecord /\ Sound(p) /\ reader'[s] = p
    BY <1>1, <1>5 DEF CacheInv, CacheTyped
  <2>2. p.ver \in Nat /\ version \in Nat
    BY <1>1, <2>1 DEF ReaderRecord, CacheTyped
  <2>3. Found(SavedRow(p)) => Found(SavedRow(p))'
    BY <1>2, <2>1, RowTyped
  <2>4. Sound(p)'
    BY <2>1, <2>2, <2>3 DEF Sound
  <2> QED BY <2>1, <2>4
<1>7. \A s \in Readers : Sound(reader[s])'
  BY <1>5, <1>6
<1> QED BY <1>3, <1>4, <1>7 DEF CacheInv

\* What getVersion() leaves a question with.
LEMMA VersionRead ==
  ASSUME CacheInv, NEW r \in Readers, NEW from, NEW to \in ReaderRecord, GetVersion(r, from, to)
  PROVE  /\ version' \in Nat /\ version <= version' /\ reader[r].pc = from
         /\ \E q \in ReaderRecord :
              /\ reader' = [reader EXCEPT ![r] = q] /\ (~q.blind => q.ver = version')
              /\ q.pc = to.pc /\ q.asked = to.asked /\ q.at = to.at /\ q.read = to.read
              /\ q.excused = to.excused /\ q.filed = to.filed /\ q.filedBlind = to.filedBlind
<1>1. version \in Nat /\ version' \in Nat /\ version <= version' /\ reader[r].pc = from
  BY DEF GetVersion, CacheInv, CacheTyped
<1>2. PICK v \in Nat, b \in BOOLEAN : (b \/ v = version')
        /\ reader' = [reader EXCEPT ![r] = [to EXCEPT !.ver = v, !.blind = b]]
  <2>1. CASE reader' = [reader EXCEPT ![r] = [to EXCEPT !.ver = version', !.blind = FALSE]]
    BY <1>1, <2>1
  <2>2. CASE reader' = [reader EXCEPT ![r] = [to EXCEPT !.ver = 1, !.blind = TRUE]]
    BY <2>2
  <2> QED BY <2>1, <2>2 DEF GetVersion
<1> DEFINE q == [to EXCEPT !.ver = v, !.blind = b]
<1>3. /\ q \in ReaderRecord /\ q.ver = v /\ (q.blind <=> b)
      /\ q.pc = to.pc /\ q.asked = to.asked /\ q.at = to.at /\ q.read = to.read
      /\ q.excused = to.excused /\ q.filed = to.filed /\ q.filedBlind = to.filedBlind
  BY DEF ReaderRecord
<1> HIDE DEF q
<1>4. reader' = [reader EXCEPT ![r] = q] /\ (~q.blind => q.ver = version')
  <2>1. reader' = [reader EXCEPT ![r] = q]
    BY <1>2 DEF q
  <2> QED BY <1>2, <1>3, <2>1
<1> QED BY <1>1, <1>3, <1>4

\* What a question in progress is known to be.
LEMMA ReaderKnown ==
  ASSUME CacheInv, NEW r \in Readers
  PROVE  /\ reader[r] \in ReaderRecord /\ Sound(reader[r])
         /\ version \in Nat /\ floor \in Nat /\ epoch \in Nat /\ floor <= epoch
         /\ exact \subseteq Entry /\ semantic \subseteq Entry
BY DEF CacheInv, CacheTyped

\* A lookup that finds an answer.
LEMMA Hit ==
  ASSUME CacheInv, NEW r \in Readers, Looks(reader[r]),
         NEW e \in exact \cup semantic, e.version = reader[r].ver, ~e.excused
  PROVE  e.read >= reader[r].asked /\ e.read >= reader[r].at
BY DEF CacheInv, Found

LEMMA AskKeeps == ASSUME CacheInv, NEW r \in Readers, Ask(r) PROVE CacheInv'
<1> DEFINE to == [Waiting EXCEPT !.pc = "exact", !.asked = floor]
<1>1. floor \in Nat
  BY ReaderKnown
<1>2. to \in ReaderRecord /\ to.pc = "exact" /\ to.asked = floor /\ to.at = 0
  BY <1>1 DEF Waiting, ReaderRecord
<1>3. GetVersion(r, "idle", to)
  BY DEF Ask
<1>4. exact' = exact /\ semantic' = semantic /\ authors' = authors /\ epoch' = epoch /\ floor' = floor
      /\ unannounced' = unannounced
  BY DEF Ask, Frame
<1> HIDE DEF to
<1>5. /\ version' \in Nat /\ version <= version'
      /\ \E q \in ReaderRecord :
           /\ reader' = [reader EXCEPT ![r] = q] /\ (~q.blind => q.ver = version')
           /\ q.pc = to.pc /\ q.asked = to.asked /\ q.at = to.at
  BY <1>2, <1>3, VersionRead
<1>6. PICK q \in ReaderRecord :
           /\ reader' = [reader EXCEPT ![r] = q] /\ (~q.blind => q.ver = version')
           /\ q.pc = "exact" /\ q.asked = floor /\ q.at = 0
  BY <1>2, <1>5
<1>7. Sound(q)'
  BY <1>1, <1>4, <1>5, <1>6 DEF Sound
<1>8. Looks(q) => q.ver = version' /\ q.asked <= floor /\ q.at <= floor
  BY <1>1, <1>6 DEF Looks
<1> QED BY <1>4, <1>5, <1>6, <1>7, <1>8, ReaderKnown, QuestionKeeps

LEMMA GetExactKeeps == ASSUME CacheInv, NEW r \in Readers, GetExact(r) PROVE CacheInv'
<1> DEFINE asked == [Waiting EXCEPT !.asked = reader[r].asked]
           miss == [asked EXCEPT !.pc = "embed"]
           hit(e) == [asked EXCEPT !.pc = "served", !.read = e.read, !.excused = e.excused \/ reader[r].blind]
<1>1. /\ version' = version /\ exact' = exact /\ semantic' = semantic /\ authors' = authors
      /\ epoch' = epoch /\ floor' = floor /\ unannounced' = unannounced
  BY DEF GetExact, Frame
<1>2. /\ reader[r].pc = "exact"
      /\ \/ \E e \in exact : e.version = reader[r].ver /\ reader' = [reader EXCEPT ![r] = hit(e)]
         \/ reader' = [reader EXCEPT ![r] = miss]
  BY DEF GetExact, Move
<1>3. reader[r].asked \in Nat /\ reader[r].blind \in BOOLEAN /\ reader[r].asked <= floor
  BY ReaderKnown DEF ReaderRecord, Sound
<1>4. asked \in ReaderRecord /\ asked.asked = reader[r].asked /\ asked.at = 0
  BY <1>3 DEF Waiting, ReaderRecord
<1> HIDE DEF asked
<1>5. miss \in ReaderRecord /\ miss.pc = "embed" /\ miss.asked = reader[r].asked /\ miss.at = 0
  BY <1>4 DEF ReaderRecord
<1>6. \A e \in exact : /\ hit(e) \in ReaderRecord /\ hit(e).pc = "served" /\ hit(e).asked = reader[r].asked
                       /\ hit(e).at = 0 /\ hit(e).read = e.read
                       /\ (~hit(e).excused => ~e.excused /\ ~reader[r].blind)
  BY <1>3, <1>4, ReaderKnown DEF ReaderRecord, Entry
<1>7. PICK q \in ReaderRecord :
        /\ reader' = [reader EXCEPT ![r] = q] /\ q.pc \in {"embed", "served"}
        /\ q.asked = reader[r].asked /\ q.at = 0
        /\ q.pc = "served" /\ ~q.excused => q.read >= q.asked
  <2>1. CASE reader' = [reader EXCEPT ![r] = miss]
    BY <1>5, <2>1
  <2>2. ASSUME NEW e \in exact, e.version = reader[r].ver, reader' = [reader EXCEPT ![r] = hit(e)]
        PROVE  \E q \in ReaderRecord :
                 /\ reader' = [reader EXCEPT ![r] = q] /\ q.pc \in {"embed", "served"}
                 /\ q.asked = reader[r].asked /\ q.at = 0
                 /\ q.pc = "served" /\ ~q.excused => q.read >= q.asked
    <3>1. ~hit(e).excused => e.read >= reader[r].asked
      BY <1>2, <1>6, <2>2, Hit DEF Looks
    <3> HIDE DEF hit
    <3> QED BY <1>6, <2>2, <3>1
  <2> QED BY <1>2, <2>1, <2>2
<1>8. Sound(q)'
  BY <1>1, <1>3, <1>7, ReaderKnown DEF Sound
<1>9. ~Looks(q)
  BY <1>7 DEF Looks
<1>10. version' \in Nat /\ version <= version' /\ exact' \subseteq Entry /\ semantic' \subseteq Entry
  BY <1>1, ReaderKnown
<1> QED BY <1>1, <1>7, <1>8, <1>9, <1>10, QuestionKeeps

LEMMA SemanticVersionKeeps == ASSUME CacheInv, NEW r \in Readers, SemanticVersion(r) PROVE CacheInv'
<1> DEFINE to == [reader[r] EXCEPT !.pc = "semantic", !.at = floor]
<1>1. floor \in Nat /\ reader[r] \in ReaderRecord /\ reader[r].asked \in Nat /\ reader[r].asked <= floor
  BY ReaderKnown DEF ReaderRecord, Sound
<1>2. to \in ReaderRecord /\ to.pc = "semantic" /\ to.asked = reader[r].asked /\ to.at = floor
  BY <1>1 DEF ReaderRecord
<1>3. GetVersion(r, "embed", to)
  BY DEF SemanticVersion
<1>4. exact' = exact /\ semantic' = semantic /\ authors' = authors /\ epoch' = epoch /\ floor' = floor
      /\ unannounced' = unannounced
  BY DEF SemanticVersion, Frame
<1> HIDE DEF to
<1>5. /\ version' \in Nat /\ version <= version'
      /\ \E q \in ReaderRecord :
           /\ reader' = [reader EXCEPT ![r] = q] /\ (~q.blind => q.ver = version')
           /\ q.pc = to.pc /\ q.asked = to.asked /\ q.at = to.at
  BY <1>2, <1>3, VersionRead
<1>6. PICK q \in ReaderRecord :
           /\ reader' = [reader EXCEPT ![r] = q] /\ (~q.blind => q.ver = version')
           /\ q.pc = "semantic" /\ q.asked = reader[r].asked /\ q.at = floor
  BY <1>2, <1>5
<1>7. Sound(q)'
  BY <1>1, <1>4, <1>5, <1>6 DEF Sound
<1>8. Looks(q) => q.ver = version' /\ q.asked <= floor /\ q.at <= floor
  BY <1>1, <1>6 DEF Looks
<1> QED BY <1>4, <1>5, <1>6, <1>7, <1>8, ReaderKnown, QuestionKeeps

LEMMA GetSemanticKeeps == ASSUME CacheInv, NEW r \in Readers, GetSemantic(r) PROVE CacheInv'
<1> DEFINE miss == [Waiting EXCEPT !.pc = "miss"]
           hit(e) == [reader[r] EXCEPT !.pc = "copy", !.read = e.read, !.ver = 0, !.blind = FALSE,
                                       !.excused = e.excused \/ reader[r].blind]
<1>1. /\ version' = version /\ exact' = exact /\ semantic' = semantic /\ authors' = authors
      /\ epoch' = epoch /\ floor' = floor /\ unannounced' = unannounced
  BY DEF GetSemantic, Frame
<1>2. /\ reader[r].pc = "semantic"
      /\ \/ \E e \in semantic : e.version = reader[r].ver /\ reader' = [reader EXCEPT ![r] = hit(e)]
         \/ reader' = [reader EXCEPT ![r] = miss]
  BY DEF GetSemantic, Move
<1>3. /\ reader[r] \in ReaderRecord /\ reader[r].blind \in BOOLEAN
      /\ reader[r].asked <= floor /\ reader[r].at <= floor
  BY ReaderKnown DEF ReaderRecord, Sound
<1>5. miss \in ReaderRecord /\ miss.pc = "miss" /\ miss.asked = 0 /\ miss.at = 0
  BY DEF Waiting, ReaderRecord
<1>6. \A e \in semantic : /\ hit(e) \in ReaderRecord /\ hit(e).pc = "copy" /\ hit(e).asked = reader[r].asked
                       /\ hit(e).at = reader[r].at /\ hit(e).read = e.read
                       /\ (~hit(e).excused => ~e.excused /\ ~reader[r].blind)
  BY <1>3, ReaderKnown DEF ReaderRecord, Entry
<1>7. PICK q \in ReaderRecord :
        /\ reader' = [reader EXCEPT ![r] = q] /\ q.pc \in {"miss", "copy"}
        /\ q.asked <= floor /\ q.at <= floor
        /\ q.pc = "copy" /\ ~q.excused => q.read >= q.asked /\ q.read >= q.at
  <2>1. CASE reader' = [reader EXCEPT ![r] = miss]
    <3>1. miss.asked <= floor /\ miss.at <= floor
      BY <1>5, ReaderKnown
    <3> HIDE DEF miss
    <3> QED BY <1>5, <2>1, <3>1
  <2>2. ASSUME NEW e \in semantic, e.version = reader[r].ver, reader' = [reader EXCEPT ![r] = hit(e)]
        PROVE  \E q \in ReaderRecord :
                 /\ reader' = [reader EXCEPT ![r] = q] /\ q.pc \in {"miss", "copy"}
                 /\ q.asked <= floor /\ q.at <= floor
                 /\ q.pc = "copy" /\ ~q.excused => q.read >= q.asked /\ q.read >= q.at
    <3>1. ~hit(e).excused => e.read >= reader[r].asked /\ e.read >= reader[r].at
      BY <1>2, <1>6, <2>2, Hit DEF Looks
    <3> HIDE DEF hit
    <3> QED BY <1>3, <1>6, <2>2, <3>1
  <2> QED BY <1>2, <2>1, <2>2
<1>8. Sound(q)'
  BY <1>1, <1>7 DEF Sound
<1>9. ~Looks(q)
  BY <1>7 DEF Looks
<1>10. version' \in Nat /\ version <= version' /\ exact' \subseteq Entry /\ semantic' \subseteq Entry
  BY <1>1, ReaderKnown
<1> QED BY <1>1, <1>7, <1>8, <1>9, <1>10, QuestionKeeps

\* A stored answer is filed under a version read before; only an announcement that raised
\* the floor since it was found or computed excuses it.
LEMMA FileKeeps ==
  ASSUME CacheInv, NEW r \in Readers, NEW from \in {"copy", "answer"}, NEW to,
         to = (IF from = "copy" THEN "storeCopy" ELSE "store"), FileVersion(r, from, to)
  PROVE  CacheInv'
<1> DEFINE x == [reader[r] EXCEPT !.pc = to]
<1>1. reader[r] \in ReaderRecord /\ Sound(reader[r])
  BY ReaderKnown
<1>2. to \in {"storeCopy", "store"}
  OBVIOUS
<1>3. /\ x \in ReaderRecord /\ x.pc = to /\ x.asked = reader[r].asked /\ x.at = reader[r].at
      /\ x.read = reader[r].read /\ x.excused = reader[r].excused
      /\ x.filed = reader[r].filed /\ x.filedBlind = reader[r].filedBlind
  BY <1>1, <1>2 DEF ReaderRecord
<1>4. GetVersion(r, from, x)
  BY DEF FileVersion
<1>5. exact' = exact /\ semantic' = semantic /\ authors' = authors /\ epoch' = epoch /\ floor' = floor
      /\ unannounced' = unannounced
  BY DEF FileVersion, Frame
<1> HIDE DEF x
<1>6. version' \in Nat /\ version <= version' /\ reader[r].pc = from
  BY <1>3, <1>4, VersionRead
<1>7. PICK q \in ReaderRecord :
           /\ reader' = [reader EXCEPT ![r] = q] /\ (~q.blind => q.ver = version')
           /\ q.pc = x.pc /\ q.asked = x.asked /\ q.at = x.at /\ q.read = x.read
           /\ q.excused = x.excused /\ q.filed = x.filed /\ q.filedBlind = x.filedBlind
  BY <1>3, <1>4, VersionRead
<1>8. ~Looks(q)
  BY <1>2, <1>3, <1>7 DEF Looks
<1>9. \A e \in Entry : Found(e) => Found(e)'
  BY <1>5, <1>6, <1>7, <1>8, FoundKept DEF CacheInv
<1> PICK p \in ReaderRecord : p = reader[r]
  BY <1>1
<1>10. SavedRow(q) = SavedRow(p)
  BY <1>3, <1>7, Zenon DEF SavedRow
<1>11. Found(SavedRow(p)) => Found(SavedRow(q))'
  BY <1>9, <1>10, RowTyped
<1>12. Sound(q)'
  BY <1>1, <1>3, <1>5, <1>6, <1>7, <1>11 DEF Sound
<1> QED BY <1>5, <1>6, <1>7, <1>8, <1>12, ReaderKnown, QuestionKeeps

LEMMA SetExactKeeps ==
  ASSUME CacheInv, NEW r \in Readers, NEW from \in {"storeCopy", "store"}, NEW to,
         to = (IF from = "storeCopy" THEN "served" ELSE "save"), SetExact(r, from, to)
  PROVE  CacheInv'
<1> PICK p : p = reader[r]
  OBVIOUS
<1> DEFINE q == [p EXCEPT !.pc = to, !.ver = 0, !.blind = FALSE, !.at = 0]
           e == [version |-> p.ver, read |-> p.read, excused |-> p.excused \/ p.blind \/ p.at # floor]
<1>1. p \in ReaderRecord /\ Sound(p) /\ p.pc = from
  BY ReaderKnown DEF SetExact
<1>2. to \in {"served", "save"}
  OBVIOUS
<1>3. /\ q \in ReaderRecord /\ q.pc = to /\ q.asked = p.asked /\ q.at = 0 /\ q.read = p.read
      /\ q.excused = p.excused /\ q.filed = p.filed /\ q.filedBlind = p.filedBlind
  BY <1>1, <1>2 DEF ReaderRecord
<1>4. /\ e \in Entry /\ e.version = p.ver /\ e.read = p.read
      /\ (~e.excused => ~p.excused /\ ~p.blind /\ p.at = floor)
  BY <1>1 DEF ReaderRecord, Entry
<1>5. reader' = [reader EXCEPT ![r] = q]
  BY DEF SetExact, Move
<1>6. exact' = {o \in exact : o.version # p.ver} \cup {e}
  BY DEF SetExact
<1>7. /\ version' = version /\ semantic' = semantic /\ authors' = authors
      /\ epoch' = epoch /\ floor' = floor /\ unannounced' = unannounced
  BY DEF SetExact, Frame
<1> HIDE DEF q, e
<1>8. ~Looks(q)
  BY <1>2, <1>3 DEF Looks
<1>9. version' \in Nat /\ version <= version'
  BY <1>7, ReaderKnown
<1>10. \A o \in Entry : Found(o) => Found(o)'
  BY <1>3, <1>5, <1>7, <1>8, <1>9, FoundKept DEF CacheInv
<1>11. Found(SavedRow(p)) => Found(SavedRow(q))'
  <2>1. SavedRow(q) = SavedRow(p)
    BY <1>3, Zenon DEF SavedRow
  <2> QED BY <1>1, <1>10, <2>1, RowTyped
<1> PICK f : f = e
  OBVIOUS
<1>12. Found(f)'
  <2> SUFFICES ASSUME ~f.excused
               PROVE  /\ f.version <= version' /\ (f.version = version' => f.read >= floor')
                      /\ \A s \in Readers : Looks(reader'[s]) /\ reader'[s].ver = f.version
                           => f.read >= reader'[s].asked /\ f.read >= reader'[s].at
    BY DEF Found, Looks
  <2>1. p.at = floor /\ ~p.blind /\ ~p.excused
    BY <1>4
  <2>2. f.version <= version /\ f.read >= floor
    BY <1>1, <1>4, <2>1 DEF Sound
  <2>3. f.read \in Nat /\ floor \in Nat
    BY <1>4, ReaderKnown DEF Entry
  <2>4. \A s \in Readers \ {r} : /\ reader'[s] = reader[s] /\ reader[s] \in ReaderRecord
                                 /\ reader[s].asked <= floor /\ reader[s].at <= floor
    BY <1>5, ReaderKnown DEF Sound
  <2>5. \A s \in Readers \ {r} : reader[s].asked \in Nat /\ reader[s].at \in Nat
    BY <2>4 DEF ReaderRecord
  <2>6. reader'[r] = q
    BY <1>3, <1>5 DEF CacheInv, CacheTyped
  <2> QED BY <1>7, <1>8, <2>2, <2>3, <2>4, <2>5, <2>6
<1>13. Sound(q)'
  BY <1>1, <1>2, <1>3, <1>7, <1>11, ReaderKnown DEF Sound
<1>14. /\ exact' \subseteq Entry /\ semantic' \subseteq Entry
       /\ \A o \in exact' \cup semantic' : o \in exact \cup semantic \/ o = f
  BY <1>4, <1>6, <1>7, ReaderKnown
<1> QED BY <1>3, <1>5, <1>7, <1>8, <1>12, <1>13, <1>14, <1>9, QuestionKeeps

LEMMA MissVersionKeeps == ASSUME CacheInv, NEW r \in Readers, MissVersion(r) PROVE CacheInv'
<1> DEFINE to == [reader[r] EXCEPT !.pc = "retrieve"]
<1>1. reader[r] \in ReaderRecord /\ Sound(reader[r])
  BY ReaderKnown
<1>2. to \in ReaderRecord /\ to.pc = "retrieve" /\ to.asked = reader[r].asked /\ to.at = reader[r].at
  BY <1>1 DEF ReaderRecord
<1>3. GetVersion(r, "miss", to)
  BY DEF MissVersion
<1>4. exact' = exact /\ semantic' = semantic /\ authors' = authors /\ epoch' = epoch /\ floor' = floor
      /\ unannounced' = unannounced
  BY DEF MissVersion, Frame
<1> HIDE DEF to
<1>5. /\ version' \in Nat /\ version <= version'
      /\ \E q \in ReaderRecord :
           /\ reader' = [reader EXCEPT ![r] = q] /\ (~q.blind => q.ver = version')
           /\ q.pc = to.pc /\ q.asked = to.asked /\ q.at = to.at
  BY <1>2, <1>3, VersionRead
<1>6. PICK q \in ReaderRecord :
           /\ reader' = [reader EXCEPT ![r] = q] /\ (~q.blind => q.ver = version')
           /\ q.pc = "retrieve" /\ q.asked = reader[r].asked /\ q.at = reader[r].at
  BY <1>2, <1>5
<1>7. Sound(q)'
  BY <1>1, <1>4, <1>5, <1>6 DEF Sound
<1>8. ~Looks(q)
  BY <1>6 DEF Looks
<1> QED BY <1>4, <1>5, <1>6, <1>7, <1>8, ReaderKnown, QuestionKeeps

LEMMA RetrieveKeeps == ASSUME CacheInv, NEW r \in Readers, Retrieve(r) PROVE CacheInv'
<1> PICK p : p = reader[r]
  OBVIOUS
<1> PICK q : q = [Waiting EXCEPT !.pc = "answer", !.read = epoch, !.at = floor,
                                 !.filed = p.ver, !.filedBlind = p.blind]
  OBVIOUS
<1>1. p \in ReaderRecord /\ Sound(p) /\ p.pc = "retrieve"
  BY ReaderKnown DEF Retrieve
<1>2. /\ q \in ReaderRecord /\ q.pc = "answer" /\ q.asked = 0 /\ q.at = floor /\ q.read = epoch
      /\ q.filed = p.ver /\ q.filedBlind = p.blind /\ q.excused = FALSE
  BY <1>1, ReaderKnown DEF Waiting, ReaderRecord
<1>3. /\ reader' = [reader EXCEPT ![r] = q]
      /\ version' = version /\ exact' = exact /\ semantic' = semantic /\ authors' = authors
      /\ epoch' = epoch /\ floor' = floor /\ unannounced' = unannounced
  BY DEF Retrieve, Move, Frame
<1>4. ~Looks(q)
  BY <1>2 DEF Looks
<1> PICK f : f = SavedRow(q)
  OBVIOUS
<1>5. f \in Entry /\ f.version = p.ver /\ f.read = epoch /\ f.excused = p.blind
  BY <1>2, RowTyped
<1>6. Found(f)'
  <2> SUFFICES ASSUME ~f.excused
               PROVE  /\ f.version <= version' /\ (f.version = version' => f.read >= floor')
                      /\ \A s \in Readers : Looks(reader'[s]) /\ reader'[s].ver = f.version
                           => f.read >= reader'[s].asked /\ f.read >= reader'[s].at
    BY DEF Found, Looks
  <2>1. f.version <= version /\ f.read >= floor
    BY <1>1, <1>5, ReaderKnown DEF Sound
  <2>2. \A s \in Readers \ {r} : /\ reader'[s] = reader[s] /\ reader[s] \in ReaderRecord
                                 /\ reader[s].asked <= floor /\ reader[s].at <= floor
    BY <1>3, ReaderKnown DEF Sound
  <2>3. \A s \in Readers \ {r} : reader[s].asked \in Nat /\ reader[s].at \in Nat
    BY <2>2 DEF ReaderRecord
  <2>4. reader'[r] = q
    BY <1>2, <1>3 DEF CacheInv, CacheTyped
  <2>5. f.read \in Nat /\ floor \in Nat
    BY <1>5, ReaderKnown
  <2> QED BY <1>3, <1>4, <2>1, <2>2, <2>3, <2>4, <2>5
<1>7. Sound(q)'
  BY <1>2, <1>3, <1>6, ReaderKnown DEF Sound
<1>8. version' \in Nat /\ version <= version' /\ exact' \subseteq Entry /\ semantic' \subseteq Entry
  BY <1>3, ReaderKnown
<1> QED BY <1>2, <1>3, <1>4, <1>7, <1>8, QuestionKeeps

\* A question that is over.
LEMMA WaitKeeps ==
  ASSUME CacheInv, NEW r \in Readers, SaveSemantic(r) \/ Leave(r)
  PROVE  CacheInv'
<1> PICK p : p = reader[r]
  OBVIOUS
<1>1. p \in ReaderRecord /\ Sound(p) /\ SavedRow(p) \in Entry
  BY ReaderKnown, RowTyped
<1>2. /\ reader' = [reader EXCEPT ![r] = Waiting]
      /\ version' = version /\ exact' = exact /\ authors' = authors
      /\ epoch' = epoch /\ floor' = floor /\ unannounced' = unannounced
  BY DEF SaveSemantic, Leave, Move, Frame
<1>3. semantic' = semantic \/ (semantic' = semantic \cup {SavedRow(p)} /\ p.pc = "save")
  BY DEF SaveSemantic, Leave
<1>4. version' \in Nat /\ version <= version'
  BY <1>2, ReaderKnown
<1>5. Waiting \in ReaderRecord /\ ~Looks(Waiting)
  BY WaitingTyped DEF Looks
<1>6. \A o \in Entry : Found(o) => Found(o)'
  BY <1>2, <1>5, <1>4, FoundKept DEF CacheInv
<1>7. p.pc = "save" => Found(SavedRow(p))
  BY <1>1 DEF Sound
<1>8. p.pc = "save" => Found(SavedRow(p))'
  BY <1>1, <1>6, <1>7
<1>9. \A o \in exact' \cup semantic' : o \in exact \cup semantic \/ Found(o)'
  BY <1>2, <1>3, <1>8
<1>10. Sound(Waiting)'
  BY <1>2, ReaderKnown, WaitingTyped DEF Sound
<1>11. exact' \subseteq Entry /\ semantic' \subseteq Entry
  BY <1>1, <1>2, <1>3, ReaderKnown
<1> QED BY <1>2, <1>5, <1>9, <1>10, <1>11, <1>4, QuestionKeeps

LEMMA QuestionStep == ASSUME CacheInv, NEW r \in Readers, Question(r) PROVE CacheInv'
<1>1. ASSUME CopyHit(r) \/ Complete(r) PROVE CacheInv'
  BY <1>1, FileKeeps, SetExactKeeps DEF CopyHit, Complete
<1> QED BY <1>1, AskKeeps, GetExactKeeps, SemanticVersionKeeps, GetSemanticKeeps, MissVersionKeeps,
           RetrieveKeeps, WaitKeeps, Zenon DEF Question

LEMMA CacheIsCurrent == CacheInv => AnswersAreCurrent
BY DEF CacheInv, Sound, AnswersAreCurrent

-----------------------------------------------------------------------------
(* The crawls: what the steps change *)

LEMMA FlightKnown ==
  ASSUME CrawlTyped
  PROVE  /\ InFlight = {n \in DOMAIN crawls : Live(crawls[n].status)}
         /\ \A n \in DOMAIN crawls : crawls[n] \in Crawl
         /\ \A n \in InFlight : n \in DOMAIN crawls
BY DEF CrawlTyped, InFlight

\* A run is changed in place.
LEMMA CrawlEdits ==
  ASSUME CrawlTyped, NEW n \in DOMAIN crawls, NEW x \in Crawl, crawls' = [crawls EXCEPT ![n] = x]
  PROVE  /\ crawls' \in Seq(Crawl) /\ DOMAIN crawls' = DOMAIN crawls
         /\ crawls'[n] = x /\ \A m \in DOMAIN crawls \ {n} : crawls'[m] = crawls[m]
<1>1. PICK k \in Nat : crawls \in [1..k -> Crawl]
  BY DEF CrawlTyped
<1>2. crawls' \in [1..k -> Crawl]
  BY <1>1
<1> QED BY <1>1, <1>2

\* failRun() changes the status of a run in flight and nothing else.
LEMMA FailedRun ==
  ASSUME CrawlTyped, NEW n, crawls' = FailRun(n)
  PROVE  /\ crawls' \in Seq(Crawl) /\ DOMAIN crawls' = DOMAIN crawls
         /\ n \notin InFlight'
         /\ \A m \in DOMAIN crawls :
              /\ crawls'[m].job = crawls[m].job /\ crawls'[m].pc = crawls[m].pc
              /\ crawls'[m].status # crawls[m].status => m \in InFlight
              /\ Live(crawls'[m].status) => Live(crawls[m].status)
<1>1. CASE n \notin InFlight
  <2>1. crawls' = crawls
    BY <1>1 DEF FailRun
  <2> QED BY <1>1, <2>1 DEF CrawlTyped, InFlight
<1>2. CASE n \in InFlight
  <2> DEFINE x == [crawls[n] EXCEPT !.status = "failed"]
  <2>1. n \in DOMAIN crawls /\ crawls[n] \in Crawl
    BY <1>2, FlightKnown
  <2>2. /\ x \in Crawl /\ x.status = "failed" /\ x.job = crawls[n].job /\ x.pc = crawls[n].pc
    BY <2>1 DEF Crawl
  <2>3. crawls' = [crawls EXCEPT ![n] = x]
    BY <1>2 DEF FailRun
  <2> HIDE DEF x
  <2>4. /\ crawls' \in Seq(Crawl) /\ DOMAIN crawls' = DOMAIN crawls
        /\ crawls'[n] = x /\ \A m \in DOMAIN crawls \ {n} : crawls'[m] = crawls[m]
    BY <2>1, <2>2, <2>3, CrawlEdits
  <2>5. n \notin InFlight'
    BY <2>2, <2>4 DEF InFlight, Live
  <2> QED BY <1>2, <2>2, <2>4, <2>5 DEF Live
<1> QED BY <1>1, <1>2

\* A request moves on.
LEMMA StarterMoves ==
  ASSUME CrawlTyped, NEW c \in Starters, NEW p,
         starter' = [starter EXCEPT ![c].pc = p]
  PROVE  /\ starter' = [o \in Starters |-> [pc |-> starter'[o].pc, run |-> starter'[o].run]]
         /\ starter'[c].pc = p /\ starter'[c].run = starter[c].run
         /\ \A o \in Starters \ {c} : starter'[o] = starter[o]
<1>1. starter = [o \in Starters |-> [pc |-> starter[o].pc, run |-> starter[o].run]]
  BY DEF CrawlTyped
<1>2. \A o \in Starters : starter[o] = [pc |-> starter[o].pc, run |-> starter[o].run]
  BY <1>1
<1>3. starter' = [o \in Starters |-> IF o = c THEN [pc |-> p, run |-> starter[c].run] ELSE starter[o]]
  BY <1>1, <1>2
<1> QED BY <1>2, <1>3

LEMMA StarterSets ==
  ASSUME CrawlTyped, NEW c \in Starters, NEW p, NEW n,
         starter' = [starter EXCEPT ![c] = [pc |-> p, run |-> n]]
  PROVE  /\ starter' = [o \in Starters |-> [pc |-> starter'[o].pc, run |-> starter'[o].run]]
         /\ starter'[c].pc = p /\ starter'[c].run = n
         /\ \A o \in Starters \ {c} : starter'[o] = starter[o]
<1>1. starter = [o \in Starters |-> [pc |-> starter[o].pc, run |-> starter[o].run]]
  BY DEF CrawlTyped
<1>2. \A o \in Starters : starter[o] = [pc |-> starter[o].pc, run |-> starter[o].run]
  BY <1>1
<1>3. starter' = [o \in Starters |-> IF o = c THEN [pc |-> p, run |-> n] ELSE starter[o]]
  BY <1>1
<1>4. starter'[c] = [pc |-> p, run |-> n] /\ \A o \in Starters \ {c} : starter'[o] = starter[o]
  BY <1>3
<1>5. \A o \in Starters : starter'[o] = [pc |-> starter'[o].pc, run |-> starter'[o].run]
  BY <1>2, <1>4
<1>6. starter' = [o \in Starters |-> starter'[o]]
  BY <1>3
<1>7. starter' = [o \in Starters |-> [pc |-> starter'[o].pc, run |-> starter'[o].run]]
  BY <1>5, <1>6
<1> QED BY <1>4, <1>7

-----------------------------------------------------------------------------
(* The crawls: the steps of requests *)

\* What is left to show of a step of a request that adds no run and no job.
LEMMA StarterKeeps ==
  ASSUME CrawlInv, NEW c \in Starters,
         starter' = [o \in Starters |-> [pc |-> starter'[o].pc, run |-> starter'[o].run]],
         \A o \in Starters \ {c} : starter'[o] = starter[o],
         crawls' \in Seq(Crawl), DOMAIN crawls' = DOMAIN crawls,
         \A m \in DOMAIN crawls : /\ crawls'[m].job = crawls[m].job /\ crawls'[m].pc = crawls[m].pc
                                  /\ Live(crawls'[m].status) => Live(crawls[m].status),
         Names(c)' => Names(c) /\ starter'[c].run = starter[c].run,
         Names(c) /\ ~Names(c)' => starter[c].run \notin InFlight' \/ starter[c].run \in forsaken',
         met' \in BOOLEAN, forsaken \subseteq forsaken', listener' = listener
  PROVE  CrawlTyped' /\ Handled' /\ CrawlCovered' /\ InFlight' \subseteq InFlight
<1>1. CrawlTyped'
  BY DEF CrawlTyped
<1>2. \A o \in Starters : Names(o)' => Names(o) /\ starter'[o].run = starter[o].run
  BY DEF Names
<1>3. InFlight' \subseteq InFlight
  BY DEF InFlight
<1>4. Handled'
  <2>1. ASSUME NEW o \in Starters, Names(o)'
        PROVE  /\ starter'[o].run \in DOMAIN crawls'
               /\ crawls'[starter'[o].run].job = "absent" /\ crawls'[starter'[o].run].pc = "idle"
               /\ \A u \in Starters : Names(u)' /\ starter'[u].run = starter'[o].run => u = o
    BY <1>2, <2>1 DEF CrawlInv, Handled
  <2>2. \A n \in DOMAIN crawls' :
          /\ crawls'[n].pc # "idle" => crawls'[n].job \in {"active", "failed"}
          /\ crawls'[n].pc = "end" => ~Live(crawls'[n].status)
    BY DEF CrawlInv, Handled
  <2> QED BY <2>1, <2>2 DEF Handled
<1>5. CrawlCovered'
  <2> SUFFICES ASSUME NEW n \in InFlight'
               PROVE  \/ n \in forsaken' \/ n \in listener'
                      \/ crawls'[n].job \in {"waiting", "active"} \/ crawls'[n].pc # "idle"
                      \/ \E o \in Starters : Names(o)' /\ starter'[o].run = n
    BY DEF CrawlCovered
  <2>1. n \in InFlight /\ n \in DOMAIN crawls
    BY <1>3, FlightKnown DEF CrawlInv
  <2>2. CASE \E o \in Starters : Names(o) /\ starter[o].run = n
    <3>1. PICK o \in Starters : Names(o) /\ starter[o].run = n
      BY <2>2
    <3>2. CASE o = c /\ ~Names(c)'
      BY <3>1, <3>2
    <3>3. CASE o = c /\ Names(c)'
      BY <1>2, <3>1, <3>3
    <3>4. CASE o # c
      <4>1. Names(o)' /\ starter'[o].run = n
        BY <3>1, <3>4 DEF Names
      <4> QED BY <4>1
    <3> QED BY <3>2, <3>3, <3>4
  <2> QED BY <2>1, <2>2 DEF CrawlInv, CrawlCovered
<1> QED BY <1>1, <1>3, <1>4, <1>5

\* One crawl at a time, after a step of a request.
LEMMA OneKept ==
  ASSUME Crawled, NEW c \in Starters, ~At(c, "idle"), met' = met,
         InFlight' \subseteq InFlight,
         \A o \in Starters \ {c} : starter'[o] = starter[o],
         At(c, "insert")' => InFlight' = {},
         starter'[c].pc \in {"look", "replace"} =>
           starter[c].pc \in {"look", "replace"} /\ starter'[c].run = starter[c].run
  PROVE  Crawled'
<1> SUFFICES ASSUME ~met PROVE Crawled'
  BY DEF Crawled
<1>1. \A o \in Starters \ {c} : At(o, "idle") /\ At(o, "idle")'
  BY DEF Crawled, At
<1>2. \A m, n \in InFlight' : m = n
  BY DEF Crawled
<1>3. starter'[c].pc \in {"look", "replace"} => InFlight' \subseteq {starter'[c].run}
  BY DEF Crawled
<1> QED BY <1>1, <1>2, <1>3 DEF Crawled, At

\* The only run in flight is the latest.
LEMMA LatestIsOne ==
  ASSUME CrawlTyped, Crawled, ~met, InFlight # {}
  PROVE  InFlight = {Max(InFlight)}
<1>1. PICK n \in InFlight : TRUE
  OBVIOUS
<1>2. InFlight = {n} /\ n \in Nat
  BY FlightKnown DEF Crawled, CrawlTyped
<1>3. Max({n}) = n
  BY <1>2 DEF Max
<1> QED BY <1>2, <1>3

\* A request whose write is refused ends; the run it was to give a job is forsaken.
LEMMA WriteRefusedKeeps ==
  ASSUME CrawlInv, NEW c \in Starters, WriteRefused(c), ~At(c, "idle"),
         met' = met, listener' = listener, forsaken \subseteq forsaken',
         Names(c) => starter[c].run \in forsaken'
  PROVE  CrawlInv'
<1>1. crawls' = crawls /\ starter' = [starter EXCEPT ![c] = [pc |-> "idle", run |-> 0]]
  BY DEF WriteRefused, NoStart
<1>2. /\ starter' = [o \in Starters |-> [pc |-> starter'[o].pc, run |-> starter'[o].run]]
      /\ starter'[c].pc = "idle" /\ \A o \in Starters \ {c} : starter'[o] = starter[o]
  BY <1>1, StarterSets DEF CrawlInv
<1>3. crawls' \in Seq(Crawl) /\ met' \in BOOLEAN
  BY <1>1 DEF CrawlInv, CrawlTyped
<1>4. ~Names(c)'
  BY <1>2 DEF Names, At
<1>5. CrawlTyped' /\ Handled' /\ CrawlCovered' /\ InFlight' \subseteq InFlight
  BY <1>1, <1>2, <1>3, <1>4, StarterKeeps
<1>6. Crawled'
  BY <1>2, <1>5, OneKept DEF CrawlInv, At
<1> QED BY <1>5, <1>6 DEF CrawlInv

LEMMA FindStep == ASSUME CrawlInv, NEW c \in Starters, FindInFlight(c) PROVE CrawlInv'
<1>1. /\ At(c, "idle") /\ crawls' = crawls /\ listener' = listener /\ forsaken' = forsaken
      /\ met' = (met \/ \E o \in Starters : ~At(o, "idle"))
      /\ starter' = [starter EXCEPT ![c] = IF InFlight = {} THEN [pc |-> "insert", run |-> 0]
                                           ELSE [pc |-> "look", run |-> Max(InFlight)]]
  BY DEF FindInFlight, Steady, Unheard
<1>2. PICK p, n : /\ starter' = [starter EXCEPT ![c] = [pc |-> p, run |-> n]]
                  /\ \/ InFlight = {} /\ p = "insert"
                     \/ InFlight # {} /\ p = "look" /\ n = Max(InFlight)
  BY <1>1
<1>3. /\ starter' = [o \in Starters |-> [pc |-> starter'[o].pc, run |-> starter'[o].run]]
      /\ starter'[c].pc = p /\ starter'[c].run = n
      /\ \A o \in Starters \ {c} : starter'[o] = starter[o]
  BY <1>2, StarterSets DEF CrawlInv
<1>4. crawls' \in Seq(Crawl) /\ met' \in BOOLEAN
  BY <1>1 DEF CrawlInv, CrawlTyped
<1>5. ~Names(c) /\ ~Names(c)'
  BY <1>1, <1>2, <1>3 DEF Names, At
<1>6. CrawlTyped' /\ Handled' /\ CrawlCovered'
  BY <1>1, <1>3, <1>4, <1>5, StarterKeeps
<1>7. Crawled'
  <2> SUFFICES ASSUME ~met' PROVE Crawled'
    BY DEF Crawled
  <2>1. ~met /\ \A o \in Starters : At(o, "idle")
    BY <1>1
  <2>2. InFlight' = InFlight
    BY <1>1 DEF InFlight
  <2>3. p = "look" => InFlight \subseteq {n}
    BY <1>2, <2>1, LatestIsOne DEF CrawlInv
  <2>4. \A o \in Starters \ {c} : At(o, "idle")'
    BY <1>3, <2>1 DEF At
  <2>5. \A m, k \in InFlight : m = k
    BY <2>1 DEF CrawlInv, Crawled
  <2> QED BY <1>2, <1>3, <2>2, <2>3, <2>4, <2>5 DEF Crawled, At
<1> QED BY <1>6, <1>7 DEF CrawlInv

LEMMA LookStep == ASSUME CrawlInv, NEW c \in Starters, LookAtJob(c) PROVE CrawlInv'
<1>1. /\ At(c, "look") /\ crawls' = crawls /\ listener' = listener /\ forsaken' = forsaken
      /\ met' = met
      /\ \/ starter' = [starter EXCEPT ![c] = [pc |-> "idle", run |-> 0]]
         \/ starter' = [starter EXCEPT ![c].pc = "replace"]
  BY DEF LookAtJob, Steady, Unheard, NoStart
<1>2. /\ starter' = [o \in Starters |-> [pc |-> starter'[o].pc, run |-> starter'[o].run]]
      /\ starter'[c].pc = "idle" \/ (starter'[c].pc = "replace" /\ starter'[c].run = starter[c].run)
      /\ \A o \in Starters \ {c} : starter'[o] = starter[o]
  BY <1>1, StarterSets, StarterMoves DEF CrawlInv
<1>3. crawls' \in Seq(Crawl) /\ met' \in BOOLEAN
  BY <1>1 DEF CrawlInv, CrawlTyped
<1>4. ~Names(c) /\ ~Names(c)' /\ ~At(c, "idle")
  BY <1>1, <1>2 DEF Names, At
<1>5. CrawlTyped' /\ Handled' /\ CrawlCovered' /\ InFlight' \subseteq InFlight
  BY <1>1, <1>2, <1>3, <1>4, StarterKeeps
<1>6. Crawled'
  BY <1>1, <1>2, <1>4, <1>5, OneKept DEF CrawlInv, At
<1> QED BY <1>5, <1>6 DEF CrawlInv

LEMMA ReplaceStep == ASSUME CrawlInv, NEW c \in Starters, Replace(c) PROVE CrawlInv'
<1>0. /\ At(c, "replace") /\ listener' = listener /\ forsaken' = forsaken /\ met' = met
      /\ ~Names(c) /\ ~At(c, "idle")
  BY DEF Replace, Steady, Unheard, Names, At
<1> SUFFICES ASSUME ~WriteRefused(c) PROVE CrawlInv'
  BY <1>0, WriteRefusedKeeps
<1>1. /\ At(c, "replace") /\ crawls' = FailRun(starter[c].run) /\ listener' = listener
      /\ forsaken' = forsaken /\ met' = met
      /\ starter' = [starter EXCEPT ![c] = [pc |-> "insert", run |-> 0]]
  BY <1>0 DEF Replace
<1>2. /\ starter' = [o \in Starters |-> [pc |-> starter'[o].pc, run |-> starter'[o].run]]
      /\ starter'[c].pc = "insert" /\ \A o \in Starters \ {c} : starter'[o] = starter[o]
  BY <1>1, StarterSets DEF CrawlInv
<1>3. /\ crawls' \in Seq(Crawl) /\ DOMAIN crawls' = DOMAIN crawls
      /\ starter[c].run \notin InFlight'
      /\ \A m \in DOMAIN crawls :
           /\ crawls'[m].job = crawls[m].job /\ crawls'[m].pc = crawls[m].pc
           /\ Live(crawls'[m].status) => Live(crawls[m].status)
  BY <1>1, FailedRun DEF CrawlInv
<1>4. ~Names(c) /\ ~Names(c)' /\ ~At(c, "idle") /\ met' \in BOOLEAN
  BY <1>1, <1>2 DEF Names, At, CrawlInv, CrawlTyped
<1>5. CrawlTyped' /\ Handled' /\ CrawlCovered' /\ InFlight' \subseteq InFlight
  BY <1>1, <1>2, <1>3, <1>4, StarterKeeps
<1>6. Crawled'
  <2>1. ~met => InFlight' = {}
    BY <1>1, <1>3, <1>5 DEF CrawlInv, Crawled, At
  <2>2. CASE met
    BY <1>1, <2>2 DEF Crawled
  <2>3. CASE ~met
    BY <1>1, <1>2, <1>4, <1>5, <2>1, <2>3, OneKept DEF CrawlInv
  <2> QED BY <2>2, <2>3
<1> QED BY <1>5, <1>6 DEF CrawlInv

LEMMA InsertStep == ASSUME CrawlInv, NEW c \in Starters, InsertCrawl(c) PROVE CrawlInv'
<1>0. /\ At(c, "insert") /\ listener' = listener /\ forsaken' = forsaken /\ met' = met
      /\ ~Names(c) /\ ~At(c, "idle")
  BY DEF InsertCrawl, Steady, Unheard, Names, At
<1> SUFFICES ASSUME ~WriteRefused(c) PROVE CrawlInv'
  BY <1>0, WriteRefusedKeeps
<1> PICK n : n = Len(crawls) + 1
  OBVIOUS
<1>1. /\ At(c, "insert") /\ crawls' = Append(crawls, NewCrawl) /\ listener' = listener
      /\ forsaken' = forsaken /\ met' = met
      /\ starter' = [starter EXCEPT ![c] = [pc |-> "name", run |-> n]]
  BY <1>0 DEF InsertCrawl
<1>2. /\ starter' = [o \in Starters |-> [pc |-> starter'[o].pc, run |-> starter'[o].run]]
      /\ starter'[c].pc = "name" /\ starter'[c].run = n
      /\ \A o \in Starters \ {c} : starter'[o] = starter[o]
  BY <1>1, StarterSets DEF CrawlInv
<1>3. NewCrawl \in Crawl /\ NewCrawl.job = "absent" /\ NewCrawl.pc = "idle" /\ NewCrawl.status = "queued"
  BY DEF NewCrawl, Crawl
<1>4. crawls \in Seq(Crawl) /\ DOMAIN crawls = 1..Len(crawls) /\ Len(crawls) \in Nat
  BY DEF CrawlInv, CrawlTyped
<1>5. /\ crawls' \in Seq(Crawl) /\ DOMAIN crawls' = DOMAIN crawls \union {n} /\ n \notin DOMAIN crawls
      /\ crawls'[n] = NewCrawl /\ \A m \in DOMAIN crawls : crawls'[m] = crawls[m]
  BY <1>1, <1>3, <1>4
<1>6. CrawlTyped'
  BY <1>1, <1>2, <1>5 DEF CrawlInv, CrawlTyped
<1>7. InFlight' = InFlight \union {n} /\ \A m \in InFlight : m \in DOMAIN crawls
  BY <1>3, <1>5 DEF InFlight, Live
<1>8. ~Names(c) /\ Names(c)' /\ \A o \in Starters \ {c} : (Names(o)' <=> Names(o)) /\ starter'[o].run = starter[o].run
  BY <1>1, <1>2 DEF Names, At
<1>9. Crawled'
  <2> SUFFICES ASSUME ~met PROVE Crawled'
    BY <1>1 DEF Crawled
  <2>1. InFlight = {}
    BY <1>1 DEF CrawlInv, Crawled
  <2>2. \A o \in Starters \ {c} : At(o, "idle")'
    BY <1>1, <1>2 DEF CrawlInv, Crawled, At
  <2>3. \A m, k \in InFlight' : m = k
    BY <1>7, <2>1
  <2> QED BY <1>2, <2>2, <2>3 DEF Crawled, At
<1>10. Handled'
  <2>1. ASSUME NEW o \in Starters, Names(o)'
        PROVE  /\ starter'[o].run \in DOMAIN crawls'
               /\ crawls'[starter'[o].run].job = "absent" /\ crawls'[starter'[o].run].pc = "idle"
               /\ \A u \in Starters : Names(u)' /\ starter'[u].run = starter'[o].run => u = o
    <3>1. \A u \in Starters \ {c} : Names(u)' => starter'[u].run \in DOMAIN crawls
      BY <1>8 DEF CrawlInv, Handled
    <3>2. CASE o = c
      BY <1>2, <1>3, <1>5, <3>1, <3>2
    <3>3. CASE o # c
      <4>1. /\ starter[o].run \in DOMAIN crawls
            /\ crawls[starter[o].run].job = "absent" /\ crawls[starter[o].run].pc = "idle"
            /\ \A u \in Starters : Names(u) /\ starter[u].run = starter[o].run => u = o
        BY <1>8, <2>1, <3>3 DEF CrawlInv, Handled
      <4> QED BY <1>2, <1>5, <1>8, <3>3, <4>1
    <3> QED BY <3>2, <3>3
  <2>2. \A m \in DOMAIN crawls' :
          /\ crawls'[m].pc # "idle" => crawls'[m].job \in {"active", "failed"}
          /\ crawls'[m].pc = "end" => ~Live(crawls'[m].status)
    BY <1>3, <1>5 DEF CrawlInv, Handled
  <2> QED BY <2>1, <2>2 DEF Handled
<1>11. CrawlCovered'
  <2> SUFFICES ASSUME NEW m \in InFlight'
               PROVE  \/ m \in forsaken' \/ m \in listener'
                      \/ crawls'[m].job \in {"waiting", "active"} \/ crawls'[m].pc # "idle"
                      \/ \E o \in Starters : Names(o)' /\ starter'[o].run = m
    BY DEF CrawlCovered
  <2>1. CASE m = n
    BY <1>2, <1>8, <2>1
  <2>2. CASE m \in InFlight
    <3>1. \/ m \in forsaken \/ m \in listener
          \/ crawls[m].job \in {"waiting", "active"} \/ crawls[m].pc # "idle"
          \/ \E o \in Starters \ {c} : Names(o) /\ starter[o].run = m
      BY <1>8, <2>2 DEF CrawlInv, CrawlCovered
    <3> QED BY <1>1, <1>5, <1>7, <1>8, <2>2, <3>1
  <2> QED BY <1>7, <2>1, <2>2
<1> QED BY <1>6, <1>9, <1>10, <1>11 DEF CrawlInv

LEMMA NameStep == ASSUME CrawlInv, NEW c \in Starters, NameJob(c) PROVE CrawlInv'
<1>0. /\ At(c, "name") /\ listener' = listener /\ met' = met
      /\ Names(c) /\ ~At(c, "idle")
  BY DEF NameJob, Unheard, Names, At
<1> SUFFICES ASSUME forsaken' = forsaken,
                    crawls' = [crawls EXCEPT ![starter[c].run].named = TRUE],
                    starter' = [starter EXCEPT ![c].pc = "add"]
             PROVE  CrawlInv'
  <2>1. CASE WriteRefused(c) /\ forsaken' = forsaken \cup {starter[c].run}
    BY <1>0, <2>1, WriteRefusedKeeps
  <2> QED BY <2>1 DEF NameJob
<1> PICK n : n = starter[c].run
  OBVIOUS
<1> DEFINE x == [crawls[n] EXCEPT !.named = TRUE]
<1>1. /\ At(c, "name") /\ crawls' = [crawls EXCEPT ![n] = x] /\ listener' = listener
      /\ forsaken' = forsaken /\ met' = met
      /\ starter' = [starter EXCEPT ![c].pc = "add"]
  BY <1>0
<1>2. /\ starter' = [o \in Starters |-> [pc |-> starter'[o].pc, run |-> starter'[o].run]]
      /\ starter'[c].pc = "add" /\ starter'[c].run = starter[c].run
      /\ \A o \in Starters \ {c} : starter'[o] = starter[o]
  BY <1>1, StarterMoves DEF CrawlInv
<1>3. Names(c) /\ Names(c)' /\ ~At(c, "idle")
  BY <1>1, <1>2 DEF Names, At
<1>4. n \in DOMAIN crawls /\ crawls[n] \in Crawl
  BY <1>3, FlightKnown DEF CrawlInv, Handled
<1>5. x \in Crawl /\ x.job = crawls[n].job /\ x.pc = crawls[n].pc /\ x.status = crawls[n].status
  BY <1>4 DEF Crawl
<1> HIDE DEF x
<1>6. /\ crawls' \in Seq(Crawl) /\ DOMAIN crawls' = DOMAIN crawls
      /\ crawls'[n] = x /\ \A m \in DOMAIN crawls \ {n} : crawls'[m] = crawls[m]
  BY <1>1, <1>4, <1>5, CrawlEdits DEF CrawlInv
<1>7. \A m \in DOMAIN crawls : /\ crawls'[m].job = crawls[m].job /\ crawls'[m].pc = crawls[m].pc
                               /\ Live(crawls'[m].status) => Live(crawls[m].status)
  BY <1>5, <1>6
<1>8. met' \in BOOLEAN
  BY <1>1 DEF CrawlInv, CrawlTyped
<1>9. CrawlTyped' /\ Handled' /\ CrawlCovered' /\ InFlight' \subseteq InFlight
  BY <1>1, <1>2, <1>3, <1>6, <1>7, <1>8, StarterKeeps
<1>10. Crawled'
  BY <1>1, <1>2, <1>3, <1>9, OneKept DEF CrawlInv, At
<1> QED BY <1>9, <1>10 DEF CrawlInv

LEMMA RefusedStep == ASSUME CrawlInv, NEW c \in Starters, CrawlRefused(c) PROVE CrawlInv'
<1>0. At(c, "refused") /\ listener' = listener /\ met' = met /\ ~At(c, "idle")
  BY DEF CrawlRefused, Unheard, At
<1> SUFFICES ASSUME forsaken' = forsaken, crawls' = FailRun(starter[c].run),
                    starter' = [starter EXCEPT ![c] = NoStart]
             PROVE  CrawlInv'
  <2>1. CASE WriteRefused(c) /\ forsaken' = forsaken \cup {starter[c].run}
    BY <1>0, <2>1, WriteRefusedKeeps
  <2> QED BY <2>1 DEF CrawlRefused
<1>1. /\ At(c, "refused") /\ crawls' = FailRun(starter[c].run) /\ listener' = listener
      /\ forsaken' = forsaken /\ met' = met
      /\ starter' = [starter EXCEPT ![c] = [pc |-> "idle", run |-> 0]]
  BY <1>0 DEF NoStart
<1>2. /\ starter' = [o \in Starters |-> [pc |-> starter'[o].pc, run |-> starter'[o].run]]
      /\ starter'[c].pc = "idle" /\ \A o \in Starters \ {c} : starter'[o] = starter[o]
  BY <1>1, StarterSets DEF CrawlInv
<1>3. /\ crawls' \in Seq(Crawl) /\ DOMAIN crawls' = DOMAIN crawls
      /\ starter[c].run \notin InFlight'
      /\ \A m \in DOMAIN crawls :
           /\ crawls'[m].job = crawls[m].job /\ crawls'[m].pc = crawls[m].pc
           /\ Live(crawls'[m].status) => Live(crawls[m].status)
  BY <1>1, FailedRun DEF CrawlInv
<1>4. ~Names(c)' /\ ~At(c, "idle") /\ met' \in BOOLEAN
  BY <1>1, <1>2 DEF Names, At, CrawlInv, CrawlTyped
<1>5. CrawlTyped' /\ Handled' /\ CrawlCovered' /\ InFlight' \subseteq InFlight
  BY <1>1, <1>2, <1>3, <1>4, StarterKeeps
<1>6. Crawled'
  BY <1>1, <1>2, <1>4, <1>5, OneKept DEF CrawlInv, At
<1> QED BY <1>5, <1>6 DEF CrawlInv

\* The job is added, or the queue refuses it.
LEMMA AddCrawlStep == ASSUME CrawlInv, NEW c \in Starters, AddCrawl(c) PROVE CrawlInv'
<1> PICK n : n = starter[c].run
  OBVIOUS
<1> DEFINE x == [crawls[n] EXCEPT !.job = "waiting"]
<1>1. /\ At(c, "add") /\ listener' = listener /\ forsaken' = forsaken /\ met' = met
      /\ \/ crawls' = [crawls EXCEPT ![n] = x] /\ starter' = [starter EXCEPT ![c] = [pc |-> "idle", run |-> 0]]
         \/ crawls' = crawls /\ starter' = [starter EXCEPT ![c].pc = "refused"]
  BY DEF AddCrawl, Steady, Unheard, NoStart
<1>2. Names(c) /\ ~At(c, "idle") /\ met' \in BOOLEAN
  BY <1>1 DEF Names, At, CrawlInv, CrawlTyped
<1>3. n \in DOMAIN crawls /\ crawls[n] \in Crawl /\ crawls[n].pc = "idle"
      /\ \A o \in Starters : Names(o) /\ starter[o].run = n => o = c
  BY <1>2, FlightKnown DEF CrawlInv, Handled
<1>4. CASE crawls' = crawls /\ starter' = [starter EXCEPT ![c].pc = "refused"]
  <2>1. /\ starter' = [o \in Starters |-> [pc |-> starter'[o].pc, run |-> starter'[o].run]]
        /\ starter'[c].pc = "refused" /\ starter'[c].run = starter[c].run
        /\ \A o \in Starters \ {c} : starter'[o] = starter[o]
    BY <1>4, StarterMoves DEF CrawlInv
  <2>2. Names(c)' /\ crawls' \in Seq(Crawl)
    BY <1>4, <2>1 DEF Names, CrawlInv, CrawlTyped
  <2>3. CrawlTyped' /\ Handled' /\ CrawlCovered' /\ InFlight' \subseteq InFlight
    BY <1>1, <1>2, <1>4, <2>1, <2>2, StarterKeeps
  <2>4. Crawled'
    BY <1>1, <1>2, <2>1, <2>3, OneKept DEF CrawlInv, At
  <2> QED BY <2>3, <2>4 DEF CrawlInv
<1>5. CASE crawls' = [crawls EXCEPT ![n] = x] /\ starter' = [starter EXCEPT ![c] = [pc |-> "idle", run |-> 0]]
  <2>1. x \in Crawl /\ x.job = "waiting" /\ x.pc = "idle" /\ x.status = crawls[n].status
    BY <1>3 DEF Crawl
  <2> HIDE DEF x
  <2>2. /\ starter' = [o \in Starters |-> [pc |-> starter'[o].pc, run |-> starter'[o].run]]
        /\ starter'[c].pc = "idle" /\ \A o \in Starters \ {c} : starter'[o] = starter[o]
    BY <1>5, StarterSets DEF CrawlInv
  <2>3. /\ crawls' \in Seq(Crawl) /\ DOMAIN crawls' = DOMAIN crawls
        /\ crawls'[n] = x /\ \A m \in DOMAIN crawls \ {n} : crawls'[m] = crawls[m]
    BY <1>3, <1>5, <2>1, CrawlEdits DEF CrawlInv
  <2>4. CrawlTyped'
    BY <1>2, <2>2, <2>3 DEF CrawlTyped
  <2>5. InFlight' = InFlight /\ InFlight \subseteq DOMAIN crawls
    BY <2>1, <2>3 DEF InFlight
  <2>6. Crawled'
    BY <1>1, <1>2, <2>2, <2>5, OneKept DEF CrawlInv, At
  <2>7. \A o \in Starters : Names(o)' => /\ o # c /\ Names(o) /\ starter'[o].run = starter[o].run
                                         /\ starter[o].run # n
    BY <1>3, <2>2 DEF Names
  <2>8. Handled'
    <3>1. ASSUME NEW o \in Starters, Names(o)'
          PROVE  /\ starter'[o].run \in DOMAIN crawls'
                 /\ crawls'[starter'[o].run].job = "absent" /\ crawls'[starter'[o].run].pc = "idle"
                 /\ \A u \in Starters : Names(u)' /\ starter'[u].run = starter'[o].run => u = o
      <4>1. /\ starter[o].run \in DOMAIN crawls
            /\ crawls[starter[o].run].job = "absent" /\ crawls[starter[o].run].pc = "idle"
            /\ \A u \in Starters : Names(u) /\ starter[u].run = starter[o].run => u = o
        BY <2>7, <3>1 DEF CrawlInv, Handled
      <4> QED BY <2>3, <2>7, <3>1, <4>1
    <3>2. \A m \in DOMAIN crawls' :
            /\ crawls'[m].pc # "idle" => crawls'[m].job \in {"active", "failed"}
            /\ crawls'[m].pc = "end" => ~Live(crawls'[m].status)
      BY <2>1, <2>3 DEF CrawlInv, Handled
    <3> QED BY <3>1, <3>2 DEF Handled
  <2>9. CrawlCovered'
    <3> SUFFICES ASSUME NEW m \in InFlight, m # n
                 PROVE  \/ m \in forsaken' \/ m \in listener'
                        \/ crawls'[m].job \in {"waiting", "active"} \/ crawls'[m].pc # "idle"
                        \/ \E o \in Starters : Names(o)' /\ starter'[o].run = m
      BY <2>1, <2>3, <2>5 DEF CrawlCovered
    <3>1. \/ m \in forsaken \/ m \in listener
          \/ crawls[m].job \in {"waiting", "active"} \/ crawls[m].pc # "idle"
          \/ \E o \in Starters \ {c} : Names(o) /\ starter[o].run = m
      BY DEF CrawlInv, CrawlCovered
    <3>2. \A o \in Starters \ {c} : (Names(o) <=> Names(o)') /\ starter'[o].run = starter[o].run
      BY <2>2 DEF Names
    <3> QED BY <1>1, <2>3, <2>5, <3>1, <3>2
  <2> QED BY <2>4, <2>6, <2>8, <2>9 DEF CrawlInv
<1> QED BY <1>1, <1>4, <1>5

-----------------------------------------------------------------------------
(* The crawls: the steps of handlers, of the queue and of a new start *)

\* What is left to show of a step that changes one run.
LEMMA HandlerKeeps ==
  ASSUME CrawlInv, NEW n \in DOMAIN crawls, NEW x \in Crawl,
         crawls' = [crawls EXCEPT ![n] = x], starter' = starter,
         met' \in BOOLEAN, met => met', Live(x.status) => n \in InFlight \/ met',
         forsaken \subseteq forsaken', listener \ {n} \subseteq listener',
         \/ x.job = crawls[n].job /\ x.pc = crawls[n].pc
         \/ \A c \in Starters : Names(c) => starter[c].run # n,
         x.pc # "idle" => x.job \in {"active", "failed"}, x.pc = "end" => ~Live(x.status),
         Live(x.status) => \/ n \in forsaken' \/ n \in listener'
                           \/ x.job \in {"waiting", "active"} \/ x.pc # "idle"
                           \/ \E c \in Starters : Names(c) /\ starter[c].run = n
  PROVE  CrawlInv'
<1>1. /\ crawls' \in Seq(Crawl) /\ DOMAIN crawls' = DOMAIN crawls
      /\ crawls'[n] = x /\ \A m \in DOMAIN crawls \ {n} : crawls'[m] = crawls[m]
  BY CrawlEdits DEF CrawlInv
<1>2. CrawlTyped'
  BY <1>1 DEF CrawlInv, CrawlTyped
<1>3. \A c \in Starters : (Names(c)' <=> Names(c))
  BY DEF Names
<1>4. InFlight' \subseteq InFlight \/ met'
  BY <1>1 DEF InFlight
<1>5. Crawled'
  BY <1>4 DEF CrawlInv, Crawled, At
<1>6. Handled'
  <2>1. ASSUME NEW c \in Starters, Names(c)'
        PROVE  /\ starter'[c].run \in DOMAIN crawls'
               /\ crawls'[starter'[c].run].job = "absent" /\ crawls'[starter'[c].run].pc = "idle"
               /\ \A o \in Starters : Names(o)' /\ starter'[o].run = starter'[c].run => o = c
    <3>1. /\ starter[c].run \in DOMAIN crawls
          /\ crawls[starter[c].run].job = "absent" /\ crawls[starter[c].run].pc = "idle"
          /\ \A o \in Starters : Names(o) /\ starter[o].run = starter[c].run => o = c
      BY <1>3, <2>1 DEF CrawlInv, Handled
    <3>2. CASE starter[c].run = n
      BY <1>1, <1>3, <2>1, <3>1, <3>2
    <3>3. CASE starter[c].run # n
      BY <1>1, <1>3, <3>1, <3>3
    <3> QED BY <3>2, <3>3
  <2>2. \A m \in DOMAIN crawls' :
          /\ crawls'[m].pc # "idle" => crawls'[m].job \in {"active", "failed"}
          /\ crawls'[m].pc = "end" => ~Live(crawls'[m].status)
    BY <1>1 DEF CrawlInv, Handled
  <2> QED BY <2>1, <2>2 DEF Handled
<1>7. CrawlCovered'
  <2> SUFFICES ASSUME NEW m \in InFlight'
               PROVE  \/ m \in forsaken' \/ m \in listener'
                      \/ crawls'[m].job \in {"waiting", "active"} \/ crawls'[m].pc # "idle"
                      \/ \E c \in Starters : Names(c)' /\ starter'[c].run = m
    BY DEF CrawlCovered
  <2>1. CASE m = n
    BY <1>1, <1>3, <2>1 DEF InFlight
  <2>2. CASE m # n
    <3>1. m \in InFlight
      BY <1>1, <2>2 DEF InFlight
    <3> QED BY <1>1, <1>3, <2>2, <3>1, FlightKnown DEF CrawlInv, CrawlCovered
  <2> QED BY <2>1, <2>2
<1> QED BY <1>2, <1>5, <1>6, <1>7 DEF CrawlInv

\* A run that is handled or waits is not the one a request is about to add.
LEMMA NotNamed ==
  ASSUME CrawlInv, NEW n \in DOMAIN crawls, crawls[n].pc # "idle" \/ crawls[n].job = "waiting"
  PROVE  \A c \in Starters : Names(c) => starter[c].run # n
BY DEF CrawlInv, Handled

LEMMA TakeStep == ASSUME CrawlInv, NEW n \in DOMAIN crawls, TakeCrawl(n) PROVE CrawlInv'
<1> DEFINE x == [crawls[n] EXCEPT !.job = "active", !.pc = "start"]
<1>1. /\ crawls[n].job = "waiting" /\ crawls' = [crawls EXCEPT ![n] = x] /\ listener' = listener
      /\ met' = met /\ starter' = starter /\ forsaken' = forsaken
  BY DEF TakeCrawl, Put, Alone
<1>2. crawls[n] \in Crawl
  BY FlightKnown DEF CrawlInv
<1>3. x \in Crawl /\ x.job = "active" /\ x.pc = "start" /\ x.status = crawls[n].status
  BY <1>2 DEF Crawl
<1> HIDE DEF x
<1>4. (Live(x.status) => n \in InFlight) /\ met' \in BOOLEAN
  BY <1>1, <1>3 DEF InFlight, CrawlInv, CrawlTyped
<1> QED BY <1>1, <1>3, <1>4, NotNamed, HandlerKeeps

LEMMA StartStep == ASSUME CrawlInv, NEW n \in DOMAIN crawls, StartCrawl(n) PROVE CrawlInv'
<1> DEFINE x == [crawls[n] EXCEPT !.status = "running", !.pc = "crawl"]
<1>1. /\ crawls[n].pc = "start" /\ crawls' = [crawls EXCEPT ![n] = x] /\ listener' = listener
      /\ met' = (met \/ ~Live(crawls[n].status)) /\ starter' = starter /\ forsaken' = forsaken
  BY DEF StartCrawl, Put, Alone
<1>2. crawls[n] \in Crawl /\ crawls[n].job \in {"active", "failed"}
  BY <1>1, FlightKnown DEF CrawlInv, Handled
<1>3. x \in Crawl /\ x.job = crawls[n].job /\ x.pc = "crawl"
  BY <1>2 DEF Crawl
<1> HIDE DEF x
<1>4. (n \in InFlight \/ met') /\ met' \in BOOLEAN /\ (met => met')
  BY <1>1 DEF InFlight, CrawlInv, CrawlTyped
<1> QED BY <1>1, <1>2, <1>3, <1>4, NotNamed, HandlerKeeps

LEMMA EndStep == ASSUME CrawlInv, NEW n \in DOMAIN crawls, EndCrawl(n) PROVE CrawlInv'
<1>1. /\ crawls[n].pc = "crawl" /\ listener' = listener
      /\ met' = met /\ starter' = starter /\ forsaken' = forsaken
  BY DEF EndCrawl, Alone
<1>2. PICK s \in {"completed", "failed"} : crawls' = [crawls EXCEPT ![n] = [crawls[n] EXCEPT !.status = s, !.pc = "end"]]
  BY DEF EndCrawl, Put
<1> DEFINE x == [crawls[n] EXCEPT !.status = s, !.pc = "end"]
<1>3. crawls[n] \in Crawl /\ crawls[n].job \in {"active", "failed"} /\ crawls' = [crawls EXCEPT ![n] = x]
  BY <1>1, <1>2, FlightKnown DEF CrawlInv, Handled
<1>4. x \in Crawl /\ x.job = crawls[n].job /\ x.pc = "end" /\ ~Live(x.status)
  BY <1>3 DEF Crawl, Live
<1> HIDE DEF x
<1>5. met' \in BOOLEAN
  BY <1>1 DEF CrawlInv, CrawlTyped
<1> QED BY <1>1, <1>3, <1>4, <1>5, NotNamed, HandlerKeeps

LEMMA LeaveStep == ASSUME CrawlInv, NEW n \in DOMAIN crawls, LeaveCrawl(n) PROVE CrawlInv'
<1>1. /\ crawls[n].pc = "end" /\ listener' = listener
      /\ met' = met /\ starter' = starter /\ forsaken' = forsaken
  BY DEF LeaveCrawl, Alone
<1>2. PICK j \in {"absent", crawls[n].job} :
        crawls' = [crawls EXCEPT ![n] = [crawls[n] EXCEPT !.pc = "idle", !.late = FALSE, !.job = j]]
  BY DEF LeaveCrawl, Put
<1> DEFINE x == [crawls[n] EXCEPT !.pc = "idle", !.late = FALSE, !.job = j]
<1>3. crawls[n] \in Crawl /\ ~Live(crawls[n].status) /\ crawls' = [crawls EXCEPT ![n] = x]
  BY <1>1, <1>2, FlightKnown DEF CrawlInv, Handled
<1>4. x \in Crawl /\ x.pc = "idle" /\ ~Live(x.status)
  BY <1>3 DEF Crawl
<1> HIDE DEF x
<1>5. met' \in BOOLEAN
  BY <1>1 DEF CrawlInv, CrawlTyped
<1> QED BY <1>1, <1>3, <1>4, <1>5, NotNamed, HandlerKeeps

LEMMA ThrowsStep == ASSUME CrawlInv, NEW n \in DOMAIN crawls, CrawlThrows(n) PROVE CrawlInv'
<1> DEFINE x == [crawls[n] EXCEPT !.pc = "idle", !.late = FALSE, !.job = "failed"]
<1>1. /\ crawls[n].pc \in {"start", "crawl"} /\ crawls' = [crawls EXCEPT ![n] = x]
      /\ met' = met /\ starter' = starter
      /\ n \in forsaken' \/ n \in listener'
      /\ forsaken \subseteq forsaken' /\ listener \subseteq listener'
  BY DEF CrawlThrows, Put
<1>2. crawls[n] \in Crawl
  BY FlightKnown DEF CrawlInv
<1>3. x \in Crawl /\ x.pc = "idle" /\ x.status = crawls[n].status
  BY <1>2 DEF Crawl
<1> HIDE DEF x
<1>4. (Live(x.status) => n \in InFlight) /\ met' \in BOOLEAN
  BY <1>1, <1>3 DEF InFlight, CrawlInv, CrawlTyped
<1> QED BY <1>1, <1>3, <1>4, NotNamed, HandlerKeeps

LEMMA CrawlTimeoutStep == ASSUME CrawlInv, NEW n \in DOMAIN crawls, CrawlTimeout(n) PROVE CrawlInv'
<1> DEFINE x == [crawls[n] EXCEPT !.job = "failed", !.late = TRUE]
<1>1. /\ crawls[n].pc # "idle" /\ crawls' = [crawls EXCEPT ![n] = x]
      /\ met' = met /\ starter' = starter
      /\ n \in listener' /\ forsaken \subseteq forsaken' /\ listener \subseteq listener'
  BY DEF CrawlTimeout, Put, Alone
<1>2. crawls[n] \in Crawl /\ (crawls[n].pc = "end" => ~Live(crawls[n].status))
  BY FlightKnown DEF CrawlInv, Handled
<1>3. x \in Crawl /\ x.pc = crawls[n].pc /\ x.job = "failed" /\ x.status = crawls[n].status
  BY <1>2 DEF Crawl
<1> HIDE DEF x
<1>4. (Live(x.status) => n \in InFlight) /\ met' \in BOOLEAN
  BY <1>1, <1>3 DEF InFlight, CrawlInv, CrawlTyped
<1> QED BY <1>1, <1>2, <1>3, <1>4, NotNamed, HandlerKeeps

LEMMA CrawlStays ==
  ASSUME CrawlInv, crawls' = crawls, starter' = starter, listener' = listener, met' = met, forsaken' = forsaken
  PROVE  CrawlInv'
BY DEF CrawlInv, CrawlTyped, Crawled, Handled, CrawlCovered, Names, At, InFlight

\* A run is given up, or kept.
LEMMA GivenUpStep ==
  ASSUME CrawlInv, NEW n \in DOMAIN crawls, HearFailure(n) \/ CheckRun(n)
  PROVE  CrawlInv'
<1>1. /\ (crawls' = crawls /\ listener' = listener) \/ crawls' = FailRun(n)
      /\ met' = met /\ starter' = starter /\ forsaken' = forsaken /\ listener \ {n} \subseteq listener'
  BY DEF HearFailure, CheckRun, Alone
<1>2. CASE crawls' = crawls /\ listener' = listener
  BY <1>1, <1>2, CrawlStays
<1>3. CASE crawls' = FailRun(n)
  <2>1. /\ crawls' \in Seq(Crawl) /\ DOMAIN crawls' = DOMAIN crawls
        /\ n \notin InFlight'
        /\ \A m \in DOMAIN crawls :
             /\ crawls'[m].job = crawls[m].job /\ crawls'[m].pc = crawls[m].pc
             /\ Live(crawls'[m].status) => Live(crawls[m].status)
    BY <1>3, FailedRun DEF CrawlInv
  <2> PICK x : x = crawls'[n]
    OBVIOUS
  <2>2. /\ x \in Crawl /\ x.job = crawls[n].job /\ x.pc = crawls[n].pc
        /\ ~Live(x.status)
    <3>1. crawls'[n] \in Crawl
      BY <2>1
    <3>2. ~Live(crawls'[n].status)
      BY <2>1 DEF InFlight
    <3> QED BY <2>1, <3>1, <3>2
  <2>3. crawls' = [crawls EXCEPT ![n] = x]
    <3>1. PICK k \in Nat : crawls \in [1..k -> Crawl]
      BY DEF CrawlInv, CrawlTyped
    <3>2. CASE n \in InFlight
      <4> DEFINE y == [crawls[n] EXCEPT !.status = "failed"]
      <4>1. crawls' = [crawls EXCEPT ![n] = y]
        BY <1>3, <3>2 DEF FailRun
      <4> HIDE DEF y
      <4>2. y = x
        BY <4>1, <3>1
      <4> QED BY <4>1, <4>2
    <3>3. CASE n \notin InFlight
      <4>1. crawls' = crawls
        BY <1>3, <3>3 DEF FailRun
      <4> QED BY <4>1, <3>1
    <3> QED BY <3>2, <3>3
  <2>4. (x.pc # "idle" => x.job \in {"active", "failed"}) /\ met' \in BOOLEAN
    BY <1>1, <2>2 DEF CrawlInv, Handled, CrawlTyped
  <2>5. (met => met') /\ (x.pc = "end" => ~Live(x.status))
    BY <1>1, <2>2
  <2>6. forsaken \subseteq forsaken'
    BY <1>1
  <2> QED BY <1>1, <2>2, <2>3, <2>4, <2>5, <2>6, HandlerKeeps
<1> QED BY <1>1, <1>2, <1>3

\* The process dies: every run that is not waiting in the queue is forsaken or heard of.
LEMMA CrawlDiesStep == ASSUME CrawlInv, CrawlDies PROVE CrawlInv'
<1>1. PICK after \in {"waiting", "failed"} :
        /\ crawls' = [n \in DOMAIN crawls |->
             [crawls[n] EXCEPT !.pc = "idle", !.late = FALSE,
                               !.job = IF n \in {m \in DOMAIN crawls : crawls[m].job = "active"} THEN after ELSE @]]
        /\ listener' = IF after = "failed" THEN {m \in DOMAIN crawls : crawls[m].job = "active"} ELSE {}
  BY DEF CrawlDies
<1>2. /\ starter' = [c \in Starters |-> NoStart] /\ met' = met
      /\ forsaken' = forsaken \cup {n \in InFlight : crawls[n].job \notin {"waiting", "active"}}
  BY DEF CrawlDies
<1>3. DOMAIN crawls' = DOMAIN crawls /\ \A n \in DOMAIN crawls : crawls[n] \in Crawl
  BY <1>1, FlightKnown DEF CrawlInv
<1>4. ASSUME NEW n \in DOMAIN crawls
      PROVE  /\ crawls'[n] \in Crawl /\ crawls'[n].pc = "idle" /\ crawls'[n].status = crawls[n].status
             /\ crawls'[n].job = IF crawls[n].job = "active" THEN after ELSE crawls[n].job
  <2> PICK j \in {after, crawls[n].job} : j = IF crawls[n].job = "active" THEN after ELSE crawls[n].job
    OBVIOUS
  <2>1. crawls'[n] = [crawls[n] EXCEPT !.pc = "idle", !.late = FALSE, !.job = j]
    BY <1>1
  <2>2. crawls[n] \in Crawl
    BY <1>3
  <2> QED BY <2>1, <2>2 DEF Crawl
<1>5. crawls' \in Seq(Crawl)
  <2>1. PICK k \in Nat : crawls \in [1..k -> Crawl]
    BY DEF CrawlInv, CrawlTyped
  <2>2. crawls' = [n \in 1..k |-> crawls'[n]]
    BY <1>1, <2>1
  <2>3. crawls' \in [1..k -> Crawl]
    BY <1>4, <2>1, <2>2
  <2> QED BY <2>3
<1>6. \A c \in Starters : At(c, "idle")' /\ ~Names(c)'
  BY <1>2 DEF At, Names, NoStart
<1>7. CrawlTyped'
  <2>1. \A c \in Starters : starter'[c] = [pc |-> starter'[c].pc, run |-> starter'[c].run]
    BY <1>2 DEF NoStart
  <2>2. starter' = [c \in Starters |-> starter'[c]]
    BY <1>2
  <2>3. starter' = [c \in Starters |-> [pc |-> starter'[c].pc, run |-> starter'[c].run]]
    BY <2>1, <2>2
  <2> QED BY <1>2, <1>5, <2>3 DEF CrawlInv, CrawlTyped
<1>8. InFlight' = InFlight
  BY <1>3, <1>4 DEF InFlight
<1>9. Crawled'
  BY <1>2, <1>6, <1>8 DEF CrawlInv, Crawled, At
<1>10. Handled'
  BY <1>3, <1>4, <1>6 DEF Handled
<1>11. CrawlCovered'
  <2> SUFFICES ASSUME NEW n \in InFlight
               PROVE  n \in forsaken' \/ n \in listener' \/ crawls'[n].job \in {"waiting", "active"}
    BY <1>8 DEF CrawlCovered
  <2>1. n \in DOMAIN crawls
    BY FlightKnown DEF CrawlInv
  <2> QED BY <1>1, <1>2, <1>4, <2>1
<1> QED BY <1>7, <1>9, <1>10, <1>11 DEF CrawlInv

LEMMA CrawlStart == CrawlInit => CrawlInv
<1> SUFFICES ASSUME CrawlInit PROVE CrawlInv
  OBVIOUS
<1>1. crawls = <<>> /\ starter = [c \in Starters |-> NoStart] /\ met = FALSE
  BY DEF CrawlInit
<1>2. crawls \in Seq(Crawl) /\ DOMAIN crawls = {} /\ InFlight = {}
  BY <1>1 DEF InFlight
<1>3. \A c \in Starters : At(c, "idle") /\ ~Names(c)
  BY <1>1 DEF At, Names, NoStart
<1>4. CrawlTyped
  <2>1. \A c \in Starters : starter[c] = [pc |-> starter[c].pc, run |-> starter[c].run]
    BY <1>1 DEF NoStart
  <2>2. starter = [c \in Starters |-> starter[c]]
    BY <1>1
  <2>3. starter = [c \in Starters |-> [pc |-> starter[c].pc, run |-> starter[c].run]]
    BY <2>1, <2>2
  <2> QED BY <1>1, <1>2, <2>3 DEF CrawlTyped
<1> QED BY <1>2, <1>3, <1>4 DEF CrawlInv, Crawled, Handled, CrawlCovered, At

LEMMA CrawlStepKeeps == CrawlInv /\ CrawlStep => CrawlInv'
BY FindStep, LookStep, ReplaceStep, InsertStep, NameStep, AddCrawlStep, RefusedStep,
   TakeStep, StartStep, EndStep, LeaveStep, ThrowsStep, CrawlTimeoutStep, GivenUpStep, Zenon DEF CrawlStep

LEMMA CrawlsOfInv == CrawlInv => OneCrawl /\ CrawlSettled
<1> SUFFICES ASSUME CrawlInv PROVE OneCrawl /\ CrawlSettled
  OBVIOUS
<1>1. OneCrawl
  <2> SUFFICES ASSUME ~met PROVE Cardinality(InFlight) <= 1
    BY DEF OneCrawl
  <2>1. CASE InFlight = {}
    BY <2>1, FS_EmptySet
  <2>2. ASSUME NEW n \in InFlight PROVE Cardinality(InFlight) <= 1
    <3>1. InFlight = {n}
      BY <2>2 DEF CrawlInv, Crawled
    <3> QED BY <3>1, FS_Singleton
  <2> QED BY <2>1, <2>2
<1>2. CrawlSettled
  <2> SUFFICES ASSUME CrawlAtRest, NEW n \in InFlight PROVE n \in forsaken
    BY DEF CrawlSettled
  <2>1. n \in DOMAIN crawls
    BY FlightKnown DEF CrawlInv
  <2>2. \A c \in Starters : ~Names(c)
    BY DEF CrawlAtRest, At, Names
  <2> QED BY <2>1, <2>2 DEF CrawlInv, CrawlCovered, CrawlAtRest
<1> QED BY <1>1, <1>2

-----------------------------------------------------------------------------
(* The crawls: their outcomes *)

\* What OutcomeKept says of a step.
Outcomes == \A n \in DOMAIN crawls :
  ~Live(crawls[n].status) /\ crawls'[n].status # crawls[n].status
    => crawls[n].pc # "idle" /\ crawls'[n].pc # crawls[n].pc

LEMMA EditKeepsOutcomes ==
  ASSUME CrawlTyped, NEW n, NEW x, crawls' = [crawls EXCEPT ![n] = x],
         n \in DOMAIN crawls => \/ x.status = crawls[n].status
                                \/ crawls[n].pc # "idle" /\ x.pc # crawls[n].pc
  PROVE  Outcomes
<1>1. PICK k \in Nat : crawls \in [1..k -> Crawl]
  BY DEF CrawlTyped
<1>2. \A m \in DOMAIN crawls : crawls'[m] = IF m = n THEN x ELSE crawls[m]
  BY <1>1
<1> QED BY <1>2 DEF Outcomes

LEMMA FailKeepsOutcomes == ASSUME CrawlTyped, NEW n, crawls' = FailRun(n) PROVE Outcomes
BY FailedRun DEF Outcomes, InFlight

LEMMA RequestKeepsOutcomes ==
  ASSUME CrawlInv, NEW c \in Starters,
         \/ FindInFlight(c) \/ LookAtJob(c) \/ Replace(c) \/ InsertCrawl(c) \/ NameJob(c)
         \/ AddCrawl(c) \/ CrawlRefused(c)
  PROVE  Outcomes
<1> PICK n : n = starter[c].run
  OBVIOUS
<1>1. CrawlTyped
  BY DEF CrawlInv
<1>2. CASE FindInFlight(c) \/ LookAtJob(c) \/ crawls' = crawls
  BY <1>2 DEF FindInFlight, LookAtJob, Outcomes
<1>3. CASE Replace(c) \/ CrawlRefused(c)
  <2>1. crawls' = FailRun(starter[c].run) \/ crawls' = crawls
    BY <1>3 DEF Replace, CrawlRefused, WriteRefused
  <2> QED BY <1>1, <1>2, <2>1, FailKeepsOutcomes
<1>4. CASE InsertCrawl(c) /\ crawls' # crawls
  <2>1. crawls' = Append(crawls, NewCrawl)
    BY <1>4 DEF InsertCrawl, WriteRefused
  <2>2. PICK k \in Nat : crawls \in [1..k -> Crawl]
    BY <1>1 DEF CrawlTyped
  <2>3. Len(crawls) = k /\ DOMAIN crawls = 1..k
    BY <2>2
  <2>4. \A m \in DOMAIN crawls : crawls'[m] = crawls[m]
    BY <1>1, <2>1, <2>3 DEF CrawlTyped
  <2> QED BY <2>4 DEF Outcomes
<1>5. CASE NameJob(c) /\ crawls' # crawls
  <2> DEFINE x == [crawls[n] EXCEPT !.named = TRUE]
  <2>1. crawls' = [crawls EXCEPT ![n] = x]
    BY <1>5 DEF NameJob, WriteRefused
  <2>2. n \in DOMAIN crawls => x.status = crawls[n].status
    BY <1>1, FlightKnown DEF Crawl
  <2> HIDE DEF x
  <2> QED BY <1>1, <2>1, <2>2, EditKeepsOutcomes
<1>6. CASE AddCrawl(c)
  <2> DEFINE x == [crawls[n] EXCEPT !.job = "waiting"]
  <2>1. crawls' = [crawls EXCEPT ![n] = x] \/ crawls' = crawls
    BY <1>6 DEF AddCrawl
  <2>2. n \in DOMAIN crawls => x.status = crawls[n].status
    BY <1>1, FlightKnown DEF Crawl
  <2> HIDE DEF x
  <2>3. crawls' = crawls => Outcomes
    BY DEF Outcomes
  <2> QED BY <1>1, <2>1, <2>2, <2>3, EditKeepsOutcomes
<1> QED BY <1>2, <1>3, <1>4, <1>5, <1>6

LEMMA HandlerKeepsOutcomes ==
  ASSUME CrawlInv, NEW n \in DOMAIN crawls,
         \/ TakeCrawl(n) \/ StartCrawl(n) \/ EndCrawl(n) \/ LeaveCrawl(n) \/ CrawlThrows(n)
         \/ CrawlTimeout(n) \/ HearFailure(n) \/ CheckRun(n)
  PROVE  Outcomes
<1>1. CrawlTyped /\ crawls[n] \in Crawl
  BY FlightKnown DEF CrawlInv
<1>2. CASE TakeCrawl(n)
  <2> DEFINE x == [crawls[n] EXCEPT !.job = "active", !.pc = "start"]
  <2>1. crawls' = [crawls EXCEPT ![n] = x]
    BY <1>2 DEF TakeCrawl, Put
  <2>2. x.status = crawls[n].status
    BY <1>1 DEF Crawl
  <2> HIDE DEF x
  <2> QED BY <1>1, <2>1, <2>2, EditKeepsOutcomes
<1>3. CASE StartCrawl(n)
  <2> DEFINE x == [crawls[n] EXCEPT !.status = "running", !.pc = "crawl"]
  <2>1. crawls' = [crawls EXCEPT ![n] = x] /\ crawls[n].pc = "start"
    BY <1>3 DEF StartCrawl, Put
  <2>2. x.pc = "crawl"
    BY <1>1 DEF Crawl
  <2> HIDE DEF x
  <2> QED BY <1>1, <2>1, <2>2, EditKeepsOutcomes
<1>4. CASE EndCrawl(n)
  <2>1. PICK s : crawls' = [crawls EXCEPT ![n] = [crawls[n] EXCEPT !.status = s, !.pc = "end"]]
    BY <1>4 DEF EndCrawl, Put
  <2> DEFINE x == [crawls[n] EXCEPT !.status = s, !.pc = "end"]
  <2>2. crawls' = [crawls EXCEPT ![n] = x] /\ crawls[n].pc = "crawl"
    BY <1>4, <2>1 DEF EndCrawl
  <2>3. x.pc = "end"
    BY <1>1 DEF Crawl
  <2> HIDE DEF x
  <2> QED BY <1>1, <2>2, <2>3, EditKeepsOutcomes
<1>5. CASE LeaveCrawl(n)
  <2>1. PICK j : crawls' = [crawls EXCEPT ![n] = [crawls[n] EXCEPT !.pc = "idle", !.late = FALSE, !.job = j]]
    BY <1>5 DEF LeaveCrawl, Put
  <2> DEFINE x == [crawls[n] EXCEPT !.pc = "idle", !.late = FALSE, !.job = j]
  <2>2. crawls' = [crawls EXCEPT ![n] = x]
    BY <2>1
  <2>3. x.status = crawls[n].status
    BY <1>1 DEF Crawl
  <2> HIDE DEF x
  <2> QED BY <1>1, <2>2, <2>3, EditKeepsOutcomes
<1>6. CASE CrawlThrows(n)
  <2> DEFINE x == [crawls[n] EXCEPT !.pc = "idle", !.late = FALSE, !.job = "failed"]
  <2>1. crawls' = [crawls EXCEPT ![n] = x]
    BY <1>6 DEF CrawlThrows, Put
  <2>2. x.status = crawls[n].status
    BY <1>1 DEF Crawl
  <2> HIDE DEF x
  <2> QED BY <1>1, <2>1, <2>2, EditKeepsOutcomes
<1>7. CASE CrawlTimeout(n)
  <2> DEFINE x == [crawls[n] EXCEPT !.job = "failed", !.late = TRUE]
  <2>1. crawls' = [crawls EXCEPT ![n] = x]
    BY <1>7 DEF CrawlTimeout, Put
  <2>2. x.status = crawls[n].status
    BY <1>1 DEF Crawl
  <2> HIDE DEF x
  <2> QED BY <1>1, <2>1, <2>2, EditKeepsOutcomes
<1>8. CASE HearFailure(n) \/ CheckRun(n)
  <2>1. crawls' = crawls \/ crawls' = FailRun(n)
    BY <1>8 DEF HearFailure, CheckRun
  <2>2. crawls' = crawls => Outcomes
    BY DEF Outcomes
  <2> QED BY <1>1, <2>1, <2>2, FailKeepsOutcomes
<1> QED BY <1>2, <1>3, <1>4, <1>5, <1>6, <1>7, <1>8

LEMMA CrawlStepOutcomes == CrawlInv /\ CrawlStep => Outcomes
BY RequestKeepsOutcomes, HandlerKeepsOutcomes, Zenon DEF CrawlStep

LEMMA CrawlDiesOutcomes == CrawlInv /\ CrawlDies => Outcomes
<1> SUFFICES ASSUME CrawlInv, CrawlDies, NEW n \in DOMAIN crawls
             PROVE  crawls'[n].status = crawls[n].status
  BY DEF Outcomes
<1>1. PICK after :
        crawls' = [m \in DOMAIN crawls |->
             [crawls[m] EXCEPT !.pc = "idle", !.late = FALSE,
                               !.job = IF m \in {o \in DOMAIN crawls : crawls[o].job = "active"} THEN after ELSE @]]
  BY DEF CrawlDies
<1>2. crawls[n] \in Crawl
  BY FlightKnown DEF CrawlInv
<1>3. PICK j : crawls'[n] = [crawls[n] EXCEPT !.pc = "idle", !.late = FALSE, !.job = j]
  BY <1>1
<1> QED BY <1>2, <1>3 DEF Crawl

LEMMA OutcomesStay == crawls' = crawls => Outcomes
BY DEF Outcomes

-----------------------------------------------------------------------------
(* The document: publishing and removing *)

LEMMA IdleWork == /\ NoWork \in WorkRecord /\ NoWork.pc = "idle" /\ NoWork.late = FALSE
BY DEF NoWork, WorkRecord

LEMMA DocStart == DocInit => DocInv
<1> SUFFICES ASSUME DocInit PROVE DocInv
  OBVIOUS
<1>1. /\ status = "none" /\ content = 0 /\ job = "absent" /\ publisher = "idle" /\ chunks = {}
      /\ worker = [w \in Workers |-> NoWork]
      /\ dropped = FALSE /\ outlived = FALSE /\ orphaned = FALSE
  BY DEF DocInit
<1>2. \A w \in Workers : worker[w].pc = "idle" /\ worker[w].late = FALSE
  BY <1>1, IdleWork
<1>3. DocTyped
  BY <1>1, IdleWork DEF DocTyped
<1>4. OneHandler
  BY <1>1, <1>2 DEF OneHandler, Runs
<1>5. DocCovered
  BY <1>1 DEF DocCovered, Unsettled
<1>6. DocFollows
  BY <1>1, <1>2 DEF DocFollows
<1> QED BY <1>3, <1>4, <1>5, <1>6 DEF DocInv

LEMMA DocStays ==
  ASSUME DocInv, status' = status, content' = content, job' = job, publisher' = publisher, worker' = worker,
         chunks' = chunks, dropped' = dropped, outlived' = outlived, orphaned' = orphaned
  PROVE  DocInv'
<1>1. DocTyped' /\ OneHandler'
  BY DEF DocInv, DocTyped, OneHandler, Runs
<1>2. DocCovered'
  BY DEF DocInv, DocCovered, Unsettled
<1>3. DocFollows'
  BY DEF DocInv, DocFollows, Clean
<1> QED BY <1>1, <1>2, <1>3 DEF DocInv

\* Handlers that have not timed out are at most one.
LEMMA HandlersApart ==
  ASSUME OneHandler, ~outlived, NEW v \in Workers, NEW w \in Workers,
         worker[v].pc # "idle", worker[w].pc # "idle"
  PROVE  v = w /\ job = "active" /\ ~worker[w].late
BY DEF OneHandler, Runs

LEMMA PublishStep == DocInv /\ Publish => DocInv'
<1> SUFFICES ASSUME DocInv, Publish PROVE DocInv'
  OBVIOUS
<1>1. /\ status # "removed" /\ content' = content + 1 /\ status' = "pending" /\ publisher' = "queue"
      /\ job' = job /\ worker' = worker /\ chunks' = chunks
      /\ dropped' = dropped /\ outlived' = outlived /\ orphaned' = orphaned
  BY DEF Publish
<1>2. DocTyped'
  BY <1>1 DEF DocInv, DocTyped
<1>3. OneHandler'
  BY <1>1 DEF DocInv, OneHandler, Runs
<1>4. DocCovered'
  BY <1>1 DEF DocCovered
<1>5. DocFollows'
  BY <1>1 DEF DocInv, DocFollows, Clean
<1> QED BY <1>2, <1>3, <1>4, <1>5 DEF DocInv

\* The database refuses an update, and nothing is queued.
LEMMA Orphans ==
  ASSUME DocInv, publisher' = "idle", orphaned' = TRUE, status' = status, content' = content,
         job' = job, worker' = worker, chunks' = chunks, dropped' = dropped, outlived' = outlived
  PROVE  DocInv'
<1>1. DocTyped'
  BY DEF DocInv, DocTyped
<1>2. OneHandler'
  BY DEF DocInv, OneHandler, Runs
<1>3. DocCovered' /\ DocFollows'
  BY DEF DocCovered, DocFollows, Clean
<1> QED BY <1>1, <1>2, <1>3 DEF DocInv

\* The row is queued, while the job is yet to be added.
LEMMA RowQueued ==
  ASSUME DocInv, status' = (IF status = "removed" THEN status ELSE "pending"),
         publisher = "queue", publisher' = "add", content' = content,
         job' = job, worker' = worker, chunks' = chunks,
         dropped' = dropped, outlived' = outlived, orphaned' = orphaned
  PROVE  DocInv'
<1>2. DocTyped'
  BY DEF DocInv, DocTyped
<1>3. OneHandler'
  BY DEF DocInv, OneHandler, Runs
<1>4. DocCovered'
  BY DEF DocCovered
<1>5. DocFollows'
  BY DEF DocInv, DocFollows, Clean
<1> QED BY <1>2, <1>3, <1>4, <1>5 DEF DocInv

LEMMA MarkQueuedStep == DocInv /\ FirstContent /\ MarkQueued => DocInv'
<1> SUFFICES ASSUME DocInv, FirstContent, MarkQueued PROVE DocInv'
  OBVIOUS
<1>1. /\ publisher = "queue" /\ content' = content
      /\ job' = job /\ worker' = worker /\ chunks' = chunks
      /\ dropped' = dropped /\ outlived' = outlived
  BY DEF MarkQueued
<1>2. \/ /\ status' = (IF status = "removed" THEN status ELSE "pending")
         /\ publisher' = "add" /\ orphaned' = orphaned
      \/ status' = status /\ publisher' = "idle" /\ orphaned' = TRUE
      \/ status' = status /\ content = 1 /\ publisher' = "refused" /\ orphaned' = orphaned
  BY DEF MarkQueued, Set
<1>3. CASE /\ status' = (IF status = "removed" THEN status ELSE "pending")
           /\ publisher' = "add" /\ orphaned' = orphaned
  BY <1>1, <1>3, RowQueued
<1>4. CASE status' = status /\ publisher' = "idle" /\ orphaned' = TRUE
  BY <1>1, <1>4, Orphans
<1>5. CASE status' = status /\ content = 1 /\ publisher' = "refused" /\ orphaned' = orphaned
  <2>1. \A w \in Workers : worker[w].pc = "idle"
    BY <1>1, <1>5 DEF FirstContent
  <2>2. DocTyped'
    BY <1>1, <1>5 DEF DocInv, DocTyped
  <2>3. OneHandler'
    BY <1>1 DEF DocInv, OneHandler, Runs
  <2>4. DocCovered'
    BY <1>5 DEF DocCovered
  <2>5. DocFollows'
    BY <1>1, <1>5, <2>1 DEF DocInv, DocFollows, Clean
  <2> QED BY <2>2, <2>3, <2>4, <2>5 DEF DocInv
<1> QED BY <1>2, <1>3, <1>4, <1>5

\* The row is failed, while nobody is about to queue it.
LEMMA RowFails ==
  ASSUME DocInv, status' = (IF status = "removed" THEN status ELSE "failed"),
         publisher' = publisher \/ (publisher = "refused" /\ publisher' = "idle"),
         content' = content, job' = job, worker' = worker, chunks' = chunks,
         dropped' = dropped, outlived' = outlived, orphaned' = orphaned
  PROVE  DocInv'
<1>2. DocTyped'
  BY DEF DocInv, DocTyped
<1>3. OneHandler'
  BY DEF DocInv, OneHandler, Runs
<1>4. DocCovered'
  BY DEF DocCovered, Unsettled
<1>5. DocFollows'
  BY DEF DocInv, DocFollows, Clean
<1> QED BY <1>2, <1>3, <1>4, <1>5 DEF DocInv

LEMMA MarkRefusedStep == DocInv /\ MarkRefused => DocInv'
<1> SUFFICES ASSUME DocInv, MarkRefused PROVE DocInv'
  OBVIOUS
<1>1. /\ publisher = "refused" /\ publisher' = "idle" /\ content' = content
      /\ job' = job /\ worker' = worker /\ chunks' = chunks
      /\ dropped' = dropped /\ outlived' = outlived
  BY DEF MarkRefused
<1>2. CASE status' = (IF status = "removed" THEN status ELSE "failed") /\ orphaned' = orphaned
  BY <1>1, <1>2, RowFails
<1>3. CASE status' = status /\ orphaned' = TRUE
  BY <1>1, <1>3, Orphans
<1> QED BY <1>2, <1>3 DEF MarkRefused, Set

LEMMA ReconcileFailsStep == DocInv /\ ReconcileFails => DocInv'
<1> SUFFICES ASSUME DocInv, ReconcileFails PROVE DocInv'
  OBVIOUS
<1>1. /\ publisher' = publisher /\ content' = content
      /\ job' = job /\ worker' = worker /\ chunks' = chunks
      /\ dropped' = dropped /\ outlived' = outlived /\ orphaned' = orphaned
  BY DEF ReconcileFails
<1>2. CASE status' = (IF status = "removed" THEN status ELSE "failed")
  BY <1>1, <1>2, RowFails
<1>3. CASE status' = status
  BY <1>1, <1>3, DocStays
<1> QED BY <1>2, <1>3 DEF ReconcileFails, Set

LEMMA ReconcileStep == DocInv /\ Reconcile => DocInv'
BY DocStays DEF Reconcile

LEMMA AnnounceRemovalStep == DocInv /\ AnnounceRemoval => DocInv'
BY DocStays DEF AnnounceRemoval

LEMMA RemoveStep == DocInv /\ Remove => DocInv'
<1> SUFFICES ASSUME DocInv, Remove PROVE DocInv'
  OBVIOUS
<1>1. /\ status' = "removed" /\ chunks' = {} /\ publisher' = publisher /\ content' = content
      /\ job' = job /\ worker' = worker
      /\ dropped' = dropped /\ outlived' = outlived /\ orphaned' = orphaned
  BY DEF Remove
<1>2. DocTyped'
  BY <1>1 DEF DocInv, DocTyped
<1>3. OneHandler'
  BY <1>1 DEF DocInv, OneHandler, Runs
<1>4. DocCovered'
  BY <1>1 DEF DocCovered, Unsettled
<1>5. DocFollows'
  BY <1>1 DEF DocInv, DocFollows, Clean
<1> QED BY <1>2, <1>3, <1>4, <1>5 DEF DocInv

\* The queue takes the job, while nobody handles one.
LEMMA JobAdded ==
  ASSUME DocInv, job = "absent", job' = "waiting", publisher' = "idle",
         dropped' = FALSE, orphaned' = FALSE, outlived' = (\E w \in Workers : worker[w].pc # "idle"),
         status' = status, content' = content, worker' = worker, chunks' = chunks
  PROVE  DocInv'
<1>2. DocTyped'
  BY DEF DocInv, DocTyped
<1>3. OneHandler'
  BY DEF DocInv, OneHandler, Runs
<1>4. DocCovered'
  BY DEF DocCovered
<1>5. DocFollows'
  BY DEF DocInv, DocFollows, Clean
<1> QED BY <1>2, <1>3, <1>4, <1>5 DEF DocInv

\* The queue has a job already, or refuses.
LEMMA JobRefused ==
  ASSUME DocInv, publisher = "add", publisher' = "refused" \/ (job # "absent" /\ publisher' = "idle"),
         dropped' = (dropped \/ HasRead), job' = job, outlived' = outlived, orphaned' = orphaned,
         status' = status, content' = content, worker' = worker, chunks' = chunks
  PROVE  DocInv'
<1>1. HasRead \in BOOLEAN
  BY DEF HasRead, DocInv, OneHandler, Runs
<1>2. DocTyped'
  BY <1>1 DEF DocInv, DocTyped
<1>3. OneHandler'
  BY DEF DocInv, OneHandler, Runs
<1>4. ASSUME job = "active", ~HasRead
      PROVE  \E w \in Workers : worker[w].pc \in {"begin", "load"}
  <2>1. PICK w \in Workers : Runs(w)
    BY <1>4 DEF DocInv, OneHandler
  <2> QED BY <1>4, <2>1 DEF HasRead, Runs
<1>5. DocCovered'
  BY <1>4 DEF DocInv, DocTyped, DocCovered, Unsettled
<1>6. DocFollows'
  <2> SUFFICES ASSUME Clean' PROVE DocFollows'
    BY DEF DocFollows
  <2>1. Clean /\ ~HasRead
    BY DEF Clean
  <2>2. \A w \in Workers : worker[w].pc \in {"idle", "begin", "load"}
    <3>1. \A w \in Workers : worker[w].pc # "idle" => job = "active"
      BY <2>1, HandlersApart DEF DocInv, Clean
    <3> QED BY <2>1, <3>1 DEF HasRead
  <2>3. \A w \in Workers : worker[w].pc = "load" => status # "done"
    BY <2>1 DEF DocInv, DocFollows
  <2>4. status = "done" => \/ chunks = {content} \/ publisher' # "idle" \/ job = "waiting"
                           \/ \E w \in Workers : worker[w].pc = "begin"
    BY <1>4, <2>1, <2>3 DEF DocInv, DocTyped, Clean
  <2> QED BY <2>2, <2>3, <2>4 DEF DocFollows
<1> QED BY <1>2, <1>3, <1>5, <1>6 DEF DocInv

LEMMA AddJobStep == DocInv /\ AddJob => DocInv'
<1> SUFFICES ASSUME DocInv, AddJob PROVE DocInv'
  OBVIOUS
<1>1. publisher = "add" /\ status' = status /\ content' = content /\ worker' = worker /\ chunks' = chunks
  BY DEF AddJob
<1>2. \/ /\ job = "absent" /\ job' = "waiting" /\ publisher' = "idle"
         /\ dropped' = FALSE /\ orphaned' = FALSE /\ outlived' = (\E w \in Workers : worker[w].pc # "idle")
      \/ /\ publisher' = "refused" \/ (job # "absent" /\ publisher' = "idle")
         /\ dropped' = (dropped \/ HasRead) /\ job' = job /\ outlived' = outlived /\ orphaned' = orphaned
  BY DEF AddJob
<1> QED BY <1>1, <1>2, JobAdded, JobRefused

-----------------------------------------------------------------------------
(* The document: the handlers *)

\* A handler that has not timed out moves on.
LEMMA HandlerMoves ==
  ASSUME DocInv, NEW w \in Workers, NEW x \in WorkRecord, worker' = [worker EXCEPT ![w] = x]
  PROVE  /\ worker' \in [Workers -> WorkRecord] /\ worker'[w] = x
         /\ \A v \in Workers \ {w} : worker'[v] = worker[v]
BY DEF DocInv, DocTyped

LEMMA WorkTyped == ASSUME DocInv, NEW w \in Workers PROVE worker[w] \in WorkRecord
BY DEF DocInv, DocTyped

LEMMA WorkMoves ==
  ASSUME DocInv, NEW w \in Workers
  PROVE  /\ worker[w] \in WorkRecord
         /\ \A p \in {"begin", "load", "index", "delete", "insert", "done", "bump", "catch", "end"} :
              /\ [worker[w] EXCEPT !.pc = p] \in WorkRecord
              /\ [worker[w] EXCEPT !.pc = p].pc = p
              /\ [worker[w] EXCEPT !.pc = p].late = worker[w].late
              /\ [worker[w] EXCEPT !.pc = p].content = worker[w].content
              /\ [worker[w] EXCEPT !.pc = p].found = worker[w].found
BY DEF DocInv, DocTyped, WorkRecord

\* What is left to show when a busy handler goes on, its job as it was.
LEMMA BusyKeeps ==
  ASSUME DocInv, NEW w \in Workers, NEW x \in WorkRecord, worker' = [worker EXCEPT ![w] = x],
         worker[w].pc # "idle", x.pc # "idle", x.late = worker[w].late,
         content' = content, job' = job, publisher' = publisher,
         dropped' = dropped, outlived' = outlived, orphaned' = orphaned,
         status' \in {"none", "pending", "processing", "done", "failed", "removed"}, chunks' \subseteq Nat,
         status = "removed" => status' = "removed",
         Unsettled' => \/ x.pc \in {"begin", "load", "index", "delete", "insert", "done", "catch"}
                       \/ Unsettled /\ worker[w].pc \in {"bump", "end"},
         Clean => /\ x.pc \in {"index", "delete", "insert", "done"}
                       => x.content = content \/ publisher \in {"queue", "add"}
                  /\ x.pc \in {"load", "index", "delete", "insert", "done"} => status' # "done"
                  /\ x.pc = "delete" /\ status' # "removed" => x.found = chunks'
                  /\ x.pc = "insert" /\ status' # "removed" => chunks' = x.found \cap {x.content}
                  /\ x.pc = "done" /\ status' # "removed" => chunks' = {x.content}
                  /\ status' = "done" => chunks' = {content} \/ publisher # "idle"
  PROVE  DocInv'
<1>1. /\ worker' \in [Workers -> WorkRecord] /\ worker'[w] = x
      /\ \A v \in Workers \ {w} : worker'[v] = worker[v]
  BY HandlerMoves
<1>2. DocTyped'
  BY <1>1 DEF DocInv, DocTyped
<1>3. \A v \in Workers : Runs(v)' <=> Runs(v)
  BY <1>1 DEF Runs
<1>4. OneHandler'
  BY <1>1, <1>3 DEF DocInv, OneHandler
<1>5. DocCovered'
  BY <1>1 DEF DocInv, DocCovered, Unsettled
<1>6. DocFollows'
  <2> SUFFICES ASSUME Clean PROVE DocFollows'
    BY DEF DocFollows, Clean
  <2>1. \A v \in Workers \ {w} : worker'[v].pc = "idle"
    BY <1>1, HandlersApart DEF DocInv, Clean
  <2> QED BY <1>1, <2>1 DEF DocFollows
<1> QED BY <1>2, <1>4, <1>5, <1>6 DEF DocInv

LEMMA TakeJobStep == ASSUME DocInv, NEW w \in Workers, Take(w) PROVE DocInv'
<1>1. /\ worker[w].pc = "idle" /\ job = "waiting" /\ job' = "active" /\ status' = status /\ chunks' = chunks
      /\ content' = content /\ publisher' = publisher
      /\ dropped' = dropped /\ outlived' = outlived /\ orphaned' = orphaned
  BY DEF Take, Reached, Elsewhere
<1> PICK x : x = [worker[w] EXCEPT !.pc = "begin"]
  OBVIOUS
<1>2. worker' = [worker EXCEPT ![w] = x]
  BY DEF Take, Go
<1>3. x \in WorkRecord /\ x.pc = "begin" /\ x.late = FALSE
  <2>1. x.late = worker[w].late /\ worker[w].late \in BOOLEAN
    BY WorkMoves DEF WorkRecord
  <2> QED BY <1>1, <2>1, WorkMoves DEF DocInv, OneHandler
<1>4. /\ worker' \in [Workers -> WorkRecord] /\ worker'[w] = x
      /\ \A v \in Workers \ {w} : worker'[v] = worker[v]
  BY <1>2, <1>3, HandlerMoves
<1>5. DocTyped'
  BY <1>1, <1>4 DEF DocInv, DocTyped
<1>6. \A v \in Workers : Runs(v)' <=> v = w
  BY <1>1, <1>3, <1>4 DEF DocInv, OneHandler, Runs
<1>7. OneHandler'
  BY <1>1, <1>3, <1>4, <1>6 DEF DocInv, OneHandler
<1>8. DocCovered'
  BY <1>3, <1>4 DEF DocCovered
<1>9. DocFollows'
  BY <1>1, <1>3, <1>4 DEF DocInv, DocFollows, Clean
<1> QED BY <1>5, <1>7, <1>8, <1>9 DEF DocInv

LEMMA BeginStep == ASSUME DocInv, NEW w \in Workers, Begin(w) PROVE DocInv'
<1>1. /\ worker[w].pc = "begin" /\ job' = job /\ chunks' = chunks
      /\ status' = (IF status = "removed" THEN status ELSE "processing")
      /\ content' = content /\ publisher' = publisher
      /\ dropped' = dropped /\ outlived' = outlived /\ orphaned' = orphaned
  BY DEF Begin, Reached, Elsewhere, Set
<1> PICK x : x = [worker[w] EXCEPT !.pc = "load"]
  OBVIOUS
<1>2. worker' = [worker EXCEPT ![w] = x]
  BY DEF Begin, Go
<1>3. x \in WorkRecord /\ x.pc = "load" /\ x.late = worker[w].late
  BY WorkMoves
<1>4. chunks' \subseteq Nat
  BY <1>1 DEF DocInv, DocTyped
<1> QED BY <1>1, <1>2, <1>3, <1>4, BusyKeeps

LEMMA ReadChunksStep == ASSUME DocInv, NEW w \in Workers, ReadChunks(w) PROVE DocInv'
<1>1. /\ worker[w].pc = "index" /\ job' = job /\ chunks' = chunks /\ status' = status
      /\ content' = content /\ publisher' = publisher
      /\ dropped' = dropped /\ outlived' = outlived /\ orphaned' = orphaned
  BY DEF ReadChunks, Reached, Elsewhere
<1> PICK x : x = [worker[w] EXCEPT !.pc = "delete", !.found = chunks]
  OBVIOUS
<1>2. worker' = [worker EXCEPT ![w] = x]
  BY DEF ReadChunks
<1>3. chunks \subseteq Nat /\ status \in {"none", "pending", "processing", "done", "failed", "removed"}
  BY DEF DocInv, DocTyped
<1>4. /\ x \in WorkRecord /\ x.pc = "delete" /\ x.late = worker[w].late /\ x.content = worker[w].content
      /\ x.found = chunks
  BY <1>3, WorkTyped DEF WorkRecord
<1>5. Clean => /\ worker[w].content = content \/ publisher \in {"queue", "add"}
               /\ status # "done"
  BY <1>1 DEF DocInv, DocFollows
<1>6. worker[w].pc # "idle" /\ x.pc # "idle"
  BY <1>1, <1>4
<1> QED BY <1>1, <1>2, <1>3, <1>4, <1>5, <1>6, BusyKeeps

LEMMA DeleteChunksStep == ASSUME DocInv, NEW w \in Workers, DeleteChunks(w) PROVE DocInv'
<1>1. /\ worker[w].pc = "delete" /\ job' = job /\ status' = status
      /\ chunks' = chunks \ (worker[w].found \ {worker[w].content})
      /\ content' = content /\ publisher' = publisher
      /\ dropped' = dropped /\ outlived' = outlived /\ orphaned' = orphaned
  BY DEF DeleteChunks, Reached, Elsewhere
<1> PICK x : x = [worker[w] EXCEPT !.pc = "insert"]
  OBVIOUS
<1>2. worker' = [worker EXCEPT ![w] = x]
  BY DEF DeleteChunks, Go
<1>3. chunks' \subseteq Nat /\ status \in {"none", "pending", "processing", "done", "failed", "removed"}
  BY <1>1 DEF DocInv, DocTyped
<1>4. /\ x \in WorkRecord /\ x.pc = "insert" /\ x.late = worker[w].late /\ x.content = worker[w].content
      /\ x.found = worker[w].found
  BY WorkMoves
<1>5. Clean => /\ worker[w].content = content \/ publisher \in {"queue", "add"}
               /\ status # "done"
               /\ status # "removed" => chunks' = worker[w].found \cap {worker[w].content}
  BY <1>1 DEF DocInv, DocFollows
<1>6. worker[w].pc # "idle" /\ x.pc # "idle"
  BY <1>1, <1>4
<1> QED BY <1>1, <1>2, <1>3, <1>4, <1>5, <1>6, BusyKeeps

LEMMA InsertChunksStep == ASSUME DocInv, NEW w \in Workers, InsertChunks(w) PROVE DocInv'
<1>1. /\ worker[w].pc = "insert" /\ job' = job /\ status' = status
      /\ content' = content /\ publisher' = publisher
      /\ dropped' = dropped /\ outlived' = outlived /\ orphaned' = orphaned
  BY DEF InsertChunks, Reached, Elsewhere
<1>2. PICK p \in {"catch", "done"} :
        /\ worker' = [worker EXCEPT ![w].pc = p]
        /\ p = "catch" => status = "removed" /\ chunks' = chunks
        /\ p = "done" => chunks' = chunks \cup ({worker[w].content} \ worker[w].found)
  BY DEF InsertChunks, Go
<1> PICK x : x = [worker[w] EXCEPT !.pc = p]
  OBVIOUS
<1>3. worker' = [worker EXCEPT ![w] = x]
  BY <1>2
<1>4. /\ x \in WorkRecord /\ x.pc = p /\ x.late = worker[w].late /\ x.content = worker[w].content
  <2>1. p \in {"begin", "load", "index", "delete", "insert", "done", "bump", "catch", "end"}
    OBVIOUS
  <2> QED BY <2>1, WorkMoves
<1>5. chunks' \subseteq Nat /\ status \in {"none", "pending", "processing", "done", "failed", "removed"}
  <2>1. worker[w].content \in Nat
    BY WorkTyped DEF WorkRecord
  <2>2. chunks \subseteq Nat /\ status \in {"none", "pending", "processing", "done", "failed", "removed"}
    BY DEF DocInv, DocTyped
  <2> QED BY <1>2, <2>1, <2>2
<1>6. Clean => /\ worker[w].content = content \/ publisher \in {"queue", "add"}
               /\ status # "done"
               /\ p = "done" /\ status # "removed" => chunks' = {worker[w].content}
  BY <1>1, <1>2 DEF DocInv, DocFollows
<1>7. worker[w].pc # "idle" /\ x.pc # "idle"
  BY <1>1, <1>4
<1>8. x.pc \in {"catch", "done"} /\ (status = "removed" => status' = "removed")
  BY <1>1, <1>4
<1> QED BY <1>1, <1>3, <1>4, <1>5, <1>6, <1>7, <1>8, BusyKeeps

LEMMA FinishStep == ASSUME DocInv, NEW w \in Workers, Finish(w) PROVE DocInv'
<1>1. /\ worker[w].pc = "done" /\ job' = job /\ chunks' = chunks
      /\ status' = (IF status = "removed" THEN status ELSE "done")
      /\ content' = content /\ publisher' = publisher
      /\ dropped' = dropped /\ outlived' = outlived /\ orphaned' = orphaned
  BY DEF Finish, Reached, Elsewhere, Set
<1> PICK x : x = [worker[w] EXCEPT !.pc = "bump"]
  OBVIOUS
<1>2. worker' = [worker EXCEPT ![w] = x]
  BY DEF Finish, Go
<1>3. x \in WorkRecord /\ x.pc = "bump" /\ x.late = worker[w].late
  BY WorkMoves
<1>4. chunks' \subseteq Nat /\ ~Unsettled'
  BY <1>1 DEF DocInv, DocTyped, Unsettled
<1>5. Clean /\ status' = "done" => chunks' = {content} \/ publisher # "idle"
  BY <1>1 DEF DocInv, DocFollows
<1> QED BY <1>1, <1>2, <1>3, <1>4, <1>5, BusyKeeps

LEMMA AnnounceChunksStep == ASSUME DocInv, NEW w \in Workers, AnnounceChunks(w) PROVE DocInv'
<1>1. /\ worker[w].pc = "bump" /\ job' = job /\ chunks' = chunks /\ status' = status
      /\ content' = content /\ publisher' = publisher
      /\ dropped' = dropped /\ outlived' = outlived /\ orphaned' = orphaned
  BY DEF AnnounceChunks, Reached, Elsewhere
<1> PICK x : x = [worker[w] EXCEPT !.pc = "end"]
  OBVIOUS
<1>2. worker' = [worker EXCEPT ![w] = x]
  BY DEF AnnounceChunks, Go
<1>3. x \in WorkRecord /\ x.pc = "end" /\ x.late = worker[w].late
  BY WorkMoves
<1>4. chunks' \subseteq Nat /\ status \in {"none", "pending", "processing", "done", "failed", "removed"}
  BY <1>1 DEF DocInv, DocTyped
<1>5. Unsettled' => Unsettled
  BY <1>1 DEF Unsettled
<1>6. Clean /\ status' = "done" => chunks' = {content} \/ publisher # "idle"
  <2> SUFFICES ASSUME Clean, status = "done" PROVE chunks = {content} \/ publisher # "idle"
    BY <1>1
  <2>1. \A v \in Workers : worker[v].pc # "idle" => v = w
    BY <1>1, HandlersApart DEF DocInv, Clean
  <2>2. job = "active"
    BY <1>1, HandlersApart DEF DocInv, Clean
  <2> QED BY <1>1, <2>1, <2>2 DEF DocInv, DocFollows
<1> QED BY <1>1, <1>2, <1>3, <1>4, <1>5, <1>6, BusyKeeps

LEMMA IngestFailsStep == ASSUME DocInv, NEW w \in Workers, IngestFails(w) PROVE DocInv'
<1>1. /\ worker[w].pc \in {"index", "delete", "insert", "done"} /\ job' = job /\ chunks' = chunks
      /\ status' = status /\ content' = content /\ publisher' = publisher
      /\ dropped' = dropped /\ outlived' = outlived /\ orphaned' = orphaned
  BY DEF IngestFails, Elsewhere
<1> PICK x : x = [worker[w] EXCEPT !.pc = "catch"]
  OBVIOUS
<1>2. worker' = [worker EXCEPT ![w] = x]
  BY DEF IngestFails, Go
<1>3. x \in WorkRecord /\ x.pc = "catch" /\ x.late = worker[w].late
  BY WorkMoves
<1>4. chunks' \subseteq Nat /\ status \in {"none", "pending", "processing", "done", "failed", "removed"}
  BY <1>1 DEF DocInv, DocTyped
<1>5. Clean => status # "done"
  BY <1>1 DEF DocInv, DocFollows
<1> QED BY <1>1, <1>2, <1>3, <1>4, <1>5, BusyKeeps

LEMMA CatchStep == ASSUME DocInv, NEW w \in Workers, Catch(w) PROVE DocInv'
<1>1. /\ worker[w].pc = "catch" /\ job' = job /\ chunks' = chunks
      /\ status' = (IF status = "removed" THEN status ELSE "failed")
      /\ content' = content /\ publisher' = publisher
      /\ dropped' = dropped /\ outlived' = outlived /\ orphaned' = orphaned
  BY DEF Catch, Reached, Elsewhere, Set
<1> PICK x : x = [worker[w] EXCEPT !.pc = "end"]
  OBVIOUS
<1>2. worker' = [worker EXCEPT ![w] = x]
  BY DEF Catch, Go
<1>3. x \in WorkRecord /\ x.pc = "end" /\ x.late = worker[w].late
  BY WorkMoves
<1>4. chunks' \subseteq Nat /\ ~Unsettled'
  BY <1>1 DEF DocInv, DocTyped, Unsettled
<1> QED BY <1>1, <1>2, <1>3, <1>4, BusyKeeps

-----------------------------------------------------------------------------
(* The document: the ends of a job, and a new start *)

\* A handler is over, and its job with it unless it had timed out.
LEMMA HandlerEnds ==
  ASSUME DocInv, NEW w \in Workers, worker' = [worker EXCEPT ![w] = NoWork], worker[w].pc # "idle",
         \/ worker[w].late /\ job' = job
         \/ ~worker[w].late /\ job' \in {"absent", "waiting", "failed"},
         status' = status, content' = content, publisher' = publisher, chunks' = chunks,
         dropped' = dropped, outlived' = outlived, orphaned' \in BOOLEAN, orphaned => orphaned',
         Unsettled => \/ worker[w].pc \in {"bump", "end"}
                      \/ ~worker[w].late /\ job' \in {"waiting", "failed"}
                      \/ orphaned',
         worker[w].pc = "begin" /\ status = "done" => job' \in {"waiting", "failed"} \/ orphaned' \/ worker[w].late
  PROVE  DocInv'
<1>1. /\ worker' \in [Workers -> WorkRecord] /\ worker'[w] = NoWork
      /\ \A v \in Workers \ {w} : worker'[v] = worker[v]
  BY HandlerMoves, IdleWork
<1>2. DocTyped'
  BY <1>1 DEF DocInv, DocTyped
<1>3. ~Runs(w)' /\ \A v \in Workers \ {w} : Runs(v)' <=> Runs(v)
  BY <1>1, IdleWork DEF Runs
<1>4. OneHandler'
  <2>1. CASE worker[w].late
    BY <1>1, <1>3, <2>1, IdleWork DEF DocInv, OneHandler, Runs
  <2>2. CASE ~worker[w].late
    <3>1. Runs(w)
      BY <2>2 DEF Runs
    <3>2. \A v \in Workers : ~Runs(v)'
      BY <1>3, <3>1 DEF DocInv, OneHandler
    <3>3. \A v \in Workers : worker'[v].late => worker'[v].pc # "idle" /\ outlived'
      BY <1>1, IdleWork DEF DocInv, OneHandler
    <3> QED BY <2>2, <3>2, <3>3 DEF OneHandler
  <2> QED BY <2>1, <2>2
<1>5. DocCovered'
  <2>1. Unsettled' <=> Unsettled
    BY DEF Unsettled
  <2>2. CASE ~worker[w].late
    <3>1. job = "active"
      BY <2>2 DEF DocInv, OneHandler, Runs
    <3> QED BY <1>1, <2>1, <2>2, <3>1 DEF DocInv, DocCovered
  <2>3. CASE worker[w].late
    BY <1>1, <2>1, <2>3 DEF DocInv, DocCovered
  <2> QED BY <2>2, <2>3
<1>6. DocFollows'
  <2> SUFFICES ASSUME Clean' PROVE DocFollows'
    BY DEF DocFollows
  <2>1. ~outlived /\ ~worker[w].late
    BY DEF Clean, DocInv, OneHandler
  <2>2. job = "active" /\ Clean
    BY <2>1 DEF Clean, DocInv, OneHandler, Runs
  <2>3. \A v \in Workers : worker'[v].pc = "idle"
    BY <1>1, <2>1, HandlersApart, IdleWork DEF DocInv
  <2>4. \A v \in Workers : worker[v].pc = "begin" => v = w
    BY <2>1, HandlersApart DEF DocInv
  <2>5. status = "done" => chunks = {content} \/ publisher # "idle" \/ job' = "waiting"
    BY <2>1, <2>2, <2>4 DEF DocInv, DocFollows, Clean
  <2> QED BY <2>3, <2>5 DEF DocFollows
<1> QED BY <1>2, <1>4, <1>5, <1>6 DEF DocInv

LEMMA LoadRowStep == ASSUME DocInv, NEW w \in Workers, LoadRow(w) PROVE DocInv'
<1>1. /\ worker[w].pc = "load" /\ status' = status /\ chunks' = chunks
      /\ content' = content /\ publisher' = publisher
      /\ dropped' = dropped /\ outlived' = outlived /\ orphaned' = orphaned
  BY DEF LoadRow, Reached, Elsewhere
<1>2. CASE status = "removed"
  <2>1. /\ worker' = [worker EXCEPT ![w] = NoWork]
        /\ \/ worker[w].late /\ job' = job
           \/ ~worker[w].late /\ job' \in {"absent", "waiting", "failed"}
    BY <1>2 DEF LoadRow, Ends, Retry
  <2>2. ~Unsettled /\ orphaned' \in BOOLEAN /\ worker[w].pc # "idle" /\ ~(worker[w].pc = "begin")
    BY <1>1, <1>2 DEF Unsettled, DocInv, DocTyped
  <2>3. orphaned => orphaned'
    BY <1>1
  <2> QED BY <1>1, <2>1, <2>2, <2>3, HandlerEnds
<1>3. CASE status # "removed"
  <2>1. job' = job /\ worker' = [worker EXCEPT ![w].pc = "index", ![w].content = content]
    BY <1>3 DEF LoadRow
  <2> PICK x : x = [worker[w] EXCEPT !.pc = "index", !.content = content]
    OBVIOUS
  <2>2. worker' = [worker EXCEPT ![w] = x]
    BY <2>1
  <2>3. content \in Nat
    BY DEF DocInv, DocTyped
  <2>4. x \in WorkRecord /\ x.pc = "index" /\ x.late = worker[w].late /\ x.content = content
    BY <2>3, WorkTyped DEF WorkRecord
  <2>5. chunks' \subseteq Nat /\ status' \in {"none", "pending", "processing", "done", "failed", "removed"}
    BY <1>1 DEF DocInv, DocTyped
  <2>6. Clean => status # "done"
    BY <1>1 DEF DocInv, DocFollows
  <2>7. worker[w].pc # "idle" /\ x.pc # "idle" /\ (status = "removed" => status' = "removed")
    BY <1>1, <2>4
  <2> QED BY <1>1, <2>1, <2>2, <2>4, <2>5, <2>6, <2>7, BusyKeeps
<1> QED BY <1>2, <1>3

LEMMA EndJobStep == ASSUME DocInv, NEW w \in Workers, End(w) PROVE DocInv'
<1>1. /\ worker[w].pc = "end" /\ status' = status /\ chunks' = chunks
      /\ content' = content /\ publisher' = publisher
      /\ dropped' = dropped /\ outlived' = outlived /\ orphaned' = orphaned
  BY DEF End, Reached, Elsewhere
<1>2. /\ worker' = [worker EXCEPT ![w] = NoWork]
      /\ \/ worker[w].late /\ job' = job
         \/ ~worker[w].late /\ job' \in {"absent", "waiting", "failed"}
  BY DEF End, Ends
<1>3. orphaned' \in BOOLEAN /\ (orphaned => orphaned') /\ worker[w].pc # "idle" /\ ~(worker[w].pc = "begin")
  BY <1>1 DEF DocInv, DocTyped
<1> QED BY <1>1, <1>2, <1>3, HandlerEnds

LEMMA ThrowStep == ASSUME DocInv, NEW w \in Workers, Throw(w) PROVE DocInv'
<1>1. /\ worker[w].pc \in {"begin", "load", "catch"} /\ status' = status /\ chunks' = chunks
      /\ content' = content /\ publisher' = publisher
      /\ dropped' = dropped /\ outlived' = outlived /\ orphaned' = (orphaned \/ worker[w].late)
  BY DEF Throw
<1>2. /\ worker' = [worker EXCEPT ![w] = NoWork]
      /\ \/ worker[w].late /\ job' = job
         \/ ~worker[w].late /\ job' \in {"waiting", "failed"}
  BY DEF Throw, Ends, Retry
<1>3. orphaned' \in BOOLEAN /\ (orphaned => orphaned') /\ worker[w].pc # "idle"
  <2>1. worker[w].late \in BOOLEAN
    BY WorkTyped DEF WorkRecord
  <2> QED BY <1>1, <2>1 DEF DocInv, DocTyped
<1>4. \/ worker[w].late /\ job' = job
      \/ ~worker[w].late /\ job' \in {"absent", "waiting", "failed"}
  BY <1>2
<1>5. Unsettled => (~worker[w].late /\ job' \in {"waiting", "failed"}) \/ orphaned'
  BY <1>1, <1>2
<1>6. job' \in {"waiting", "failed"} \/ orphaned' \/ worker[w].late
  BY <1>2
<1> QED BY <1>1, <1>2, <1>3, <1>4, <1>5, <1>6, HandlerEnds

LEMMA TimeoutStep == ASSUME DocInv, NEW w \in Workers, Timeout(w) PROVE DocInv'
<1>1. /\ Runs(w) /\ status' = status /\ chunks' = chunks
      /\ content' = content /\ publisher' = publisher
      /\ dropped' = dropped /\ outlived' = TRUE /\ orphaned' = orphaned
      /\ job' \in {"waiting", "failed"}
  BY DEF Timeout, Elsewhere, Retry, Runs
<1> PICK x : x = [worker[w] EXCEPT !.late = TRUE]
  OBVIOUS
<1>2. worker' = [worker EXCEPT ![w] = x]
  BY DEF Timeout
<1>3. x \in WorkRecord /\ x.pc = worker[w].pc /\ x.late = TRUE
  BY WorkTyped DEF WorkRecord
<1>4. /\ worker' \in [Workers -> WorkRecord] /\ worker'[w] = x
      /\ \A v \in Workers \ {w} : worker'[v] = worker[v]
  BY <1>2, <1>3, HandlerMoves
<1>5. DocTyped'
  BY <1>1, <1>4 DEF DocInv, DocTyped
<1>6. \A v \in Workers : ~Runs(v)'
  BY <1>1, <1>3, <1>4 DEF DocInv, OneHandler, Runs
<1>7. OneHandler'
  BY <1>1, <1>3, <1>4, <1>6 DEF DocInv, OneHandler, Runs
<1>8. DocCovered'
  BY <1>1 DEF DocCovered
<1>9. DocFollows'
  BY <1>1 DEF DocFollows, Clean
<1> QED BY <1>5, <1>7, <1>8, <1>9 DEF DocInv

LEMMA DocDiesStep == DocInv /\ DocDies => DocInv'
<1> SUFFICES ASSUME DocInv, DocDies PROVE DocInv'
  OBVIOUS
<1>1. /\ publisher' = "idle" /\ worker' = [w \in Workers |-> NoWork]
      /\ status' = status /\ content' = content /\ chunks' = chunks
      /\ dropped' = dropped /\ outlived' = outlived
      /\ orphaned' = (orphaned \/ publisher # "idle" \/ \E w \in Workers : worker[w].late)
      /\ IF job = "active" THEN job' \in {"waiting", "failed"} ELSE job' = job
  BY DEF DocDies
<1>2. \A w \in Workers : worker'[w].pc = "idle" /\ worker'[w].late = FALSE
  BY <1>1, IdleWork
<1>3. DocTyped'
  <2>1. orphaned' \in BOOLEAN
    BY <1>1 DEF DocInv, DocTyped
  <2> QED BY <1>1, <2>1, IdleWork DEF DocInv, DocTyped
<1>4. OneHandler'
  BY <1>1, <1>2 DEF DocInv, OneHandler, Runs
<1>5. ASSUME ~orphaned', NEW w \in Workers, worker[w].pc # "idle" PROVE job' \in {"waiting", "failed"}
  BY <1>1, <1>5 DEF DocInv, OneHandler, Runs
<1>6. DocCovered'
  <2>1. Unsettled' <=> Unsettled
    BY <1>1 DEF Unsettled
  <2>2. Unsettled => \/ publisher # "idle" \/ job \in {"waiting", "failed"} \/ dropped \/ orphaned
                     \/ \E w \in Workers : worker[w].pc # "idle"
    BY DEF DocInv, DocCovered
  <2>3. Unsettled => job' \in {"waiting", "failed"} \/ dropped' \/ orphaned'
    BY <1>1, <1>5, <2>2
  <2> QED BY <2>1, <2>3 DEF DocCovered
<1>7. DocFollows'
  <2> SUFFICES ASSUME Clean' PROVE DocFollows'
    BY DEF DocFollows
  <2>1. Clean /\ publisher = "idle" /\ ~orphaned' /\ job' # "failed"
    BY <1>1 DEF Clean
  <2>2. status = "done" => \/ chunks = {content} \/ job = "waiting"
                           \/ \E w \in Workers : worker[w].pc # "idle"
    BY <2>1 DEF DocInv, DocFollows
  <2>3. status = "done" => chunks = {content} \/ job' = "waiting"
    BY <1>1, <1>5, <2>1, <2>2
  <2> QED BY <1>1, <1>2, <2>3 DEF DocFollows
<1> QED BY <1>3, <1>4, <1>6, <1>7 DEF DocInv

\* Only a handler, or the taking of a job, could end it before the job is added.
LEMMA FirstKeeps ==
  ASSUME DocTyped, FirstContent, Document \/ DocDies \/ UNCHANGED docVars
  PROVE  FirstContent'
<1>1. content \in Nat
  BY DEF DocTyped
<1>0. content' = 0 => publisher' = "idle"
  <2> SUFFICES content' # 0 \/ (content' = content /\ (publisher = "idle" => publisher' = "idle"))
    BY DEF FirstContent
  <2>1. CASE Publish
    BY <1>1, <2>1 DEF Publish
  <2>2. CASE \/ MarkQueued \/ AddJob \/ MarkRefused \/ Remove \/ AnnounceRemoval \/ Reconcile
             \/ ReconcileFails \/ DocDies \/ UNCHANGED docVars
    BY <2>2 DEF MarkQueued, AddJob, MarkRefused, Remove, AnnounceRemoval, Reconcile, ReconcileFails,
                DocDies, docVars
  <2>3. ASSUME NEW w \in Workers,
               \/ Take(w) \/ Begin(w) \/ LoadRow(w) \/ ReadChunks(w) \/ DeleteChunks(w)
               \/ InsertChunks(w) \/ Finish(w) \/ AnnounceChunks(w) \/ IngestFails(w) \/ Catch(w)
               \/ End(w) \/ Throw(w) \/ Timeout(w)
        PROVE  content' = content /\ publisher' = publisher
    BY <2>3 DEF Take, Begin, LoadRow, ReadChunks, DeleteChunks, InsertChunks, Finish, AnnounceChunks,
                IngestFails, Catch, End, Throw, Timeout, Elsewhere
  <2> QED BY <2>1, <2>2, <2>3, Zenon DEF Document
<1> SUFFICES ASSUME content' = 0 \/ (content' = 1 /\ publisher' # "idle")
             PROVE  job' = "absent" /\ \A w \in Workers : worker'[w].pc = "idle"
  BY <1>0 DEF FirstContent
<1>2. CASE Publish
  <2>1. content = 0 /\ job' = job /\ worker' = worker
    BY <1>1, <1>2 DEF Publish
  <2> QED BY <2>1 DEF FirstContent
<1>3. CASE AddJob
  <2>1. /\ publisher = "add" /\ content' = content
        /\ job' = job \/ publisher' = "idle"
        /\ worker' = worker
    BY <1>3 DEF AddJob
  <2>2. content = 1 /\ job' = job
    BY <1>0, <2>1 DEF FirstContent
  <2> QED BY <2>1, <2>2 DEF FirstContent
<1>4. CASE \/ MarkQueued \/ MarkRefused \/ Remove \/ AnnounceRemoval \/ Reconcile \/ ReconcileFails
           \/ UNCHANGED docVars
  <2>1. content' = content /\ job' = job /\ worker' = worker
    BY <1>4 DEF MarkQueued, MarkRefused, Remove, AnnounceRemoval, Reconcile, ReconcileFails, docVars
  <2>2. publisher' # "idle" => publisher # "idle"
    BY <1>4 DEF MarkQueued, MarkRefused, Remove, AnnounceRemoval, Reconcile, ReconcileFails, docVars
  <2> QED BY <2>1, <2>2 DEF FirstContent
<1>5. CASE DocDies
  <2>1. content' = content /\ publisher' = "idle" /\ worker' = [w \in Workers |-> NoWork]
        /\ (job # "active" => job' = job)
    BY <1>5 DEF DocDies
  <2>2. job = "absent"
    BY <2>1 DEF FirstContent
  <2> QED BY <2>1, <2>2, IdleWork
<1>6. ASSUME NEW w \in Workers, content' = content, publisher' = publisher,
             worker[w].pc # "idle" \/ job = "waiting"
      PROVE  FALSE
  BY <1>6 DEF FirstContent
<1>7. ASSUME NEW w \in Workers,
             \/ Take(w) \/ Begin(w) \/ LoadRow(w) \/ ReadChunks(w) \/ DeleteChunks(w)
             \/ InsertChunks(w) \/ Finish(w) \/ AnnounceChunks(w) \/ IngestFails(w) \/ Catch(w)
             \/ End(w) \/ Throw(w) \/ Timeout(w)
      PROVE  FALSE
  <2>1. content' = content /\ publisher' = publisher
    BY <1>7 DEF Take, Begin, LoadRow, ReadChunks, DeleteChunks, InsertChunks, Finish, AnnounceChunks,
                IngestFails, Catch, End, Throw, Timeout, Elsewhere
  <2>2. worker[w].pc # "idle" \/ job = "waiting"
    BY <1>7 DEF Take, Begin, LoadRow, ReadChunks, DeleteChunks, InsertChunks, Finish, AnnounceChunks,
                IngestFails, Catch, End, Throw, Timeout, Reached
  <2> QED BY <1>6, <2>1, <2>2
<1> QED BY <1>2, <1>3, <1>4, <1>5, <1>7, Zenon DEF Document

LEMMA DocumentKeeps == DocInv /\ FirstContent /\ Document => DocInv'
BY PublishStep, MarkQueuedStep, AddJobStep, MarkRefusedStep, RemoveStep, AnnounceRemovalStep, ReconcileStep,
   ReconcileFailsStep, TakeJobStep, BeginStep, LoadRowStep, ReadChunksStep, DeleteChunksStep,
   InsertChunksStep, FinishStep, AnnounceChunksStep, IngestFailsStep, CatchStep, EndJobStep, ThrowStep,
   TimeoutStep, Zenon DEF Document

LEMMA DocOfInv == DocInv => DoneIsIndexed /\ DocumentSettled
<1> SUFFICES ASSUME DocInv, DocAtRest
             PROVE  /\ status = "done" => chunks = {content} \/ Excused \/ outlived
                    /\ Unsettled => Excused
  BY DEF DoneIsIndexed, DocumentSettled
<1>1. status = "done" => chunks = {content} \/ Excused \/ outlived
  BY DEF DocInv, DocFollows, DocAtRest, Clean, Excused
<1>2. Unsettled => Excused
  BY DEF DocInv, DocCovered, DocAtRest, Excused
<1> QED BY <1>1, <1>2

-----------------------------------------------------------------------------
(* The ticket: its creation, its extraction and the check of a new start *)

LEMMA RowChanges ==
  ASSUME TicketInv
  PROVE  /\ ticket \in Row
         /\ \A s \in {"none", "pending", "processing", "done", "failed"} :
              /\ [ticket EXCEPT !.status = s] \in Row
              /\ [ticket EXCEPT !.status = s].status = s
              /\ [ticket EXCEPT !.status = s].reviewed = ticket.reviewed
BY DEF TicketInv, TicketTyped, Row

LEMMA TicketStart == TicketInit => TicketInv
<1> SUFFICES ASSUME TicketInit PROVE TicketInv
  OBVIOUS
<1>1. /\ ticket = NoRow /\ texts = 0 /\ creator = "idle" /\ extraction = NoJob
      /\ editor = [e \in Editors |-> NoEdit] /\ tchunk = 0 /\ tboot = "off"
      /\ doubted = FALSE /\ abandoned = FALSE
  BY DEF TicketInit
<1>2. NoRow \in Row /\ NoRow.status = "none" /\ NoRow.reviewed = FALSE /\ 0 \in 0..MaxTexts
  BY TextsNatural DEF NoRow, Row
<1>3. NoEdit \in EditRecord /\ NoEdit.pc = "idle"
  BY <1>2 DEF NoEdit, EditRecord
<1>4. NoJob \in JobRecord /\ NoJob.pc = "idle"
  BY DEF NoJob, JobRecord
<1>5. \A e \in Editors : editor[e].pc = "idle"
  BY <1>1, <1>3
<1>6. TicketTyped
  BY <1>1, <1>2, <1>3, <1>4 DEF TicketTyped
<1>7. Extracting
  BY <1>1, <1>4 DEF Extracting
<1>8. Uncrowded /\ Unreviewed
  BY <1>1, <1>5 DEF Uncrowded, Unreviewed, Busy
<1>9. ChunkFollows /\ TicketCovered
  BY <1>1, <1>2, <1>5 DEF ChunkFollows, TicketCovered, Indexed, Settling
<1> QED BY <1>6, <1>7, <1>8, <1>9 DEF TicketInv

\* What is left to show of a step that leaves the edits and the chunk alone.
LEMMA RowKeeps ==
  ASSUME TicketInv, ticket' \in Row, texts' \in 0..MaxTexts, extraction' \in JobRecord,
         creator' \in {"idle", "queue", "add", "refused"}, tboot' \in {"off", "on", "fail"},
         editor' = editor, tchunk' = tchunk, abandoned' \in BOOLEAN,
         doubted' \in BOOLEAN, doubted => doubted', ticket'.reviewed = ticket.reviewed,
         \/ doubted' \/ ticket' = ticket \/ ~ticket.reviewed
         \/ ticket.status # "done" /\ ticket'.status # "done",
         Extracting', TicketCovered'
  PROVE  TicketInv'
<1>1. TicketTyped'
  BY DEF TicketInv, TicketTyped
<1>2. Uncrowded' /\ Unreviewed'
  <2>1. \A e \in Editors : Busy(e)' <=> Busy(e)
    BY DEF Busy
  <2>2. Uncrowded'
    BY <2>1 DEF TicketInv, Uncrowded
  <2>3. Unreviewed'
    BY DEF TicketInv, Unreviewed
  <2> QED BY <2>2, <2>3
<1>3. ChunkFollows'
  <2> SUFFICES ASSUME ~doubted'
               PROVE  /\ \A e \in Editors : editor[e].pc \in {"find", "delete", "insert"}
                           => editor[e].updated = ticket' /\ ticket'.status = "done"
                      /\ \/ tchunk = IF Indexed' THEN ticket'.text ELSE 0
                         \/ \E e \in Editors : editor[e].pc \in {"find", "delete", "insert"}
    BY DEF TicketInv, ChunkFollows
  <2>1. CASE ticket' = ticket
    BY <2>1 DEF TicketInv, ChunkFollows, Indexed
  <2>2. CASE ~ticket.reviewed
    BY <2>2 DEF TicketInv, Unreviewed, Indexed
  <2>3. CASE ticket.status # "done" /\ ticket'.status # "done"
    BY <2>3 DEF TicketInv, ChunkFollows, Indexed
  <2> QED BY <2>1, <2>2, <2>3
<1> QED BY <1>1, <1>2, <1>3 DEF TicketInv

LEMMA CreateStep == TicketInv /\ Create => TicketInv'
<1> SUFFICES ASSUME TicketInv, Create PROVE TicketInv'
  OBVIOUS
<1>1. /\ ticket.status = "none" /\ ticket' = [ticket EXCEPT !.status = "pending"]
      /\ creator' = "queue" /\ texts' = texts /\ extraction' = extraction /\ tboot' = tboot
      /\ editor' = editor /\ tchunk' = tchunk /\ doubted' = doubted /\ abandoned' = abandoned
  BY DEF Create, SetTicket
<1>2. ticket' \in Row /\ ticket'.status = "pending" /\ ticket'.reviewed = ticket.reviewed
  BY <1>1, RowChanges
<1>3. extraction = NoJob /\ NoJob.pc = "idle"
  BY <1>1 DEF TicketInv, Extracting, NoJob
<1>4. Extracting' /\ TicketCovered'
  BY <1>1, <1>2, <1>3 DEF Extracting, TicketCovered
<1>5. /\ texts \in 0..MaxTexts /\ extraction \in JobRecord /\ tboot \in {"off", "on", "fail"}
      /\ doubted \in BOOLEAN /\ abandoned \in BOOLEAN
  BY DEF TicketInv, TicketTyped
<1> QED BY <1>1, <1>2, <1>4, <1>5, RowKeeps

\* An update of the row that is refused leaves it to the next start.
LEMMA TicketLeft ==
  ASSUME TicketInv, ticket' = ticket, texts' = texts, extraction' = extraction, tboot' = tboot,
         creator' = "idle", editor' = editor, tchunk' = tchunk, doubted' = doubted, abandoned' = TRUE
  PROVE  TicketInv'
<1>1. Extracting' /\ TicketCovered'
  BY DEF TicketInv, Extracting, TicketCovered
<1>2. /\ ticket \in Row /\ texts \in 0..MaxTexts /\ extraction \in JobRecord
      /\ tboot \in {"off", "on", "fail"} /\ doubted \in BOOLEAN
  BY DEF TicketInv, TicketTyped
<1> QED BY <1>1, <1>2, RowKeeps

LEMMA MarkTicketStep == TicketInv /\ MarkTicket => TicketInv'
<1> SUFFICES ASSUME TicketInv, MarkTicket PROVE TicketInv'
  OBVIOUS
<1>0. /\ creator = "queue" /\ texts' = texts /\ extraction' = extraction /\ tboot' = tboot
      /\ editor' = editor /\ tchunk' = tchunk /\ doubted' = doubted
  BY DEF MarkTicket, QueueUpdate
<1> SUFFICES ASSUME ticket' = [ticket EXCEPT !.status = "pending"], creator' = "add",
                    abandoned' = abandoned
             PROVE  TicketInv'
  BY <1>0, TicketLeft DEF MarkTicket, QueueUpdate, SetTicket
<1>1. /\ creator = "queue" /\ ticket' = [ticket EXCEPT !.status = "pending"]
      /\ creator' = "add" /\ texts' = texts /\ extraction' = extraction /\ tboot' = tboot
      /\ editor' = editor /\ tchunk' = tchunk /\ doubted' = doubted /\ abandoned' = abandoned
  BY <1>0
<1>2. ticket' \in Row /\ ticket'.status = "pending" /\ ticket'.reviewed = ticket.reviewed
  BY <1>1, RowChanges
<1>3. extraction = NoJob /\ NoJob.pc = "idle" /\ ticket.status \in {"pending", "failed"}
  BY <1>1 DEF TicketInv, Extracting, NoJob
<1>4. Extracting' /\ TicketCovered'
  BY <1>1, <1>2, <1>3 DEF Extracting, TicketCovered
<1>5. /\ texts \in 0..MaxTexts /\ extraction \in JobRecord /\ tboot \in {"off", "on", "fail"}
      /\ doubted \in BOOLEAN /\ abandoned \in BOOLEAN
  BY DEF TicketInv, TicketTyped
<1>6. ticket.status # "done" /\ ticket'.status # "done"
  BY <1>2, <1>3
<1> QED BY <1>1, <1>2, <1>4, <1>5, <1>6, RowKeeps

LEMMA AddExtractionStep == TicketInv /\ AddExtraction => TicketInv'
<1> SUFFICES ASSUME TicketInv, AddExtraction PROVE TicketInv'
  OBVIOUS
<1>1. /\ creator = "add" /\ ticket' = ticket /\ texts' = texts /\ tboot' = tboot
      /\ editor' = editor /\ tchunk' = tchunk /\ doubted' = doubted /\ abandoned' = abandoned
  BY DEF AddExtraction
<1>2. \/ creator' = "idle" /\ extraction' = [extraction EXCEPT !.job = "waiting"]
      \/ creator' = "refused" /\ extraction' = extraction
  BY DEF AddExtraction
<1>3. extraction = NoJob /\ NoJob.pc = "idle" /\ ticket.status \in {"pending", "failed"}
  BY <1>1 DEF TicketInv, Extracting, NoJob
<1>4. /\ texts \in 0..MaxTexts /\ extraction \in JobRecord /\ tboot \in {"off", "on", "fail"}
      /\ doubted \in BOOLEAN /\ abandoned \in BOOLEAN /\ ticket \in Row
  BY DEF TicketInv, TicketTyped
<1> DEFINE x == [extraction EXCEPT !.job = "waiting"]
<1>5. x \in JobRecord /\ x.job = "waiting" /\ x.pc = extraction.pc
  BY <1>4 DEF JobRecord
<1>6. \/ creator' = "idle" /\ extraction' = x
      \/ creator' = "refused" /\ extraction' = extraction
  BY <1>2
<1> HIDE DEF x
<1>7. Extracting'
  BY <1>1, <1>3, <1>5, <1>6 DEF Extracting
<1>8. TicketCovered'
  BY <1>1, <1>5, <1>6 DEF TicketCovered
<1>9. extraction' \in JobRecord /\ creator' \in {"idle", "queue", "add", "refused"}
  BY <1>4, <1>5, <1>6
<1>10. doubted => doubted'
  BY <1>1
<1> QED BY <1>1, <1>4, <1>7, <1>8, <1>9, <1>10, RowKeeps

LEMMA RefuseTicketStep == TicketInv /\ RefuseTicket => TicketInv'
<1> SUFFICES ASSUME TicketInv, RefuseTicket PROVE TicketInv'
  OBVIOUS
<1>0. /\ creator = "refused" /\ texts' = texts /\ extraction' = extraction /\ tboot' = tboot
      /\ editor' = editor /\ tchunk' = tchunk /\ doubted' = doubted
  BY DEF RefuseTicket, QueueUpdate
<1> SUFFICES ASSUME ticket' = [ticket EXCEPT !.status = "failed"], creator' = "idle",
                    abandoned' = abandoned
             PROVE  TicketInv'
  BY <1>0, TicketLeft DEF RefuseTicket, QueueUpdate, SetTicket
<1>1. /\ creator = "refused" /\ ticket' = [ticket EXCEPT !.status = "failed"]
      /\ creator' = "idle" /\ texts' = texts /\ extraction' = extraction /\ tboot' = tboot
      /\ editor' = editor /\ tchunk' = tchunk /\ doubted' = doubted /\ abandoned' = abandoned
  BY <1>0
<1>2. ticket' \in Row /\ ticket'.status = "failed" /\ ticket'.reviewed = ticket.reviewed
  BY <1>1, RowChanges
<1>3. extraction = NoJob /\ ticket.status \in {"pending", "failed"}
  BY <1>1 DEF TicketInv, Extracting
<1>4. Extracting' /\ TicketCovered'
  BY <1>1, <1>2, <1>3 DEF Extracting, TicketCovered, Settling, NoJob
<1>5. /\ texts \in 0..MaxTexts /\ extraction \in JobRecord /\ tboot \in {"off", "on", "fail"}
      /\ doubted \in BOOLEAN /\ abandoned \in BOOLEAN
  BY DEF TicketInv, TicketTyped
<1>6. ticket.status # "done" /\ ticket'.status # "done"
  BY <1>2, <1>3
<1> QED BY <1>1, <1>2, <1>4, <1>5, <1>6, RowKeeps

LEMMA StartExtractionStep == TicketInv /\ StartExtraction => TicketInv'
<1> SUFFICES ASSUME TicketInv, StartExtraction PROVE TicketInv'
  OBVIOUS
<1>1. /\ extraction.job = "waiting" /\ texts' = texts /\ creator' = creator /\ tboot' = tboot
      /\ editor' = editor /\ tchunk' = tchunk /\ doubted' = doubted
  BY DEF StartExtraction, Quietly
<1>2. /\ texts \in 0..MaxTexts /\ tboot \in {"off", "on", "fail"} /\ doubted \in BOOLEAN
      /\ abandoned \in BOOLEAN /\ ticket \in Row
  BY DEF TicketInv, TicketTyped
<1>3. creator = "idle"
  BY <1>1 DEF TicketInv, Extracting, NoJob
<1>4. creator' \in {"idle", "queue", "add", "refused"} /\ (doubted => doubted') /\ Settling \in BOOLEAN
  BY <1>1, <1>3 DEF Settling
<1>5. CASE ticket.status = "pending"
  <2>1. /\ ticket' = [ticket EXCEPT !.status = "processing"] /\ abandoned' = abandoned
        /\ extraction' = [job |-> "active", pc |-> "extract", late |-> FALSE]
    BY <1>5 DEF StartExtraction, SetTicket
  <2>2. ticket' \in Row /\ ticket'.status = "processing" /\ ticket'.reviewed = ticket.reviewed
    BY <2>1, RowChanges
  <2>3. extraction' \in JobRecord /\ extraction'.job = "active"
    BY <2>1 DEF JobRecord
  <2>4. Extracting' /\ TicketCovered'
    BY <1>1, <1>3, <2>2, <2>3 DEF Extracting, TicketCovered
  <2>5. ticket.status # "done" /\ ticket'.status # "done"
    BY <1>5, <2>2
  <2> QED BY <1>1, <1>2, <1>4, <2>1, <2>2, <2>3, <2>4, <2>5, RowKeeps
<1>6. CASE ticket.status # "pending"
  <2>1. ticket' = ticket /\ abandoned' = (abandoned \/ Settling) /\ extraction' = NoJob
    BY <1>6 DEF StartExtraction
  <2>2. extraction' \in JobRecord /\ extraction'.pc = "idle"
    BY <2>1 DEF JobRecord, NoJob
  <2>3. Extracting'
    BY <1>1, <1>3, <2>1, <2>2 DEF Extracting
  <2>4. TicketCovered'
    BY <2>1 DEF TicketCovered, Settling
  <2>5. abandoned' \in BOOLEAN
    BY <1>2, <1>4, <2>1
  <2> QED BY <1>1, <1>2, <1>4, <2>1, <2>2, <2>3, <2>4, <2>5, RowKeeps
<1> QED BY <1>5, <1>6

\* An extraction is over.
LEMMA ExtractionOver ==
  ASSUME TicketInv, extraction.pc = "extract", Over
  PROVE  /\ extraction' \in JobRecord /\ extraction'.pc = "idle" /\ creator = "idle"
         /\ ticket.status \in {"processing", "failed"}
<1>1. extraction \in JobRecord
  BY DEF TicketInv, TicketTyped
<1> DEFINE x == [extraction EXCEPT !.pc = "idle"]
<1>2. x \in JobRecord /\ x.pc = "idle"
  BY <1>1 DEF JobRecord
<1>3. NoJob \in JobRecord /\ NoJob.pc = "idle"
  BY DEF NoJob, JobRecord
<1>4. extraction' = x \/ extraction' = NoJob
  BY DEF Over
<1> HIDE DEF x
<1>5. creator = "idle" /\ ticket.status \in {"processing", "failed"}
  BY <1>3 DEF TicketInv, TicketTyped, Extracting
<1> QED BY <1>2, <1>3, <1>4, <1>5

LEMMA WriteExtractionStep == TicketInv /\ WriteExtraction => TicketInv'
<1> SUFFICES ASSUME TicketInv, WriteExtraction PROVE TicketInv'
  OBVIOUS
<1>1. /\ creator' = creator /\ tboot' = tboot /\ editor' = editor /\ tchunk' = tchunk
      /\ abandoned' = abandoned
  BY DEF WriteExtraction, Quietly
<1>2. /\ texts \in 0..MaxTexts /\ tboot \in {"off", "on", "fail"} /\ doubted \in BOOLEAN
      /\ abandoned \in BOOLEAN /\ ticket \in Row /\ MaxTexts \in Nat
  BY TextsNatural DEF TicketInv, TicketTyped
<1>3. /\ extraction' \in JobRecord /\ extraction'.pc = "idle" /\ creator = "idle"
      /\ ticket.status \in {"processing", "failed"}
  BY ExtractionOver DEF WriteExtraction
<1>4. creator' \in {"idle", "queue", "add", "refused"}
  BY <1>1, <1>3
<1>5. CASE Settling
  <2>1. /\ texts < MaxTexts /\ texts' = texts + 1 /\ doubted' = (doubted \/ ticket.reviewed)
        /\ ticket' = [ticket EXCEPT !.status = "done", !.text = texts']
    BY <1>5 DEF WriteExtraction
  <2>2. texts' \in 0..MaxTexts
    BY <1>2, <2>1
  <2>3. ticket' \in Row /\ ticket'.status = "done" /\ ticket'.reviewed = ticket.reviewed /\ ticket.reviewed \in BOOLEAN
    BY <1>2, <2>1, <2>2 DEF Row
  <2>4. Extracting' /\ TicketCovered'
    BY <1>1, <1>3, <2>3 DEF Extracting, TicketCovered, Settling
  <2>5. doubted' \in BOOLEAN /\ (doubted => doubted') /\ (doubted' \/ ~ticket.reviewed)
    BY <1>2, <2>1, <2>3
  <2> QED BY <1>1, <1>2, <1>3, <1>4, <2>2, <2>3, <2>4, <2>5, RowKeeps
<1>6. CASE ~Settling
  <2>1. ticket' = ticket /\ texts' = texts /\ doubted' = doubted
    BY <1>6 DEF WriteExtraction
  <2>2. Extracting'
    BY <1>1, <1>3, <2>1 DEF Extracting
  <2>3. TicketCovered'
    BY <1>6, <2>1 DEF TicketCovered, Settling
  <2> QED BY <1>1, <1>2, <1>3, <1>4, <2>1, <2>2, <2>3, RowKeeps
<1> QED BY <1>5, <1>6

LEMMA ExtractionFailsStep == TicketInv /\ ExtractionFails => TicketInv'
<1> SUFFICES ASSUME TicketInv, ExtractionFails PROVE TicketInv'
  OBVIOUS
<1>1. /\ creator' = creator /\ tboot' = tboot /\ editor' = editor /\ tchunk' = tchunk
      /\ abandoned' = abandoned /\ doubted' = doubted /\ texts' = texts
      /\ ticket' = [ticket EXCEPT !.status = "failed"]
  BY DEF ExtractionFails, Quietly, SetTicket
<1>2. /\ texts \in 0..MaxTexts /\ tboot \in {"off", "on", "fail"} /\ doubted \in BOOLEAN
      /\ abandoned \in BOOLEAN
  BY DEF TicketInv, TicketTyped
<1>3. /\ extraction' \in JobRecord /\ extraction'.pc = "idle" /\ creator = "idle"
      /\ ticket.status \in {"processing", "failed"}
  BY ExtractionOver DEF ExtractionFails
<1>4. ticket' \in Row /\ ticket'.status = "failed" /\ ticket'.reviewed = ticket.reviewed
  BY <1>1, RowChanges
<1>5. Extracting' /\ TicketCovered'
  BY <1>1, <1>3, <1>4 DEF Extracting, TicketCovered, Settling
<1>6. ticket.status # "done" /\ ticket'.status # "done" /\ creator' \in {"idle", "queue", "add", "refused"}
  BY <1>1, <1>3, <1>4
<1> QED BY <1>1, <1>2, <1>3, <1>4, <1>5, <1>6, RowKeeps

LEMMA ExtractionThrowsStep == TicketInv /\ ExtractionThrows => TicketInv'
<1> SUFFICES ASSUME TicketInv, ExtractionThrows PROVE TicketInv'
  OBVIOUS
<1>1. /\ creator' = creator /\ tboot' = tboot /\ editor' = editor /\ tchunk' = tchunk
      /\ abandoned' = abandoned /\ doubted' = doubted /\ texts' = texts /\ ticket' = ticket
      /\ extraction.job = "waiting" \/ extraction.pc = "extract"
      /\ extraction' = [NoJob EXCEPT !.job = "failed"]
  BY DEF ExtractionThrows, Quietly
<1>2. /\ texts \in 0..MaxTexts /\ tboot \in {"off", "on", "fail"} /\ doubted \in BOOLEAN
      /\ abandoned \in BOOLEAN /\ ticket \in Row /\ creator \in {"idle", "queue", "add", "refused"}
  BY DEF TicketInv, TicketTyped
<1>3. extraction' \in JobRecord /\ extraction'.pc = "idle" /\ extraction'.job = "failed"
  BY <1>1 DEF JobRecord, NoJob
<1>4. extraction # NoJob
  BY <1>1 DEF NoJob
<1>5. Extracting' /\ TicketCovered'
  BY <1>1, <1>3, <1>4 DEF TicketInv, Extracting, TicketCovered
<1> QED BY <1>1, <1>2, <1>3, <1>5, RowKeeps

LEMMA ExtractionTimeoutStep == TicketInv /\ ExtractionTimeout => TicketInv'
<1> SUFFICES ASSUME TicketInv, ExtractionTimeout PROVE TicketInv'
  OBVIOUS
<1> DEFINE x == [extraction EXCEPT !.job = "failed", !.late = TRUE]
<1>1. /\ creator' = creator /\ tboot' = tboot /\ editor' = editor /\ tchunk' = tchunk
      /\ abandoned' = abandoned /\ doubted' = doubted /\ texts' = texts /\ ticket' = ticket
      /\ extraction.pc = "extract" /\ extraction' = x
  BY DEF ExtractionTimeout, Quietly
<1>2. /\ texts \in 0..MaxTexts /\ tboot \in {"off", "on", "fail"} /\ doubted \in BOOLEAN
      /\ abandoned \in BOOLEAN /\ ticket \in Row /\ extraction \in JobRecord
      /\ creator \in {"idle", "queue", "add", "refused"}
  BY DEF TicketInv, TicketTyped
<1>3. x \in JobRecord /\ x.pc = extraction.pc /\ x.job = "failed"
  BY <1>2 DEF JobRecord
<1> HIDE DEF x
<1>4. ticket.status \in {"processing", "failed"} /\ creator = "idle"
  BY <1>1 DEF TicketInv, Extracting, NoJob
<1>5. Extracting' /\ TicketCovered'
  BY <1>1, <1>3, <1>4 DEF Extracting, TicketCovered
<1> QED BY <1>1, <1>2, <1>3, <1>5, RowKeeps

LEMMA ReconcileTicketStep == TicketInv /\ ReconcileTicket => TicketInv'
<1> SUFFICES ASSUME TicketInv, ReconcileTicket PROVE TicketInv'
  OBVIOUS
<1>1. /\ creator' = creator /\ editor' = editor /\ tchunk' = tchunk /\ extraction' = extraction
      /\ doubted' = doubted /\ texts' = texts /\ ticket' = ticket
  BY DEF ReconcileTicket
<1>2. \/ /\ tboot' = "off"
         /\ abandoned' = (abandoned \/ (Settling /\ extraction.job = "absent" /\ creator = "idle"))
      \/ tboot' = "fail" /\ abandoned' = abandoned
  BY DEF ReconcileTicket
<1>3. /\ texts \in 0..MaxTexts /\ doubted \in BOOLEAN
      /\ abandoned \in BOOLEAN /\ ticket \in Row /\ extraction \in JobRecord
      /\ creator \in {"idle", "queue", "add", "refused"}
  BY DEF TicketInv, TicketTyped
<1>4. abandoned' \in BOOLEAN /\ tboot' \in {"off", "on", "fail"}
  BY <1>2, <1>3 DEF Settling
<1>5. Extracting'
  BY <1>1 DEF TicketInv, Extracting
<1>6. TicketCovered'
  BY <1>1, <1>2 DEF TicketCovered, Settling
<1> QED BY <1>1, <1>3, <1>4, <1>5, <1>6, RowKeeps

LEMMA ReconcileTicketFailsStep == TicketInv /\ ReconcileTicketFails => TicketInv'
<1> SUFFICES ASSUME TicketInv, ReconcileTicketFails PROVE TicketInv'
  OBVIOUS
<1>0. /\ creator' = creator /\ editor' = editor /\ tchunk' = tchunk /\ extraction' = extraction
      /\ texts' = texts /\ tboot' = "off"
  BY DEF ReconcileTicketFails
<1>2. /\ texts \in 0..MaxTexts /\ doubted \in BOOLEAN
      /\ abandoned \in BOOLEAN /\ extraction \in JobRecord /\ ticket \in Row
      /\ creator \in {"idle", "queue", "add", "refused"}
  BY DEF TicketInv, TicketTyped
<1>7. CASE /\ abandoned' = (abandoned \/ (Settling /\ extraction.job = "absent" /\ creator = "idle"))
           /\ ticket' = ticket /\ doubted' = doubted
  <2>1. abandoned' \in BOOLEAN
    BY <1>2, <1>7 DEF Settling
  <2>2. Extracting'
    BY <1>0, <1>7 DEF TicketInv, Extracting
  <2>3. TicketCovered'
    BY <1>0, <1>7 DEF TicketCovered, Settling
  <2> QED BY <1>0, <1>2, <1>7, <2>1, <2>2, <2>3, RowKeeps
<1> SUFFICES ASSUME ticket' = [ticket EXCEPT !.status = "failed"],
                    doubted' = (doubted \/ ticket.status = "done"), abandoned' = abandoned
             PROVE  TicketInv'
  BY <1>7 DEF ReconcileTicketFails, SetTicket
<1>1. /\ creator' = creator /\ editor' = editor /\ tchunk' = tchunk /\ extraction' = extraction
      /\ doubted' = (doubted \/ ticket.status = "done") /\ texts' = texts /\ abandoned' = abandoned
      /\ ticket' = [ticket EXCEPT !.status = "failed"] /\ tboot' = "off"
  BY <1>0
<1>3. ticket' \in Row /\ ticket'.status = "failed" /\ ticket'.reviewed = ticket.reviewed
  BY <1>1, RowChanges
<1>4. Extracting'
  BY <1>1, <1>3 DEF TicketInv, Extracting
<1>5. TicketCovered'
  BY <1>3 DEF TicketCovered, Settling
<1>6. /\ doubted' \in BOOLEAN /\ (doubted => doubted')
      /\ doubted' \/ (ticket.status # "done" /\ ticket'.status # "done")
  BY <1>1, <1>2, <1>3
<1> QED BY <1>1, <1>2, <1>3, <1>4, <1>5, <1>6, RowKeeps

-----------------------------------------------------------------------------
(* The ticket: its edits *)

LEMMA EditMoves ==
  ASSUME TicketInv, NEW e \in Editors
  PROVE  /\ editor[e] \in EditRecord
         /\ \A p \in {"idle", "update", "find", "delete", "insert", "bump"} :
              /\ [editor[e] EXCEPT !.pc = p] \in EditRecord
              /\ [editor[e] EXCEPT !.pc = p].pc = p
              /\ [editor[e] EXCEPT !.pc = p].crowded = editor[e].crowded
              /\ [editor[e] EXCEPT !.pc = p].updated = editor[e].updated
              /\ [editor[e] EXCEPT !.pc = p].existing = editor[e].existing
BY DEF TicketInv, TicketTyped, EditRecord

LEMMA IdleEdit == NoEdit \in EditRecord /\ NoEdit.pc = "idle"
<1>1. NoRow \in Row
  <2>1. 0 \in 0..MaxTexts
    BY TextsNatural
  <2> QED BY <2>1 DEF NoRow, Row
<1> QED BY <1>1 DEF NoEdit, EditRecord

\* An edit that goes on has read what it holds.
LEMMA EditGoesOn ==
  ASSUME TicketInv, NEW e \in Editors, NEW x \in EditRecord, editor' = [editor EXCEPT ![e] = x]
  PROVE  /\ editor' \in [Editors -> EditRecord] /\ editor'[e] = x
         /\ \A o \in Editors \ {e} : editor'[o] = editor[o]
BY DEF TicketInv, TicketTyped

\* What is left to show of a step of an edit that has written the row.
LEMMA SyncKeeps ==
  ASSUME TicketInv, NEW e \in Editors, NEW x \in EditRecord, editor' = [editor EXCEPT ![e] = x],
         editor[e].pc \in {"find", "delete", "insert", "bump"},
         x.pc = "idle" \/ (x.pc \in {"delete", "insert", "bump"} /\ x.crowded = editor[e].crowded),
         x.pc \in {"delete", "insert"} => x.updated = editor[e].updated /\ editor[e].pc # "bump",
         x.pc = "insert" => x.updated.useful,
         ticket' = ticket, texts' = texts, creator' = creator, extraction' = extraction, tboot' = tboot,
         abandoned' = abandoned, doubted' \in BOOLEAN, doubted => doubted',
         ~doubted' /\ ticket.reviewed /\ x.pc \notin {"delete", "insert"} =>
           \/ tchunk' = IF Indexed THEN ticket.text ELSE 0
           \/ editor[e].pc = "bump" /\ tchunk' = tchunk
  PROVE  TicketInv'
<1>1. /\ editor' \in [Editors -> EditRecord] /\ editor'[e] = x
      /\ \A o \in Editors \ {e} : editor'[o] = editor[o]
  BY EditGoesOn
<1>2. ticket.reviewed
  BY DEF TicketInv, Unreviewed
<1>3. TicketTyped'
  BY <1>1 DEF TicketInv, TicketTyped
<1>4. Extracting' /\ TicketCovered'
  BY DEF TicketInv, Extracting, TicketCovered, Settling
<1>5. Busy(e) /\ \A o \in Editors : /\ Busy(o)' => Busy(o)
                                    /\ Busy(o)' => editor'[o].crowded = editor[o].crowded
  BY <1>1 DEF Busy
<1>6. Uncrowded'
  BY <1>5 DEF TicketInv, Uncrowded
<1>7. Unreviewed'
  BY <1>1, <1>2 DEF TicketInv, Unreviewed
<1>8. ChunkFollows'
  <2>1. \A o \in Editors : editor'[o].pc = "insert" => editor'[o].updated.useful
    BY <1>1 DEF TicketInv, ChunkFollows
  <2> SUFFICES ASSUME ~doubted'
               PROVE  /\ \A o \in Editors : editor'[o].pc \in {"find", "delete", "insert"}
                           => editor'[o].updated = ticket /\ ticket.status = "done"
                      /\ \/ tchunk' = IF Indexed THEN ticket.text ELSE 0
                         \/ \E o \in Editors : editor'[o].pc \in {"find", "delete", "insert"}
    BY <2>1 DEF ChunkFollows, Indexed
  <2>2. ~doubted
    OBVIOUS
  <2>3. \A o \in Editors : editor'[o].pc \in {"find", "delete", "insert"}
                           => editor'[o].updated = ticket /\ ticket.status = "done"
    BY <1>1, <2>2 DEF TicketInv, ChunkFollows
  <2>4. CASE x.pc \in {"delete", "insert"}
    BY <1>1, <2>3, <2>4
  <2>5. CASE tchunk' = IF Indexed THEN ticket.text ELSE 0
    BY <2>3, <2>5
  <2>6. CASE editor[e].pc = "bump" /\ tchunk' = tchunk
    BY <1>1, <2>2, <2>3, <2>6 DEF TicketInv, ChunkFollows
  <2> QED BY <1>2, <2>4, <2>5, <2>6
<1> QED BY <1>3, <1>4, <1>6, <1>7, <1>8 DEF TicketInv

\* What an edit holds while it sees to the chunk.
LEMMA Syncing ==
  ASSUME TicketInv, NEW e \in Editors, editor[e].pc \in {"find", "delete", "insert"}
  PROVE  /\ ~doubted => editor[e].updated = ticket /\ ticket.status = "done"
         /\ editor[e].pc = "insert" => editor[e].updated.useful
         /\ doubted \in BOOLEAN /\ ticket.useful \in BOOLEAN
BY DEF TicketInv, ChunkFollows, TicketTyped, Row

LEMMA EditRefusedStep == ASSUME TicketInv, NEW e \in Editors, EditRefused(e) PROVE TicketInv'
<1>1. /\ editor[e].pc = "update" /\ ticket' = ticket /\ texts' = texts /\ creator' = creator
      /\ extraction' = extraction /\ tboot' = tboot /\ abandoned' = abandoned /\ doubted' = doubted
      /\ tchunk' = tchunk /\ editor' = [editor EXCEPT ![e] = NoEdit]
  BY DEF EditRefused, Aside
<1>2. /\ editor' \in [Editors -> EditRecord] /\ editor'[e] = NoEdit /\ NoEdit.pc = "idle"
      /\ \A o \in Editors \ {e} : editor'[o] = editor[o]
  BY <1>1, IdleEdit, EditGoesOn
<1>3. TicketTyped'
  BY <1>1, <1>2 DEF TicketInv, TicketTyped
<1>4. Extracting' /\ TicketCovered'
  BY <1>1 DEF TicketInv, Extracting, TicketCovered, Settling
<1>5. Uncrowded'
  BY <1>1, <1>2 DEF TicketInv, Uncrowded, Busy
<1>6. Unreviewed'
  BY <1>1, <1>2 DEF TicketInv, Unreviewed
<1>7. ChunkFollows'
  <2>1. \A o \in Editors : editor'[o].pc \in {"find", "delete", "insert"} => editor'[o] = editor[o]
    BY <1>2
  <2>2. \A o \in Editors : editor[o].pc \in {"find", "delete", "insert"} => editor'[o] = editor[o]
    BY <1>1, <1>2
  <2> QED BY <1>1, <2>1, <2>2 DEF TicketInv, ChunkFollows, Indexed
<1> QED BY <1>3, <1>4, <1>5, <1>6, <1>7 DEF TicketInv

LEMMA FindChunkStep == ASSUME TicketInv, NEW e \in Editors, FindChunk(e) PROVE TicketInv'
<1>1. /\ editor[e].pc = "find" /\ ticket' = ticket /\ texts' = texts /\ creator' = creator
      /\ extraction' = extraction /\ tboot' = tboot /\ abandoned' = abandoned /\ doubted' = doubted
      /\ tchunk' = tchunk
  BY DEF FindChunk, Aside
<1> DEFINE u == editor[e].updated
<1>2. PICK x \in {NoEdit, [editor[e] EXCEPT !.pc = "delete"]} :
        /\ editor' = [editor EXCEPT ![e] = x]
        /\ \/ x = [editor[e] EXCEPT !.pc = "delete"]
           \/ x = NoEdit /\ ((u.useful /\ tchunk = u.text) \/ (~u.useful /\ tchunk = 0))
  BY DEF FindChunk
<1>3. /\ x \in EditRecord /\ x.pc \in {"idle", "delete"}
      /\ x.pc = "delete" => x.crowded = editor[e].crowded /\ x.updated = editor[e].updated
      /\ x.pc = "idle" => (u.useful /\ tchunk = u.text) \/ (~u.useful /\ tchunk = 0)
  <2>1. CASE x = NoEdit
    BY <1>2, <2>1, IdleEdit, EditMoves
  <2>2. CASE x = [editor[e] EXCEPT !.pc = "delete"]
    BY <2>2, EditMoves
  <2> QED BY <1>2, <2>1, <2>2
<1>4. ~doubted' /\ ticket.reviewed /\ x.pc \notin {"delete", "insert"}
        => tchunk' = IF Indexed THEN ticket.text ELSE 0
  BY <1>1, <1>3, Syncing DEF Indexed
<1>5. doubted' \in BOOLEAN /\ (doubted => doubted')
  BY <1>1, Syncing
<1> QED BY <1>1, <1>2, <1>3, <1>4, <1>5, SyncKeeps

LEMMA DeleteChunkStep == ASSUME TicketInv, NEW e \in Editors, DeleteChunk(e) PROVE TicketInv'
<1>1. /\ editor[e].pc = "delete" /\ ticket' = ticket /\ texts' = texts /\ creator' = creator
      /\ extraction' = extraction /\ tboot' = tboot /\ abandoned' = abandoned /\ doubted' = doubted
      /\ tchunk' = 0
  BY DEF DeleteChunk, Aside
<1>2. PICK p \in {"insert", "bump"} :
        /\ editor' = [editor EXCEPT ![e].pc = p]
        /\ IF editor[e].updated.useful THEN p = "insert" ELSE p = "bump"
  BY DEF DeleteChunk, Step
<1> PICK x : x = [editor[e] EXCEPT !.pc = p]
  OBVIOUS
<1>3. /\ x \in EditRecord /\ x.pc = p /\ x.crowded = editor[e].crowded /\ x.updated = editor[e].updated
  <2>1. p \in {"idle", "update", "find", "delete", "insert", "bump"}
    OBVIOUS
  <2> QED BY <2>1, EditMoves
<1>4. editor' = [editor EXCEPT ![e] = x]
  BY <1>2
<1>5. ~doubted' /\ ticket.reviewed /\ x.pc \notin {"delete", "insert"}
        => tchunk' = IF Indexed THEN ticket.text ELSE 0
  BY <1>1, <1>2, <1>3, Syncing DEF Indexed
<1>6. doubted' \in BOOLEAN /\ (doubted => doubted')
  BY <1>1, Syncing
<1>7. /\ x.pc \in {"delete", "insert", "bump"} /\ (x.pc = "insert" => x.updated.useful)
      /\ editor[e].pc # "bump" /\ editor[e].pc \in {"find", "delete", "insert", "bump"}
  BY <1>1, <1>2, <1>3
<1> QED BY <1>1, <1>3, <1>4, <1>5, <1>6, <1>7, SyncKeeps

\* An edit leaves, and with it the doubt it may leave behind.
LEMMA EditLeaves ==
  ASSUME TicketInv, NEW e \in Editors, editor' = [editor EXCEPT ![e] = NoEdit],
         editor[e].pc \in {"find", "delete", "insert", "bump"},
         ticket' = ticket, texts' = texts, creator' = creator, extraction' = extraction, tboot' = tboot,
         abandoned' = abandoned, doubted' \in BOOLEAN, doubted => doubted',
         doubted' \/ (editor[e].pc = "bump" /\ tchunk' = tchunk)
  PROVE  TicketInv'
BY IdleEdit, SyncKeeps

LEMMA InsertChunkStep == ASSUME TicketInv, NEW e \in Editors, InsertChunk(e) PROVE TicketInv'
<1>1. /\ editor[e].pc = "insert" /\ ticket' = ticket /\ texts' = texts /\ creator' = creator
      /\ extraction' = extraction /\ tboot' = tboot /\ abandoned' = abandoned
  BY DEF InsertChunk, Aside
<1>2. CASE editor' = [editor EXCEPT ![e] = NoEdit] /\ doubted' = TRUE
  BY <1>1, <1>2, EditLeaves
<1>3. CASE tchunk' = editor[e].updated.text /\ editor' = [editor EXCEPT ![e].pc = "bump"] /\ doubted' = doubted
  <2> PICK x : x = [editor[e] EXCEPT !.pc = "bump"]
    OBVIOUS
  <2>1. /\ x \in EditRecord /\ x.pc = "bump" /\ x.crowded = editor[e].crowded
    BY EditMoves
  <2>2. editor' = [editor EXCEPT ![e] = x]
    BY <1>3
  <2>3. ~doubted' /\ ticket.reviewed => tchunk' = IF Indexed THEN ticket.text ELSE 0
    BY <1>1, <1>3, Syncing DEF Indexed
  <2>4. doubted' \in BOOLEAN /\ (doubted => doubted')
    BY <1>1, <1>3, Syncing
  <2> QED BY <1>1, <2>1, <2>2, <2>3, <2>4, SyncKeeps
<1> QED BY <1>2, <1>3 DEF InsertChunk, GiveUp, Step

LEMMA SyncFailsStep == ASSUME TicketInv, NEW e \in Editors, SyncFails(e) PROVE TicketInv'
<1>1. /\ editor[e].pc \in {"find", "delete", "insert", "bump"} /\ ticket' = ticket /\ texts' = texts
      /\ creator' = creator /\ extraction' = extraction /\ tboot' = tboot /\ abandoned' = abandoned
      /\ editor' = [editor EXCEPT ![e] = NoEdit] /\ doubted' = TRUE
  BY DEF SyncFails, GiveUp, Aside
<1> QED BY <1>1, EditLeaves

LEMMA AnnounceTicketStep == ASSUME TicketInv, NEW e \in Editors, AnnounceTicket(e) PROVE TicketInv'
<1>1. /\ editor[e].pc = "bump" /\ ticket' = ticket /\ texts' = texts
      /\ creator' = creator /\ extraction' = extraction /\ tboot' = tboot /\ abandoned' = abandoned
      /\ editor' = [editor EXCEPT ![e] = NoEdit] /\ doubted' = doubted /\ tchunk' = tchunk
  BY DEF AnnounceTicket, Aside
<1>2. doubted' \in BOOLEAN /\ (doubted => doubted')
  BY <1>1 DEF TicketInv, TicketTyped
<1> QED BY <1>1, <1>2, EditLeaves

\* An edit begins: alone, or among others, which leaves a doubt.
LEMMA OpenTicketStep == ASSUME TicketInv, NEW e \in Editors, OpenTicket(e) PROVE TicketInv'
<1> PICK others : others = {o \in Editors : Busy(o)}
  OBVIOUS
<1>1. /\ ~Busy(e) /\ ticket' = ticket /\ texts' = texts /\ creator' = creator /\ tchunk' = tchunk
      /\ extraction' = extraction /\ tboot' = tboot /\ abandoned' = abandoned
      /\ doubted' = (doubted \/ others # {})
  BY DEF OpenTicket
<1>2. editor' = [o \in Editors |->
              IF o = e THEN [pc |-> "update", existing |-> ticket, updated |-> NoRow, crowded |-> others # {}]
              ELSE [editor[o] EXCEPT !.crowded = @ \/ o \in others]]
  BY DEF OpenTicket
<1>3. ticket \in Row /\ NoRow \in Row /\ (others # {}) \in BOOLEAN
  <2>1. 0 \in 0..MaxTexts
    BY TextsNatural
  <2> QED BY <2>1 DEF TicketInv, TicketTyped, NoRow, Row
<1>4. /\ editor'[e] \in EditRecord /\ editor'[e].pc = "update" /\ editor'[e].existing = ticket
      /\ editor'[e].crowded = (others # {})
  BY <1>2, <1>3 DEF EditRecord
<1>5. ASSUME NEW o \in Editors \ {e}
      PROVE  /\ editor'[o] \in EditRecord /\ editor'[o].pc = editor[o].pc
             /\ editor'[o].updated = editor[o].updated /\ editor'[o].existing = editor[o].existing
             /\ editor'[o].crowded = (editor[o].crowded \/ o \in others)
  <2>1. PICK b : b = (editor[o].crowded \/ o \in others)
    OBVIOUS
  <2>2. editor[o] \in EditRecord
    BY EditMoves
  <2>3. b \in BOOLEAN
    BY <2>1, <2>2 DEF EditRecord
  <2>4. editor'[o] = [editor[o] EXCEPT !.crowded = b]
    BY <1>2, <2>1
  <2> QED BY <2>1, <2>2, <2>3, <2>4 DEF EditRecord
<1>6. TicketTyped'
  <2>1. editor' \in [Editors -> EditRecord]
    BY <1>2, <1>4, <1>5
  <2> QED BY <1>1, <2>1 DEF TicketInv, TicketTyped
<1>7. Extracting' /\ TicketCovered'
  BY <1>1 DEF TicketInv, Extracting, TicketCovered, Settling
<1>8. others = {} \/ doubted'
  BY <1>1
<1>9. Uncrowded'
  <2>1. \A o \in Editors : Busy(o)' => o = e \/ o \in others
    BY <1>5 DEF Busy
  <2>2. CASE others = {}
    BY <1>4, <2>1, <2>2 DEF Uncrowded
  <2>3. CASE others # {}
    <3>1. \A o \in Editors : Busy(o)' => editor'[o].crowded
      BY <1>4, <1>5, <2>1, <2>3
    <3> QED BY <1>8, <2>3, <3>1 DEF Uncrowded
  <2> QED BY <2>2, <2>3
<1>10. Unreviewed'
  <2>1. ~ticket'.reviewed => tchunk' = 0 /\ \A o \in Editors : editor'[o].pc \in {"idle", "update"}
    BY <1>1, <1>4, <1>5 DEF TicketInv, Unreviewed
  <2>2. ASSUME NEW o \in Editors, editor'[o].pc = "update", ~editor'[o].crowded, ticket'.reviewed
        PROVE  editor'[o].existing.reviewed
    <3>1. CASE o = e
      BY <1>1, <1>4, <2>2, <3>1
    <3>2. CASE o # e
      BY <1>1, <1>5, <2>2, <3>2 DEF TicketInv, Unreviewed
    <3> QED BY <3>1, <3>2
  <2> QED BY <2>1, <2>2 DEF Unreviewed
<1>11. ChunkFollows'
  <2>1. \A o \in Editors : editor'[o].pc = "insert" => editor'[o].updated.useful
    BY <1>4, <1>5 DEF TicketInv, ChunkFollows
  <2> SUFFICES ASSUME ~doubted'
               PROVE  /\ \A o \in Editors : editor'[o].pc \notin {"find", "delete", "insert"}
                      /\ tchunk' = IF Indexed' THEN ticket'.text ELSE 0
    BY <2>1 DEF ChunkFollows
  <2>2. \A o \in Editors : editor[o].pc = "idle"
    BY <1>8 DEF Busy
  <2> QED BY <1>1, <1>4, <1>5, <2>2 DEF TicketInv, ChunkFollows, Indexed
<1> QED BY <1>6, <1>7, <1>9, <1>10, <1>11 DEF TicketInv

LEMMA UpdateTicketStep == ASSUME TicketInv, NEW e \in Editors, UpdateTicket(e) PROVE TicketInv'
<1>1. /\ editor[e].pc = "update" /\ tchunk' = tchunk /\ creator' = creator
      /\ extraction' = extraction /\ tboot' = tboot /\ abandoned' = abandoned
      /\ doubted' = (editor[e].crowded \/ (doubted /\ ticket.status # "done"))
  BY DEF UpdateTicket, Aside
<1>2. PICK rewrite \in BOOLEAN, useful \in BOOLEAN :
        /\ rewrite => texts < MaxTexts
        /\ texts' = IF rewrite THEN texts + 1 ELSE texts
        /\ ticket' = [ticket EXCEPT !.text = IF rewrite THEN texts' ELSE @,
                                    !.reviewed = TRUE, !.useful = useful]
        /\ editor' = [editor EXCEPT ![e] =
             IF ShouldSync(editor[e].existing, ticket')
             THEN [@ EXCEPT !.pc = "find", !.updated = ticket'] ELSE NoEdit]
  BY DEF UpdateTicket
<1>3. /\ ticket \in Row /\ texts \in 0..MaxTexts /\ MaxTexts \in Nat /\ doubted \in BOOLEAN
      /\ editor[e] \in EditRecord
  BY TextsNatural DEF TicketInv, TicketTyped
<1>4. texts' \in 0..MaxTexts
  BY <1>2, <1>3
<1>5. PICK t \in 0..MaxTexts : t = IF rewrite THEN texts' ELSE ticket.text
  BY <1>3, <1>4 DEF Row
<1>6. /\ ticket' \in Row /\ ticket'.reviewed = TRUE /\ ticket'.useful = useful
      /\ ticket'.status = ticket.status
  <2>1. ticket' = [ticket EXCEPT !.text = t, !.reviewed = TRUE, !.useful = useful]
    BY <1>2, <1>5
  <2> QED BY <1>3, <2>1 DEF Row
<1>7. PICK x \in {NoEdit, [editor[e] EXCEPT !.pc = "find", !.updated = ticket']} :
        /\ editor' = [editor EXCEPT ![e] = x]
        /\ IF ShouldSync(editor[e].existing, ticket')
           THEN x = [editor[e] EXCEPT !.pc = "find", !.updated = ticket'] ELSE x = NoEdit
  BY <1>2
<1>8. /\ x \in EditRecord
      /\ IF ShouldSync(editor[e].existing, ticket')
         THEN x.pc = "find" /\ x.updated = ticket' /\ x.crowded = editor[e].crowded
         ELSE x.pc = "idle"
  <2>1. CASE ShouldSync(editor[e].existing, ticket')
    <3>1. x = [editor[e] EXCEPT !.pc = "find", !.updated = ticket']
      BY <1>7, <2>1
    <3>2. x \in EditRecord /\ x.pc = "find" /\ x.updated = ticket' /\ x.crowded = editor[e].crowded
      BY <1>3, <1>6, <3>1 DEF EditRecord
    <3> QED BY <2>1, <3>2
  <2>2. CASE ~ShouldSync(editor[e].existing, ticket')
    BY <1>7, <2>2, IdleEdit
  <2> QED BY <2>1, <2>2
<1>9. /\ editor' \in [Editors -> EditRecord] /\ editor'[e] = x
      /\ \A o \in Editors \ {e} : editor'[o] = editor[o]
  BY <1>7, <1>8, EditGoesOn
<1>10. doubted' \in BOOLEAN
  BY <1>1, <1>3 DEF EditRecord
<1>11. TicketTyped'
  BY <1>1, <1>4, <1>6, <1>9, <1>10 DEF TicketInv, TicketTyped
<1>12. Extracting' /\ TicketCovered'
  BY <1>1, <1>6 DEF TicketInv, Extracting, TicketCovered, Settling
<1>13. \A o \in Editors \ {e} : Busy(o) => editor[e].crowded
  BY <1>1 DEF TicketInv, Uncrowded, Busy
<1>14. Uncrowded'
  <2>1. \A o \in Editors : Busy(o)' => Busy(o) /\ (o = e => editor'[o].crowded = editor[o].crowded)
    BY <1>1, <1>8, <1>9 DEF Busy
  <2>2. ASSUME NEW o \in Editors, Busy(o)', editor'[o].crowded PROVE doubted'
    BY <1>1, <1>13, <2>1, <2>2
  <2>3. ASSUME NEW o \in Editors, NEW p \in Editors, Busy(o)', Busy(p)', o # p PROVE editor'[o].crowded
    BY <1>9, <2>1, <2>3 DEF TicketInv, Uncrowded
  <2> QED BY <2>2, <2>3 DEF Uncrowded
<1>15. Unreviewed'
  <2>1. ASSUME NEW o \in Editors, editor'[o].pc = "update", ~editor'[o].crowded
        PROVE  FALSE
    <3>1. o # e /\ Busy(o) /\ Busy(e) /\ ~editor[o].crowded
      BY <1>1, <1>8, <1>9, <2>1 DEF Busy
    <3> QED BY <3>1 DEF TicketInv, Uncrowded
  <2> QED BY <1>6, <2>1 DEF Unreviewed
<1>16. ChunkFollows'
  <2>1. \A o \in Editors : editor'[o].pc = "insert" => editor'[o].updated.useful
    BY <1>8, <1>9 DEF TicketInv, ChunkFollows
  <2> SUFFICES ASSUME ~doubted'
               PROVE  /\ \A o \in Editors : editor'[o].pc \in {"find", "delete", "insert"}
                           => editor'[o].updated = ticket' /\ ticket'.status = "done"
                      /\ \/ tchunk' = IF Indexed' THEN ticket'.text ELSE 0
                         \/ \E o \in Editors : editor'[o].pc \in {"find", "delete", "insert"}
    BY <2>1 DEF ChunkFollows
  <2>2. ~editor[e].crowded /\ \A o \in Editors \ {e} : editor[o].pc = "idle"
    BY <1>1, <1>13 DEF Busy
  <2>3. CASE ShouldSync(editor[e].existing, ticket')
    BY <1>8, <1>9, <2>2, <2>3 DEF ShouldSync
  <2>4. CASE ~ShouldSync(editor[e].existing, ticket')
    <3>1. \A o \in Editors : editor'[o].pc = "idle"
      BY <1>8, <1>9, <2>2, <2>4
    <3>2. CASE ticket.status # "done"
      <4>1. ~doubted
        BY <1>1, <3>2
      <4> QED BY <1>1, <1>6, <2>2, <3>1, <3>2, <4>1 DEF TicketInv, ChunkFollows, Indexed
    <3>3. CASE ticket.status = "done"
      <4>1. ~useful /\ ~editor[e].existing.reviewed
        BY <1>6, <2>4, <3>3 DEF ShouldSync
      <4>2. ~ticket.reviewed
        BY <1>1, <2>2, <4>1 DEF TicketInv, Unreviewed
      <4>3. tchunk = 0
        BY <4>2 DEF TicketInv, Unreviewed
      <4> QED BY <1>1, <1>6, <3>1, <4>1, <4>3 DEF Indexed
    <3> QED BY <3>2, <3>3
  <2> QED BY <2>3, <2>4
<1> QED BY <1>11, <1>12, <1>14, <1>15, <1>16 DEF TicketInv

LEMMA TicketDiesStep == TicketInv /\ TicketDies => TicketInv'
<1> SUFFICES ASSUME TicketInv, TicketDies PROVE TicketInv'
  OBVIOUS
<1>1. /\ creator' = "idle" /\ tboot' = "on" /\ editor' = [e \in Editors |-> NoEdit]
      /\ doubted' = (doubted \/ \E e \in Editors : Busy(e))
      /\ ticket' = ticket /\ texts' = texts /\ tchunk' = tchunk /\ abandoned' = abandoned
  BY DEF TicketDies
<1>2. PICK j \in {"waiting", "failed", extraction.job} :
        /\ extraction' = [NoJob EXCEPT !.job = j]
        /\ extraction.job # "active" => j = extraction.job
  BY DEF TicketDies
<1>3. extraction' = [job |-> j, pc |-> "idle", late |-> FALSE]
  BY <1>2 DEF NoJob
<1>4. extraction' \in JobRecord /\ extraction'.pc = "idle"
  <2>1. extraction \in JobRecord
    BY DEF TicketInv, TicketTyped
  <2>2. j \in {"absent", "waiting", "active", "failed"}
    BY <2>1 DEF JobRecord
  <2> QED BY <1>3, <2>2 DEF JobRecord
<1>5. \A e \in Editors : editor'[e] \in EditRecord /\ editor'[e].pc = "idle"
  BY <1>1, IdleEdit
<1>6. doubted' \in BOOLEAN
  BY <1>1 DEF TicketInv, TicketTyped
<1>7. TicketTyped'
  BY <1>1, <1>4, <1>5, <1>6 DEF TicketInv, TicketTyped
<1>8. Extracting'
  <2>1. ticket.status = "none" => extraction' = NoJob
    BY <1>2, <1>3 DEF TicketInv, Extracting, NoJob
  <2> QED BY <1>1, <1>4, <2>1 DEF Extracting
<1>9. Uncrowded' /\ TicketCovered'
  BY <1>1, <1>5 DEF Uncrowded, Busy, TicketCovered
<1>10. Unreviewed'
  BY <1>1, <1>5 DEF TicketInv, Unreviewed
<1>11. ChunkFollows'
  BY <1>1, <1>5 DEF TicketInv, ChunkFollows, Indexed, Busy
<1> QED BY <1>7, <1>8, <1>9, <1>10, <1>11 DEF TicketInv

LEMMA TicketStays == TicketInv /\ UNCHANGED ticketVars => TicketInv'
<1> SUFFICES ASSUME TicketInv, UNCHANGED ticketVars PROVE TicketInv'
  OBVIOUS
<1>1. TicketTyped' /\ Extracting' /\ Uncrowded' /\ Unreviewed'
  BY DEF ticketVars, TicketInv, TicketTyped, Extracting, Uncrowded, Unreviewed, Busy
<1>2. ChunkFollows' /\ TicketCovered'
  BY DEF ticketVars, TicketInv, ChunkFollows, TicketCovered, Indexed, Settling
<1> QED BY <1>1, <1>2 DEF TicketInv

LEMMA TicketKeeps == TicketInv /\ Ticket => TicketInv'
BY CreateStep, MarkTicketStep, AddExtractionStep, RefuseTicketStep, StartExtractionStep,
   WriteExtractionStep, ExtractionFailsStep, ExtractionThrowsStep, ExtractionTimeoutStep,
   ReconcileTicketStep, ReconcileTicketFailsStep, OpenTicketStep, UpdateTicketStep, EditRefusedStep,
   FindChunkStep, DeleteChunkStep, InsertChunkStep, SyncFailsStep, AnnounceTicketStep, Zenon DEF Ticket

LEMMA TicketOfInv == TicketInv => TicketIsIndexed /\ TicketSettled
<1> SUFFICES ASSUME TicketInv, TicketAtRest
             PROVE  /\ ~doubted => tchunk = IF Indexed THEN ticket.text ELSE 0
                    /\ Settling => extraction.job = "failed" \/ abandoned
  BY DEF TicketIsIndexed, TicketSettled
<1>1. ~doubted => tchunk = IF Indexed THEN ticket.text ELSE 0
  BY DEF TicketInv, ChunkFollows, TicketAtRest, Busy
<1>2. Settling => extraction.job = "failed" \/ abandoned
  BY DEF TicketInv, TicketTyped, TicketCovered, TicketAtRest, JobRecord
<1> QED BY <1>1, <1>2

-----------------------------------------------------------------------------
(* The announcements: who changes the index, and who announces it *)

\* What a step of those who feed the index does to the cache and its announcements.
Alike == reader' = reader /\ exact' = exact /\ semantic' = semantic /\ authors' = authors
Silent == /\ version' = version /\ floor' = floor /\ unannounced' = unannounced /\ epoch' = epoch
          /\ Announcer => Announcer'
Changes == /\ version' = version /\ floor' = floor /\ unannounced' = unannounced
           /\ epoch' \in {epoch, epoch + 1} /\ Announcer'
GivesUp == /\ version' = version /\ floor' = floor /\ epoch' = epoch
           /\ unannounced' = (unannounced \/ epoch > floor)
Announces == epoch' = epoch /\ BumpVersion
Feeds == Alike /\ (Silent \/ Changes \/ GivesUp \/ Announces)

\* An announcement that is given up is remembered.
LEMMA Withheld ==
  ASSUME CacheTyped, unannounced' = (unannounced \/ epoch > floor), floor' = floor, epoch' = epoch
  PROVE  unannounced' \in BOOLEAN /\ (floor' = epoch' \/ unannounced')
<1>1. epoch > floor \/ floor = epoch
  BY DEF CacheTyped
<1>2. unannounced \in BOOLEAN
  BY DEF CacheTyped
<1>3. unannounced' \in BOOLEAN
  BY <1>2, Zenon
<1>4. epoch > floor => unannounced'
  BY <1>2, Zenon
<1> QED BY <1>1, <1>3, <1>4

LEMMA FeedKeeps == CacheInv /\ Owed /\ Feeds => CacheInv' /\ Owed'
<1> SUFFICES ASSUME CacheInv, Owed, Feeds PROVE CacheInv' /\ Owed'
  OBVIOUS
<1>1. /\ version \in Nat /\ epoch \in Nat /\ floor \in Nat /\ floor <= epoch /\ authors \in Nat
      /\ unannounced \in BOOLEAN
  BY DEF CacheInv, CacheTyped
<1>2. reader' = reader /\ exact' = exact /\ semantic' = semantic /\ authors' = authors
  BY DEF Feeds, Alike
<1>3. CASE Silent
  <2>1. CacheInv'
    BY <1>1, <1>2, <1>3, CacheElsewhere DEF Silent
  <2>2. Owed'
    BY <1>2, <1>3 DEF Silent, Owed
  <2> QED BY <2>1, <2>2
<1>4. CASE Changes
  <2>1. epoch' \in Nat /\ epoch <= epoch'
    BY <1>1, <1>4 DEF Changes
  <2>2. CacheInv'
    BY <1>1, <1>2, <1>4, <2>1, CacheElsewhere DEF Changes
  <2>3. Owed'
    BY <1>4 DEF Changes, Owed
  <2> QED BY <2>2, <2>3
<1>5. CASE GivesUp
  <2>1. unannounced' = (unannounced \/ epoch > floor) /\ floor' = floor /\ epoch' = epoch
    BY <1>5 DEF GivesUp
  <2>2. unannounced' \in BOOLEAN /\ (floor' = epoch' \/ unannounced')
    BY <2>1, Withheld DEF CacheInv
  <2>3. CacheInv'
    BY <1>1, <1>2, <1>5, <2>2, CacheElsewhere DEF GivesUp
  <2>4. Owed'
    BY <2>2 DEF Owed
  <2> QED BY <2>3, <2>4
<1>6. CASE Announces
  <2>1. epoch' = epoch /\ BumpVersion
    BY <1>6 DEF Announces
  <2>2. /\ unannounced' \in BOOLEAN /\ (floor' = epoch \/ unannounced')
        /\ \/ version' = version /\ floor' = floor
           \/ version' = version + 1 /\ floor' = epoch
    BY <2>1, Bumped
  <2>3. epoch' \in Nat /\ epoch <= epoch' /\ authors' \in Nat
    BY <1>1, <1>2, <2>1
  <2>4. CacheInv'
    BY <1>2, <2>2, <2>3, CacheElsewhere
  <2>5. Owed'
    BY <2>1, <2>2 DEF Owed
  <2> QED BY <2>4, <2>5
<1> QED BY <1>3, <1>4, <1>5, <1>6 DEF Feeds

LEMMA PublisherFeeds ==
  ASSUME editor' = editor,
         \/ Publish \/ MarkQueued \/ AddJob \/ MarkRefused \/ Remove \/ AnnounceRemoval
         \/ Reconcile \/ ReconcileFails
  PROVE  Feeds
<1>1. CASE Publish
  BY <1>1 DEF Publish, cacheVars, Feeds, Alike, Silent, Announcer
<1>6. CASE MarkQueued \/ MarkRefused \/ ReconcileFails
  BY <1>6 DEF MarkQueued, MarkRefused, ReconcileFails, questions, announced, Feeds, Alike, Silent, Announcer
<1>2. CASE AddJob
  BY <1>2 DEF AddJob, questions, announced, Feeds, Alike, Silent, Announcer
<1>3. CASE Reconcile
  BY <1>3 DEF Reconcile, questions, announced, Feeds, Alike, Silent, Announcer
<1>4. CASE Remove
  BY <1>4 DEF Remove, Touch, questions, announced, Feeds, Alike, Changes, Announcer
<1>5. CASE AnnounceRemoval
  BY <1>5 DEF AnnounceRemoval, questions, Feeds, Alike, Announces
<1> QED BY <1>1, <1>2, <1>3, <1>4, <1>5, <1>6

\* A handler that has not changed the index, or has announced its change.
LEMMA QuietHandler ==
  ASSUME DocInv, NEW w \in Workers, NEW x, worker' = [worker EXCEPT ![w] = x],
         editor' = editor, remover' = remover, Alike,
         version' = version, floor' = floor, unannounced' = unannounced, epoch' = epoch,
         worker[w].pc \in {"insert", "done", "bump"} => x.pc \in {"insert", "done", "bump"}
  PROVE  Feeds
<1>1. worker'[w] = x /\ \A v \in Workers \ {w} : worker'[v] = worker[v]
  BY DEF DocInv, DocTyped
<1> QED BY <1>1 DEF Feeds, Silent, Announcer

LEMMA HandlerFeeds ==
  ASSUME DocInv, NEW w \in Workers, editor' = editor,
         \/ Take(w) \/ Begin(w) \/ LoadRow(w) \/ ReadChunks(w) \/ DeleteChunks(w)
         \/ InsertChunks(w) \/ Finish(w) \/ AnnounceChunks(w) \/ IngestFails(w) \/ Catch(w)
         \/ End(w) \/ Throw(w) \/ Timeout(w)
  PROVE  Feeds
<1>1. CASE Take(w)
  <2> PICK x : x = [worker[w] EXCEPT !.pc = "begin"]
    OBVIOUS
  <2>1. /\ worker[w].pc = "idle" /\ worker' = [worker EXCEPT ![w] = x] /\ remover' = remover
        /\ version' = version /\ floor' = floor /\ unannounced' = unannounced /\ epoch' = epoch /\ Alike
    BY <1>1 DEF Take, Reached, Go, Elsewhere, questions, announced, Alike
  <2> QED BY <2>1, QuietHandler
<1>2. CASE Begin(w)
  <2> PICK x : x = [worker[w] EXCEPT !.pc = "load"]
    OBVIOUS
  <2>1. /\ worker[w].pc = "begin" /\ worker' = [worker EXCEPT ![w] = x] /\ remover' = remover
        /\ version' = version /\ floor' = floor /\ unannounced' = unannounced /\ epoch' = epoch /\ Alike
    BY <1>2 DEF Begin, Reached, Go, Elsewhere, questions, announced, Alike
  <2> QED BY <2>1, QuietHandler
<1>3. CASE LoadRow(w)
  <2>1. PICK x \in {NoWork, [worker[w] EXCEPT !.pc = "index", !.content = content]} :
          worker' = [worker EXCEPT ![w] = x]
    BY <1>3 DEF LoadRow, Ends
  <2>2. /\ worker[w].pc = "load" /\ remover' = remover
        /\ version' = version /\ floor' = floor /\ unannounced' = unannounced /\ epoch' = epoch /\ Alike
    BY <1>3 DEF LoadRow, Reached, Elsewhere, questions, announced, Alike
  <2> QED BY <2>1, <2>2, QuietHandler
<1>4. CASE ReadChunks(w)
  <2> PICK x : x = [worker[w] EXCEPT !.pc = "delete", !.found = chunks]
    OBVIOUS
  <2>1. /\ worker[w].pc = "index" /\ worker' = [worker EXCEPT ![w] = x] /\ remover' = remover
        /\ version' = version /\ floor' = floor /\ unannounced' = unannounced /\ epoch' = epoch /\ Alike
    BY <1>4 DEF ReadChunks, Reached, Elsewhere, questions, announced, Alike
  <2> QED BY <2>1, QuietHandler
<1>5. CASE DeleteChunks(w)
  <2>1. /\ worker' = [worker EXCEPT ![w].pc = "insert"] /\ Alike
        /\ version' = version /\ floor' = floor /\ unannounced' = unannounced
        /\ epoch' \in {epoch, epoch + 1}
    BY <1>5 DEF DeleteChunks, Go, Touch, Elsewhere, questions, announced, Alike
  <2>2. worker'[w].pc = "insert"
    BY <2>1 DEF DocInv, DocTyped, WorkRecord
  <2> QED BY <2>1, <2>2 DEF Feeds, Changes, Announcer
<1>6. CASE InsertChunks(w)
  <2>1. /\ Alike /\ version' = version /\ floor' = floor
        /\ \/ epoch' = epoch /\ unannounced' = (unannounced \/ epoch > floor)
           \/ /\ worker' = [worker EXCEPT ![w].pc = "done"]
              /\ epoch' \in {epoch, epoch + 1} /\ unannounced' = unannounced
    BY <1>6 DEF InsertChunks, Go, Touch, Elsewhere, questions, Alike
  <2>2. CASE epoch' = epoch /\ unannounced' = (unannounced \/ epoch > floor)
    BY <2>1, <2>2 DEF Feeds, GivesUp
  <2>3. CASE /\ worker' = [worker EXCEPT ![w].pc = "done"]
             /\ epoch' \in {epoch, epoch + 1} /\ unannounced' = unannounced
    <3>1. worker'[w].pc = "done"
      BY <2>3 DEF DocInv, DocTyped, WorkRecord
    <3> QED BY <2>1, <2>3, <3>1 DEF Feeds, Changes, Announcer
  <2> QED BY <2>1, <2>2, <2>3
<1>7. CASE Finish(w)
  <2> PICK x : x = [worker[w] EXCEPT !.pc = "bump"]
    OBVIOUS
  <2>1. /\ worker' = [worker EXCEPT ![w] = x] /\ remover' = remover
        /\ version' = version /\ floor' = floor /\ unannounced' = unannounced /\ epoch' = epoch /\ Alike
    BY <1>7 DEF Finish, Go, Elsewhere, questions, announced, Alike
  <2>2. x.pc = "bump"
    BY DEF DocInv, DocTyped, WorkRecord
  <2> QED BY <2>1, <2>2, QuietHandler
<1>8. CASE AnnounceChunks(w)
  BY <1>8 DEF AnnounceChunks, Elsewhere, questions, Feeds, Alike, Announces
<1>9. CASE IngestFails(w)
  BY <1>9 DEF IngestFails, Elsewhere, questions, Feeds, Alike, GivesUp
<1>10. CASE Catch(w)
  <2> PICK x : x = [worker[w] EXCEPT !.pc = "end"]
    OBVIOUS
  <2>1. /\ worker[w].pc = "catch" /\ worker' = [worker EXCEPT ![w] = x] /\ remover' = remover
        /\ version' = version /\ floor' = floor /\ unannounced' = unannounced /\ epoch' = epoch /\ Alike
    BY <1>10 DEF Catch, Reached, Go, Elsewhere, questions, announced, Alike
  <2> QED BY <2>1, QuietHandler
<1>11. CASE End(w)
  <2>1. /\ worker[w].pc = "end" /\ worker' = [worker EXCEPT ![w] = NoWork] /\ remover' = remover
        /\ version' = version /\ floor' = floor /\ unannounced' = unannounced /\ epoch' = epoch /\ Alike
    BY <1>11 DEF End, Reached, Ends, Elsewhere, questions, announced, Alike
  <2> QED BY <2>1, QuietHandler
<1>12. CASE Throw(w)
  <2>1. /\ worker[w].pc \in {"begin", "load", "catch"} /\ worker' = [worker EXCEPT ![w] = NoWork]
        /\ remover' = remover
        /\ version' = version /\ floor' = floor /\ unannounced' = unannounced /\ epoch' = epoch /\ Alike
    BY <1>12 DEF Throw, Ends, questions, announced, Alike
  <2> QED BY <2>1, QuietHandler
<1>13. CASE Timeout(w)
  <2> PICK x : x = [worker[w] EXCEPT !.late = TRUE]
    OBVIOUS
  <2>1. /\ worker' = [worker EXCEPT ![w] = x] /\ remover' = remover
        /\ version' = version /\ floor' = floor /\ unannounced' = unannounced /\ epoch' = epoch /\ Alike
    BY <1>13 DEF Timeout, Elsewhere, questions, announced, Alike
  <2>2. x.pc = worker[w].pc
    BY DEF DocInv, DocTyped, WorkRecord
  <2> QED BY <2>1, <2>2, QuietHandler
<1> QED BY <1>1, <1>2, <1>3, <1>4, <1>5, <1>6, <1>7, <1>8, <1>9, <1>10, <1>11, <1>12, <1>13, Zenon

LEMMA DocumentFeeds == DocInv /\ Document /\ editor' = editor => Feeds
BY PublisherFeeds, HandlerFeeds, Zenon DEF Document

LEMMA RowFeeds ==
  ASSUME remover' = remover, worker' = worker,
         \/ Create \/ MarkTicket \/ AddExtraction \/ RefuseTicket
         \/ StartExtraction \/ WriteExtraction \/ ExtractionFails \/ ExtractionThrows
         \/ ExtractionTimeout \/ ReconcileTicket \/ ReconcileTicketFails
  PROVE  Feeds
<1>1. /\ editor' = editor /\ Alike
      /\ version' = version /\ floor' = floor /\ unannounced' = unannounced /\ epoch' = epoch
  <2>1. CASE Create
    BY <2>1 DEF Create, cacheVars, Alike
  <2>2. CASE AddExtraction \/ ReconcileTicket \/ ReconcileTicketFails
    BY <2>2 DEF AddExtraction, ReconcileTicket, ReconcileTicketFails, questions, announced, Alike
  <2>3. CASE StartExtraction \/ WriteExtraction \/ ExtractionFails \/ ExtractionThrows \/ ExtractionTimeout
    BY <2>3 DEF StartExtraction, WriteExtraction, ExtractionFails, ExtractionThrows, ExtractionTimeout,
                Quietly, questions, announced, Alike
  <2>4. CASE MarkTicket \/ RefuseTicket
    BY <2>4 DEF MarkTicket, RefuseTicket, QueueUpdate, questions, announced, Alike
  <2> QED BY <2>1, <2>2, <2>3, <2>4
<1> QED BY <1>1 DEF Feeds, Silent, Announcer

LEMMA EditFeeds ==
  ASSUME TicketInv, remover' = remover, worker' = worker, NEW e \in Editors,
         \/ OpenTicket(e) \/ UpdateTicket(e) \/ EditRefused(e) \/ FindChunk(e) \/ DeleteChunk(e)
         \/ InsertChunk(e) \/ SyncFails(e) \/ AnnounceTicket(e)
  PROVE  Feeds
<1>1. CASE OpenTicket(e)
  <2>1. /\ Alike
        /\ version' = version /\ floor' = floor /\ unannounced' = unannounced /\ epoch' = epoch
    BY <1>1 DEF OpenTicket, questions, announced, Alike
  <2>2. \A o \in Editors : editor[o].pc \in {"insert", "bump"} => editor'[o].pc = editor[o].pc
    <3> SUFFICES ASSUME NEW o \in Editors, editor[o].pc \in {"insert", "bump"}
                 PROVE  editor'[o].pc = editor[o].pc
      OBVIOUS
    <3>1. o # e
      BY <1>1 DEF OpenTicket, Busy
    <3>2. PICK b : editor'[o] = [editor[o] EXCEPT !.crowded = b]
      BY <1>1, <3>1 DEF OpenTicket
    <3> QED BY <3>2 DEF TicketInv, TicketTyped, EditRecord
  <2> QED BY <2>1, <2>2 DEF Feeds, Silent, Announcer
<1>2. CASE UpdateTicket(e) \/ EditRefused(e) \/ FindChunk(e)
  <2>1. /\ Alike /\ editor[e].pc \in {"update", "find"}
        /\ version' = version /\ floor' = floor /\ unannounced' = unannounced /\ epoch' = epoch
    BY <1>2 DEF UpdateTicket, EditRefused, FindChunk, Aside, questions, announced, Alike
  <2>2. PICK x : editor' = [editor EXCEPT ![e] = x]
    BY <1>2 DEF UpdateTicket, EditRefused, FindChunk
  <2>3. \A o \in Editors \ {e} : editor'[o] = editor[o]
    BY <2>2 DEF TicketInv, TicketTyped
  <2> QED BY <2>1, <2>3 DEF Feeds, Silent, Announcer
<1>3. CASE DeleteChunk(e)
  <2>1. /\ Alike /\ version' = version /\ floor' = floor /\ unannounced' = unannounced
        /\ epoch' \in {epoch, epoch + 1}
    BY <1>3 DEF DeleteChunk, TouchTicket, Aside, questions, announced, Alike
  <2>2. PICK p \in {"insert", "bump"} : editor' = [editor EXCEPT ![e].pc = p]
    BY <1>3 DEF DeleteChunk, Step
  <2>3. editor'[e].pc = p
    BY <2>2 DEF TicketInv, TicketTyped, EditRecord
  <2> QED BY <2>1, <2>3 DEF Feeds, Changes, Announcer
<1>4. CASE InsertChunk(e)
  <2>1. /\ Alike /\ version' = version /\ floor' = floor
        /\ \/ epoch' = epoch /\ unannounced' = (unannounced \/ epoch > floor)
           \/ /\ editor' = [editor EXCEPT ![e].pc = "bump"]
              /\ epoch' \in {epoch, epoch + 1} /\ unannounced' = unannounced
    BY <1>4 DEF InsertChunk, Step, GiveUp, TouchTicket, Aside, questions, announced, Alike
  <2>2. CASE epoch' = epoch /\ unannounced' = (unannounced \/ epoch > floor)
    BY <2>1, <2>2 DEF Feeds, GivesUp
  <2>3. CASE /\ editor' = [editor EXCEPT ![e].pc = "bump"]
             /\ epoch' \in {epoch, epoch + 1} /\ unannounced' = unannounced
    <3>1. editor'[e].pc = "bump"
      BY <2>3 DEF TicketInv, TicketTyped, EditRecord
    <3> QED BY <2>1, <2>3, <3>1 DEF Feeds, Changes, Announcer
  <2> QED BY <2>1, <2>2, <2>3
<1>5. CASE SyncFails(e)
  BY <1>5 DEF SyncFails, GiveUp, Aside, questions, Feeds, Alike, GivesUp
<1>6. CASE AnnounceTicket(e)
  BY <1>6 DEF AnnounceTicket, Aside, questions, Feeds, Alike, Announces
<1> QED BY <1>1, <1>2, <1>3, <1>4, <1>5, <1>6

LEMMA TicketFeeds == TicketInv /\ Ticket /\ remover' = remover /\ worker' = worker => Feeds
BY RowFeeds, EditFeeds, Zenon DEF Ticket

LEMMA CrawlFeeds ==
  ASSUME CrawlStep, remover' = remover, worker' = worker, editor' = editor
  PROVE  Feeds
<1>1. UNCHANGED <<questions, authors, announced, epoch>>
  BY DEF CrawlStep, FindInFlight, LookAtJob, Replace, InsertCrawl, NameJob, AddCrawl, CrawlRefused,
         TakeCrawl, StartCrawl, EndCrawl, LeaveCrawl, CrawlThrows, CrawlTimeout, HearFailure, CheckRun,
         Steady, Unheard, Alone
<1> QED BY <1>1 DEF questions, announced, Feeds, Alike, Silent, Announcer

LEMMA QuestionOwes ==
  ASSUME NEW r \in Readers, Question(r)
  PROVE  authors' = authors /\ epoch' = epoch /\ floor' = floor /\ unannounced' = unannounced
BY DEF Question, Ask, GetExact, SemanticVersion, GetSemantic, CopyHit, FileVersion, SetExact,
       MissVersion, Retrieve, Complete, SaveSemantic, Leave, Frame

-----------------------------------------------------------------------------
(* All together *)

LEMMA InvStart == Init => Inv
<1> SUFFICES ASSUME Init PROVE Inv
  OBVIOUS
<1>1. CacheInv /\ DocInv /\ TicketInv /\ CrawlInv
  BY CacheStart, DocStart, TicketStart, CrawlStart DEF Init
<1>2. Owed
  BY DEF Init, CacheInit, Owed
<1>3. FirstContent
  BY IdleWork DEF Init, DocInit, FirstContent
<1> QED BY <1>1, <1>2, <1>3 DEF Inv

LEMMA DocLeft == DocInv /\ UNCHANGED docVars => DocInv'
BY DocStays DEF docVars

LEMMA CrawlLeft == CrawlInv /\ UNCHANGED crawlVars => CrawlInv'
BY CrawlStays DEF crawlVars

\* An author left abstract changes the index, or announces a change.
LEMMA AuthorStep ==
  ASSUME CacheInv, Owed, Change \/ Announce, remover' = remover, worker' = worker, editor' = editor
  PROVE  CacheInv' /\ Owed'
<1>1. epoch \in Nat /\ authors \in Nat /\ version \in Nat /\ unannounced \in BOOLEAN
  BY DEF CacheInv, CacheTyped
<1>2. CASE Change
  <2>1. /\ epoch' = epoch + 1 /\ authors' = authors + 1 /\ reader' = reader /\ exact' = exact
        /\ semantic' = semantic /\ version' = version /\ floor' = floor /\ unannounced' = unannounced
    BY <1>2 DEF Change, questions, announced
  <2>2. epoch' \in Nat /\ epoch <= epoch' /\ authors' \in Nat /\ authors' > 0 /\ unannounced' \in BOOLEAN
    BY <1>1, <2>1
  <2>3. CacheInv'
    BY <2>1, <2>2, CacheElsewhere
  <2>4. Owed'
    BY <2>2 DEF Owed
  <2> QED BY <2>3, <2>4
<1>3. CASE Announce
  <2>1. /\ authors > 0 /\ authors' = authors - 1 /\ BumpVersion /\ reader' = reader /\ exact' = exact
        /\ semantic' = semantic /\ epoch' = epoch
    BY <1>3 DEF Announce, questions
  <2>2. epoch' \in Nat /\ epoch <= epoch' /\ authors' \in Nat
    BY <1>1, <2>1
  <2>3. /\ unannounced' \in BOOLEAN /\ (floor' = epoch \/ unannounced')
        /\ \/ version' = version /\ floor' = floor
           \/ version' = version + 1 /\ floor' = epoch
    BY <2>1, Bumped
  <2>4. CacheInv'
    BY <2>1, <2>2, <2>3, CacheElsewhere
  <2>5. Owed'
    BY <2>1, <2>3 DEF Owed
  <2> QED BY <2>4, <2>5
<1> QED BY <1>2, <1>3

LEMMA RestartStep == Inv /\ Restart => Inv'
<1> SUFFICES ASSUME Inv, Restart PROVE Inv'
  OBVIOUS
<1>1. /\ reader' = [r \in Readers |-> Waiting] /\ authors' = 0
      /\ unannounced' = (unannounced \/ epoch > floor)
      /\ version' = version /\ exact' = exact /\ semantic' = semantic /\ epoch' = epoch /\ floor' = floor
  BY DEF Restart
<1>2. /\ DocDies \/ UNCHANGED docVars
      /\ TicketDies \/ UNCHANGED ticketVars
      /\ CrawlDies \/ UNCHANGED crawlVars
  BY DEF Restart
<1>3. unannounced' \in BOOLEAN /\ (floor' = epoch' \/ unannounced')
  BY <1>1, Withheld DEF Inv, CacheInv
<1>4. CacheInv'
  BY <1>1, <1>3, CacheRestart DEF Inv
<1>5. Owed'
  BY <1>3 DEF Owed
<1>6. DocInv' /\ TicketInv' /\ CrawlInv'
  BY <1>2, DocDiesStep, DocLeft, TicketDiesStep, TicketStays, CrawlDiesStep, CrawlLeft DEF Inv
<1>7. FirstContent'
  BY <1>2, FirstKeeps DEF Inv, DocInv
<1> QED BY <1>4, <1>5, <1>6, <1>7 DEF Inv

\* The invariant is inductive: each part by its own steps, and every other part leaves
\* it alone but for what it announces to the cache.
LEMMA InvStep == Inv /\ [Next]_vars => Inv'
<1> SUFFICES ASSUME Inv, [Next]_vars PROVE Inv'
  OBVIOUS
<1>1. CacheInv /\ Owed /\ DocInv /\ FirstContent /\ TicketInv /\ CrawlInv
  BY DEF Inv
<1>0. Document \/ UNCHANGED docVars => FirstContent'
  BY <1>1, FirstKeeps DEF DocInv
<1>2. CASE Document /\ UNCHANGED <<ticketVars, crawlVars>>
  <2>1. Feeds
    BY <1>1, <1>2, DocumentFeeds DEF ticketVars
  <2>2. CacheInv' /\ Owed'
    BY <1>1, <2>1, FeedKeeps
  <2>3. DocInv' /\ TicketInv' /\ CrawlInv'
    BY <1>1, <1>2, DocumentKeeps, TicketStays, CrawlLeft
  <2> QED BY <1>0, <1>2, <2>2, <2>3 DEF Inv
<1>3. CASE Ticket /\ UNCHANGED <<docVars, crawlVars>>
  <2>1. Feeds
    BY <1>1, <1>3, TicketFeeds DEF docVars
  <2>2. CacheInv' /\ Owed'
    BY <1>1, <2>1, FeedKeeps
  <2>3. DocInv' /\ TicketInv' /\ CrawlInv'
    BY <1>1, <1>3, TicketKeeps, DocLeft, CrawlLeft
  <2> QED BY <1>0, <1>3, <2>2, <2>3 DEF Inv
<1>4. CASE CrawlStep /\ UNCHANGED <<docVars, ticketVars>>
  <2>1. Feeds
    BY <1>4, CrawlFeeds DEF docVars, ticketVars
  <2>2. CacheInv' /\ Owed'
    BY <1>1, <2>1, FeedKeeps
  <2>3. DocInv' /\ TicketInv' /\ CrawlInv'
    BY <1>1, <1>4, CrawlStepKeeps, DocLeft, TicketStays
  <2> QED BY <1>0, <1>4, <2>2, <2>3 DEF Inv
<1>5. CASE /\ Change \/ Announce \/ \E r \in Readers : Question(r)
           /\ UNCHANGED <<docVars, ticketVars, crawlVars>>
  <2>1. DocInv' /\ TicketInv' /\ CrawlInv'
    BY <1>1, <1>5, DocLeft, TicketStays, CrawlLeft
  <2>2. remover' = remover /\ worker' = worker /\ editor' = editor
    BY <1>5 DEF docVars, ticketVars
  <2>5. FirstContent'
    BY <1>0, <1>5
  <2>3. CASE Change \/ Announce
    BY <1>1, <2>1, <2>2, <2>3, <2>5, AuthorStep DEF Inv
  <2>4. ASSUME NEW r \in Readers, Question(r) PROVE Inv'
    <3>1. CacheInv'
      BY <1>1, <2>4, QuestionStep
    <3>2. Owed'
      BY <1>1, <2>2, <2>4, QuestionOwes DEF Owed, Announcer
    <3> QED BY <2>1, <2>5, <3>1, <3>2 DEF Inv
  <2> QED BY <1>5, <2>3, <2>4
<1>6. CASE Restart
  BY <1>6, RestartStep
<1>7. CASE UNCHANGED vars
  <2>1. DocInv' /\ TicketInv' /\ CrawlInv'
    BY <1>1, <1>7, DocLeft, TicketStays, CrawlLeft DEF vars
  <2>2. Feeds
    BY <1>7 DEF vars, cacheVars, docVars, ticketVars, Feeds, Alike, Silent, Announcer
  <2>3. FirstContent'
    BY <1>0, <1>7 DEF vars
  <2> QED BY <1>1, <2>1, <2>2, <2>3, FeedKeeps DEF Inv
<1> QED BY <1>2, <1>3, <1>4, <1>5, <1>6, <1>7 DEF Next

LEMMA AlwaysInv == Spec => []Inv
BY InvStart, InvStep, PTL DEF Spec

\* A question asked after a change was announced is never answered from before that
\* change (chat.service.ts and cache.service.ts), the excuses of AnswersAreCurrent apart.
THEOREM AnswersCurrent == Spec => []AnswersAreCurrent
<1>1. Inv => AnswersAreCurrent
  BY CacheIsCurrent DEF Inv
<1> QED BY <1>1, AlwaysInv, PTL

\* Once nothing is under way the index holds what documents and tickets say
\* (ingest.processor.ts, tickets.service.ts), and its changes have been announced.
THEOREM IndexIsTrue == Spec => []IndexFollows
<1>1. Inv => ChangesAnnounced
  BY DEF Inv, Owed, Announcer, ChangesAnnounced, AtRest, DocAtRest, TicketAtRest, Busy
<1>2. Inv => IndexFollows
  BY <1>1, DocOfInv, TicketOfInv DEF Inv, IndexFollows
<1> QED BY <1>2, AlwaysInv, PTL

\* Documents, tickets and crawls are not left unfinished once nothing is under way, but
\* for what DocumentSettled, TicketSettled and CrawlSettled name.
THEOREM NothingStuck == Spec => []SettledAtRest
<1>1. Inv => SettledAtRest
  BY DocOfInv, TicketOfInv, CrawlsOfInv DEF Inv, SettledAtRest
<1> QED BY <1>1, AlwaysInv, PTL

\* A site is crawled once at a time (scrape.service.ts), unless two requests overlapped
\* or a run that was given up came back.
THEOREM CrawledOnce == Spec => []OneCrawl
<1>1. Inv => OneCrawl
  BY CrawlsOfInv DEF Inv
<1> QED BY <1>1, AlwaysInv, PTL

\* The outcome of a crawl that is over is rewritten by nobody but its own handler
\* (scrape.service.ts: failRun, reconcileRuns).
THEOREM OutcomesKept == Spec => OutcomeKept
<1>1. Inv /\ [Next]_vars => [Outcomes]_crawls
  <2> SUFFICES ASSUME Inv, [Next]_vars PROVE Outcomes \/ crawls' = crawls
    OBVIOUS
  <2>1. CrawlStep \/ CrawlDies \/ crawls' = crawls
    BY DEF Next, Restart, vars, crawlVars
  <2> QED BY <2>1, CrawlStepOutcomes, CrawlDiesOutcomes DEF Inv
<1>2. Inv /\ [Next]_vars =>
        [\A n \in DOMAIN crawls :
           ~Live(crawls[n].status) /\ crawls'[n].status # crawls[n].status
             => crawls[n].pc # "idle" /\ crawls'[n].pc # crawls[n].pc]_crawls
  BY <1>1 DEF Outcomes
<1> QED BY <1>2, AlwaysInv, PTL DEF Spec, OutcomeKept
=============================================================================
