----------------------------- MODULE AnswerCache -----------------------------
(***************************************************************************)
(* Answers to one question, cached under a version of the workspace's      *)
(* knowledge (cache.service.ts), and the questions that read and fill the  *)
(* cache (chat.service.ts).  Whoever changes what retrieval finds announces*)
(* it by a new version; no answer filed under an older one is found again. *)
(*                                                                         *)
(* An answer is known by the state of the index it was computed from.      *)
(***************************************************************************)
EXTENDS Naturals, FiniteSets

CONSTANTS
  Readers,    \* questions in progress at once
  MaxAsks,    \* bound on questions
  MaxChanges, \* bound on the changes of the index whose author is left abstract
  MaxFaults   \* bound on failures, timeouts and deaths

ASSUME CacheBounds == {MaxAsks, MaxChanges, MaxFaults} \subseteq Nat

VARIABLES
  version,    \* the version in Redis, 0 while its key is absent
  exact,      \* answers in Redis, at most one under a version
  semantic,   \* rows of chat_cache
  reader,     \* what each question in progress has reached and holds
  asks, faults,
  authors,    \* changes made and not yet announced, by authors left abstract
  epoch,      \* history: how often the index has changed
  floor,      \* history: what it was when a new version was last announced
  unannounced \* history: a change whose author will not announce it

questions == <<exact, semantic, reader, asks>>
announced == <<version, floor, unannounced>>
cacheVars == <<version, exact, semantic, reader, asks, faults, authors, epoch, floor, unannounced>>

Entry == [version : Nat, read : Nat, excused : BOOLEAN]

Waiting == [pc |-> "idle", asked |-> 0, at |-> 0, read |-> 0, excused |-> FALSE,
            ver |-> 0, blind |-> FALSE, filed |-> 0, filedBlind |-> FALSE]

CacheTypeOK ==
  /\ {version, asks, faults, authors, epoch, floor} \subseteq Nat /\ unannounced \in BOOLEAN
  /\ exact \subseteq Entry /\ semantic \subseteq Entry
  /\ \A r \in Readers : reader[r].pc \in {"idle", "exact", "embed", "semantic", "copy", "miss",
       "retrieve", "answer", "storeCopy", "store", "save", "served"}

CacheInit ==
  /\ version = 0 /\ exact = {} /\ semantic = {}
  /\ reader = [r \in Readers |-> Waiting]
  /\ asks = 0 /\ faults = 0 /\ authors = 0
  /\ epoch = 1 /\ floor = 1 /\ unannounced = FALSE

Fault == faults < MaxFaults /\ faults' = faults + 1

-----------------------------------------------------------------------------
(* Announcements, made by those who change the index *)

\* incr, which counts an absent key as 0; a failure is swallowed.
BumpVersion ==
  \/ /\ version' = version + 1 /\ floor' = epoch /\ unannounced' = FALSE
     /\ UNCHANGED faults
  \/ Fault /\ unannounced' = TRUE /\ UNCHANGED <<version, floor>>

\* Some author changes the index, and announces it.
Change ==
  /\ epoch <= MaxChanges /\ epoch' = epoch + 1
  /\ authors' = authors + 1
  /\ UNCHANGED <<questions, announced, faults>>

Announce ==
  /\ authors > 0 /\ authors' = authors - 1
  /\ BumpVersion
  /\ UNCHANGED <<questions, epoch>>

-----------------------------------------------------------------------------
(* One question *)

\* getVersion(): the first one to find no key creates it, and an unreadable version
\* counts as 1.
GetVersion(r, from, to) ==
  /\ reader[r].pc = from
  /\ \/ /\ version' = IF version = 0 THEN 1 ELSE version
        /\ reader' = [reader EXCEPT ![r] = [to EXCEPT !.ver = version', !.blind = FALSE]]
        /\ UNCHANGED faults
     \/ /\ Fault
        /\ reader' = [reader EXCEPT ![r] = [to EXCEPT !.ver = 1, !.blind = TRUE]]
        /\ UNCHANGED version

Frame == UNCHANGED <<authors, epoch, floor, unannounced>>
Move(r, q) == reader' = [reader EXCEPT ![r] = q]

\* getExact()
Ask(r) ==
  /\ asks < MaxAsks /\ asks' = asks + 1
  /\ GetVersion(r, "idle", [Waiting EXCEPT !.pc = "exact", !.asked = floor])
  /\ UNCHANGED <<exact, semantic>> /\ Frame

\* The entry, unless it has expired.
GetExact(r) ==
  /\ reader[r].pc = "exact"
  /\ LET asked == [Waiting EXCEPT !.asked = reader[r].asked]
     IN  \/ \E e \in exact :
              /\ e.version = reader[r].ver
              /\ Move(r, [asked EXCEPT !.pc = "served", !.read = e.read,
                                       !.excused = e.excused \/ reader[r].blind])
         \/ Move(r, [asked EXCEPT !.pc = "embed"])
  /\ UNCHANGED <<version, exact, semantic, asks, faults>> /\ Frame

\* getSemantic()
SemanticVersion(r) ==
  /\ GetVersion(r, "embed", [reader[r] EXCEPT !.pc = "semantic", !.at = floor])
  /\ UNCHANGED <<exact, semantic, asks>> /\ Frame

\* A row near enough that has not expired, if there is one.
GetSemantic(r) ==
  /\ reader[r].pc = "semantic"
  /\ \/ \E e \in semantic :
          /\ e.version = reader[r].ver
          /\ Move(r, [reader[r] EXCEPT !.pc = "copy", !.read = e.read, !.ver = 0, !.blind = FALSE,
                                       !.excused = e.excused \/ reader[r].blind])
     \/ Move(r, [Waiting EXCEPT !.pc = "miss"])
  /\ UNCHANGED <<version, exact, semantic, asks, faults>> /\ Frame

\* setExact() reads the version it files the answer under, whatever was read before.
\* History: an announcement since the answer was found or computed excuses it.
FileVersion(r, from, to) ==
  /\ GetVersion(r, from, [reader[r] EXCEPT !.pc = to])
  /\ UNCHANGED <<exact, semantic, asks>> /\ Frame

SetExact(r, from, to) ==
  /\ reader[r].pc = from
  /\ LET q == reader[r]
         e == [version |-> q.ver, read |-> q.read,
               excused |-> q.excused \/ q.blind \/ q.at # floor]
     IN  exact' = {o \in exact : o.version # q.ver} \cup {e}
  /\ Move(r, [reader[r] EXCEPT !.pc = to, !.ver = 0, !.blind = FALSE, !.at = 0])
  /\ UNCHANGED <<version, semantic, asks, faults>> /\ Frame

\* A semantic hit is stored as an exact one before it is served.
CopyHit(r) == FileVersion(r, "copy", "storeCopy") \/ SetExact(r, "storeCopy", "served")

\* The version under which saveSemantic() will file the answer.
MissVersion(r) ==
  /\ GetVersion(r, "miss", [reader[r] EXCEPT !.pc = "retrieve"])
  /\ UNCHANGED <<exact, semantic, asks>> /\ Frame

Retrieve(r) ==
  /\ reader[r].pc = "retrieve"
  /\ Move(r, [Waiting EXCEPT !.pc = "answer", !.read = epoch, !.at = floor,
                             !.filed = reader[r].ver, !.filedBlind = reader[r].blind])
  /\ UNCHANGED <<version, exact, semantic, asks, faults>> /\ Frame

\* onComplete(), of an answer that is no fallback.
Complete(r) == FileVersion(r, "answer", "store") \/ SetExact(r, "store", "save")

\* Mutant of SavedRow: the row is filed under the version that is current by then.
SavedRowNow(q) == [version |-> version, read |-> q.read, excused |-> q.filedBlind]

SavedRow(q) == [version |-> q.filed, read |-> q.read, excused |-> q.filedBlind]

SaveSemantic(r) ==
  /\ reader[r].pc = "save"
  /\ semantic' = semantic \cup {SavedRow(reader[r])}
  /\ Move(r, Waiting)
  /\ UNCHANGED <<version, exact, asks, faults>> /\ Frame

\* The answer is served from the cache, or it is not kept: a fallback, or a stream
\* that broke.
Leave(r) ==
  /\ reader[r].pc \in {"served", "answer"}
  /\ Move(r, Waiting)
  /\ UNCHANGED <<version, exact, semantic, asks, faults>> /\ Frame

Question(r) ==
  \/ Ask(r) \/ GetExact(r) \/ SemanticVersion(r) \/ GetSemantic(r) \/ CopyHit(r)
  \/ MissVersion(r) \/ Retrieve(r) \/ Complete(r) \/ SaveSemantic(r) \/ Leave(r)

-----------------------------------------------------------------------------
\* A question asked after a change was announced is not answered from before that
\* change, unless the cached answer was being written while a version was announced
\* (setExact reads the version last), or filed or found without knowing the version.
AnswersAreCurrent == \A r \in Readers :
  reader[r].pc = "served" => reader[r].read >= reader[r].asked \/ reader[r].excused
=============================================================================
