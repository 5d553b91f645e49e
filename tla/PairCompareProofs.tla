------------------------- MODULE PairCompareProofs -------------------------
(***************************************************************************)
(* Proofs about PairCompare, for any numbers of invoices, receipts,        *)
(* workers and users, and any bounds: the freshness check is right but for *)
(* writes in flight, automation repeats no run, and every pair that can be *)
(* compared has been when nothing is running any more.                     *)
(***************************************************************************)
EXTENDS PairCompare, FiniteSetTheorems, TLAPS

-----------------------------------------------------------------------------
(* The inductive invariant *)

\* The documents whose lines a verdict on invoice i may rest on.
Sides(i) == {PO, i} \cup Receipts

\* Nothing is stamped later than now, and a job waits until after its version.
Timed ==
  /\ \A d \in Docs : doc[d].at <= clock /\ writer[d].stamp <= clock
  /\ \A d \in Docs : \A p \in writer[d].pairs : p.version <= clock
  /\ \A j \in queue : j.version <= clock /\ j.version < j.due
  /\ \A n \in DOMAIN runs : runs[n].startedAt <= clock

\* A document is unsettled while it is parsed, and an invoice's writer enqueues only
\* the pairs of that invoice.
Written ==
  /\ \A d \in Docs : writer[d].pc = "parsing" => doc[d].status = "unsettled"
  /\ \A d \in Invoices : \A p \in writer[d].pairs : p.inv = d

\* A handler at the engine has a run, still running, for its invoice; one that answers a
\* job began after the job's version, and inserted its run after it.
HandlerRouted(h) ==
  /\ handler[h].pc = "idle" => handler[h] = IdleHandler
  /\ handler[h].pc # "idle" => handler[h].inv \in Invoices
  /\ handler[h].pc = "engine" =>
       /\ handler[h].run \in DOMAIN runs
       /\ runs[handler[h].run].inv = handler[h].inv
       /\ runs[handler[h].run].status = "running"
  /\ \A i \in Invoices, v \in 0..MaxClock : handler[h].job = <<i, v>> =>
       /\ i = handler[h].inv /\ v < clock
       /\ handler[h].pc = "engine" => v < runs[handler[h].run].startedAt

\* No two handlers write one run.
RunsOwned == \A g, h \in Handlers :
  handler[g].pc = "engine" /\ handler[h].pc = "engine" /\ g # h
    => handler[g].run # handler[h].run

Routed == (\A h \in Handlers : HandlerRouted(h)) /\ RunsOwned

\* The documents a reader has read, and those a run should rest on.
Seen(h) == {PO, handler[h].inv} \cup (IF handler[h].pc = "insert" THEN DoneReceipts ELSE {})
RestsOn(n) == {PO, runs[n].inv} \cup DoneReceipts

\* What reader h has seen of d is current, or a write of d overlaps its reading; a write
\* of d that holds its stamp does.
ReaderFresh(h, d) == h \in Reading =>
  /\ d \in Seen(h) => handler[h].reads[d] = doc[d].lines \/ d \in handler[h].overlap
  /\ writer[d].pc = "stamped" => d \in handler[h].overlap

\* What run n has read of d is current, or d has been stamped since, or a write of d
\* overlapped the reading; a write of d that holds its stamp did, or was stamped since.
RunFresh(n, d) ==
  /\ d \in RestsOn(n) =>
       ReadCurrent(n, d) \/ d \in runs[n].overlap \/ doc[d].at >= runs[n].startedAt
  /\ writer[d].pc = "stamped" =>
       d \in runs[n].overlap \/ writer[d].stamp >= runs[n].startedAt

Fresh ==
  /\ \A h \in Handlers, d \in Docs : ReaderFresh(h, d)
  /\ \A n \in DOMAIN runs, d \in Docs : RunFresh(n, d)

\* Lines only grow, and nobody has read lines yet to be written.
Grown ==
  /\ \A h \in Handlers, d \in Docs : handler[h].reads[d] <= doc[d].lines
  /\ \A n \in DOMAIN runs, d \in Docs : runs[n].reads[d] <= doc[d].lines

\* An input of run m that is stamped in its millisecond or later has lines it has not read.
Passed(m) == runs[m].tied \/ \A d \in Sides(runs[m].inv) :
  doc[d].status = "done" => doc[d].at < runs[m].startedAt \/ runs[m].reads[d] < doc[d].lines

\* What handler h, at this point, has still to read, and what it has read.
StillReads(h, d) ==
  \/ handler[h].pc = "read" /\ d \in Sides(handler[h].inv)
  \/ handler[h].pc = "receipts" /\ d \in Receipts

HasRead(h, d) ==
  \/ handler[h].pc = "receipts" /\ d \notin Receipts
  \/ handler[h].pc \in {"insert", "engine"}

\* Handler h has read, or is about to read, lines that run m has not.
Outreads(h, m) == runs[m].tied \/ \E d \in Docs :
  \/ StillReads(h, d) /\ doc[d].status = "done" /\ runs[m].reads[d] < doc[d].lines
  \/ HasRead(h, d) /\ runs[m].reads[d] < handler[h].reads[d]

\* Run n has read lines that run m has not.
Outread(n, m) == runs[m].tied \/ \E d \in Docs : runs[m].reads[d] < runs[n].reads[d]

\* The order and invoice i are done.
SidesDone(i) == doc[PO].status = "done" /\ doc[i].status = "done"

\* Without faults: what is done stays done, so a reader finds what made its pair stale.
Steady ==
  /\ \A d \in Docs : writer[d].pc # "queued"
  /\ \A n \in DOMAIN runs : SidesDone(runs[n].inv)
  /\ \A h \in Handlers : handler[h].pc \in {"receipts", "insert", "engine"} =>
       SidesDone(handler[h].inv)
  /\ \A h \in Handlers : \A m \in handler[h].known : Outreads(h, m)
  /\ \A n \in DOMAIN runs : \A m \in runs[n].known : Outread(n, m)

Advancing ==
  /\ \A m \in DOMAIN runs : Passed(m)
  /\ \A h \in Handlers : handler[h].known \subseteq DOMAIN runs
  /\ \A n \in DOMAIN runs : runs[n].known \subseteq DOMAIN runs
  /\ faults = 0 => Steady

\* A pair that can be compared has been, or its job failed for good, or somebody will
\* still see to it: a writer that is to enqueue it, or a job as new as its documents.
Attended(i) ==
  \/ FailedJob(i)
  \/ Compared(i)
  \/ \E d \in Sides(i) : writer[d].pc \in {"queued", "enqueue"}
  \/ \E d \in Docs : writer[d].pc = "add" /\ Pair(i) \in writer[d].pairs
  \/ \E j \in queue : j.inv = i /\ j.version >= InputVersion(i)

Owed(i) == missed = {} /\ (\A r \in Receipts : doc[r].status # "failed") /\ Comparable(i)

AllAttended == \A i \in Invoices : Owed(i) => Attended(i)

\* The inductive invariant.
PairInv == TypeOK /\ Timed /\ Written /\ Routed /\ Fresh /\ Grown /\ Advancing /\ AllAttended

-----------------------------------------------------------------------------
(* The newest input of a pair *)

\* A nonempty set of numbers with a bound has a greatest.
LEMMA MaxOf ==
  ASSUME NEW S, S \subseteq Nat, S # {}, NEW c \in Nat, \A x \in S : x <= c
  PROVE  Max(S) \in S /\ \A x \in S : x <= Max(S)
  <1> DEFINE B == {b \in Nat : \A x \in S : x <= b}
  <1>1. B \subseteq Nat /\ B # {}
    OBVIOUS
  <1>2. PICK b \in B : \A a \in B : ~(<<a, b>> \in OpToRel(<, Nat))
    BY <1>1, NatLessThanWellFounded, WFMin, Zenon
  <1>3. \A a \in B : ~(a < b)
    BY <1>2 DEF OpToRel
  <1>4. b \in S
    <2>1. SUFFICES ASSUME b \notin S PROVE FALSE
      OBVIOUS
    <2>2. PICK x0 \in S : TRUE
      OBVIOUS
    <2>3. b \in Nat /\ \A x \in S : x <= b /\ x # b
      BY <2>1
    <2>4. b - 1 \in Nat /\ \A x \in S : x <= b - 1
      BY <2>2, <2>3
    <2>5. b - 1 \in B /\ b - 1 < b
      BY <2>3, <2>4
    <2> QED
      BY <1>3, <2>5
  <1>5. b \in S /\ \A x \in S : b >= x
    BY <1>4
  <1>6. Max(S) \in S /\ \A y \in S : Max(S) >= y
    BY <1>5, Zenon DEF Max
  <1> QED
    BY <1>6

\* A row of a document, field by field.
LEMMA DocFields ==
  ASSUME TypeOK, NEW d \in Docs
  PROVE  /\ doc[d] \in DocRow
         /\ doc[d].status \in {"absent", "unsettled", "done", "failed"}
         /\ doc[d].at \in 0..MaxClock /\ doc[d].at \in Nat
         /\ doc[d].lines \in Nat
         /\ doc[d].unconfirmed \in BOOLEAN
  <1>1. doc[d] \in DocRow
    BY DEF TypeOK
  <1> QED
    BY <1>1, BoundsNatural DEF DocRow

\* The version of a pair is the stamp of one of the documents that feed it, and the
\* newest of them.
LEMMA NewestInput ==
  ASSUME TypeOK, NEW i \in Invoices
  PROVE  /\ InputVersion(i) \in 0..MaxClock
         /\ InputVersion(i) \in Nat
         /\ \E d \in Feeding(i) : doc[d].at = InputVersion(i)
         /\ \A d \in Feeding(i) : doc[d].at <= InputVersion(i)
  <1> DEFINE S == {doc[d].at : d \in {PO, i} \cup DoneReceipts}
  <1>1. \A d \in {PO, i} \cup DoneReceipts : doc[d].at \in 0..MaxClock
    BY DocFields DEF Docs, DoneReceipts
  <1>2. S \subseteq Nat /\ S # {} /\ MaxClock \in Nat /\ \A x \in S : x <= MaxClock /\ x \in 0..MaxClock
    BY <1>1, BoundsNatural
  <1>3. Max(S) \in S /\ \A x \in S : x <= Max(S)
    BY <1>2, MaxOf, Zenon
  <1>4. InputVersion(i) = Max(S)
    BY DEF InputVersion
  <1> HIDE DEF S
  <1>5. InputVersion(i) \in S /\ \A x \in S : x <= InputVersion(i)
    BY <1>3, <1>4
  <1> QED
    BY <1>2, <1>5, BoundsNatural DEF S, Feeding

-----------------------------------------------------------------------------
(* Types *)

LEMMA WriterFields ==
  ASSUME TypeOK, NEW d \in Docs
  PROVE  /\ writer[d] \in WriterState
         /\ writer[d].pc \in {"idle", "queued", "parsing", "stamped", "enqueue", "add"}
         /\ writer[d].review \in BOOLEAN
         /\ writer[d].stamp \in 0..MaxClock /\ writer[d].stamp \in Nat
         /\ writer[d].stalls \in 0..StallLimit
         /\ writer[d].pairs \subseteq [inv : Invoices, version : 0..MaxClock]
  <1>1. writer[d] \in WriterState
    BY DEF TypeOK
  <1> QED
    BY <1>1, BoundsNatural DEF WriterState

LEMMA HandlerFields ==
  ASSUME TypeOK, NEW h \in Handlers
  PROVE  /\ handler[h] \in HandlerState
         /\ handler[h].pc \in {"idle", "read", "receipts", "insert", "engine"}
         /\ handler[h].job \in (Invoices \X (0..MaxClock)) \cup {NoJob}
         /\ handler[h].inv \in Invoices \cup {NoJob}
         /\ handler[h].reads \in [Docs -> Nat]
         /\ handler[h].overlap \subseteq Docs
         /\ handler[h].known \subseteq 1..MaxRuns
         /\ handler[h].run \in 0..MaxRuns
  <1>1. handler[h] \in HandlerState
    BY DEF TypeOK
  <1> QED
    BY <1>1 DEF HandlerState

LEMMA JobFields ==
  ASSUME TypeOK, NEW j \in queue
  PROVE  /\ j \in Job
         /\ j.inv \in Invoices
         /\ j.version \in 0..MaxClock /\ j.version \in Nat
         /\ j.state \in {"waiting", "active", "failed"}
         /\ j.due \in Nat
         /\ j.tries \in 0..Attempts - 1
         /\ j.stalls \in 0..StallLimit
  <1>1. j \in Job
    BY DEF TypeOK
  <1> QED
    BY <1>1, BoundsNatural DEF Job

LEMMA RunFields ==
  ASSUME TypeOK, NEW n \in DOMAIN runs
  PROVE  /\ n \in Nat /\ n >= 1 /\ n <= Len(runs)
         /\ n \in 1..MaxRuns
         /\ runs[n] \in Run
         /\ runs[n].inv \in Invoices
         /\ runs[n].known \subseteq 1..MaxRuns
         /\ runs[n].startedAt \in 0..MaxClock /\ runs[n].startedAt \in Nat
         /\ runs[n].status \in {"running", "succeeded", "failed"}
         /\ runs[n].reads \in [Docs -> Nat]
         /\ runs[n].overlap \subseteq Docs
         /\ runs[n].tied \in BOOLEAN
  <1>1. runs \in Seq(Run) /\ Len(runs) <= MaxRuns
    BY DEF TypeOK
  <1>2. /\ n \in Nat /\ n >= 1 /\ n <= Len(runs)
        /\ n \in 1..MaxRuns
        /\ runs[n] \in Run
    BY <1>1, BoundsNatural
  <1>3. /\ runs[n].inv \in Invoices
        /\ runs[n].known \subseteq 1..MaxRuns
        /\ runs[n].startedAt \in 0..MaxClock
        /\ runs[n].status \in {"running", "succeeded", "failed"}
        /\ runs[n].reads \in [Docs -> Nat]
        /\ runs[n].overlap \subseteq Docs
        /\ runs[n].tied \in BOOLEAN
    BY <1>2 DEF Run
  <1> QED
    BY <1>2, <1>3, BoundsNatural

-----------------------------------------------------------------------------
(* What the steps of a writer do *)

\* Only document d, or its writer, changes.
OnlyDoc(d) == \A e \in Docs \ {d} : doc'[e] = doc[e] /\ writer'[e] = writer[e]

LEMMA IdleWriterType == IdleWriter \in WriterState
  <1>1. FALSE \in BOOLEAN /\ 0 \in 0..MaxClock /\ 0 \in 0..StallLimit
    BY BoundsNatural DEF StallLimit
  <1> QED
    BY <1>1, Zenon DEF IdleWriter, WriterState

\* The row of one document, or the state of its writer, is replaced.
LEMMA OneReplaced ==
  ASSUME TypeOK, NEW d \in Docs, NEW r, NEW w
  PROVE  /\ r \in DocRow /\ doc' = [doc EXCEPT ![d] = r] =>
              doc' \in [Docs -> DocRow] /\ doc'[d] = r /\ \A e \in Docs \ {d} : doc'[e] = doc[e]
         /\ w \in WriterState /\ writer' = [writer EXCEPT ![d] = w] =>
              /\ writer' \in [Docs -> WriterState] /\ writer'[d] = w
              /\ \A e \in Docs \ {d} : writer'[e] = writer[e]
  BY DEF TypeOK

LEMMA StartParseDoes ==
  ASSUME TypeOK, NEW d \in Docs, StartParse(d)
  PROVE  /\ doc' \in [Docs -> DocRow] /\ writer' \in [Docs -> WriterState]
         /\ OnlyDoc(d)
         /\ doc'[d].status = "unsettled" /\ doc'[d].at = clock
         /\ doc'[d].lines = doc[d].lines /\ doc'[d].unconfirmed = doc[d].unconfirmed
         /\ writer'[d].pc = "parsing" /\ writer'[d].stamp = writer[d].stamp
         /\ writer'[d].pairs = writer[d].pairs
  BY DEF StartParse, TypeOK, DocRow, WriterState, OnlyDoc

LEMMA FailParseDoes ==
  ASSUME TypeOK, NEW d \in Docs, FailParse(d)
  PROVE  /\ doc' \in [Docs -> DocRow] /\ writer' \in [Docs -> WriterState]
         /\ OnlyDoc(d)
         /\ writer[d].pc = "parsing"
         /\ doc'[d].status = "failed" /\ doc'[d].at = clock
         /\ doc'[d].lines = doc[d].lines /\ doc'[d].unconfirmed = doc[d].unconfirmed
         /\ writer'[d] = IdleWriter
  <1> DEFINE r == [doc[d] EXCEPT !.status = "failed", !.at = clock]
  <1>1. /\ writer[d].pc = "parsing"
        /\ doc' = [doc EXCEPT ![d] = r]
        /\ writer' = [writer EXCEPT ![d] = IdleWriter]
    BY DEF FailParse, TypeOK
  <1>2. /\ r \in DocRow /\ r.status = "failed" /\ r.at = clock
        /\ r.lines = doc[d].lines /\ r.unconfirmed = doc[d].unconfirmed
    BY DocFields DEF TypeOK, DocRow
  <1> HIDE DEF r
  <1>3. /\ doc' \in [Docs -> DocRow] /\ doc'[d] = r /\ \A e \in Docs \ {d} : doc'[e] = doc[e]
        /\ writer' \in [Docs -> WriterState] /\ writer'[d] = IdleWriter
        /\ \A e \in Docs \ {d} : writer'[e] = writer[e]
    BY <1>1, <1>2, OneReplaced, IdleWriterType, Zenon
  <1> QED
    BY <1>1, <1>2, <1>3, Zenon DEF OnlyDoc

LEMMA StampDoes ==
  ASSUME TypeOK, NEW d \in Docs, StampParse(d) \/ StampReview(d)
  PROVE  /\ writer' \in [Docs -> WriterState]
         /\ clock' = clock /\ doc' = doc /\ queue' = queue /\ runs' = runs
         /\ missed' = missed /\ faults' = faults
         /\ OnlyDoc(d)
         /\ writer[d].pc \in {"idle", "parsing"}
         /\ writer'[d].pc = "stamped" /\ writer'[d].stamp = clock
         /\ writer'[d].pairs = writer[d].pairs
  <1>1. PICK v \in BOOLEAN : Stamp(d, v) /\ writer[d].pc \in {"idle", "parsing"}
    BY DEF StampParse, StampReview
  <1> DEFINE w == [writer[d] EXCEPT !.pc = "stamped", !.review = v, !.stamp = clock]
  <1>2. /\ clock' = clock /\ doc' = doc /\ queue' = queue /\ runs' = runs
        /\ missed' = missed /\ faults' = faults
        /\ writer' = [writer EXCEPT ![d] = w]
    BY <1>1 DEF Stamp, TypeOK
  <1>3. /\ w \in WriterState /\ w.pc = "stamped" /\ w.stamp = clock
        /\ w.pairs = writer[d].pairs
    BY WriterFields DEF TypeOK, WriterState
  <1> HIDE DEF w
  <1>4. /\ writer' \in [Docs -> WriterState] /\ writer'[d] = w
        /\ \A e \in Docs \ {d} : writer'[e] = writer[e]
    BY <1>2, <1>3, OneReplaced, Zenon
  <1> QED
    BY <1>1, <1>2, <1>3, <1>4, Zenon DEF OnlyDoc

LEMMA CommitLinesDoes ==
  ASSUME TypeOK, NEW d \in Docs, CommitLines(d)
  PROVE  /\ doc' \in [Docs -> DocRow] /\ writer' \in [Docs -> WriterState]
         /\ OnlyDoc(d)
         /\ writer[d].pc = "stamped"
         /\ doc'[d].status = "done" /\ doc'[d].at = writer[d].stamp
         /\ doc'[d].lines = doc[d].lines + 1
         /\ writer'[d].pc = "enqueue" /\ writer'[d].stamp = writer[d].stamp
         /\ writer'[d].pairs = writer[d].pairs
  <1> DEFINE u == doc[d].unconfirmed /\ ~writer[d].review
             r == [status |-> "done", at |-> writer[d].stamp, lines |-> doc[d].lines + 1,
                   unconfirmed |-> u]
             w == [writer[d] EXCEPT !.pc = "enqueue"]
  <1>1. u \in BOOLEAN
    BY DocFields, WriterFields, Zenon
  <1>2. doc \in [Docs -> DocRow]
    BY DEF TypeOK
  <1>3. /\ writer[d].pc = "stamped"
        /\ doc' = [doc EXCEPT ![d] = r]
        /\ writer' = [writer EXCEPT ![d] = w]
    BY <1>2, Zenon DEF CommitLines, TypeOK
  <1>4. w \in WriterState /\ w.pc = "enqueue" /\ w.stamp = writer[d].stamp
        /\ w.pairs = writer[d].pairs
    BY WriterFields DEF WriterState
  <1> HIDE DEF u
  <1>5. r \in DocRow /\ r.status = "done" /\ r.at = writer[d].stamp
        /\ r.lines = doc[d].lines + 1
    BY <1>1, WriterFields, DocFields DEF DocRow
  <1> HIDE DEF r, w
  <1>6. /\ doc' \in [Docs -> DocRow] /\ doc'[d] = r /\ \A e \in Docs \ {d} : doc'[e] = doc[e]
        /\ writer' \in [Docs -> WriterState] /\ writer'[d] = w
        /\ \A e \in Docs \ {d} : writer'[e] = writer[e]
    BY <1>3, <1>4, <1>5, OneReplaced, Zenon
  <1> QED
    BY <1>3, <1>4, <1>5, <1>6, Zenon DEF OnlyDoc

\* The pairs of a document are of invoices, as new as their documents; an invoice's are
\* its own.
LEMMA PairsForType ==
  ASSUME TypeOK, NEW d \in Docs
  PROVE  /\ PairsFor(d) \subseteq [inv : Invoices, version : 0..MaxClock]
         /\ \A p \in PairsFor(d) : p = Pair(p.inv) /\ p.version = InputVersion(p.inv)
         /\ d \in Invoices => \A p \in PairsFor(d) : p.inv = d
         /\ \A i \in Invoices : Ready(PO) /\ ~Deferred /\ Ready(i) /\ d \in Sides(i)
              => Pair(i) \in PairsFor(d)
  <1>1. \A i \in Invoices : /\ Pair(i) \in [inv : Invoices, version : 0..MaxClock]
                            /\ Pair(i).inv = i /\ Pair(i).version = InputVersion(i)
    BY NewestInput DEF Pair
  <1>2. \A p \in PairsFor(d) : \E i \in Invoices : p = Pair(i) /\ (d \in Invoices => i = d)
    BY DEF PairsFor
  <1>3. \A i \in Invoices : Ready(PO) /\ ~Deferred /\ Ready(i) /\ d \in Sides(i)
          => Pair(i) \in PairsFor(d)
    BY DocumentsDistinct DEF PairsFor, Sides
  <1> QED
    BY <1>1, <1>2, <1>3

LEMMA ResolvePairsDoes ==
  ASSUME TypeOK, NEW d \in Docs, ResolvePairs(d)
  PROVE  /\ writer' \in [Docs -> WriterState]
         /\ doc' = doc
         /\ OnlyDoc(d)
         /\ writer[d].pc = "enqueue"
         /\ writer'[d].pc = IF PairsFor(d) = {} THEN "idle" ELSE "add"
         /\ writer'[d].pairs = PairsFor(d)
         /\ writer'[d].stamp \in {0, writer[d].stamp}
  <1> DEFINE P == PairsFor(d)
  <1>1. P \subseteq [inv : Invoices, version : 0..MaxClock]
    BY PairsForType
  <1>2. /\ writer[d].pc = "enqueue"
        /\ doc' = doc
        /\ writer' = [writer EXCEPT ![d] = IF P = {} THEN IdleWriter
                                           ELSE [@ EXCEPT !.pc = "add", !.pairs = P]]
    BY DEF ResolvePairs
  <1> HIDE DEF P
  <1> QED
    <2>1. CASE P = {}
      BY <1>2, <2>1, BoundsNatural
         DEF TypeOK, WriterState, OnlyDoc, IdleWriter, StallLimit, P
    <2>2. CASE P # {}
      <3>1. /\ writer' \in [Docs -> WriterState]
            /\ OnlyDoc(d)
            /\ writer'[d].pc = "add"
            /\ writer'[d].pairs = P
            /\ writer'[d].stamp = writer[d].stamp
        BY <1>1, <1>2, <2>2, BoundsNatural DEF TypeOK, WriterState, OnlyDoc
      <3> QED
        BY <1>2, <2>2, <3>1 DEF P
    <2> QED
      BY <2>1, <2>2

\* AddPairs(d) and EnqueueFails(d): the writer is done.
LEMMA WriterEnds ==
  ASSUME TypeOK, NEW d \in Docs, AddPairs(d) \/ EnqueueFails(d)
  PROVE  /\ writer' \in [Docs -> WriterState]
         /\ doc' = doc
         /\ OnlyDoc(d)
         /\ writer[d].pc \in {"enqueue", "add"}
         /\ writer'[d] = IdleWriter
  <1>1. /\ writer[d].pc \in {"enqueue", "add"}
        /\ doc' = doc
        /\ writer' = [writer EXCEPT ![d] = IdleWriter]
    BY Zenon DEF AddPairs, EnqueueFails
  <1> QED
    BY <1>1, OneReplaced, IdleWriterType, Zenon DEF OnlyDoc

LEMMA ParseWorkerDiesDoes ==
  ASSUME TypeOK, NEW d \in Docs, ParseWorkerDies(d)
  PROVE  /\ writer' \in [Docs -> WriterState]
         /\ doc' = doc
         /\ OnlyDoc(d)
         /\ writer[d].pc \in {"parsing", "stamped", "enqueue", "add"}
         /\ writer'[d].pc = "queued" /\ writer'[d].stamp = 0 /\ writer'[d].pairs = {}
  <1> DEFINE w == [IdleWriter EXCEPT !.pc = "queued", !.stalls = writer[d].stalls + 1]
  <1>1. /\ writer[d].pc \in {"parsing", "stamped", "enqueue", "add"}
        /\ writer[d].stalls < StallLimit
        /\ doc' = doc
        /\ writer' = [writer EXCEPT ![d] = w]
    BY DEF ParseWorkerDies
  <1>2. w \in WriterState /\ w.pc = "queued" /\ w.stamp = 0 /\ w.pairs = {}
    <2>1. writer[d].stalls + 1 \in 0..StallLimit
      BY <1>1, WriterFields DEF StallLimit
    <2> QED
      BY <2>1, IdleWriterType, Zenon DEF WriterState, IdleWriter
  <1> HIDE DEF w
  <1> QED
    BY <1>1, <1>2, OneReplaced, Zenon DEF OnlyDoc

-----------------------------------------------------------------------------
(* What the queue becomes *)

\* A job that is put back keeps its pair and its version, and waits from now on.
LEMMA PutBack ==
  ASSUME TypeOK, Timed, NEW j \in queue, clock' = clock, NEW k \in {Rejected(j), Stalled(j)}
  PROVE  /\ k \in Job /\ k.inv = j.inv /\ k.version = j.version
         /\ k.version < k.due
         /\ k.state \in {"waiting", "failed"}
  <1> USE JobFields
  <1>1. j.version <= clock /\ j.version < j.due /\ clock \in Nat /\ clock + 1 \in 0..MaxClock + 1
    BY BoundsNatural DEF Timed, TypeOK
  <1>2. j.tries + 1 < Attempts => j.tries + 1 \in 0..Attempts - 1
    BY DEF Attempts
  <1>3. j.stalls < StallLimit => j.stalls + 1 \in 0..StallLimit
    BY DEF StallLimit
  <1> DEFINE a == [j EXCEPT !.state = "waiting", !.tries = @ + 1, !.due = clock + 1]
             b == [j EXCEPT !.state = "waiting", !.stalls = @ + 1, !.due = clock + 1]
             c == [j EXCEPT !.state = "failed"]
  <1>4. j.tries + 1 < Attempts =>
          a \in Job /\ a.inv = j.inv /\ a.version = j.version /\ a.due = clock + 1 /\ a.state = "waiting"
    BY <1>1, <1>2 DEF Job
  <1>5. j.stalls < StallLimit =>
          b \in Job /\ b.inv = j.inv /\ b.version = j.version /\ b.due = clock + 1 /\ b.state = "waiting"
    BY <1>1, <1>3 DEF Job
  <1>6. c \in Job /\ c.inv = j.inv /\ c.version = j.version /\ c.due = j.due /\ c.state = "failed"
    BY DEF Job
  <1>7. \/ j.tries + 1 < Attempts /\ k = a
        \/ j.stalls < StallLimit /\ k = b
        \/ k = c
    BY Zenon DEF Rejected, Stalled
  <1> HIDE DEF a, b, c
  <1> QED
    BY <1>1, <1>4, <1>5, <1>6, <1>7

\* The jobs a handler answers carry its invoice and its version.
LEMMA OwnJobs ==
  ASSUME TypeOK, NEW h \in Handlers
  PROVE  /\ Own(h) \subseteq queue
         /\ \A j \in Own(h) : j.state = "active" /\ handler[h].job = <<j.inv, j.version>>
  BY DEF Own, JobId

\* The jobs added are of the pairs resolved; each of these has a job afterwards.
LEMMA Added ==
  ASSUME TypeOK, NEW pairs, pairs \subseteq [inv : Invoices, version : 0..MaxClock]
  PROVE  /\ \A j \in AddJobs(pairs) : j \in queue \/
              /\ j \in Job /\ j.due = clock + 1 /\ j.state = "waiting"
              /\ \E p \in pairs : j.inv = p.inv /\ j.version = p.version
         /\ queue \subseteq AddJobs(pairs)
         /\ \A p \in pairs : \E j \in AddJobs(pairs) : j.inv = p.inv /\ j.version = p.version
  <1>1. \A p \in pairs : /\ NewJob(p) \in Job /\ NewJob(p).due = clock + 1
                         /\ NewJob(p).state = "waiting"
                         /\ NewJob(p).inv = p.inv /\ NewJob(p).version = p.version
    BY BoundsNatural DEF NewJob, Job, TypeOK, Attempts, StallLimit
  <1>2. \A j \in AddJobs(pairs) : j \in queue \/ \E p \in pairs : j = NewJob(p)
    BY Zenon DEF AddJobs
  <1>3. queue \subseteq AddJobs(pairs)
    BY Zenon DEF AddJobs
  <1>4. ASSUME NEW p \in pairs
        PROVE  \E j \in AddJobs(pairs) : j.inv = p.inv /\ j.version = p.version
    <2>1. CASE \A k \in queue : JobId(k) # JobId(NewJob(p))
      <3>1. NewJob(p) \in AddJobs(pairs)
        BY <2>1, Zenon DEF AddJobs
      <3> QED
        BY <1>1, <3>1
    <2>2. CASE \E k \in queue : JobId(k) = JobId(NewJob(p))
      <3>1. PICK k \in queue : <<k.inv, k.version>> = <<NewJob(p).inv, NewJob(p).version>>
        BY <2>2, Zenon DEF JobId
      <3> QED
        BY <1>1, <1>3, <3>1
    <2> QED
      BY <2>1, <2>2
  <1> QED
    BY <1>1, <1>2, <1>3, <1>4

-----------------------------------------------------------------------------
(* What the runs become *)

\* No run changes but run n, and it only in its status.
StatusSet(n, s) ==
  /\ runs' \in Seq(Run) /\ Len(runs') = Len(runs) /\ DOMAIN runs' = DOMAIN runs
  /\ \A m \in DOMAIN runs : m # n => runs'[m] = runs[m]
  /\ \A m \in DOMAIN runs :
       /\ runs'[m].inv = runs[m].inv /\ runs'[m].known = runs[m].known
       /\ runs'[m].startedAt = runs[m].startedAt /\ runs'[m].reads = runs[m].reads
       /\ runs'[m].overlap = runs[m].overlap /\ runs'[m].tied = runs[m].tied
  /\ n \in DOMAIN runs => runs'[n].status = s

LEMMA StatusBecomes ==
  ASSUME TypeOK, NEW n, NEW s \in {"running", "succeeded", "failed"},
         runs' = [runs EXCEPT ![n].status = s]
  PROVE  StatusSet(n, s)
  <1>1. PICK k \in Nat : k = Len(runs) /\ runs \in [1..k -> Run] /\ DOMAIN runs = 1..k
    BY DEF TypeOK
  <1>2. CASE n \notin 1..k
    <2>1. runs' = runs
      BY <1>1, <1>2
    <2> QED
      BY <1>1, <1>2, <2>1 DEF StatusSet, TypeOK
  <1>3. CASE n \in 1..k
    <2> DEFINE r == [runs[n] EXCEPT !.status = s]
    <2>1. runs' = [runs EXCEPT ![n] = r]
      BY <1>1, <1>3
    <2>2. r \in Run /\ r.status = s /\ r.inv = runs[n].inv /\ r.known = runs[n].known
          /\ r.startedAt = runs[n].startedAt /\ r.reads = runs[n].reads
          /\ r.overlap = runs[n].overlap /\ r.tied = runs[n].tied
      BY <1>1, <1>3 DEF Run
    <2> HIDE DEF r
    <2>3. runs' \in [1..k -> Run] /\ runs'[n] = r /\ \A m \in 1..k : m # n => runs'[m] = runs[m]
      BY <1>1, <1>3, <2>1, <2>2
    <2>4. runs' \in Seq(Run) /\ Len(runs') = k /\ DOMAIN runs' = 1..k
      BY <1>1, <2>3
    <2> QED
      BY <1>1, <1>3, <2>2, <2>3, <2>4 DEF StatusSet
  <1> QED
    BY <1>2, <1>3

\* A run is added behind the others.
RunAdded(r) ==
  /\ runs' \in Seq(Run) /\ Len(runs') = Len(runs) + 1
  /\ DOMAIN runs' = DOMAIN runs \cup {Len(runs) + 1}
  /\ Len(runs) + 1 \notin DOMAIN runs
  /\ \A m \in DOMAIN runs : runs'[m] = runs[m]
  /\ runs'[Len(runs) + 1] = r

LEMMA RunIsAdded ==
  ASSUME TypeOK, NEW r \in Run, runs' = Append(runs, r)
  PROVE  RunAdded(r)
  <1>1. PICK k \in Nat : k = Len(runs) /\ runs \in [1..k -> Run] /\ DOMAIN runs = 1..k
    BY DEF TypeOK
  <1>2. runs' \in Seq(Run) /\ Len(runs') = k + 1 /\ DOMAIN runs' = 1..k + 1
    BY <1>1 DEF TypeOK
  <1>3. runs'[k + 1] = r /\ \A m \in 1..k : runs'[m] = runs[m]
    BY <1>1 DEF TypeOK
  <1> QED
    BY <1>1, <1>2, <1>3 DEF RunAdded

-----------------------------------------------------------------------------
(* What the steps of a handler do *)

\* Only handler h changes.
OnlyHandler(h) == \A g \in Handlers \ {h} : handler'[g] = handler[g]

\* What a handler has in hand: all that its state holds but its place in the code.
SameHand(h) ==
  /\ handler'[h].job = handler[h].job /\ handler'[h].inv = handler[h].inv
  /\ handler'[h].known = handler[h].known

LEMMA OneHandler ==
  ASSUME TypeOK, NEW h \in Handlers, NEW s \in HandlerState,
         handler' = [handler EXCEPT ![h] = s]
  PROVE  handler' \in [Handlers -> HandlerState] /\ handler'[h] = s /\ OnlyHandler(h)
  BY DEF TypeOK, OnlyHandler

LEMMA UnreadType == Unread \in [Docs -> Nat]
  BY DEF Unread

LEMMA IdleHandlerType ==
  /\ IdleHandler \in HandlerState
  /\ IdleHandler.pc = "idle" /\ IdleHandler.job = NoJob /\ IdleHandler.known = {}
  /\ IdleHandler.reads = Unread /\ IdleHandler.overlap = {}
  <1>1. 0 \in 0..MaxRuns
    BY BoundsNatural
  <1> QED
    BY <1>1, UnreadType, Zenon DEF IdleHandler, HandlerState

LEMMA SucceededType ==
  ASSUME TypeOK, NEW i
  PROVE  Succeeded(i) \subseteq DOMAIN runs /\ Succeeded(i) \subseteq 1..MaxRuns
  BY RunFields, Zenon DEF Succeeded

LEMMA BeginCompareDoes ==
  ASSUME TypeOK, NEW w \in Workers, NEW j \in queue,
         handler' = [handler EXCEPT ![w] = [IdleHandler EXCEPT
                      !.pc = "read", !.job = JobId(j), !.inv = j.inv,
                      !.known = Succeeded(j.inv)]]
  PROVE  /\ handler' \in [Handlers -> HandlerState] /\ OnlyHandler(w)
         /\ handler'[w].pc = "read" /\ handler'[w].job = <<j.inv, j.version>>
         /\ handler'[w].inv = j.inv /\ handler'[w].known = Succeeded(j.inv)
         /\ handler'[w].reads = Unread
  <1> DEFINE s == [IdleHandler EXCEPT !.pc = "read", !.job = JobId(j), !.inv = j.inv,
                                      !.known = Succeeded(j.inv)]
  <1>1. JobId(j) = <<j.inv, j.version>> /\ JobId(j) \in Invoices \X (0..MaxClock)
    BY JobFields DEF JobId
  <1>2. /\ s \in HandlerState /\ s.pc = "read" /\ s.job = JobId(j) /\ s.inv = j.inv
        /\ s.known = Succeeded(j.inv) /\ s.reads = Unread
    BY <1>1, JobFields, SucceededType, IdleHandlerType, Zenon DEF IdleHandler, HandlerState
  <1>3. handler' = [handler EXCEPT ![w] = s]
    OBVIOUS
  <1> HIDE DEF s
  <1>4. w \in Handlers
    BY DEF Handlers
  <1> QED
    BY <1>1, <1>2, <1>3, <1>4, OneHandler, Zenon

LEMMA LoadPairDoes ==
  ASSUME TypeOK, NEW h \in Handlers, NEW i \in Invoices, LoadPair(h, i)
  PROVE  /\ handler' \in [Handlers -> HandlerState] /\ OnlyHandler(h)
         /\ handler'[h].pc = "receipts" /\ handler'[h].inv = i
         /\ handler'[h].job = handler[h].job /\ handler'[h].known = handler[h].known
         /\ \A d \in Docs : /\ d \in {PO, i} => handler'[h].reads[d] = doc[d].lines
                            /\ d \notin {PO, i} => handler'[h].reads[d] = 0
         /\ handler'[h].overlap = {d \in Docs : writer[d].pc = "stamped"}
  <1> DEFINE f == [Unread EXCEPT ![PO] = doc[PO].lines, ![i] = doc[i].lines]
             o == {d \in Docs : writer[d].pc = "stamped"}
             s == [handler[h] EXCEPT !.pc = "receipts", !.inv = i, !.reads = f, !.overlap = o]
  <1>1. PO \in Docs /\ i \in Docs /\ PO # i
    BY DocumentsDistinct DEF Docs
  <1>2. /\ f \in [Docs -> Nat]
        /\ \A d \in Docs : (d \in {PO, i} => f[d] = doc[d].lines) /\ (d \notin {PO, i} => f[d] = 0)
    BY <1>1, DocFields DEF Unread
  <1>3. o \subseteq Docs
    OBVIOUS
  <1>4. handler' = [handler EXCEPT ![h] = s]
    BY DEF LoadPair, TypeOK
  <1> HIDE DEF f, o
  <1>5. /\ s \in HandlerState /\ s.pc = "receipts" /\ s.inv = i /\ s.reads = f /\ s.overlap = o
        /\ s.job = handler[h].job /\ s.known = handler[h].known
    BY <1>2, <1>3, HandlerFields DEF HandlerState
  <1> HIDE DEF s
  <1>6. handler' \in [Handlers -> HandlerState] /\ handler'[h] = s /\ OnlyHandler(h)
    BY <1>4, <1>5, OneHandler, Zenon
  <1> QED
    BY <1>2, <1>5, <1>6, Zenon DEF o

LEMMA ReadReceiptsDoes ==
  ASSUME TypeOK, NEW h \in Handlers, ReadReceipts(h)
  PROVE  /\ handler' \in [Handlers -> HandlerState] /\ OnlyHandler(h)
         /\ handler[h].pc = "receipts" /\ handler'[h].pc = "insert" /\ SameHand(h)
         /\ \A d \in Docs :
              /\ d \in DoneReceipts => handler'[h].reads[d] = doc[d].lines
              /\ d \notin DoneReceipts => handler'[h].reads[d] = handler[h].reads[d]
         /\ handler'[h].overlap = handler[h].overlap
  <1> DEFINE f == [d \in Docs |-> IF d \in DoneReceipts THEN doc[d].lines ELSE handler[h].reads[d]]
             s == [handler[h] EXCEPT !.pc = "insert", !.reads = f]
  <1>1. /\ f \in [Docs -> Nat]
        /\ \A d \in Docs : /\ d \in DoneReceipts => f[d] = doc[d].lines
                           /\ d \notin DoneReceipts => f[d] = handler[h].reads[d]
    BY DocFields, HandlerFields
  <1>2. handler[h].pc = "receipts" /\ handler' = [handler EXCEPT ![h] = s]
    BY DEF ReadReceipts, TypeOK
  <1> HIDE DEF f
  <1>3. /\ s \in HandlerState /\ s.pc = "insert" /\ s.reads = f /\ s.inv = handler[h].inv
        /\ s.job = handler[h].job /\ s.known = handler[h].known /\ s.overlap = handler[h].overlap
    BY <1>1, HandlerFields DEF HandlerState
  <1> HIDE DEF s
  <1>4. handler' \in [Handlers -> HandlerState] /\ handler'[h] = s /\ OnlyHandler(h)
    BY <1>2, <1>3, OneHandler, Zenon
  <1> QED
    BY <1>1, <1>2, <1>3, <1>4, Zenon DEF SameHand

LEMMA InsertRunDoes ==
  ASSUME TypeOK, NEW h \in Handlers, handler[h].inv \in Invoices, InsertRun(h)
  PROVE  /\ handler' \in [Handlers -> HandlerState] /\ OnlyHandler(h)
         /\ handler[h].pc = "insert" /\ handler'[h].pc = "engine" /\ SameHand(h)
         /\ handler'[h].reads = handler[h].reads
         /\ handler'[h].run = Len(runs) + 1
         /\ Len(runs) + 1 <= MaxRuns
         /\ \E r \in Run :
              /\ RunAdded(r)
              /\ r.inv = handler[h].inv /\ r.known = handler[h].known /\ r.startedAt = clock
              /\ r.status = "running" /\ r.reads = handler[h].reads
              /\ r.overlap = handler[h].overlap
              /\ r.tied = (InputVersion(handler[h].inv) = clock)
  <1> DEFINE t == InputVersion(handler[h].inv) = clock
             r == [inv |-> handler[h].inv, known |-> handler[h].known,
                   startedAt |-> clock, status |-> "running", reads |-> handler[h].reads,
                   overlap |-> handler[h].overlap, tied |-> t]
             n == Len(runs) + 1
             s == [handler[h] EXCEPT !.pc = "engine", !.run = n]
  <1>1. /\ handler[h].pc = "insert" /\ Len(runs) < MaxRuns /\ runs' = Append(runs, r)
        /\ handler' = [handler EXCEPT ![h] = s]
    BY DEF InsertRun, TypeOK
  <1>2. t \in BOOLEAN /\ clock \in 0..MaxClock
    BY Zenon DEF TypeOK
  <1>3. Len(runs) \in Nat
    BY DEF TypeOK
  <1>4. n \in 0..MaxRuns /\ n <= MaxRuns
    BY <1>1, <1>3, BoundsNatural
  <1> HIDE DEF t, n
  <1>5. /\ r \in Run
        /\ r.inv = handler[h].inv /\ r.known = handler[h].known /\ r.startedAt = clock
        /\ r.status = "running" /\ r.reads = handler[h].reads
        /\ r.overlap = handler[h].overlap /\ r.tied = t
    BY <1>2, HandlerFields, Zenon DEF Run
  <1>6. /\ s \in HandlerState /\ s.pc = "engine" /\ s.run = n /\ s.inv = handler[h].inv
        /\ s.job = handler[h].job /\ s.known = handler[h].known /\ s.reads = handler[h].reads
    BY <1>4, HandlerFields DEF HandlerState
  <1> HIDE DEF r, s
  <1>7. RunAdded(r)
    BY <1>1, <1>5, RunIsAdded, Zenon
  <1>8. handler' \in [Handlers -> HandlerState] /\ handler'[h] = s /\ OnlyHandler(h)
    BY <1>1, <1>6, OneHandler, Zenon
  <1> QED
    BY <1>1, <1>4, <1>5, <1>6, <1>7, <1>8, Zenon DEF SameHand, t, n

LEMMA TimeOutDoes ==
  ASSUME TypeOK, NEW w \in Workers, TimeOut(w)
  PROVE  /\ handler' \in [Handlers -> HandlerState] /\ OnlyHandler(w)
         /\ handler[w].pc # "idle" /\ handler'[w].pc = handler[w].pc
         /\ handler'[w].job = NoJob /\ handler'[w].inv = handler[w].inv
         /\ handler'[w].known = handler[w].known /\ handler'[w].run = handler[w].run
         /\ handler'[w].reads = handler[w].reads /\ handler'[w].overlap = handler[w].overlap
  <1> DEFINE s == [handler[w] EXCEPT !.job = NoJob]
  <1>1. w \in Handlers
    BY DEF Handlers
  <1>2. handler[w].pc # "idle" /\ handler' = [handler EXCEPT ![w] = s]
    BY <1>1 DEF TimeOut, TypeOK
  <1>3. /\ s \in HandlerState /\ s.pc = handler[w].pc /\ s.job = NoJob /\ s.inv = handler[w].inv
        /\ s.known = handler[w].known /\ s.run = handler[w].run
        /\ s.reads = handler[w].reads /\ s.overlap = handler[w].overlap
    BY <1>1, HandlerFields DEF HandlerState
  <1> HIDE DEF s
  <1> QED
    BY <1>1, <1>2, <1>3, OneHandler, Zenon

\* A handler that ends is idle again.
LEMMA HandlerEnds ==
  ASSUME TypeOK, NEW h \in Handlers, handler' = [handler EXCEPT ![h] = IdleHandler]
  PROVE  /\ handler' \in [Handlers -> HandlerState] /\ OnlyHandler(h)
         /\ handler'[h] = IdleHandler
  BY OneHandler, IdleHandlerType, Zenon

\* A write stamped now overlaps every reader.
LEMMA StampOverlaps ==
  ASSUME TypeOK, NEW d \in Docs, StampParse(d) \/ StampReview(d)
  PROVE  /\ handler' \in [Handlers -> HandlerState]
         /\ \A h \in Handlers :
              /\ handler'[h].pc = handler[h].pc /\ handler'[h].run = handler[h].run
              /\ handler'[h].reads = handler[h].reads /\ SameHand(h)
              /\ handler[h].overlap \subseteq handler'[h].overlap
              /\ h \in Reading => d \in handler'[h].overlap
              /\ h \notin Reading => handler'[h] = handler[h]
  <1>1. handler' = [h \in Handlers |->
                      IF h \in Reading
                      THEN [handler[h] EXCEPT !.overlap = @ \cup {d}]
                      ELSE handler[h]]
    BY Zenon DEF StampParse, StampReview, Stamp
  <1>2. ASSUME NEW h \in Handlers
        PROVE  /\ handler'[h] \in HandlerState
               /\ handler'[h].pc = handler[h].pc /\ handler'[h].run = handler[h].run
               /\ handler'[h].reads = handler[h].reads /\ SameHand(h)
               /\ handler[h].overlap \subseteq handler'[h].overlap
               /\ h \in Reading => d \in handler'[h].overlap
               /\ h \notin Reading => handler'[h] = handler[h]
    <2> DEFINE s == [handler[h] EXCEPT !.overlap = @ \cup {d}]
    <2>1. /\ s \in HandlerState /\ s.pc = handler[h].pc /\ s.run = handler[h].run
          /\ s.reads = handler[h].reads /\ s.job = handler[h].job /\ s.inv = handler[h].inv
          /\ s.known = handler[h].known /\ s.overlap = handler[h].overlap \cup {d}
      BY HandlerFields DEF HandlerState
    <2>2. handler'[h] = IF h \in Reading THEN s ELSE handler[h]
      BY <1>1, Zenon
    <2> HIDE DEF s
    <2> QED
      BY <2>1, <2>2, HandlerFields DEF SameHand
  <1>3. handler' = [h \in Handlers |-> handler'[h]]
    BY <1>1, Zenon
  <1> QED
    BY <1>2, <1>3, Zenon

-----------------------------------------------------------------------------
(* The steps, grouped *)

\* The jobs handler h answers are put back, or gone; the others are as they were.
OwnLeft(h) ==
  /\ queue \ Own(h) \subseteq queue'
  /\ \A k \in queue' : k \in queue \ Own(h) \/ \E j \in Own(h) :
       k \in Job /\ k.inv = j.inv /\ k.version = j.version /\ k.version < k.due

\* ... put back, each of them.
OwnPutBack(h) == OwnLeft(h) /\ \A j \in Own(h) : \E k \in queue' :
  k.inv = j.inv /\ k.version = j.version

LEMMA GonePutBack ==
  ASSUME TypeOK, Timed, clock' = clock, NEW h \in Handlers
  PROVE  /\ queue' = queue \ Own(h) => OwnLeft(h)
         /\ queue' = (queue \ Own(h)) \cup {Rejected(j) : j \in Own(h)} => OwnPutBack(h)
         /\ queue' = (queue \ Own(h)) \cup {Stalled(j) : j \in Own(h)} => OwnPutBack(h)
  <1>1. \A j \in Own(h) : j \in queue
    BY OwnJobs
  <1>2. \A j \in Own(h) : \A k \in {Rejected(j), Stalled(j)} :
          k \in Job /\ k.inv = j.inv /\ k.version = j.version /\ k.version < k.due
    BY <1>1, PutBack, Zenon
  <1> QED
    BY <1>2, Zenon DEF OwnLeft, OwnPutBack

\* The end of a handler.
HandlerEnd(h) == Refuse(h) \/ GateRefuses(h) \/ Succeed(h) \/ Fail(h) \/ Die(h)

LEMMA HandlerEndDoes ==
  ASSUME TypeOK, Timed, NEW h \in Handlers, HandlerEnd(h)
  PROVE  /\ clock' = clock /\ doc' = doc /\ writer' = writer
         /\ handler' \in [Handlers -> HandlerState] /\ OnlyHandler(h)
         /\ handler[h].pc # "idle" /\ handler'[h] = IdleHandler
         /\ OwnLeft(h) /\ (Fail(h) \/ Die(h) => OwnPutBack(h))
         /\ runs' = runs \/ /\ handler[h].pc = "engine"
                            /\ \/ StatusSet(handler[h].run, "succeeded")
                               \/ StatusSet(handler[h].run, "failed")
         /\ GateRefuses(h) => missed' = missed \cup {handler[h].inv}
         /\ missed \subseteq missed'
         /\ faults' = faults \/ (faults' = faults + 1 /\ faults < MaxFaults)
  <1> USE HandlerEnds, GonePutBack
  <1>1. CASE Refuse(h)
    <2>1. /\ clock' = clock /\ doc' = doc /\ writer' = writer /\ runs' = runs /\ missed' = missed /\ faults' = faults
          /\ handler[h].pc # "idle" /\ handler' = [handler EXCEPT ![h] = IdleHandler]
          /\ queue' = queue \ Own(h)
      BY <1>1 DEF Refuse, JobDone
    <2>2. ~Fail(h) /\ ~Die(h) /\ ~GateRefuses(h)
      BY <2>1, BoundsNatural DEF Fail, Die, GateRefuses, Fault, TypeOK
    <2> QED
      BY <2>1, <2>2, Zenon
  <1>2. CASE GateRefuses(h)
    <2>1. /\ clock' = clock /\ doc' = doc /\ writer' = writer /\ runs' = runs
          /\ missed' = missed \cup {handler[h].inv}
          /\ Fault
          /\ handler[h].pc = "insert" /\ handler' = [handler EXCEPT ![h] = IdleHandler]
          /\ queue' = queue \ Own(h)
      BY <1>2, Zenon DEF GateRefuses, JobDone
    <2>2. Fail(h) \/ Die(h) => OwnPutBack(h)
      BY <2>1, Zenon DEF Fail, Die
    <2> QED
      BY <2>1, <2>2, Zenon DEF Fault
  <1>3. CASE Succeed(h)
    <2>1. /\ clock' = clock /\ doc' = doc /\ writer' = writer /\ missed' = missed /\ faults' = faults
          /\ handler[h].pc = "engine" /\ handler' = [handler EXCEPT ![h] = IdleHandler]
          /\ queue' = queue \ Own(h)
          /\ runs' = [runs EXCEPT ![handler[h].run].status = "succeeded"]
      BY <1>3, Zenon DEF Succeed, JobDone
    <2>2. ~Fail(h) /\ ~Die(h) /\ ~GateRefuses(h)
      BY <2>1, BoundsNatural DEF Fail, Die, GateRefuses, Fault, TypeOK
    <2>3. StatusSet(handler[h].run, "succeeded")
      BY <2>1, StatusBecomes, Zenon
    <2> QED
      BY <2>1, <2>2, <2>3, Zenon
  <1>4. CASE Fail(h)
    <2>1. /\ clock' = clock /\ doc' = doc /\ writer' = writer /\ missed' = missed
          /\ Fault
          /\ handler[h].pc # "idle" /\ handler' = [handler EXCEPT ![h] = IdleHandler]
          /\ queue' = (queue \ Own(h)) \cup {Rejected(j) : j \in Own(h)}
          /\ runs' = IF handler[h].pc = "engine"
                     THEN [runs EXCEPT ![handler[h].run].status = "failed"] ELSE runs
      BY <1>4, Zenon DEF Fail
    <2>2. \/ runs' = runs
          \/ handler[h].pc = "engine" /\ StatusSet(handler[h].run, "failed")
      BY <2>1, StatusBecomes, Zenon
    <2>3. GateRefuses(h) => missed' = missed \cup {handler[h].inv}
      BY Zenon DEF GateRefuses
    <2>4. OwnLeft(h) /\ OwnPutBack(h)
      BY <2>1, GonePutBack, Zenon DEF OwnPutBack
    <2> QED
      BY <2>1, <2>2, <2>3, <2>4, Zenon DEF Fault
  <1>5. CASE Die(h)
    <2>1. /\ clock' = clock /\ doc' = doc /\ writer' = writer /\ runs' = runs /\ missed' = missed
          /\ Fault
          /\ handler[h].pc # "idle" /\ handler' = [handler EXCEPT ![h] = IdleHandler]
          /\ queue' = (queue \ Own(h)) \cup {Stalled(j) : j \in Own(h)}
      BY <1>5, Zenon DEF Die
    <2>2. GateRefuses(h) => missed' = missed \cup {handler[h].inv}
      BY Zenon DEF GateRefuses
    <2>3. OwnLeft(h) /\ OwnPutBack(h)
      BY <2>1, GonePutBack, Zenon DEF OwnPutBack
    <2> QED
      BY <2>1, <2>2, <2>3, Zenon DEF Fault
  <1> QED
    BY <1>1, <1>2, <1>3, <1>4, <1>5, Zenon DEF HandlerEnd

LEMMA TimeOutLeaves ==
  ASSUME TypeOK, Timed, NEW w \in Workers, TimeOut(w)
  PROVE  /\ clock' = clock /\ doc' = doc /\ writer' = writer /\ runs' = runs /\ missed' = missed
         /\ OwnPutBack(w) /\ faults' = faults + 1 /\ faults < MaxFaults
  <1>1. w \in Handlers
    BY DEF Handlers
  <1>2. /\ clock' = clock /\ doc' = doc /\ writer' = writer /\ runs' = runs /\ missed' = missed
        /\ Fault
        /\ queue' = (queue \ Own(w)) \cup {Rejected(j) : j \in Own(w)}
    BY Zenon DEF TimeOut
  <1> QED
    BY <1>1, <1>2, GonePutBack, Zenon DEF Fault

\* The steps of the writer of document d.
WriterStep(d) ==
  \/ StartParse(d) \/ FailParse(d) \/ StampParse(d) \/ StampReview(d) \/ CommitLines(d)
  \/ ResolvePairs(d) \/ AddPairs(d) \/ EnqueueFails(d) \/ ParseWorkerDies(d)

LEMMA NextCases ==
  ASSUME Next
  PROVE  \/ Tick
         \/ \E d \in Docs : WriterStep(d)
         \/ \E w \in Workers : SkipUpToDate(w) \/ BeginCompare(w) \/ ReadPair(w) \/ TimeOut(w)
         \/ \E u \in Users : ManualCompare(u)
         \/ \E h \in Handlers : ReadReceipts(h) \/ InsertRun(h) \/ HandlerEnd(h)
  BY Zenon DEF Next, WriterStep, HandlerEnd

\* What a writer leaves alone, and that the queue only gains jobs.
LEMMA WriterLeaves ==
  ASSUME TypeOK, NEW d \in Docs, WriterStep(d)
  PROVE  /\ clock' = clock /\ runs' = runs
         /\ doc' \in [Docs -> DocRow] /\ writer' \in [Docs -> WriterState] /\ OnlyDoc(d)
         /\ queue \subseteq queue'
         /\ ~AddPairs(d) => queue' = queue
         /\ AddPairs(d) => queue' = AddJobs(writer[d].pairs)
         /\ ~(StampParse(d) \/ StampReview(d)) => handler' = handler
         /\ missed \subseteq missed'
         /\ missed' # missed => EnqueueFails(d) /\ missed' = missed \cup {d}
         /\ faults' = faults \/ (faults' = faults + 1 /\ faults < MaxFaults)
  <1>1. doc' \in [Docs -> DocRow] /\ writer' \in [Docs -> WriterState] /\ OnlyDoc(d)
    <2>1. doc' = doc => doc' \in [Docs -> DocRow]
      BY DEF TypeOK
    <2>2. CASE StartParse(d)
      BY <2>2, StartParseDoes, Zenon
    <2>3. CASE FailParse(d)
      BY <2>3, FailParseDoes, Zenon
    <2>4. CASE StampParse(d) \/ StampReview(d)
      BY <2>1, <2>4, StampDoes, Zenon
    <2>5. CASE CommitLines(d)
      BY <2>5, CommitLinesDoes, Zenon
    <2>6. CASE ResolvePairs(d)
      BY <2>1, <2>6, ResolvePairsDoes, Zenon
    <2>7. CASE AddPairs(d) \/ EnqueueFails(d)
      BY <2>1, <2>7, WriterEnds, Zenon
    <2>8. CASE ParseWorkerDies(d)
      BY <2>1, <2>8, ParseWorkerDiesDoes, Zenon
    <2> QED
      BY <2>2, <2>3, <2>4, <2>5, <2>6, <2>7, <2>8, Zenon DEF WriterStep
  <1>2. CASE StartParse(d) \/ FailParse(d) \/ CommitLines(d) \/ ResolvePairs(d)
    <2>1. clock' = clock /\ queue' = queue /\ handler' = handler /\ runs' = runs /\ missed' = missed /\ faults' = faults
      BY <1>2, Zenon DEF StartParse, FailParse, CommitLines, ResolvePairs
    <2>2. AddPairs(d) => queue' = AddJobs(writer[d].pairs)
      BY Zenon DEF AddPairs
    <2> QED
      BY <1>1, <2>1, <2>2, Zenon
  <1>3. CASE StampParse(d) \/ StampReview(d)
    <2>1. clock' = clock /\ queue' = queue /\ runs' = runs /\ missed' = missed /\ faults' = faults
      BY <1>3, StampDoes, Zenon
    <2>2. AddPairs(d) => queue' = AddJobs(writer[d].pairs)
      BY Zenon DEF AddPairs
    <2> QED
      BY <1>1, <1>3, <2>1, <2>2, Zenon
  <1>4. CASE AddPairs(d)
    <2>1. /\ clock' = clock /\ handler' = handler /\ runs' = runs /\ missed' = missed /\ faults' = faults
          /\ queue' = AddJobs(writer[d].pairs)
      BY <1>4, Zenon DEF AddPairs
    <2>2. queue \subseteq queue'
      BY <2>1, Zenon DEF AddJobs
    <2> QED
      BY <1>1, <1>4, <2>1, <2>2, Zenon
  <1>5. CASE EnqueueFails(d) \/ ParseWorkerDies(d)
    <2>1. /\ clock' = clock /\ queue' = queue /\ handler' = handler /\ runs' = runs /\ Fault
          /\ missed' = missed \/ (EnqueueFails(d) /\ missed' = missed \cup {d})
      BY <1>5, Zenon DEF EnqueueFails, ParseWorkerDies
    <2>2. AddPairs(d) => queue' = AddJobs(writer[d].pairs)
      BY Zenon DEF AddPairs
    <2> QED
      BY <1>1, <2>1, <2>2, Zenon DEF Fault
  <1> QED
    BY <1>2, <1>3, <1>4, <1>5, Zenon DEF WriterStep

-----------------------------------------------------------------------------
(* Types are kept *)

LEMMA TypeStep == TypeOK /\ Timed /\ Routed /\ Next => TypeOK'
  <1> SUFFICES ASSUME TypeOK, Timed, Routed, Next PROVE TypeOK'
    OBVIOUS
  <1>0. /\ clock \in 0..MaxClock /\ doc \in [Docs -> DocRow] /\ writer \in [Docs -> WriterState]
        /\ queue \subseteq Job /\ handler \in [Handlers -> HandlerState]
        /\ runs \in Seq(Run) /\ Len(runs) <= MaxRuns /\ missed \subseteq Docs
        /\ faults \in 0..MaxFaults
    BY DEF TypeOK
  <1>1. CASE Tick
    <2>1. clock' \in 0..MaxClock
      BY <1>0, <1>1, BoundsNatural DEF Tick
    <2> QED
      BY <1>0, <1>1, <2>1 DEF Tick, TypeOK
  <1>2. ASSUME NEW d \in Docs, WriterStep(d) PROVE TypeOK'
    <2>1. queue' \subseteq Job
      <3>1. AddPairs(d) => AddJobs(writer[d].pairs) \subseteq Job
        BY <1>0, Added, WriterFields
      <3> QED
        BY <1>0, <1>2, <3>1, WriterLeaves
    <2>2. handler' \in [Handlers -> HandlerState]
      BY <1>0, <1>2, WriterLeaves, StampOverlaps, Zenon
    <2>3. missed' \subseteq Docs
      BY <1>0, <1>2, WriterLeaves
    <2>4. faults' \in 0..MaxFaults
      BY <1>0, <1>2, WriterLeaves, BoundsNatural
    <2>5. /\ clock' = clock /\ runs' = runs
          /\ doc' \in [Docs -> DocRow] /\ writer' \in [Docs -> WriterState]
      BY <1>2, WriterLeaves, Zenon
    <2> QED
      BY <1>0, <2>1, <2>2, <2>3, <2>4, <2>5 DEF TypeOK
  <1>3. ASSUME NEW w \in Workers, SkipUpToDate(w) PROVE TypeOK'
    BY <1>0, <1>3 DEF SkipUpToDate, TypeOK
  <1>4. ASSUME NEW w \in Workers, BeginCompare(w) PROVE TypeOK'
    <2>1. PICK j \in queue :
            /\ queue' = Replace(j, [j EXCEPT !.state = "active"])
            /\ handler' = [handler EXCEPT ![w] = [IdleHandler EXCEPT
                             !.pc = "read", !.job = JobId(j), !.inv = j.inv,
                             !.known = Succeeded(j.inv)]]
            /\ clock' = clock /\ doc' = doc /\ writer' = writer /\ runs' = runs
            /\ missed' = missed /\ faults' = faults
      BY <1>4, Zenon DEF BeginCompare
    <2>2. [j EXCEPT !.state = "active"] \in Job
      BY <1>0 DEF Job
    <2>3. queue' \subseteq Job
      BY <1>0, <2>1, <2>2, Zenon DEF Replace
    <2>4. handler' \in [Handlers -> HandlerState]
      BY <2>1, BeginCompareDoes, Zenon
    <2> QED
      BY <1>0, <2>1, <2>3, <2>4 DEF TypeOK
  <1>5. ASSUME NEW h \in Handlers, NEW i \in Invoices, LoadPair(h, i) PROVE TypeOK'
    <2>1. handler' \in [Handlers -> HandlerState]
      BY <1>5, LoadPairDoes, Zenon
    <2>2. /\ clock' = clock /\ doc' = doc /\ writer' = writer /\ queue' = queue
          /\ runs' = runs /\ missed' = missed /\ faults' = faults
      BY <1>5, Zenon DEF LoadPair
    <2> QED
      BY <1>0, <2>1, <2>2 DEF TypeOK
  <1>6. ASSUME NEW w \in Workers, ReadPair(w) PROVE TypeOK'
    <2>1. w \in Handlers
      BY DEF Handlers
    <2>2. LoadPair(w, handler[w].inv) /\ handler[w].pc # "idle"
      BY <1>6, Zenon DEF ReadPair
    <2> QED
      BY <1>5, <2>1, <2>2, Zenon DEF Routed, HandlerRouted
  <1>7. ASSUME NEW u \in Users, ManualCompare(u) PROVE TypeOK'
    <2>1. u \in Handlers
      BY DEF Handlers
    <2> QED
      BY <1>5, <1>7, <2>1, Zenon DEF ManualCompare
  <1>8. ASSUME NEW w \in Workers, TimeOut(w) PROVE TypeOK'
    <2>1. w \in Handlers
      BY DEF Handlers
    <2>2. handler' \in [Handlers -> HandlerState]
      BY <1>8, TimeOutDoes, Zenon
    <2>3. queue' \subseteq Job
      BY <1>0, <1>8, TimeOutLeaves, OwnJobs, Zenon DEF OwnPutBack, OwnLeft
    <2>4. faults' \in 0..MaxFaults
      BY <1>0, <1>8, TimeOutLeaves, BoundsNatural
    <2>5. /\ clock' = clock /\ doc' = doc /\ writer' = writer
          /\ runs' = runs /\ missed' = missed
      BY <1>8, TimeOutLeaves, Zenon
    <2> QED
      BY <1>0, <2>2, <2>3, <2>4, <2>5 DEF TypeOK
  <1>9. ASSUME NEW h \in Handlers, ReadReceipts(h) PROVE TypeOK'
    <2>1. handler' \in [Handlers -> HandlerState]
      BY <1>9, ReadReceiptsDoes, Zenon
    <2>2. /\ clock' = clock /\ doc' = doc /\ writer' = writer /\ queue' = queue
          /\ runs' = runs /\ missed' = missed /\ faults' = faults
      BY <1>9, Zenon DEF ReadReceipts
    <2> QED
      BY <1>0, <2>1, <2>2 DEF TypeOK
  <1>10. ASSUME NEW h \in Handlers, InsertRun(h) PROVE TypeOK'
    <2>1. handler[h].inv \in Invoices
      BY <1>10, Zenon DEF InsertRun, Routed, HandlerRouted
    <2>2. handler' \in [Handlers -> HandlerState]
      BY <1>10, <2>1, InsertRunDoes, Zenon
    <2>3. runs' \in Seq(Run) /\ Len(runs') <= MaxRuns
      BY <1>10, <2>1, InsertRunDoes, Zenon DEF RunAdded
    <2>4. /\ clock' = clock /\ doc' = doc /\ writer' = writer /\ queue' = queue
          /\ missed' = missed /\ faults' = faults
      BY <1>10, Zenon DEF InsertRun
    <2> QED
      BY <1>0, <2>2, <2>3, <2>4 DEF TypeOK
  <1>11. ASSUME NEW h \in Handlers, HandlerEnd(h) PROVE TypeOK'
    <2>1. /\ clock' = clock /\ doc' = doc /\ writer' = writer
          /\ handler' \in [Handlers -> HandlerState]
      BY <1>11, HandlerEndDoes, Zenon
    <2>2. queue' \subseteq Job
      BY <1>0, <1>11, HandlerEndDoes, OwnJobs, Zenon DEF OwnLeft
    <2>3. runs' \in Seq(Run) /\ Len(runs') <= MaxRuns
      BY <1>0, <1>11, HandlerEndDoes, Zenon DEF StatusSet
    <2>4. faults' \in 0..MaxFaults
      BY <1>0, <1>11, HandlerEndDoes, BoundsNatural
    <2>5. missed' \subseteq Docs
      <3>1. GateRefuses(h) => handler[h].inv \in Docs
        BY Zenon DEF GateRefuses, Routed, HandlerRouted, Docs
      <3>2. ~GateRefuses(h) => missed' = missed
        BY <1>11, Zenon DEF HandlerEnd, Refuse, Succeed, Fail, Die
      <3> QED
        BY <1>0, <1>11, <3>1, <3>2, HandlerEndDoes
    <2> QED
      BY <1>0, <2>1, <2>2, <2>3, <2>4, <2>5 DEF TypeOK
  <1> QED
    BY <1>1, <1>2, <1>3, <1>4, <1>6, <1>7, <1>8, <1>9, <1>10, <1>11, NextCases, Zenon

-----------------------------------------------------------------------------
(* Time, and the states of writers *)

LEMMA InputNotLater ==
  ASSUME TypeOK, Timed, NEW i \in Invoices
  PROVE  InputVersion(i) <= clock
  <1>1. PICK d \in Feeding(i) : doc[d].at = InputVersion(i)
    BY NewestInput
  <1>2. d \in Docs
    BY DEF Feeding, Docs, DoneReceipts
  <1> QED
    BY <1>1, <1>2 DEF Timed

\* One document and its writer change, and nothing in their hands is from the future.
LEMMA WriterTimed ==
  ASSUME TypeOK, Timed, NEW d \in Docs, WriterStep(d)
  PROVE  /\ doc'[d].at <= clock /\ writer'[d].stamp <= clock
         /\ \A p \in writer'[d].pairs : p.version <= clock
  <1>1. /\ doc[d].at <= clock /\ writer[d].stamp <= clock
        /\ \A p \in writer[d].pairs : p.version <= clock
        /\ clock \in Nat /\ 0 <= clock
    BY BoundsNatural DEF Timed, TypeOK
  <1>2. CASE StartParse(d)
    BY <1>1, <1>2, StartParseDoes
  <1>3. CASE FailParse(d)
    BY <1>1, <1>3, FailParseDoes DEF IdleWriter
  <1>4. CASE StampParse(d) \/ StampReview(d)
    BY <1>1, <1>4, StampDoes
  <1>5. CASE CommitLines(d)
    BY <1>1, <1>5, CommitLinesDoes
  <1>6. CASE ResolvePairs(d)
    <2>1. \A p \in PairsFor(d) : p.version <= clock
      BY PairsForType, InputNotLater
    <2> QED
      BY <1>1, <1>6, <2>1, ResolvePairsDoes
  <1>7. CASE AddPairs(d) \/ EnqueueFails(d)
    BY <1>1, <1>7, WriterEnds DEF IdleWriter
  <1>8. CASE ParseWorkerDies(d)
    BY <1>1, <1>8, ParseWorkerDiesDoes
  <1> QED
    BY <1>2, <1>3, <1>4, <1>5, <1>6, <1>7, <1>8, Zenon DEF WriterStep

LEMMA TimedStep == TypeOK /\ Timed /\ Routed /\ Next => Timed'
  <1> SUFFICES ASSUME TypeOK, Timed, Routed, Next PROVE Timed'
    OBVIOUS
  <1>0. /\ \A d \in Docs : doc[d].at <= clock /\ writer[d].stamp <= clock
        /\ \A d \in Docs : \A p \in writer[d].pairs : p.version <= clock
        /\ \A j \in queue : j.version <= clock /\ j.version < j.due
        /\ \A n \in DOMAIN runs : runs[n].startedAt <= clock
        /\ clock \in Nat
    BY BoundsNatural DEF Timed, TypeOK
  <1>1. CASE Tick
    <2>1. clock' = clock + 1 /\ doc' = doc /\ writer' = writer /\ queue' = queue /\ runs' = runs
      BY <1>1, Zenon DEF Tick
    <2> QED
      BY <1>0, <2>1, DocFields, WriterFields, JobFields, RunFields DEF Timed
  <1>2. ASSUME NEW d \in Docs, WriterStep(d) PROVE Timed'
    <2>1. clock' = clock /\ runs' = runs /\ OnlyDoc(d)
      BY <1>2, WriterLeaves, Zenon
    <2>2. /\ \A e \in Docs : doc'[e].at <= clock /\ writer'[e].stamp <= clock
          /\ \A e \in Docs : \A p \in writer'[e].pairs : p.version <= clock
      BY <1>0, <1>2, <2>1, WriterTimed, Zenon DEF OnlyDoc
    <2>3. \A j \in queue' : j.version <= clock /\ j.version < j.due
      <3>1. CASE AddPairs(d)
        <4>1. queue' = AddJobs(writer[d].pairs)
          BY <1>2, <3>1, WriterLeaves, Zenon
        <4>2. writer[d].pairs \subseteq [inv : Invoices, version : 0..MaxClock]
          BY WriterFields
        <4>3. \A j \in AddJobs(writer[d].pairs) : j \in queue \/
                 (j.due = clock + 1 /\ \E p \in writer[d].pairs : j.version = p.version)
          BY <4>2, Added, Zenon
        <4>4. \A p \in writer[d].pairs : p.version \in Nat
          BY <4>2, BoundsNatural
        <4> QED
          BY <1>0, <4>1, <4>3, <4>4
      <3>2. CASE ~AddPairs(d)
        BY <1>0, <1>2, <3>2, WriterLeaves, Zenon
      <3> QED
        BY <3>1, <3>2
    <2> QED
      BY <1>0, <2>1, <2>2, <2>3, Zenon DEF Timed
  <1>3. ASSUME NEW w \in Workers, SkipUpToDate(w) PROVE Timed'
    <2>1. clock' = clock /\ doc' = doc /\ writer' = writer /\ queue' \subseteq queue /\ runs' = runs
      BY <1>3, Zenon DEF SkipUpToDate
    <2> QED
      BY <1>0, <2>1, Zenon DEF Timed
  <1>4. ASSUME NEW w \in Workers, BeginCompare(w) PROVE Timed'
    <2>1. PICK j \in queue :
            /\ queue' = Replace(j, [j EXCEPT !.state = "active"])
            /\ clock' = clock /\ doc' = doc /\ writer' = writer /\ runs' = runs
      BY <1>4, Zenon DEF BeginCompare
    <2>2. /\ [j EXCEPT !.state = "active"].version = j.version
          /\ [j EXCEPT !.state = "active"].due = j.due
      BY JobFields DEF Job
    <2>3. \A k \in queue' : k \in queue \/ k = [j EXCEPT !.state = "active"]
      BY <2>1, Zenon DEF Replace
    <2>4. \A k \in queue' : k.version <= clock /\ k.version < k.due
      BY <1>0, <2>2, <2>3, Zenon
    <2> QED
      BY <1>0, <2>1, <2>4, Zenon DEF Timed
  <1>5. ASSUME NEW h \in Handlers, NEW i \in Invoices, LoadPair(h, i) PROVE Timed'
    <2>1. clock' = clock /\ doc' = doc /\ writer' = writer /\ queue' = queue /\ runs' = runs
      BY <1>5, Zenon DEF LoadPair
    <2> QED
      BY <1>0, <2>1, Zenon DEF Timed
  <1>6. ASSUME NEW w \in Workers, ReadPair(w) PROVE Timed'
    <2>1. clock' = clock /\ doc' = doc /\ writer' = writer /\ queue' = queue /\ runs' = runs
      BY <1>6, Zenon DEF ReadPair, LoadPair
    <2> QED
      BY <1>0, <2>1, Zenon DEF Timed
  <1>7. ASSUME NEW u \in Users, ManualCompare(u) PROVE Timed'
    BY <1>5, <1>7, Zenon DEF ManualCompare, Handlers
  <1>8. ASSUME NEW w \in Workers, TimeOut(w) PROVE Timed'
    <2>1. w \in Handlers
      BY DEF Handlers
    <2>2. clock' = clock /\ doc' = doc /\ writer' = writer /\ OwnLeft(w) /\ runs' = runs
      BY <1>8, TimeOutLeaves, Zenon DEF OwnPutBack
    <2>3. \A k \in queue' : k.version <= clock /\ k.version < k.due
      BY <1>0, <2>1, <2>2, OwnJobs, Zenon DEF OwnLeft
    <2> QED
      BY <1>0, <2>2, <2>3, Zenon DEF Timed
  <1>9. ASSUME NEW h \in Handlers, ReadReceipts(h) PROVE Timed'
    <2>1. clock' = clock /\ doc' = doc /\ writer' = writer /\ queue' = queue /\ runs' = runs
      BY <1>9, Zenon DEF ReadReceipts
    <2> QED
      BY <1>0, <2>1, Zenon DEF Timed
  <1>10. ASSUME NEW h \in Handlers, InsertRun(h) PROVE Timed'
    <2>1. handler[h].inv \in Invoices
      BY <1>10, Zenon DEF InsertRun, Routed, HandlerRouted
    <2>2. PICK r \in Run : RunAdded(r) /\ r.startedAt = clock
      BY <1>10, <2>1, InsertRunDoes, Zenon
    <2>3. \A n \in DOMAIN runs' : (n \in DOMAIN runs /\ runs'[n] = runs[n]) \/ runs'[n] = r
      BY <2>2 DEF RunAdded
    <2>4. \A n \in DOMAIN runs' : runs'[n].startedAt <= clock
      BY <1>0, <2>2, <2>3
    <2>5. clock' = clock /\ doc' = doc /\ writer' = writer /\ queue' = queue
      BY <1>10, Zenon DEF InsertRun
    <2> QED
      BY <1>0, <2>4, <2>5, Zenon DEF Timed
  <1>11. ASSUME NEW h \in Handlers, HandlerEnd(h) PROVE Timed'
    <2>1. clock' = clock /\ doc' = doc /\ writer' = writer /\ OwnLeft(h)
      BY <1>11, HandlerEndDoes, Zenon
    <2>2. \A k \in queue' : k.version <= clock /\ k.version < k.due
      BY <1>0, <2>1, OwnJobs, Zenon DEF OwnLeft
    <2>3. \A n \in DOMAIN runs' : n \in DOMAIN runs /\ runs'[n].startedAt = runs[n].startedAt
      BY <1>11, HandlerEndDoes, Zenon DEF StatusSet
    <2>4. \A n \in DOMAIN runs' : runs'[n].startedAt <= clock
      BY <1>0, <2>3, Zenon
    <2> QED
      BY <1>0, <2>1, <2>2, <2>4, Zenon DEF Timed
  <1> QED
    BY <1>1, <1>2, <1>3, <1>4, <1>6, <1>7, <1>8, <1>9, <1>10, <1>11, NextCases, Zenon

LEMMA WrittenStep == TypeOK /\ Timed /\ Written /\ Next => Written'
  <1> SUFFICES ASSUME TypeOK, Timed, Written, Next PROVE Written'
    OBVIOUS
  <1>1. ASSUME NEW d \in Docs, WriterStep(d) PROVE Written'
    <2>1. OnlyDoc(d)
      BY <1>1, WriterLeaves, Zenon
    <2>2. /\ writer'[d].pc = "parsing" => doc'[d].status = "unsettled"
          /\ d \in Invoices => \A p \in writer'[d].pairs : p.inv = d
      <3>1. d \in Invoices => \A p \in writer[d].pairs : p.inv = d
        BY DEF Written
      <3>2. CASE StartParse(d)
        BY <3>1, <3>2, StartParseDoes
      <3>3. CASE FailParse(d)
        BY <3>3, FailParseDoes DEF IdleWriter
      <3>4. CASE StampParse(d) \/ StampReview(d)
        BY <3>1, <3>4, StampDoes
      <3>5. CASE CommitLines(d)
        BY <3>1, <3>5, CommitLinesDoes
      <3>6. CASE ResolvePairs(d)
        BY <3>6, PairsForType, ResolvePairsDoes
      <3>7. CASE AddPairs(d) \/ EnqueueFails(d)
        BY <3>7, WriterEnds DEF IdleWriter
      <3>8. CASE ParseWorkerDies(d)
        BY <3>8, ParseWorkerDiesDoes
      <3> QED
        BY <1>1, <3>2, <3>3, <3>4, <3>5, <3>6, <3>7, <3>8, Zenon DEF WriterStep
    <2> QED
      BY <2>1, <2>2, Zenon DEF Written, OnlyDoc, Docs
  <1>2. ASSUME doc' = doc, writer' = writer PROVE Written'
    BY <1>2, Zenon DEF Written
  <1>3. ASSUME NEW h \in Handlers, HandlerEnd(h) PROVE Written'
    BY <1>2, <1>3, HandlerEndDoes, Zenon
  <1>4. ASSUME NEW w \in Workers, SkipUpToDate(w) \/ BeginCompare(w) \/ ReadPair(w) \/ TimeOut(w)
        PROVE  Written'
    BY <1>2, <1>4, Zenon DEF SkipUpToDate, BeginCompare, ReadPair, LoadPair, TimeOut
  <1>5. ASSUME NEW u \in Users, ManualCompare(u) PROVE Written'
    BY <1>2, <1>5, Zenon DEF ManualCompare, LoadPair
  <1>6. ASSUME NEW h \in Handlers, ReadReceipts(h) \/ InsertRun(h) PROVE Written'
    BY <1>2, <1>6, Zenon DEF ReadReceipts, InsertRun
  <1>7. CASE Tick
    BY <1>2, <1>7, Zenon DEF Tick
  <1> QED
    BY <1>1, <1>3, <1>4, <1>5, <1>6, <1>7, NextCases, Zenon

-----------------------------------------------------------------------------
(* Handlers *)

LEMMA NoJobNoPair == \A i \in Invoices, v \in 0..MaxClock : NoJob # <<i, v>> /\ NoJob \notin Invoices
  BY NoJobIsNone

\* A step that leaves the runs alone and gives handler h a place other than the engine, its
\* old job or none.
LEMMA HandlerMoves ==
  ASSUME TypeOK, Routed, NEW h \in Handlers, OnlyHandler(h),
         clock' = clock, runs' = runs,
         handler'[h].pc # "engine",
         handler'[h].pc = "idle" => handler'[h] = IdleHandler,
         handler'[h].pc # "idle" => handler'[h].inv \in Invoices,
         \A i \in Invoices, v \in 0..MaxClock : handler'[h].job = <<i, v>> =>
           i = handler'[h].inv /\ v < clock
  PROVE  Routed'
  <1>1. ASSUME NEW g \in Handlers PROVE HandlerRouted(g)'
    <2>1. CASE g = h
      BY <2>1, Zenon DEF HandlerRouted
    <2>2. CASE g # h
      <3>1. HandlerRouted(g) /\ handler'[g] = handler[g]
        BY <2>2, Zenon DEF Routed, OnlyHandler
      <3> QED
        BY <3>1, Zenon DEF HandlerRouted
    <2> QED
      BY <2>1, <2>2
  <1>2. RunsOwned'
    BY Zenon DEF Routed, RunsOwned, OnlyHandler
  <1> QED
    BY <1>1, <1>2, Zenon DEF Routed

\* A step in which each handler keeps its place, its run and its invoice, and its job or
\* none, while the runs stay.
LEMMA HandlersStay ==
  ASSUME TypeOK, Routed, clock' = clock, runs' = runs,
         \A g \in Handlers :
           /\ handler'[g].pc = handler[g].pc /\ handler'[g].run = handler[g].run
           /\ handler'[g].inv = handler[g].inv /\ handler'[g].job \in {handler[g].job, NoJob}
           /\ handler[g].pc = "idle" => handler'[g] = handler[g]
  PROVE  Routed'
  <1>1. ASSUME NEW g \in Handlers PROVE HandlerRouted(g)'
    <2>1. HandlerRouted(g)
      BY DEF Routed
    <2>2. /\ handler'[g].pc = "idle" => handler'[g] = IdleHandler
          /\ handler'[g].pc # "idle" => handler'[g].inv \in Invoices
          /\ handler'[g].pc = "engine" =>
               /\ handler'[g].run \in DOMAIN runs
               /\ runs[handler'[g].run].inv = handler'[g].inv
               /\ runs[handler'[g].run].status = "running"
      BY <2>1, Zenon DEF HandlerRouted
    <2>3. ASSUME NEW i \in Invoices, NEW v \in 0..MaxClock, handler'[g].job = <<i, v>>
          PROVE  /\ i = handler'[g].inv /\ v < clock
                 /\ handler'[g].pc = "engine" => v < runs[handler'[g].run].startedAt
      <3>1. handler[g].job = <<i, v>>
        BY <2>3, NoJobNoPair
      <3> QED
        BY <2>1, <3>1, Zenon DEF HandlerRouted
    <2> QED
      BY <2>2, <2>3, Zenon DEF HandlerRouted
  <1>2. \A g \in Handlers : handler'[g].pc = handler[g].pc /\ handler'[g].run = handler[g].run
    OBVIOUS
  <1>3. RunsOwned
    BY DEF Routed
  <1>4. RunsOwned'
    BY <1>2, <1>3 DEF RunsOwned
  <1> QED
    BY <1>1, <1>4, Zenon DEF Routed

LEMMA RoutedStep == TypeOK /\ Timed /\ Routed /\ Next => Routed'
  <1> SUFFICES ASSUME TypeOK, Timed, Routed, Next PROVE Routed'
    OBVIOUS
  <1>1. ASSUME clock' >= clock, handler' = handler, runs' = runs PROVE Routed'
    <2>1. clock \in Nat /\ clock' >= clock
      BY <1>1, BoundsNatural DEF TypeOK
    <2>2. \A v \in 0..MaxClock : v < clock => v < clock'
      BY <1>1, <2>1, TypeStep DEF TypeOK
    <2>3. ASSUME NEW g \in Handlers PROVE HandlerRouted(g)'
      BY <1>1, <2>2, Zenon DEF Routed, HandlerRouted
    <2>4. RunsOwned'
      BY <1>1, Zenon DEF Routed, RunsOwned
    <2> QED
      BY <2>3, <2>4, Zenon DEF Routed
  <1>2. CASE Tick
    <2>1. clock' = clock + 1 /\ handler' = handler /\ runs' = runs /\ clock \in Nat
      BY <1>2, BoundsNatural DEF Tick, TypeOK
    <2> QED
      BY <1>1, <2>1
  <1>3. ASSUME NEW d \in Docs, WriterStep(d) PROVE Routed'
    <2>1. clock' = clock /\ runs' = runs
      BY <1>3, WriterLeaves, Zenon
    <2>2. CASE StampParse(d) \/ StampReview(d)
      <3>1. \A g \in Handlers : handler[g].pc = "idle" => g \notin Reading
        BY DEF Reading
      <3>2. \A g \in Handlers :
              /\ handler'[g].pc = handler[g].pc /\ handler'[g].run = handler[g].run
              /\ handler'[g].inv = handler[g].inv /\ handler'[g].job \in {handler[g].job, NoJob}
              /\ handler[g].pc = "idle" => handler'[g] = handler[g]
        BY <2>2, <3>1, StampOverlaps, Zenon DEF SameHand
      <3> QED
        BY <2>1, <3>2, HandlersStay, Zenon
    <2>3. CASE ~(StampParse(d) \/ StampReview(d))
      <3>1. handler' = handler
        BY <1>3, <2>3, WriterLeaves, Zenon
      <3>2. clock' >= clock
        BY <2>1, BoundsNatural DEF TypeOK
      <3> QED
        BY <1>1, <2>1, <3>1, <3>2, Zenon
    <2> QED
      BY <2>2, <2>3
  <1>4. ASSUME NEW w \in Workers, SkipUpToDate(w) PROVE Routed'
    <2>1. clock' = clock /\ handler' = handler /\ runs' = runs
      BY <1>4, Zenon DEF SkipUpToDate
    <2>2. clock' >= clock
      BY <2>1, BoundsNatural DEF TypeOK
    <2> QED
      BY <1>1, <2>1, <2>2
  <1>5. ASSUME NEW w \in Workers, BeginCompare(w) PROVE Routed'
    <2>1. PICK j \in queue :
            /\ handler[w].pc = "idle" /\ Due(j)
            /\ handler' = [handler EXCEPT ![w] = [IdleHandler EXCEPT
                             !.pc = "read", !.job = JobId(j), !.inv = j.inv,
                             !.known = Succeeded(j.inv)]]
            /\ clock' = clock /\ runs' = runs
      BY <1>5, Zenon DEF BeginCompare
    <2>2. w \in Handlers
      BY DEF Handlers
    <2>3. /\ OnlyHandler(w) /\ handler'[w].pc = "read" /\ handler'[w].job = <<j.inv, j.version>>
          /\ handler'[w].inv = j.inv
      BY <2>1, BeginCompareDoes, Zenon
    <2>4. j.version < clock
      <3>1. j.version < j.due /\ j.due <= clock
        BY <2>1 DEF Due, Timed
      <3> QED
        BY <3>1, JobFields, BoundsNatural DEF TypeOK
    <2>5. \A i \in Invoices, v \in 0..MaxClock : handler'[w].job = <<i, v>> =>
            i = handler'[w].inv /\ v < clock
      BY <2>3, <2>4
    <2> QED
      BY <2>1, <2>2, <2>3, <2>5, JobFields, HandlerMoves
  <1>6. ASSUME NEW h \in Handlers, NEW i \in Invoices, LoadPair(h, i),
               handler[h].pc = "idle" \/ i = handler[h].inv
        PROVE  Routed'
    <2>1. clock' = clock /\ runs' = runs
      BY <1>6, Zenon DEF LoadPair
    <2>2. /\ OnlyHandler(h) /\ handler'[h].pc = "receipts" /\ handler'[h].inv = i
          /\ handler'[h].job = handler[h].job
      BY <1>6, LoadPairDoes, Zenon
    <2>3. ASSUME NEW k \in Invoices, NEW v \in 0..MaxClock, handler'[h].job = <<k, v>>
          PROVE  k = handler'[h].inv /\ v < clock
      <3>1. k = handler[h].inv /\ v < clock
        BY <2>2, <2>3, Zenon DEF Routed, HandlerRouted
      <3>2. handler[h].pc # "idle"
        BY <2>2, <2>3, NoJobNoPair, IdleHandlerType, Zenon DEF Routed, HandlerRouted
      <3> QED
        BY <1>6, <2>2, <3>1, <3>2
    <2> QED
      BY <2>1, <2>2, <2>3, HandlerMoves
  <1>7. ASSUME NEW w \in Workers, ReadPair(w) PROVE Routed'
    <2>1. w \in Handlers
      BY DEF Handlers
    <2>2. LoadPair(w, handler[w].inv) /\ handler[w].pc # "idle"
      BY <1>7, Zenon DEF ReadPair
    <2> QED
      BY <1>6, <2>1, <2>2, Zenon DEF Routed, HandlerRouted
  <1>8. ASSUME NEW u \in Users, ManualCompare(u) PROVE Routed'
    BY <1>6, <1>8, Zenon DEF ManualCompare, Handlers
  <1>9. ASSUME NEW w \in Workers, TimeOut(w) PROVE Routed'
    <2>1. w \in Handlers
      BY DEF Handlers
    <2>2. /\ clock' = clock /\ runs' = runs
          /\ OnlyHandler(w) /\ handler[w].pc # "idle" /\ handler'[w].pc = handler[w].pc
          /\ handler'[w].job = NoJob /\ handler'[w].inv = handler[w].inv
          /\ handler'[w].run = handler[w].run
      BY <1>9, TimeOutDoes, TimeOutLeaves, Zenon
    <2>3. \A g \in Handlers :
              /\ handler'[g].pc = handler[g].pc /\ handler'[g].run = handler[g].run
              /\ handler'[g].inv = handler[g].inv /\ handler'[g].job \in {handler[g].job, NoJob}
              /\ handler[g].pc = "idle" => handler'[g] = handler[g]
      BY <2>2, Zenon DEF OnlyHandler
    <2> QED
      BY <2>2, <2>3, HandlersStay, Zenon
  <1>10. ASSUME NEW h \in Handlers, ReadReceipts(h) PROVE Routed'
    <2>1. clock' = clock /\ runs' = runs
      BY <1>10, Zenon DEF ReadReceipts
    <2>2. /\ OnlyHandler(h) /\ handler[h].pc = "receipts" /\ handler'[h].pc = "insert"
          /\ SameHand(h)
      BY <1>10, ReadReceiptsDoes, Zenon
    <2>3. handler'[h].inv \in Invoices
      BY <2>2 DEF SameHand, Routed, HandlerRouted
    <2>4. \A i \in Invoices, v \in 0..MaxClock : handler'[h].job = <<i, v>> =>
            i = handler'[h].inv /\ v < clock
      BY <2>2, Zenon DEF SameHand, Routed, HandlerRouted
    <2> QED
      BY <2>1, <2>2, <2>3, <2>4, HandlerMoves
  <1>11. ASSUME NEW h \in Handlers, InsertRun(h) PROVE Routed'
    <2>1. handler[h].inv \in Invoices
      BY <1>11, Zenon DEF InsertRun, Routed, HandlerRouted
    <2>2. /\ OnlyHandler(h) /\ handler[h].pc = "insert" /\ handler'[h].pc = "engine" /\ SameHand(h)
          /\ handler'[h].run = Len(runs) + 1
      BY <1>11, <2>1, InsertRunDoes, Zenon
    <2>3. PICK r \in Run : /\ RunAdded(r) /\ r.inv = handler[h].inv /\ r.startedAt = clock
                           /\ r.status = "running"
      BY <1>11, <2>1, InsertRunDoes, Zenon
    <2>4. clock' = clock
      BY <1>11, Zenon DEF InsertRun
    <2> DEFINE N == Len(runs) + 1
    <2>5. /\ N \in DOMAIN runs' /\ N \notin DOMAIN runs /\ runs'[N] = r
          /\ \A n \in DOMAIN runs : n \in DOMAIN runs' /\ runs'[n] = runs[n] /\ n # N
      BY <2>3, Zenon DEF RunAdded
    <2>6. handler'[h].run = N /\ handler'[h].inv = handler[h].inv /\ handler'[h].job = handler[h].job
      BY <2>2, Zenon DEF SameHand
    <2> HIDE DEF N
    <2>7. ASSUME NEW g \in Handlers PROVE HandlerRouted(g)'
      <3>1. CASE g = h
        <4>1. \A i \in Invoices, v \in 0..MaxClock : handler'[h].job = <<i, v>> =>
                i = handler[h].inv /\ v < clock
          BY <2>6, Zenon DEF Routed, HandlerRouted
        <4> QED
          BY <2>1, <2>2, <2>3, <2>4, <2>5, <2>6, <3>1, <4>1, Zenon DEF HandlerRouted
      <3>2. CASE g # h
        <4>1. HandlerRouted(g) /\ handler'[g] = handler[g]
          BY <2>2, <3>2, Zenon DEF Routed, OnlyHandler
        <4>2. handler[g].pc = "engine" =>
                runs'[handler[g].run] = runs[handler[g].run] /\ handler[g].run \in DOMAIN runs'
          BY <2>5, <4>1, Zenon DEF HandlerRouted
        <4> QED
          BY <2>4, <4>1, <4>2, Zenon DEF HandlerRouted
      <3> QED
        BY <3>1, <3>2
    <2>8. RunsOwned'
      <3>1. \A g \in Handlers : g # h /\ handler'[g].pc = "engine" =>
              handler[g].pc = "engine" /\ handler'[g].run = handler[g].run /\ handler[g].run # N
        BY <2>2, <2>5, Zenon DEF Routed, HandlerRouted, OnlyHandler
      <3> QED
        BY <2>6, <3>1, Zenon DEF Routed, RunsOwned
    <2> QED
      BY <2>7, <2>8, Zenon DEF Routed
  <1>12. ASSUME NEW h \in Handlers, HandlerEnd(h) PROVE Routed'
    <2>1. clock' = clock /\ OnlyHandler(h) /\ handler'[h] = IdleHandler
      BY <1>12, HandlerEndDoes, Zenon
    <2>2. handler'[h].pc = "idle" /\ handler'[h].job = NoJob
      BY <2>1, IdleHandlerType, Zenon
    <2>3. /\ DOMAIN runs' = DOMAIN runs
          /\ \A n \in DOMAIN runs : /\ runs'[n].inv = runs[n].inv
                                    /\ runs'[n].startedAt = runs[n].startedAt
      BY <1>12, HandlerEndDoes, Zenon DEF StatusSet
    <2>4. \A n \in DOMAIN runs : \/ runs'[n] = runs[n]
                                 \/ handler[h].pc = "engine" /\ n = handler[h].run
      BY <1>12, HandlerEndDoes, Zenon DEF StatusSet
    <2>5. \A g \in Handlers : g # h => handler'[g] = handler[g]
      BY <2>1, Zenon DEF OnlyHandler
    <2>6. ASSUME NEW g \in Handlers PROVE HandlerRouted(g)'
      <3>1. CASE g = h
        BY <2>1, <2>2, <3>1, NoJobNoPair, Zenon DEF HandlerRouted
      <3>2. CASE g # h
        <4>1. HandlerRouted(g) /\ handler'[g] = handler[g]
          BY <2>5, <3>2, Zenon DEF Routed
        <4>2. handler[g].pc = "engine" =>
                /\ runs'[handler[g].run] = runs[handler[g].run]
                /\ handler[g].run \in DOMAIN runs'
          BY <2>3, <2>4, <3>2, <4>1, Zenon DEF Routed, RunsOwned, HandlerRouted
        <4> QED
          BY <2>1, <4>1, <4>2, Zenon DEF HandlerRouted
      <3> QED
        BY <3>1, <3>2
    <2>7. RunsOwned'
      BY <2>2, <2>5, Zenon DEF Routed, RunsOwned
    <2> QED
      BY <2>6, <2>7, Zenon DEF Routed
  <1> QED
    BY <1>2, <1>3, <1>4, <1>5, <1>7, <1>8, <1>9, <1>10, <1>11, <1>12, NextCases, Zenon

-----------------------------------------------------------------------------
(* Readings are fresh *)

\* What a writer does to the document it writes: nothing, a new parse or its failure, a
\* stamp, or the write.
LEMMA WriterKinds ==
  ASSUME TypeOK, NEW d \in Docs, WriterStep(d)
  PROVE  \/ doc'[d] = doc[d] /\ writer'[d].pc # "stamped" /\ handler' = handler
         \/ /\ doc'[d].status # "done" /\ doc'[d].at = clock /\ doc'[d].lines = doc[d].lines
            /\ writer'[d].pc # "stamped" /\ handler' = handler
         \/ /\ StampParse(d) \/ StampReview(d)
            /\ doc'[d] = doc[d] /\ writer'[d].pc = "stamped" /\ writer'[d].stamp = clock
         \/ /\ writer[d].pc = "stamped" /\ writer'[d].pc = "enqueue" /\ handler' = handler
            /\ doc'[d].status = "done" /\ doc'[d].at = writer[d].stamp
            /\ doc'[d].lines = doc[d].lines + 1
  <1>1. CASE StartParse(d)
    BY <1>1, StartParseDoes DEF StartParse
  <1>2. CASE FailParse(d)
    BY <1>2, FailParseDoes DEF FailParse, IdleWriter
  <1>3. CASE StampParse(d) \/ StampReview(d)
    BY <1>3, StampDoes, Zenon
  <1>4. CASE CommitLines(d)
    BY <1>4, CommitLinesDoes DEF CommitLines
  <1>5. CASE ResolvePairs(d)
    <2>1. handler' = handler
      BY <1>5, Zenon DEF ResolvePairs
    <2> QED
      BY <1>5, <2>1, ResolvePairsDoes
  <1>6. CASE AddPairs(d) \/ EnqueueFails(d)
    <2>1. handler' = handler
      BY <1>6, Zenon DEF AddPairs, EnqueueFails
    <2> QED
      BY <1>6, <2>1, WriterEnds DEF IdleWriter
  <1>7. CASE ParseWorkerDies(d)
    <2>1. handler' = handler
      BY <1>7, Zenon DEF ParseWorkerDies
    <2> QED
      BY <1>7, <2>1, ParseWorkerDiesDoes
  <1> QED
    BY <1>1, <1>2, <1>3, <1>4, <1>5, <1>6, <1>7, Zenon DEF WriterStep

\* A writer leaves the readings of the other documents fresh.
LEMMA OthersFresh ==
  ASSUME TypeOK, Fresh, NEW d \in Docs, WriterStep(d), NEW e \in Docs, e # d
  PROVE  /\ \A h \in Handlers : ReaderFresh(h, e)'
         /\ \A n \in DOMAIN runs : RunFresh(n, e)'
  <1>1. doc'[e] = doc[e] /\ writer'[e] = writer[e] /\ runs' = runs
    BY WriterLeaves, Zenon DEF OnlyDoc
  <1>2. e \in DoneReceipts' => e \in DoneReceipts
    BY <1>1 DEF DoneReceipts
  <1>3. \A h \in Handlers : /\ handler'[h].pc = handler[h].pc /\ handler'[h].inv = handler[h].inv
                            /\ handler'[h].reads = handler[h].reads
                            /\ handler[h].overlap \subseteq handler'[h].overlap
    BY WriterLeaves, StampOverlaps, Zenon DEF SameHand
  <1>4. ASSUME NEW h \in Handlers PROVE ReaderFresh(h, e)'
    <2>1. ReaderFresh(h, e)
      BY DEF Fresh
    <2>2. h \in Reading' => h \in Reading
      BY <1>3 DEF Reading
    <2>3. e \in Seen(h)' => e \in Seen(h)
      BY <1>2, <1>3 DEF Seen
    <2> QED
      BY <1>1, <1>3, <2>1, <2>2, <2>3, Zenon DEF ReaderFresh
  <1>5. ASSUME NEW n \in DOMAIN runs PROVE RunFresh(n, e)'
    <2>1. RunFresh(n, e)
      BY DEF Fresh
    <2>2. e \in RestsOn(n)' => e \in RestsOn(n)
      BY <1>1, <1>2 DEF RestsOn
    <2> QED
      BY <1>1, <2>1, <2>2, Zenon DEF RunFresh, ReadCurrent
  <1> QED
    BY <1>4, <1>5

LEMMA WriterFresh ==
  ASSUME TypeOK, Timed, Fresh, NEW d \in Docs, WriterStep(d)
  PROVE  Fresh'
  <1>0. runs' = runs /\ clock \in Nat
    BY WriterLeaves, BoundsNatural DEF TypeOK
  <1>1. ASSUME NEW h \in Handlers PROVE ReaderFresh(h, d)'
    <2>1. ReaderFresh(h, d)
      BY DEF Fresh
    <2>2. CASE doc'[d] = doc[d] /\ writer'[d].pc # "stamped" /\ handler' = handler
      BY <2>1, <2>2 DEF ReaderFresh, Seen, DoneReceipts, Reading
    <2>3. CASE /\ doc'[d].status # "done" /\ doc'[d].lines = doc[d].lines
               /\ writer'[d].pc # "stamped" /\ handler' = handler
      BY <2>1, <2>3 DEF ReaderFresh, Seen, DoneReceipts, Reading
    <2>4. CASE StampParse(d) \/ StampReview(d)
      <3>1. h \in Reading' => d \in handler'[h].overlap
        BY <2>4, StampOverlaps DEF Reading
      <3> QED
        BY <3>1 DEF ReaderFresh
    <2>5. CASE writer[d].pc = "stamped" /\ writer'[d].pc = "enqueue" /\ handler' = handler
      BY <2>1, <2>5 DEF ReaderFresh, Reading
    <2> QED
      BY <2>2, <2>3, <2>4, <2>5, WriterKinds, Zenon
  <1>2. ASSUME NEW n \in DOMAIN runs PROVE RunFresh(n, d)'
    <2>1. RunFresh(n, d) /\ runs[n].startedAt <= clock
      BY DEF Fresh, Timed
    <2>2. d \in RestsOn(n)' /\ d \notin RestsOn(n) => d \in DoneReceipts' /\ d \notin DoneReceipts
      BY <1>0 DEF RestsOn
    <2>3. CASE doc'[d] = doc[d] /\ writer'[d].pc # "stamped"
      BY <1>0, <2>1, <2>3 DEF RunFresh, ReadCurrent, RestsOn, DoneReceipts
    <2>4. CASE doc'[d].at = clock /\ writer'[d].pc # "stamped"
      BY <1>0, <2>1, <2>4, RunFields DEF RunFresh
    <2>5. CASE doc'[d] = doc[d] /\ writer'[d].pc = "stamped" /\ writer'[d].stamp = clock
      BY <1>0, <2>1, <2>5, RunFields DEF RunFresh, ReadCurrent, RestsOn, DoneReceipts
    <2>6. CASE /\ writer[d].pc = "stamped" /\ writer'[d].pc = "enqueue"
               /\ doc'[d].at = writer[d].stamp
      BY <1>0, <2>1, <2>6 DEF RunFresh
    <2> QED
      BY <2>3, <2>4, <2>5, <2>6, WriterKinds, Zenon
  <1>3. ASSUME NEW h \in Handlers, NEW e \in Docs PROVE ReaderFresh(h, e)'
    BY <1>1, OthersFresh, Zenon
  <1>4. ASSUME NEW n \in DOMAIN runs, NEW e \in Docs PROVE RunFresh(n, e)'
    BY <1>2, OthersFresh, Zenon
  <1> QED
    BY <1>0, <1>3, <1>4, Zenon DEF Fresh

\* The documents, their writers, and all but the status of the runs there were, are as they
\* were; so the handlers, but h.
LEMMA HandlerFresh ==
  ASSUME TypeOK, Fresh, doc' = doc, writer' = writer, NEW h \in Handlers, OnlyHandler(h),
         \A d \in Docs : ReaderFresh(h, d)',
         DOMAIN runs \subseteq DOMAIN runs',
         \A n \in DOMAIN runs : /\ runs'[n].inv = runs[n].inv /\ runs'[n].reads = runs[n].reads
                                /\ runs'[n].overlap = runs[n].overlap
                                /\ runs'[n].startedAt = runs[n].startedAt,
         \A n \in DOMAIN runs' \ DOMAIN runs, d \in Docs : RunFresh(n, d)'
  PROVE  Fresh'
  <1>1. ASSUME NEW g \in Handlers, NEW d \in Docs PROVE ReaderFresh(g, d)'
    <2>1. CASE g # h
      <3>1. ReaderFresh(g, d) /\ handler'[g] = handler[g]
        BY <2>1, Zenon DEF Fresh, OnlyHandler
      <3> QED
        BY <3>1, Zenon DEF ReaderFresh, Seen, DoneReceipts, Reading
    <2> QED
      BY <2>1
  <1>2. ASSUME NEW n \in DOMAIN runs', NEW d \in Docs PROVE RunFresh(n, d)'
    <2>1. CASE n \in DOMAIN runs
      <3>1. RunFresh(n, d)
        BY <2>1, Zenon DEF Fresh
      <3> QED
        BY <2>1, <3>1, Zenon DEF RunFresh, RestsOn, ReadCurrent, DoneReceipts
    <2> QED
      BY <2>1
  <1> QED
    BY <1>1, <1>2, Zenon DEF Fresh

LEMMA FreshStep == TypeOK /\ Timed /\ Routed /\ Fresh /\ Next => Fresh'
  <1> SUFFICES ASSUME TypeOK, Timed, Routed, Fresh, Next PROVE Fresh'
    OBVIOUS
  <1>0. ASSUME doc' = doc, writer' = writer, handler' = handler, runs' = runs PROVE Fresh'
    <2>1. \A h \in Handlers, d \in Docs : ReaderFresh(h, d)'
      BY <1>0, Zenon DEF Fresh, ReaderFresh, Seen, DoneReceipts, Reading
    <2>2. \A n \in DOMAIN runs, d \in Docs : RunFresh(n, d)'
      BY <1>0, Zenon DEF Fresh, RunFresh, RestsOn, ReadCurrent, DoneReceipts
    <2> QED
      BY <1>0, <2>1, <2>2, Zenon DEF Fresh
  <1>1. CASE Tick
    BY <1>0, <1>1, Zenon DEF Tick
  <1>2. ASSUME NEW d \in Docs, WriterStep(d) PROVE Fresh'
    BY <1>2, WriterFresh
  <1>3. ASSUME NEW w \in Workers, SkipUpToDate(w) PROVE Fresh'
    BY <1>0, <1>3, Zenon DEF SkipUpToDate
  <1>4. ASSUME NEW w \in Workers, BeginCompare(w) PROVE Fresh'
    <2>1. PICK j \in queue :
            /\ handler' = [handler EXCEPT ![w] = [IdleHandler EXCEPT
                             !.pc = "read", !.job = JobId(j), !.inv = j.inv,
                             !.known = Succeeded(j.inv)]]
            /\ doc' = doc /\ writer' = writer /\ runs' = runs
      BY <1>4, Zenon DEF BeginCompare
    <2>2. w \in Handlers
      BY DEF Handlers
    <2>3. OnlyHandler(w) /\ handler'[w].pc = "read"
      BY <2>1, BeginCompareDoes, Zenon
    <2>4. \A d \in Docs : ReaderFresh(w, d)'
      BY <2>3 DEF ReaderFresh, Reading
    <2> QED
      BY <2>1, <2>2, <2>3, <2>4, HandlerFresh, Zenon
  <1>5. ASSUME NEW h \in Handlers, NEW i \in Invoices, LoadPair(h, i) PROVE Fresh'
    <2>1. doc' = doc /\ writer' = writer /\ runs' = runs
      BY <1>5, Zenon DEF LoadPair
    <2>2. /\ OnlyHandler(h) /\ handler'[h].pc = "receipts" /\ handler'[h].inv = i
          /\ \A d \in Docs : d \in {PO, i} => handler'[h].reads[d] = doc[d].lines
          /\ handler'[h].overlap = {d \in Docs : writer[d].pc = "stamped"}
      BY <1>5, LoadPairDoes
    <2>3. \A d \in Docs : ReaderFresh(h, d)'
      BY <2>1, <2>2 DEF ReaderFresh, Seen
    <2> QED
      BY <2>1, <2>2, <2>3, HandlerFresh, Zenon
  <1>6. ASSUME NEW w \in Workers, ReadPair(w) PROVE Fresh'
    <2>1. w \in Handlers
      BY DEF Handlers
    <2>2. LoadPair(w, handler[w].inv) /\ handler[w].pc # "idle"
      BY <1>6, Zenon DEF ReadPair
    <2> QED
      BY <1>5, <2>1, <2>2, Zenon DEF Routed, HandlerRouted
  <1>7. ASSUME NEW u \in Users, ManualCompare(u) PROVE Fresh'
    BY <1>5, <1>7, Zenon DEF ManualCompare, Handlers
  <1>8. ASSUME NEW w \in Workers, TimeOut(w) PROVE Fresh'
    <2>1. w \in Handlers
      BY DEF Handlers
    <2>2. /\ doc' = doc /\ writer' = writer /\ runs' = runs
          /\ OnlyHandler(w) /\ handler'[w].pc = handler[w].pc
          /\ handler'[w].inv = handler[w].inv
          /\ handler'[w].reads = handler[w].reads /\ handler'[w].overlap = handler[w].overlap
      BY <1>8, TimeOutDoes, TimeOutLeaves, Zenon
    <2>3. ASSUME NEW d \in Docs PROVE ReaderFresh(w, d)'
      <3>1. ReaderFresh(w, d)
        BY <2>1 DEF Fresh
      <3> QED
        BY <2>2, <3>1 DEF ReaderFresh, Seen, DoneReceipts, Reading
    <2> QED
      BY <2>1, <2>2, <2>3, HandlerFresh, Zenon
  <1>9. ASSUME NEW h \in Handlers, ReadReceipts(h) PROVE Fresh'
    <2>1. doc' = doc /\ writer' = writer /\ runs' = runs
      BY <1>9, Zenon DEF ReadReceipts
    <2>2. /\ OnlyHandler(h) /\ handler[h].pc = "receipts" /\ handler'[h].pc = "insert"
          /\ handler'[h].inv = handler[h].inv
          /\ \A d \in Docs :
              /\ d \in DoneReceipts => handler'[h].reads[d] = doc[d].lines
              /\ d \notin DoneReceipts => handler'[h].reads[d] = handler[h].reads[d]
          /\ handler'[h].overlap = handler[h].overlap
      BY <1>9, ReadReceiptsDoes, Zenon DEF SameHand
    <2>3. ASSUME NEW d \in Docs PROVE ReaderFresh(h, d)'
      <3>1. ReaderFresh(h, d) /\ h \in Reading
        BY <2>2 DEF Fresh, Reading
      <3>2. d \in Seen(h)' => d \in Seen(h) \/ d \in DoneReceipts
        BY <2>1, <2>2 DEF Seen, DoneReceipts
      <3> QED
        BY <2>1, <2>2, <3>1, <3>2 DEF ReaderFresh
    <2> QED
      BY <2>1, <2>2, <2>3, HandlerFresh, Zenon
  <1>10. ASSUME NEW h \in Handlers, InsertRun(h) PROVE Fresh'
    <2>1. handler[h].inv \in Invoices
      BY <1>10, Zenon DEF InsertRun, Routed, HandlerRouted
    <2>2. OnlyHandler(h) /\ handler[h].pc = "insert" /\ handler'[h].pc = "engine"
      BY <1>10, <2>1, InsertRunDoes, Zenon
    <2>3. PICK r \in Run : /\ RunAdded(r) /\ r.inv = handler[h].inv
                           /\ r.reads = handler[h].reads /\ r.overlap = handler[h].overlap
      BY <1>10, <2>1, InsertRunDoes, Zenon
    <2>4. doc' = doc /\ writer' = writer
      BY <1>10, Zenon DEF InsertRun
    <2>5. /\ DOMAIN runs \subseteq DOMAIN runs'
          /\ \A n \in DOMAIN runs : runs'[n] = runs[n]
          /\ \A n \in DOMAIN runs' \ DOMAIN runs : runs'[n] = r
      BY <2>3, Zenon DEF RunAdded
    <2>6. ASSUME NEW n \in DOMAIN runs' \ DOMAIN runs, NEW d \in Docs PROVE RunFresh(n, d)'
      <3>1. ReaderFresh(h, d) /\ h \in Reading
        BY <2>2 DEF Fresh, Reading
      <3>2. runs'[n] = r
        BY <2>5
      <3>3. d \in RestsOn(n)' => d \in Seen(h)
        BY <2>2, <2>3, <2>4, <3>2 DEF RestsOn, Seen, DoneReceipts
      <3> QED
        BY <2>3, <2>4, <3>1, <3>2, <3>3, Zenon DEF ReaderFresh, RunFresh, ReadCurrent
    <2>7. \A d \in Docs : ReaderFresh(h, d)'
      BY <2>2 DEF ReaderFresh, Reading
    <2> QED
      BY <2>2, <2>4, <2>5, <2>6, <2>7, HandlerFresh, Zenon
  <1>11. ASSUME NEW h \in Handlers, HandlerEnd(h) PROVE Fresh'
    <2>1. doc' = doc /\ writer' = writer /\ OnlyHandler(h) /\ handler'[h] = IdleHandler
      BY <1>11, HandlerEndDoes, Zenon
    <2>2. /\ DOMAIN runs' = DOMAIN runs
          /\ \A n \in DOMAIN runs : /\ runs'[n].inv = runs[n].inv /\ runs'[n].reads = runs[n].reads
                                    /\ runs'[n].overlap = runs[n].overlap
                                    /\ runs'[n].startedAt = runs[n].startedAt
      BY <1>11, HandlerEndDoes, Zenon DEF StatusSet
    <2>3. \A d \in Docs : ReaderFresh(h, d)'
      BY <2>1, IdleHandlerType DEF ReaderFresh, Reading
    <2> QED
      BY <2>1, <2>2, <2>3, HandlerFresh, Zenon
  <1> QED
    BY <1>1, <1>2, <1>3, <1>4, <1>6, <1>7, <1>8, <1>9, <1>10, <1>11, NextCases, Zenon

\* The freshness check is right: no document that feeds the pair has been stamped since its
\* latest run.
LEMMA FreshFollows == TypeOK /\ Fresh => FreshUnlessOverlapped
  <1> SUFFICES ASSUME TypeOK, Fresh, NEW i \in Invoices, IsUpToDate(i),
                      NEW n \in LatestRuns(i), NEW d \in Feeding(i)
               PROVE  ReadCurrent(n, d) \/ d \in runs[n].overlap
    BY DEF FreshUnlessOverlapped
  <1>1. PICK m \in LatestRuns(i) : runs[m].startedAt > InputVersion(i)
    BY DEF IsUpToDate
  <1>2. /\ n \in DOMAIN runs /\ m \in DOMAIN runs /\ runs[n].inv = i
        /\ runs[m].startedAt <= runs[n].startedAt
    BY DEF LatestRuns, Succeeded
  <1>3. d \in Docs /\ doc[d].at <= InputVersion(i) /\ InputVersion(i) \in Nat
    BY NewestInput DEF Feeding, Docs, DoneReceipts
  <1>4. d \in RestsOn(n)
    BY <1>2 DEF RestsOn, Feeding
  <1>5. RunFresh(n, d)
    BY <1>2, <1>3 DEF Fresh
  <1>6. ~(doc[d].at >= runs[n].startedAt)
    BY <1>1, <1>2, <1>3, RunFields, DocFields
  <1> QED
    BY <1>4, <1>5, <1>6 DEF RunFresh

-----------------------------------------------------------------------------
(* Automation reads on *)

\* The steps that leave the documents and their writers alone.
LEMMA HandlersOnly ==
  ASSUME TypeOK, Timed, Next, ~Tick, \A d \in Docs : ~WriterStep(d)
  PROVE  doc' = doc /\ writer' = writer
  <1>1. ASSUME NEW w \in Workers, SkipUpToDate(w) \/ BeginCompare(w) \/ ReadPair(w) \/ TimeOut(w)
        PROVE  doc' = doc /\ writer' = writer
    BY <1>1, Zenon DEF SkipUpToDate, BeginCompare, ReadPair, LoadPair, TimeOut
  <1>2. ASSUME NEW u \in Users, ManualCompare(u) PROVE doc' = doc /\ writer' = writer
    BY <1>2, Zenon DEF ManualCompare, LoadPair
  <1>3. ASSUME NEW h \in Handlers, ReadReceipts(h) \/ InsertRun(h) \/ HandlerEnd(h)
        PROVE  doc' = doc /\ writer' = writer
    BY <1>3, HandlerEndDoes, Zenon DEF ReadReceipts, InsertRun
  <1> QED
    BY <1>1, <1>2, <1>3, NextCases, Zenon

\* A writer only adds lines, and changes nothing of the readings.
LEMMA WriterGrows ==
  ASSUME TypeOK, NEW d \in Docs, WriterStep(d)
  PROVE  /\ \A e \in Docs : doc'[e].lines \in Nat /\ doc[e].lines <= doc'[e].lines
         /\ \A h \in Handlers : /\ handler'[h].reads = handler[h].reads
                                /\ handler'[h].pc = handler[h].pc
                                /\ handler'[h].inv = handler[h].inv
                                /\ handler'[h].known = handler[h].known
         /\ runs' = runs
  <1>1. runs' = runs /\ \A e \in Docs : e # d => doc'[e] = doc[e]
    BY WriterLeaves, Zenon DEF OnlyDoc
  <1>2. \A h \in Handlers : /\ handler'[h].reads = handler[h].reads
                            /\ handler'[h].pc = handler[h].pc
                            /\ handler'[h].inv = handler[h].inv
                            /\ handler'[h].known = handler[h].known
    BY WriterLeaves, StampOverlaps, Zenon DEF SameHand
  <1>3. doc'[d].lines = doc[d].lines \/ doc'[d].lines = doc[d].lines + 1
    BY WriterKinds, Zenon
  <1>4. \A e \in Docs : doc'[e].lines \in Nat /\ doc[e].lines <= doc'[e].lines
    BY <1>1, <1>3, DocFields
  <1> QED
    BY <1>1, <1>2, <1>4

\* Only handler h changes, and it and the new runs have read lines there are.
LEMMA HandlerGrown ==
  ASSUME TypeOK, Grown, doc' = doc, NEW h \in Handlers, OnlyHandler(h),
         \A d \in Docs : handler'[h].reads[d] <= doc[d].lines,
         \A n \in DOMAIN runs' : \/ n \in DOMAIN runs /\ runs'[n].reads = runs[n].reads
                                 \/ runs'[n].reads = handler[h].reads
  PROVE  Grown'
  <1>1. \A g \in Handlers, d \in Docs : handler'[g].reads[d] <= doc[d].lines
    BY Zenon DEF Grown, OnlyHandler
  <1>2. \A n \in DOMAIN runs', d \in Docs : runs'[n].reads[d] <= doc[d].lines
    BY Zenon DEF Grown
  <1> QED
    BY <1>1, <1>2, Zenon DEF Grown

LEMMA GrownStep == TypeOK /\ Timed /\ Routed /\ Grown /\ Next => Grown'
  <1> SUFFICES ASSUME TypeOK, Timed, Routed, Grown, Next PROVE Grown'
    OBVIOUS
  <1>0. ASSUME doc' = doc, handler' = handler, runs' = runs PROVE Grown'
    BY <1>0, Zenon DEF Grown
  <1>1. CASE Tick
    BY <1>0, <1>1, Zenon DEF Tick
  <1>2. ASSUME NEW d \in Docs, WriterStep(d) PROVE Grown'
    <2>1. ASSUME NEW h \in Handlers, NEW e \in Docs PROVE handler'[h].reads[e] <= doc'[e].lines
      <3>1. handler[h].reads[e] <= doc[e].lines /\ handler[h].reads[e] \in Nat
        BY HandlerFields DEF Grown
      <3> QED
        BY <1>2, <3>1, WriterGrows, DocFields
    <2>2. ASSUME NEW n \in DOMAIN runs, NEW e \in Docs PROVE runs[n].reads[e] <= doc'[e].lines
      <3>1. runs[n].reads[e] <= doc[e].lines /\ runs[n].reads[e] \in Nat
        BY RunFields DEF Grown
      <3> QED
        BY <1>2, <3>1, WriterGrows, DocFields
    <2>3. runs' = runs
      BY <1>2, WriterGrows
    <2> QED
      BY <2>1, <2>2, <2>3, Zenon DEF Grown
  <1>3. ASSUME NEW w \in Workers, SkipUpToDate(w) PROVE Grown'
    BY <1>0, <1>3, Zenon DEF SkipUpToDate
  <1>4. ASSUME NEW w \in Workers, BeginCompare(w) PROVE Grown'
    <2>1. PICK j \in queue :
            /\ handler' = [handler EXCEPT ![w] = [IdleHandler EXCEPT
                             !.pc = "read", !.job = JobId(j), !.inv = j.inv,
                             !.known = Succeeded(j.inv)]]
            /\ doc' = doc /\ runs' = runs
      BY <1>4, Zenon DEF BeginCompare
    <2>2. w \in Handlers
      BY DEF Handlers
    <2>3. OnlyHandler(w) /\ handler'[w].reads = Unread
      BY <2>1, BeginCompareDoes, Zenon
    <2>4. \A d \in Docs : handler'[w].reads[d] <= doc[d].lines
      BY <2>3, DocFields DEF Unread
    <2> QED
      BY <2>1, <2>2, <2>3, <2>4, HandlerGrown, Zenon
  <1>5. ASSUME NEW h \in Handlers, NEW i \in Invoices, LoadPair(h, i) PROVE Grown'
    <2>1. doc' = doc /\ runs' = runs
      BY <1>5, Zenon DEF LoadPair
    <2>2. OnlyHandler(h)
      BY <1>5, LoadPairDoes, Zenon
    <2>3. \A d \in Docs : handler'[h].reads[d] <= doc[d].lines
      BY <1>5, LoadPairDoes, DocFields
    <2> QED
      BY <2>1, <2>2, <2>3, HandlerGrown, Zenon
  <1>6. ASSUME NEW w \in Workers, ReadPair(w) PROVE Grown'
    <2>1. w \in Handlers
      BY DEF Handlers
    <2>2. LoadPair(w, handler[w].inv) /\ handler[w].pc # "idle"
      BY <1>6, Zenon DEF ReadPair
    <2> QED
      BY <1>5, <2>1, <2>2, Zenon DEF Routed, HandlerRouted
  <1>7. ASSUME NEW u \in Users, ManualCompare(u) PROVE Grown'
    BY <1>5, <1>7, Zenon DEF ManualCompare, Handlers
  <1>8. ASSUME NEW w \in Workers, TimeOut(w) PROVE Grown'
    <2>1. w \in Handlers
      BY DEF Handlers
    <2>2. /\ doc' = doc /\ runs' = runs /\ OnlyHandler(w)
          /\ handler'[w].reads = handler[w].reads
      BY <1>8, TimeOutDoes, TimeOutLeaves, Zenon
    <2>3. \A d \in Docs : handler'[w].reads[d] <= doc[d].lines
      BY <2>1, <2>2 DEF Grown
    <2> QED
      BY <2>1, <2>2, <2>3, HandlerGrown, Zenon
  <1>9. ASSUME NEW h \in Handlers, ReadReceipts(h) PROVE Grown'
    <2>1. doc' = doc /\ runs' = runs
      BY <1>9, Zenon DEF ReadReceipts
    <2>2. OnlyHandler(h)
      BY <1>9, ReadReceiptsDoes, Zenon
    <2>3. \A d \in Docs : handler'[h].reads[d] <= doc[d].lines
      BY <1>9, ReadReceiptsDoes, DocFields DEF Grown
    <2> QED
      BY <2>1, <2>2, <2>3, HandlerGrown, Zenon
  <1>10. ASSUME NEW h \in Handlers, InsertRun(h) PROVE Grown'
    <2>1. handler[h].inv \in Invoices
      BY <1>10, Zenon DEF InsertRun, Routed, HandlerRouted
    <2>2. OnlyHandler(h) /\ handler'[h].reads = handler[h].reads
      BY <1>10, <2>1, InsertRunDoes, Zenon
    <2>3. PICK r \in Run : RunAdded(r) /\ r.reads = handler[h].reads
      BY <1>10, <2>1, InsertRunDoes, Zenon
    <2>4. \A n \in DOMAIN runs' : \/ n \in DOMAIN runs /\ runs'[n].reads = runs[n].reads
                                  \/ runs'[n].reads = handler[h].reads
      BY <2>3, Zenon DEF RunAdded
    <2>5. doc' = doc
      BY <1>10, Zenon DEF InsertRun
    <2>6. \A d \in Docs : handler'[h].reads[d] <= doc[d].lines
      BY <2>2 DEF Grown
    <2> QED
      BY <2>2, <2>4, <2>5, <2>6, HandlerGrown, Zenon
  <1>11. ASSUME NEW h \in Handlers, HandlerEnd(h) PROVE Grown'
    <2>1. doc' = doc /\ OnlyHandler(h) /\ handler'[h].reads = Unread
      BY <1>11, HandlerEndDoes, IdleHandlerType, Zenon
    <2>2. \A d \in Docs : handler'[h].reads[d] <= doc[d].lines
      BY <2>1, DocFields DEF Unread
    <2>3. \A n \in DOMAIN runs' : n \in DOMAIN runs /\ runs'[n].reads = runs[n].reads
      BY <1>11, HandlerEndDoes, Zenon DEF StatusSet
    <2> QED
      BY <2>1, <2>2, <2>3, HandlerGrown, Zenon
  <1> QED
    BY <1>1, <1>2, <1>3, <1>4, <1>6, <1>7, <1>8, <1>9, <1>10, <1>11, NextCases, Zenon

\* The runs there were keep all but their status.
RunsKept ==
  /\ DOMAIN runs \subseteq DOMAIN runs'
  /\ \A m \in DOMAIN runs :
       /\ runs'[m].inv = runs[m].inv /\ runs'[m].known = runs[m].known
       /\ runs'[m].startedAt = runs[m].startedAt /\ runs'[m].reads = runs[m].reads
       /\ runs'[m].tied = runs[m].tied

LEMMA RunsAreKept ==
  ASSUME TypeOK, Timed, Routed, Next
  PROVE  RunsKept /\ (DOMAIN runs' = DOMAIN runs \/ \E h \in Handlers : InsertRun(h))
  <1>1. ASSUME runs' = runs PROVE RunsKept /\ DOMAIN runs' = DOMAIN runs
    BY <1>1, Zenon DEF RunsKept
  <1>2. ASSUME NEW d \in Docs, WriterStep(d) PROVE runs' = runs
    BY <1>2, WriterLeaves, Zenon
  <1>3. ASSUME NEW w \in Workers, SkipUpToDate(w) \/ BeginCompare(w) \/ ReadPair(w) \/ TimeOut(w)
        PROVE  runs' = runs
    BY <1>3, Zenon DEF SkipUpToDate, BeginCompare, ReadPair, LoadPair, TimeOut
  <1>4. ASSUME NEW u \in Users, ManualCompare(u) PROVE runs' = runs
    BY <1>4, Zenon DEF ManualCompare, LoadPair
  <1>5. ASSUME NEW h \in Handlers, ReadReceipts(h) PROVE runs' = runs
    BY <1>5, Zenon DEF ReadReceipts
  <1>6. ASSUME NEW h \in Handlers, InsertRun(h) PROVE RunsKept
    <2>1. handler[h].inv \in Invoices
      BY <1>6, Zenon DEF InsertRun, Routed, HandlerRouted
    <2>2. PICK r \in Run : RunAdded(r)
      BY <1>6, <2>1, InsertRunDoes, Zenon
    <2> QED
      BY <2>2, Zenon DEF RunAdded, RunsKept
  <1>7. ASSUME NEW h \in Handlers, HandlerEnd(h) PROVE RunsKept /\ DOMAIN runs' = DOMAIN runs
    BY <1>1, <1>7, HandlerEndDoes, Zenon DEF StatusSet, RunsKept
  <1>8. CASE Tick
    BY <1>1, <1>8, Zenon DEF Tick
  <1> QED
    BY <1>1, <1>2, <1>3, <1>4, <1>5, <1>6, <1>7, <1>8, NextCases, Zenon

\* Nothing that feeds the pair of a new run, unless it is tied, is stamped in its
\* millisecond; what is stamped later brings lines the run has not read.
LEMMA PassedStep ==
  ASSUME TypeOK, Timed, Routed, Grown, Next, \A m \in DOMAIN runs : Passed(m)
  PROVE  \A m \in DOMAIN runs' : Passed(m)'
  <1>0. RunsKept
    BY RunsAreKept
  <1>1. ASSUME NEW d \in Docs, WriterStep(d), NEW m \in DOMAIN runs PROVE Passed(m)'
    <2>1. runs' = runs /\ \A e \in Docs : e # d => doc'[e] = doc[e]
      BY <1>1, WriterLeaves, Zenon DEF OnlyDoc
    <2>2. Passed(m) /\ Sides(runs[m].inv) \subseteq Docs
      BY RunFields DEF Sides, Docs
    <2>3. ASSUME ~runs[m].tied, d \in Sides(runs[m].inv), doc'[d].status = "done"
          PROVE  doc'[d].at < runs[m].startedAt \/ runs[m].reads[d] < doc'[d].lines
      <3>1. CASE doc'[d] = doc[d]
        BY <2>2, <2>3, <3>1, Zenon DEF Passed
      <3>2. CASE doc'[d].status # "done"
        BY <2>3, <3>2
      <3>3. CASE doc'[d].lines = doc[d].lines + 1
        BY <3>3, RunFields, DocFields DEF Grown
      <3> QED
        BY <1>1, <3>1, <3>2, <3>3, WriterKinds, Zenon
    <2> QED
      BY <2>1, <2>2, <2>3, Zenon DEF Passed
  <1>2. ASSUME doc' = doc, NEW m \in DOMAIN runs PROVE Passed(m)'
    BY <1>0, <1>2, Zenon DEF Passed, RunsKept
  <1>3. ASSUME NEW h \in Handlers, InsertRun(h), NEW m \in DOMAIN runs' \ DOMAIN runs
        PROVE  Passed(m)'
    <2>1. handler[h].inv \in Invoices
      BY <1>3, Zenon DEF InsertRun, Routed, HandlerRouted
    <2>2. PICK i \in Invoices : i = handler[h].inv
      BY <2>1
    <2>3. PICK r \in Run : /\ RunAdded(r) /\ r.inv = i /\ r.startedAt = clock
                           /\ r.tied = (InputVersion(i) = clock)
      BY <1>3, <2>1, <2>2, InsertRunDoes, Zenon
    <2>4. runs'[m] = r /\ doc' = doc
      BY <1>3, <2>3, Zenon DEF RunAdded, InsertRun
    <2>5. ASSUME InputVersion(i) # clock, NEW d \in Sides(i), doc[d].status = "done"
          PROVE  doc[d].at < clock
      <3>1. d \in Feeding(i) /\ d \in Docs
        BY <2>5 DEF Sides, Feeding, DoneReceipts, Docs
      <3>2. doc[d].at <= InputVersion(i) /\ InputVersion(i) <= clock /\ InputVersion(i) \in Nat
        BY <3>1, NewestInput, InputNotLater
      <3>3. clock \in Nat
        BY BoundsNatural DEF TypeOK
      <3> QED
        BY <2>5, <3>1, <3>2, <3>3, DocFields
    <2> QED
      BY <2>3, <2>4, <2>5, Zenon DEF Passed
  <1>4. \A m \in DOMAIN runs : Passed(m)'
    <2>1. CASE Tick
      BY <1>2, <2>1, Zenon DEF Tick
    <2> QED
      BY <1>1, <1>2, <2>1, HandlersOnly, Zenon
  <1> QED
    BY <1>3, <1>4, RunsAreKept, Zenon

\* The runs a handler knew when it began, and a run's, are runs.
LEMMA KnownStep ==
  ASSUME TypeOK, Timed, Routed, Next,
         \A h \in Handlers : handler[h].known \subseteq DOMAIN runs,
         \A n \in DOMAIN runs : runs[n].known \subseteq DOMAIN runs
  PROVE  /\ \A h \in Handlers : handler'[h].known \subseteq DOMAIN runs'
         /\ \A n \in DOMAIN runs' : runs'[n].known \subseteq DOMAIN runs'
  <1>0. DOMAIN runs \subseteq DOMAIN runs' /\ RunsKept
    BY RunsAreKept DEF RunsKept
  <1>1. ASSUME NEW h \in Handlers, OnlyHandler(h), handler'[h].known \subseteq DOMAIN runs
        PROVE  \A g \in Handlers : handler'[g].known \subseteq DOMAIN runs
    BY <1>1, Zenon DEF OnlyHandler
  <1>2. \A h \in Handlers : handler'[h].known \subseteq DOMAIN runs
    <2>0. CASE handler' = handler
      BY <2>0
    <2>1. ASSUME NEW d \in Docs, WriterStep(d)
          PROVE  \A h \in Handlers : handler'[h].known \subseteq DOMAIN runs
      BY <2>1, WriterGrows, Zenon
    <2>2. ASSUME NEW w \in Workers, BeginCompare(w)
          PROVE  \A h \in Handlers : handler'[h].known \subseteq DOMAIN runs
      <3>1. PICK j \in queue : handler' = [handler EXCEPT ![w] = [IdleHandler EXCEPT
                                 !.pc = "read", !.job = JobId(j), !.inv = j.inv,
                                 !.known = Succeeded(j.inv)]]
        BY <2>2, Zenon DEF BeginCompare
      <3>2. OnlyHandler(w) /\ handler'[w].known = Succeeded(j.inv) /\ w \in Handlers
        BY <3>1, BeginCompareDoes, Zenon DEF Handlers
      <3> QED
        BY <1>1, <3>2, SucceededType, Zenon
    <2>3. ASSUME NEW h \in Handlers, NEW i \in Invoices, LoadPair(h, i)
          PROVE  \A g \in Handlers : handler'[g].known \subseteq DOMAIN runs
      BY <1>1, <2>3, LoadPairDoes, Zenon
    <2>4. ASSUME NEW w \in Workers, ReadPair(w)
          PROVE  \A g \in Handlers : handler'[g].known \subseteq DOMAIN runs
      <3>1. w \in Handlers
        BY DEF Handlers
      <3>2. LoadPair(w, handler[w].inv) /\ handler[w].pc # "idle"
        BY <2>4, Zenon DEF ReadPair
      <3> QED
        BY <2>3, <3>1, <3>2, Zenon DEF Routed, HandlerRouted
    <2>5. ASSUME NEW u \in Users, ManualCompare(u)
          PROVE  \A g \in Handlers : handler'[g].known \subseteq DOMAIN runs
      BY <2>3, <2>5, Zenon DEF ManualCompare, Handlers
    <2>6. ASSUME NEW w \in Workers, TimeOut(w)
          PROVE  \A g \in Handlers : handler'[g].known \subseteq DOMAIN runs
      BY <1>1, <2>6, TimeOutDoes, Zenon DEF Handlers
    <2>7. ASSUME NEW h \in Handlers, ReadReceipts(h)
          PROVE  \A g \in Handlers : handler'[g].known \subseteq DOMAIN runs
      BY <1>1, <2>7, ReadReceiptsDoes, Zenon DEF SameHand
    <2>8. ASSUME NEW h \in Handlers, InsertRun(h)
          PROVE  \A g \in Handlers : handler'[g].known \subseteq DOMAIN runs
      <3>1. handler[h].inv \in Invoices
        BY <2>8, Zenon DEF InsertRun, Routed, HandlerRouted
      <3> QED
        BY <1>1, <2>8, <3>1, InsertRunDoes, Zenon DEF SameHand
    <2>9. ASSUME NEW h \in Handlers, HandlerEnd(h)
          PROVE  \A g \in Handlers : handler'[g].known \subseteq DOMAIN runs
      <3>1. OnlyHandler(h) /\ handler'[h].known = {}
        BY <2>9, HandlerEndDoes, IdleHandlerType, Zenon
      <3>2. handler'[h].known \subseteq DOMAIN runs
        BY <3>1
      <3> QED
        BY <1>1, <3>1, <3>2, Zenon
    <2> QED
      BY <2>0, <2>1, <2>2, <2>4, <2>5, <2>6, <2>7, <2>8, <2>9, NextCases, Zenon
         DEF Tick, SkipUpToDate
  <1>3. ASSUME NEW h \in Handlers, InsertRun(h), NEW n \in DOMAIN runs' \ DOMAIN runs
        PROVE  runs'[n].known \subseteq DOMAIN runs
    <2>1. handler[h].inv \in Invoices
      BY <1>3, Zenon DEF InsertRun, Routed, HandlerRouted
    <2>2. PICK r \in Run : RunAdded(r) /\ r.known = handler[h].known
      BY <1>3, <2>1, InsertRunDoes, Zenon
    <2>3. runs'[n] = r
      BY <1>3, <2>2, Zenon DEF RunAdded
    <2> QED
      BY <2>2, <2>3
  <1>4. \A n \in DOMAIN runs' : runs'[n].known \subseteq DOMAIN runs
    BY <1>0, <1>3, RunsAreKept, Zenon DEF RunsKept
  <1> QED
    BY <1>0, <1>2, <1>4

\* A pair that is not up to date has, for each run that succeeded, an input stamped as late
\* as the run.
LEMMA StaleInput ==
  ASSUME TypeOK, NEW i \in Invoices, ~IsUpToDate(i), NEW m \in Succeeded(i)
  PROVE  \E d \in Feeding(i) : doc[d].at >= runs[m].startedAt
  <1> DEFINE S == {runs[n].startedAt : n \in Succeeded(i)}
  <1>1. \A n \in Succeeded(i) : runs[n].startedAt \in 0..MaxClock
    BY SucceededType, RunFields
  <1>2. S \subseteq Nat /\ S # {} /\ MaxClock \in Nat /\ \A x \in S : x <= MaxClock
    BY <1>1, BoundsNatural
  <1>3. Max(S) \in S /\ \A x \in S : x <= Max(S)
    BY <1>2, MaxOf, Zenon
  <1>4. PICK n \in Succeeded(i) : \A k \in Succeeded(i) : runs[k].startedAt <= runs[n].startedAt
    <2>1. PICK n \in Succeeded(i) : runs[n].startedAt = Max(S)
      BY <1>3
    <2> HIDE DEF S
    <2>2. \A k \in Succeeded(i) : runs[k].startedAt \in S
      BY DEF S
    <2> QED
      BY <1>3, <2>1, <2>2
  <1>5. ~(runs[n].startedAt > InputVersion(i))
    BY <1>4 DEF IsUpToDate, LatestRuns
  <1>6. PICK d \in Feeding(i) : doc[d].at = InputVersion(i)
    BY NewestInput
  <1>7. doc[d].at >= runs[m].startedAt
    BY <1>1, <1>4, <1>5, <1>6, NewestInput, BoundsNatural
  <1> QED
    BY <1>7

\* A step without a fault.
LEMMA NoFault ==
  ASSUME TypeOK, Timed, Next, faults' = 0
  PROVE  /\ faults = 0
         /\ \A d \in Docs : ~EnqueueFails(d) /\ ~ParseWorkerDies(d)
         /\ \A w \in Workers : ~TimeOut(w)
  <1>1. faults \in Nat
    BY BoundsNatural DEF TypeOK
  <1>2. ~Fault
    BY <1>1 DEF Fault
  <1>3. faults = 0
    <2>1. ASSUME NEW d \in Docs, WriterStep(d) PROVE faults = 0
      BY <1>1, <2>1, WriterLeaves
    <2>2. ASSUME NEW h \in Handlers, HandlerEnd(h) PROVE faults = 0
      BY <1>1, <2>2, HandlerEndDoes
    <2>3. ASSUME NEW w \in Workers, SkipUpToDate(w) \/ BeginCompare(w) \/ ReadPair(w) \/ TimeOut(w)
          PROVE  faults = 0
      BY <1>2, <2>3, Zenon DEF SkipUpToDate, BeginCompare, ReadPair, LoadPair, TimeOut
    <2>4. ASSUME NEW u \in Users, ManualCompare(u) PROVE faults = 0
      BY <2>4, Zenon DEF ManualCompare, LoadPair
    <2>5. ASSUME NEW h \in Handlers, ReadReceipts(h) \/ InsertRun(h) PROVE faults = 0
      BY <2>5, Zenon DEF ReadReceipts, InsertRun
    <2>6. CASE Tick
      BY <2>6, Zenon DEF Tick
    <2> QED
      BY <2>1, <2>2, <2>3, <2>4, <2>5, <2>6, NextCases, Zenon
  <1>4. /\ \A d \in Docs : ~EnqueueFails(d) /\ ~ParseWorkerDies(d)
        /\ \A w \in Workers : ~TimeOut(w)
    BY <1>2, Zenon DEF EnqueueFails, ParseWorkerDies, TimeOut
  <1> QED
    BY <1>3, <1>4

\* Without a fault, a writer leaves what is done done, and is never queued again.
LEMMA DoneStays ==
  ASSUME TypeOK, Timed, Written, Steady, Next, faults' = 0, NEW d \in Docs, WriterStep(d)
  PROVE  /\ \A e \in Docs : doc[e].status = "done" => doc'[e].status = "done"
         /\ \A e \in Docs : writer'[e].pc # "queued"
  <1>1. writer[d].pc # "queued" /\ ~EnqueueFails(d) /\ ~ParseWorkerDies(d)
    BY NoFault DEF Steady
  <1>2. doc[d].status = "done" => doc'[d].status = "done"
    <2>1. CASE StartParse(d)
      BY <1>1, <2>1, Zenon DEF StartParse
    <2>2. CASE FailParse(d)
      BY <2>2, Zenon DEF FailParse, Written
    <2>3. CASE StampParse(d) \/ StampReview(d)
      BY <2>3, StampDoes
    <2>4. CASE CommitLines(d)
      BY <2>4, CommitLinesDoes
    <2>5. CASE ResolvePairs(d)
      BY <2>5, ResolvePairsDoes
    <2>6. CASE AddPairs(d)
      BY <2>6, WriterEnds
    <2> QED
      BY <1>1, <2>1, <2>2, <2>3, <2>4, <2>5, <2>6, Zenon DEF WriterStep
  <1>3. writer'[d].pc # "queued"
    <2>1. CASE StartParse(d)
      BY <2>1, StartParseDoes
    <2>2. CASE FailParse(d)
      BY <2>2, FailParseDoes DEF IdleWriter
    <2>3. CASE StampParse(d) \/ StampReview(d)
      BY <2>3, StampDoes
    <2>4. CASE CommitLines(d)
      BY <2>4, CommitLinesDoes
    <2>5. CASE ResolvePairs(d)
      BY <2>5, ResolvePairsDoes
    <2>6. CASE AddPairs(d)
      BY <2>6, WriterEnds DEF IdleWriter
    <2> QED
      BY <1>1, <2>1, <2>2, <2>3, <2>4, <2>5, <2>6, Zenon DEF WriterStep
  <1>4. \A e \in Docs : e # d => doc'[e] = doc[e] /\ writer'[e] = writer[e]
    BY WriterLeaves, Zenon DEF OnlyDoc
  <1> QED
    BY <1>2, <1>3, <1>4, Zenon DEF Steady

\* A writer leaves the handlers reading on.
LEMMA WriterSteady ==
  ASSUME TypeOK, Timed, Written, Routed, Steady, Next, faults' = 0,
         \A h \in Handlers : handler[h].known \subseteq DOMAIN runs,
         NEW d \in Docs, WriterStep(d)
  PROVE  Steady'
  <1>1. /\ \A e \in Docs : doc'[e].lines \in Nat /\ doc[e].lines <= doc'[e].lines
        /\ \A h \in Handlers : /\ handler'[h].reads = handler[h].reads
                               /\ handler'[h].pc = handler[h].pc
                               /\ handler'[h].inv = handler[h].inv
                               /\ handler'[h].known = handler[h].known
        /\ runs' = runs
    BY WriterGrows
  <1>2. /\ \A e \in Docs : doc[e].status = "done" => doc'[e].status = "done"
        /\ \A e \in Docs : writer'[e].pc # "queued"
    BY DoneStays
  <1>3. \A i \in Invoices : SidesDone(i) => doc'[PO].status = "done" /\ doc'[i].status = "done"
    BY <1>2, Zenon DEF SidesDone, Docs
  <1>4. \A n \in DOMAIN runs : doc'[PO].status = "done" /\ doc'[runs[n].inv].status = "done"
    <2>1. \A n \in DOMAIN runs : runs[n].inv \in Invoices
      BY RunFields
    <2> QED
      BY <1>3, <2>1, Zenon DEF Steady
  <1>5. \A h \in Handlers : handler'[h].pc \in {"receipts", "insert", "engine"} =>
          doc'[PO].status = "done" /\ doc'[handler'[h].inv].status = "done"
    <2>1. \A h \in Handlers : handler[h].pc \in {"receipts", "insert", "engine"} =>
            handler[h].inv \in Invoices /\ SidesDone(handler[h].inv)
      BY DEF Routed, HandlerRouted, Steady
    <2> QED
      BY <1>1, <1>3, <2>1, Zenon
  <1>6. ASSUME NEW h \in Handlers, NEW m \in handler[h].known PROVE Outreads(h, m)'
    <2>1. Outreads(h, m) /\ m \in DOMAIN runs
      BY DEF Steady
    <2>2. \A e \in Docs : runs[m].reads[e] < doc[e].lines => runs[m].reads[e] < doc'[e].lines
      BY <1>1, <2>1, RunFields, DocFields
    <2> QED
      BY <1>1, <1>2, <2>1, <2>2, Zenon DEF Outreads, StillReads, HasRead
  <1>7. \A n \in DOMAIN runs : \A m \in runs[n].known : Outread(n, m)'
    BY <1>1, Zenon DEF Steady, Outread
  <1>8. \A n \in DOMAIN runs' : doc'[PO].status = "done" /\ doc'[runs'[n].inv].status = "done"
    BY <1>1, <1>4, Zenon
  <1> QED
    BY <1>1, <1>2, <1>5, <1>6, <1>7, <1>8, Zenon DEF Steady, SidesDone

\* Only handler h moves: it has its pair done, and reads what the runs it knows have not.
LEMMA HandlerSteady ==
  ASSUME TypeOK, Steady, doc' = doc, writer' = writer, RunsKept,
         \A g \in Handlers : handler[g].known \subseteq DOMAIN runs,
         \A n \in DOMAIN runs : runs[n].known \subseteq DOMAIN runs,
         NEW h \in Handlers, OnlyHandler(h),
         handler'[h].pc \in {"receipts", "insert", "engine"} => SidesDone(handler'[h].inv),
         \A m \in handler'[h].known : Outreads(h, m)',
         \A n \in DOMAIN runs' \ DOMAIN runs :
           SidesDone(runs'[n].inv) /\ \A m \in runs'[n].known : Outread(n, m)'
  PROVE  Steady'
  <1>1. \A d \in Docs : writer'[d].pc # "queued"
    BY DEF Steady
  <1>2. ASSUME NEW n \in DOMAIN runs'
        PROVE  (doc'[PO].status = "done" /\ doc'[runs'[n].inv].status = "done")
               /\ \A m \in runs'[n].known : Outread(n, m)'
    <2>1. CASE n \in DOMAIN runs
      <3>1. SidesDone(runs[n].inv) /\ \A m \in runs[n].known : Outread(n, m) /\ m \in DOMAIN runs
        BY <2>1, Zenon DEF Steady
      <3> QED
        BY <2>1, <3>1, Zenon DEF RunsKept, Outread, SidesDone
    <2>2. CASE n \notin DOMAIN runs
      BY <2>2, Zenon DEF SidesDone
    <2> QED
      BY <2>1, <2>2
  <1>3. ASSUME NEW g \in Handlers
        PROVE  /\ handler'[g].pc \in {"receipts", "insert", "engine"} =>
                    doc'[PO].status = "done" /\ doc'[handler'[g].inv].status = "done"
               /\ \A m \in handler'[g].known : Outreads(g, m)'
    <2>1. CASE g = h
      BY <2>1, Zenon DEF SidesDone
    <2>2. CASE g # h
      <3>1. /\ handler'[g] = handler[g]
            /\ handler[g].pc \in {"receipts", "insert", "engine"} => SidesDone(handler[g].inv)
            /\ \A m \in handler[g].known : Outreads(g, m) /\ m \in DOMAIN runs
        BY <2>2, Zenon DEF Steady, OnlyHandler
      <3>2. \A m \in handler[g].known : Outreads(g, m)'
        BY <3>1, Zenon DEF Outreads, StillReads, HasRead, RunsKept, Sides
      <3> QED
        BY <3>1, <3>2, Zenon DEF SidesDone
    <2> QED
      BY <2>1, <2>2
  <1> QED
    BY <1>1, <1>2, <1>3, Zenon DEF Steady, SidesDone

\* A handler begins because an input of its pair is stamped as late as any run it knows,
\* and then brings lines that run has not read.
LEMMA BeginSteady ==
  ASSUME TypeOK, Steady, \A m \in DOMAIN runs : Passed(m), NEW w \in Workers, NEW j \in queue,
         ~IsUpToDate(j.inv), doc' = doc, runs' = runs,
         handler'[w].pc = "read", handler'[w].inv = j.inv, handler'[w].known = Succeeded(j.inv)
  PROVE  \A m \in handler'[w].known : Outreads(w, m)'
  <1> SUFFICES ASSUME NEW m \in Succeeded(j.inv), ~runs[m].tied PROVE Outreads(w, m)'
    BY Zenon DEF Outreads
  <1>1. PICK i \in Invoices : i = j.inv
    BY JobFields
  <1>2. m \in DOMAIN runs /\ runs[m].inv = i /\ SidesDone(i)
    BY <1>1 DEF Succeeded, Steady
  <1>3. PICK d \in Feeding(i) : doc[d].at >= runs[m].startedAt
    BY <1>1, StaleInput
  <1>4. d \in Docs /\ d \in Sides(i) /\ doc[d].status = "done"
    BY <1>2 DEF Feeding, Sides, SidesDone, DoneReceipts, Docs
  <1>5. ~(doc[d].at < runs[m].startedAt)
    BY <1>2, <1>3, <1>4, RunFields, DocFields
  <1>6. runs[m].reads[d] < doc[d].lines
    BY <1>2, <1>4, <1>5, Zenon DEF Passed
  <1> QED
    BY <1>1, <1>4, <1>6, Zenon DEF Outreads, StillReads, Sides

\* It reads the order and the invoice,
LEMMA LoadSteady ==
  ASSUME TypeOK, Routed, Steady, NEW h \in Handlers, NEW i \in Invoices, LoadPair(h, i),
         handler[h].pc = "idle" \/ (handler[h].pc = "read" /\ handler[h].inv = i)
  PROVE  \A m \in handler'[h].known : Outreads(h, m)'
  <1>1. doc' = doc /\ runs' = runs
    BY Zenon DEF LoadPair
  <1>2. handler'[h].pc = "receipts" /\ handler'[h].inv = i /\ handler'[h].known = handler[h].known
    BY LoadPairDoes, Zenon
  <1>3. \A d \in Docs : d \in {PO, i} => handler'[h].reads[d] = doc[d].lines
    BY LoadPairDoes
  <1>4. CASE handler[h].pc = "idle"
    <2>1. handler[h].known = {}
      BY <1>4, IdleHandlerType, Zenon DEF Routed, HandlerRouted
    <2> QED
      BY <1>2, <2>1
  <1>5. CASE handler[h].pc = "read" /\ handler[h].inv = i
    <2> SUFFICES ASSUME NEW m \in handler[h].known, ~runs[m].tied PROVE Outreads(h, m)'
      BY <1>1, <1>2, Zenon DEF Outreads
    <2>1. Outreads(h, m) /\ ~(\E d \in Docs : HasRead(h, d))
      BY <1>5 DEF Steady, HasRead
    <2>2. PICK d \in Docs : /\ d \in Sides(i) /\ doc[d].status = "done"
                            /\ runs[m].reads[d] < doc[d].lines
      BY <1>5, <2>1 DEF Outreads, StillReads
    <2>3. CASE d \in Receipts
      BY <1>1, <1>2, <2>2, <2>3, Zenon DEF Outreads, StillReads
    <2>4. CASE d \notin Receipts
      <3>1. d \in {PO, i}
        BY <2>2, <2>4 DEF Sides
      <3>2. runs[m].reads[d] < handler'[h].reads[d]
        BY <1>3, <2>2, <3>1
      <3> QED
        BY <1>1, <1>2, <2>4, <3>2, Zenon DEF Outreads, HasRead
    <2> QED
      BY <2>3, <2>4
  <1> QED
    BY <1>4, <1>5

\* and the receipts.
LEMMA ReceiptsSteady ==
  ASSUME TypeOK, Steady, NEW h \in Handlers, ReadReceipts(h)
  PROVE  \A m \in handler'[h].known : Outreads(h, m)'
  <1>1. doc' = doc /\ runs' = runs
    BY Zenon DEF ReadReceipts
  <1>2. /\ handler[h].pc = "receipts" /\ handler'[h].pc = "insert"
        /\ handler'[h].known = handler[h].known
    BY ReadReceiptsDoes, Zenon DEF SameHand
  <1>3. \A d \in Docs : /\ d \in DoneReceipts => handler'[h].reads[d] = doc[d].lines
                        /\ d \notin DoneReceipts => handler'[h].reads[d] = handler[h].reads[d]
    BY ReadReceiptsDoes
  <1> SUFFICES ASSUME NEW m \in handler[h].known, ~runs[m].tied PROVE Outreads(h, m)'
    BY <1>1, <1>2, Zenon DEF Outreads
  <1>4. PICK d \in Docs :
          \/ d \in Receipts /\ doc[d].status = "done" /\ runs[m].reads[d] < doc[d].lines
          \/ d \notin Receipts /\ runs[m].reads[d] < handler[h].reads[d]
    BY <1>2 DEF Steady, Outreads, StillReads, HasRead
  <1>5. runs[m].reads[d] < handler'[h].reads[d]
    BY <1>3, <1>4 DEF DoneReceipts
  <1> QED
    BY <1>1, <1>2, <1>5, Zenon DEF Outreads, HasRead

LEMMA SteadyStep ==
  ASSUME TypeOK, Timed, Written, Routed, Advancing, Next, faults' = 0
  PROVE  Steady'
  <1>0. /\ Steady /\ RunsKept
        /\ \A m \in DOMAIN runs : Passed(m)
        /\ \A g \in Handlers : handler[g].known \subseteq DOMAIN runs
        /\ \A n \in DOMAIN runs : runs[n].known \subseteq DOMAIN runs
    BY NoFault, RunsAreKept DEF Advancing
  <1>1. ASSUME NEW d \in Docs, WriterStep(d) PROVE Steady'
    BY <1>0, <1>1, WriterSteady
  <1>2. ASSUME doc' = doc, writer' = writer, runs' = runs, NEW h \in Handlers, OnlyHandler(h),
               handler'[h].pc \in {"receipts", "insert", "engine"} => SidesDone(handler'[h].inv),
               \A m \in handler'[h].known : Outreads(h, m)'
        PROVE  Steady'
    BY <1>0, <1>2, HandlerSteady, Zenon
  <1>3. ASSUME doc' = doc, writer' = writer, runs' = runs, handler' = handler PROVE Steady'
    BY <1>0, <1>3, Zenon DEF Steady, SidesDone, Outreads, StillReads, HasRead, Outread
  <1>4. CASE Tick
    BY <1>3, <1>4, Zenon DEF Tick
  <1>5. ASSUME NEW w \in Workers, SkipUpToDate(w) PROVE Steady'
    BY <1>3, <1>5, Zenon DEF SkipUpToDate
  <1>6. ASSUME NEW w \in Workers, BeginCompare(w) PROVE Steady'
    <2>1. PICK j \in queue :
            /\ ~IsUpToDate(j.inv)
            /\ handler' = [handler EXCEPT ![w] = [IdleHandler EXCEPT
                             !.pc = "read", !.job = JobId(j), !.inv = j.inv,
                             !.known = Succeeded(j.inv)]]
            /\ doc' = doc /\ writer' = writer /\ runs' = runs
      BY <1>6, Zenon DEF BeginCompare
    <2>2. /\ w \in Handlers /\ OnlyHandler(w) /\ handler'[w].pc = "read"
          /\ handler'[w].inv = j.inv /\ handler'[w].known = Succeeded(j.inv)
      BY <2>1, BeginCompareDoes, Zenon DEF Handlers
    <2>3. \A m \in handler'[w].known : Outreads(w, m)'
      BY <1>0, <2>1, <2>2, BeginSteady, Zenon
    <2>4. handler'[w].pc \in {"receipts", "insert", "engine"} => SidesDone(handler'[w].inv)
      BY <2>2
    <2> QED
      BY <1>2, <2>1, <2>2, <2>3, <2>4, Zenon
  <1>7. ASSUME NEW h \in Handlers, NEW i \in Invoices, LoadPair(h, i),
               handler[h].pc = "idle" \/ (handler[h].pc = "read" /\ handler[h].inv = i)
        PROVE  Steady'
    <2>1. doc' = doc /\ writer' = writer /\ runs' = runs /\ Ready(PO) /\ Ready(i)
      BY <1>7, Zenon DEF LoadPair
    <2>2. OnlyHandler(h) /\ handler'[h].inv = i
      BY <1>7, LoadPairDoes, Zenon
    <2>3. SidesDone(handler'[h].inv)
      BY <2>1, <2>2 DEF Ready, SidesDone
    <2>4. \A m \in handler'[h].known : Outreads(h, m)'
      BY <1>0, <1>7, LoadSteady
    <2> QED
      BY <1>2, <2>1, <2>2, <2>3, <2>4, Zenon
  <1>8. ASSUME NEW w \in Workers, ReadPair(w) PROVE Steady'
    <2>1. w \in Handlers
      BY DEF Handlers
    <2>2. LoadPair(w, handler[w].inv) /\ handler[w].pc = "read"
      BY <1>8, Zenon DEF ReadPair
    <2>3. handler[w].inv \in Invoices
      BY <2>1, <2>2 DEF Routed, HandlerRouted
    <2> QED
      BY <1>7, <2>1, <2>2, <2>3, Zenon
  <1>9. ASSUME NEW u \in Users, ManualCompare(u) PROVE Steady'
    BY <1>7, <1>9, Zenon DEF ManualCompare, Handlers
  <1>10. ASSUME NEW h \in Handlers, ReadReceipts(h) PROVE Steady'
    <2>1. doc' = doc /\ writer' = writer /\ runs' = runs
      BY <1>10, Zenon DEF ReadReceipts
    <2>2. /\ OnlyHandler(h) /\ handler[h].pc = "receipts"
          /\ handler'[h].inv = handler[h].inv
      BY <1>10, ReadReceiptsDoes, Zenon DEF SameHand
    <2>3. SidesDone(handler'[h].inv)
      BY <1>0, <2>2 DEF Steady
    <2>4. \A m \in handler'[h].known : Outreads(h, m)'
      BY <1>0, <1>10, ReceiptsSteady
    <2> QED
      BY <1>2, <2>1, <2>2, <2>3, <2>4, Zenon
  <1>11. ASSUME NEW h \in Handlers, InsertRun(h) PROVE Steady'
    <2>1. handler[h].inv \in Invoices
      BY <1>11, Zenon DEF InsertRun, Routed, HandlerRouted
    <2>2. /\ OnlyHandler(h) /\ handler[h].pc = "insert" /\ handler'[h].pc = "engine" /\ SameHand(h)
          /\ handler'[h].reads = handler[h].reads
      BY <1>11, <2>1, InsertRunDoes, Zenon
    <2>3. PICK r \in Run : /\ RunAdded(r) /\ r.inv = handler[h].inv /\ r.known = handler[h].known
                           /\ r.reads = handler[h].reads
      BY <1>11, <2>1, InsertRunDoes, Zenon
    <2>4. doc' = doc /\ writer' = writer
      BY <1>11, Zenon DEF InsertRun
    <2>5. \A m \in DOMAIN runs : runs'[m] = runs[m]
      BY <2>3, Zenon DEF RunAdded
    <2>6. SidesDone(handler[h].inv) /\ handler'[h].inv = handler[h].inv
      BY <1>0, <2>2 DEF Steady, SameHand
    <2>7. ASSUME NEW m \in handler[h].known
          PROVE  m \in DOMAIN runs /\ (runs[m].tied \/
                   \E d \in Docs : runs[m].reads[d] < handler[h].reads[d])
      BY <1>0, <2>2, <2>7 DEF Steady, Outreads, StillReads
    <2>8. \A m \in handler'[h].known : Outreads(h, m)'
      <3>1. handler'[h].known = handler[h].known
        BY <2>2 DEF SameHand
      <3> QED
        BY <2>2, <2>5, <2>7, <3>1, Zenon DEF Outreads, HasRead
    <2>9. ASSUME NEW n \in DOMAIN runs' \ DOMAIN runs
          PROVE  SidesDone(runs'[n].inv) /\ \A m \in runs'[n].known : Outread(n, m)'
      <3>1. runs'[n] = r
        BY <2>3, <2>9, Zenon DEF RunAdded
      <3>2. runs'[n].inv = handler[h].inv /\ runs'[n].known = handler[h].known
            /\ runs'[n].reads = handler[h].reads
        BY <2>3, <3>1
      <3>3. SidesDone(runs'[n].inv)
        BY <2>6, <3>2
      <3>4. ASSUME NEW m \in handler[h].known PROVE Outread(n, m)'
        <4>1. runs'[m] = runs[m]
          BY <2>5, <2>7
        <4> QED
          BY <2>7, <3>2, <4>1, Zenon DEF Outread
      <3> QED
        BY <3>2, <3>3, <3>4, Zenon
    <2>10. SidesDone(handler'[h].inv)
      BY <2>6
    <2> QED
      BY <1>0, <2>2, <2>4, <2>8, <2>9, <2>10, HandlerSteady, Zenon
  <1>12. ASSUME NEW h \in Handlers, HandlerEnd(h) PROVE Steady'
    <2>1. doc' = doc /\ writer' = writer /\ OnlyHandler(h) /\ handler'[h] = IdleHandler
      BY <1>12, HandlerEndDoes, Zenon
    <2>2. DOMAIN runs' = DOMAIN runs
      BY <1>12, HandlerEndDoes, Zenon DEF StatusSet
    <2>3. handler'[h].pc = "idle" /\ handler'[h].known = {}
      BY <2>1, IdleHandlerType, Zenon
    <2>4. /\ handler'[h].pc \in {"receipts", "insert", "engine"} => SidesDone(handler'[h].inv)
          /\ \A m \in handler'[h].known : Outreads(h, m)'
      BY <2>3
    <2>5. \A n \in DOMAIN runs' \ DOMAIN runs :
            SidesDone(runs'[n].inv) /\ \A m \in runs'[n].known : Outread(n, m)'
      BY <2>2
    <2> QED
      BY <1>0, <2>1, <2>4, <2>5, HandlerSteady, Zenon
  <1> QED
    BY <1>1, <1>4, <1>5, <1>6, <1>8, <1>9, <1>10, <1>11, <1>12, NextCases, NoFault, Zenon

LEMMA AdvancingStep ==
  TypeOK /\ Timed /\ Written /\ Routed /\ Grown /\ Advancing /\ Next => Advancing'
  <1> SUFFICES ASSUME TypeOK, Timed, Written, Routed, Grown, Advancing, Next PROVE Advancing'
    OBVIOUS
  <1>1. /\ \A m \in DOMAIN runs : Passed(m)
        /\ \A h \in Handlers : handler[h].known \subseteq DOMAIN runs
        /\ \A n \in DOMAIN runs : runs[n].known \subseteq DOMAIN runs
    BY DEF Advancing
  <1>2. \A m \in DOMAIN runs' : Passed(m)'
    BY <1>1, PassedStep
  <1>3. /\ \A h \in Handlers : handler'[h].known \subseteq DOMAIN runs'
        /\ \A n \in DOMAIN runs' : runs'[n].known \subseteq DOMAIN runs'
    BY <1>1, KnownStep
  <1>4. faults' = 0 => Steady'
    BY SteadyStep
  <1> QED
    BY <1>2, <1>3, <1>4, Zenon DEF Advancing

LEMMA NoRedundantFollows == TypeOK /\ Advancing => NoRedundantRun
  <1> SUFFICES ASSUME TypeOK, Advancing PROVE NoRedundantRun
    OBVIOUS
  <1> SUFFICES ASSUME NEW n \in DOMAIN runs, NEW m \in runs[n].known,
                      runs[m].reads = runs[n].reads, faults = 0
               PROVE  runs[m].tied
    <2>1. faults \in Nat
      BY BoundsNatural DEF TypeOK
    <2> QED
      BY <2>1 DEF NoRedundantRun
  <1>1. Outread(n, m)
    BY DEF Advancing, Steady
  <1>2. \A d \in Docs : ~(runs[m].reads[d] < runs[n].reads[d])
    <2>1. \A d \in Docs : runs[n].reads[d] \in Nat
      BY RunFields
    <2> QED
      BY <2>1
  <1> QED
    BY <1>1, <1>2, Zenon DEF Outread

-----------------------------------------------------------------------------
(* Every pair is seen to *)

\* What is said of a pair depends on the documents at its sides only.
LEMMA SidesSame ==
  ASSUME NEW i \in Invoices, \A e \in Sides(i) : doc'[e] = doc[e]
  PROVE  /\ InputVersion(i)' = InputVersion(i) /\ Feeding(i)' = Feeding(i)
         /\ Pair(i)' = Pair(i)
         /\ Comparable(i)' => Comparable(i)
         /\ Owed(i)' /\ missed \subseteq missed' => Owed(i)
  <1>1. /\ doc'[PO] = doc[PO] /\ doc'[i] = doc[i]
        /\ \A r \in Receipts : doc'[r] = doc[r]
    BY DEF Sides
  <1>2. DoneReceipts' = DoneReceipts
    BY <1>1 DEF DoneReceipts
  <1>3. {doc'[d].at : d \in {PO, i} \cup DoneReceipts'} = {doc[d].at : d \in {PO, i} \cup DoneReceipts}
    BY <1>1, <1>2 DEF DoneReceipts
  <1>4. InputVersion(i)' = InputVersion(i)
    BY <1>3, Zenon DEF InputVersion
  <1>5. Feeding(i)' = Feeding(i)
    BY <1>2 DEF Feeding
  <1>6. Pair(i)' = Pair(i)
    BY <1>4 DEF Pair
  <1>7. Comparable(i)' => Comparable(i)
    BY <1>1 DEF Comparable, Ready, Deferred
  <1>8. Owed(i)' /\ missed \subseteq missed' => Owed(i)
    BY <1>1, <1>7 DEF Owed
  <1> QED
    BY <1>4, <1>5, <1>6, <1>7, <1>8

\* A pair that is seen to stays so: its documents and the runs that succeeded stay, a failed
\* job stays failed, one that is new enough stays or is put back, and whoever is to enqueue
\* the pair has not moved.
LEMMA StillAttended ==
  ASSUME NEW i \in Invoices, Attended(i), \A e \in Sides(i) : doc'[e] = doc[e],
         \A n \in DOMAIN runs :
           /\ n \in DOMAIN runs' /\ runs'[n].inv = runs[n].inv /\ runs'[n].reads = runs[n].reads
           /\ runs'[n].overlap = runs[n].overlap
           /\ runs[n].status = "succeeded" => runs'[n].status = "succeeded",
         \A j \in queue : j.inv = i /\ (j.state = "failed" \/ j.version >= InputVersion(i)) =>
           \E k \in queue' : /\ k.inv = i /\ k.version = j.version
                             /\ j.state = "failed" => k.state = "failed",
         \A e \in Docs : \/ writer'[e] = writer[e]
                         \/ /\ ~(e \in Sides(i) /\ writer[e].pc \in {"queued", "enqueue"})
                            /\ ~(writer[e].pc = "add" /\ Pair(i) \in writer[e].pairs)
  PROVE  Attended(i)'
  <1>1. /\ InputVersion(i)' = InputVersion(i) /\ Feeding(i)' = Feeding(i)
        /\ Pair(i)' = Pair(i)
    BY SidesSame, Zenon
  <1>2. Sides(i) \subseteq Docs
    BY DEF Sides, Docs
  <1>3. CASE FailedJob(i)
    <2>1. PICK j \in queue : j.inv = i /\ j.state = "failed"
      BY <1>3 DEF FailedJob
    <2>2. PICK k \in queue' : k.inv = i /\ k.state = "failed"
      BY <2>1
    <2> QED
      BY <2>2, Zenon DEF Attended, FailedJob
  <1>4. CASE Compared(i)
    <2>1. PICK n \in Succeeded(i) : \A d \in Feeding(i) : ReadCurrent(n, d) \/ d \in runs[n].overlap
      BY <1>4 DEF Compared
    <2>2. n \in Succeeded(i)' /\ runs'[n].reads = runs[n].reads /\ runs'[n].overlap = runs[n].overlap
      BY <2>1 DEF Succeeded
    <2>3. Feeding(i) \subseteq Sides(i)
      BY DEF Feeding, Sides, DoneReceipts
    <2>4. \A d \in Feeding(i) : ReadCurrent(n, d)' \/ d \in runs'[n].overlap
      BY <2>1, <2>2, <2>3, Zenon DEF ReadCurrent
    <2>5. Compared(i)'
      BY <1>1, <2>2, <2>4, Zenon DEF Compared
    <2> QED
      BY <2>5 DEF Attended
  <1>5. CASE \E d \in Sides(i) : writer[d].pc \in {"queued", "enqueue"}
    <2>1. PICK d \in Sides(i) : writer[d].pc \in {"queued", "enqueue"}
      BY <1>5
    <2>2. writer'[d] = writer[d]
      BY <1>2, <2>1
    <2> QED
      BY <2>1, <2>2, Zenon DEF Attended, Sides
  <1>6. CASE \E d \in Docs : writer[d].pc = "add" /\ Pair(i) \in writer[d].pairs
    <2>1. PICK d \in Docs : writer[d].pc = "add" /\ Pair(i) \in writer[d].pairs
      BY <1>6
    <2>2. writer'[d] = writer[d]
      BY <2>1
    <2> QED
      BY <1>1, <2>1, <2>2, Zenon DEF Attended
  <1>7. CASE \E j \in queue : j.inv = i /\ j.version >= InputVersion(i)
    <2>1. PICK j \in queue : j.inv = i /\ j.version >= InputVersion(i)
      BY <1>7
    <2>2. PICK k \in queue' : k.inv = i /\ k.version = j.version
      BY <2>1
    <2>3. k.version >= InputVersion(i)
      BY <2>1, <2>2
    <2> QED
      BY <1>1, <2>2, <2>3, Zenon DEF Attended
  <1> QED
    BY <1>3, <1>4, <1>5, <1>6, <1>7, Zenon DEF Attended

LEMMA WriterAttends ==
  ASSUME TypeOK, Timed, Written, AllAttended, NEW d \in Docs, WriterStep(d),
         NEW i \in Invoices, Owed(i)'
  PROVE  Attended(i)'
  <1>1. /\ runs' = runs /\ queue \subseteq queue' /\ missed \subseteq missed'
        /\ \A e \in Docs : e # d => doc'[e] = doc[e] /\ writer'[e] = writer[e]
    BY WriterLeaves, Zenon DEF OnlyDoc
  <1>2. Sides(i) \subseteq Docs
    BY DEF Sides, Docs
  <1>3. ASSUME \A e \in Sides(i) : doc'[e] = doc[e],
               ~(d \in Sides(i) /\ writer[d].pc \in {"queued", "enqueue"}),
               ~(writer[d].pc = "add" /\ Pair(i) \in writer[d].pairs)
        PROVE  Attended(i)'
    <2>1. Attended(i)
      BY <1>1, <1>3, SidesSame, Zenon DEF AllAttended
    <2>2. \A j \in queue : j.inv = i /\ (j.state = "failed" \/ j.version >= InputVersion(i)) =>
            \E k \in queue' : /\ k.inv = i /\ k.version = j.version
                              /\ j.state = "failed" => k.state = "failed"
      BY <1>1, Zenon
    <2>3. \A e \in Docs : \/ writer'[e] = writer[e]
                          \/ /\ ~(e \in Sides(i) /\ writer[e].pc \in {"queued", "enqueue"})
                             /\ ~(writer[e].pc = "add" /\ Pair(i) \in writer[e].pairs)
      BY <1>1, <1>3, Zenon
    <2>4. \A n \in DOMAIN runs :
            /\ n \in DOMAIN runs' /\ runs'[n].inv = runs[n].inv /\ runs'[n].reads = runs[n].reads
            /\ runs'[n].overlap = runs[n].overlap
            /\ runs[n].status = "succeeded" => runs'[n].status = "succeeded"
      BY <1>1, Zenon
    <2> QED
      BY <1>3, <2>1, <2>2, <2>3, <2>4, StillAttended, Zenon
  <1>4. CASE d \notin Sides(i)
    <2>1. d \in Invoices /\ d # i
      BY <1>4 DEF Sides, Docs
    <2>2. Pair(i) \notin writer[d].pairs
      <3>1. Pair(i).inv = i
        BY DEF Pair
      <3> QED
        BY <2>1, <3>1 DEF Written
    <2>3. \A e \in Sides(i) : doc'[e] = doc[e]
      BY <1>1, <1>2, <1>4
    <2> QED
      BY <1>3, <1>4, <2>2, <2>3, Zenon
  <1>5. CASE d \in Sides(i)
    <2>1. doc'[d] = doc[d] => \A e \in Sides(i) : doc'[e] = doc[e]
      BY <1>1, <1>2
    <2>2. /\ ~Deferred' /\ doc'[PO].status = "done" /\ doc'[i].status = "done"
          /\ \A r \in Receipts : doc'[r].status # "failed" /\ doc'[r].status # "unsettled"
          /\ missed' = {}
      BY Zenon DEF Owed, Comparable, Ready, Deferred
    <2>3. CASE StartParse(d)
      <3>1. doc'[d].status = "unsettled"
        BY <2>3, StartParseDoes
      <3> QED
        BY <1>5, <2>2, <3>1 DEF Sides
    <2>4. CASE FailParse(d)
      <3>1. doc'[d].status = "failed"
        BY <2>4, FailParseDoes
      <3> QED
        BY <1>5, <2>2, <3>1 DEF Sides
    <2>5. CASE StampParse(d) \/ StampReview(d)
      <3>1. doc'[d] = doc[d] /\ writer[d].pc \in {"idle", "parsing"}
        BY <2>5, StampDoes
      <3> QED
        BY <1>3, <2>1, <3>1
    <2>6. CASE CommitLines(d)
      <3>1. writer'[d].pc = "enqueue"
        BY <2>6, CommitLinesDoes
      <3> QED
        BY <1>5, <3>1, Zenon DEF Attended, Sides
    <2>7. CASE ResolvePairs(d)
      <3>1. /\ doc' = doc /\ writer'[d].pairs = PairsFor(d)
            /\ writer'[d].pc = IF PairsFor(d) = {} THEN "idle" ELSE "add"
        BY <2>7, ResolvePairsDoes
      <3>2. Comparable(i) /\ Pair(i)' = Pair(i)
        BY <3>1, SidesSame DEF Owed
      <3>3. Pair(i) \in PairsFor(d)
        BY <1>5, <3>2, PairsForType DEF Comparable
      <3>4. writer'[d].pc = "add" /\ Pair(i)' \in writer'[d].pairs
        BY <3>1, <3>2, <3>3
      <3> QED
        BY <3>4, Zenon DEF Attended
    <2>8. CASE AddPairs(d)
      <3>1. doc' = doc /\ writer[d].pc = "add" /\ queue' = AddJobs(writer[d].pairs)
        BY <2>8, Zenon DEF AddPairs
      <3>2. CASE Pair(i) \in writer[d].pairs
        <4>1. PICK j \in queue' : j.inv = Pair(i).inv /\ j.version = Pair(i).version
          BY <3>1, <3>2, Added, WriterFields, Zenon
        <4>2. j.inv = i /\ j.version = InputVersion(i) /\ InputVersion(i) \in Nat
          BY <4>1, NewestInput DEF Pair
        <4>3. j.version >= InputVersion(i)' /\ InputVersion(i)' = InputVersion(i)
          BY <3>1, <4>2, SidesSame
        <4> QED
          BY <4>2, <4>3, Zenon DEF Attended
      <3>3. CASE Pair(i) \notin writer[d].pairs
        BY <1>3, <2>1, <3>1, <3>3
      <3> QED
        BY <3>2, <3>3
    <2>9. CASE EnqueueFails(d)
      <3>1. d \in missed'
        BY <2>9, Zenon DEF EnqueueFails
      <3> QED
        BY <2>2, <3>1
    <2>10. CASE ParseWorkerDies(d)
      <3>1. writer'[d].pc = "queued"
        BY <2>10, ParseWorkerDiesDoes
      <3> QED
        BY <1>5, <3>1, Zenon DEF Attended, Sides
    <2> QED
      BY <2>3, <2>4, <2>5, <2>6, <2>7, <2>8, <2>9, <2>10, Zenon DEF WriterStep
  <1> QED
    BY <1>4, <1>5

\* The runs are those there were, and one that succeeded stays so.
RunsStand == \A n \in DOMAIN runs :
  /\ n \in DOMAIN runs' /\ runs'[n].inv = runs[n].inv /\ runs'[n].reads = runs[n].reads
  /\ runs'[n].overlap = runs[n].overlap
  /\ runs[n].status = "succeeded" => runs'[n].status = "succeeded"

\* The jobs of invoice i that failed, or that are as new as its documents, are kept.
JobsStand(i) == \A j \in queue : j.inv = i /\ (j.state = "failed" \/ j.version >= InputVersion(i)) =>
  \E k \in queue' : /\ k.inv = i /\ k.version = j.version
                    /\ j.state = "failed" => k.state = "failed"

\* No writer moves: what was owed is what is.
LEMMA HandlerAttends ==
  ASSUME AllAttended, doc' = doc, writer' = writer, missed \subseteq missed',
         RunsStand, NEW i \in Invoices, Owed(i)', JobsStand(i)
  PROVE  Attended(i)'
  <1>1. \A e \in Sides(i) : doc'[e] = doc[e]
    OBVIOUS
  <1>2. Attended(i)
    BY <1>1, SidesSame, Zenon DEF AllAttended
  <1>3. \A e \in Docs : \/ writer'[e] = writer[e]
                        \/ /\ ~(e \in Sides(i) /\ writer[e].pc \in {"queued", "enqueue"})
                           /\ ~(writer[e].pc = "add" /\ Pair(i) \in writer[e].pairs)
    BY Zenon
  <1> QED
    BY <1>1, <1>2, <1>3, StillAttended, Zenon DEF RunsStand, JobsStand

\* A handler that ends writes a run that was running, if any.
LEMMA EndStands ==
  ASSUME TypeOK, Timed, Routed, NEW h \in Handlers, HandlerEnd(h)
  PROVE  RunsStand
  <1>1. \/ runs' = runs
        \/ /\ handler[h].pc = "engine"
           /\ \/ StatusSet(handler[h].run, "succeeded")
              \/ StatusSet(handler[h].run, "failed")
    BY HandlerEndDoes, Zenon
  <1>2. CASE runs' = runs
    BY <1>2, Zenon DEF RunsStand
  <1>3. CASE handler[h].pc = "engine" /\ \E s \in {"succeeded", "failed"} : StatusSet(handler[h].run, s)
    <2>1. runs[handler[h].run].status = "running"
      BY <1>3, Zenon DEF Routed, HandlerRouted
    <2>2. PICK s \in {"succeeded", "failed"} : StatusSet(handler[h].run, s)
      BY <1>3
    <2> DEFINE n == handler[h].run
    <2> HIDE DEF n
    <2>3. StatusSet(n, s) /\ runs[n].status = "running"
      BY <2>1, <2>2 DEF n
    <2>4. /\ DOMAIN runs' = DOMAIN runs
          /\ \A m \in DOMAIN runs : m # n => runs'[m] = runs[m]
          /\ \A m \in DOMAIN runs :
               /\ runs'[m].inv = runs[m].inv /\ runs'[m].reads = runs[m].reads
               /\ runs'[m].overlap = runs[m].overlap
      BY <2>3, Zenon DEF StatusSet
    <2>5. \A m \in DOMAIN runs : runs[m].status = "succeeded" => runs'[m].status = "succeeded"
      BY <2>3, <2>4
    <2> QED
      BY <2>4, <2>5, Zenon DEF RunsStand
  <1> QED
    BY <1>1, <1>2, <1>3

\* Jobs put back are kept, and those of another handler.
LEMMA PutBackStands ==
  ASSUME TypeOK, NEW h \in Handlers, OwnPutBack(h), NEW i
  PROVE  JobsStand(i)
  <1> SUFFICES ASSUME NEW j \in queue, j.inv = i
               PROVE  \E k \in queue' : /\ k.inv = i /\ k.version = j.version
                                        /\ j.state = "failed" => k.state = "failed"
    BY Zenon DEF JobsStand
  <1>1. CASE j \in Own(h)
    <2>1. j.state = "active"
      BY <1>1, OwnJobs
    <2>2. PICK k \in queue' : k.inv = j.inv /\ k.version = j.version
      BY <1>1, Zenon DEF OwnPutBack
    <2> QED
      BY <2>1, <2>2
  <1>2. CASE j \notin Own(h)
    BY <1>2, Zenon DEF OwnPutBack, OwnLeft
  <1> QED
    BY <1>1, <1>2

\* A handler whose own jobs, if any, are of another invoice.
LEMMA OthersStand ==
  ASSUME TypeOK, NEW h \in Handlers, OwnLeft(h), NEW i,
         \A j \in Own(h) : j.inv # i \/ ~(j.version >= InputVersion(i))
  PROVE  JobsStand(i)
  <1> SUFFICES ASSUME NEW j \in queue, j.inv = i, j.state = "failed" \/ j.version >= InputVersion(i)
               PROVE  j \in queue'
    BY Zenon DEF JobsStand
  <1>1. j \notin Own(h)
    <2>1. ASSUME j \in Own(h) PROVE j.state = "active"
      BY <2>1, OwnJobs
    <2> QED
      BY <2>1
  <1> QED
    BY <1>1, Zenon DEF OwnLeft

\* The jobs a handler answers are of its invoice.
LEMMA OwnInvoice ==
  ASSUME TypeOK, Routed, NEW h \in Handlers, NEW j \in Own(h)
  PROVE  /\ j.inv = handler[h].inv /\ j.version \in Nat
         /\ handler[h].pc = "engine" => j.version < runs[handler[h].run].startedAt
  <1>1. j \in queue /\ handler[h].job = <<j.inv, j.version>>
    BY OwnJobs
  <1>2. j.inv \in Invoices /\ j.version \in 0..MaxClock /\ j.version \in Nat
    BY <1>1, JobFields
  <1>3. HandlerRouted(h)
    BY DEF Routed
  <1> QED
    BY <1>1, <1>2, <1>3, Zenon DEF HandlerRouted

\* A job is dropped only if its pair is up to date, and then the pair has been compared.
LEMMA SkipAttends ==
  ASSUME TypeOK, Fresh, AllAttended, NEW w \in Workers, SkipUpToDate(w),
         NEW i \in Invoices, Owed(i)'
  PROVE  Attended(i)'
  <1>1. PICK j \in queue : Due(j) /\ IsUpToDate(j.inv) /\ queue' = queue \ {j}
    BY Zenon DEF SkipUpToDate
  <1>2. doc' = doc /\ writer' = writer /\ runs' = runs /\ missed' = missed
    BY Zenon DEF SkipUpToDate
  <1>3. CASE j.inv = i
    <2>1. PICK n \in LatestRuns(i) : TRUE
      BY <1>1, <1>3, Zenon DEF IsUpToDate
    <2>2. n \in Succeeded(i) /\ \A d \in Feeding(i) : ReadCurrent(n, d) \/ d \in runs[n].overlap
      BY <1>1, <1>3, <2>1, FreshFollows, Zenon DEF FreshUnlessOverlapped, LatestRuns
    <2>3. Compared(i)
      BY <2>2, Zenon DEF Compared
    <2>4. Compared(i)'
      BY <1>2, <2>3, Zenon DEF Compared, Succeeded, Feeding, DoneReceipts, ReadCurrent
    <2> QED
      BY <2>4, Zenon DEF Attended
  <1>4. CASE j.inv # i
    <2>1. JobsStand(i)
      BY <1>1, <1>4, Zenon DEF JobsStand
    <2>2. RunsStand
      BY <1>2, Zenon DEF RunsStand
    <2> QED
      BY <1>2, <2>1, <2>2, HandlerAttends, Zenon
  <1> QED
    BY <1>3, <1>4

\* A handler that is refused answers no job of a pair that can be compared.
LEMMA RefuseAttends ==
  ASSUME TypeOK, Timed, Routed, AllAttended, NEW h \in Handlers, Refuse(h),
         NEW i \in Invoices, Owed(i)'
  PROVE  Attended(i)'
  <1>1. doc' = doc /\ writer' = writer /\ missed' = missed
    BY Zenon DEF Refuse
  <1>2. OwnLeft(h) /\ RunsStand
    BY HandlerEndDoes, EndStands, Zenon DEF HandlerEnd
  <1>3. Comparable(i)
    BY <1>1, SidesSame DEF Owed
  <1>4. handler[h].inv # i
    <2>1. /\ doc[PO].status = "done" /\ ~doc[PO].unconfirmed /\ doc[i].status = "done"
          /\ ~doc[i].unconfirmed
          /\ \A r \in DoneReceipts : ~doc[r].unconfirmed
      BY <1>3, Zenon DEF Comparable, Ready, Deferred, DoneReceipts
    <2>2. \/ handler[h].pc = "read" /\ ~(Ready(PO) /\ Ready(handler[h].inv))
          \/ \E r \in DoneReceipts : doc[r].unconfirmed
      BY Zenon DEF Refuse
    <2>3. CASE handler[h].pc = "read" /\ ~(Ready(PO) /\ Ready(handler[h].inv))
      BY <2>1, <2>3, Zenon DEF Ready
    <2> QED
      BY <2>1, <2>2, <2>3
  <1>5. JobsStand(i)
    BY <1>2, <1>4, OwnInvoice, OthersStand, Zenon
  <1> QED
    BY <1>1, <1>2, <1>5, HandlerAttends, Zenon

\* A run that succeeds has read what its job, or what came after it, asked for.
LEMMA SucceedAttends ==
  ASSUME TypeOK, Timed, Routed, Fresh, AllAttended, NEW h \in Handlers, Succeed(h),
         NEW i \in Invoices, Owed(i)'
  PROVE  Attended(i)'
  <1>1. /\ doc' = doc /\ writer' = writer /\ missed' = missed /\ handler[h].pc = "engine"
        /\ runs' = [runs EXCEPT ![handler[h].run].status = "succeeded"]
    BY Zenon DEF Succeed
  <1>2. OwnLeft(h) /\ RunsStand
    BY HandlerEndDoes, EndStands, Zenon DEF HandlerEnd
  <1>3. CASE \E j \in Own(h) : j.inv = i /\ j.version >= InputVersion(i)
    <2>1. PICK j \in Own(h) : j.inv = i /\ j.version >= InputVersion(i)
      BY <1>3
    <2>2. PICK n : n = handler[h].run
      OBVIOUS
    <2>3. n \in DOMAIN runs /\ runs[n].inv = i /\ j.version < runs[n].startedAt /\ j.version \in Nat
      BY <1>1, <2>1, <2>2, OwnInvoice, Zenon DEF Routed, HandlerRouted
    <2>4. StatusSet(n, "succeeded")
      BY <1>1, <2>2, StatusBecomes
    <2>5. n \in Succeeded(i)' /\ runs'[n].reads = runs[n].reads /\ runs'[n].overlap = runs[n].overlap
      BY <2>3, <2>4 DEF StatusSet, Succeeded
    <2>6. ASSUME NEW d \in Feeding(i) PROVE ReadCurrent(n, d) \/ d \in runs[n].overlap
      <3>1. d \in Docs /\ doc[d].at <= InputVersion(i) /\ InputVersion(i) \in Nat
        BY <2>6, NewestInput DEF Feeding, Docs, DoneReceipts
      <3>2. ~(doc[d].at >= runs[n].startedAt)
        BY <2>1, <2>3, <3>1, DocFields, RunFields
      <3>3. d \in RestsOn(n)
        BY <2>3, <2>6, Zenon DEF RestsOn, Feeding
      <3> QED
        BY <2>3, <3>1, <3>2, <3>3, Zenon DEF Fresh, RunFresh
    <2>7. Feeding(i)' = Feeding(i)
      BY <1>1, Zenon DEF Feeding, DoneReceipts
    <2>8. Compared(i)'
      BY <1>1, <2>5, <2>6, <2>7, Zenon DEF Compared, ReadCurrent
    <2> QED
      BY <2>8, Zenon DEF Attended
  <1>4. CASE \A j \in Own(h) : j.inv # i \/ ~(j.version >= InputVersion(i))
    <2>1. JobsStand(i)
      BY <1>2, <1>4, OthersStand, Zenon
    <2> QED
      BY <1>1, <1>2, <2>1, HandlerAttends, Zenon
  <1> QED
    BY <1>3, <1>4, Zenon

LEMMA AttendedStep ==
  TypeOK /\ Timed /\ Written /\ Routed /\ Fresh /\ AllAttended /\ Next => AllAttended'
  <1> SUFFICES ASSUME TypeOK, Timed, Written, Routed, Fresh, AllAttended, Next PROVE AllAttended'
    OBVIOUS
  <1> SUFFICES ASSUME NEW i \in Invoices, Owed(i)' PROVE Attended(i)'
    BY Zenon DEF AllAttended
  <1>1. ASSUME NEW d \in Docs, WriterStep(d) PROVE Attended(i)'
    BY <1>1, WriterAttends
  <1>2. ASSUME doc' = doc, writer' = writer, missed' = missed, queue' = queue, RunsStand
        PROVE  Attended(i)'
    <2>1. JobsStand(i)
      BY <1>2, Zenon DEF JobsStand
    <2> QED
      BY <1>2, <2>1, HandlerAttends, Zenon
  <1>3. runs' = runs => RunsStand
    BY Zenon DEF RunsStand
  <1>4. CASE Tick
    BY <1>2, <1>3, <1>4, Zenon DEF Tick
  <1>5. ASSUME NEW w \in Workers, SkipUpToDate(w) PROVE Attended(i)'
    BY <1>5, SkipAttends
  <1>6. ASSUME NEW w \in Workers, BeginCompare(w) PROVE Attended(i)'
    <2>1. PICK j \in queue : Due(j) /\ queue' = Replace(j, [j EXCEPT !.state = "active"])
      BY <1>6, Zenon DEF BeginCompare
    <2>2. doc' = doc /\ writer' = writer /\ missed' = missed /\ runs' = runs
      BY <1>6, Zenon DEF BeginCompare
    <2> DEFINE k == [j EXCEPT !.state = "active"]
    <2>3. k.inv = j.inv /\ k.version = j.version
      BY JobFields DEF Job
    <2>4. queue' = (queue \ {j}) \cup {k} /\ j.state = "waiting"
      BY <2>1, Zenon DEF Replace, Due
    <2> HIDE DEF k
    <2>5. JobsStand(i)
      BY <2>3, <2>4 DEF JobsStand
    <2> QED
      BY <1>3, <2>2, <2>5, HandlerAttends, Zenon
  <1>7. ASSUME NEW w \in Workers, ReadPair(w) PROVE Attended(i)'
    BY <1>2, <1>3, <1>7, Zenon DEF ReadPair, LoadPair
  <1>8. ASSUME NEW w \in Workers, TimeOut(w) PROVE Attended(i)'
    <2>1. w \in Handlers
      BY DEF Handlers
    <2>2. /\ doc' = doc /\ writer' = writer /\ runs' = runs /\ missed' = missed
          /\ OwnPutBack(w)
      BY <1>8, TimeOutLeaves, Zenon
    <2>3. JobsStand(i)
      BY <2>1, <2>2, PutBackStands, Zenon
    <2> QED
      BY <1>3, <2>2, <2>3, HandlerAttends, Zenon
  <1>9. ASSUME NEW u \in Users, ManualCompare(u) PROVE Attended(i)'
    BY <1>2, <1>3, <1>9, Zenon DEF ManualCompare, LoadPair
  <1>10. ASSUME NEW h \in Handlers, ReadReceipts(h) PROVE Attended(i)'
    BY <1>2, <1>3, <1>10, Zenon DEF ReadReceipts
  <1>11. ASSUME NEW h \in Handlers, InsertRun(h) PROVE Attended(i)'
    <2>1. handler[h].inv \in Invoices
      BY <1>11, Zenon DEF InsertRun, Routed, HandlerRouted
    <2>2. PICK r \in Run : RunAdded(r)
      BY <1>11, <2>1, InsertRunDoes, Zenon
    <2>3. RunsStand
      BY <2>2, Zenon DEF RunsStand, RunAdded
    <2> QED
      BY <1>2, <1>11, <2>3, Zenon DEF InsertRun
  <1>12. ASSUME NEW h \in Handlers, Fail(h) \/ Die(h) PROVE Attended(i)'
    <2>1. HandlerEnd(h)
      BY <1>12, Zenon DEF HandlerEnd
    <2>2. doc' = doc /\ writer' = writer /\ missed \subseteq missed' /\ OwnPutBack(h)
      BY <1>12, <2>1, HandlerEndDoes, Zenon
    <2>3. RunsStand /\ JobsStand(i)
      BY <2>1, <2>2, EndStands, PutBackStands, Zenon
    <2> QED
      BY <2>2, <2>3, HandlerAttends, Zenon
  <1>13. ASSUME NEW h \in Handlers, GateRefuses(h) PROVE Attended(i)'
    <2>1. handler[h].inv \in missed'
      BY <1>13, Zenon DEF GateRefuses
    <2>2. missed' = {}
      BY Zenon DEF Owed
    <2> QED
      BY <2>1, <2>2
  <1>14. ASSUME NEW h \in Handlers, HandlerEnd(h) PROVE Attended(i)'
    BY <1>12, <1>13, <1>14, RefuseAttends, SucceedAttends, Zenon DEF HandlerEnd
  <1> QED
    BY <1>1, <1>4, <1>5, <1>6, <1>7, <1>8, <1>9, <1>10, <1>11, <1>14, NextCases, Zenon

\* At rest nobody is left to see to a pair, so it has been compared or its job failed.
LEMMA ComparedFollows == AllAttended => ComparedAtRest
  <1> SUFFICES ASSUME AllAttended, AtRest, missed = {}, \A r \in Receipts : doc[r].status # "failed",
                      NEW i \in Invoices, Comparable(i)
               PROVE  FailedJob(i) \/ Compared(i)
    BY Zenon DEF ComparedAtRest
  <1>1. Attended(i)
    BY Zenon DEF AllAttended, Owed
  <1>2. /\ \A d \in Docs : writer[d].pc = "idle"
        /\ \A j \in queue : j.state = "failed"
        /\ Sides(i) \subseteq Docs
    BY DEF AtRest, Sides, Docs
  <1>3. CASE \E d \in Docs : writer[d].pc \in {"queued", "enqueue", "add"}
    BY <1>2, <1>3
  <1>4. CASE \E j \in queue : j.inv = i
    BY <1>2, <1>4, Zenon DEF FailedJob
  <1> QED
    BY <1>1, <1>2, <1>3, <1>4 DEF Attended

-----------------------------------------------------------------------------
(* The theorems *)

LEMMA PairInit == Init => PairInv
  <1> SUFFICES ASSUME Init PROVE PairInv
    OBVIOUS
  <1>1. /\ clock = 1 /\ queue = {} /\ runs = <<>> /\ missed = {} /\ faults = 0
        /\ handler = [h \in Handlers |-> IdleHandler] /\ writer = [d \in Docs |-> IdleWriter]
        /\ doc = [d \in Docs |-> [status |-> "absent", at |-> 0, lines |-> 0,
                                  unconfirmed |-> d \in Photos]]
    BY Zenon DEF Init
  <1>2. clock \in 0..MaxClock /\ 0 \in 0..MaxClock /\ 0 \in 0..MaxFaults /\ 0 <= MaxRuns
    BY <1>1, BoundsNatural
  <1>3. DOMAIN runs = {} /\ runs \in Seq(Run) /\ Len(runs) = 0
    BY <1>1
  <1>4. \A d \in Docs : /\ doc[d].status = "absent" /\ doc[d].at = 0 /\ doc[d].lines = 0
                        /\ doc[d] \in DocRow
    <2>1. ASSUME NEW d \in Docs
          PROVE  /\ doc[d].status = "absent" /\ doc[d].at = 0 /\ doc[d].lines = 0
                 /\ doc[d] \in DocRow
      <3> DEFINE u == d \in Photos
      <3>1. doc[d] = [status |-> "absent", at |-> 0, lines |-> 0, unconfirmed |-> u]
        BY <1>1, Zenon
      <3>2. u \in BOOLEAN
        OBVIOUS
      <3> HIDE DEF u
      <3> QED
        BY <1>2, <3>1, <3>2 DEF DocRow
    <2> QED
      BY <2>1, Zenon
  <1>5. /\ IdleWriter \in WriterState /\ IdleWriter.pc = "idle" /\ IdleWriter.stamp = 0
        /\ IdleWriter.pairs = {}
    BY <1>2 DEF IdleWriter, WriterState, StallLimit
  <1>6. \A d \in Docs : writer[d] = IdleWriter
    BY <1>1, Zenon
  <1>7. \A h \in Handlers : handler[h] = IdleHandler
    BY <1>1, Zenon
  <1>8. \A h \in Handlers : /\ handler[h].pc = "idle" /\ handler[h].job = NoJob
                            /\ handler[h].known = {} /\ \A d \in Docs : handler[h].reads[d] = 0
    BY <1>7, IdleHandlerType DEF Unread
  <1>9. TypeOK
    <2>1. doc \in [Docs -> DocRow] /\ writer \in [Docs -> WriterState]
      BY <1>1, <1>4, <1>5, Zenon
    <2>2. handler \in [Handlers -> HandlerState]
      BY <1>1, IdleHandlerType, Zenon
    <2> QED
      BY <1>1, <1>2, <1>3, <2>1, <2>2 DEF TypeOK
  <1>10. Timed
    BY <1>1, <1>2, <1>3, <1>4, <1>5, <1>6 DEF Timed
  <1>11. Written
    <2>1. \A d \in Docs : writer[d].pc = "idle" /\ writer[d].pairs = {}
      BY <1>5, <1>6, Zenon
    <2>2. Invoices \subseteq Docs
      BY DEF Docs
    <2> QED
      BY <2>1, <2>2 DEF Written
  <1>12. Routed
    <2>1. \A h \in Handlers : HandlerRouted(h)
      BY <1>7, <1>8, NoJobNoPair DEF HandlerRouted
    <2>2. RunsOwned
      BY <1>8 DEF RunsOwned
    <2> QED
      BY <2>1, <2>2, Zenon DEF Routed
  <1>13. Fresh
    <2>1. \A h \in Handlers : h \notin Reading
      BY <1>8 DEF Reading
    <2> QED
      BY <1>3, <2>1, Zenon DEF Fresh, ReaderFresh
  <1>14. Grown
    BY <1>3, <1>4, <1>8 DEF Grown
  <1>15. Advancing
    <2>1. Steady
      BY <1>3, <1>5, <1>6, <1>8 DEF Steady
    <2> QED
      BY <1>3, <1>8, <2>1 DEF Advancing
  <1>16. AllAttended
    <2>1. doc[PO].status = "absent"
      BY <1>4 DEF Docs
    <2> QED
      BY <2>1 DEF AllAttended, Owed, Comparable, Ready
  <1> QED
    BY <1>9, <1>10, <1>11, <1>12, <1>13, <1>14, <1>15, <1>16, Zenon DEF PairInv

LEMMA PairStep == PairInv /\ [Next]_vars => PairInv'
  <1> SUFFICES ASSUME PairInv, [Next]_vars PROVE PairInv'
    OBVIOUS
  <1>1. CASE Next
    BY <1>1, TypeStep, TimedStep, WrittenStep, RoutedStep, FreshStep, GrownStep, AdvancingStep,
       AttendedStep, Zenon DEF PairInv
  <1>2. CASE UNCHANGED vars
    <2>1. /\ clock' = clock /\ doc' = doc /\ writer' = writer /\ queue' = queue
          /\ handler' = handler /\ runs' = runs /\ missed' = missed /\ faults' = faults
      BY <1>2, Zenon DEF vars
    <2>2. TypeOK' /\ Timed' /\ Written' /\ Grown'
      BY <2>1, Zenon DEF PairInv, TypeOK, Timed, Written, Grown
    <2>3. Routed'
      BY <2>1, Zenon DEF PairInv, Routed, HandlerRouted, RunsOwned
    <2>4. Fresh'
      BY <2>1, Zenon DEF PairInv, Fresh, ReaderFresh, RunFresh, Reading, Seen, RestsOn,
         DoneReceipts, ReadCurrent
    <2>5. Advancing'
      BY <2>1, Zenon DEF PairInv, Advancing, Passed, Steady, SidesDone, Outreads, Outread,
         StillReads, HasRead
    <2>6. AllAttended'
      <3> SUFFICES ASSUME NEW i \in Invoices, Owed(i)' PROVE Attended(i)'
        BY Zenon DEF AllAttended
      <3>1. RunsStand /\ JobsStand(i) /\ missed \subseteq missed'
        BY <2>1, Zenon DEF RunsStand, JobsStand
      <3> QED
        BY <2>1, <3>1, HandlerAttends, Zenon DEF PairInv
    <2> QED
      BY <2>2, <2>3, <2>4, <2>5, <2>6, Zenon DEF PairInv
  <1> QED
    BY <1>1, <1>2

\* The inductive invariant holds in every state the program reaches.
THEOREM PairSafe == Spec => []PairInv
  <1>1. Init => PairInv
    BY PairInit
  <1>2. PairInv /\ [Next]_vars => PairInv'
    BY PairStep
  <1> QED
    BY <1>1, <1>2, PTL DEF Spec

\* Every row, job, handler and run keeps the shape its table or queue gives it, whatever
\* the numbers of documents, workers and users.
THEOREM PairTyping == Spec => []TypeOK
  <1>1. PairInv => TypeOK
    BY Zenon DEF PairInv
  <1> QED
    BY <1>1, PairSafe, PTL

\* When isUpToDate() calls a pair up to date, its latest run has read the current lines of
\* every document feeding it, but for those whose write was in flight while it read.
THEOREM FreshSafe == Spec => []FreshUnlessOverlapped
  <1>1. PairInv => FreshUnlessOverlapped
    BY FreshFollows, Zenon DEF PairInv
  <1> QED
    BY <1>1, PairSafe, PTL

\* Without faults, no automatic run reads again exactly what a run known to its job had read,
\* unless that run started in the millisecond that stamped one of its inputs.
THEOREM RunsAdvance == Spec => []NoRedundantRun
  <1>1. PairInv => NoRedundantRun
    BY NoRedundantFollows, Zenon DEF PairInv
  <1> QED
    BY <1>1, PairSafe, PTL

\* When nothing is running any more, every pair that can be compared has been, on what its
\* documents say now, unless a receipt failed to parse, a follow-up was lost or refused, or
\* its job failed for good.
THEOREM AllCompared == Spec => []ComparedAtRest
  <1>1. PairInv => ComparedAtRest
    BY ComparedFollows, Zenon DEF PairInv
  <1> QED
    BY <1>1, PairSafe, PTL
=============================================================================
