---------------------------- MODULE IntakeProofs ----------------------------
(***************************************************************************)
(* Theorems about what comes in from vendors, for any workers, sweeps,     *)
(* reviewers, sites, searches and bounds: a document (DocumentParse) and a *)
(* catalogue (CatalogParse, as ParseJobs takes it), then the crawl of a    *)
(* vendor's site (SiteCrawl) and the searches of its items                 *)
(* (CatalogMatches), as Sourcing takes them.                               *)
(***************************************************************************)
EXTENDS ParseJobs, Sourcing, FiniteSetTheorems, SequenceTheorems, WellFoundedInduction, TLAPS

\* What a sweep is about to queue is below the cap, and an attempt that still answers
\* its job has not been counted twice.
Capped ==
  /\ \A s \in Sweeps : sweep[s].pc \in {"requeue", "add"} => sweep[s].seen < MaxRequeues
  /\ \A w \in Workers : parse[w].owns => parse[w].attempt <= Attempts

\* reviewed_at is the record of the one confirmation, and nothing clears it.
Recorded == confirms = IF row.reviewed THEN 1 ELSE 0

IInv == TypeOK /\ Capped /\ Recorded

Header == [status : Unsettled \cup {"absent", "done", "failed"}, requeue : 0..MaxRequeues,
           stale : BOOLEAN, reviewed : BOOLEAN, lines : {"none", "parsed", "confirmed"}]
Attempt == [pc : {"idle", "start", "read", "return", "throw"},
            id : 0..MaxRequeues, owns : BOOLEAN, attempt : 0..Attempts + 1]
Visit == [pc : {"idle", "check", "fail", "requeue", "add"}, seen : 0..MaxRequeues]

-----------------------------------------------------------------------------
(* Helpers *)

LEMMA IdleTyped == IdleParse \in Attempt /\ IdleSweep \in Visit
  BY BoundsNatural DEF IdleParse, IdleSweep, Attempt, Visit

LEMMA NewJobTyped ==
  ASSUME NEW n \in 0..MaxRequeues
  PROVE  NewJob(n) \in Job
  BY BoundsNatural DEF NewJob, Job, StallLimit

\* A job that is answered, or whose worker died, keeps within its attempts and its
\* redelivery.
LEMMA OutcomesTyped ==
  ASSUME NEW j \in Job
  PROVE  Rejected(j) \in Job /\ Stalled(j) \in Job
<1>1. [j EXCEPT !.state = "failed"] \in Job
  BY DEF Job
<1>2. ASSUME j.tries + 1 < Attempts
      PROVE  [j EXCEPT !.state = "waiting", !.tries = @ + 1] \in Job
  <2>1. j.tries + 1 \in 0..Attempts - 1
    BY <1>2, BoundsNatural DEF Job
  <2> QED BY <2>1 DEF Job
<1>3. ASSUME j.stalls < StallLimit
      PROVE  [j EXCEPT !.state = "waiting", !.stalls = @ + 1] \in Job
  <2>1. j.stalls + 1 \in 0..StallLimit
    BY <1>3 DEF Job, StallLimit
  <2> QED BY <2>1 DEF Job
<1> QED BY <1>1, <1>2, <1>3 DEF Rejected, Stalled

LEMMA OwnTyped ==
  ASSUME TypeOK, NEW w
  PROVE  /\ queue \ Own(w) \subseteq Job
         /\ (queue \ Own(w)) \cup {Rejected(j) : j \in Own(w)} \subseteq Job
         /\ (queue \ Own(w)) \cup {Stalled(j) : j \in Own(w)} \subseteq Job
  BY OutcomesTyped DEF TypeOK, Own

LEMMA AddTyped ==
  ASSUME TypeOK, NEW n \in 0..MaxRequeues, AddJob(n)
  PROVE  queue' \subseteq Job
  BY NewJobTyped DEF TypeOK, AddJob

-----------------------------------------------------------------------------
(* The invariant is inductive *)

LEMMA InitIInv == Init => IInv
<1> SUFFICES ASSUME Init PROVE IInv
  OBVIOUS
<1>1. TypeOK
  BY IdleTyped, BoundsNatural DEF Init, TypeOK, Unsettled, Attempt, Visit
<1>2. Capped
  BY DEF Init, Capped, IdleParse, IdleSweep
<1> QED BY <1>1, <1>2 DEF IInv, Init, Recorded

\* upload() and queueDoc(), deaths and losses included.
LEMMA UploadSteps ==
  ASSUME IInv, Upload \/ UploadAdds \/ UploadAddFails \/ UploadDies \/ LoseJob \/ Age
  PROVE  IInv'
<1> USE BoundsNatural DEF IInv, Capped, Recorded, TypeOK, Header, Unsettled, Fault
<1>1. CASE Upload BY <1>1 DEF Upload
<1>2. CASE UploadAdds
  <2>1. queue' \subseteq Job BY <1>2, AddTyped DEF UploadAdds
  <2> QED BY <1>2, <2>1 DEF UploadAdds
<1>3. CASE UploadAddFails BY <1>3 DEF UploadAddFails
<1>4. CASE UploadDies BY <1>4 DEF UploadDies
<1>5. CASE LoseJob BY <1>5 DEF LoseJob
<1>6. CASE Age BY <1>6 DEF Age
<1> QED BY <1>1, <1>2, <1>3, <1>4, <1>5, <1>6

\* handleParse(), time-outs and deaths included.
LEMMA WorkerSteps ==
  ASSUME IInv, NEW w \in Workers,
         WorkerStep(w) \/ FailUnrecorded(w) \/ TimeOut(w) \/ Die(w)
  PROVE  IInv'
<1> USE BoundsNatural DEF IInv, Capped, Recorded, TypeOK, Header, Unsettled, Fault
<1>0. parse[w] \in Attempt BY DEF Attempt
<1>1. CASE Deliver(w)
  <2> PICK j \in queue :
        /\ queue' = (queue \ {j}) \cup {[j EXCEPT !.state = "active"]}
        /\ parse' = [parse EXCEPT ![w] =
             [pc |-> "start", id |-> j.id, owns |-> TRUE, attempt |-> j.tries + 1]]
    BY <1>1 DEF Deliver
  <2>1. j \in Job OBVIOUS
  <2>2. [j EXCEPT !.state = "active"] \in Job BY <2>1 DEF Job
  <2>3. j.id \in 0..MaxRequeues /\ j.tries + 1 \in 1..Attempts BY <2>1 DEF Job
  <2> QED BY <1>1, <2>2, <2>3 DEF Deliver
<1>2. CASE SetProcessing(w) BY <1>0, <1>2 DEF SetProcessing
<1>3. CASE ReplaceLines(w) BY <1>0, <1>3 DEF ReplaceLines
<1>4. CASE FailForGood(w) BY <1>0, <1>4 DEF FailForGood
<1>5. CASE FailForNow(w) BY <1>0, <1>5 DEF FailForNow
<1>6. CASE FailUnrecorded(w) BY <1>0, <1>6 DEF FailUnrecorded
<1>7. CASE Return(w)
  BY <1>7, IdleTyped, OwnTyped DEF Return, IdleParse
<1>8. CASE Throw(w)
  BY <1>8, IdleTyped, OwnTyped DEF Throw, IdleParse
<1>9. CASE TimeOut(w)
  <2>1. parse[w].owns BY <1>9 DEF TimeOut, Own
  <2>2. parse[w].attempt + 1 \in 0..Attempts + 1 BY <1>0, <2>1 DEF Attempt
  <2>3. queue' \subseteq Job BY <1>9, OwnTyped DEF TimeOut
  <2> QED BY <1>0, <1>9, <2>2, <2>3 DEF TimeOut, Attempt
<1>10. CASE Die(w)
  BY <1>10, IdleTyped, OwnTyped DEF Die, IdleParse
<1> QED BY <1>1, <1>2, <1>3, <1>4, <1>5, <1>6, <1>7, <1>8, <1>9, <1>10 DEF WorkerStep

\* reconcile(): what is queued again is below the cap, whatever moved meanwhile.
LEMMA SweepSteps ==
  ASSUME IInv, NEW s \in Sweeps,
         SweepStep(s) \/ CheckFails(s) \/ SweepAddFails(s) \/ SweepDies(s)
  PROVE  IInv'
<1> USE BoundsNatural DEF IInv, Capped, Recorded, TypeOK, Header, Unsettled, Fault
<1>0. sweep[s] \in Visit BY DEF Visit
<1>1. CASE Select(s) BY <1>1 DEF Select
<1>2. CASE Check(s)
  <2>1. /\ Decision(sweep[s].seen) \in {"idle", "fail", "requeue"}
        /\ Decision(sweep[s].seen) = "requeue" => sweep[s].seen < MaxRequeues
    BY <1>0 DEF Decision, Visit
  <2> QED BY <1>0, <1>2, <2>1 DEF Check, Visit
<1>3. CASE CheckFails(s) BY <1>0, <1>3 DEF CheckFails, Visit
<1>4. CASE SweepFails(s) BY <1>4, IdleTyped DEF SweepFails, IdleSweep
<1>5. CASE SweepRequeues(s)
  <2>1. sweep[s].seen + 1 \in 0..MaxRequeues BY <1>0, <1>5 DEF SweepRequeues, Visit
  <2> QED BY <1>0, <1>5, <2>1 DEF SweepRequeues, Visit
<1>6. CASE SweepAdds(s)
  <2>1. sweep[s].seen + 1 \in 0..MaxRequeues BY <1>0, <1>6 DEF SweepAdds, Visit
  <2>2. queue' \subseteq Job BY <1>6, <2>1, AddTyped DEF SweepAdds
  <2> QED BY <1>6, <2>2, IdleTyped DEF SweepAdds, IdleSweep
<1>7. CASE SweepAddFails(s) BY <1>7, IdleTyped DEF SweepAddFails, IdleSweep
<1>8. CASE SweepDies(s) BY <1>8, IdleTyped DEF SweepDies, IdleSweep
<1> QED BY <1>1, <1>2, <1>3, <1>4, <1>5, <1>6, <1>7, <1>8 DEF SweepStep

\* review(): the claim needs reviewed_at null, and sets it.
LEMMA ReviewSteps ==
  ASSUME IInv, NEW u \in Reviewers, ShowLines(u) \/ Review(u) \/ ReviewRefused(u)
  PROVE  IInv'
<1> USE BoundsNatural DEF IInv, Capped, Recorded, TypeOK, Header, Unsettled
<1>1. CASE ShowLines(u) BY <1>1 DEF ShowLines
<1>2. CASE Review(u)
  <2>1. /\ row' \in Header
        /\ row'.reviewed = TRUE
    BY <1>2 DEF Review
  <2>2. row.reviewed = FALSE
    BY <1>2 DEF Review, Claimable
  <2>3. confirms' = 1
    BY <1>2, <2>2 DEF Review
  <2> QED BY <1>2, <2>1, <2>3 DEF Review
<1>3. CASE ReviewRefused(u) BY <1>3 DEF ReviewRefused
<1> QED BY <1>1, <1>2, <1>3

LEMMA NextIInv == IInv /\ [Next]_vars => IInv'
<1> SUFFICES ASSUME IInv, [Next]_vars PROVE IInv'
  OBVIOUS
<1>1. CASE UNCHANGED vars
  BY <1>1 DEF vars, IInv, Capped, Recorded, TypeOK
<1> QED BY <1>1, UploadSteps, WorkerSteps, SweepSteps, ReviewSteps DEF Next

-----------------------------------------------------------------------------

\* A job id never goes past MAX_RECONCILE_REQUEUES, a job never past its attempts, and
\* the header, the attempts and the sweeps keep their shape (queueDoc, reconcile).
THEOREM ParseTyping == Spec => []TypeOK
<1>1. IInv => TypeOK BY DEF IInv
<1> QED BY InitIInv, NextIInv, <1>1, PTL DEF Spec

\* However many reviewers confirm, and however attempts and sweeps overlap around them,
\* one confirmation of a document succeeds (review, claimHeader).
THEOREM OneConfirmation == Spec => []ConfirmedOnce
<1>1. IInv => ConfirmedOnce BY DEF IInv, Recorded, ConfirmedOnce
<1> QED BY InitIInv, NextIInv, <1>1, PTL DEF Spec

-----------------------------------------------------------------------------
(* A catalogue: its queue and attempts take the steps of DocumentParse, its  *)
(* items are written by three statements                                     *)

CatalogHeader == [status : Unsettled \cup {"absent", "done", "failed"}, requeue : Nat,
                  stale : BOOLEAN, reviewed : BOOLEAN, lines : {"none", "parsed", "confirmed"}]
CatalogJob == [id : Nat, state : {"waiting", "active", "failed"}, tries : Nat, stalls : Nat]
CatalogAttempt == [pc : {"idle", "start", "read", "return", "throw"},
                   id : Nat, owns : BOOLEAN, attempt : Nat]
CatalogVisit == [pc : {"idle", "check", "fail", "requeue", "add"}, seen : Nat]

\* The header, the jobs and the processes have their shape.
Shaped ==
  /\ row \in CatalogHeader /\ queue \subseteq CatalogJob
  /\ parse \in [Workers -> CatalogAttempt] /\ sweep \in [Sweeps -> CatalogVisit]
  /\ write \in [Workers -> {"none", "deleted", "inserted"}] /\ copies \in Nat
  /\ overlapped \in BOOLEAN

\* Until attempts overlap, one of them is in progress, and the header is not done while it
\* reads and writes; the items are what its last statement made of them.
Single ==
  /\ \A v, w \in Workers : parse[v].pc # "idle" /\ parse[w].pc # "idle" => v = w
  /\ \A w \in Workers : parse[w].pc = "read" => row.status # "done"
  /\ \A w \in Workers : write[w] # "none" => parse[w].pc = "read"
  /\ \A w \in Workers : write[w] = "deleted" => copies = 0
  /\ \A w \in Workers : write[w] = "inserted" => copies = 1
  /\ row.status = "done" => copies = 1

CatalogInv == Shaped /\ (overlapped \/ Single)

-----------------------------------------------------------------------------
(* What a step of the queue does to the attempts and the header *)

\* Attempt w comes to p; the others stay.
Comes(w, p) ==
  /\ parse' \in [Workers -> CatalogAttempt] /\ parse'[w].pc = p
  /\ \A v \in Workers \ {w} : parse'[v] = parse[v]

LEMMA OneAttempt ==
  ASSUME Shaped, NEW w \in Workers, NEW a \in CatalogAttempt, parse' = [parse EXCEPT ![w] = a]
  PROVE  Comes(w, a.pc)
  BY DEF Shaped, Comes

LEMMA PcMoves ==
  ASSUME Shaped, NEW w \in Workers, NEW p \in {"idle", "start", "read", "return", "throw"},
         parse' = [parse EXCEPT ![w].pc = p]
  PROVE  Comes(w, p)
<1> DEFINE a == [parse[w] EXCEPT !.pc = p]
<1>1. a \in CatalogAttempt /\ a.pc = p
  BY DEF Shaped, CatalogAttempt
<1>2. parse' = [parse EXCEPT ![w] = a]
  BY DEF Shaped
<1> HIDE DEF a
<1> QED BY <1>1, <1>2, OneAttempt, Zenon

LEMMA GoesIdle ==
  ASSUME Shaped, NEW w \in Workers, parse' = [parse EXCEPT ![w] = Catalog!P!IdleParse]
  PROVE  Comes(w, "idle")
<1>1. Catalog!P!IdleParse \in CatalogAttempt /\ Catalog!P!IdleParse.pc = "idle"
  BY DEF Catalog!P!IdleParse, CatalogAttempt
<1> QED BY <1>1, OneAttempt, Zenon

LEMMA HeaderFields ==
  ASSUME Shaped, NEW s \in Unsettled \cup {"done", "failed"}, NEW n \in Nat,
         \/ row' = [row EXCEPT !.status = s]
         \/ row' = [row EXCEPT !.status = s, !.stale = FALSE]
         \/ row' = [row EXCEPT !.status = s, !.lines = "parsed"]
         \/ row' = [row EXCEPT !.status = s, !.requeue = n, !.stale = FALSE]
  PROVE  row' \in CatalogHeader /\ row'.status = s
<1> DEFINE a == [row EXCEPT !.status = s]
<1>1. a \in CatalogHeader /\ a.status = s
  BY DEF Shaped, CatalogHeader, Unsettled
<1>2. \/ row' = a
      \/ row' = [a EXCEPT !.stale = FALSE]
      \/ row' = [a EXCEPT !.lines = "parsed"]
      \/ row' = [a EXCEPT !.requeue = n, !.stale = FALSE]
  OBVIOUS
<1> HIDE DEF a
<1> QED BY <1>1, <1>2 DEF CatalogHeader

LEMMA JobsKept ==
  ASSUME Shaped, NEW w
  PROVE  /\ queue \ Catalog!P!Own(w) \subseteq CatalogJob
         /\ (queue \ Catalog!P!Own(w)) \cup {Catalog!P!Rejected(j) : j \in Catalog!P!Own(w)}
              \subseteq CatalogJob
         /\ (queue \ Catalog!P!Own(w)) \cup {Catalog!P!Stalled(j) : j \in Catalog!P!Own(w)}
              \subseteq CatalogJob
<1>1. ASSUME NEW j \in CatalogJob
      PROVE  Catalog!P!Rejected(j) \in CatalogJob /\ Catalog!P!Stalled(j) \in CatalogJob
  <2>1. [j EXCEPT !.state = "failed"] \in CatalogJob
    BY DEF CatalogJob
  <2>0. j.tries + 1 \in Nat /\ j.stalls + 1 \in Nat
    BY DEF CatalogJob
  <2>2. [j EXCEPT !.state = "waiting", !.tries = @ + 1] \in CatalogJob
    BY <2>0 DEF CatalogJob
  <2>3. [j EXCEPT !.state = "waiting", !.stalls = @ + 1] \in CatalogJob
    BY <2>0 DEF CatalogJob
  <2> QED BY <2>1, <2>2, <2>3, Zenon DEF Catalog!P!Rejected, Catalog!P!Stalled
<1> QED BY <1>1 DEF Shaped, Catalog!P!Own

LEMMA JobAdded ==
  ASSUME Shaped, NEW n \in Nat, Catalog!P!AddJob(n)
  PROVE  queue' \subseteq CatalogJob
<1>1. Catalog!P!NewJob(n) \in CatalogJob
  BY DEF Catalog!P!NewJob, CatalogJob
<1> QED BY <1>1 DEF Shaped, Catalog!P!AddJob

-----------------------------------------------------------------------------
(* The invariant of a catalogue *)

\* A step that leaves the attempts and the items alone, and does not finish the header.
LEMMA OthersSafe ==
  ASSUME CatalogInv, write' = write, copies' = copies, overlapped' = overlapped, parse' = parse,
         row' \in CatalogHeader, row'.status = "done" => row.status = "done",
         queue' \subseteq CatalogJob, sweep' \in [Sweeps -> CatalogVisit]
  PROVE  CatalogInv'
<1>1. Shaped'
  BY Zenon DEF CatalogInv, Shaped
<1>2. Single => Single'
  BY Zenon DEF Single
<1> QED BY <1>1, <1>2, Zenon DEF CatalogInv

\* An attempt that ends, or ends its statements, leaves the rest alone.
LEMMA EndSafe ==
  ASSUME CatalogInv, NEW w \in Workers, NEW p \in {"idle", "return", "throw"}, Comes(w, p),
         parse[w].pc # "idle",
         write' = [write EXCEPT ![w] = "none"] \/ (write' = write /\ parse[w].pc # "read"),
         copies' = copies, overlapped' = overlapped, sweep' = sweep,
         queue' \subseteq CatalogJob, row' \in CatalogHeader,
         row'.status = "done" => row.status = "done" \/ write[w] = "inserted"
  PROVE  CatalogInv'
<1>1. /\ write' \in [Workers -> {"none", "deleted", "inserted"}]
      /\ \A v \in Workers \ {w} : write'[v] = write[v]
      /\ write'[w] = "none" \/ (write'[w] = write[w] /\ parse[w].pc # "read")
  BY DEF CatalogInv, Shaped
<1>2. Shaped'
  BY <1>1 DEF CatalogInv, Shaped, Comes
<1>3. ASSUME Single PROVE Single'
  <2>1. \A v \in Workers : parse'[v].pc # "idle" => parse[v].pc # "idle"
    BY DEF Comes
  <2>2. \A v \in Workers : parse'[v].pc = "read" => v # w /\ parse[v].pc = "read"
    BY DEF Comes
  <2>3. \A v \in Workers : parse'[v].pc # "read"
    BY <1>3, <2>2 DEF Single
  <2>4. \A v \in Workers : write'[v] = "none"
    <3>1. write'[w] = "none"
      BY <1>1, <1>3 DEF Single
    <3>2. ASSUME NEW v \in Workers, v # w PROVE write[v] = "none"
      BY <1>3, <3>2 DEF Single
    <3> QED BY <1>1, <3>1, <3>2
  <2>5. row'.status = "done" => copies = 1
    BY <1>3 DEF Single
  <2> QED BY <1>3, <2>1, <2>3, <2>4, <2>5 DEF Single
<1> QED BY <1>2, <1>3, Zenon DEF CatalogInv

LEMMA CatalogInit == Catalog!Init => CatalogInv
<1> SUFFICES ASSUME Catalog!Init PROVE CatalogInv
  OBVIOUS
<1>1. Catalog!P!IdleParse \in CatalogAttempt /\ Catalog!P!IdleParse.pc = "idle"
  BY DEF Catalog!P!IdleParse, CatalogAttempt
<1>2. Catalog!P!IdleSweep \in CatalogVisit
  BY DEF Catalog!P!IdleSweep, CatalogVisit
<1>3. row \in CatalogHeader /\ row.status = "absent"
  BY DEF Catalog!Init, Catalog!P!Init, CatalogHeader, Unsettled
<1>4. Shaped
  BY <1>1, <1>2, <1>3 DEF Catalog!Init, Catalog!P!Init, Shaped
<1>5. Single
  BY <1>1, <1>3 DEF Catalog!Init, Catalog!P!Init, Single
<1> QED BY <1>4, <1>5 DEF CatalogInv

\* Uploads and sweeps.
LEMMA CatalogQueueSteps ==
  ASSUME CatalogInv,
         \/ Catalog!Upload \/ Catalog!QueueDoc \/ Catalog!QueueDocFails \/ Catalog!UploadDies
         \/ Catalog!Age \/ Catalog!LoseJob
         \/ \E s \in Sweeps : Catalog!SweepStep(s) \/ Catalog!RequeueFails(s)
  PROVE  CatalogInv'
<1>0. Shaped /\ write' = write /\ copies' = copies /\ overlapped' = overlapped /\ parse' = parse
  BY Zenon DEF CatalogInv, Catalog!itemVars, Catalog!SweepStep, Catalog!Upload, Catalog!QueueDoc,
     Catalog!QueueDocFails, Catalog!UploadDies, Catalog!Age, Catalog!LoseJob, Catalog!Select,
     Catalog!Check, Catalog!MarkFailed, Catalog!Requeue, Catalog!RequeueFails,
     Catalog!P!Upload, Catalog!P!UploadAdds, Catalog!P!UploadAddFails, Catalog!P!UploadDies,
     Catalog!P!Age, Catalog!P!LoseJob, Catalog!P!Select, Catalog!P!Check, Catalog!P!CheckFails,
     Catalog!P!SweepFails, Catalog!P!SweepRequeues, Catalog!P!SweepAdds, Catalog!P!SweepAddFails,
     Catalog!P!SweepDies
<1>1. /\ row \in CatalogHeader /\ queue \subseteq CatalogJob /\ sweep \in [Sweeps -> CatalogVisit]
  BY <1>0 DEF Shaped
<1>2. CASE Catalog!Upload
  <2>1. row' \in CatalogHeader /\ row'.status = "pending"
    BY <1>0, <1>2, HeaderFields DEF Catalog!Upload, Catalog!P!Upload, Unsettled
  <2>2. queue' = queue /\ sweep' = sweep
    BY <1>2, Zenon DEF Catalog!Upload, Catalog!P!Upload
  <2> QED BY <1>0, <1>1, <2>1, <2>2, OthersSafe
<1>3. CASE Catalog!QueueDoc
  <2>1. row' = row /\ sweep' = sweep /\ Catalog!P!AddJob(0)
    BY <1>3, Zenon DEF Catalog!QueueDoc, Catalog!P!UploadAdds
  <2>2. queue' \subseteq CatalogJob
    BY <1>0, <2>1, JobAdded
  <2> QED BY <1>0, <1>1, <2>1, <2>2, OthersSafe
<1>4. CASE Catalog!QueueDocFails
  <2>1. row' \in CatalogHeader /\ row'.status = "failed"
    BY <1>0, <1>4, HeaderFields DEF Catalog!QueueDocFails, Catalog!P!UploadAddFails
  <2>2. queue' = queue /\ sweep' = sweep
    BY <1>4, Zenon DEF Catalog!QueueDocFails, Catalog!P!UploadAddFails
  <2> QED BY <1>0, <1>1, <2>1, <2>2, OthersSafe
<1>5. CASE Catalog!UploadDies \/ Catalog!LoseJob
  <2>1. row' = row /\ sweep' = sweep
    BY <1>5, Zenon DEF Catalog!UploadDies, Catalog!P!UploadDies, Catalog!LoseJob, Catalog!P!LoseJob
  <2>2. queue' \subseteq CatalogJob
    BY <1>1, <1>5 DEF Catalog!UploadDies, Catalog!P!UploadDies, Catalog!LoseJob, Catalog!P!LoseJob
  <2> QED BY <1>0, <1>1, <2>1, <2>2, OthersSafe
<1>6. CASE Catalog!Age
  <2>1. row' \in CatalogHeader /\ row'.status = row.status
    BY <1>1, <1>6 DEF Catalog!Age, Catalog!P!Age, CatalogHeader
  <2>2. queue' = queue /\ sweep' = sweep
    BY <1>6, Zenon DEF Catalog!Age, Catalog!P!Age
  <2> QED BY <1>0, <1>1, <2>1, <2>2, OthersSafe
<1>7. ASSUME NEW s \in Sweeps, Catalog!SweepStep(s) \/ Catalog!RequeueFails(s) PROVE CatalogInv'
  <2>0. sweep[s] \in CatalogVisit /\ sweep[s].seen \in Nat
    BY <1>1 DEF CatalogVisit
  <2>1. CASE Catalog!P!Select(s)
    <3>1. row' = row /\ queue' = queue
      BY <2>1, Zenon DEF Catalog!P!Select
    <3>2. sweep' \in [Sweeps -> CatalogVisit]
      BY <1>1, <2>1 DEF Catalog!P!Select, CatalogVisit, CatalogHeader
    <3> QED BY <1>0, <1>1, <3>1, <3>2, OthersSafe
  <2>2. CASE Catalog!P!Check(s) \/ Catalog!P!CheckFails(s)
    <3>1. row' = row /\ queue' = queue
      BY <2>2, Zenon DEF Catalog!P!Check, Catalog!P!CheckFails
    <3>2. Catalog!P!Decision(sweep[s].seen) \in {"idle", "fail", "requeue"}
      BY DEF Catalog!P!Decision
    <3>3. sweep' \in [Sweeps -> CatalogVisit]
      BY <1>1, <2>2, <3>2 DEF Catalog!P!Check, Catalog!P!CheckFails, CatalogVisit
    <3> QED BY <1>0, <1>1, <3>1, <3>3, OthersSafe
  <2>3. Catalog!P!IdleSweep \in CatalogVisit
    BY DEF Catalog!P!IdleSweep, CatalogVisit
  <2>4. CASE Catalog!P!SweepFails(s) \/ Catalog!P!SweepAddFails(s)
    <3>1. row' \in CatalogHeader /\ row'.status = "failed"
      BY <1>0, <2>4, HeaderFields DEF Catalog!P!SweepFails, Catalog!P!SweepAddFails
    <3>2. queue' = queue /\ sweep' = [sweep EXCEPT ![s] = Catalog!P!IdleSweep]
      BY <2>4, Zenon DEF Catalog!P!SweepFails, Catalog!P!SweepAddFails
    <3> QED BY <1>0, <1>1, <2>3, <3>1, <3>2, OthersSafe
  <2>5. CASE Catalog!P!SweepRequeues(s)
    <3>1. sweep[s].seen + 1 \in Nat
      BY <2>0
    <3>2. row' \in CatalogHeader /\ row'.status = "pending"
      BY <1>0, <2>5, <3>1, HeaderFields DEF Catalog!P!SweepRequeues, Unsettled
    <3>3. queue' = queue /\ sweep' \in [Sweeps -> CatalogVisit]
      BY <1>1, <2>5 DEF Catalog!P!SweepRequeues, CatalogVisit
    <3> QED BY <1>0, <1>1, <3>2, <3>3, OthersSafe
  <2>6. CASE Catalog!P!SweepAdds(s)
    <3>1. sweep[s].seen + 1 \in Nat
      BY <2>0
    <3>2. /\ row' = row /\ sweep' = [sweep EXCEPT ![s] = Catalog!P!IdleSweep]
          /\ Catalog!P!AddJob(sweep[s].seen + 1)
      BY <2>6, Zenon DEF Catalog!P!SweepAdds
    <3>3. queue' \subseteq CatalogJob
      BY <1>0, <3>1, <3>2, JobAdded
    <3> QED BY <1>0, <1>1, <2>3, <3>2, <3>3, OthersSafe
  <2>7. CASE Catalog!P!SweepDies(s)
    <3>1. row' = row /\ queue' = queue /\ sweep' = [sweep EXCEPT ![s] = Catalog!P!IdleSweep]
      BY <2>7, Zenon DEF Catalog!P!SweepDies
    <3> QED BY <1>0, <1>1, <2>3, <3>1, OthersSafe
  <2> QED BY <1>7, <2>1, <2>2, <2>4, <2>5, <2>6, <2>7, Zenon
          DEF Catalog!SweepStep, Catalog!RequeueFails, Catalog!Select, Catalog!Check,
              Catalog!MarkFailed, Catalog!Requeue
<1> QED BY <1>2, <1>3, <1>4, <1>5, <1>6, <1>7, Zenon

\* Attempts.
LEMMA CatalogWorkerSteps ==
  ASSUME CatalogInv, NEW w \in Workers,
         \/ Catalog!WorkerStep(w) \/ Catalog!FailUnrecorded(w) \/ Catalog!TimeOut(w)
         \/ Catalog!Die(w)
  PROVE  CatalogInv'
<1>1. /\ row \in CatalogHeader /\ queue \subseteq CatalogJob /\ sweep \in [Sweeps -> CatalogVisit]
      /\ parse \in [Workers -> CatalogAttempt] /\ parse[w] \in CatalogAttempt /\ Shaped
      /\ write \in [Workers -> {"none", "deleted", "inserted"}] /\ copies \in Nat
      /\ overlapped \in BOOLEAN
  BY DEF CatalogInv, Shaped
<1>2. CASE Catalog!Deliver(w)
  <2>1. PICK j \in queue :
          /\ queue' = (queue \ {j}) \cup {[j EXCEPT !.state = "active"]}
          /\ parse' = [parse EXCEPT ![w] =
               [pc |-> "start", id |-> j.id, owns |-> TRUE, attempt |-> j.tries + 1]]
          /\ row' = row /\ sweep' = sweep /\ parse[w].pc = "idle"
    BY <1>2, Zenon DEF Catalog!Deliver, Catalog!P!Deliver
  <2>2. /\ overlapped' = (overlapped \/ \E v \in Workers \ {w} : parse[v].pc # "idle")
        /\ write' = write /\ copies' = copies
    BY <1>2, Zenon DEF Catalog!Deliver
  <2> DEFINE a == [pc |-> "start", id |-> j.id, owns |-> TRUE, attempt |-> j.tries + 1]
  <2>3. a \in CatalogAttempt /\ a.pc = "start"
    BY <1>1 DEF CatalogJob, CatalogAttempt
  <2>4. [j EXCEPT !.state = "active"] \in CatalogJob
    BY <1>1 DEF CatalogJob
  <2>5. Comes(w, a.pc)
    BY <1>1, <2>1, <2>3, OneAttempt
  <2> HIDE DEF a
  <2>6. Shaped'
    BY <1>1, <2>1, <2>2, <2>4, <2>5 DEF Shaped, Comes
  <2>7. ASSUME ~overlapped' PROVE Single'
    <3>1. Single /\ \A v \in Workers \ {w} : parse[v].pc = "idle"
      BY <2>2, <2>7 DEF CatalogInv
    <3> QED BY <2>1, <2>2, <2>3, <2>5, <3>1 DEF Single, Comes
  <2> QED BY <2>6, <2>7 DEF CatalogInv
<1>3. CASE Catalog!SetProcessing(w)
  <2>1. /\ parse[w].pc = "start" /\ parse' = [parse EXCEPT ![w].pc = "read"]
        /\ row' = [row EXCEPT !.status = "processing", !.stale = FALSE]
        /\ queue' = queue /\ sweep' = sweep /\ write' = write /\ copies' = copies
        /\ overlapped' = overlapped
    BY <1>3, Zenon DEF Catalog!SetProcessing, Catalog!P!SetProcessing, Catalog!itemVars
  <2>2. Comes(w, "read")
    BY <1>1, <2>1, PcMoves
  <2>3. row' \in CatalogHeader /\ row'.status = "processing"
    BY <1>1, <2>1, HeaderFields DEF Unsettled
  <2>4. Shaped'
    BY <1>1, <2>1, <2>2, <2>3, Zenon DEF Shaped, Comes
  <2>5. Single => Single'
    BY <2>1, <2>2, <2>3 DEF Single, Comes
  <2> QED BY <2>1, <2>4, <2>5 DEF CatalogInv
<1>4. CASE Catalog!DeleteItems(w)
  <2>1. /\ parse[w].pc = "read" /\ copies' = 0 /\ write' = [write EXCEPT ![w] = "deleted"]
        /\ overlapped' = overlapped
        /\ row' = row /\ queue' = queue /\ sweep' = sweep /\ parse' = parse
    BY <1>4, Zenon DEF Catalog!DeleteItems, Catalog!Cleared, Catalog!queueVars
  <2>2. Shaped'
    BY <1>1, <2>1 DEF Shaped
  <2>3. Single => Single'
    <3> SUFFICES ASSUME Single PROVE Single'
      OBVIOUS
    <3>1. \A v \in Workers : v # w => write[v] = "none"
      BY <2>1 DEF Single
    <3> QED BY <1>1, <2>1, <3>1 DEF Single
  <2> QED BY <2>1, <2>2, <2>3 DEF CatalogInv
<1>5. CASE Catalog!InsertItems(w)
  <2>1. /\ write[w] = "deleted" /\ copies' = copies + 1 /\ write' = [write EXCEPT ![w] = "inserted"]
        /\ overlapped' = overlapped
        /\ row' = row /\ queue' = queue /\ sweep' = sweep /\ parse' = parse
    BY <1>5, Zenon DEF Catalog!InsertItems, Catalog!queueVars
  <2>2. Shaped'
    BY <1>1, <2>1 DEF Shaped
  <2>3. Single => Single'
    <3> SUFFICES ASSUME Single PROVE Single'
      OBVIOUS
    <3>1. parse[w].pc = "read" /\ copies = 0
      BY <2>1 DEF Single
    <3>2. \A v \in Workers : v # w => write[v] = "none"
      BY <3>1 DEF Single
    <3> QED BY <1>1, <2>1, <3>1, <3>2 DEF Single
  <2> QED BY <2>1, <2>2, <2>3 DEF CatalogInv
<1>6. CASE Catalog!SetDone(w)
  <2>1. /\ write[w] = "inserted" /\ parse[w].pc = "read"
        /\ row' = [row EXCEPT !.status = "done", !.lines = "parsed"]
        /\ parse' = [parse EXCEPT ![w].pc = "return"]
        /\ queue' = queue /\ sweep' = sweep /\ write' = [write EXCEPT ![w] = "none"]
        /\ copies' = copies /\ overlapped' = overlapped
    BY <1>6, Zenon DEF Catalog!SetDone, Catalog!P!ReplaceLines, Catalog!Over
  <2>2. row' \in CatalogHeader
    BY <1>1, <2>1, HeaderFields
  <2>3. Comes(w, "return")
    BY <1>1, <2>1, PcMoves
  <2> QED BY <1>1, <2>1, <2>2, <2>3, EndSafe
<1>7. CASE Catalog!FailForGood(w) \/ Catalog!FailForNow(w) \/ Catalog!FailUnrecorded(w)
  <2>1. /\ parse[w].pc # "idle" /\ queue' = queue /\ sweep' = sweep
        /\ write' = [write EXCEPT ![w] = "none"] /\ copies' = copies /\ overlapped' = overlapped
        /\ row' = row \/ row' = [row EXCEPT !.status = "failed"]
        /\ \/ parse' = [parse EXCEPT ![w].pc = "return"]
           \/ parse' = [parse EXCEPT ![w].pc = "throw"]
    BY <1>7 DEF Catalog!FailForGood, Catalog!P!FailForGood, Catalog!Over,
       Catalog!FailForNow, Catalog!P!FailForNow, Catalog!FailUnrecorded, Catalog!P!FailUnrecorded
  <2>2. row' \in CatalogHeader /\ (row'.status = "done" => row.status = "done")
    BY <1>1, <2>1, HeaderFields
  <2>3. Comes(w, "return") \/ Comes(w, "throw")
    BY <1>1, <2>1, PcMoves
  <2> QED BY <1>1, <2>1, <2>2, <2>3, EndSafe
<1>8. CASE Catalog!Return(w) \/ Catalog!Throw(w)
  <2>1. /\ parse[w].pc \in {"return", "throw"} /\ row' = row /\ sweep' = sweep
        /\ write' = write /\ copies' = copies /\ overlapped' = overlapped
        /\ parse' = [parse EXCEPT ![w] = Catalog!P!IdleParse]
    BY <1>8 DEF Catalog!Return, Catalog!P!Return, Catalog!Throw, Catalog!P!Throw, Catalog!itemVars
  <2>2. queue' \subseteq CatalogJob
    BY <1>1, <1>8, JobsKept, Zenon DEF Catalog!Return, Catalog!P!Return, Catalog!Throw, Catalog!P!Throw
  <2>3. Comes(w, "idle")
    BY <1>1, <2>1, GoesIdle
  <2> QED BY <1>1, <2>1, <2>2, <2>3, EndSafe
<1>9. CASE Catalog!Die(w)
  <2>1. /\ parse[w].pc # "idle" /\ row' = row /\ sweep' = sweep
        /\ write' = [write EXCEPT ![w] = "none"] /\ copies' = copies /\ overlapped' = overlapped
        /\ parse' = [parse EXCEPT ![w] = Catalog!P!IdleParse]
    BY <1>9, Zenon DEF Catalog!Die, Catalog!P!Die, Catalog!Over
  <2>2. queue' \subseteq CatalogJob
    BY <1>1, <1>9, JobsKept, Zenon DEF Catalog!Die, Catalog!P!Die
  <2>3. Comes(w, "idle")
    BY <1>1, <2>1, GoesIdle
  <2> QED BY <1>1, <2>1, <2>2, <2>3, EndSafe
<1>10. CASE Catalog!TimeOut(w)
  <2>1. /\ row' = row /\ sweep' = sweep /\ write' = write /\ copies' = copies
        /\ overlapped' = overlapped
        /\ parse' = [parse EXCEPT ![w].owns = FALSE, ![w].attempt = @ + 1]
    BY <1>10, Zenon DEF Catalog!TimeOut, Catalog!P!TimeOut, Catalog!itemVars
  <2>2. queue' \subseteq CatalogJob
    BY <1>1, <1>10, JobsKept, Zenon DEF Catalog!TimeOut, Catalog!P!TimeOut
  <2> DEFINE a == [parse[w] EXCEPT !.owns = FALSE, !.attempt = parse[w].attempt + 1]
  <2>3. a \in CatalogAttempt /\ a.pc = parse[w].pc
    <3>1. parse[w].attempt + 1 \in Nat
      BY <1>1 DEF CatalogAttempt
    <3> QED BY <1>1, <3>1 DEF CatalogAttempt
  <2>4. parse' = [parse EXCEPT ![w] = a]
    BY <1>1, <2>1
  <2> HIDE DEF a
  <2>5. Comes(w, a.pc)
    BY <1>1, <2>3, <2>4, OneAttempt, Zenon
  <2>6. Shaped' /\ \A v \in Workers : parse'[v].pc = parse[v].pc
    BY <1>1, <2>1, <2>2, <2>3, <2>5 DEF Shaped, Comes
  <2>7. Single => Single'
    BY <2>1, <2>6 DEF Single
  <2> QED BY <2>1, <2>6, <2>7 DEF CatalogInv
<1> QED BY <1>2, <1>3, <1>4, <1>5, <1>6, <1>7, <1>8, <1>9, <1>10, Zenon DEF Catalog!WorkerStep

LEMMA CatalogStep == CatalogInv /\ Catalog!Next => CatalogInv'
  BY CatalogQueueSteps, CatalogWorkerSteps, Zenon DEF Catalog!Next

\* Through deaths, failures, redeliveries and re-queues a catalogue that is done holds its
\* items, once, unless an attempt began while another was in progress (replaceItems).
THEOREM ItemsOnce == JobsSpec => []DoneHoldsItemsOnce
<1> DEFINE Inv == kind = "catalog" => CatalogInv
<1>1. JobsInit => Inv
  BY CatalogInit DEF JobsInit
<1>2. Inv /\ [JobsNext]_jobsVars => Inv'
  <2> SUFFICES ASSUME Inv, [JobsNext]_jobsVars, kind' = "catalog" PROVE CatalogInv'
    OBVIOUS
  <2>1. CASE JobsNext
    <3>1. kind = "catalog" /\ Catalog!Next
      BY <2>1 DEF JobsNext, Either
    <3> QED BY <3>1, CatalogStep
  <2>2. CASE UNCHANGED jobsVars
    <3>1. /\ row' = row /\ queue' = queue /\ parse' = parse /\ sweep' = sweep /\ kind' = kind
          /\ write' = write /\ copies' = copies /\ overlapped' = overlapped
      BY <2>2, Zenon DEF jobsVars, vars, itemVars
    <3> QED BY <3>1 DEF CatalogInv, Shaped, Single
  <2> QED BY <2>1, <2>2
<1>3. Inv => DoneHoldsItemsOnce
  BY DEF DoneHoldsItemsOnce, Catalog!DoneHoldsItemsOnce, CatalogInv, Single
<1> QED BY <1>1, <1>2, <1>3, PTL DEF JobsSpec

-----------------------------------------------------------------------------
(* One crawl *)

CrawlEntry == [url : Pages, depth : Nat]
Running == {"start", "resolve", "fetch", "announce"}
Late == {"fetch", "announce", "null", "page"}
CrawlPc == Running \cup {"pending", "null", "page"}

CrawlTyped ==
  /\ frontier \in Seq(CrawlEntry) /\ batch \in Seq(CrawlEntry)
  /\ queued \subseteq Pages /\ visited \subseteq queued
  /\ results \in Seq(Pages) /\ base \in Nat
  /\ pc \in [1..Len(batch) -> CrawlPc] /\ pending \in Seq(Nat)
  /\ links \in [Pages -> SUBSET Pages] /\ fetches \in [Pages -> Nat]
  /\ dropped \in BOOLEAN /\ mixed \in BOOLEAN

\* No page is waiting or being crawled twice, and each was queued.
Apart ==
  /\ \A i, j \in 1..Len(frontier) : frontier[i].url = frontier[j].url => i = j
  /\ \A i, j \in 1..Len(batch) : batch[i].url = batch[j].url => i = j
  /\ \A i \in 1..Len(frontier), j \in 1..Len(batch) : frontier[i].url # batch[j].url
  /\ \A i \in 1..Len(frontier) : frontier[i].url \in queued
  /\ \A j \in 1..Len(batch) : batch[j].url \in queued

\* A page that was requested is not waiting, and if it is in the batch its request is over or
\* under way.
Requested ==
  \A u \in Pages :
    /\ fetches[u] <= 1
    /\ fetches[u] # 0 =>
         /\ u \in queued
         /\ \A i \in 1..Len(frontier) : frontier[i].url # u
         /\ \A i \in 1..Len(batch) : batch[i].url = u => pc[i] \in Late

\* What was announced is among the results or found in the batch; the batch fits.
Returned ==
  /\ announced = {results[k] : k \in 1..Len(results)}
                   \cup {batch[i].url : i \in {i \in 1..Len(batch) : pc[i] = "page"}}
  /\ \A k, l \in 1..Len(results) : results[k] = results[l] => k = l
  /\ \A k \in 1..Len(results) :
       /\ results[k] \in queued
       /\ \A i \in 1..Len(frontier) : frontier[i].url # results[k]
       /\ \A i \in 1..Len(batch) : batch[i].url # results[k]
  /\ Len(results) + Len(batch) <= MaxPages

Active == {i \in 1..Len(batch) : pc[i] \in Running}

\* Pages wait for the limiter once each, and only when all of its slots are taken.
Slots ==
  /\ \A k, l \in 1..Len(pending) : pending[k] = pending[l] => k = l
  /\ \A k \in 1..Len(pending) : pending[k] \in 1..Len(batch) /\ pc[pending[k]] = "pending"
  /\ \A i \in 1..Len(batch) : pc[i] = "pending" => \E k \in 1..Len(pending) : pending[k] = i
  /\ pending # <<>> => Cardinality(Active) = Concurrency

CrawlInv == CrawlTyped /\ Apart /\ Requested /\ Returned /\ Slots

-----------------------------------------------------------------------------
(* Helpers *)

LEMMA LesserOf ==
  ASSUME NEW a \in Int, NEW b \in Int
  PROVE  Site!Min({a, b}) = IF a <= b THEN a ELSE b
  BY DEF Site!Min

LEMMA GreaterOf ==
  ASSUME NEW a \in Int, NEW b \in Int
  PROVE  Site!Max({a, b}) = IF a <= b THEN b ELSE a
  BY DEF Site!Max

LEMMA SiteCardinality == \A S : Site!Cardinality(S) = Cardinality(S)
  BY DEF Site!Cardinality, Cardinality

LEMMA CrawlConstants ==
  /\ MaxDepth \in Nat /\ MaxPages \in Nat \ {0} /\ Concurrency \in Nat \ {0}
  /\ IsFiniteSet(Pages) /\ Seed \in Pages /\ Foreign \subseteq Pages /\ Barred \subseteq Pages
  BY SourcingConstants DEF Site!ConstantsTyped, Site!IsFiniteSet, IsFiniteSet

LEMMA CrawlShape ==
  ASSUME CrawlTyped
  PROVE  /\ Len(batch) \in Nat /\ Len(frontier) \in Nat /\ Len(results) \in Nat /\ Len(pending) \in Nat
         /\ DOMAIN batch = 1..Len(batch) /\ DOMAIN pc = 1..Len(batch)
         /\ \A i \in 1..Len(batch) : batch[i] \in CrawlEntry /\ batch[i].url \in Pages /\ batch[i].depth \in Nat
         /\ \A i \in 1..Len(frontier) :
              frontier[i] \in CrawlEntry /\ frontier[i].url \in Pages /\ frontier[i].depth \in Nat
         /\ \A k \in 1..Len(results) : results[k] \in Pages
         /\ batch = <<>> <=> Len(batch) = 0
         /\ pending = <<>> <=> Len(pending) = 0
<1>1. \A e \in CrawlEntry : e.url \in Pages /\ e.depth \in Nat
  BY DEF CrawlEntry
<1>2. \A i \in 1..Len(batch) : batch[i] \in CrawlEntry
  BY ElementOfSeq DEF CrawlTyped
<1>3. \A i \in 1..Len(frontier) : frontier[i] \in CrawlEntry
  BY ElementOfSeq DEF CrawlTyped
<1> QED BY <1>1, <1>2, <1>3 DEF CrawlTyped

\* The crawl of entry i goes to a step; at most it wakes others that waited.
Goes(i, step) ==
  /\ pc' \in [1..Len(batch) -> CrawlPc]
  /\ pc'[i] = step
  /\ \A j \in 1..Len(batch) : j # i => pc'[j] = pc[j] \/ (pc[j] = "pending" /\ pc'[j] = "start")

LEMMA WithinSlot ==
  ASSUME CrawlTyped, Slots, NEW i \in 1..Len(batch), pc[i] \in Running, NEW step \in Running,
         Site!Goto(i, step), batch' = batch
  PROVE  Goes(i, step) /\ Slots' /\ pending' \in Seq(Nat)
<1>1. pc' = [pc EXCEPT ![i] = step] /\ pending' = pending
  BY DEF Site!Goto
<1>2. Goes(i, step)
  BY <1>1 DEF Goes, CrawlTyped, CrawlPc
<1>3. \A j \in 1..Len(batch) : pc'[j] = "pending" <=> pc[j] = "pending"
  BY <1>1 DEF CrawlTyped, Running
<1>4. Active' = Active
  BY <1>1 DEF Active, CrawlTyped
<1> QED BY <1>1, <1>2, <1>3, <1>4 DEF Slots, CrawlTyped

LEMMA SlotGoesOn ==
  ASSUME CrawlTyped, Slots, NEW i \in 1..Len(batch), pc[i] \in Running,
         NEW outcome \in {"null", "page"}, Site!Release(i, outcome), batch' = batch
  PROVE  Goes(i, outcome) /\ Slots' /\ pending' \in Seq(Nat)
<1>0. Len(pending) \in Nat /\ pc \in [1..Len(batch) -> CrawlPc] /\ outcome \in CrawlPc
      /\ outcome \notin Running /\ pending \in Seq(Nat) /\ Len(batch) \in Nat
  BY DEF CrawlTyped, CrawlPc, Running
<1>1. CASE pending = <<>>
  <2>1. pc' = [pc EXCEPT ![i] = outcome] /\ pending' = pending
    BY <1>1 DEF Site!Release
  <2>2. Goes(i, outcome)
    BY <1>0, <2>1 DEF Goes
  <2>3. \A j \in 1..Len(batch) : pc'[j] # "pending"
    BY <1>0, <1>1, <2>1 DEF Slots
  <2> QED BY <1>0, <1>1, <2>1, <2>2, <2>3 DEF Slots
<1>2. CASE pending # <<>>
  <2> DEFINE p == Head(pending)
  <2>1. pc' = [[pc EXCEPT ![i] = outcome] EXCEPT ![p] = "start"] /\ pending' = Tail(pending)
    BY <1>2 DEF Site!Release
  <2>2. /\ p = pending[1] /\ p \in Nat /\ Tail(pending) \in Seq(Nat)
        /\ Len(Tail(pending)) = Len(pending) - 1 /\ Len(pending) >= 1
        /\ \A k \in 1..Len(pending) - 1 : Tail(pending)[k] = pending[k + 1]
    BY <1>0, <1>2, HeadTailProperties
  <2>3. p \in 1..Len(batch) /\ pc[p] = "pending" /\ p # i
    BY <1>0, <2>2 DEF Slots, Running
  <2> HIDE DEF p
  <2>4. /\ pc' \in [1..Len(batch) -> CrawlPc] /\ pc'[i] = outcome /\ pc'[p] = "start"
        /\ \A j \in 1..Len(batch) : j # i /\ j # p => pc'[j] = pc[j]
    BY <1>0, <2>1, <2>3 DEF CrawlPc, Running
  <2>5. Goes(i, outcome)
    BY <2>3, <2>4 DEF Goes
  <2>6. Active' = (Active \ {i}) \cup {p} /\ i \in Active /\ p \notin Active
    <3>1. "start" \in Running /\ "pending" \notin Running
      BY DEF Running
    <3> QED BY <1>0, <2>3, <2>4, <3>1 DEF Active
  <2>7. Cardinality(Active') = Cardinality(Active)
    <3>1. IsFiniteSet(Active)
      <4>1. IsFiniteSet(1..Len(batch))
        BY <1>0, FS_Interval
      <4> QED BY <4>1, FS_Subset DEF Active
    <3>2. Cardinality(Active) \in Nat
      BY <3>1, FS_CardinalityType
    <3>3. IsFiniteSet(Active \ {i}) /\ Cardinality(Active \ {i}) = Cardinality(Active) - 1
      BY <2>6, <3>1, FS_RemoveElement
    <3>4. p \notin Active \ {i}
      BY <2>6
    <3>5. Cardinality((Active \ {i}) \cup {p}) = Cardinality(Active \ {i}) + 1
      BY <3>3, <3>4, FS_AddElement
    <3> QED BY <2>6, <3>2, <3>3, <3>5
  <2>8. /\ Len(pending') = Len(pending) - 1
        /\ \A k \in 1..Len(pending') : pending'[k] = pending[k + 1] /\ k + 1 \in 1..Len(pending) /\ k \in Nat
    BY <1>0, <2>1, <2>2
  <2>9. \A k, l \in 1..Len(pending') : pending'[k] = pending'[l] => k = l
    <3> SUFFICES ASSUME NEW k \in 1..Len(pending'), NEW l \in 1..Len(pending'), pending'[k] = pending'[l]
                 PROVE  k = l
      OBVIOUS
    <3> DEFINE a == k + 1
               b == l + 1
    <3>1. a \in 1..Len(pending) /\ b \in 1..Len(pending) /\ pending[a] = pending[b]
      BY <2>8
    <3>2. a = b => k = l
      BY <2>8
    <3> HIDE DEF a, b
    <3> QED BY <3>1, <3>2 DEF Slots
  <2>10. \A k \in 1..Len(pending') : pending'[k] \in 1..Len(batch) /\ pc'[pending'[k]] = "pending"
    <3> SUFFICES ASSUME NEW k \in 1..Len(pending')
                 PROVE  pending'[k] \in 1..Len(batch) /\ pc'[pending'[k]] = "pending"
      OBVIOUS
    <3>1. pending[k + 1] \in 1..Len(batch) /\ pc[pending[k + 1]] = "pending"
      BY <2>8 DEF Slots
    <3>2. pending[k + 1] # p
      <4>1. k + 1 # 1 /\ 1 \in 1..Len(pending)
        BY <1>0, <2>2, <2>8
      <4> QED BY <2>2, <2>8, <4>1 DEF Slots
    <3>3. pending[k + 1] # i
      BY <3>1 DEF Running
    <3> QED BY <2>4, <2>8, <3>1, <3>2, <3>3
  <2>11. ASSUME NEW j \in 1..Len(batch), pc'[j] = "pending"
         PROVE  \E k \in 1..Len(pending') : pending'[k] = j
    <3>1. j # i /\ j # p /\ pc[j] = "pending"
      BY <2>4, <2>11
    <3>2. PICK k \in 1..Len(pending) : pending[k] = j
      BY <3>1 DEF Slots
    <3>3. k # 1
      BY <2>2, <3>1, <3>2
    <3>4. k - 1 \in 1..Len(pending') /\ (k - 1) + 1 = k
      BY <1>0, <2>8, <3>3
    <3> QED BY <2>8, <3>2, <3>4
  <2>12. Cardinality(Active') = Concurrency
    BY <1>2, <2>7 DEF Slots
  <2> QED BY <2>1, <2>2, <2>5, <2>9, <2>10, <2>11, <2>12 DEF Slots
<1> QED BY <1>1, <1>2

-----------------------------------------------------------------------------
(* The parts of the invariant under the steps of one entry *)

LEMMA ApartKept ==
  ASSUME Apart, frontier' = frontier, batch' = batch, queued' = queued
  PROVE  Apart'
  BY DEF Apart

\* A step that requests nothing.
LEMMA RequestedKept ==
  ASSUME CrawlTyped, Requested, NEW i \in 1..Len(batch), NEW step, Goes(i, step),
         pc[i] \in Late => step \in Late, frontier' = frontier, batch' = batch, queued' = queued,
         fetches' = fetches
  PROVE  Requested'
<1>1. \A j \in 1..Len(batch) : pc[j] \in Late => pc'[j] \in Late
  BY DEF Goes, Late
<1> QED BY <1>1 DEF Requested

\* A step that finds no page.
LEMMA ReturnedKept ==
  ASSUME CrawlTyped, Returned, NEW i \in 1..Len(batch), NEW step, Goes(i, step),
         pc[i] # "page", step # "page", frontier' = frontier, batch' = batch, queued' = queued,
         results' = results, announced' = announced
  PROVE  Returned'
<1>1. \A j \in 1..Len(batch) : pc'[j] = "page" <=> pc[j] = "page"
  BY DEF Goes
<1> QED BY <1>1 DEF Returned

LEMMA EntrySteps ==
  ASSUME CrawlInv, NEW i \in 1..Len(batch), Site!Crawl(i), ~Site!Page(i)
  PROVE  CrawlInv'
<1>0. CrawlTyped /\ Apart /\ Requested /\ Returned /\ Slots
  BY DEF CrawlInv
<1>1. /\ batch[i].url \in Pages /\ batch[i].url \in queued
  BY <1>0, CrawlShape DEF Apart
<1>2. frontier' = frontier /\ batch' = batch /\ queued' = queued /\ results' = results /\ base' = base
      /\ links' = links /\ dropped' = dropped /\ mixed' = mixed
  BY Zenon DEF Site!Crawl, Site!Skip, Site!Resolve, Site!NotPublic, Site!Request, Site!NoPage, Site!Announce,
     Site!Refused, Site!overlooked
<1>3. pc[i] \in Running
  BY DEF Site!Crawl, Site!Skip, Site!Resolve, Site!NotPublic, Site!Request, Site!NoPage, Site!Announce,
     Site!Refused, Running
<1>4. visited' = visited \/ visited' = visited \cup {batch[i].url}
  BY DEF Site!Crawl, Site!Skip, Site!Resolve, Site!NotPublic, Site!Request, Site!NoPage, Site!Announce,
     Site!Refused
<1>5. ASSUME NEW step \in CrawlPc, Goes(i, step), fetches' \in [Pages -> Nat], pending' \in Seq(Nat)
      PROVE  CrawlTyped'
  BY <1>0, <1>1, <1>2, <1>4, <1>5 DEF CrawlTyped, Goes
<1>6. Apart'
  BY <1>0, <1>2, ApartKept
<1>7. CASE Site!Skip(i) \/ Site!NotPublic(i) \/ Site!NoPage(i) \/ Site!Refused(i)
  <2>1. Site!Release(i, "null") /\ fetches' = fetches /\ announced' = announced
    BY <1>7, Zenon DEF Site!Skip, Site!NotPublic, Site!NoPage, Site!Refused
  <2>2. Goes(i, "null") /\ Slots' /\ pending' \in Seq(Nat)
    BY <1>0, <1>2, <1>3, <2>1, SlotGoesOn
  <2>3. CrawlTyped'
    BY <1>0, <1>5, <2>1, <2>2 DEF CrawlPc, CrawlTyped
  <2>4. Requested'
    BY <1>0, <1>2, <2>1, <2>2, RequestedKept DEF Late
  <2>5. pc[i] # "page"
    BY <1>3 DEF Running
  <2>6. Returned'
    BY <1>0, <1>2, <2>1, <2>2, <2>5, ReturnedKept
  <2> QED BY <1>6, <2>2, <2>3, <2>4, <2>6 DEF CrawlInv
<1>8. CASE Site!Resolve(i)
  <2>1. Site!Goto(i, "resolve") /\ fetches' = fetches /\ announced' = announced /\ pc[i] = "start"
    BY <1>8, Zenon DEF Site!Resolve
  <2>2. Goes(i, "resolve") /\ Slots' /\ pending' \in Seq(Nat)
    BY <1>0, <1>2, <1>3, <2>1, WithinSlot DEF Running
  <2>3. CrawlTyped'
    BY <1>0, <1>5, <2>1, <2>2 DEF CrawlPc, Running, CrawlTyped
  <2>4. Requested'
    BY <1>0, <1>2, <2>1, <2>2, RequestedKept DEF Late
  <2>5. Returned'
    BY <1>0, <1>2, <2>1, <2>2, ReturnedKept
  <2> QED BY <1>6, <2>2, <2>3, <2>4, <2>5 DEF CrawlInv
<1>9. CASE Site!Request(i)
  <2>1. /\ Site!Goto(i, "fetch") /\ fetches' = [fetches EXCEPT ![batch[i].url] = @ + 1]
        /\ announced' = announced /\ pc[i] = "resolve"
    BY <1>9, Zenon DEF Site!Request
  <2>2. Goes(i, "fetch") /\ Slots' /\ pending' \in Seq(Nat)
    BY <1>0, <1>2, <1>3, <2>1, WithinSlot DEF Running
  <2>3. fetches' \in [Pages -> Nat]
    BY <1>0, <1>1, <2>1 DEF CrawlTyped
  <2>4. CrawlTyped'
    BY <1>5, <2>2, <2>3 DEF CrawlPc, Running
  <2>5. fetches[batch[i].url] = 0
    BY <1>0, <1>1, <2>1 DEF Requested, Late, CrawlTyped
  <2>6. /\ fetches'[batch[i].url] = 1
        /\ \A u \in Pages : u # batch[i].url => fetches'[u] = fetches[u]
    BY <1>0, <1>1, <2>1, <2>5 DEF CrawlTyped
  <2>7. pc'[i] \in Late /\ \A j \in 1..Len(batch) : pc[j] \in Late => pc'[j] \in Late
    BY <2>2 DEF Goes, Late
  <2>8. Requested'
    <3> SUFFICES ASSUME NEW u \in Pages
                 PROVE  /\ fetches'[u] <= 1
                        /\ fetches'[u] # 0 =>
                             /\ u \in queued
                             /\ \A k \in 1..Len(frontier) : frontier[k].url # u
                             /\ \A k \in 1..Len(batch) : batch[k].url = u => pc'[k] \in Late
      BY <1>2 DEF Requested
    <3>1. CASE u = batch[i].url
      BY <1>0, <1>1, <2>6, <2>7, <3>1 DEF Apart
    <3>2. CASE u # batch[i].url
      BY <1>0, <2>6, <2>7, <3>2 DEF Requested
    <3> QED BY <3>1, <3>2
  <2>9. Returned'
    BY <1>0, <1>2, <2>1, <2>2, ReturnedKept
  <2> QED BY <1>6, <2>2, <2>4, <2>8, <2>9 DEF CrawlInv
<1>10. CASE Site!Announce(i)
  <2>1. /\ Site!Release(i, "page") /\ fetches' = fetches /\ announced' = announced \cup {batch[i].url}
    BY <1>10, Zenon DEF Site!Announce
  <2>2. Goes(i, "page") /\ Slots' /\ pending' \in Seq(Nat)
    BY <1>0, <1>2, <1>3, <2>1, SlotGoesOn
  <2>3. CrawlTyped'
    BY <1>0, <1>5, <2>1, <2>2 DEF CrawlPc, CrawlTyped
  <2>4. Requested'
    BY <1>0, <1>2, <2>1, <2>2, RequestedKept DEF Late
  <2>5. \A j \in 1..Len(batch) : pc'[j] = "page" <=> pc[j] = "page" \/ j = i
    BY <2>2 DEF Goes
  <2>6. {batch[j].url : j \in {j \in 1..Len(batch) : pc'[j] = "page"}}
          = {batch[j].url : j \in {j \in 1..Len(batch) : pc[j] = "page"}} \cup {batch[i].url}
    BY <2>5
  <2>7. announced' = {results[k] : k \in 1..Len(results)}
                       \cup {batch[j].url : j \in {j \in 1..Len(batch) : pc'[j] = "page"}}
    BY <1>0, <2>1, <2>6, Zenon DEF Returned
  <2>8. Returned'
    BY <1>0, <1>2, <2>7 DEF Returned
  <2> QED BY <1>6, <2>2, <2>3, <2>4, <2>8 DEF CrawlInv
<1> QED BY <1>7, <1>8, <1>9, <1>10 DEF Site!Crawl

-----------------------------------------------------------------------------
(* A batch is taken and collected *)

LEMMA TakeShape ==
  ASSUME CrawlTyped, Site!TakeBatch
  PROVE  \E n \in 1..Len(frontier) :
           /\ Len(results) + n <= MaxPages /\ batch = <<>>
           /\ batch' \in Seq(CrawlEntry) /\ Len(batch') = n
           /\ \A i \in 1..n : batch'[i] = frontier[i]
           /\ frontier' \in Seq(CrawlEntry) /\ Len(frontier') = Len(frontier) - n
           /\ \A i \in 1..Len(frontier) - n : frontier'[i] = frontier[i + n]
           /\ pc' = [i \in 1..n |-> IF i <= Concurrency THEN "start" ELSE "pending"]
           /\ pending' = [k \in 1..(IF n <= Concurrency THEN 0 ELSE n - Concurrency) |-> k + Concurrency]
           /\ base' = Len(results)
           /\ UNCHANGED <<queued, visited, results, links, fetches, announced, dropped>>
<1> DEFINE n == Site!Room
<1>0. /\ Len(frontier) \in Nat /\ Len(results) \in Nat /\ frontier \in Seq(CrawlEntry)
      /\ MaxPages \in Nat /\ Concurrency \in Nat
  BY CrawlShape, CrawlConstants DEF CrawlTyped
<1>1. frontier # <<>> /\ Len(results) < MaxPages
  BY DEF Site!TakeBatch, Site!More
<1>2. Len(frontier) > 0
  BY <1>0, <1>1, EmptySeq
<1>3. n = IF Len(frontier) <= MaxPages - Len(results) THEN Len(frontier) ELSE MaxPages - Len(results)
  <2>1. MaxPages - Len(results) \in Int
    BY <1>0
  <2> QED BY <1>0, <2>1, LesserOf DEF Site!Room
<1>4. n \in 1..Len(frontier) /\ Len(results) + n <= MaxPages /\ n \in Nat /\ n <= Len(frontier)
  BY <1>0, <1>1, <1>2, <1>3
<1> HIDE DEF n
<1>5. /\ batch = <<>> /\ batch' = SubSeq(frontier, 1, n) /\ frontier' = SubSeq(frontier, n + 1, Len(frontier))
      /\ pc' = [i \in 1..n |-> IF i <= Concurrency THEN "start" ELSE "pending"]
      /\ pending' = [k \in 1..Site!Max({0, n - Concurrency}) |-> k + Concurrency]
      /\ base' = Len(results) /\ UNCHANGED <<queued, visited, results, links, fetches, announced, dropped>>
  BY DEF Site!TakeBatch, n
<1>6. \A i \in 1..Len(frontier) : frontier[i] \in CrawlEntry
  BY CrawlShape
<1>7. batch' \in Seq(CrawlEntry) /\ Len(batch') = n /\ \A i \in 1..n : batch'[i] = frontier[i]
  <2>1. \A i \in 1..n : frontier[i] \in CrawlEntry
    BY <1>0, <1>4, <1>6
  <2>2. /\ SubSeq(frontier, 1, n) \in Seq(CrawlEntry)
        /\ Len(SubSeq(frontier, 1, n)) = IF 1 <= n THEN n - 1 + 1 ELSE 0
        /\ \A i \in 1..n - 1 + 1 : SubSeq(frontier, 1, n)[i] = frontier[1 + i - 1]
    BY <1>4, <2>1, SubSeqProperties
  <2> QED BY <1>4, <1>5, <2>2
<1>8. /\ frontier' \in Seq(CrawlEntry) /\ Len(frontier') = Len(frontier) - n
      /\ \A i \in 1..Len(frontier) - n : frontier'[i] = frontier[i + n]
  <2>1. \A i \in n + 1..Len(frontier) : frontier[i] \in CrawlEntry
    BY <1>0, <1>4, <1>6
  <2>2. /\ SubSeq(frontier, n + 1, Len(frontier)) \in Seq(CrawlEntry)
        /\ Len(SubSeq(frontier, n + 1, Len(frontier)))
             = IF n + 1 <= Len(frontier) THEN Len(frontier) - (n + 1) + 1 ELSE 0
        /\ \A i \in 1..Len(frontier) - (n + 1) + 1 :
             SubSeq(frontier, n + 1, Len(frontier))[i] = frontier[n + 1 + i - 1]
    BY <1>0, <1>4, <2>1, SubSeqProperties
  <2>3. \A i \in 1..Len(frontier) - n : n + 1 + i - 1 = i + n /\ i \in 1..Len(frontier) - (n + 1) + 1
    BY <1>0, <1>4
  <2> QED BY <1>0, <1>4, <1>5, <2>2, <2>3
<1>9. Site!Max({0, n - Concurrency}) = IF n <= Concurrency THEN 0 ELSE n - Concurrency
  <2>1. n - Concurrency \in Int
    BY <1>0, <1>4
  <2> QED BY <1>0, <1>4, <2>1, GreaterOf
<1> QED BY <1>4, <1>5, <1>7, <1>8, <1>9

LEMMA TakeSafe ==
  ASSUME CrawlInv, Site!TakeBatch
  PROVE  CrawlInv'
<1>0. CrawlTyped /\ Apart /\ Requested /\ Returned /\ Slots /\ Concurrency \in Nat \ {0} /\ MaxPages \in Nat
  BY CrawlConstants DEF CrawlInv
<1>1. PICK n \in 1..Len(frontier) :
           /\ Len(results) + n <= MaxPages /\ batch = <<>>
           /\ batch' \in Seq(CrawlEntry) /\ Len(batch') = n
           /\ \A i \in 1..n : batch'[i] = frontier[i]
           /\ frontier' \in Seq(CrawlEntry) /\ Len(frontier') = Len(frontier) - n
           /\ \A i \in 1..Len(frontier) - n : frontier'[i] = frontier[i + n]
           /\ pc' = [i \in 1..n |-> IF i <= Concurrency THEN "start" ELSE "pending"]
           /\ pending' = [k \in 1..(IF n <= Concurrency THEN 0 ELSE n - Concurrency) |-> k + Concurrency]
           /\ base' = Len(results)
           /\ UNCHANGED <<queued, visited, results, links, fetches, announced, dropped>>
  BY <1>0, TakeShape, Zenon
<1>2. /\ Len(frontier) \in Nat /\ n \in Nat /\ n <= Len(frontier) /\ Len(batch) = 0 /\ Len(results) \in Nat
      /\ results' = results /\ queued' = queued /\ announced' = announced /\ fetches' = fetches
      /\ links' = links /\ visited' = visited /\ dropped' = dropped
  BY <1>0, <1>1, CrawlShape
<1>3. /\ \A i \in 1..n : i \in 1..Len(frontier)
      /\ \A i \in 1..Len(frontier) - n : i + n \in 1..Len(frontier) /\ i + n > n
  BY <1>2
<1>3a. \A i \in 1..Len(frontier') : \E a \in 1..Len(frontier) :
         a = i + n /\ a > n /\ frontier'[i] = frontier[a]
  <2> SUFFICES ASSUME NEW i \in 1..Len(frontier')
               PROVE  \E a \in 1..Len(frontier) : a = i + n /\ a > n /\ frontier'[i] = frontier[a]
    OBVIOUS
  <2>1. i \in 1..Len(frontier) - n
    BY <1>1
  <2> QED BY <1>1, <1>3, <2>1
<1>4. pc' \in [1..n -> CrawlPc] /\ \A i \in 1..n : pc'[i] \in {"start", "pending"}
  BY <1>1 DEF CrawlPc, Running
<1>5. pending' \in Seq(Nat) /\ Len(pending') = IF n <= Concurrency THEN 0 ELSE n - Concurrency
  <2> DEFINE size == IF n <= Concurrency THEN 0 ELSE n - Concurrency
  <2>1. size \in Nat /\ \A k \in 1..size : k + Concurrency \in Nat
    BY <1>0, <1>2
  <2>2. pending' = [k \in 1..size |-> k + Concurrency]
    BY <1>1
  <2> HIDE DEF size
  <2>3. pending' \in Seq(Nat) /\ Len(pending') = size
    BY <2>1, <2>2
  <2> QED BY <2>3 DEF size
<1>6. CrawlTyped'
  <2>1. mixed' \in BOOLEAN
    BY <1>0 DEF Site!TakeBatch, CrawlTyped
  <2> QED BY <1>0, <1>1, <1>2, <1>4, <1>5, <2>1 DEF CrawlTyped
<1>7. Apart'
  <2>1. \A i, j \in 1..Len(frontier') : frontier'[i].url = frontier'[j].url => i = j
    <3> SUFFICES ASSUME NEW i \in 1..Len(frontier'), NEW j \in 1..Len(frontier'),
                        frontier'[i].url = frontier'[j].url
                 PROVE  i = j
      OBVIOUS
    <3>1. PICK a \in 1..Len(frontier) : a = i + n /\ frontier'[i] = frontier[a]
      BY <1>3a
    <3>2. PICK b \in 1..Len(frontier) : b = j + n /\ frontier'[j] = frontier[b]
      BY <1>3a
    <3>3. a = b
      BY <1>0, <3>1, <3>2 DEF Apart
    <3> QED BY <1>1, <1>2, <3>1, <3>2, <3>3
  <2>2. \A i, j \in 1..n : batch'[i].url = batch'[j].url => i = j
    BY <1>0, <1>1, <1>3 DEF Apart
  <2>3. \A i \in 1..Len(frontier'), j \in 1..n : frontier'[i].url # batch'[j].url
    <3> SUFFICES ASSUME NEW i \in 1..Len(frontier'), NEW j \in 1..n
                 PROVE  frontier'[i].url # batch'[j].url
      OBVIOUS
    <3>1. PICK a \in 1..Len(frontier) : a > n /\ frontier'[i] = frontier[a]
      BY <1>3a
    <3>2. batch'[j] = frontier[j] /\ j \in 1..Len(frontier) /\ a # j
      BY <1>1, <1>2, <1>3, <3>1
    <3> QED BY <1>0, <3>1, <3>2 DEF Apart
  <2>4. \A i \in 1..Len(frontier') : frontier'[i].url \in queued
    BY <1>0, <1>3a DEF Apart
  <2>5. \A i \in 1..n : batch'[i].url \in queued
    BY <1>0, <1>1, <1>3 DEF Apart
  <2> QED BY <1>1, <1>2, <2>1, <2>2, <2>3, <2>4, <2>5 DEF Apart
<1>8. ASSUME NEW u, \A i \in 1..Len(frontier) : frontier[i].url # u
      PROVE  /\ \A i \in 1..Len(frontier') : frontier'[i].url # u
             /\ \A i \in 1..Len(batch') : batch'[i].url # u
  BY <1>1, <1>3, <1>8
<1>9. Requested'
  <2> SUFFICES ASSUME NEW u \in Pages, fetches[u] # 0
               PROVE  /\ \A i \in 1..Len(frontier') : frontier'[i].url # u
                      /\ \A i \in 1..Len(batch') : batch'[i].url # u
    BY <1>0, <1>2 DEF Requested
  <2> QED BY <1>0, <1>8 DEF Requested
<1>10. Returned'
  <2>1. {batch'[i].url : i \in {i \in 1..Len(batch') : pc'[i] = "page"}} = {}
    BY <1>1, <1>4
  <2>2. {batch[i].url : i \in {i \in 1..Len(batch) : pc[i] = "page"}} = {}
    BY <1>2
  <2>3. announced' = {results'[k] : k \in 1..Len(results')}
                       \cup {batch'[i].url : i \in {i \in 1..Len(batch') : pc'[i] = "page"}}
    <3>1. announced = {results[k] : k \in 1..Len(results)}
      BY <1>0, <2>2 DEF Returned
    <3>2. {results'[k] : k \in 1..Len(results')} = {results[k] : k \in 1..Len(results)}
      BY <1>2
    <3> QED BY <1>2, <2>1, <3>1, <3>2, Zenon
  <2>4. \A k \in 1..Len(results) : /\ \A i \in 1..Len(frontier') : frontier'[i].url # results[k]
                                   /\ \A i \in 1..Len(batch') : batch'[i].url # results[k]
    BY <1>0, <1>8 DEF Returned
  <2>5. \A k, l \in 1..Len(results') : results'[k] = results'[l] => k = l
    BY <1>0, <1>2 DEF Returned
  <2>6. \A k \in 1..Len(results') : results'[k] \in queued'
    BY <1>0, <1>2 DEF Returned
  <2>7. Len(results') + Len(batch') <= MaxPages
    BY <1>1, <1>2
  <2> QED BY <1>2, <2>3, <2>4, <2>5, <2>6, <2>7 DEF Returned
<1>11. Slots'
  <2>1. CASE n <= Concurrency
    <3>1. pending' = <<>> /\ Len(pending') = 0 /\ \A i \in 1..n : pc'[i] # "pending"
      BY <1>0, <1>1, <1>2, <1>5, <2>1
    <3> QED BY <1>1, <3>1 DEF Slots
  <2>2. CASE n > Concurrency
    <3>1. /\ Len(pending') = n - Concurrency
          /\ \A k \in 1..n - Concurrency : pending'[k] = k + Concurrency
      BY <1>0, <1>1, <1>2, <1>5, <2>2
    <3>2. \A k, l \in 1..Len(pending') : pending'[k] = pending'[l] => k = l
      BY <1>0, <3>1
    <3>3. \A k \in 1..Len(pending') : pending'[k] \in 1..n /\ pc'[pending'[k]] = "pending"
      BY <1>0, <1>1, <1>2, <3>1
    <3>4. ASSUME NEW i \in 1..n, pc'[i] = "pending" PROVE \E k \in 1..Len(pending') : pending'[k] = i
      <4>1. i > Concurrency
        BY <1>0, <1>1, <3>4
      <4>2. i - Concurrency \in 1..n - Concurrency /\ (i - Concurrency) + Concurrency = i
        BY <1>0, <1>2, <4>1
      <4> QED BY <3>1, <4>2
    <3>5. Active' = 1..Concurrency
      <4>1. \A i \in 1..n : pc'[i] \in Running <=> i <= Concurrency
        BY <1>0, <1>1 DEF Running
      <4>2. Active' = {i \in 1..n : pc'[i] \in Running}
        BY <1>1 DEF Active
      <4> QED BY <1>0, <1>2, <2>2, <4>1, <4>2
    <3>6. Cardinality(1..Concurrency) = Concurrency
      BY <1>0, FS_Interval
    <3> QED BY <1>1, <3>2, <3>3, <3>4, <3>5, <3>6 DEF Slots
  <2> QED BY <1>0, <1>2, <2>1, <2>2
<1> QED BY <1>6, <1>7, <1>9, <1>10, <1>11 DEF CrawlInv

Good == {i \in 1..Len(batch) : pc[i] = "page"}

\* The pages found fit the limit, and their order takes each of them once.
LEMMA CollectShape ==
  ASSUME CrawlTyped, Apart, Returned, Site!Collect
  PROVE  \E kept \in [1..Cardinality(Good) -> Good] :
           /\ Cardinality(Good) \in Nat /\ Cardinality(Good) <= Len(batch)
           /\ \A k, l \in 1..Cardinality(Good) : kept[k] = kept[l] => k = l
           /\ \A i \in Good : \E k \in 1..Cardinality(Good) : kept[k] = i
           /\ results' \in Seq(Pages) /\ Len(results') = Len(results) + Cardinality(Good)
           /\ \A k \in 1..Len(results) : results'[k] = results[k]
           /\ \A k \in 1..Cardinality(Good) : results'[Len(results) + k] = batch[kept[k]].url
<1>0. /\ Len(batch) \in Nat /\ Len(results) \in Nat /\ DOMAIN batch = 1..Len(batch)
      /\ \A i \in 1..Len(batch) : batch[i].url \in Pages
      /\ results \in Seq(Pages) /\ MaxPages \in Nat
  BY CrawlShape, CrawlConstants DEF CrawlTyped
<1> DEFINE n == Cardinality(Good)
<1>1. PICK kept \in Site!InOrder({i \in DOMAIN batch : pc[i] = "page"}) :
         LET all == results \o [k \in DOMAIN kept |-> batch[kept[k]].url] IN
         results' = SubSeq(all, 1, Site!Min({Len(all), MaxPages}))
  BY Zenon DEF Site!Collect
<1>2. {i \in DOMAIN batch : pc[i] = "page"} = Good
  BY <1>0 DEF Good
<1>3. kept \in [1..n -> Good] /\ \A k, l \in DOMAIN kept : k < l => kept[k] < kept[l]
  BY <1>1, <1>2, SiteCardinality DEF Site!InOrder
<1>4. IsFiniteSet(Good) /\ n \in Nat /\ n <= Len(batch)
  <2>0. /\ IsFiniteSet(1..Len(batch))
        /\ Cardinality(1..Len(batch)) = IF 1 > Len(batch) THEN 0 ELSE Len(batch) - 1 + 1
    <3>1. 1 \in Int /\ Len(batch) \in Int
      BY <1>0
    <3> QED BY <3>1, FS_Interval
  <2>1. IsFiniteSet(1..Len(batch)) /\ Cardinality(1..Len(batch)) = Len(batch)
    BY <1>0, <2>0
  <2>2. Good \in SUBSET (1..Len(batch))
    BY DEF Good
  <2>3. IsFiniteSet(Good) /\ Cardinality(Good) <= Cardinality(1..Len(batch))
    BY <2>1, <2>2, FS_Subset
  <2>4. Cardinality(Good) \in Nat
    BY <2>3, FS_CardinalityType
  <2> QED BY <2>1, <2>3, <2>4
<1> HIDE DEF n
<1>5. \A k, l \in 1..n : kept[k] = kept[l] => k = l
  <2> SUFFICES ASSUME NEW k \in 1..n, NEW l \in 1..n, kept[k] = kept[l], k # l PROVE FALSE
    OBVIOUS
  <2>1. kept[k] \in Int /\ kept[l] \in Int
    BY <1>3 DEF Good
  <2>2. k < l \/ l < k
    BY <1>4
  <2> QED BY <1>3, <2>1, <2>2
<1>6. \A i \in Good : \E k \in 1..n : kept[k] = i
  <2>1. IsFiniteSet(1..n) /\ Cardinality(1..n) = n
    <3>1. 1 \in Int /\ n \in Int
      BY <1>4
    <3>2. IsFiniteSet(1..n) /\ Cardinality(1..n) = IF 1 > n THEN 0 ELSE n - 1 + 1
      BY <3>1, FS_Interval
    <3> QED BY <1>4, <3>2
  <2>2. kept \in Injection(1..n, Good)
    BY <1>3, <1>5, Zenon DEF Injection, IsInjective
  <2>3. kept \in Surjection(1..n, Good)
    BY <1>4, <2>1, <2>2, FS_Injection DEF n
  <2> QED BY <2>3, Zenon DEF Surjection
<1> DEFINE found == [k \in 1..n |-> batch[kept[k]].url]
           all == results \o found
<1>7. found \in Seq(Pages) /\ Len(found) = n
  BY <1>0, <1>3, <1>4 DEF Good
<1>8. \A k \in 1..n : found[k] = batch[kept[k]].url
  OBVIOUS
<1>9. [k \in DOMAIN kept |-> batch[kept[k]].url] = found
  BY <1>3
<1> HIDE DEF found
<1>10. /\ all \in Seq(Pages) /\ Len(all) = Len(results) + n
       /\ \A i \in 1..Len(results) + n : all[i] = IF i <= Len(results) THEN results[i] ELSE found[i - Len(results)]
  BY <1>0, <1>7, ConcatProperties
<1>11. results' = SubSeq(all, 1, Site!Min({Len(all), MaxPages}))
  BY <1>1, <1>9
<1> HIDE DEF all
<1>12. Site!Min({Len(all), MaxPages}) = Len(all)
  <2>1. Len(results) + n <= MaxPages
    BY <1>0, <1>4 DEF Returned
  <2> QED BY <1>0, <1>4, <1>10, <2>1, LesserOf
<1>13. results' = all
  BY <1>10, <1>11, <1>12, SubSeqFull
<1>14. /\ \A k \in 1..Len(results) : all[k] = results[k]
       /\ \A k \in 1..n : all[Len(results) + k] = found[k]
  <2>1. ASSUME NEW k \in 1..Len(results) PROVE all[k] = results[k]
    <3>1. k \in 1..Len(results) + n /\ k <= Len(results)
      BY <1>0, <1>4
    <3> QED BY <1>10, <3>1
  <2>2. ASSUME NEW k \in 1..n PROVE all[Len(results) + k] = found[k]
    <3>1. /\ Len(results) + k \in 1..Len(results) + n /\ ~(Len(results) + k <= Len(results))
          /\ Len(results) + k - Len(results) = k
      BY <1>0, <1>4
    <3> QED BY <1>10, <3>1
  <2> QED BY <2>1, <2>2
<1> QED BY <1>3, <1>4, <1>5, <1>6, <1>8, <1>10, <1>13, <1>14 DEF n

LEMMA CollectSafe ==
  ASSUME CrawlInv, Site!Collect
  PROVE  CrawlInv'
<1>0. CrawlTyped /\ Apart /\ Requested /\ Returned /\ Slots
  BY DEF CrawlInv
<1> DEFINE n == Cardinality(Good)
<1>1. PICK kept \in [1..n -> Good] :
           /\ n \in Nat /\ n <= Len(batch)
           /\ \A k, l \in 1..n : kept[k] = kept[l] => k = l
           /\ \A i \in Good : \E k \in 1..n : kept[k] = i
           /\ results' \in Seq(Pages) /\ Len(results') = Len(results) + n
           /\ \A k \in 1..Len(results) : results'[k] = results[k]
           /\ \A k \in 1..n : results'[Len(results) + k] = batch[kept[k]].url
  BY <1>0, CollectShape, Zenon
<1> HIDE DEF n
<1>2. /\ batch' = <<>> /\ pc' = <<>> /\ pending' = <<>> /\ base' = 0
      /\ frontier' = frontier /\ queued' = queued /\ visited' = visited /\ links' = links
      /\ fetches' = fetches /\ announced' = announced /\ dropped' = dropped /\ mixed' = mixed
  BY Zenon DEF Site!Collect, Site!overlooked
<1>3. /\ Len(batch') = 0 /\ batch' \in Seq(CrawlEntry) /\ Len(pending') = 0 /\ pending' \in Seq(Nat)
      /\ pc' \in [1..Len(batch') -> CrawlPc] /\ Len(batch) \in Nat /\ Len(results) \in Nat
  BY <1>0, <1>2, CrawlShape
<1>4. CrawlTyped'
  BY <1>0, <1>1, <1>2, <1>3 DEF CrawlTyped
<1>5. Apart'
  BY <1>0, <1>2, <1>3 DEF Apart
<1>6. Requested'
  BY <1>0, <1>2, <1>3 DEF Requested
<1>7. Slots'
  BY <1>2, <1>3 DEF Slots
<1>8. \A k \in 1..n : kept[k] \in 1..Len(batch) /\ kept[k] \in Good
  BY DEF Good
<1>9. \A m \in 1..Len(results') : \/ m \in 1..Len(results) /\ results'[m] = results[m]
                                  \/ \E k \in 1..n : m = Len(results) + k /\ results'[m] = batch[kept[k]].url
  <2> SUFFICES ASSUME NEW m \in 1..Len(results'), m \notin 1..Len(results)
               PROVE  \E k \in 1..n : m = Len(results) + k /\ results'[m] = batch[kept[k]].url
    BY <1>1
  <2>1. m - Len(results) \in 1..n /\ m = Len(results) + (m - Len(results))
    BY <1>1, <1>3
  <2>2. PICK k \in 1..n : k = m - Len(results)
    BY <2>1
  <2>3. m = Len(results) + k
    BY <2>1, <2>2
  <2>4. results'[m] = batch[kept[k]].url
    BY <1>1, <2>3, Zenon
  <2> QED BY <2>3, <2>4, Zenon
<1>10. \A k, l \in 1..Len(results') : results'[k] = results'[l] => k = l
  <2> SUFFICES ASSUME NEW a \in 1..Len(results'), NEW b \in 1..Len(results'), results'[a] = results'[b]
               PROVE  a = b
    OBVIOUS
  <2>1. CASE a \in 1..Len(results) /\ b \in 1..Len(results)
    BY <1>0, <1>1, <2>1 DEF Returned
  <2>0. ASSUME NEW c \in 1..Len(results), NEW d \in 1..Len(results'), d \notin 1..Len(results)
        PROVE  results'[c] # results'[d]
    <3>1. PICK k \in 1..n : results'[d] = batch[kept[k]].url
      BY <1>9, <2>0
    <3>2. batch[kept[k]].url # results[c]
      BY <1>0, <1>8 DEF Returned
    <3> QED BY <1>1, <3>1, <3>2
  <2>2. CASE a \in 1..Len(results) /\ b \notin 1..Len(results)
    BY <2>0, <2>2
  <2>3. CASE a \notin 1..Len(results) /\ b \in 1..Len(results)
    BY <2>0, <2>3
  <2>4. CASE a \notin 1..Len(results) /\ b \notin 1..Len(results)
    <3>1. PICK k \in 1..n : a = Len(results) + k /\ results'[a] = batch[kept[k]].url
      BY <1>9, <2>4
    <3>2. PICK l \in 1..n : b = Len(results) + l /\ results'[b] = batch[kept[l]].url
      BY <1>9, <2>4
    <3>3. kept[k] = kept[l]
      BY <1>0, <1>8, <3>1, <3>2 DEF Apart
    <3> QED BY <1>1, <3>1, <3>2, <3>3
  <2> QED BY <2>1, <2>2, <2>3, <2>4
<1>11. ASSUME NEW m \in 1..Len(results')
       PROVE  results'[m] \in queued /\ \A i \in 1..Len(frontier) : frontier[i].url # results'[m]
  <2>1. CASE m \in 1..Len(results)
    BY <1>0, <1>1, <2>1 DEF Returned
  <2>2. CASE m \notin 1..Len(results)
    <3>1. PICK k \in 1..n : results'[m] = batch[kept[k]].url
      BY <1>9, <2>2
    <3> QED BY <1>0, <1>8, <3>1 DEF Apart
  <2> QED BY <2>1, <2>2
<1>12. announced = {results'[m] : m \in 1..Len(results')}
  <2> DEFINE R == {results'[m] : m \in 1..Len(results')}
             A == {results[k] : k \in 1..Len(results)}
             B == {batch[i].url : i \in {i \in 1..Len(batch) : pc[i] = "page"}}
  <2>1. announced = A \cup B
    BY <1>0 DEF Returned
  <2>2. A \subseteq R
    <3>1. \A k \in 1..Len(results) : k \in 1..Len(results') /\ results'[k] = results[k]
      BY <1>1, <1>3
    <3> QED BY <3>1
  <2>3. B \subseteq R
    <3> SUFFICES ASSUME NEW i \in 1..Len(batch), pc[i] = "page" PROVE batch[i].url \in R
      OBVIOUS
    <3>1. PICK k \in 1..n : kept[k] = i
      BY <1>1 DEF Good
    <3>2. Len(results) + k \in 1..Len(results') /\ results'[Len(results) + k] = batch[i].url
      BY <1>1, <1>3, <3>1
    <3> QED BY <3>2
  <2>4. R \subseteq A \cup B
    <3> SUFFICES ASSUME NEW m \in 1..Len(results') PROVE results'[m] \in A \cup B
      OBVIOUS
    <3>1. CASE m \in 1..Len(results)
      BY <1>1, <3>1
    <3>2. CASE m \notin 1..Len(results)
      BY <1>8, <1>9, <3>2 DEF Good
    <3> QED BY <3>1, <3>2
  <2> HIDE DEF R, A, B
  <2>5. announced = R
    BY <2>1, <2>2, <2>3, <2>4
  <2> QED BY <2>5 DEF R
<1>13. Returned'
  <2>1. {batch'[i].url : i \in {i \in 1..Len(batch') : pc'[i] = "page"}} = {}
    BY <1>3
  <2>2. Len(results') + Len(batch') <= MaxPages
    BY <1>0, <1>1, <1>3, CrawlConstants DEF Returned
  <2>3. announced' = {results'[m] : m \in 1..Len(results')}
                       \cup {batch'[i].url : i \in {i \in 1..Len(batch') : pc'[i] = "page"}}
    BY <1>2, <1>12, <2>1
  <2>4. \A i \in 1..Len(batch') : FALSE
    BY <1>3
  <2> QED BY <1>2, <1>10, <1>11, <2>2, <2>3, <2>4 DEF Returned
<1> QED BY <1>4, <1>5, <1>6, <1>7, <1>13 DEF CrawlInv

-----------------------------------------------------------------------------
(* A page's links join the queue *)

LEMMA Permuted ==
  ASSUME NEW F, F \in SUBSET Pages, NEW new, new \in Site!SetToAllKPermutations(F)
  PROVE  /\ new \in Seq(F) /\ Len(new) \in Nat
         /\ \A k, l \in 1..Len(new) : new[k] = new[l] => k = l
         /\ Cardinality(F) \in Nat
         /\ Cardinality(F) <= Len(new) => \A v \in F : \E k \in 1..Len(new) : new[k] = v
<1>1. PICK S \in SUBSET F : new \in Site!SetToSeqs(S)
  BY DEF Site!SetToAllKPermutations
<1>2. IsFiniteSet(F) /\ IsFiniteSet(S)
  BY CrawlConstants, FS_Subset
<1> DEFINE n == Cardinality(S)
<1>3. n \in Nat /\ Cardinality(F) \in Nat
  BY <1>2, FS_CardinalityType
<1>4. new \in [1..n -> S] /\ \A k, l \in 1..n : k # l => new[k] # new[l]
  BY <1>1, SiteCardinality DEF Site!SetToSeqs
<1>5. n <= Cardinality(F) /\ (Cardinality(F) = n => F = S)
  BY <1>2, FS_Subset
<1>6. \A v \in S : \E k \in 1..n : new[k] = v
  <2>1. IsFiniteSet(1..n) /\ Cardinality(1..n) = n
    <3>0. n \in Nat
      BY <1>3
    <3> HIDE DEF n
    <3>1. 1 \in Int /\ n \in Int
      BY <3>0
    <3>2. IsFiniteSet(1..n) /\ Cardinality(1..n) = IF 1 > n THEN 0 ELSE n - 1 + 1
      BY <3>1, FS_Interval
    <3> QED BY <3>0, <3>2
  <2>2. new \in Injection(1..n, S)
    BY <1>4, Zenon DEF Injection, IsInjective
  <2>3. new \in Surjection(1..n, S)
    BY <1>2, <2>1, <2>2, FS_Injection
  <2> QED BY <2>3, Zenon DEF Surjection
<1> HIDE DEF n
<1>7. new \in Seq(F) /\ Len(new) = n
  BY <1>1, <1>3, <1>4
<1> QED BY <1>3, <1>4, <1>5, <1>6, <1>7

LEMMA PageShape ==
  ASSUME CrawlTyped, NEW i \in 1..Len(batch), Site!Page(i)
  PROVE  \E out \in SUBSET (Pages \ {Seed}) :
         \E fresh \in SUBSET Pages :
         \E new \in Seq(fresh) :
           /\ pc[i] = "fetch" /\ links' = [links EXCEPT ![batch[i].url] = out]
           /\ fresh = IF batch[i].depth < MaxDepth
                      THEN {u \in out : u \notin visited /\ u \notin queued /\ u \notin Foreign} ELSE {}
           /\ Len(new) \in Nat
           /\ \A k, l \in 1..Len(new) : new[k] = new[l] => k = l
           /\ \A k \in 1..Len(new) : new[k] \in fresh
           /\ dropped' \in BOOLEAN
           /\ ~dropped' => ~dropped /\ \A v \in fresh : \E k \in 1..Len(new) : new[k] = v
           /\ frontier' \in Seq(CrawlEntry) /\ Len(frontier') = Len(frontier) + Len(new)
           /\ \A k \in 1..Len(frontier) : frontier'[k] = frontier[k]
           /\ \A k \in 1..Len(new) :
                frontier'[Len(frontier) + k] = [url |-> new[k], depth |-> batch[i].depth + 1]
           /\ queued' = queued \cup {new[k] : k \in 1..Len(new)}
           /\ Site!Goto(i, "announce") \/ Site!Release(i, "null")
           /\ UNCHANGED <<visited, results, batch, base, fetches, announced, mixed>>
<1>0. /\ batch[i].url \in Pages /\ batch[i].depth \in Nat /\ Len(frontier) \in Nat
      /\ frontier \in Seq(CrawlEntry) /\ dropped \in BOOLEAN /\ MaxDepth \in Nat
  BY CrawlShape, CrawlConstants DEF CrawlTyped
<1>1. PICK out \in SUBSET (Pages \ {Seed}) :
       LET fresh == IF Site!Expands(batch[i].depth) THEN Site!Fresh(out) ELSE {}
           taken == Site!Min({Site!Cardinality(fresh), Site!Space})
       IN  /\ pc[i] = "fetch"
           /\ links' = [links EXCEPT ![batch[i].url] = out]
           /\ \E new \in {s \in Site!SetToAllKPermutations(fresh) : Len(s) = taken} :
                /\ frontier' = frontier \o [k \in DOMAIN new |-> [url |-> new[k], depth |-> batch[i].depth + 1]]
                /\ queued' = queued \cup Site!ToSet(new)
           /\ dropped' = (dropped \/ Site!Cardinality(fresh) > taken)
           /\ Site!Goto(i, "announce") \/ Site!Release(i, "null")
           /\ UNCHANGED <<visited, results, batch, base, fetches, announced, mixed>>
  BY Zenon DEF Site!Page
<1> DEFINE fresh == IF Site!Expands(batch[i].depth) THEN Site!Fresh(out) ELSE {}
           taken == Site!Min({Site!Cardinality(fresh), Site!Space})
<1>2. fresh = IF batch[i].depth < MaxDepth
              THEN {u \in out : u \notin visited /\ u \notin queued /\ u \notin Foreign} ELSE {}
  BY DEF Site!Expands, Site!Fresh, Site!InScope
<1>3. fresh \in SUBSET Pages
  BY <1>2
<1>4. PICK new \in Site!SetToAllKPermutations(fresh) :
        /\ Len(new) = taken
        /\ frontier' = frontier \o [k \in DOMAIN new |-> [url |-> new[k], depth |-> batch[i].depth + 1]]
        /\ queued' = queued \cup Site!ToSet(new)
  BY <1>1, Zenon
<1>5. /\ pc[i] = "fetch" /\ links' = [links EXCEPT ![batch[i].url] = out]
      /\ dropped' = (dropped \/ Site!Cardinality(fresh) > taken)
      /\ Site!Goto(i, "announce") \/ Site!Release(i, "null")
      /\ UNCHANGED <<visited, results, batch, base, fetches, announced, mixed>>
  BY <1>1, Zenon
<1> HIDE DEF fresh, taken
<1>6. /\ new \in Seq(fresh) /\ Len(new) \in Nat
      /\ \A k, l \in 1..Len(new) : new[k] = new[l] => k = l
      /\ Cardinality(fresh) \in Nat
      /\ Cardinality(fresh) <= Len(new) => \A v \in fresh : \E k \in 1..Len(new) : new[k] = v
  <2>1. fresh \in SUBSET Pages
    BY <1>3
  <2>2. new \in Site!SetToAllKPermutations(fresh)
    OBVIOUS
  <2> QED BY <2>1, <2>2, Permuted
<1>7. DOMAIN new = 1..Len(new) /\ \A k \in 1..Len(new) : new[k] \in fresh
  BY <1>6, ElementOfSeq
<1>8. dropped' \in BOOLEAN
  BY <1>0, <1>5, Zenon
<1>9. ASSUME ~dropped' PROVE ~dropped /\ \A v \in fresh : \E k \in 1..Len(new) : new[k] = v
  <2>1. ~dropped /\ ~(Site!Cardinality(fresh) > taken)
    BY <1>5, <1>9, Zenon
  <2>2. ~(Cardinality(fresh) > Len(new))
    BY <1>4, <2>1, SiteCardinality
  <2>3. Cardinality(fresh) <= Len(new)
    BY <1>6, <2>2
  <2> QED BY <1>6, <2>1, <2>3
<1> DEFINE more == [k \in 1..Len(new) |-> [url |-> new[k], depth |-> batch[i].depth + 1]]
<1>10. \A k \in 1..Len(new) : [url |-> new[k], depth |-> batch[i].depth + 1] \in CrawlEntry
  <2>1. batch[i].depth + 1 \in Nat
    BY <1>0
  <2>2. \A k \in 1..Len(new) : new[k] \in Pages
    BY <1>3, <1>7
  <2> QED BY <2>1, <2>2 DEF CrawlEntry
<1>11. more \in Seq(CrawlEntry) /\ Len(more) = Len(new)
  BY <1>6, <1>10
<1>12. \A k \in 1..Len(new) : more[k] = [url |-> new[k], depth |-> batch[i].depth + 1]
  OBVIOUS
<1>13. frontier' = frontier \o more
  BY <1>4, <1>7
<1> HIDE DEF more
<1>14. /\ frontier' \in Seq(CrawlEntry) /\ Len(frontier') = Len(frontier) + Len(new)
       /\ \A k \in 1..Len(frontier) + Len(new) :
            frontier'[k] = IF k <= Len(frontier) THEN frontier[k] ELSE more[k - Len(frontier)]
  BY <1>0, <1>11, <1>13, ConcatProperties
<1>15. \A k \in 1..Len(frontier) : frontier'[k] = frontier[k]
  <2> SUFFICES ASSUME NEW k \in 1..Len(frontier) PROVE frontier'[k] = frontier[k]
    OBVIOUS
  <2>1. k \in 1..Len(frontier) + Len(new) /\ k <= Len(frontier)
    BY <1>0, <1>6
  <2> QED BY <1>14, <2>1
<1>16. \A k \in 1..Len(new) :
         frontier'[Len(frontier) + k] = [url |-> new[k], depth |-> batch[i].depth + 1]
  <2> SUFFICES ASSUME NEW k \in 1..Len(new)
               PROVE  frontier'[Len(frontier) + k] = more[k]
    BY <1>12
  <2>1. /\ Len(frontier) + k \in 1..Len(frontier) + Len(new) /\ ~(Len(frontier) + k <= Len(frontier))
        /\ Len(frontier) + k - Len(frontier) = k
    BY <1>0, <1>6
  <2> QED BY <1>14, <2>1
<1>17. queued' = queued \cup {new[k] : k \in 1..Len(new)}
  BY <1>4, <1>7 DEF Site!ToSet
<1>18. ~dropped' => ~dropped /\ \A v \in fresh : \E k \in 1..Len(new) : new[k] = v
  BY <1>9
<1> QED BY <1>2, <1>3, <1>5, <1>6, <1>7, <1>8, <1>14, <1>15, <1>16, <1>17, <1>18, Zenon

LEMMA PageSafe ==
  ASSUME CrawlInv, NEW i \in 1..Len(batch), Site!Page(i)
  PROVE  CrawlInv'
<1>0. CrawlTyped /\ Apart /\ Requested /\ Returned /\ Slots
  BY DEF CrawlInv
<1>1. PICK out \in SUBSET (Pages \ {Seed}), fresh \in SUBSET Pages :
         \E new \in Seq(fresh) :
           /\ pc[i] = "fetch" /\ links' = [links EXCEPT ![batch[i].url] = out]
           /\ fresh = IF batch[i].depth < MaxDepth
                      THEN {u \in out : u \notin visited /\ u \notin queued /\ u \notin Foreign} ELSE {}
           /\ Len(new) \in Nat
           /\ \A k, l \in 1..Len(new) : new[k] = new[l] => k = l
           /\ \A k \in 1..Len(new) : new[k] \in fresh
           /\ dropped' \in BOOLEAN
           /\ ~dropped' => ~dropped /\ \A v \in fresh : \E k \in 1..Len(new) : new[k] = v
           /\ frontier' \in Seq(CrawlEntry) /\ Len(frontier') = Len(frontier) + Len(new)
           /\ \A k \in 1..Len(frontier) : frontier'[k] = frontier[k]
           /\ \A k \in 1..Len(new) :
                frontier'[Len(frontier) + k] = [url |-> new[k], depth |-> batch[i].depth + 1]
           /\ queued' = queued \cup {new[k] : k \in 1..Len(new)}
           /\ Site!Goto(i, "announce") \/ Site!Release(i, "null")
           /\ UNCHANGED <<visited, results, batch, base, fetches, announced, mixed>>
  BY <1>0, PageShape, Zenon
<1>2. PICK new \in Seq(fresh) :
           /\ pc[i] = "fetch" /\ links' = [links EXCEPT ![batch[i].url] = out]
           /\ fresh \cap queued = {} /\ Len(new) \in Nat
           /\ \A k, l \in 1..Len(new) : new[k] = new[l] => k = l
           /\ \A k \in 1..Len(new) : new[k] \in fresh
           /\ dropped' \in BOOLEAN
           /\ frontier' \in Seq(CrawlEntry) /\ Len(frontier') = Len(frontier) + Len(new)
           /\ \A k \in 1..Len(frontier) : frontier'[k] = frontier[k]
           /\ \A k \in 1..Len(new) : frontier'[Len(frontier) + k].url = new[k]
           /\ queued' = queued \cup {new[k] : k \in 1..Len(new)}
           /\ Site!Goto(i, "announce") \/ Site!Release(i, "null")
           /\ visited' = visited /\ results' = results /\ batch' = batch /\ base' = base
           /\ fetches' = fetches /\ announced' = announced /\ mixed' = mixed
  <2>1. PICK new \in Seq(fresh) :
           /\ pc[i] = "fetch" /\ links' = [links EXCEPT ![batch[i].url] = out]
           /\ fresh = IF batch[i].depth < MaxDepth
                      THEN {u \in out : u \notin visited /\ u \notin queued /\ u \notin Foreign} ELSE {}
           /\ Len(new) \in Nat
           /\ \A k, l \in 1..Len(new) : new[k] = new[l] => k = l
           /\ \A k \in 1..Len(new) : new[k] \in fresh
           /\ dropped' \in BOOLEAN
           /\ frontier' \in Seq(CrawlEntry) /\ Len(frontier') = Len(frontier) + Len(new)
           /\ \A k \in 1..Len(frontier) : frontier'[k] = frontier[k]
           /\ \A k \in 1..Len(new) :
                frontier'[Len(frontier) + k] = [url |-> new[k], depth |-> batch[i].depth + 1]
           /\ queued' = queued \cup {new[k] : k \in 1..Len(new)}
           /\ Site!Goto(i, "announce") \/ Site!Release(i, "null")
           /\ UNCHANGED <<visited, results, batch, base, fetches, announced, mixed>>
    BY <1>1, Zenon
  <2>2. fresh \cap queued = {}
    BY <2>1
  <2>3. \A k \in 1..Len(new) : frontier'[Len(frontier) + k].url = new[k]
    <3> SUFFICES ASSUME NEW k \in 1..Len(new) PROVE frontier'[Len(frontier) + k].url = new[k]
      OBVIOUS
    <3>1. frontier'[Len(frontier) + k] = [url |-> new[k], depth |-> batch[i].depth + 1]
      BY <2>1, Zenon
    <3> QED BY <3>1
  <2>4. /\ visited' = visited /\ results' = results /\ batch' = batch /\ base' = base
        /\ fetches' = fetches /\ announced' = announced /\ mixed' = mixed
    BY <2>1
  <2> QED BY <2>1, <2>2, <2>3, <2>4, Zenon
<1>3. /\ Len(frontier) \in Nat /\ Len(batch) \in Nat /\ batch[i].url \in Pages /\ pc[i] \in Running
  BY <1>0, <1>2, CrawlShape DEF Running
<1>4. \A k \in 1..Len(frontier') :
        \/ k \in 1..Len(frontier) /\ frontier'[k] = frontier[k]
        \/ \E l \in 1..Len(new) : k = Len(frontier) + l /\ frontier'[k].url = new[l]
  <2> SUFFICES ASSUME NEW k \in 1..Len(frontier'), k \notin 1..Len(frontier)
               PROVE  \E l \in 1..Len(new) : k = Len(frontier) + l /\ frontier'[k].url = new[l]
    BY <1>2
  <2>1. k - Len(frontier) \in 1..Len(new) /\ k = Len(frontier) + (k - Len(frontier))
    BY <1>2, <1>3
  <2> QED BY <1>2, <2>1
<1>5. \A k \in 1..Len(new) : new[k] \in Pages /\ new[k] \notin queued
  BY <1>2
<1>6. queued \subseteq queued' /\ queued' \subseteq Pages
  BY <1>0, <1>2, <1>5 DEF CrawlTyped
<1>7. \E step \in {"announce", "null"} : Goes(i, step) /\ Slots' /\ pending' \in Seq(Nat)
  <2>1. CASE Site!Goto(i, "announce")
    BY <1>0, <1>2, <1>3, <2>1, WithinSlot DEF Running
  <2>2. CASE Site!Release(i, "null")
    BY <1>0, <1>2, <1>3, <2>2, SlotGoesOn
  <2> QED BY <1>2, <2>1, <2>2
<1>8. PICK step \in {"announce", "null"} : Goes(i, step) /\ Slots' /\ pending' \in Seq(Nat)
  BY <1>7
<1>9. CrawlTyped'
  <2>1. links' \in [Pages -> SUBSET Pages]
    BY <1>0, <1>2, <1>3 DEF CrawlTyped
  <2>2. pc' \in [1..Len(batch') -> CrawlPc]
    BY <1>2, <1>8 DEF Goes
  <2>3. batch' \in Seq(CrawlEntry) /\ results' \in Seq(Pages) /\ base' \in Nat
        /\ fetches' \in [Pages -> Nat] /\ mixed' \in BOOLEAN /\ visited' \subseteq queued'
    BY <1>0, <1>2, <1>6 DEF CrawlTyped
  <2> QED BY <1>2, <1>6, <1>8, <2>1, <2>2, <2>3, Zenon DEF CrawlTyped
<1>10. Apart'
  <2>1. \A a, b \in 1..Len(frontier') : frontier'[a].url = frontier'[b].url => a = b
    <3> SUFFICES ASSUME NEW a \in 1..Len(frontier'), NEW b \in 1..Len(frontier'),
                        frontier'[a].url = frontier'[b].url
                 PROVE  a = b
      OBVIOUS
    <3>1. CASE a \in 1..Len(frontier) /\ b \in 1..Len(frontier)
      BY <1>0, <1>2, <3>1 DEF Apart
    <3>2. ASSUME NEW c \in 1..Len(frontier), NEW d \in 1..Len(frontier'), d \notin 1..Len(frontier)
          PROVE  frontier'[c].url # frontier'[d].url
      <4>1. PICK l \in 1..Len(new) : frontier'[d].url = new[l]
        BY <1>4, <3>2
      <4>2. frontier'[c].url \in queued
        BY <1>0, <1>2 DEF Apart
      <4> QED BY <1>5, <4>1, <4>2
    <3>3. CASE a \notin 1..Len(frontier) /\ b \notin 1..Len(frontier)
      <4>1. PICK k \in 1..Len(new) : a = Len(frontier) + k /\ frontier'[a].url = new[k]
        BY <1>4, <3>3
      <4>2. PICK l \in 1..Len(new) : b = Len(frontier) + l /\ frontier'[b].url = new[l]
        BY <1>4, <3>3
      <4> QED BY <1>2, <4>1, <4>2
    <3> QED BY <3>1, <3>2, <3>3
  <2>2. \A a \in 1..Len(frontier') : frontier'[a].url \in queued'
    <3> SUFFICES ASSUME NEW a \in 1..Len(frontier') PROVE frontier'[a].url \in queued'
      OBVIOUS
    <3>1. CASE a \in 1..Len(frontier)
      BY <1>0, <1>2, <1>6, <3>1 DEF Apart
    <3>2. CASE a \notin 1..Len(frontier)
      BY <1>2, <1>4, <3>2
    <3> QED BY <3>1, <3>2
  <2>3. \A a \in 1..Len(frontier'), j \in 1..Len(batch) : frontier'[a].url # batch[j].url
    <3> SUFFICES ASSUME NEW a \in 1..Len(frontier'), NEW j \in 1..Len(batch)
                 PROVE  frontier'[a].url # batch[j].url
      OBVIOUS
    <3>1. batch[j].url \in queued
      BY <1>0 DEF Apart
    <3>2. CASE a \in 1..Len(frontier)
      BY <1>0, <1>2, <3>2 DEF Apart
    <3>3. CASE a \notin 1..Len(frontier)
      BY <1>4, <1>5, <3>1, <3>3
    <3> QED BY <3>2, <3>3
  <2> QED BY <1>0, <1>2, <1>6, <2>1, <2>2, <2>3 DEF Apart
<1>11. ASSUME NEW u \in queued, \A k \in 1..Len(frontier) : frontier[k].url # u
       PROVE  \A k \in 1..Len(frontier') : frontier'[k].url # u
  BY <1>4, <1>5, <1>11
<1>12. Requested'
  <2> SUFFICES ASSUME NEW u \in Pages
               PROVE  /\ fetches[u] <= 1
                      /\ fetches[u] # 0 =>
                           /\ u \in queued'
                           /\ \A k \in 1..Len(frontier') : frontier'[k].url # u
                           /\ \A k \in 1..Len(batch) : batch[k].url = u => pc'[k] \in Late
    BY <1>2 DEF Requested
  <2>1. \A j \in 1..Len(batch) : pc[j] \in Late => pc'[j] \in Late
    BY <1>8 DEF Goes, Late
  <2>2. fetches[u] <= 1
    BY <1>0 DEF Requested
  <2>3. ASSUME fetches[u] # 0
        PROVE  /\ u \in queued /\ \A k \in 1..Len(frontier') : frontier'[k].url # u
               /\ \A k \in 1..Len(batch) : batch[k].url = u => pc'[k] \in Late
    BY <1>0, <1>11, <2>1, <2>3 DEF Requested
  <2> QED BY <1>6, <2>2, <2>3
<1>13. Returned'
  <2>1. \A j \in 1..Len(batch) : pc'[j] = "page" <=> pc[j] = "page"
    BY <1>2, <1>8 DEF Goes
  <2>2. {batch[j].url : j \in {j \in 1..Len(batch) : pc'[j] = "page"}}
          = {batch[j].url : j \in {j \in 1..Len(batch) : pc[j] = "page"}}
    BY <2>1
  <2>3. announced' = {results'[k] : k \in 1..Len(results')}
                       \cup {batch'[j].url : j \in {j \in 1..Len(batch') : pc'[j] = "page"}}
    <3>1. announced = {results[k] : k \in 1..Len(results)}
                        \cup {batch[j].url : j \in {j \in 1..Len(batch) : pc[j] = "page"}}
      BY <1>0 DEF Returned
    <3> QED BY <1>2, <2>2, <3>1
  <2>4. \A k \in 1..Len(results) :
          results[k] \in queued' /\ \A j \in 1..Len(frontier') : frontier'[j].url # results[k]
    BY <1>0, <1>6, <1>11 DEF Returned
  <2> QED BY <1>0, <1>2, <2>3, <2>4 DEF Returned
<1> QED BY <1>8, <1>9, <1>10, <1>12, <1>13 DEF CrawlInv

LEMMA CrawlBegins == Site!Init => CrawlInv
<1> SUFFICES ASSUME Site!Init PROVE CrawlInv
  OBVIOUS
<1>1. /\ frontier = <<[url |-> Seed, depth |-> 0]>> /\ queued = {Seed} /\ visited = {} /\ results = <<>>
      /\ batch = <<>> /\ base = 0 /\ pc = <<>> /\ pending = <<>> /\ links = [u \in Pages |-> {}]
      /\ fetches = [u \in Pages |-> 0] /\ announced = {} /\ dropped = FALSE /\ mixed = FALSE
  BY Zenon DEF Site!Init
<1>2. [url |-> Seed, depth |-> 0] \in CrawlEntry
  BY CrawlConstants DEF CrawlEntry
<1>3. frontier \in Seq(CrawlEntry) /\ Len(frontier) = 1 /\ frontier[1].url = Seed
  BY <1>1, <1>2
<1>4. Len(batch) = 0 /\ Len(results) = 0 /\ Len(pending) = 0
  BY <1>1
<1>5. batch \in Seq(CrawlEntry) /\ results \in Seq(Pages) /\ pending \in Seq(Nat)
      /\ pc \in [1..Len(batch) -> CrawlPc]
  BY <1>1, <1>4
<1>6. CrawlTyped
  BY <1>1, <1>3, <1>5, CrawlConstants DEF CrawlTyped
<1>7. Apart
  BY <1>1, <1>3, <1>4 DEF Apart
<1>8. Requested
  BY <1>1 DEF Requested
<1>9. Returned
  <2>1. {results[k] : k \in 1..Len(results)} = {}
    BY <1>4
  <2>2. {batch[i].url : i \in {i \in 1..Len(batch) : pc[i] = "page"}} = {}
    BY <1>4
  <2> QED BY <1>1, <1>4, <2>1, <2>2, CrawlConstants DEF Returned
<1>10. Slots
  BY <1>1, <1>4 DEF Slots
<1> QED BY <1>6, <1>7, <1>8, <1>9, <1>10 DEF CrawlInv

LEMMA CrawlStep == CrawlInv /\ Site!Next => CrawlInv'
<1> SUFFICES ASSUME CrawlInv, Site!Next PROVE CrawlInv'
  OBVIOUS
<1>1. DOMAIN batch = 1..Len(batch)
  BY CrawlShape DEF CrawlInv
<1>2. ASSUME NEW i \in 1..Len(batch), Site!Crawl(i) PROVE CrawlInv'
  BY <1>2, EntrySteps, PageSafe
<1> QED BY <1>1, <1>2, TakeSafe, CollectSafe, Zenon DEF Site!Next

LEMMA CrawlStutter == CrawlInv /\ UNCHANGED crawlVars => CrawlInv'
<1> SUFFICES ASSUME CrawlInv, UNCHANGED crawlVars PROVE CrawlInv'
  OBVIOUS
<1>1. /\ frontier' = frontier /\ queued' = queued /\ visited' = visited /\ results' = results
      /\ batch' = batch /\ base' = base /\ pc' = pc /\ pending' = pending /\ links' = links
      /\ fetches' = fetches /\ announced' = announced /\ dropped' = dropped /\ mixed' = mixed
  BY Zenon DEF crawlVars
<1> QED BY <1>1 DEF CrawlInv, CrawlTyped, Apart, Requested, Returned, Slots, Active

\* What a crawl has at its end.
LEMMA CrawlGivesExact == CrawlInv => CrawlExact
<1> SUFFICES ASSUME CrawlInv PROVE CrawlExact
  OBVIOUS
<1>0. CrawlTyped /\ Requested /\ Returned /\ Slots
  BY DEF CrawlInv
<1>1. Site!FetchedOnce
  BY <1>0 DEF Site!FetchedOnce, Requested
<1>2. Site!NoIdleSlot
  <2>1. Site!Active = Active
    BY <1>0, CrawlShape DEF Site!Active, Site!Ended, Active, Running, CrawlTyped, CrawlPc
  <2> QED BY <1>0, <2>1, SiteCardinality DEF Site!NoIdleSlot, Slots
<1>3. ASSUME Site!Done
      PROVE  Site!ToSet(results) = announced /\ Len(results) = Site!Cardinality(announced)
  <2>1. Len(batch) = 0 /\ Len(results) \in Nat /\ results \in Seq(Pages)
    BY <1>0, <1>3, CrawlShape DEF Site!Done, CrawlTyped
  <2>2. {batch[i].url : i \in {i \in 1..Len(batch) : pc[i] = "page"}} = {}
    BY <2>1
  <2> DEFINE R == {results[k] : k \in 1..Len(results)}
  <2>3. announced = R
    BY <1>0, <2>2 DEF Returned
  <2>4. Site!ToSet(results) = R
    BY <2>1 DEF Site!ToSet
  <2>5. results \in [1..Len(results) -> R] /\ \A u \in R : \E k \in 1..Len(results) : results[k] = u
    BY <2>1
  <2> HIDE DEF R
  <2>6. results \in Bijection(1..Len(results), R)
    BY <1>0, <2>5, Zenon DEF Returned, Bijection, Injection, Surjection, IsInjective
  <2>7. Cardinality(R) = Len(results)
    BY <2>1, <2>6, FS_CountingElements DEF ExistsBijection
  <2> QED BY <2>3, <2>4, <2>7, SiteCardinality
<1> QED BY <1>1, <1>2, <1>3 DEF CrawlExact, Site!AnnouncedIsReturned

LEMMA SourcingCrawl == SourcingSpec => []CrawlInv
<1>1. SourcingInit => CrawlInv
  BY CrawlBegins DEF SourcingInit
<1>2. CrawlInv /\ [SourcingNext]_sourcingVars => CrawlInv'
  BY CrawlStep, CrawlStutter, Zenon DEF SourcingNext, sourcingVars
<1> QED BY <1>1, <1>2, PTL DEF SourcingSpec

\* For any site and any bounds: a page is requested at most once, what is returned is what
\* was announced, and no page waits while the limiter has a slot (crawlSite, createLimit).
THEOREM CrawlsExactly == SourcingSpec => []CrawlExact
  BY SourcingCrawl, CrawlGivesExact, PTL

-----------------------------------------------------------------------------
(* What a crawl considers *)

UnderWay == {"resolve", "fetch", "announce"}

\* Links come from pages that were queued and are in scope.
Sourced ==
  /\ \A i \in 1..Len(batch) : pc[i] \in UnderWay => batch[i].url \notin Foreign
  /\ \A u \in Pages : links[u] # {} => u \in queued /\ u \notin Foreign

\* The depths at which the pages were queued: the crawl goes by them, level after level, and
\* a link followed leads at most one level deeper.
Levels(depth) ==
  /\ \A k \in 1..Len(frontier) : frontier[k].depth = depth[frontier[k].url]
  /\ \A i \in 1..Len(batch) : batch[i].depth = depth[batch[i].url]
  /\ \A k, l \in 1..Len(frontier) : k <= l => frontier[k].depth <= frontier[l].depth
  /\ \A i, j \in 1..Len(batch) : batch[i].depth = batch[j].depth
  /\ \A i \in 1..Len(batch), k \in 1..Len(frontier) : batch[i].depth <= frontier[k].depth
  /\ \A u \in queued, k \in 1..Len(frontier) : depth[u] <= frontier[k].depth + 1
  /\ \A u \in queued, i \in 1..Len(batch) : depth[u] <= batch[i].depth + 1
  /\ Seed \in queued /\ depth[Seed] = 0
  /\ \A u \in Pages : \A v \in links[u] :
       depth[u] < MaxDepth /\ v \notin Foreign => v \in queued /\ depth[v] <= depth[u] + 1

LinksInv ==
  /\ Sourced
  /\ ~dropped /\ ~mixed => \E depth \in [Pages -> Nat] : Levels(depth)

LEMMA LinksBegin == Site!Init => LinksInv
<1> SUFFICES ASSUME Site!Init PROVE LinksInv
  OBVIOUS
<1>1. /\ frontier = <<[url |-> Seed, depth |-> 0]>> /\ queued = {Seed} /\ batch = <<>>
      /\ links = [u \in Pages |-> {}]
  BY Zenon DEF Site!Init
<1>2. Len(batch) = 0 /\ Len(frontier) = 1 /\ frontier[1].url = Seed /\ frontier[1].depth = 0
  BY <1>1
<1>3. \A u \in Pages : links[u] = {}
  BY <1>1
<1>4. \A k \in 1..Len(frontier) : k = 1
  BY <1>2
<1> DEFINE depth == [u \in Pages |-> 0]
<1>5. depth \in [Pages -> Nat] /\ \A u \in Pages : depth[u] = 0
  OBVIOUS
<1> HIDE DEF depth
<1>6. Levels(depth)
  BY <1>1, <1>2, <1>3, <1>4, <1>5, CrawlConstants DEF Levels
<1>7. Sourced
  BY <1>2, <1>3 DEF Sourced
<1> QED BY <1>5, <1>6, <1>7 DEF LinksInv

LEMMA EntryGoes ==
  ASSUME CrawlInv, Sourced, NEW i \in 1..Len(batch), Site!Crawl(i), batch' = batch
  PROVE  \E step \in CrawlPc : Goes(i, step) /\ (step \in UnderWay => batch[i].url \notin Foreign)
<1>0. CrawlTyped /\ Slots
  BY DEF CrawlInv
<1>1. CASE \/ Site!Skip(i) \/ Site!NotPublic(i) \/ Site!NoPage(i) \/ Site!Refused(i)
           \/ Site!Page(i) /\ Site!Release(i, "null")
  <2>1. Site!Release(i, "null") /\ pc[i] \in Running
    BY <1>1 DEF Site!Skip, Site!NotPublic, Site!NoPage, Site!Refused, Site!Page, Running
  <2>2. Goes(i, "null")
    BY <1>0, <2>1, SlotGoesOn
  <2> QED BY <2>2 DEF UnderWay, CrawlPc
<1>2. CASE Site!Announce(i)
  <2>1. Site!Release(i, "page") /\ pc[i] \in Running
    BY <1>2 DEF Site!Announce, Running
  <2>2. Goes(i, "page")
    BY <1>0, <2>1, SlotGoesOn
  <2> QED BY <2>2 DEF UnderWay, CrawlPc
<1>3. CASE Site!Resolve(i)
  <2>1. Site!Goto(i, "resolve") /\ pc[i] \in Running /\ batch[i].url \notin Foreign
    BY <1>3 DEF Site!Resolve, Site!InScope, Running
  <2>2. Goes(i, "resolve")
    BY <1>0, <2>1, WithinSlot DEF Running
  <2> QED BY <2>1, <2>2 DEF CrawlPc, Running
<1>4. CASE Site!Request(i)
  <2>1. Site!Goto(i, "fetch") /\ pc[i] = "resolve" /\ pc[i] \in Running
    BY <1>4 DEF Site!Request, Running
  <2>2. Goes(i, "fetch")
    BY <1>0, <2>1, WithinSlot DEF Running
  <2>3. batch[i].url \notin Foreign
    BY <2>1 DEF Sourced, UnderWay
  <2> QED BY <2>2, <2>3 DEF CrawlPc, Running
<1>5. CASE Site!Page(i) /\ Site!Goto(i, "announce")
  <2>1. pc[i] = "fetch" /\ pc[i] \in Running
    BY <1>5 DEF Site!Page, Running
  <2>2. Goes(i, "announce")
    BY <1>0, <1>5, <2>1, WithinSlot DEF Running
  <2>3. batch[i].url \notin Foreign
    BY <2>1 DEF Sourced, UnderWay
  <2> QED BY <2>2, <2>3 DEF CrawlPc, Running
<1>6. Site!Page(i) => Site!Goto(i, "announce") \/ Site!Release(i, "null")
  BY Zenon DEF Site!Page
<1> QED BY <1>1, <1>2, <1>3, <1>4, <1>5, <1>6 DEF Site!Crawl

LEMMA EntryLinks ==
  ASSUME CrawlInv, LinksInv, NEW i \in 1..Len(batch), Site!Crawl(i), ~Site!Page(i)
  PROVE  LinksInv'
<1>1. frontier' = frontier /\ batch' = batch /\ queued' = queued
      /\ links' = links /\ dropped' = dropped /\ mixed' = mixed
  BY Zenon DEF Site!Crawl, Site!Skip, Site!Resolve, Site!NotPublic, Site!Request, Site!NoPage, Site!Announce,
     Site!Refused, Site!overlooked
<1>2. Sourced
  BY DEF LinksInv
<1>3. PICK step \in CrawlPc : Goes(i, step) /\ (step \in UnderWay => batch[i].url \notin Foreign)
  BY <1>1, <1>2, EntryGoes
<1>4. Sourced'
  BY <1>1, <1>2, <1>3 DEF Sourced, Goes, UnderWay
<1>5. \A depth \in [Pages -> Nat] : Levels(depth) => Levels(depth)'
  BY <1>1 DEF Levels
<1> QED BY <1>1, <1>4, <1>5 DEF LinksInv

LEMMA TakeLinks ==
  ASSUME CrawlInv, LinksInv, Site!TakeBatch
  PROVE  LinksInv'
<1>0. CrawlTyped /\ Concurrency \in Nat
  BY CrawlConstants DEF CrawlInv
<1>1. PICK n \in 1..Len(frontier) :
           /\ batch' \in Seq(CrawlEntry) /\ Len(batch') = n
           /\ \A i \in 1..n : batch'[i] = frontier[i]
           /\ Len(frontier') = Len(frontier) - n
           /\ \A i \in 1..Len(frontier) - n : frontier'[i] = frontier[i + n]
           /\ pc' = [i \in 1..n |-> IF i <= Concurrency THEN "start" ELSE "pending"]
           /\ queued' = queued /\ links' = links /\ dropped' = dropped
  BY <1>0, TakeShape
<1>2. /\ Len(frontier) \in Nat /\ n \in Nat /\ n <= Len(frontier)
      /\ \A i \in 1..Len(frontier) : frontier[i].url \in Pages /\ frontier[i].depth \in Nat
  BY <1>0, CrawlShape
<1>3. \A i \in 1..n : i \in 1..Len(frontier)
  BY <1>2
<1>4. \A i \in 1..Len(frontier') : \E a \in 1..Len(frontier) :
         a = i + n /\ a > n /\ frontier'[i] = frontier[a]
  <2> SUFFICES ASSUME NEW i \in 1..Len(frontier')
               PROVE  \E a \in 1..Len(frontier) : a = i + n /\ a > n /\ frontier'[i] = frontier[a]
    OBVIOUS
  <2>1. i \in 1..Len(frontier) - n
    BY <1>1
  <2>2. i + n \in 1..Len(frontier) /\ i + n > n
    BY <1>2, <2>1
  <2> QED BY <1>1, <2>1, <2>2
<1>5. Sourced'
  <2>1. \A i \in 1..n : pc'[i] \notin UnderWay
    BY <1>1 DEF UnderWay
  <2> QED BY <1>1, <2>1 DEF LinksInv, Sourced
<1>6. ASSUME ~dropped', ~mixed'
      PROVE  \E depth \in [Pages -> Nat] : Levels(depth)'
  <2>1. ~mixed /\ \A i, j \in 1..n : batch'[i].depth = batch'[j].depth
    <3>1. mixed' = (mixed \/ \E e, f \in Site!ToSet(batch') : e.depth # f.depth)
      BY Zenon DEF Site!TakeBatch
    <3>2. ~mixed /\ \A e, f \in Site!ToSet(batch') : e.depth = f.depth
      BY <1>6, <3>1, Zenon
    <3>3. \A i \in 1..n : batch'[i] \in Site!ToSet(batch')
      BY <1>1 DEF Site!ToSet
    <3> QED BY <3>2, <3>3, Zenon
  <2>2. ~dropped
    BY <1>1, <1>6, Zenon
  <2>3. PICK depth \in [Pages -> Nat] : Levels(depth)
    BY <2>1, <2>2 DEF LinksInv
  <2>4. /\ \A k \in 1..Len(frontier') : frontier'[k].depth = depth[frontier'[k].url]
        /\ \A u \in queued, k \in 1..Len(frontier') : depth[u] <= frontier'[k].depth + 1
    BY <1>4, <2>3 DEF Levels
  <2>5. /\ \A i \in 1..n : batch'[i].depth = depth[batch'[i].url]
        /\ \A u \in queued, i \in 1..n : depth[u] <= batch'[i].depth + 1
    BY <1>1, <1>3, <2>3 DEF Levels
  <2>6. ASSUME NEW k \in 1..Len(frontier'), NEW l \in 1..Len(frontier'), k <= l
        PROVE  frontier'[k].depth <= frontier'[l].depth
    <3>1. PICK a \in 1..Len(frontier) : a = k + n /\ frontier'[k] = frontier[a]
      BY <1>4
    <3>2. PICK b \in 1..Len(frontier) : b = l + n /\ frontier'[l] = frontier[b]
      BY <1>4
    <3>3. a <= b
      BY <1>1, <1>2, <2>6, <3>1, <3>2
    <3> QED BY <2>3, <3>1, <3>2, <3>3 DEF Levels
  <2>7. ASSUME NEW i \in 1..n, NEW k \in 1..Len(frontier')
        PROVE  batch'[i].depth <= frontier'[k].depth
    <3>1. PICK a \in 1..Len(frontier) : a > n /\ frontier'[k] = frontier[a]
      BY <1>4
    <3>2. i \in 1..Len(frontier) /\ i <= a /\ batch'[i] = frontier[i]
      BY <1>1, <1>2, <1>3, <3>1
    <3> QED BY <2>3, <3>1, <3>2 DEF Levels
  <2>8. Levels(depth)'
    BY <1>1, <2>1, <2>3, <2>4, <2>5, <2>6, <2>7 DEF Levels
  <2> QED BY <2>8
<1> QED BY <1>5, <1>6 DEF LinksInv

LEMMA CollectLinks ==
  ASSUME LinksInv, Site!Collect
  PROVE  LinksInv'
<1>1. /\ batch' = <<>> /\ frontier' = frontier /\ queued' = queued /\ links' = links
      /\ dropped' = dropped /\ mixed' = mixed
  BY Zenon DEF Site!Collect, Site!overlooked
<1>2. Len(batch') = 0
  BY <1>1
<1>3. Sourced'
  BY <1>1, <1>2 DEF LinksInv, Sourced
<1>4. \A depth \in [Pages -> Nat] : Levels(depth) => Levels(depth)'
  BY <1>1, <1>2 DEF Levels
<1> QED BY <1>1, <1>3, <1>4 DEF LinksInv

LEMMA PageLinks ==
  ASSUME CrawlInv, LinksInv, NEW i \in 1..Len(batch), Site!Page(i)
  PROVE  LinksInv'
<1>0. CrawlTyped /\ Apart /\ Sourced
  BY DEF CrawlInv, LinksInv
<1>1. PICK out \in SUBSET (Pages \ {Seed}), fresh \in SUBSET Pages :
         \E new \in Seq(fresh) :
           /\ pc[i] = "fetch" /\ links' = [links EXCEPT ![batch[i].url] = out]
           /\ fresh = IF batch[i].depth < MaxDepth
                      THEN {u \in out : u \notin visited /\ u \notin queued /\ u \notin Foreign} ELSE {}
           /\ Len(new) \in Nat
           /\ \A k, l \in 1..Len(new) : new[k] = new[l] => k = l
           /\ \A k \in 1..Len(new) : new[k] \in fresh
           /\ dropped' \in BOOLEAN
           /\ ~dropped' => ~dropped /\ \A v \in fresh : \E k \in 1..Len(new) : new[k] = v
           /\ frontier' \in Seq(CrawlEntry) /\ Len(frontier') = Len(frontier) + Len(new)
           /\ \A k \in 1..Len(frontier) : frontier'[k] = frontier[k]
           /\ \A k \in 1..Len(new) :
                frontier'[Len(frontier) + k] = [url |-> new[k], depth |-> batch[i].depth + 1]
           /\ queued' = queued \cup {new[k] : k \in 1..Len(new)}
           /\ Site!Goto(i, "announce") \/ Site!Release(i, "null")
           /\ UNCHANGED <<visited, results, batch, base, fetches, announced, mixed>>
  BY <1>0, PageShape, Zenon
<1>2. PICK new \in Seq(fresh) :
           /\ pc[i] = "fetch" /\ links' = [links EXCEPT ![batch[i].url] = out]
           /\ fresh = IF batch[i].depth < MaxDepth
                      THEN {u \in out : u \notin visited /\ u \notin queued /\ u \notin Foreign} ELSE {}
           /\ Len(new) \in Nat
           /\ \A k \in 1..Len(new) : new[k] \in fresh
           /\ ~dropped' => ~dropped /\ \A v \in fresh : \E k \in 1..Len(new) : new[k] = v
           /\ Len(frontier') = Len(frontier) + Len(new)
           /\ \A k \in 1..Len(frontier) : frontier'[k] = frontier[k]
           /\ \A k \in 1..Len(new) :
                frontier'[Len(frontier) + k] = [url |-> new[k], depth |-> batch[i].depth + 1]
           /\ queued' = queued \cup {new[k] : k \in 1..Len(new)}
           /\ UNCHANGED <<visited, results, batch, base, fetches, announced, mixed>>
  BY <1>1, Zenon
<1>3. batch' = batch /\ mixed' = mixed /\ visited' = visited
  BY <1>2
<1>4. /\ Len(frontier) \in Nat /\ Len(batch) \in Nat /\ batch[i].url \in Pages /\ batch[i].depth \in Nat
      /\ visited \subseteq queued /\ queued \subseteq Pages /\ batch[i].url \in queued /\ MaxDepth \in Nat
  BY <1>0, CrawlShape, CrawlConstants DEF CrawlTyped, Apart
<1> DEFINE joined == {new[k] : k \in 1..Len(new)}
<1>5. joined \subseteq fresh /\ joined \cap queued = {} /\ joined \subseteq Pages /\ queued' = queued \cup joined
  BY <1>2
<1>6. \A k \in 1..Len(frontier') :
        \/ k \in 1..Len(frontier) /\ frontier'[k] = frontier[k]
        \/ k > Len(frontier) /\ frontier'[k].url \in joined /\ frontier'[k].depth = batch[i].depth + 1
  <2> SUFFICES ASSUME NEW k \in 1..Len(frontier'), k \notin 1..Len(frontier)
               PROVE  /\ k > Len(frontier) /\ frontier'[k].url \in joined
                      /\ frontier'[k].depth = batch[i].depth + 1
    BY <1>2
  <2>1. k > Len(frontier) /\ k - Len(frontier) \in 1..Len(new)
    BY <1>2, <1>4
  <2>2. PICK l \in 1..Len(new) : l = k - Len(frontier)
    BY <2>1
  <2>3. Len(frontier) + l = k
    BY <1>4, <2>1, <2>2
  <2>4. frontier'[k] = [url |-> new[l], depth |-> batch[i].depth + 1]
    BY <1>2, <2>3, Zenon
  <2>5. new[l] \in joined
    OBVIOUS
  <2> HIDE DEF joined
  <2> QED BY <2>1, <2>4, <2>5
<1>7. ~dropped' => ~dropped /\ (batch[i].depth < MaxDepth =>
        \A v \in out : v \notin Foreign => v \in queued \/ v \in joined)
  <2>1. ASSUME NEW v \in fresh, ~dropped' PROVE v \in joined
    BY <1>2, <2>1
  <2> HIDE DEF joined
  <2> QED BY <1>2, <1>4, <2>1
<1> HIDE DEF joined
<1>8. /\ links' \in [Pages -> SUBSET Pages] /\ links'[batch[i].url] = out
      /\ \A u \in Pages : u # batch[i].url => links'[u] = links[u]
  BY <1>0, <1>2, <1>4 DEF CrawlTyped
<1>9. batch[i].url \notin Foreign
  BY <1>0, <1>2 DEF Sourced, UnderWay
<1>10. Sourced'
  <2>1. Site!Crawl(i)
    BY Zenon DEF Site!Crawl
  <2>2. PICK step \in CrawlPc : Goes(i, step) /\ (step \in UnderWay => batch[i].url \notin Foreign)
    BY <1>0, <1>3, <2>1, EntryGoes
  <2>3. \A j \in 1..Len(batch) : pc'[j] \in UnderWay => batch[j].url \notin Foreign
    BY <1>0, <2>2 DEF Sourced, Goes, UnderWay
  <2>4. \A u \in Pages : links'[u] # {} => u \in queued' /\ u \notin Foreign
    BY <1>0, <1>4, <1>5, <1>8, <1>9 DEF Sourced
  <2> QED BY <1>3, <2>3, <2>4 DEF Sourced
<1>11. ASSUME ~dropped', ~mixed'
       PROVE  \E depth \in [Pages -> Nat] : Levels(depth)'
  <2>1. PICK old \in [Pages -> Nat] : Levels(old)
    <3>1. ~dropped /\ ~mixed
      BY <1>3, <1>7, <1>11, Zenon
    <3> QED BY <3>1 DEF LinksInv
  <2> DEFINE here == batch[i].depth
             risen == [u \in Pages |-> IF u \in joined THEN here + 1 ELSE old[u]]
  <2>2. PICK depth \in [Pages -> Nat] : /\ \A u \in joined : depth[u] = here + 1
                                       /\ \A u \in queued : depth[u] = old[u] /\ old[u] \in Nat
    <3>1. /\ risen \in [Pages -> Nat] /\ \A u \in joined : risen[u] = here + 1
          /\ \A u \in queued : risen[u] = old[u] /\ old[u] \in Nat
      BY <1>4, <1>5
    <3> HIDE DEF risen
    <3> QED BY <3>1
  <2>3. here = old[batch[i].url] /\ here \in Nat
    BY <1>4, <2>1 DEF Levels
  <2> HIDE DEF here
  <2>4. /\ \A k \in 1..Len(frontier) : frontier[k].url \in queued /\ frontier[k].depth \in Nat
        /\ \A j \in 1..Len(batch) : batch[j].url \in queued /\ batch[j].depth \in Nat
    BY <1>0, CrawlShape DEF Apart
  <2>5. \A k \in 1..Len(frontier') :
          \/ k \in 1..Len(frontier) /\ frontier'[k] = frontier[k]
          \/ k > Len(frontier) /\ frontier'[k].url \in joined /\ frontier'[k].depth = here + 1
    BY <1>6 DEF here
  <2>6. \A j \in 1..Len(batch) : batch[j].depth = here
    BY <2>1 DEF Levels, here
  <2>7. \A u \in queued : depth[u] <= here + 1
    BY <2>1, <2>2 DEF Levels, here
  <2>8. \A k \in 1..Len(frontier) : here <= frontier[k].depth /\ frontier[k].depth <= here + 1
    <3> SUFFICES ASSUME NEW k \in 1..Len(frontier)
                 PROVE  here <= frontier[k].depth /\ frontier[k].depth <= here + 1
      OBVIOUS
    <3>1. here <= frontier[k].depth /\ frontier[k].depth = old[frontier[k].url]
      BY <2>1 DEF Levels, here
    <3>2. old[frontier[k].url] <= here + 1
      BY <2>2, <2>4, <2>7
    <3> QED BY <3>1, <3>2
  <2>9. \A u \in queued' : depth[u] <= here + 1 /\ depth[u] \in Nat
    BY <1>5, <2>2, <2>3, <2>7
  <2>10. \A k \in 1..Len(frontier') : frontier'[k].depth = depth[frontier'[k].url]
    <3> SUFFICES ASSUME NEW k \in 1..Len(frontier')
                 PROVE  frontier'[k].depth = depth[frontier'[k].url]
      OBVIOUS
    <3>1. CASE k \in 1..Len(frontier) /\ frontier'[k] = frontier[k]
      <4>1. frontier[k].depth = old[frontier[k].url]
        BY <2>1, <3>1 DEF Levels
      <4>2. depth[frontier[k].url] = old[frontier[k].url]
        BY <2>2, <2>4, <3>1
      <4> QED BY <3>1, <4>1, <4>2
    <3>2. CASE frontier'[k].url \in joined /\ frontier'[k].depth = here + 1
      BY <2>2, <3>2, Zenon
    <3> QED BY <2>5, <3>1, <3>2
  <2>11. \A j \in 1..Len(batch) : batch[j].depth = depth[batch[j].url]
    BY <2>1, <2>2, <2>4 DEF Levels
  <2>12. \A k \in 1..Len(frontier') : here <= frontier'[k].depth /\ frontier'[k].depth <= here + 1
    <3> SUFFICES ASSUME NEW k \in 1..Len(frontier')
                 PROVE  here <= frontier'[k].depth /\ frontier'[k].depth <= here + 1
      OBVIOUS
    <3>1. CASE k \in 1..Len(frontier) /\ frontier'[k] = frontier[k]
      BY <2>8, <3>1
    <3>2. CASE frontier'[k].depth = here + 1
      BY <2>3, <3>2
    <3> QED BY <2>5, <3>1, <3>2
  <2>13. ASSUME NEW k \in 1..Len(frontier'), NEW l \in 1..Len(frontier'), k <= l
         PROVE  frontier'[k].depth <= frontier'[l].depth
    <3>1. CASE l \in 1..Len(frontier)
      <4>1. k \in 1..Len(frontier) /\ frontier'[k] = frontier[k] /\ frontier'[l] = frontier[l]
        BY <1>2, <1>4, <2>13, <3>1
      <4> QED BY <2>1, <2>13, <3>1, <4>1 DEF Levels
    <3>2. CASE l \notin 1..Len(frontier)
      BY <2>5, <2>12, <3>2
    <3> QED BY <3>1, <3>2
  <2>14. \A u \in queued', k \in 1..Len(frontier') : depth[u] <= frontier'[k].depth + 1
    <3> SUFFICES ASSUME NEW u \in queued', NEW k \in 1..Len(frontier')
                 PROVE  depth[u] <= frontier'[k].depth + 1
      OBVIOUS
    <3>1. depth[u] <= here + 1 /\ depth[u] \in Nat /\ here <= frontier'[k].depth
      BY <2>9, <2>12
    <3>2. frontier'[k].depth \in Nat
      <4>1. CASE k \in 1..Len(frontier) /\ frontier'[k] = frontier[k]
        BY <2>4, <4>1
      <4>2. CASE frontier'[k].depth = here + 1
        BY <2>3, <4>2
      <4> QED BY <2>5, <4>1, <4>2
    <3> QED BY <2>3, <3>1, <3>2
  <2>15. Seed \in queued' /\ depth[Seed] = 0
    BY <1>5, <2>1, <2>2 DEF Levels
  <2>16. ASSUME NEW u \in Pages, NEW v \in links'[u], depth[u] < MaxDepth, v \notin Foreign
         PROVE  v \in queued' /\ depth[v] <= depth[u] + 1
    <3>1. CASE u = batch[i].url
      <4>1. v \in out /\ depth[u] = here
        BY <1>4, <1>8, <2>2, <2>3, <3>1
      <4>2. v \in queued'
        BY <1>5, <1>7, <1>11, <2>16, <4>1 DEF here
      <4> QED BY <2>9, <4>1, <4>2
    <3>2. CASE u # batch[i].url
      <4>1. v \in links[u] /\ u \in queued
        BY <1>0, <1>8, <3>2 DEF Sourced
      <4>2. depth[u] = old[u]
        BY <2>2, <4>1
      <4>3. v \in queued /\ old[v] <= old[u] + 1
        <5>1. old[u] < MaxDepth
          BY <2>16, <4>2
        <5> QED BY <2>1, <2>16, <4>1, <5>1 DEF Levels
      <4> QED BY <1>5, <2>2, <4>2, <4>3
    <3> QED BY <3>1, <3>2
  <2>17. \A j, k \in 1..Len(batch) : batch[j].depth = batch[k].depth
    BY <2>6
  <2>18. \A j \in 1..Len(batch), k \in 1..Len(frontier') : batch[j].depth <= frontier'[k].depth
    BY <2>6, <2>12
  <2>19. \A u \in queued', j \in 1..Len(batch) : depth[u] <= batch[j].depth + 1
    BY <2>6, <2>9
  <2>20. Levels(depth)'
    BY <1>3, <2>10, <2>11, <2>13, <2>14, <2>15, <2>16, <2>17, <2>18, <2>19 DEF Levels
  <2> QED BY <2>2, <2>20
<1> QED BY <1>10, <1>11 DEF LinksInv

LEMMA LinksStep == CrawlInv /\ LinksInv /\ Site!Next => LinksInv'
<1> SUFFICES ASSUME CrawlInv, LinksInv, Site!Next PROVE LinksInv'
  OBVIOUS
<1>1. DOMAIN batch = 1..Len(batch)
  BY CrawlShape DEF CrawlInv
<1>2. ASSUME NEW i \in 1..Len(batch), Site!Crawl(i) PROVE LinksInv'
  BY <1>2, EntryLinks, PageLinks
<1> QED BY <1>1, <1>2, TakeLinks, CollectLinks, Zenon DEF Site!Next

LEMMA LinksStutter == LinksInv /\ UNCHANGED crawlVars => LinksInv'
<1> SUFFICES ASSUME LinksInv, UNCHANGED crawlVars PROVE LinksInv'
  OBVIOUS
<1>1. /\ frontier' = frontier /\ queued' = queued /\ batch' = batch /\ pc' = pc
      /\ links' = links /\ dropped' = dropped /\ mixed' = mixed
  BY Zenon DEF crawlVars
<1>2. Sourced'
  BY <1>1 DEF LinksInv, Sourced
<1>3. \A depth \in [Pages -> Nat] : Levels(depth) => Levels(depth)'
  BY <1>1 DEF Levels
<1> QED BY <1>1, <1>2, <1>3 DEF LinksInv

-----------------------------------------------------------------------------
(* A chain of links *)

\* Induction over the numbers, for a set instead of a predicate.
LEMMA EveryNumber ==
  ASSUME NEW S, 0 \in S, \A n \in Nat : n \in S => n + 1 \in S
  PROVE  Nat \subseteq S
<1> SUFFICES ASSUME ~(Nat \subseteq S) PROVE FALSE
  OBVIOUS
<1> DEFINE T == Nat \ S
<1>1. T \subseteq Nat /\ T # {}
  OBVIOUS
<1>2. \E x \in T : \A y \in T : ~ (<<y, x>> \in OpToRel(<, Nat))
  <2> HIDE DEF T
  <2> QED BY <1>1, NatLessThanWellFounded, WFMin
<1>3. PICK x \in T : \A y \in T : ~ (y < x)
  BY <1>1, <1>2 DEF OpToRel
<1>4. x \in Nat /\ x # 0 /\ x \notin S
  OBVIOUS
<1>5. x - 1 \in Nat /\ x - 1 < x /\ (x - 1) + 1 = x
  BY <1>4
<1>6. x - 1 \in S
  BY <1>3, <1>5
<1>7. x \in S
  BY <1>5, <1>6
<1> QED BY <1>4, <1>7

\* The sets of Within exist: they are what the walks of so many steps end at, where a
\* step follows a link or stays.
LEMMA WithinSteps ==
  ASSUME links \in [Pages -> SUBSET Pages]
  PROVE  /\ Site!Within[0] = {Seed}
         /\ \A n \in Nat :
              Site!Within[n + 1] = Site!Within[n] \cup UNION {links[u] : u \in Site!Within[n]}
<1> DEFINE Walk(n, p) == /\ p \in [0..n -> Pages] /\ p[0] = Seed
                         /\ \A k \in 0..n - 1 : p[k + 1] = p[k] \/ p[k + 1] \in links[p[k]]
           ends == [n \in Nat |-> {u \in Pages : \E p \in [0..n -> Pages] : Walk(n, p) /\ p[n] = u}]
           Onward(g, n) == IF n = 0 THEN {Seed} ELSE g[n - 1] \cup UNION {links[u] : u \in g[n - 1]}
<1>1. ends[0] = {Seed}
  <2> DEFINE p == [k \in 0..0 |-> Seed]
  <2>1. Walk(0, p) /\ p[0] = Seed /\ p \in [0..0 -> Pages]
    BY CrawlConstants
  <2>2. \A q : Walk(0, q) => q[0] = Seed
    OBVIOUS
  <2> HIDE DEF Walk, p
  <2> QED BY <2>1, <2>2, CrawlConstants
<1>2. ASSUME NEW n \in Nat
      PROVE  ends[n + 1] = ends[n] \cup UNION {links[u] : u \in ends[n]}
  <2>1. ASSUME NEW p \in [0..n + 1 -> Pages], Walk(n + 1, p)
        PROVE  p[n] \in ends[n] /\ (p[n + 1] = p[n] \/ p[n + 1] \in links[p[n]])
    <3> DEFINE q == [k \in 0..n |-> p[k]]
    <3>1. q \in [0..n -> Pages] /\ q[0] = Seed /\ q[n] = p[n] /\ n \in 0..n
      BY <2>1
    <3>2. \A k \in 0..n - 1 : k \in 0..n /\ k + 1 \in 0..n /\ k \in 0..(n + 1) - 1
      OBVIOUS
    <3>3. \A k \in 0..n - 1 : q[k + 1] = q[k] \/ q[k + 1] \in links[q[k]]
      BY <2>1, <3>2
    <3>4. p[n] \in Pages
      BY <3>1
    <3>5. n \in 0..(n + 1) - 1
      OBVIOUS
    <3> HIDE DEF q
    <3> QED BY <2>1, <3>1, <3>3, <3>4, <3>5
  <2>2. ASSUME NEW v \in ends[n], NEW u \in Pages, u = v \/ u \in links[v]
        PROVE  u \in ends[n + 1]
    <3>1. PICK q \in [0..n -> Pages] : Walk(n, q) /\ q[n] = v
      OBVIOUS
    <3> DEFINE p == [k \in 0..n + 1 |-> IF k = n + 1 THEN u ELSE q[k]]
    <3>2. \A k \in 0..n : k # n + 1 /\ k \in 0..n + 1
      OBVIOUS
    <3>3. p \in [0..n + 1 -> Pages] /\ p[n + 1] = u /\ \A k \in 0..n : p[k] = q[k]
      BY <3>2
    <3> HIDE DEF p
    <3>4. p[0] = Seed
      BY <3>1, <3>3
    <3>5. \A k \in 0..(n + 1) - 1 : k = n \/ (k \in 0..n - 1 /\ k + 1 \in 0..n /\ k \in 0..n)
      OBVIOUS
    <3>6. \A k \in 0..(n + 1) - 1 : p[k + 1] = p[k] \/ p[k + 1] \in links[p[k]]
      BY <2>2, <3>1, <3>3, <3>5
    <3>7. Walk(n + 1, p)
      BY <3>3, <3>4, <3>6
    <3>8. \E w \in [0..n + 1 -> Pages] : Walk(n + 1, w) /\ w[n + 1] = u
      BY <3>3, <3>7, Zenon
    <3>9. n + 1 \in Nat
      OBVIOUS
    <3> HIDE DEF Walk
    <3> QED BY <3>8, <3>9, <2>2
  <2>3. \A u \in ends[n + 1] : \E v \in ends[n] : u = v \/ u \in links[v]
    <3> SUFFICES ASSUME NEW u \in ends[n + 1] PROVE \E v \in ends[n] : u = v \/ u \in links[v]
      OBVIOUS
    <3>1. PICK p \in [0..n + 1 -> Pages] : Walk(n + 1, p) /\ p[n + 1] = u
      OBVIOUS
    <3>2. p[n] \in ends[n] /\ (p[n + 1] = p[n] \/ p[n + 1] \in links[p[n]])
      BY <2>1, <3>1, Zenon
    <3> HIDE DEF Walk, ends
    <3> QED BY <3>1, <3>2, Zenon
  <2>4. ends[n] \subseteq Pages /\ ends[n + 1] \subseteq Pages
    OBVIOUS
  <2> HIDE DEF ends, Walk
  <2>5. \A v \in ends[n] : links[v] \subseteq Pages
    BY <2>4
  <2> QED BY <2>2, <2>3, <2>4, <2>5
<1>3. ends = [n \in Nat |-> Onward(ends, n)]
  <2>1. ASSUME NEW n \in Nat PROVE ends[n] = Onward(ends, n)
    <3>1. CASE n = 0
      BY <1>1, <3>1
    <3>2. CASE n # 0
      <4>1. n - 1 \in Nat /\ (n - 1) + 1 = n
        BY <3>2
      <4> HIDE DEF ends
      <4>2. PICK m \in Nat : m = n - 1 /\ m + 1 = n
        BY <4>1
      <4>3. ends[m + 1] = ends[m] \cup UNION {links[u] : u \in ends[m]}
        BY <1>2
      <4> QED BY <3>2, <4>2, <4>3
    <3> QED BY <3>1, <3>2
  <2>2. ends = [n \in Nat |-> ends[n]]
    OBVIOUS
  <2> HIDE DEF ends, Onward
  <2> QED BY <2>1, <2>2
<1>4. Site!Within = [n \in Nat |-> Onward(Site!Within, n)]
  <2>1. Site!Within = CHOOSE g : g = [n \in Nat |-> Onward(g, n)]
    BY DEF Site!Within
  <2>2. \E g : g = [n \in Nat |-> Onward(g, n)]
    BY <1>3
  <2> HIDE DEF Onward
  <2> QED BY <2>1, <2>2
<1>5. Site!Within[0] = {Seed}
  BY <1>4
<1>6. ASSUME NEW n \in Nat
      PROVE  Site!Within[n + 1] = Site!Within[n] \cup UNION {links[u] : u \in Site!Within[n]}
  <2>1. n + 1 \in Nat /\ n + 1 # 0 /\ (n + 1) - 1 = n
    OBVIOUS
  <2>2. Site!Within[n + 1] = Onward(Site!Within, n + 1)
    BY <1>4, <2>1
  <2> QED BY <2>1, <2>2
<1> QED BY <1>5, <1>6

LEMMA LinksMiss == CrawlInv /\ LinksInv => NothingMissed
<1> SUFFICES ASSUME CrawlInv, LinksInv, ~dropped, ~mixed
             PROVE  \A u \in Site!Within[MaxDepth] : Site!InScope(u) => u \in queued
  BY DEF NothingMissed, Site!NothingMissed
<1>1. links \in [Pages -> SUBSET Pages] /\ queued \subseteq Pages /\ MaxDepth \in Nat /\ Seed \in Pages
  BY CrawlConstants DEF CrawlInv, CrawlTyped
<1>2. PICK depth \in [Pages -> Nat] : Levels(depth)
  BY DEF LinksInv
<1> DEFINE S == {n \in Nat : Site!Within[n] \subseteq Pages /\
                   (n <= MaxDepth => \A u \in Site!Within[n] : u \notin Foreign => u \in queued /\ depth[u] <= n)}
<1>3. 0 \in S
  <2>1. Seed \in queued /\ depth[Seed] = 0
    BY <1>2 DEF Levels
  <2>2. Site!Within[0] = {Seed}
    BY <1>1, WithinSteps
  <2> QED BY <1>1, <2>1, <2>2
<1>4. ASSUME NEW n \in Nat, n \in S PROVE n + 1 \in S
  <2>1. Site!Within[n + 1] = Site!Within[n] \cup UNION {links[u] : u \in Site!Within[n]}
    BY <1>1, WithinSteps
  <2>2. Site!Within[n] \subseteq Pages
    BY <1>4
  <2>3. Site!Within[n + 1] \subseteq Pages
    BY <1>1, <2>1, <2>2
  <2>4. ASSUME n + 1 <= MaxDepth, NEW v \in Site!Within[n + 1], v \notin Foreign
        PROVE  v \in queued /\ depth[v] <= n + 1
    <3>1. n <= MaxDepth /\ n < MaxDepth
      BY <1>1, <2>4
    <3>2. \A u \in Site!Within[n] : u \notin Foreign => u \in queued /\ depth[u] <= n
      BY <1>4, <3>1
    <3>3. CASE v \in Site!Within[n]
      BY <1>1, <1>2, <2>4, <3>2, <3>3
    <3>4. ASSUME NEW u \in Site!Within[n], v \in links[u] PROVE v \in queued /\ depth[v] <= n + 1
      <4>1. u \in Pages /\ u \notin Foreign
        BY <2>2, <3>4 DEF LinksInv, Sourced
      <4>2. depth[u] <= n /\ depth[u] \in Nat /\ depth[u] < MaxDepth
        BY <1>1, <3>1, <3>2, <4>1
      <4>3. v \in queued /\ depth[v] <= depth[u] + 1
        BY <1>2, <2>4, <3>4, <4>1, <4>2 DEF Levels
      <4> QED BY <1>1, <4>2, <4>3
    <3> QED BY <2>1, <3>3, <3>4
  <2> QED BY <2>3, <2>4
<1>5. MaxDepth \in S
  <2> HIDE DEF S
  <2> QED BY <1>1, <1>3, <1>4, EveryNumber
<1> QED BY <1>5 DEF Site!InScope

LEMMA SourcingLinks == SourcingSpec => []LinksInv
<1>1. SourcingInit => LinksInv
  BY LinksBegin DEF SourcingInit
<1>2. CrawlInv /\ LinksInv /\ [SourcingNext]_sourcingVars => LinksInv'
  BY LinksStep, LinksStutter, Zenon DEF SourcingNext, sourcingVars
<1> QED BY <1>1, <1>2, SourcingCrawl, PTL DEF SourcingSpec

\* For any site and any bounds: a crawl that ends short of its limits, its batches of one
\* depth each and no link left out for want of room, has queued every page in scope within
\* its depth (crawlSite, crawlPage).
THEOREM MissesNothing == SourcingSpec => []NothingMissed
  BY SourcingCrawl, SourcingLinks, LinksMiss, PTL

-----------------------------------------------------------------------------
(* Searches and their verdicts *)

ItemRow == [id : Nat, vendor : Vendors]
Verdict == [by : Nat, line : Lines \cup {None}, type : {"sourcing", "compliance"},
            item : ItemRow, status : {"open", "dismissed"}]

Asking == {"judge", "replace", "lock", "insert"}
Replacing == {"lock", "insert"}
SearchRecord == [pc : Asking, by : Nat, scope : Matches!Scope, candidates : SUBSET ItemRow,
                 failed : SUBSET ItemRow, doomed : SUBSET Verdict]

\* Verdicts that have a line have one that exists.
MatchesTyped ==
  /\ items \subseteq ItemRow /\ lines \subseteq Lines /\ matches \subseteq Verdict
  /\ \A m \in matches : m.line \in lines \cup {None}
  /\ inserted \in Nat /\ begun \in Nat
  /\ search \in [Searches -> SearchRecord \cup {Matches!Idle}]

\* What a search asked about is of its vendor; what it is about to delete is what it may
\* replace, and all of that, unless another search of the line was replacing too.
Doomed ==
  \A s \in Searches : LET q == search[s] IN
    /\ q.pc \in Asking => \A i \in q.candidates : q.scope.vendor \in {None, i.vendor}
    /\ q.pc \in Replacing => \A m \in q.doomed : Matches!InScope(m, q)
    /\ q.pc \in Replacing /\ q.scope.line \notin crossed =>
         \A m \in matches : Matches!InScope(m, q) => m \in q.doomed

\* Searches that replace verdicts of one line at once are remembered.
Crossing ==
  \A s, t \in Searches :
    s # t /\ search[s].pc \in Replacing /\ search[t].pc \in Replacing
      /\ search[s].scope.line = search[t].scope.line => search[s].scope.line \in crossed

MatchesInv == MatchesTyped /\ Doomed /\ Crossing /\ OneVerdict

LEMMA IdleSearch == Matches!Idle.pc = "idle"
  BY DEF Matches!Idle

LEMMA RunningSearch ==
  ASSUME MatchesTyped, NEW s \in Searches, search[s].pc # "idle"
  PROVE  /\ search[s] \in SearchRecord /\ search[s].pc \in Asking /\ search[s].scope \in Matches!Scope
         /\ search[s].scope.line \in Lines /\ search[s].scope.line # None
         /\ search[s].candidates \subseteq ItemRow /\ search[s].failed \subseteq ItemRow
         /\ search[s].doomed \subseteq Verdict /\ search[s].by \in Nat
<1>1. search[s] \in SearchRecord
  BY IdleSearch DEF MatchesTyped
<1>2. None \notin Lines
  BY SourcingConstants DEF Matches!ConstantsTyped
<1> QED BY <1>1, <1>2 DEF SearchRecord, Matches!Scope

\* A step of one search that leaves the verdicts and the lines alone and does not begin to
\* replace.
LEMMA SearchMoves ==
  ASSUME MatchesInv, NEW s \in Searches, NEW q, q \in SearchRecord \cup {Matches!Idle},
         search' = [search EXCEPT ![s] = q],
         UNCHANGED <<items, lines, matches, inserted>>, begun' \in Nat, crossed' = crossed,
         q.pc \in Asking => \A i \in q.candidates : q.scope.vendor \in {None, i.vendor},
         q.pc \in Replacing =>
           /\ search[s].pc \in Replacing
           /\ q.scope = search[s].scope /\ q.failed = search[s].failed
           /\ q.doomed = search[s].doomed \cap matches
  PROVE  MatchesInv'
<1>1. search'[s] = q /\ \A t \in Searches : t # s => search'[t] = search[t]
  BY DEF MatchesInv, MatchesTyped
<1>2. /\ items' = items /\ lines' = lines /\ matches' = matches /\ inserted' = inserted
      /\ crossed' = crossed
  OBVIOUS
<1>3. MatchesTyped'
  BY <1>2, Zenon DEF MatchesInv, MatchesTyped
<1>4. Doomed'
  <2> SUFFICES ASSUME NEW t \in Searches
               PROVE LET r == search'[t] IN
                     /\ r.pc \in Asking => \A i \in r.candidates : r.scope.vendor \in {None, i.vendor}
                     /\ r.pc \in Replacing => \A m \in r.doomed : Matches!InScope(m, r)
                     /\ r.pc \in Replacing /\ r.scope.line \notin crossed =>
                          \A m \in matches : Matches!InScope(m, r) => m \in r.doomed
    BY <1>2 DEF Doomed, Matches!InScope, Matches!MatchType
  <2>1. CASE t # s
    BY <1>1, <2>1 DEF MatchesInv, Doomed
  <2>2. CASE t = s /\ q.pc \in Replacing
    <3>1. \A m : Matches!InScope(m, q) <=> Matches!InScope(m, search[s])
      BY <2>2 DEF Matches!InScope, Matches!MatchType
    <3> QED BY <1>1, <2>2, <3>1 DEF MatchesInv, Doomed
  <2>3. CASE t = s /\ q.pc \notin Replacing
    BY <1>1, <2>3
  <2> QED BY <2>1, <2>2, <2>3
<1>5. Crossing'
  BY <1>1, <1>2 DEF MatchesInv, Crossing
<1>6. OneVerdict'
  BY <1>2 DEF MatchesInv, OneVerdict, Matches!OneVerdict, Matches!Alike
<1> QED BY <1>3, <1>4, <1>5, <1>6 DEF MatchesInv

LEMMA SearchSteps ==
  ASSUME MatchesInv, NEW s \in Searches,
         \/ Matches!Begin(s) \/ Matches!Judge(s) \/ Matches!GiveUp(s) \/ Matches!Lock(s)
         \/ Matches!Rollback(s)
  PROVE  MatchesInv'
<1>0. MatchesTyped /\ Doomed
  BY DEF MatchesInv
<1>1. CASE Matches!GiveUp(s) \/ Matches!Rollback(s)
  <2>1. /\ search' = [search EXCEPT ![s] = Matches!Idle] /\ crossed' = crossed /\ begun' = begun
        /\ UNCHANGED <<items, lines, matches, inserted>>
    BY <1>1 DEF Matches!GiveUp, Matches!Rollback
  <2>2. begun' \in Nat /\ Matches!Idle.pc \notin Asking /\ Matches!Idle.pc \notin Replacing
    BY <1>0, <2>1, IdleSearch DEF MatchesTyped, Asking, Replacing
  <2> QED BY <2>1, <2>2, SearchMoves
<1>2. CASE Matches!Begin(s)
  <2>1. PICK scope \in Matches!Scope :
          /\ begun' = begun + 1 /\ crossed' = crossed
          /\ search' = [search EXCEPT ![s] =
               [pc |-> "judge", by |-> begun', scope |-> scope, candidates |-> Matches!Candidates(scope),
                failed |-> {}, doomed |-> {}]]
          /\ UNCHANGED <<items, lines, matches, inserted>>
    BY <1>2, Zenon DEF Matches!Begin
  <2> DEFINE q == [pc |-> "judge", by |-> begun', scope |-> scope,
                   candidates |-> Matches!Candidates(scope), failed |-> {}, doomed |-> {}]
  <2>2. /\ Matches!Candidates(scope) \subseteq ItemRow
        /\ \A i \in Matches!Candidates(scope) : scope.vendor \in {None, i.vendor}
    BY <1>0 DEF Matches!Candidates, MatchesTyped
  <2>3. begun' \in Nat
    BY <1>0, <2>1 DEF MatchesTyped
  <2>4. q.pc = "judge" /\ q.scope = scope /\ q.candidates = Matches!Candidates(scope)
    OBVIOUS
  <2>5. q \in SearchRecord
    BY <2>2, <2>3 DEF SearchRecord, Asking
  <2> HIDE DEF q
  <2>6. search' = [search EXCEPT ![s] = q]
    BY <2>1 DEF q
  <2>7. q.pc \notin Replacing /\ \A i \in q.candidates : q.scope.vendor \in {None, i.vendor}
    BY <2>2, <2>4 DEF Replacing
  <2> QED BY <2>1, <2>3, <2>5, <2>6, <2>7, SearchMoves
<1>3. CASE Matches!Judge(s)
  <2>1. PICK failed \in SUBSET search[s].candidates :
          /\ search[s].pc = "judge" /\ begun' = begun /\ crossed' = crossed
          /\ search' = [search EXCEPT ![s].pc = "replace", ![s].failed = failed]
          /\ UNCHANGED <<items, lines, matches, inserted>>
    BY <1>3, Zenon DEF Matches!Judge
  <2> DEFINE q == [search[s] EXCEPT !.pc = "replace", !.failed = failed]
  <2>2. search[s] \in SearchRecord /\ search[s].candidates \subseteq ItemRow
    BY <1>0, <2>1, RunningSearch
  <2>3. q \in SearchRecord /\ q.pc = "replace" /\ q.scope = search[s].scope /\ q.candidates = search[s].candidates
    BY <2>2 DEF SearchRecord, Asking
  <2>4. search' = [search EXCEPT ![s] = q]
    BY <1>0, <2>1 DEF MatchesTyped
  <2> HIDE DEF q
  <2>5. q.pc \notin Replacing /\ search[s].pc \in Asking
    BY <2>1, <2>3 DEF Replacing, Asking
  <2>6. \A i \in q.candidates : q.scope.vendor \in {None, i.vendor}
    BY <1>0, <2>3, <2>5 DEF Doomed
  <2>7. begun' \in Nat
    BY <1>0, <2>1 DEF MatchesTyped
  <2> QED BY <2>1, <2>3, <2>4, <2>5, <2>6, <2>7, SearchMoves
<1>4. CASE Matches!Lock(s)
  <2>1. /\ search[s].pc = "lock" /\ begun' = begun /\ crossed' = crossed
        /\ search' = [search EXCEPT ![s].pc = "insert", ![s].doomed = @ \cap matches]
        /\ UNCHANGED <<items, lines, matches, inserted>>
    BY <1>4, Zenon DEF Matches!Lock
  <2> DEFINE q == [search[s] EXCEPT !.pc = "insert", !.doomed = search[s].doomed \cap matches]
  <2>2. search[s] \in SearchRecord
    BY <1>0, <2>1, RunningSearch
  <2>3. q \in SearchRecord
    BY <2>2 DEF SearchRecord, Asking
  <2>4. /\ q.pc = "insert" /\ q.scope = search[s].scope /\ q.candidates = search[s].candidates
        /\ q.failed = search[s].failed /\ q.doomed = search[s].doomed \cap matches
    BY <2>2 DEF SearchRecord
  <2>5. search' = [search EXCEPT ![s] = q]
    BY <1>0, <2>1 DEF MatchesTyped
  <2> HIDE DEF q
  <2>6. search[s].pc \in Replacing /\ search[s].pc \in Asking
    BY <2>1 DEF Replacing, Asking
  <2>7. \A i \in q.candidates : q.scope.vendor \in {None, i.vendor}
    BY <1>0, <2>4, <2>6 DEF Doomed
  <2>8. begun' \in Nat
    BY <1>0, <2>1 DEF MatchesTyped
  <2> QED BY <2>1, <2>3, <2>4, <2>5, <2>6, <2>7, <2>8, SearchMoves
<1> QED BY <1>1, <1>2, <1>3, <1>4

\* The delete finds its rows.
LEMMA FindSafe ==
  ASSUME MatchesInv, NEW s \in Searches, Matches!Find(s)
  PROVE  MatchesInv'
<1>0. MatchesTyped /\ Doomed /\ Crossing /\ OneVerdict
  BY DEF MatchesInv
<1> DEFINE q == [search[s] EXCEPT !.pc = "lock", !.doomed = {m \in matches : Matches!InScope(m, search[s])}]
<1>1. /\ search[s].pc = "replace"
      /\ search' = [search EXCEPT ![s].pc = "lock", ![s].doomed = {m \in matches : Matches!InScope(m, search[s])}]
      /\ crossed' = crossed \cup {search[s].scope.line :
                      t \in {t \in Searches \ {s} : search[t].pc \in {"lock", "insert"}
                                                    /\ search[t].scope.line = search[s].scope.line}}
      /\ items' = items /\ lines' = lines /\ matches' = matches /\ inserted' = inserted /\ begun' = begun
  BY Zenon DEF Matches!Find
<1>2. search[s] \in SearchRecord /\ search[s].pc \in Asking
  BY <1>0, <1>1, RunningSearch
<1>3. /\ q \in SearchRecord /\ q.pc = "lock" /\ q.scope = search[s].scope
      /\ q.candidates = search[s].candidates /\ q.failed = search[s].failed
      /\ q.doomed = {m \in matches : Matches!InScope(m, search[s])}
  BY <1>0, <1>2 DEF SearchRecord, Asking, MatchesTyped
<1>4. search' = [search EXCEPT ![s] = q]
  BY <1>0, <1>1 DEF MatchesTyped
<1> HIDE DEF q
<1>5. search'[s] = q /\ \A t \in Searches : t # s => search'[t] = search[t]
  BY <1>0, <1>4 DEF MatchesTyped
<1>6. crossed \subseteq crossed'
  BY <1>1
<1>7. MatchesTyped'
  BY <1>0, <1>1, <1>3, <1>4 DEF MatchesTyped
<1>8. \A m : Matches!InScope(m, q) <=> Matches!InScope(m, search[s])
  BY <1>3 DEF Matches!InScope, Matches!MatchType
<1>9. Doomed'
  <2> SUFFICES ASSUME NEW t \in Searches
               PROVE LET r == search'[t] IN
                     /\ r.pc \in Asking => \A i \in r.candidates : r.scope.vendor \in {None, i.vendor}
                     /\ r.pc \in Replacing => \A m \in r.doomed : Matches!InScope(m, r)
                     /\ r.pc \in Replacing /\ r.scope.line \notin crossed' =>
                          \A m \in matches : Matches!InScope(m, r) => m \in r.doomed
    BY <1>1 DEF Doomed, Matches!InScope, Matches!MatchType
  <2>1. CASE t # s
    BY <1>0, <1>5, <1>6, <2>1 DEF Doomed
  <2>2. CASE t = s
    BY <1>0, <1>2, <1>3, <1>5, <1>8, <2>2 DEF Doomed
  <2> QED BY <2>1, <2>2
<1>10. Crossing'
  <2> SUFFICES ASSUME NEW t \in Searches, NEW u \in Searches, t # u,
                      search'[t].pc \in Replacing, search'[u].pc \in Replacing,
                      search'[t].scope.line = search'[u].scope.line
               PROVE  search'[t].scope.line \in crossed'
    BY DEF Crossing
  <2>1. CASE t # s /\ u # s
    BY <1>0, <1>5, <1>6, <2>1 DEF Crossing
  <2>2. CASE t = s \/ u = s
    <3>1. PICK v \in Searches \ {s} : search[v].pc \in Replacing /\ search[v].scope.line = search[s].scope.line
      BY <1>3, <1>5, <2>2
    <3>2. search[s].scope.line \in crossed'
      BY <1>1, <3>1 DEF Replacing
    <3> QED BY <1>3, <1>5, <2>2, <3>2
  <2> QED BY <2>1, <2>2
<1>11. OneVerdict'
  BY <1>0, <1>1, <1>6 DEF OneVerdict, Matches!OneVerdict, Matches!Alike
<1> QED BY <1>7, <1>9, <1>10, <1>11 DEF MatchesInv

\* The new verdicts replace those that were found.
LEMMA InsertSafe ==
  ASSUME MatchesInv, NEW s \in Searches, Matches!Insert(s)
  PROVE  MatchesInv'
<1>0. MatchesTyped /\ Doomed /\ Crossing /\ OneVerdict
  BY DEF MatchesInv
<1> DEFINE q == search[s]
           Fresh == Matches!New(q)
<1>1. /\ q.pc = "insert" /\ q.scope.line \in lines /\ q.candidates \ q.failed \subseteq items
      /\ matches' = (matches \ q.doomed) \cup Fresh
      /\ search' = [search EXCEPT ![s] = Matches!Idle]
      /\ items' = items /\ lines' = lines /\ inserted' = inserted /\ begun' = begun
      /\ crossed' = crossed
  BY Zenon DEF Matches!Insert
<1>2. /\ q \in SearchRecord /\ q.scope \in Matches!Scope /\ q.scope.line \in Lines
      /\ q.scope.line # None /\ q.candidates \subseteq ItemRow /\ q.by \in Nat
  BY <1>0, <1>1, RunningSearch
<1>3. Matches!MatchType(q.scope) \in {"sourcing", "compliance"}
  BY DEF Matches!MatchType
<1>4. ASSUME NEW n \in Fresh
      PROVE  /\ n \in Verdict /\ n.line = q.scope.line /\ n.type = Matches!MatchType(q.scope)
             /\ n.item \in q.candidates \ q.failed /\ n.status = "open"
             /\ n = [by |-> q.by, line |-> q.scope.line, type |-> Matches!MatchType(q.scope),
                     item |-> n.item, status |-> "open"]
  <2>1. PICK i \in q.candidates \ q.failed :
          n = [by |-> q.by, line |-> q.scope.line, type |-> Matches!MatchType(q.scope),
               item |-> i, status |-> "open"]
    BY DEF Matches!New
  <2>2. n.item = i /\ n.line = q.scope.line /\ n.type = Matches!MatchType(q.scope) /\ n.status = "open"
    BY <2>1
  <2>3. n \in Verdict
    BY <1>2, <1>3, <2>1 DEF Verdict
  <2> QED BY <2>1, <2>2, <2>3
<1>5. q.pc \in Asking /\ q.pc \in Replacing
  BY <1>1 DEF Asking, Replacing
<1> HIDE DEF q, Fresh
<1>6. search'[s] = Matches!Idle /\ \A t \in Searches : t # s => search'[t] = search[t]
  BY <1>0, <1>1 DEF MatchesTyped
<1>7. Matches!Idle.pc \notin Asking /\ Matches!Idle.pc \notin Replacing
  BY IdleSearch DEF Asking, Replacing
<1>8. MatchesTyped'
  <2>1. matches' \subseteq Verdict /\ \A m \in matches' : m.line \in lines \cup {None}
    BY <1>0, <1>1, <1>4 DEF MatchesTyped
  <2> QED BY <1>0, <1>1, <2>1 DEF MatchesTyped
<1>9. Doomed'
  <2> SUFFICES ASSUME NEW t \in Searches, t # s
               PROVE LET r == search[t] IN
                     /\ r.pc \in Asking => \A i \in r.candidates : r.scope.vendor \in {None, i.vendor}
                     /\ r.pc \in Replacing => \A m \in r.doomed : Matches!InScope(m, r)
                     /\ r.pc \in Replacing /\ r.scope.line \notin crossed =>
                          \A m \in matches' : Matches!InScope(m, r) => m \in r.doomed
    BY <1>1, <1>6, <1>7 DEF Doomed, Matches!InScope, Matches!MatchType
  <2>1. ASSUME search[t].pc \in Replacing, search[t].scope.line \notin crossed,
               NEW m \in matches', Matches!InScope(m, search[t])
        PROVE  m \in search[t].doomed
    <3>1. CASE m \in matches
      BY <1>0, <2>1, <3>1 DEF Doomed
    <3>2. CASE m \in Fresh
      <4>1. search[t].scope.line = q.scope.line
        BY <1>4, <2>1, <3>2 DEF Matches!InScope
      <4>2. search[t].scope.line \in crossed
        BY <1>0, <1>5, <2>1, <4>1 DEF Crossing, q
      <4> QED BY <2>1, <4>2
    <3> QED BY <1>1, <2>1, <3>1, <3>2
  <2> QED BY <1>0, <2>1 DEF Doomed
<1>10. Crossing'
  BY <1>0, <1>1, <1>6, <1>7 DEF Crossing
<1>11. OneVerdict'
  <2> SUFFICES ASSUME NEW m \in matches', NEW n \in matches', m # n, m.item = n.item,
                      m.type = n.type, m.line = n.line, m.line \notin crossed \cup {None},
                      m.status = "open", n.status = "open"
               PROVE  FALSE
    BY <1>1 DEF OneVerdict, Matches!OneVerdict, Matches!Alike
  <2>1. ASSUME NEW x \in matches \ q.doomed, NEW y \in Fresh, x.item = y.item, x.type = y.type,
               x.line = y.line, x.line \notin crossed, x.status = "open"
        PROVE  FALSE
    <3>1. y.item \in q.candidates \ q.failed /\ y.line = q.scope.line /\ y.type = Matches!MatchType(q.scope)
      BY <1>4
    <3>2. q.scope.vendor \in {None, x.item.vendor}
      BY <1>0, <1>5, <2>1, <3>1 DEF Doomed, q
    <3>3. Matches!InScope(x, q)
      BY <2>1, <3>1, <3>2 DEF Matches!InScope
    <3> QED BY <1>0, <1>5, <2>1, <3>1, <3>3 DEF Doomed, q
  <2>2. CASE m \in Fresh /\ n \in Fresh
    BY <1>4, <2>2
  <2>3. CASE m \in matches \ q.doomed /\ n \in matches \ q.doomed
    BY <1>0, <2>3 DEF OneVerdict, Matches!OneVerdict, Matches!Alike
  <2>4. CASE m \in matches \ q.doomed /\ n \in Fresh
    BY <2>1, <2>4
  <2>5. CASE n \in matches \ q.doomed /\ m \in Fresh
    BY <2>1, <2>5
  <2> QED BY <1>1, <2>2, <2>3, <2>4, <2>5
<1> QED BY <1>8, <1>9, <1>10, <1>11 DEF MatchesInv

\* Of the other steps, none adds an open verdict with a line.
LEMMA OtherSteps ==
  ASSUME MatchesInv,
         Matches!Dismiss \/ Matches!DeleteItems \/ Matches!InsertItem \/ Matches!DeleteLine
         \/ Matches!EditLine
  PROVE  MatchesInv'
<1>0. MatchesTyped /\ Doomed /\ Crossing /\ OneVerdict
  BY DEF MatchesInv
<1>1. search' = search /\ begun' = begun /\ crossed' = crossed
  BY DEF Matches!Dismiss, Matches!DeleteItems, Matches!InsertItem, Matches!DeleteLine,
         Matches!EditLine
<1>2. \A m \in matches' : m \in matches \/ m.status = "dismissed" \/ m.line = None
  <2>1. CASE Matches!Dismiss
    BY <1>0, <2>1 DEF Matches!Dismiss, MatchesTyped, Verdict
  <2>2. CASE Matches!DeleteItems
    BY <2>2 DEF Matches!DeleteItems
  <2>3. CASE Matches!InsertItem
    BY <2>3 DEF Matches!InsertItem
  <2>4. CASE Matches!DeleteLine
    <3>1. PICK l \in lines : matches' = {[m EXCEPT !.line = IF @ = l THEN None ELSE @] : m \in matches}
      BY <2>4, Zenon DEF Matches!DeleteLine
    <3>2. ASSUME NEW m \in matches
          PROVE  LET n == [m EXCEPT !.line = IF @ = l THEN None ELSE @] IN n = m \/ n.line = None
      BY <1>0 DEF MatchesTyped, Verdict
    <3> QED BY <3>1, <3>2
  <2>5. CASE Matches!EditLine
    BY <2>5 DEF Matches!EditLine
  <2> QED BY <2>1, <2>2, <2>3, <2>4, <2>5
<1>3. MatchesTyped'
  <2>1. CASE Matches!Dismiss
    <3>1. PICK m \in matches : matches' = (matches \ {m}) \cup {[m EXCEPT !.status = "dismissed"]}
      BY <2>1, Zenon DEF Matches!Dismiss
    <3>2. [m EXCEPT !.status = "dismissed"] \in Verdict /\ [m EXCEPT !.status = "dismissed"].line = m.line
      BY <1>0 DEF MatchesTyped, Verdict
    <3>3. matches' \subseteq Verdict /\ \A n \in matches' : n.line \in lines \cup {None}
      BY <1>0, <3>1, <3>2 DEF MatchesTyped
    <3>4. items' = items /\ lines' = lines /\ inserted' = inserted
      BY <2>1 DEF Matches!Dismiss
    <3> QED BY <1>0, <1>1, <3>3, <3>4 DEF MatchesTyped
  <2>2. CASE Matches!DeleteItems
    BY <1>0, <1>1, <2>2 DEF Matches!DeleteItems, MatchesTyped
  <2>3. CASE Matches!InsertItem
    <3>1. inserted' = inserted + 1 /\ items' = items \cup {[id |-> inserted', vendor |-> Parsed]}
          /\ lines' = lines /\ matches' = matches
      BY <2>3, Zenon DEF Matches!InsertItem
    <3>2. inserted' \in Nat
      BY <1>0, <3>1 DEF MatchesTyped
    <3>3. [id |-> inserted', vendor |-> Parsed] \in ItemRow
      BY <3>2, SourcingConstants DEF ItemRow, Matches!ConstantsTyped
    <3> QED BY <1>0, <1>1, <3>1, <3>2, <3>3 DEF MatchesTyped
  <2>4. CASE Matches!DeleteLine
    <3>1. PICK l \in lines : /\ lines' = lines \ {l}
                             /\ matches' = {[m EXCEPT !.line = IF @ = l THEN None ELSE @] : m \in matches}
                             /\ items' = items /\ inserted' = inserted
      BY <2>4, Zenon DEF Matches!DeleteLine
    <3>2. ASSUME NEW m \in matches
          PROVE  LET n == [m EXCEPT !.line = IF @ = l THEN None ELSE @] IN
                 n \in Verdict /\ n.line \in lines' \cup {None}
      BY <1>0, <3>1 DEF MatchesTyped, Verdict
    <3> QED BY <1>0, <1>1, <3>1, <3>2 DEF MatchesTyped
  <2>5. CASE Matches!EditLine
    BY <1>0, <1>1, <2>5 DEF Matches!EditLine, MatchesTyped
  <2> QED BY <2>1, <2>2, <2>3, <2>4, <2>5
<1>4. ASSUME NEW t \in Searches, search[t].pc \in Replacing, NEW m, Matches!InScope(m, search[t])
      PROVE  m.status = "open" /\ m.line # None
  <2>1. search[t].scope.line # None
    BY <1>0, <1>4, IdleSearch, RunningSearch DEF Replacing
  <2> QED BY <1>4, <2>1 DEF Matches!InScope
<1>5. Doomed'
  <2>1. \A t \in Searches : search[t].pc \in Replacing /\ search[t].scope.line \notin crossed =>
          \A m \in matches' : Matches!InScope(m, search[t]) => m \in search[t].doomed
    BY <1>0, <1>2, <1>4 DEF Doomed
  <2> QED BY <1>0, <1>1, <2>1 DEF Doomed, Matches!InScope, Matches!MatchType
<1>6. Crossing'
  BY <1>0, <1>1 DEF Crossing
<1>7. OneVerdict'
  BY <1>0, <1>1, <1>2 DEF OneVerdict, Matches!OneVerdict, Matches!Alike
<1> QED BY <1>3, <1>5, <1>6, <1>7 DEF MatchesInv

LEMMA MatchesStep == MatchesInv /\ Matches!Next => MatchesInv'
  BY SearchSteps, FindSafe, InsertSafe, OtherSteps, Zenon DEF Matches!Next, Matches!SearchStep

LEMMA MatchesInit == Matches!Init => MatchesInv
<1> SUFFICES ASSUME Matches!Init PROVE MatchesInv
  OBVIOUS
<1>1. \A s \in Searches : search[s] = Matches!Idle
  BY DEF Matches!Init
<1>2. \A s \in Searches : search[s].pc \notin Asking /\ search[s].pc \notin Replacing
  BY <1>1, IdleSearch DEF Asking, Replacing
<1>3. MatchesTyped
  <2>1. items \subseteq ItemRow
    BY DEF Matches!Init, ItemRow
  <2> QED BY <2>1 DEF Matches!Init, MatchesTyped
<1>4. OneVerdict
  BY DEF Matches!Init, OneVerdict, Matches!OneVerdict
<1> QED BY <1>2, <1>3, <1>4 DEF MatchesInv, Doomed, Crossing

LEMMA MatchesStutter == MatchesInv /\ UNCHANGED matchVars => MatchesInv'
<1> SUFFICES ASSUME MatchesInv, UNCHANGED matchVars PROVE MatchesInv'
  OBVIOUS
<1>1. /\ items' = items /\ lines' = lines /\ matches' = matches /\ search' = search
      /\ inserted' = inserted /\ begun' = begun /\ crossed' = crossed
  BY Zenon DEF matchVars
<1> QED BY <1>1 DEF MatchesInv, MatchesTyped, Doomed, Crossing, OneVerdict, Matches!OneVerdict,
     Matches!Alike, Matches!InScope, Matches!MatchType

\* What a step leaves of a verdict whose item it leaves: the verdict itself, except that a
\* user may dismiss it, that it may lose its line with the line, and that a search replaces
\* those that it found.
LEMMA VerdictsAfter ==
  ASSUME MatchesInv, Matches!Next, NEW m \in matches, m.item \in items'
  PROVE  \/ \E n \in matches' : Matches!Still(m, n) /\ (m.status = "dismissed" => n.status = "dismissed")
         \/ \E s \in Searches : Matches!Insert(s) /\ m \in search[s].doomed
<1>0. MatchesTyped /\ m \in Verdict /\ m.line \in lines \cup {None} /\ None \notin Lines
  BY SourcingConstants DEF MatchesInv, MatchesTyped, Matches!ConstantsTyped
<1>1. ASSUME lines' = lines, m \in matches' PROVE Matches!Still(m, m)
  BY <1>0, <1>1 DEF Matches!Still, Matches!Alike
<1>2. CASE \E s \in Searches : Matches!Begin(s) \/ Matches!Judge(s) \/ Matches!GiveUp(s)
                               \/ Matches!Find(s) \/ Matches!Lock(s) \/ Matches!Rollback(s)
  <2>1. lines' = lines /\ matches' = matches
    BY <1>2 DEF Matches!Begin, Matches!Judge, Matches!GiveUp, Matches!Find, Matches!Lock, Matches!Rollback
  <2> QED BY <1>1, <2>1
<1>3. ASSUME NEW s \in Searches, Matches!Insert(s), m \notin search[s].doomed
      PROVE  m \in matches' /\ lines' = lines
  BY <1>3 DEF Matches!Insert
<1>4. CASE Matches!Dismiss
  <2>1. PICK d \in matches : /\ d.status = "open" /\ lines' = lines
                             /\ matches' = (matches \ {d}) \cup {[d EXCEPT !.status = "dismissed"]}
    BY <1>4, Zenon DEF Matches!Dismiss
  <2>2. CASE m # d
    BY <1>1, <2>1, <2>2
  <2>3. CASE m = d
    <3> DEFINE n == [d EXCEPT !.status = "dismissed"]
    <3>1. n.status = "dismissed" /\ n.line = m.line /\ n.item = m.item /\ n.type = m.type
      BY <1>0, <2>3 DEF Verdict
    <3>2. n \in matches'
      BY <2>1
    <3> HIDE DEF n
    <3> QED BY <1>0, <2>1, <3>1, <3>2 DEF Matches!Still, Matches!Alike
  <2> QED BY <2>2, <2>3
<1>5. CASE Matches!DeleteItems \/ Matches!InsertItem \/ Matches!EditLine
  <2>1. lines' = lines /\ m \in matches'
    BY <1>5 DEF Matches!DeleteItems, Matches!InsertItem, Matches!EditLine
  <2> QED BY <1>1, <2>1
<1>6. CASE Matches!DeleteLine
  <2>1. PICK l \in lines : /\ lines' = lines \ {l}
                           /\ matches' = {[x EXCEPT !.line = IF @ = l THEN None ELSE @] : x \in matches}
    BY <1>6, Zenon DEF Matches!DeleteLine
  <2> DEFINE n == [m EXCEPT !.line = IF m.line = l THEN None ELSE m.line]
  <2>2. n \in matches'
    BY <2>1
  <2>3. n.line = IF m.line \in lines' THEN m.line ELSE None
    BY <1>0, <2>1 DEF Verdict
  <2>4. n.item = m.item /\ n.type = m.type /\ n.status = m.status
    BY <1>0 DEF Verdict
  <2> HIDE DEF n
  <2> QED BY <2>2, <2>3, <2>4 DEF Matches!Still, Matches!Alike
<1> QED BY <1>1, <1>2, <1>3, <1>4, <1>5, <1>6, Zenon DEF Matches!Next, Matches!SearchStep

LEMMA DismissedStays ==
  ASSUME MatchesInv, Matches!Next, NEW m \in matches, m.status = "dismissed", m.item \in items'
  PROVE  \E n \in matches' : Matches!Still(m, n) /\ n.status = "dismissed"
<1>1. ASSUME NEW s \in Searches, Matches!Insert(s), m \in search[s].doomed PROVE FALSE
  <2>1. search[s].pc \in Replacing
    BY <1>1 DEF Matches!Insert, Replacing
  <2>2. Matches!InScope(m, search[s])
    BY <1>1, <2>1 DEF MatchesInv, Doomed
  <2> QED BY <2>2 DEF Matches!InScope
<1> QED BY <1>1, VerdictsAfter

\* What a search deletes it has judged again, unless it did not see that the item fits.
LEMMA VerdictStays ==
  ASSUME MatchesInv, Matches!Next, NEW m \in matches, m.item \in items',
         m.line \in lines => Matches!Fits(m.line, m.item),
         \A s \in Searches : ~Matches!Unseen(s, m.item)
  PROVE  \E n \in matches' : Matches!Still(m, n)
<1>1. ASSUME NEW s \in Searches, Matches!Insert(s), m \in search[s].doomed
      PROVE  \E n \in matches' : Matches!Still(m, n)
  <2>1. /\ search[s].pc = "insert" /\ search[s].scope.line \in lines /\ lines' = lines
        /\ Matches!New(search[s]) \subseteq matches'
    BY <1>1 DEF Matches!Insert
  <2>2. Matches!InScope(m, search[s])
    BY <1>1, <2>1 DEF MatchesInv, Doomed, Replacing
  <2>3. m.item \in search[s].candidates \ search[s].failed
    BY <2>1, <2>2 DEF Matches!InScope, Matches!Unseen
  <2> DEFINE n == [by |-> search[s].by, line |-> search[s].scope.line,
                   type |-> Matches!MatchType(search[s].scope), item |-> m.item, status |-> "open"]
  <2>4. n \in Matches!New(search[s])
    BY <2>3 DEF Matches!New
  <2>5. Matches!Still(m, n)
    BY <2>1, <2>2 DEF Matches!Still, Matches!Alike, Matches!InScope
  <2> QED BY <2>1, <2>4, <2>5
<1> QED BY <1>1, VerdictsAfter

LEMMA SourcingMatches == SourcingSpec => []MatchesInv
<1>1. SourcingInit => MatchesInv
  BY MatchesInit DEF SourcingInit
<1>2. MatchesInv /\ [SourcingNext]_sourcingVars => MatchesInv'
  BY MatchesStep, MatchesStutter, Zenon DEF SourcingNext, sourcingVars
<1> QED BY <1>1, <1>2, PTL DEF SourcingSpec

\* However many lines, vendors, searches and users: a line has at most one open verdict of
\* a kind on an item, unless two searches of the line were replacing at once (search()).
THEOREM OneVerdictHolds == SourcingSpec => []OneVerdict
<1>1. MatchesInv => OneVerdict
  BY DEF MatchesInv
<1> QED BY <1>1, SourcingMatches, PTL

\* No step takes a dismissal away while its item is there, nor a verdict that is not
\* replaced by one on the same item, line and kind (search()'s delete and insert).
THEOREM VerdictsStay == SourcingSpec => VerdictsKept
<1>1. MatchesInv /\ [SourcingNext]_sourcingVars => Matches!Next \/ UNCHANGED matchVars
  BY Zenon DEF SourcingNext, sourcingVars
<1>2. UNCHANGED matchVars => UNCHANGED Matches!vars
  BY Zenon DEF matchVars, Matches!vars
<1>3. MatchesInv /\ [SourcingNext]_sourcingVars =>
        [\A m \in matches : m.status = "dismissed" /\ m.item \in items' =>
           \E n \in matches' : Matches!Still(m, n) /\ n.status = "dismissed"]_(Matches!vars)
  <2> SUFFICES ASSUME MatchesInv, [SourcingNext]_sourcingVars, ~UNCHANGED Matches!vars,
                      NEW m \in matches, m.status = "dismissed", m.item \in items'
               PROVE  \E n \in matches' : Matches!Still(m, n) /\ n.status = "dismissed"
    BY Zenon
  <2> QED BY <1>1, <1>2, DismissedStays
<1>4. MatchesInv /\ [SourcingNext]_sourcingVars =>
        [\A m \in matches :
           /\ m.item \in items' /\ (m.line \in lines => Matches!Fits(m.line, m.item))
           /\ ~(\E s \in Searches : Matches!Unseen(s, m.item))
           => \E n \in matches' : Matches!Still(m, n)]_(Matches!vars)
  <2> SUFFICES ASSUME MatchesInv, [SourcingNext]_sourcingVars, ~UNCHANGED Matches!vars,
                      NEW m \in matches, m.item \in items',
                      m.line \in lines => Matches!Fits(m.line, m.item),
                      ~(\E s \in Searches : Matches!Unseen(s, m.item))
               PROVE  \E n \in matches' : Matches!Still(m, n)
    BY Zenon
  <2> QED BY <1>1, <1>2, VerdictStays
<1> QED BY <1>3, <1>4, SourcingMatches, PTL
        DEF SourcingSpec, VerdictsKept, Matches!DismissalsKept, Matches!VerdictsKept
=============================================================================
