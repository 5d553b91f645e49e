------------------------------ MODULE FaqDrafts ------------------------------
(***************************************************************************)
(* FAQ drafts of one workspace (apps/api, insights/): the weekly job that  *)
(* writes drafts from clusters of tickets, and the reviewers who reject a  *)
(* draft or let it into the knowledge base.                                *)
(*                                                                         *)
(* A run reads which tickets have a draft before it writes any, and an     *)
(* approval reads the draft before it stores the document and marks it     *)
(* after: nothing holds a draft in between.                                *)
(***************************************************************************)
EXTENDS Integers, Sequences, FiniteSets

CONSTANTS
  Tickets,      \* tickets with a chunk that no document covers
  Topics,       \* tickets of one topic are similar enough for one cluster
  TopicOf,      \* the topic of each ticket
  MinCluster,   \* MIN_CLUSTER_SIZE
  Workers, Reviewers,
  Attempts,     \* attempts of a job
  MaxWeeks,     \* bound on the ticks
  MaxDrafts,    \* bound on the drafts
  MaxFaults     \* bound on redeliveries, failures of a run and of an approval

ConstantsTyped ==
  /\ TopicOf \in [Tickets -> Topics]
  /\ MinCluster \in Nat \ {0} /\ Attempts \in Nat \ {0}
  /\ MaxWeeks \in Nat /\ MaxDrafts \in Nat /\ MaxFaults \in Nat

VARIABLES
  arrived,      \* the tickets that have been indexed
  jobs,         \* of each weekly job, whether it waits, and its attempts
  worker,       \* what a run has read
  drafts,       \* faq_drafts, with the documents made of each
  review,       \* approvals under way
  faults,
  overlapped,   \* history: two runs read before the other had written
  crossed       \* history: drafts reviewed while an approval was under way, or half approved

vars == <<arrived, jobs, worker, drafts, review, faults, overlapped, crossed>>

NoRun == [pc |-> "idle", job |-> 0, todo |-> {}]
NoReview == [pc |-> "idle", draft |-> 0]

Init ==
  /\ arrived = {} /\ jobs = <<>>
  /\ worker = [w \in Workers |-> NoRun]
  /\ drafts = <<>> /\ review = [r \in Reviewers |-> NoReview]
  /\ faults = 0 /\ overlapped = FALSE /\ crossed = {}

Fault == faults < MaxFaults /\ faults' = faults + 1

\* A ticket is reviewed and gets its chunk.
Arrive(t) ==
  /\ t \notin arrived
  /\ arrived' = arrived \union {t}
  /\ UNCHANGED <<jobs, worker, drafts, review, faults, overlapped, crossed>>

-----------------------------------------------------------------------------
(* The weekly job *)

\* onTick(): one job under the name of the day.
Tick ==
  /\ Len(jobs) < MaxWeeks
  /\ jobs' = Append(jobs, [state |-> "waiting", tries |-> 0])
  /\ UNCHANGED <<arrived, worker, drafts, review, faults, overlapped, crossed>>

\* Mutant of Drafted: pending drafts are not looked at.
DraftedApproved == UNION {drafts[d].tickets : d \in {e \in DOMAIN drafts : drafts[e].status = "approved"}}

\* alreadyDraftedTicketIds()
Drafted == UNION {drafts[d].tickets : d \in {e \in DOMAIN drafts : drafts[e].status # "rejected"}}

\* cluster(): the eligible tickets of one topic, if there are enough.
Clusters(eligible) ==
  {c \in {{t \in eligible : TopicOf[t] = p} : p \in Topics} : Cardinality(c) >= MinCluster}

\* onCluster() has read the tickets and the drafts.
Read(w, j) ==
  /\ worker[w].pc = "idle" /\ jobs[j].state = "waiting"
  /\ jobs' = [jobs EXCEPT ![j] = [state |-> "active", tries |-> @.tries + 1]]
  /\ worker' = [worker EXCEPT ![w] = [pc |-> "run", job |-> j, todo |-> Clusters(arrived \ Drafted)]]
  /\ overlapped' = (overlapped \/ \E v \in Workers : worker[v].pc = "run")
  /\ UNCHANGED <<arrived, drafts, review, faults, crossed>>

\* draftFromCluster()
Draft(w, c) ==
  /\ worker[w].pc = "run" /\ c \in worker[w].todo
  /\ Len(drafts) < MaxDrafts
  /\ drafts' = Append(drafts, [tickets |-> c, status |-> "pending", documents |-> 0])
  /\ worker' = [worker EXCEPT ![w].todo = @ \ {c}]
  /\ UNCHANGED <<arrived, jobs, review, faults, overlapped, crossed>>

\* The job of a run that has lost it is another run's.
Release(w, state) ==
  /\ worker' = [worker EXCEPT ![w] = NoRun]
  /\ jobs' = IF worker[w].job = 0 THEN jobs ELSE [jobs EXCEPT ![worker[w].job].state = state]

\* Every cluster has its draft; or the AI budget is used up, which is final too.
Succeed(w) ==
  /\ worker[w].pc = "run"
  /\ \/ worker[w].todo = {} /\ UNCHANGED faults
     \/ worker[w].todo # {} /\ Fault
  /\ Release(w, "done")
  /\ UNCHANGED <<arrived, drafts, review, overlapped, crossed>>

\* The run throws: Bull tries again.
FailRun(w) == LET j == worker[w].job IN
  /\ worker[w].pc = "run" /\ Fault
  /\ Release(w, IF j # 0 /\ jobs[j].tries < Attempts THEN "waiting" ELSE "failed")
  /\ UNCHANGED <<arrived, drafts, review, overlapped, crossed>>

\* The lock of an active job lapses: it is delivered again.  Its handler is dead, or late.
Redeliver(w, late) ==
  /\ worker[w].pc = "run" /\ worker[w].job # 0 /\ Fault
  /\ jobs' = [jobs EXCEPT ![worker[w].job].state = "waiting"]
  /\ worker' = [worker EXCEPT ![w] = IF late THEN [@ EXCEPT !.job = 0] ELSE NoRun]
  /\ UNCHANGED <<arrived, drafts, review, overlapped, crossed>>

-----------------------------------------------------------------------------
(* Reviewers *)

Approving(d) == \E r \in Reviewers : review[r].pc # "idle" /\ review[r].draft = d
Cross(d) == crossed' = IF Approving(d) THEN crossed \union {d} ELSE crossed

\* Mutant of Open: whatever was decided is decided again.
OpenAlways(d) == TRUE

\* A draft that is still to be reviewed.
Open(d) == drafts[d].status = "pending"

\* reject(): one conditional update.
Reject(d) ==
  /\ Open(d)
  /\ drafts' = [drafts EXCEPT ![d].status = "rejected"]
  /\ Cross(d)
  /\ UNCHANGED <<arrived, jobs, worker, review, faults, overlapped>>

\* approve() reads the draft.
Approve(r, d) ==
  /\ review[r].pc = "idle" /\ Open(d)
  /\ review' = [review EXCEPT ![r] = [pc |-> "read", draft |-> d]]
  /\ Cross(d)
  /\ UNCHANGED <<arrived, jobs, worker, drafts, faults, overlapped>>

\* The document is stored, inserted and queued; or the call fails after that, and the
\* draft can be approved again.
Materialise(r) == LET d == review[r].draft IN
  /\ review[r].pc = "read"
  /\ drafts' = [drafts EXCEPT ![d].documents = @ + 1]
  /\ \/ review' = [review EXCEPT ![r].pc = "stored"] /\ UNCHANGED <<faults, crossed>>
     \/ Fault /\ review' = [review EXCEPT ![r] = NoReview] /\ crossed' = crossed \union {d}
  /\ UNCHANGED <<arrived, jobs, worker, overlapped>>

\* The draft is marked, by its id only.
Mark(r) ==
  /\ review[r].pc = "stored"
  /\ drafts' = [drafts EXCEPT ![review[r].draft].status = "approved"]
  /\ review' = [review EXCEPT ![r] = NoReview]
  /\ UNCHANGED <<arrived, jobs, worker, faults, overlapped, crossed>>

-----------------------------------------------------------------------------

Next ==
  \/ \E t \in Tickets : Arrive(t)
  \/ Tick
  \/ \E w \in Workers :
       \/ \E j \in DOMAIN jobs : Read(w, j)
       \/ \E c \in worker[w].todo : Draft(w, c)
       \/ \E late \in BOOLEAN : Redeliver(w, late)
       \/ Succeed(w) \/ FailRun(w)
  \/ \E d \in DOMAIN drafts : Reject(d) \/ \E r \in Reviewers : Approve(r, d)
  \/ \E r \in Reviewers : Materialise(r) \/ Mark(r)

Spec == Init /\ [][Next]_vars

-----------------------------------------------------------------------------
(* Properties *)

TypeOK ==
  /\ arrived \subseteq Tickets
  /\ \A j \in DOMAIN jobs : jobs[j] \in [state : {"waiting", "active", "done", "failed"}, tries : Nat]
  /\ worker \in [Workers -> [pc : {"idle", "run"}, job : 0..MaxWeeks, todo : SUBSET SUBSET Tickets]]
  /\ \A d \in DOMAIN drafts : drafts[d] \in [tickets : SUBSET Tickets, documents : 0..Cardinality(Reviewers) + MaxFaults,
                                            status : {"pending", "approved", "rejected"}]
  /\ review \in [Reviewers -> [pc : {"idle", "read", "stored"}, draft : 0..MaxDrafts]]
  /\ faults \in 0..MaxFaults /\ overlapped \in BOOLEAN /\ crossed \subseteq DOMAIN drafts

\* A run that is repeated after it wrote some of its drafts, and the runs of later weeks,
\* write none for a ticket that has one, unless two runs overlapped or a rejected draft
\* came back through an approval that was under way.
DraftedOnce ==
  \A d, e \in DOMAIN drafts :
    d # e /\ drafts[d].status # "rejected" /\ drafts[e].status # "rejected"
      => drafts[d].tickets \intersect drafts[e].tickets = {} \/ overlapped \/ crossed # {}

\* A draft becomes one document when it is approved, and none when it is rejected, unless
\* it was decided twice at once or an approval failed half way.
DecidedOnce ==
  \A d \in DOMAIN drafts \ crossed :
    /\ drafts[d].status = "approved" => drafts[d].documents = 1
    /\ drafts[d].status = "rejected" => drafts[d].documents = 0
=============================================================================
