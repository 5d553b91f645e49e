----------------------------- MODULE RunHistory ------------------------------
(***************************************************************************)
(* The comparison runs of one order and invoice, the flags they leave and  *)
(* what reviewers decide about them (comparison.service.ts), with the      *)
(* sweep that gives up runs taken for dead (procurement-compare.service.ts,*)
(* reconcile) and the export, which reads the current flags in batches.    *)
(*                                                                         *)
(* runs is in the order of created_at.  A flag is known by its run and its *)
(* line; those of run 0 are from before runs were recorded.                *)
(***************************************************************************)
EXTENDS Naturals, Sequences, FiniteSets, FiniteSetsExt

CONSTANTS
  Comparers,     \* comparisons in progress at once
  Reviewers,
  Lines,         \* the lines a comparison may flag, numbered
  Verdicts,      \* the sets of lines that comparisons flag
  Nobody,
  BatchSize,     \* exportBatchSize
  MaxRuns,       \* bound on runs
  MaxRequests,   \* bound on dismissals, decisions and exports together
  MaxFaults      \* bound on deaths and on commits whose answer is lost

ASSUME LinesNumbered == Lines \subseteq Nat /\ IsFiniteSet(Lines) /\ Verdicts \subseteq SUBSET Lines
ASSUME BoundsNatural == {MaxRuns, MaxRequests, MaxFaults} \subseteq Nat
ASSUME BatchPositive == BatchSize \in Nat \ {0}
ASSUME NobodyReviews == Reviewers \cap {Nobody, "absent", "open"} = {}

VARIABLES
  runs,          \* status of comparison_runs, in the order of created_at
  stamp,         \* created_at of each run's flags, 0 while it has none
  by,            \* discrepancy_flags: "absent", "open", or who dismissed it
  decisions,     \* discrepancy_decisions, in the order of their commits
  pc, run,       \* what each comparison has reached, and its run
  opened,        \* when its transaction began
  stale,         \* the runs the sweep has selected and has yet to update
  pending,       \* the flag each reviewer's recordDecision() has read, or Nobody
  clock, faults,
  export,        \* the export in progress
  doubted,       \* history: runs given up although they may succeed
  throughout     \* history: flags that were current ever since the export began

Flag == (0..MaxRuns) \X Lines
Decision == [flag : Flag, actor : Reviewers, system : BOOLEAN]

comparison == <<pc, run, opened>>
review == <<by, decisions, pending>>
vars == <<runs, stamp, comparison, review, stale, clock, faults, export, doubted, throughout>>

Present == {f \in Flag : by[f] # "absent"}

\* currentFlagScope(): the flags of the latest run that succeeded, and flags without
\* a run as long as none has.
Current == LET done == {n \in DOMAIN runs : runs[n] = "succeeded"}
           IN  IF done = {} THEN 0 ELSE Max(done)
InScope == {f \in Present : f[1] = Current}

\* What an export of the flags of that status holds.
Matching == {f \in InScope : export.status = "open" => by[f] = "open"}

Idle == [state |-> "idle", status |-> "any", after |-> <<0, 0>>, rows |-> <<>>, count |-> 0]

Init ==
  /\ runs = <<>> /\ stamp = [n \in 0..MaxRuns |-> 0]
  /\ \E legacy \in {"absent", "open"} : by = [f \in Flag |-> IF f[1] = 0 THEN legacy ELSE "absent"]
  /\ decisions = <<>>
  /\ pc = [h \in Comparers |-> "idle"] /\ run = [h \in Comparers |-> 0]
  /\ opened = [h \in Comparers |-> 0]
  /\ stale = {} /\ pending = [u \in Reviewers |-> Nobody]
  /\ clock = 1 /\ faults = 0
  /\ export = Idle
  /\ doubted = {} /\ throughout = {}

-----------------------------------------------------------------------------
(* compare(), from the insertion of its run on *)

InsertRun(h) ==
  /\ pc[h] = "idle" /\ Len(runs) < MaxRuns
  /\ runs' = Append(runs, "running")
  /\ pc' = [pc EXCEPT ![h] = "engine"]
  /\ run' = [run EXCEPT ![h] = Len(runs) + 1]
  /\ UNCHANGED <<stamp, opened, review, stale, clock, faults, export, doubted>>

\* The transaction begins, which dates its flags, and waits for the order's row.
OpenTransaction(h) ==
  /\ pc[h] = "engine"
  /\ pc' = [pc EXCEPT ![h] = "write"]
  /\ opened' = [opened EXCEPT ![h] = clock]
  /\ clock' = clock + 1
  /\ UNCHANGED <<runs, stamp, run, review, stale, faults, export, doubted>>

Finish(h, label) ==
  /\ pc' = [pc EXCEPT ![h] = label]
  /\ run' = IF label = "idle" THEN [run EXCEPT ![h] = 0] ELSE run
  /\ opened' = [opened EXCEPT ![h] = 0]

\* The flags and the run's status, whatever that is by now.  When the answer to the
\* commit is lost, compare() takes it for a failure.
Commit(h) ==
  /\ pc[h] = "write"
  /\ \E flagged \in Verdicts :
       by' = [f \in Flag |-> IF f[1] = run[h] /\ f[2] \in flagged THEN "open" ELSE by[f]]
  /\ runs' = [runs EXCEPT ![run[h]] = "succeeded"]
  /\ stamp' = [stamp EXCEPT ![run[h]] = opened[h]]
  /\ \/ Finish(h, "idle") /\ UNCHANGED <<faults, doubted>>
     \/ /\ faults < MaxFaults /\ faults' = faults + 1
        /\ Finish(h, "fail")
        /\ doubted' = doubted \cup {run[h]}
  /\ UNCHANGED <<decisions, pending, stale, clock, export>>

\* The engine fails, or the transaction does and leaves nothing.
EngineFails(h) ==
  /\ pc[h] \in {"engine", "write"}
  /\ Finish(h, "fail")
  /\ UNCHANGED <<runs, stamp, review, stale, clock, faults, export, doubted>>

FailRun(h) ==
  /\ pc[h] = "fail"
  /\ runs' = [runs EXCEPT ![run[h]] = "failed"]
  /\ Finish(h, "idle")
  /\ UNCHANGED <<stamp, review, stale, clock, faults, export, doubted>>

\* The process dies, or failRun() itself fails.
Die(h) ==
  /\ pc[h] # "idle"
  /\ faults < MaxFaults /\ faults' = faults + 1
  /\ Finish(h, "idle")
  /\ UNCHANGED <<runs, stamp, review, stale, clock, export, doubted>>

-----------------------------------------------------------------------------
(* reconcile(): runs that started before the cutoff and are still running *)

SweepSelects == \E cutoff \in DOMAIN runs :
  /\ stale = {}
  /\ stale' = {n \in 1..cutoff : runs[n] = "running"}
  /\ stale' # {}
  /\ doubted' = doubted \cup stale'
  /\ UNCHANGED <<runs, stamp, comparison, review, clock, faults, export>>

\* By its id alone.
SweepFails == \E n \in stale :
  /\ stale' = stale \ {n}
  /\ runs' = [runs EXCEPT ![n] = "failed"]
  /\ UNCHANGED <<stamp, comparison, review, clock, faults, export, doubted>>

-----------------------------------------------------------------------------
(* dismissFlag() and recordDecision() *)

Asked == Len(decisions) + export.count + Cardinality({u \in Reviewers : pending[u] # Nobody})
CanAsk == Asked < MaxRequests

Record(f, u, system) == Append(decisions, [flag |-> f, actor |-> u, system |-> system])

\* Mutant of Dismiss: the flag is updated whatever its status.
DismissAgain(u, f) ==
  /\ by[f] # "absent" /\ CanAsk
  /\ by' = [by EXCEPT ![f] = u]
  /\ decisions' = Record(f, u, TRUE)
  /\ UNCHANGED <<runs, stamp, comparison, pending, stale, clock, faults, export, doubted>>

\* Mutant of Dismiss: a repeat records a decision as well.
DismissRecorded(u, f) ==
  /\ by[f] # "absent" /\ CanAsk
  /\ by' = IF by[f] = "open" THEN [by EXCEPT ![f] = u] ELSE by
  /\ decisions' = Record(f, u, TRUE)
  /\ UNCHANGED <<runs, stamp, comparison, pending, stale, clock, faults, export, doubted>>

\* One transaction, on an open flag only; a repeat changes nothing.
Dismiss(u, f) ==
  /\ by[f] = "open" /\ CanAsk
  /\ by' = [by EXCEPT ![f] = u]
  /\ decisions' = Record(f, u, TRUE)
  /\ UNCHANGED <<runs, stamp, comparison, pending, stale, clock, faults, export, doubted>>

\* The flag exists, whatever its status and whether or not it is current.
ReadFlag(u, f) ==
  /\ pending[u] = Nobody /\ f \in Present /\ CanAsk
  /\ pending' = [pending EXCEPT ![u] = f]
  /\ UNCHANGED <<runs, stamp, comparison, by, decisions, stale, clock, faults, export, doubted>>

\* One transaction: a decision is recorded in any case, the flag updated if open.
RecordDecision(u) ==
  /\ pending[u] # Nobody
  /\ decisions' = Record(pending[u], u, FALSE)
  /\ by' = IF by[pending[u]] = "open" THEN [by EXCEPT ![pending[u]] = u] ELSE by
  /\ pending' = [pending EXCEPT ![u] = Nobody]
  /\ UNCHANGED <<runs, stamp, comparison, stale, clock, faults, export, doubted>>

-----------------------------------------------------------------------------
(* exportFlags() *)

\* (created_at, id)
Place(f) == <<stamp[f[1]], f[2]>>
Before(p, q) == p[1] < q[1] \/ (p[1] = q[1] /\ p[2] < q[2])

\* Mutant of Rest: what matches now but for as many rows as were read.
RestByOffset ==
  {f \in Matching : Cardinality({g \in Matching : Before(Place(g), Place(f))}) >= Len(export.rows)}

\* What matches now and comes after the last row read.
Rest == {f \in Matching : export.rows = <<>> \/ Before(export.after, Place(f))}

ExportBegins ==
  /\ export.state # "reading" /\ CanAsk
  /\ \E status \in {"any", "open"} :
       export' = [Idle EXCEPT !.state = "reading", !.status = status, !.count = export.count + 1]
  /\ UNCHANGED <<runs, stamp, comparison, review, stale, clock, faults, doubted>>

\* The batches of that size: rows that come before the rest, in the order of Place.
Batches(size) == {s \in [1..size -> Rest] :
  /\ \A i, j \in 1..size : i < j => Before(Place(s[i]), Place(s[j]))
  /\ \A f \in Rest \ {s[i] : i \in 1..size} : \A i \in 1..size : Before(Place(s[i]), Place(f))}

\* One that is not full is the last.
ExportBatch ==
  /\ export.state = "reading"
  /\ LET size == Min({BatchSize, Cardinality(Rest)})
     IN  \E batch \in Batches(size) : export' = [export EXCEPT
           !.rows = @ \o batch,
           !.after = IF size = 0 THEN @ ELSE Place(batch[size]),
           !.state = IF size < BatchSize THEN "done" ELSE "reading"]
  /\ UNCHANGED <<runs, stamp, comparison, review, stale, clock, faults, doubted>>

-----------------------------------------------------------------------------
Step ==
  \/ \E h \in Comparers :
       InsertRun(h) \/ OpenTransaction(h) \/ Commit(h) \/ EngineFails(h) \/ FailRun(h) \/ Die(h)
  \/ SweepSelects \/ SweepFails
  \/ \E u \in Reviewers : (\E f \in Flag : Dismiss(u, f) \/ ReadFlag(u, f)) \/ RecordDecision(u)
  \/ ExportBegins \/ ExportBatch

Next ==
  /\ Step
  /\ throughout' = IF export'.state # "reading" /\ export.state # "reading" THEN {}
                   ELSE IF export.state # "reading" THEN Matching'
                   ELSE throughout \cap Matching'

Spec == Init /\ [][Next]_vars

-----------------------------------------------------------------------------
(* Properties *)

TypeOK ==
  /\ runs \in Seq({"running", "succeeded", "failed"}) /\ Len(runs) <= MaxRuns
  /\ stamp \in [0..MaxRuns -> 0..clock] /\ clock \in Nat
  /\ by \in [Flag -> {"absent", "open"} \cup Reviewers]
  /\ decisions \in Seq(Decision) /\ Len(decisions) <= MaxRequests
  /\ \A n \in DOMAIN decisions : decisions[n].flag \in Present
  /\ pc \in [Comparers -> {"idle", "engine", "write", "fail"}]
  /\ \A h \in Comparers : IF pc[h] = "idle" THEN run[h] = 0 ELSE run[h] \in DOMAIN runs
  /\ opened \in [Comparers -> 0..clock]
  /\ stale \subseteq DOMAIN runs /\ doubted \subseteq DOMAIN runs
  /\ pending \in [Reviewers -> Present \cup {Nobody}]
  /\ faults \in 0..MaxFaults
  /\ export.state \in {"idle", "reading", "done"}
  /\ throughout \subseteq Present

\* The queue moves on to later verdicts only, unless a run was taken for dead or its
\* commit for a failure; and a flag is its first closer's, however dismissals and
\* decisions overlap.
Queue == INSTANCE ReviewQueue WITH
  Flags <- Flag,
  shown <- Current,
  doubted <- doubted,
  closedBy <- [f \in Flag |-> IF by[f] \in Reviewers THEN by[f] ELSE Nobody]

ImplementsQueue == Queue!Spec

\* The audit trail matches the flags: a flag that is closed was closed by someone who
\* recorded a decision on it, one with a decision is closed, and of all dismissals of
\* a flag only one is recorded.
TrailMatches == \A f \in Present :
  LET about == {n \in DOMAIN decisions : decisions[n].flag = f}
  IN  /\ by[f] # "open" <=> about # {}
      /\ by[f] # "open" => \E n \in about : decisions[n].actor = by[f]
      /\ Cardinality({n \in about : decisions[n].system}) <= 1

\* An export holds every flag that it was asked for from its first to its last batch,
\* and none twice, whatever runs end and flags are closed while it reads.
ExportComplete ==
  /\ export.state = "done" => throughout \subseteq {export.rows[n] : n \in DOMAIN export.rows}
  /\ \A m, n \in DOMAIN export.rows : export.rows[m] = export.rows[n] => m = n
=============================================================================
