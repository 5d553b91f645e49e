-------------------------- MODULE RunHistoryProofs ---------------------------
(***************************************************************************)
(* Theorems about RunHistory, for any comparisons, reviewers, lines,       *)
(* verdicts and bounds: the runs of one order and invoice implement the    *)
(* queue that reviewers are promised (ReviewQueue), and the audit trail    *)
(* matches the flags.                                                      *)
(***************************************************************************)
EXTENDS RunHistory, FiniteSetTheorems, SequenceTheorems, WellFoundedInduction, TLAPS

Done == {n \in DOMAIN runs : runs[n] = "succeeded"}

Typed ==
  /\ runs \in Seq({"running", "succeeded", "failed"})
  /\ by \in [Flag -> {"absent", "open"} \cup Reviewers]
  /\ decisions \in Seq(Decision)
  /\ pc \in [Comparers -> {"idle", "engine", "write", "fail"}]
  /\ run \in [Comparers -> Nat]
  /\ pending \in [Reviewers -> Flag \cup {Nobody}]

\* A comparison in progress has a run of its own.
Owned ==
  /\ \A h \in Comparers : pc[h] # "idle" => run[h] \in 1..Len(runs)
  /\ \A g, h \in Comparers : pc[g] # "idle" /\ pc[h] # "idle" /\ run[g] = run[h] => g = h

\* Until it commits, its run has neither flags nor success; afterwards it ends, and
\* may record a failure only over a commit whose answer was lost.
Unwritten ==
  /\ \A f \in Flag : f[1] > Len(runs) => by[f] = "absent"
  /\ \A h \in Comparers : pc[h] \in {"engine", "write"} =>
       /\ runs[run[h]] # "succeeded"
       /\ \A f \in Flag : f[1] = run[h] => by[f] = "absent"
  /\ \A h \in Comparers : pc[h] = "fail" /\ runs[run[h]] = "succeeded" => run[h] \in doubted

\* What the sweep is about to fail was given up when it was selected.
GivenUp == stale \subseteq doubted /\ stale \subseteq 1..Len(runs)

\* Decisions are about flags that are closed, by someone whose decision is recorded;
\* a dismissal is recorded by the step that closes the flag.
Trail ==
  /\ \A n \in DOMAIN decisions : by[decisions[n].flag] \in Reviewers
  /\ \A f \in Flag : by[f] \in Reviewers =>
       \E n \in DOMAIN decisions : decisions[n].flag = f /\ decisions[n].actor = by[f]
  /\ \A m, n \in DOMAIN decisions :
       decisions[m].system /\ decisions[n].system /\ decisions[m].flag = decisions[n].flag => m = n
  /\ \A u \in Reviewers : pending[u] # Nobody => by[pending[u]] # "absent"

Inv == Typed /\ Owned /\ Unwritten /\ GivenUp /\ Trail

Closed == [f \in Flag |-> IF by[f] \in Reviewers THEN by[f] ELSE Nobody]

-----------------------------------------------------------------------------
(* The greatest of some run numbers *)

LEMMA MaxIsGreatest ==
  ASSUME NEW n \in Nat, NEW S, S \subseteq 1..n, S # {}
  PROVE  Max(S) \in S /\ \A y \in S : Max(S) >= y
<1> DEFINE Below == OpToRel(<, Nat)
<1> DEFINE T == {n - x : x \in S}
<1>1. IsWellFoundedOn(Below, Nat)
  BY NatLessThanWellFounded
<1>2. T \subseteq Nat /\ T # {}
  <2>1. \A x \in S : n - x \in Nat
    OBVIOUS
  <2> QED BY <2>1 DEF T
<1> HIDE DEF Below, T
<1>3. PICK m \in T : \A y \in T : <<y, m>> \notin Below
  BY <1>1, <1>2, WFMin
<1>4. \A y \in T : ~(y < m)
  BY <1>2, <1>3 DEF OpToRel, Below
<1>5. PICK x \in S : m = n - x
  BY DEF T
<1>6. \A y \in S : x >= y
  BY <1>4, <1>5 DEF T
<1> QED BY <1>6 DEF Max

LEMMA SetStatus ==
  ASSUME NEW s \in Seq({"running", "succeeded", "failed"}), NEW n \in 1..Len(s),
         NEW status \in {"running", "succeeded", "failed"}
  PROVE  /\ [s EXCEPT ![n] = status] \in Seq({"running", "succeeded", "failed"})
         /\ Len([s EXCEPT ![n] = status]) = Len(s)
         /\ [s EXCEPT ![n] = status][n] = status
         /\ \A m \in 1..Len(s) : m # n => [s EXCEPT ![n] = status][m] = s[m]
  OBVIOUS

LEMMA DecisionTyped ==
  ASSUME Typed, NEW m \in DOMAIN decisions
  PROVE  decisions[m] \in Decision /\ decisions[m].flag \in Flag
<1>1. decisions[m] \in Decision
  BY ElementOfSeq DEF Typed
<1> QED BY <1>1 DEF Decision

IsLast ==
  /\ Current \in Nat
  /\ Done = {} => Current = 0
  /\ Done # {} => Current \in Done /\ \A n \in Done : Current >= n

LEMMA CurrentIsLast == Typed => IsLast
<1> SUFFICES ASSUME Typed PROVE IsLast
  OBVIOUS
<1> USE DEF IsLast
<1>1. Done \subseteq 1..Len(runs) /\ Len(runs) \in Nat
  BY DEF Done, Typed
<1>2. CASE Done = {}
  BY <1>2 DEF Current, Done
<1>3. CASE Done # {}
  <2>1. Current = Max(Done)
    BY <1>3 DEF Current, Done
  <2>2. Max(Done) \in Done /\ \A n \in Done : Max(Done) >= n
    BY <1>1, <1>3, MaxIsGreatest
  <2>3. Max(Done) \in Nat
    <3>1. \A n \in Done : n \in Nat
      BY <1>1
    <3> QED BY <2>2, <3>1
  <2> QED BY <1>3, <2>1, <2>2, <2>3
<1> QED BY <1>2, <1>3

LEMMA NextCurrentIsLast == Typed' => IsLast'
  BY CurrentIsLast, PTL

-----------------------------------------------------------------------------
(* The invariant *)

LEMMA InitInv == Init => Inv
<1> SUFFICES ASSUME Init PROVE Inv
  OBVIOUS
<1>1. by \in [Flag -> {"absent", "open"} \cup Reviewers] /\ \A f \in Flag : f[1] > 0 => by[f] = "absent"
  BY DEF Init, Flag
<1>2. \A f \in Flag : by[f] \notin Reviewers
  BY <1>1, NobodyReviews DEF Init, Flag
<1>3. runs = <<>> /\ decisions = <<>> /\ Len(runs) = 0 /\ DOMAIN decisions = {}
  BY DEF Init
<1> QED BY <1>1, <1>2, <1>3 DEF Init, Inv, Typed, Owned, Unwritten, GivenUp, Trail

LEMMA InsertRunInv == ASSUME Inv, NEW h \in Comparers, InsertRun(h) PROVE Inv'
<1> USE DEF Inv
<1>1. /\ runs' \in Seq({"running", "succeeded", "failed"})
      /\ Len(runs') = Len(runs) + 1 /\ Len(runs) \in Nat
      /\ runs'[Len(runs) + 1] = "running"
      /\ \A n \in 1..Len(runs) : runs'[n] = runs[n]
  BY DEF InsertRun, Typed
<1>2. /\ pc' = [pc EXCEPT ![h] = "engine"] /\ pc[h] = "idle"
      /\ run' = [run EXCEPT ![h] = Len(runs) + 1]
      /\ UNCHANGED <<by, decisions, pending, stale, doubted>>
  BY DEF InsertRun, review
<1>3. Typed'
  BY <1>1, <1>2 DEF Typed
<1>4. Owned'
  BY <1>1, <1>2 DEF Typed, Owned
<1>5. Unwritten'
  <2>1. \A f \in Flag : f[1] > Len(runs) => by[f] = "absent"
    BY DEF Unwritten
  <2>2. \A f \in Flag : f[1] \in Nat
    BY BoundsNatural DEF Flag
  <2>3. \A f \in Flag : f[1] > Len(runs') => by'[f] = "absent"
    BY <1>1, <1>2, <2>1, <2>2
  <2>4. ASSUME NEW g \in Comparers, g # h, pc[g] # "idle"
        PROVE  /\ pc'[g] = pc[g] /\ run'[g] = run[g]
               /\ runs'[run[g]] = runs[run[g]]
    BY <1>1, <1>2, <2>4 DEF Typed, Owned
  <2>5. /\ pc'[h] = "engine" /\ run'[h] = Len(runs) + 1
        /\ \A f \in Flag : f[1] = Len(runs) + 1 => by[f] = "absent"
    BY <1>1, <1>2, <2>1 DEF Typed
  <2>6. \A g \in Comparers : g # h /\ pc'[g] # "idle" => pc[g] # "idle"
    BY <1>2 DEF Typed
  <2> QED BY <1>1, <1>2, <2>3, <2>4, <2>5, <2>6 DEF Unwritten
<1>6. GivenUp' /\ Trail'
  BY <1>1, <1>2 DEF GivenUp, Trail
<1> QED BY <1>3, <1>4, <1>5, <1>6

LEMMA CommitInv == ASSUME Inv, NEW h \in Comparers, Commit(h) PROVE Inv'
<1> USE DEF Inv
<1> DEFINE n == run[h]
<1>1. PICK flagged \in Verdicts :
        by' = [f \in Flag |-> IF f[1] = n /\ f[2] \in flagged THEN "open" ELSE by[f]]
  BY DEF Commit
<1>2. /\ pc[h] = "write" /\ n \in 1..Len(runs)
      /\ runs' = [runs EXCEPT ![n] = "succeeded"]
      /\ UNCHANGED <<decisions, pending, stale>>
      /\ \/ pc' = [pc EXCEPT ![h] = "idle"] /\ run' = [run EXCEPT ![h] = 0] /\ doubted' = doubted
         \/ pc' = [pc EXCEPT ![h] = "fail"] /\ run' = run /\ doubted' = doubted \cup {n}
  BY DEF Commit, Finish, Owned
<1>3. /\ runs' \in Seq({"running", "succeeded", "failed"})
      /\ Len(runs') = Len(runs) /\ Len(runs) \in Nat
      /\ \A m \in 1..Len(runs) : m # n => runs'[m] = runs[m]
  BY <1>2 DEF Typed
<1>4. \A f \in Flag : f[1] = n => by[f] = "absent"
  BY <1>2 DEF Unwritten
<1>5. /\ by' \in [Flag -> {"absent", "open"} \cup Reviewers]
      /\ \A f \in Flag : by[f] # "absent" => by'[f] = by[f]
      /\ \A f \in Flag : f[1] # n => by'[f] = by[f]
      /\ \A f \in Flag : by'[f] \in Reviewers => by'[f] = by[f]
  BY <1>1, <1>4, NobodyReviews DEF Typed
<1> HIDE DEF n
<1>6. Typed'
  <2>0. pc \in [Comparers -> {"idle", "engine", "write", "fail"}] /\ run \in [Comparers -> Nat]
    BY DEF Typed
  <2>1. pc' \in [Comparers -> {"idle", "engine", "write", "fail"}] /\ run' \in [Comparers -> Nat]
    BY <1>2, <2>0
  <2> QED BY <1>2, <1>3, <1>5, <2>1 DEF Typed
<1>7. Owned'
  BY <1>2, <1>3 DEF Typed, Owned, n
<1>8. Unwritten'
  <2>1. \A f \in Flag : f[1] > Len(runs') => by'[f] = "absent"
    BY <1>2, <1>3, <1>5 DEF Unwritten, Flag
  <2>2. ASSUME NEW g \in Comparers, g # h, pc[g] # "idle"
        PROVE  run[g] # n /\ run[g] \in 1..Len(runs)
    BY <1>2, <2>2 DEF Owned, n
  <2>3. \A g \in Comparers : g # h => pc'[g] = pc[g] /\ run'[g] = run[g]
    BY <1>2 DEF Typed
  <2>4. ASSUME NEW g \in Comparers, pc'[g] \in {"engine", "write"}
        PROVE  runs'[run'[g]] # "succeeded" /\ \A f \in Flag : f[1] = run'[g] => by'[f] = "absent"
    <3>1. g # h
      BY <1>2, <2>4 DEF Typed
    <3> QED BY <1>3, <1>5, <2>2, <2>3, <2>4, <3>1 DEF Unwritten
  <2>5. ASSUME NEW g \in Comparers, pc'[g] = "fail", runs'[run'[g]] = "succeeded"
        PROVE  run'[g] \in doubted'
    <3>1. CASE g = h
      BY <1>2, <2>5, <3>1 DEF Typed, n
    <3>2. CASE g # h
      BY <1>2, <1>3, <2>2, <2>3, <2>5, <3>2 DEF Unwritten
    <3> QED BY <3>1, <3>2
  <2> QED BY <2>1, <2>4, <2>5 DEF Unwritten
<1>9. GivenUp'
  BY <1>2, <1>3 DEF GivenUp
<1>10. Trail'
  <2>1. \A m \in DOMAIN decisions : decisions[m].flag \in Flag
    BY DecisionTyped
  <2>2. \A u \in Reviewers : pending[u] # Nobody => pending[u] \in Flag
    BY DEF Typed
  <2> QED BY <1>2, <1>5, <2>1, <2>2, NobodyReviews DEF Trail
<1> QED BY <1>6, <1>7, <1>8, <1>9, <1>10

\* The other steps of a comparison, which leave the flags alone.
LEMMA ComparerInv ==
  ASSUME Inv, NEW h \in Comparers,
         OpenTransaction(h) \/ EngineFails(h) \/ FailRun(h) \/ Die(h)
  PROVE  Inv'
<1> USE DEF Inv
<1>1. /\ pc[h] # "idle" /\ run[h] \in 1..Len(runs) /\ Len(runs) \in Nat
      /\ UNCHANGED <<by, decisions, pending, stale, doubted>>
      /\ \/ pc' = [pc EXCEPT ![h] = "write"] /\ run' = run /\ runs' = runs /\ pc[h] = "engine"
         \/ pc' = [pc EXCEPT ![h] = "fail"] /\ run' = run /\ runs' = runs
            /\ pc[h] \in {"engine", "write"}
         \/ pc' = [pc EXCEPT ![h] = "idle"] /\ run' = [run EXCEPT ![h] = 0]
            /\ (runs' = runs \/ runs' = [runs EXCEPT ![run[h]] = "failed"])
  BY DEF OpenTransaction, EngineFails, FailRun, Die, Finish, review, Owned, Typed
<1>2. /\ runs' \in Seq({"running", "succeeded", "failed"}) /\ Len(runs') = Len(runs)
      /\ \A n \in 1..Len(runs) : runs'[n] = "succeeded" => runs[n] = "succeeded"
  <2>1. runs \in Seq({"running", "succeeded", "failed"})
    BY DEF Typed
  <2>2. CASE runs' = runs
    BY <2>1, <2>2
  <2>3. CASE runs' = [runs EXCEPT ![run[h]] = "failed"]
    BY <1>1, <2>1, <2>3, SetStatus
  <2> QED BY <1>1, <2>2, <2>3
<1>3. /\ pc' \in [Comparers -> {"idle", "engine", "write", "fail"}] /\ run' \in [Comparers -> Nat]
      /\ \A g \in Comparers : g # h => pc'[g] = pc[g] /\ run'[g] = run[g]
      /\ pc'[h] # "idle" => run'[h] = run[h]
      /\ pc'[h] = "write" => pc[h] = "engine"
      /\ pc'[h] = "fail" => pc[h] \in {"engine", "write"}
      /\ pc'[h] # "engine"
  <2>1. pc \in [Comparers -> {"idle", "engine", "write", "fail"}] /\ run \in [Comparers -> Nat]
    BY DEF Typed
  <2> QED BY <1>1, <2>1
<1>4. Typed' /\ Owned'
  <2>1. Typed'
    BY <1>1, <1>2, <1>3 DEF Typed
  <2>2. \A g \in Comparers : pc'[g] # "idle" => pc[g] # "idle" /\ run'[g] = run[g]
    BY <1>1, <1>3
  <2> QED BY <1>2, <2>1, <2>2 DEF Owned
<1>5. Unwritten'
  <2>1. ASSUME NEW g \in Comparers, pc'[g] # "idle"
        PROVE  pc[g] # "idle" /\ run'[g] = run[g] /\ run[g] \in 1..Len(runs)
    BY <1>1, <1>3, <2>1 DEF Owned
  <2>2. ASSUME NEW g \in Comparers, pc'[g] \in {"engine", "write"}
        PROVE  pc[g] \in {"engine", "write"}
    BY <1>3, <2>2
  <2>3. ASSUME NEW g \in Comparers, pc'[g] = "fail", runs'[run'[g]] = "succeeded"
        PROVE  run'[g] \in doubted'
    BY <1>1, <1>2, <1>3, <2>1, <2>3 DEF Unwritten
  <2> QED BY <1>1, <1>2, <2>1, <2>2, <2>3 DEF Unwritten
<1>6. GivenUp' /\ Trail'
  BY <1>1, <1>2 DEF GivenUp, Trail
<1> QED BY <1>4, <1>5, <1>6

LEMMA SweepInv == ASSUME Inv, SweepSelects \/ SweepFails PROVE Inv'
<1> USE DEF Inv
<1>1. /\ UNCHANGED <<by, decisions, pending, pc, run>>
      /\ stale' \subseteq doubted' /\ doubted \subseteq doubted'
      /\ stale' \subseteq 1..Len(runs) /\ Len(runs) \in Nat
      /\ runs' = runs \/ \E n \in 1..Len(runs) : runs' = [runs EXCEPT ![n] = "failed"]
  <2>1. Len(runs) \in Nat /\ DOMAIN runs = 1..Len(runs)
    BY DEF Typed
  <2>2. CASE SweepSelects
    <3> PICK cutoff \in 1..Len(runs) : stale' = {n \in 1..cutoff : runs[n] = "running"}
      BY <2>1, <2>2 DEF SweepSelects
    <3>1. stale' \subseteq 1..Len(runs)
      BY <2>1
    <3> QED BY <2>1, <2>2, <3>1 DEF SweepSelects, comparison, review
  <2>3. CASE SweepFails
    BY <2>1, <2>3 DEF SweepFails, comparison, review, GivenUp
  <2> QED BY <2>2, <2>3
<1>2. /\ runs' \in Seq({"running", "succeeded", "failed"}) /\ Len(runs') = Len(runs)
      /\ \A n \in 1..Len(runs) : runs'[n] = "succeeded" => runs[n] = "succeeded"
  <2>1. runs \in Seq({"running", "succeeded", "failed"})
    BY DEF Typed
  <2>2. ASSUME NEW n \in 1..Len(runs), runs' = [runs EXCEPT ![n] = "failed"]
        PROVE  /\ runs' \in Seq({"running", "succeeded", "failed"}) /\ Len(runs') = Len(runs)
               /\ \A m \in 1..Len(runs) : runs'[m] = "succeeded" => runs[m] = "succeeded"
    BY <2>1, <2>2, SetStatus
  <2> QED BY <1>1, <2>1, <2>2
<1>3. Typed' /\ Owned' /\ GivenUp' /\ Trail'
  BY <1>1, <1>2 DEF Typed, Owned, GivenUp, Trail
<1>4. Unwritten'
  BY <1>1, <1>2 DEF Owned, Unwritten
<1> QED BY <1>3, <1>4

\* A decision about f by u, which closes f if it is open.
LEMMA RecordInv ==
  ASSUME Inv, NEW f \in Flag, NEW u \in Reviewers, NEW system \in BOOLEAN,
         by[f] # "absent", system => by[f] = "open",
         decisions' = Record(f, u, system),
         by' = IF by[f] = "open" THEN [by EXCEPT ![f] = u] ELSE by
  PROVE  /\ by' \in [Flag -> {"absent", "open"} \cup Reviewers]
         /\ decisions' \in Seq(Decision)
         /\ \A g \in Flag : by[g] = "absent" <=> by'[g] = "absent"
         /\ \A n \in DOMAIN decisions' : by'[decisions'[n].flag] \in Reviewers
         /\ \A g \in Flag : by'[g] \in Reviewers =>
              \E n \in DOMAIN decisions' : decisions'[n].flag = g /\ decisions'[n].actor = by'[g]
         /\ \A m, n \in DOMAIN decisions' :
              decisions'[m].system /\ decisions'[n].system /\ decisions'[m].flag = decisions'[n].flag
              => m = n
<1> USE DEF Inv
<1> DEFINE new == [flag |-> f, actor |-> u, system |-> system]
<1> DEFINE k == Len(decisions)
<1>1. new \in Decision
  BY DEF Decision
<1>2. /\ decisions' \in Seq(Decision) /\ k \in Nat
      /\ DOMAIN decisions = 1..k /\ DOMAIN decisions' = 1..k + 1
      /\ \A n \in 1..k : decisions'[n] = decisions[n] /\ decisions[n].flag \in Flag
      /\ decisions'[k + 1] = new
  <2>1. decisions' = Append(decisions, new) /\ decisions \in Seq(Decision)
    BY DEF Record, Typed
  <2>2. \A n \in 1..k : decisions[n].flag \in Flag
    BY <2>1, DecisionTyped
  <2> HIDE DEF new
  <2> QED BY <1>1, <2>1, <2>2, AppendProperties
<1>3. new.flag = f /\ new.actor = u /\ new.system = system
  OBVIOUS
<1>4. /\ by' \in [Flag -> {"absent", "open"} \cup Reviewers]
      /\ \A g \in Flag : by[g] = "absent" <=> by'[g] = "absent"
      /\ \A g \in Flag : by[g] \in Reviewers => by'[g] = by[g]
      /\ by'[f] \in Reviewers
      /\ by[f] = "open" => by'[f] = u
      /\ \A g \in Flag : g # f => by'[g] = by[g]
      /\ by[f] # "open" => by'[f] = by[f]
  BY NobodyReviews DEF Typed
<1> HIDE DEF new, k
<1>5. \A n \in 1..k : by[decisions[n].flag] \in Reviewers
  BY <1>2 DEF Trail
<1>6. \A n \in 1..k + 1 : by'[decisions'[n].flag] \in Reviewers
  BY <1>2, <1>3, <1>4, <1>5
<1>7. ASSUME NEW g \in Flag, by'[g] \in Reviewers
      PROVE  \E n \in 1..k + 1 : decisions'[n].flag = g /\ decisions'[n].actor = by'[g]
  <2>1. CASE g = f /\ by[f] = "open"
    BY <1>2, <1>3, <1>4, <2>1
  <2>2. CASE ~(g = f /\ by[f] = "open")
    <3>1. by'[g] = by[g]
      BY <1>4, <2>2
    <3>2. PICK n \in 1..k : decisions[n].flag = g /\ decisions[n].actor = by[g]
      BY <1>2, <1>7, <3>1 DEF Trail
    <3> QED BY <1>2, <3>1, <3>2
  <2> QED BY <2>1, <2>2
<1>8. ASSUME NEW m \in 1..k + 1, NEW n \in 1..k + 1,
             decisions'[m].system, decisions'[n].system, decisions'[m].flag = decisions'[n].flag
      PROVE  m = n
  <2>1. ASSUME system PROVE \A i \in 1..k : decisions[i].flag # f
    BY <1>5, <2>1, NobodyReviews
  <2>2. CASE m \in 1..k /\ n \in 1..k
    BY <1>2, <1>8, <2>2 DEF Trail
  <2>3. CASE m = k + 1 /\ n \in 1..k
    BY <1>2, <1>3, <1>8, <2>1, <2>3
  <2>4. CASE n = k + 1 /\ m \in 1..k
    BY <1>2, <1>3, <1>8, <2>1, <2>4
  <2> QED BY <1>2, <2>2, <2>3, <2>4
<1> QED BY <1>2, <1>4, <1>6, <1>7, <1>8

LEMMA ReviewInv ==
  ASSUME Inv, NEW u \in Reviewers,
         (\E f \in Flag : Dismiss(u, f) \/ ReadFlag(u, f)) \/ RecordDecision(u)
  PROVE  Inv'
<1> USE DEF Inv
<1>1. ASSUME NEW f \in Flag, ReadFlag(u, f) PROVE Inv'
  <2>1. /\ UNCHANGED <<runs, by, decisions, pc, run, stale, doubted>>
        /\ pending' = [pending EXCEPT ![u] = f] /\ by[f] # "absent"
    BY <1>1 DEF ReadFlag, comparison, Present
  <2> QED BY <2>1 DEF Typed, Owned, Unwritten, GivenUp, Trail
<1>2. ASSUME NEW f \in Flag, NEW system \in BOOLEAN,
             by[f] # "absent", system => by[f] = "open",
             decisions' = Record(f, u, system),
             by' = IF by[f] = "open" THEN [by EXCEPT ![f] = u] ELSE by,
             pending' = pending \/ pending' = [pending EXCEPT ![u] = Nobody],
             UNCHANGED <<runs, pc, run, stale, doubted>>
      PROVE  Inv'
  <2>1. /\ by' \in [Flag -> {"absent", "open"} \cup Reviewers]
        /\ decisions' \in Seq(Decision)
        /\ \A g \in Flag : by[g] = "absent" <=> by'[g] = "absent"
    BY <1>2, RecordInv
  <2>2. /\ pending' \in [Reviewers -> Flag \cup {Nobody}]
        /\ \A v \in Reviewers : pending'[v] # Nobody => pending'[v] = pending[v]
    BY <1>2 DEF Typed
  <2>3. Typed' /\ Owned' /\ GivenUp'
    BY <1>2, <2>1, <2>2 DEF Typed, Owned, GivenUp
  <2>4. Unwritten'
    BY <1>2, <2>1 DEF Unwritten
  <2>5. \A v \in Reviewers : pending'[v] # Nobody => by'[pending'[v]] # "absent"
    BY <2>1, <2>2 DEF Trail
  <2>6. Trail'
    BY <1>2, <2>5, RecordInv DEF Trail
  <2> QED BY <2>3, <2>4, <2>6
<1>3. ASSUME NEW f \in Flag, Dismiss(u, f) PROVE Inv'
  BY <1>2, <1>3 DEF Dismiss, comparison
<1>4. CASE RecordDecision(u)
  <2>1. pending[u] \in Flag /\ by[pending[u]] # "absent"
    BY <1>4 DEF RecordDecision, Typed, Trail
  <2> QED BY <1>2, <1>4, <2>1 DEF RecordDecision, comparison
<1> QED BY <1>1, <1>3, <1>4

LEMMA NextInv == Inv /\ [Next]_vars => Inv'
<1> SUFFICES ASSUME Inv, [Next]_vars PROVE Inv'
  OBVIOUS
<1>1. CASE \/ UNCHANGED vars
           \/ ExportBegins \/ ExportBatch
  <2>1. /\ runs' = runs /\ by' = by /\ decisions' = decisions /\ pc' = pc /\ run' = run
        /\ pending' = pending /\ stale' = stale /\ doubted' = doubted
    BY <1>1, Zenon DEF ExportBegins, ExportBatch, vars, comparison, review
  <2> QED BY <2>1 DEF Inv, Typed, Owned, Unwritten, GivenUp, Trail
<1> QED BY <1>1, InsertRunInv, CommitInv, ComparerInv, SweepInv, ReviewInv DEF Next, Step

LEMMA Invariance == Spec => []Inv
  BY InitInv, NextInv, PTL DEF Spec

-----------------------------------------------------------------------------
(* What a reviewer sees of a step *)

\* While the successful runs stay, so does the run whose flags are current.
LEMMA SameDone == ASSUME Done' = Done PROVE Current' = Current
  BY DEF Current, Done

\* A run that fails leaves the others: the current flags stay, or were given up and go
\* back to an earlier run's.
LEMMA FailedRun ==
  ASSUME Inv, Inv', NEW n \in 1..Len(runs), runs' = [runs EXCEPT ![n] = "failed"],
         runs[n] = "succeeded" => n \in doubted
  PROVE  Current' = Current \/ (Current \in doubted /\ Current' \in Nat /\ Current' < Current)
<1>1. Done' = Done \ {n} /\ Done \subseteq Nat
  BY SetStatus DEF Inv, Typed, Done
<1>2. /\ Current \in Nat /\ Current' \in Nat
      /\ Done = {} => Current = 0
      /\ Done # {} => Current \in Done /\ \A m \in Done : Current >= m
      /\ Done' = {} => Current' = 0
      /\ Done' # {} => Current' \in Done' /\ \A m \in Done' : Current' >= m
  BY CurrentIsLast, NextCurrentIsLast DEF IsLast, Inv
<1>3. \A m \in Done : m # 0
  BY DEF Done, Inv, Typed
<1>4. n \in Done => n \in doubted
  BY DEF Done
<1>5. CASE n \notin Done
  BY <1>1, <1>5, SameDone
<1>6. CASE n \in Done /\ n # Current
  <2>1. Current \in Done' /\ Current' \in Done
    BY <1>1, <1>2, <1>6
  <2>2. Current >= Current' /\ Current' >= Current
    BY <1>1, <1>2, <2>1
  <2> QED BY <1>2, <2>2
<1>7. CASE n \in Done /\ n = Current
  <2>1. CASE Done' = {}
    BY <1>2, <1>3, <1>4, <1>7, <2>1
  <2>2. CASE Done' # {}
    <3>1. Current' \in Done /\ Current' # Current
      BY <1>1, <1>2, <1>7, <2>2
    <3> QED BY <1>2, <1>4, <1>7, <3>1
  <2> QED BY <2>1, <2>2
<1> QED BY <1>5, <1>6, <1>7

\* A run that commits is current, or an even later one is.
LEMMA CommittedRun ==
  ASSUME Inv, Inv', NEW n \in 1..Len(runs), runs' = [runs EXCEPT ![n] = "succeeded"]
  PROVE  Current' \in Nat /\ Current' >= Current
<1>1. Done' = Done \cup {n} /\ Done \subseteq Nat
  BY SetStatus DEF Inv, Typed, Done
<1>2. /\ Current \in Nat /\ Current' \in Nat
      /\ Done = {} => Current = 0
      /\ Done # {} => Current \in Done
      /\ \A m \in Done' : Current' >= m
  BY <1>1, CurrentIsLast, NextCurrentIsLast DEF IsLast, Inv
<1> QED BY <1>1, <1>2

LEMMA SameClosed ==
  ASSUME \A f \in Flag : by'[f] \in Reviewers \/ by[f] \in Reviewers => by'[f] = by[f]
  PROVE  Closed' = Closed
  BY DEF Closed, Flag

\* A step shows the queue as it was, a later verdict, or an earlier one after a doubt.
Shows ==
  /\ Closed' = Closed
  /\ doubted \subseteq doubted'
  /\ Current' \in Nat
  /\ \/ Current' >= Current
     \/ Current' < Current /\ Current \in doubted /\ doubted' = doubted

LEMMA ComparerShows ==
  ASSUME Inv, Inv', NEW h \in Comparers,
         \/ InsertRun(h) \/ OpenTransaction(h) \/ Commit(h) \/ EngineFails(h)
         \/ FailRun(h) \/ Die(h)
  PROVE  Shows
<1>0. /\ Current \in Nat /\ Current' \in Nat
      /\ runs \in Seq({"running", "succeeded", "failed"}) /\ Len(runs) \in Nat
  BY CurrentIsLast, NextCurrentIsLast DEF IsLast, Inv, Typed
<1>1. CASE InsertRun(h)
  <2>1. runs' = Append(runs, "running") /\ by' = by /\ doubted' = doubted
    BY <1>1 DEF InsertRun, review
  <2>2. Done' = Done
    BY <1>0, <2>1, AppendProperties DEF Done
  <2> QED BY <1>0, <2>1, <2>2, SameDone, SameClosed DEF Shows
<1>2. CASE OpenTransaction(h) \/ EngineFails(h) \/ Die(h)
  <2>1. runs' = runs /\ by' = by /\ doubted' = doubted
    BY <1>2 DEF OpenTransaction, EngineFails, Die, review
  <2> QED BY <1>0, <2>1, SameDone, SameClosed DEF Shows, Done
<1>3. CASE Commit(h)
  <2>1. /\ run[h] \in 1..Len(runs) /\ runs' = [runs EXCEPT ![run[h]] = "succeeded"]
        /\ doubted \subseteq doubted'
        /\ \A f \in Flag : f[1] = run[h] => by[f] = "absent"
    BY <1>3 DEF Commit, Inv, Owned, Unwritten
  <2>2. \A f \in Flag : by'[f] = by[f] \/ (by'[f] = "open" /\ by[f] = "absent")
    <3>1. PICK flagged \in Verdicts :
            by' = [f \in Flag |-> IF f[1] = run[h] /\ f[2] \in flagged THEN "open" ELSE by[f]]
      BY <1>3 DEF Commit
    <3> TAKE f \in Flag
    <3>2. by'[f] = IF f[1] = run[h] /\ f[2] \in flagged THEN "open" ELSE by[f]
      BY <3>1
    <3> QED BY <2>1, <3>2
  <2>3. Closed' = Closed
    BY <2>2, SameClosed, NobodyReviews
  <2> QED BY <1>0, <2>1, <2>3, CommittedRun DEF Shows
<1>4. CASE FailRun(h)
  <2>1. /\ run[h] \in 1..Len(runs) /\ runs' = [runs EXCEPT ![run[h]] = "failed"]
        /\ by' = by /\ doubted' = doubted
        /\ runs[run[h]] = "succeeded" => run[h] \in doubted
    BY <1>4 DEF FailRun, Inv, Owned, Unwritten, review
  <2>2. Current' = Current \/ (Current \in doubted /\ Current' \in Nat /\ Current' < Current)
    BY <2>1, FailedRun
  <2>3. Closed' = Closed
    BY <2>1, SameClosed
  <2> QED BY <1>0, <2>1, <2>2, <2>3 DEF Shows
<1> QED BY <1>1, <1>2, <1>3, <1>4

LEMMA SweepShows == ASSUME Inv, Inv', SweepSelects \/ SweepFails PROVE Shows
<1>0. Current \in Nat /\ Current' \in Nat
  BY CurrentIsLast, NextCurrentIsLast DEF IsLast, Inv
<1>1. CASE SweepSelects
  <2>1. runs' = runs /\ by' = by /\ doubted \subseteq doubted'
    BY <1>1 DEF SweepSelects, review
  <2> QED BY <1>0, <2>1, SameDone, SameClosed DEF Shows, Done
<1>2. CASE SweepFails
  <2>1. PICK n \in stale : runs' = [runs EXCEPT ![n] = "failed"]
    BY <1>2 DEF SweepFails
  <2>2. by' = by /\ doubted' = doubted /\ n \in 1..Len(runs) /\ n \in doubted
    BY <1>2 DEF SweepFails, review, Inv, GivenUp
  <2>3. Current' = Current \/ (Current \in doubted /\ Current' \in Nat /\ Current' < Current)
    BY <2>1, <2>2, FailedRun
  <2>4. Closed' = Closed
    BY <2>2, SameClosed
  <2> QED BY <1>0, <2>2, <2>3, <2>4 DEF Shows
<1> QED BY <1>1, <1>2

\* Whoever closes a flag finds it open.
LEMMA ReviewCloses ==
  ASSUME Inv, NEW u \in Reviewers,
         (\E f \in Flag : Dismiss(u, f) \/ ReadFlag(u, f)) \/ RecordDecision(u)
  PROVE  /\ Current' = Current /\ doubted' = doubted
         /\ \/ Closed' = Closed
            \/ \E f \in Flag : Closed[f] = Nobody /\ Closed' = [Closed EXCEPT ![f] = u]
<1>1. runs' = runs /\ doubted' = doubted
  BY DEF Dismiss, ReadFlag, RecordDecision
<1>2. Current' = Current
  BY <1>1, SameDone DEF Done
<1>3. ASSUME NEW f \in Flag, by[f] = "open", by' = [by EXCEPT ![f] = u]
      PROVE  Closed[f] = Nobody /\ Closed' = [Closed EXCEPT ![f] = u]
  <2>1. by \in [Flag -> {"absent", "open"} \cup Reviewers]
    BY DEF Inv, Typed
  <2>2. Flag' = Flag
    BY DEF Flag
  <2> QED BY <1>3, <2>1, <2>2, NobodyReviews DEF Closed
<1>4. CASE by' = by
  BY <1>1, <1>2, <1>4, SameClosed
<1>5. CASE \E f \in Flag : Dismiss(u, f)
  BY <1>1, <1>2, <1>3, <1>5 DEF Dismiss
<1>6. CASE RecordDecision(u)
  <2>1. pending[u] \in Flag
    BY <1>6 DEF RecordDecision, Inv, Typed
  <2> QED BY <1>1, <1>2, <1>3, <1>4, <1>6, <2>1 DEF RecordDecision
<1> QED BY <1>1, <1>4, <1>5, <1>6 DEF ReadFlag

-----------------------------------------------------------------------------

\* The runs of a pair implement the queue its reviewers are promised: verdicts are
\* replaced by later ones only, but for runs that were given up, and a flag is its first
\* closer's (compare, failRun, reconcile, dismissFlag, recordDecision).
THEOREM RunsImplementQueue == Spec => ImplementsQueue
<1>1. Init => Queue!Init
  <2> SUFFICES ASSUME Init PROVE Queue!Init
    OBVIOUS
  <2>1. Current = 0
    BY DEF Init, Current
  <2>2. \A f \in Flag : by[f] \notin Reviewers
    BY NobodyReviews DEF Init, Flag
  <2> QED BY <2>1, <2>2 DEF Init, Queue!Init
<1>2. ASSUME Inv, Inv', [Next]_vars
      PROVE  [Queue!Next]_<<Current, doubted, Closed>>
  <2>0. Current \in Nat
    BY <1>2, CurrentIsLast DEF IsLast, Inv
  <2>1. ASSUME Shows PROVE [Queue!Next]_<<Current, doubted, Closed>>
    BY <2>0, <2>1 DEF Shows, Queue!Next, Queue!Publish, Queue!Doubt, Queue!Withdraw, Closed
  <2>2. ASSUME NEW u \in Reviewers,
               (\E f \in Flag : Dismiss(u, f) \/ ReadFlag(u, f)) \/ RecordDecision(u)
        PROVE  [Queue!Next]_<<Current, doubted, Closed>>
    BY <1>2, <2>2, ReviewCloses DEF Queue!Next, Queue!Close, Closed
  <2>3. CASE UNCHANGED vars \/ ExportBegins \/ ExportBatch
    <3>1. runs' = runs /\ by' = by /\ doubted' = doubted
      BY <2>3 DEF vars, review, ExportBegins, ExportBatch
    <3>2. Current' = Current /\ Closed' = Closed
      BY <3>1, SameDone, SameClosed DEF Done
    <3> QED BY <3>1, <3>2
  <2> QED BY <1>2, <2>1, <2>2, <2>3, ComparerShows, SweepShows DEF Next, Step
<1>3. Inv /\ Inv' /\ [Next]_vars => [Queue!Next]_<<Current, doubted, Closed>>
  BY <1>2
<1> QED BY <1>1, <1>3, Invariance, PTL DEF Spec, ImplementsQueue, Queue!Spec, Closed

\* The audit trail matches the flags: a flag is closed exactly if a decision about it is
\* on record, one of them its closer's, and no two are dismissals (dismissFlag,
\* recordDecision).
THEOREM TrailKept == Spec => []TrailMatches
<1>1. ASSUME Inv, NEW f \in Present
      PROVE  LET about == {n \in DOMAIN decisions : decisions[n].flag = f}
             IN  /\ by[f] # "open" <=> about # {}
                 /\ by[f] # "open" => \E n \in about : decisions[n].actor = by[f]
                 /\ Cardinality({n \in about : decisions[n].system}) <= 1
  <2> DEFINE about == {n \in DOMAIN decisions : decisions[n].flag = f}
  <2> DEFINE dismissals == {n \in about : decisions[n].system}
  <2>1. f \in Flag /\ (by[f] # "open" <=> by[f] \in Reviewers)
    BY <1>1, NobodyReviews DEF Present, Inv, Typed
  <2>2. /\ by[f] # "open" <=> about # {}
        /\ by[f] # "open" => \E n \in about : decisions[n].actor = by[f]
    BY <1>1, <2>1 DEF Inv, Trail
  <2>3. \A m, n \in dismissals : m = n
    BY <1>1 DEF Inv, Trail
  <2>4. Cardinality(dismissals) <= 1
    <3> HIDE DEF dismissals
    <3>1. CASE dismissals = {}
      BY <3>1, FS_EmptySet
    <3>2. CASE dismissals # {}
      <4> PICK n \in dismissals : dismissals = {n}
        BY <2>3, <3>2
      <4>1. Cardinality(dismissals) = 1
        BY FS_Singleton
      <4> QED BY <4>1
    <3> QED BY <3>1, <3>2
  <2> QED BY <2>2, <2>4
<1>2. Inv => TrailMatches
  BY <1>1 DEF TrailMatches
<1> QED BY <1>2, Invariance, PTL

-----------------------------------------------------------------------------
(* The export *)

ExportRecord == [state : {"idle", "reading", "done"}, status : {"any", "open"},
                 after : Nat \X Nat, rows : Seq(Flag), count : Nat]

Dated == stamp \in [0..MaxRuns -> Nat] /\ opened \in [Comparers -> Nat] /\ clock \in Nat

\* Rows are flags that are there, none twice, up to the last one read.
Read ==
  /\ \A n \in DOMAIN export.rows :
       /\ export.rows[n] \in Present
       /\ Place(export.rows[n]) = export.after \/ Before(Place(export.rows[n]), export.after)
  /\ \A m, n \in DOMAIN export.rows : export.rows[m] = export.rows[n] => m = n

\* A flag that has matched from the start is among the rows, or comes after them.
Ahead(f) ==
  \/ \E n \in DOMAIN export.rows : export.rows[n] = f
  \/ export.state = "reading" /\ (export.rows = <<>> \/ Before(export.after, Place(f)))

Reached ==
  /\ export.state = "reading" => throughout \subseteq Matching
  /\ \A f \in throughout : Ahead(f)

ExportInv == Dated /\ export \in ExportRecord /\ Read /\ Reached

LEMMA BeforeIsStrict ==
  /\ \A p \in Nat \X Nat : ~Before(p, p)
  /\ \A p, q \in Nat \X Nat : Before(p, q) => ~Before(q, p)
  /\ \A p, q, r \in Nat \X Nat : Before(p, q) /\ Before(q, r) => Before(p, r)
BY DEF Before

LEMMA PlaceTyped == ASSUME Dated, NEW f \in Flag PROVE Place(f) \in Nat \X Nat
<1>1. f[1] \in 0..MaxRuns /\ f[2] \in Nat
  BY LinesNumbered DEF Flag
<1> QED BY <1>1 DEF Place, Dated

LEMMA RestFinite ==
  /\ IsFiniteSet(Rest) /\ Cardinality(Rest) \in Nat
  /\ Rest \subseteq Matching /\ Matching \subseteq Present /\ Present \subseteq Flag
  /\ \A f \in Rest : f[1] = Current
<1>1. /\ Rest \subseteq Matching /\ Matching \subseteq Present /\ Present \subseteq Flag
      /\ \A f \in Rest : f[1] = Current
  BY DEF Rest, Matching, InScope, Present
<1>2. MaxRuns \in Nat
  BY BoundsNatural
<1>3. IsFiniteSet(0..MaxRuns)
  BY <1>2, FS_Interval
<1>4. IsFiniteSet(Flag)
  BY <1>3, LinesNumbered, FS_Product DEF Flag
<1>5. IsFiniteSet(Rest)
  BY <1>1, <1>4, FS_Subset
<1> QED BY <1>1, <1>5, FS_CardinalityType

-----------------------------------------------------------------------------
(* Dates: a flag keeps its place *)

LEMMA DatesKept ==
  ASSUME Inv, Dated, Step, ~ExportBegins, ~ExportBatch
  PROVE  /\ Dated' /\ export' = export
         /\ \A f \in Present : f \in Present' /\ Place(f)' = Place(f)
<1> USE DEF Inv
<1>1. ASSUME NEW h \in Comparers, Commit(h)
      PROVE  /\ Dated' /\ export' = export
             /\ \A f \in Present : f \in Present' /\ Place(f)' = Place(f)
  <2>1. PICK flagged \in Verdicts :
          by' = [f \in Flag |-> IF f[1] = run[h] /\ f[2] \in flagged THEN "open" ELSE by[f]]
    BY <1>1 DEF Commit
  <2>2. /\ pc[h] = "write" /\ stamp' = [stamp EXCEPT ![run[h]] = opened[h]]
        /\ opened' = [opened EXCEPT ![h] = 0] /\ clock' = clock /\ export' = export
    BY <1>1 DEF Commit, Finish
  <2>3. \A f \in Present : f \in Flag /\ by[f] # "absent" /\ f[1] # run[h]
    BY <2>2 DEF Present, Unwritten
  <2>4. Dated'
    BY <2>2 DEF Dated
  <2>5. \A f \in Present : f \in Present'
    BY <2>1, <2>3 DEF Present
  <2>6. ASSUME NEW f \in Present PROVE Place(f)' = Place(f)
    <3>1. f[1] \in 0..MaxRuns
      BY <2>3 DEF Flag
    <3> QED BY <2>2, <2>3, <3>1 DEF Place, Dated
  <2> QED BY <2>2, <2>4, <2>5, <2>6
<1>2. ASSUME stamp' = stamp, export' = export, clock' \in Nat, opened' \in [Comparers -> Nat],
             \A f \in Flag : by[f] # "absent" => by'[f] # "absent"
      PROVE  /\ Dated' /\ export' = export
             /\ \A f \in Present : f \in Present' /\ Place(f)' = Place(f)
  BY <1>2 DEF Dated, Present, Place
<1>3. ASSUME NEW h \in Comparers,
             InsertRun(h) \/ OpenTransaction(h) \/ EngineFails(h) \/ FailRun(h) \/ Die(h)
      PROVE  /\ stamp' = stamp /\ export' = export /\ clock' \in Nat /\ opened' \in [Comparers -> Nat]
             /\ by' = by
  <2>1. /\ stamp' = stamp /\ export' = export /\ clock' \in Nat /\ by' = by
        /\ \/ opened' = opened
           \/ opened' = [opened EXCEPT ![h] = clock]
           \/ opened' = [opened EXCEPT ![h] = 0]
    BY <1>3 DEF InsertRun, OpenTransaction, EngineFails, FailRun, Die, Finish, review, Dated
  <2> QED BY <2>1 DEF Dated
<1>4. CASE SweepSelects \/ SweepFails
  <2>1. stamp' = stamp /\ export' = export /\ clock' = clock /\ opened' = opened /\ by' = by
    BY <1>4 DEF SweepSelects, SweepFails, comparison, review
  <2> QED BY <1>2, <2>1 DEF Dated
<1>5. ASSUME NEW u \in Reviewers,
             (\E f \in Flag : Dismiss(u, f) \/ ReadFlag(u, f)) \/ RecordDecision(u)
      PROVE  /\ stamp' = stamp /\ export' = export /\ clock' = clock /\ opened' = opened
             /\ \A f \in Flag : by[f] # "absent" => by'[f] # "absent"
  <2>1. /\ stamp' = stamp /\ export' = export /\ clock' = clock /\ opened' = opened
        /\ by' = by \/ \E f \in Flag : by' = [by EXCEPT ![f] = u]
    BY <1>5 DEF Dismiss, ReadFlag, RecordDecision, comparison, Typed
  <2> QED BY <2>1, NobodyReviews DEF Typed
<1> QED BY <1>1, <1>2, <1>3, <1>4, <1>5 DEF Step, Dated

-----------------------------------------------------------------------------
(* Batches *)

\* How many rows a batch holds.
LEMMA BatchBound ==
  LET size == Min({BatchSize, Cardinality(Rest)})
  IN  /\ size \in Nat /\ size <= Cardinality(Rest) /\ BatchSize \in Nat \ {0}
      /\ size = BatchSize \/ (size < BatchSize /\ size = Cardinality(Rest))
<1> DEFINE size == Min({BatchSize, Cardinality(Rest)})
<1>1. BatchSize \in Nat \ {0} /\ Cardinality(Rest) \in Nat
  BY BatchPositive, RestFinite
<1>2. CASE BatchSize <= Cardinality(Rest)
  <2>1. size \in {BatchSize, Cardinality(Rest)} /\ \A y \in {BatchSize, Cardinality(Rest)} : size <= y
    <3>1. \E x \in {BatchSize, Cardinality(Rest)} : \A y \in {BatchSize, Cardinality(Rest)} : x <= y
      BY <1>1, <1>2
    <3> QED BY <3>1, Zenon DEF Min
  <2> QED BY <1>1, <2>1
<1>3. CASE Cardinality(Rest) < BatchSize
  <2>1. size \in {BatchSize, Cardinality(Rest)} /\ \A y \in {BatchSize, Cardinality(Rest)} : size <= y
    <3>1. \E x \in {BatchSize, Cardinality(Rest)} : \A y \in {BatchSize, Cardinality(Rest)} : x <= y
      BY <1>1, <1>3
    <3> QED BY <3>1, Zenon DEF Min
  <2> QED BY <1>1, <1>3, <2>1
<1> QED BY <1>1, <1>2, <1>3

\* A batch that is not full holds the rest.
LEMMA LastBatch ==
  ASSUME Dated, NEW size \in Nat, size = Cardinality(Rest), NEW s \in Batches(size)
  PROVE  \A f \in Rest : \E i \in 1..size : s[i] = f
<1> DEFINE R == {s[i] : i \in 1..size}
<1>1. s \in [1..size -> Rest] /\ \A i, j \in 1..size : i < j => Before(Place(s[i]), Place(s[j]))
  BY DEF Batches
<1>2. \A i \in 1..size : Place(s[i]) \in Nat \X Nat
  BY <1>1, RestFinite, PlaceTyped
<1>3. \A i, j \in 1..size : s[i] = s[j] => i = j
  <2> SUFFICES ASSUME NEW i \in 1..size, NEW j \in 1..size, s[i] = s[j], i # j PROVE FALSE
    OBVIOUS
  <2>1. i < j \/ j < i
    OBVIOUS
  <2> QED BY <1>1, <1>2, <2>1, BeforeIsStrict
<1>4. R \subseteq Rest /\ s \in Bijection(1..size, R)
  <2>1. R \subseteq Rest /\ s \in [1..size -> R] /\ \A f \in R : \E i \in 1..size : s[i] = f
    BY <1>1
  <2> HIDE DEF R
  <2> QED BY <1>3, <2>1, Zenon DEF Bijection, Injection, Surjection, IsInjective
<1>5. Cardinality(R) = size
  BY <1>4, FS_CountingElements DEF ExistsBijection
<1>6. R = Rest
  BY <1>4, <1>5, RestFinite, FS_Subset
<1> QED BY <1>6

\* There is a batch of every size.
LEMMA BatchThere ==
  ASSUME Dated, NEW size \in Nat, size <= Cardinality(Rest)
  PROVE  Batches(size) # {}
<1> DEFINE Bad == {k \in 0..size : Batches(k) = {}}
<1>1. SUFFICES ASSUME Bad # {} PROVE FALSE
  OBVIOUS
<1>2. Bad \subseteq Nat
  OBVIOUS
<1>3. PICK k \in Bad : \A j \in Bad : ~(<<j, k>> \in OpToRel(<, Nat))
  BY <1>1, <1>2, NatLessThanWellFounded, WFMin, Zenon
<1>4. k \in 0..size /\ Batches(k) = {} /\ \A j \in 0..size : j < k => Batches(j) # {}
  <2>0. k \in Bad
    BY <1>3
  <2>1. k \in 0..size /\ Batches(k) = {} /\ k \in Nat
    BY <2>0
  <2>2. ASSUME NEW j \in 0..size, j < k PROVE Batches(j) # {}
    <3>1. <<j, k>> \in OpToRel(<, Nat)
      BY <2>1, <2>2 DEF OpToRel
    <3>2. j \notin Bad
      BY <1>3, <3>1
    <3> QED BY <3>2
  <2> QED BY <2>1, <2>2
<1> HIDE DEF Bad
<1>5. k # 0
  <2>1. ASSUME k = 0 PROVE [i \in 1..0 |-> i] \in Batches(k)
    <3>1. 1..0 = {}
      OBVIOUS
    <3> QED BY <2>1, <3>1 DEF Batches
  <2> QED BY <1>4, <2>1
<1>6. k - 1 \in 0..size /\ k - 1 < k /\ k - 1 \in Nat
  BY <1>4, <1>5
<1>7. PICK s : s \in Batches(k - 1)
  BY <1>4, <1>6
<1>8. /\ s \in [1..(k - 1) -> Rest]
      /\ \A i, j \in 1..(k - 1) : i < j => Before(Place(s[i]), Place(s[j]))
      /\ \A f \in Rest \ {s[i] : i \in 1..(k - 1)} : \A i \in 1..(k - 1) : Before(Place(s[i]), Place(f))
  BY <1>7 DEF Batches
<1> DEFINE Left == Rest \ {s[i] : i \in 1..(k - 1)}
<1>9. Left # {}
  <2> SUFFICES ASSUME Left = {} PROVE FALSE
    OBVIOUS
  <2>1. s \in Surjection(1..(k - 1), Rest)
    BY <1>8 DEF Surjection
  <2>2. Cardinality(Rest) <= k - 1
    BY <1>6, <2>1, FS_SurjCardinalityBound DEF ExistsSurjection
  <2> QED BY <1>4, <2>2, RestFinite
<1>10. \A f \in Left : f \in Rest /\ f \in Flag /\ f[2] \in Nat
  <2>1. \A f \in Flag : f[2] \in Nat
    BY LinesNumbered DEF Flag
  <2>2. Left \subseteq Rest /\ Rest \subseteq Flag
    BY RestFinite
  <2> QED BY <2>1, <2>2
<1> HIDE DEF Left
<1>11. PICK f \in Left : \A g \in Left : f[2] <= g[2]
  <2> DEFINE N == {g[2] : g \in Left}
  <2>1. N \subseteq Nat /\ N # {}
    BY <1>9, <1>10
  <2>2. PICK n \in N : \A m \in N : ~(<<m, n>> \in OpToRel(<, Nat))
    BY <2>1, NatLessThanWellFounded, WFMin, Zenon
  <2>3. \A m \in N : ~(m < n)
    BY <2>1, <2>2 DEF OpToRel
  <2>4. PICK f \in Left : f[2] = n
    OBVIOUS
  <2>5. \A g \in Left : f[2] <= g[2]
    BY <1>10, <2>3, <2>4
  <2> QED BY <2>5
<1>12. \A g \in Left : g # f => Before(Place(f), Place(g))
  <2> SUFFICES ASSUME NEW g \in Left, g # f PROVE Before(Place(f), Place(g))
    OBVIOUS
  <2>1. f[1] = g[1] /\ f[2] \in Nat /\ g[2] \in Nat /\ f[2] <= g[2]
    BY <1>10, <1>11, RestFinite
  <2>2. f[2] # g[2]
    <3>1. f = <<f[1], f[2]>> /\ g = <<g[1], g[2]>>
      BY <1>10, <1>11 DEF Flag
    <3> QED BY <2>1, <3>1
  <2> QED BY <2>1, <2>2 DEF Before, Place
<1> DEFINE t == [i \in 1..k |-> IF i = k THEN f ELSE s[i]]
<1>13. /\ t \in [1..k -> Rest] /\ t[k] = f /\ k \in 1..k
       /\ \A i \in 1..k : i # k => i \in 1..(k - 1) /\ t[i] = s[i]
  BY <1>4, <1>5, <1>8, <1>10, <1>11
<1>14. \A i \in 1..(k - 1) : i \in 1..k /\ i # k
  BY <1>4, <1>6
<1> HIDE DEF t
<1>15. \A i, j \in 1..k : i < j => Before(Place(t[i]), Place(t[j]))
  <2> SUFFICES ASSUME NEW i \in 1..k, NEW j \in 1..k, i < j PROVE Before(Place(t[i]), Place(t[j]))
    OBVIOUS
  <2>1. i # k
    OBVIOUS
  <2>2. CASE j = k
    BY <1>8, <1>11, <1>13, <2>1, <2>2 DEF Left
  <2>3. CASE j # k
    BY <1>8, <1>13, <2>1, <2>3
  <2> QED BY <2>2, <2>3
<1>16. \A g \in Rest \ {t[i] : i \in 1..k} : \A i \in 1..k : Before(Place(t[i]), Place(g))
  <2> SUFFICES ASSUME NEW g \in Rest \ {t[i] : i \in 1..k}, NEW i \in 1..k
               PROVE  Before(Place(t[i]), Place(g))
    OBVIOUS
  <2>1. g # f /\ g \in Left
    BY <1>13, <1>14 DEF Left
  <2>2. CASE i = k
    BY <1>12, <1>13, <2>1, <2>2
  <2>3. CASE i # k
    BY <1>8, <1>13, <2>1, <2>3 DEF Left
  <2> QED BY <2>2, <2>3
<1>17. t \in Batches(k)
  BY <1>13, <1>15, <1>16 DEF Batches
<1> QED BY <1>4, <1>17

-----------------------------------------------------------------------------
(* The steps of the export *)

LEMMA ExportKept ==
  ASSUME ExportInv, Dated', export' = export,
         \A f \in Present : f \in Present' /\ Place(f)' = Place(f),
         \/ throughout' = {} /\ export.state # "reading"
         \/ throughout' = throughout \cap Matching'
         \/ throughout' = throughout /\ Matching' = Matching
  PROVE  ExportInv'
<1> USE DEF ExportInv
<1>1. Read'
  <2>1. ASSUME NEW n \in DOMAIN export.rows
        PROVE  /\ export.rows[n] \in Present'
               /\ Place(export.rows[n])' = export.after \/ Before(Place(export.rows[n])', export.after)
    BY DEF Read
  <2> QED BY <2>1 DEF Read
<1>2. export.state = "reading" => throughout' \subseteq Matching' /\ throughout' \subseteq Present
  BY RestFinite DEF Reached
<1>3. ASSUME NEW f \in throughout' PROVE Ahead(f)'
  <2>1. f \in throughout /\ Ahead(f)
    BY DEF Reached
  <2>2. export.state = "reading" => Place(f)' = Place(f)
    BY <1>2
  <2> QED BY <2>1, <2>2 DEF Ahead
<1> QED BY <1>1, <1>2, <1>3 DEF Reached

LEMMA ExportStart ==
  ASSUME ExportInv, ExportBegins, throughout' = Matching'
  PROVE  ExportInv'
<1>1. PICK status \in {"any", "open"} :
        export' = [Idle EXCEPT !.state = "reading", !.status = status, !.count = export.count + 1]
  BY DEF ExportBegins
<1>2. /\ export' \in ExportRecord /\ export'.state = "reading" /\ export'.rows = <<>>
  <2>1. export.count + 1 \in Nat
    BY DEF ExportInv, ExportRecord
  <2>2. PICK c \in Nat : c = export.count + 1
    BY <2>1
  <2>3. export' = [state |-> "reading", status |-> status, after |-> <<0, 0>>, rows |-> <<>>, count |-> c]
    BY <1>1, <2>2 DEF Idle
  <2>4. <<>> \in Seq(Flag) /\ <<0, 0>> \in Nat \X Nat
    OBVIOUS
  <2> QED BY <2>3, <2>4 DEF ExportRecord
<1>3. Dated'
  BY DEF ExportInv, Dated, ExportBegins, comparison
<1> QED BY <1>2, <1>3 DEF ExportInv, Read, Reached, Ahead

LEMMA ExportReads ==
  ASSUME ExportInv, ExportBatch, throughout' = throughout \cap Matching'
  PROVE  ExportInv'
<1> DEFINE size == Min({BatchSize, Cardinality(Rest)})
<1>1. /\ size \in Nat /\ (size = BatchSize \/ (size < BatchSize /\ size = Cardinality(Rest)))
      /\ BatchSize \in Nat \ {0}
  BY BatchBound
<1>2. PICK batch \in Batches(size) : export' = [export EXCEPT
        !.rows = @ \o batch,
        !.after = IF size = 0 THEN @ ELSE Place(batch[size]),
        !.state = IF size < BatchSize THEN "done" ELSE "reading"]
  BY DEF ExportBatch
<1>3. /\ export.state = "reading"
      /\ UNCHANGED <<runs, stamp, opened, by, clock>>
  BY DEF ExportBatch, comparison, review
<1> HIDE DEF size
<1>4. /\ batch \in [1..size -> Rest]
      /\ \A i, j \in 1..size : i < j => Before(Place(batch[i]), Place(batch[j]))
      /\ \A f \in Rest \ {batch[i] : i \in 1..size} : \A i \in 1..size : Before(Place(batch[i]), Place(f))
  BY <1>2 DEF Batches
<1>5. /\ batch \in Seq(Flag) /\ Len(batch) = size /\ DOMAIN batch = 1..size
      /\ \A i \in 1..size : batch[i] \in Rest /\ batch[i] \in Present /\ batch[i] \in Flag
  <2>1. \A i \in 1..size : batch[i] \in Rest /\ batch[i] \in Present /\ batch[i] \in Flag
    BY <1>4, RestFinite
  <2>2. batch \in [1..size -> Flag]
    BY <1>4, <2>1
  <2>3. batch \in Seq(Flag)
    BY <1>1, <2>2, IsASeq
  <2> QED BY <1>1, <1>4, <2>1, <2>3, LenProperties
<1>6. Dated /\ Dated' /\ \A i \in 1..size : Place(batch[i]) \in Nat \X Nat
  <2>1. Dated
    BY DEF ExportInv
  <2>2. Dated'
    BY <1>3, <2>1 DEF Dated
  <2> QED BY <1>5, <2>1, <2>2, PlaceTyped
<1>7. PICK rows : rows = export.rows
  OBVIOUS
<1>8. PICK after : after = export.after
  OBVIOUS
<1>9. rows \in Seq(Flag) /\ after \in Nat \X Nat /\ Len(rows) \in Nat /\ DOMAIN rows = 1..Len(rows)
  <2>1. rows \in Seq(Flag) /\ after \in Nat \X Nat
    BY <1>7, <1>8 DEF ExportInv, ExportRecord
  <2> QED BY <2>1
<1>10. PICK read : read = rows \o batch
  OBVIOUS
<1>11. PICK next : next = IF size = 0 THEN after ELSE Place(batch[size])
  OBVIOUS
<1>12. /\ export' \in ExportRecord /\ export'.rows = read /\ export'.after = next
       /\ export'.state = IF size < BatchSize THEN "done" ELSE "reading"
  <2>1. read \in Seq(Flag)
    BY <1>5, <1>9, <1>10, ConcatProperties
  <2>2. next \in Nat \X Nat
    BY <1>1, <1>6, <1>9, <1>11
  <2>3. export' = [export EXCEPT !.rows = read, !.after = next,
                                 !.state = IF size < BatchSize THEN "done" ELSE "reading"]
    BY <1>2, <1>7, <1>8, <1>10, <1>11 DEF ExportInv, ExportRecord
  <2> QED BY <2>1, <2>2, <2>3 DEF ExportInv, ExportRecord
<1>13. /\ DOMAIN read = 1..(Len(rows) + size)
       /\ \A n \in 1..Len(rows) : n \in 1..(Len(rows) + size) /\ read[n] = rows[n]
       /\ \A i \in 1..size : Len(rows) + i \in 1..(Len(rows) + size) /\ read[Len(rows) + i] = batch[i]
       /\ \A n \in 1..(Len(rows) + size) : n \in 1..Len(rows) \/ \E i \in 1..size : n = Len(rows) + i
  <2>1. /\ Len(read) = Len(rows) + size /\ DOMAIN read = 1..(Len(rows) + size)
        /\ \A n \in 1..(Len(rows) + size) :
             read[n] = IF n <= Len(rows) THEN rows[n] ELSE batch[n - Len(rows)]
    <3>1. batch \in Seq(Flag) /\ Len(batch) = size /\ rows \in Seq(Flag)
      BY <1>5, <1>9
    <3>2. read \in Seq(Flag)
      BY <1>10, <3>1, ConcatProperties
    <3>3. Len(read) = Len(rows) + size
      BY <1>10, <3>1, ConcatProperties
    <3>4. \A n \in 1..(Len(rows) + size) :
            read[n] = IF n <= Len(rows) THEN rows[n] ELSE batch[n - Len(rows)]
      BY <1>10, <3>1, ConcatProperties
    <3>5. DOMAIN read = 1..(Len(rows) + size)
      BY <3>2, <3>3, LenProperties
    <3> QED BY <3>3, <3>4, <3>5
  <2>2. \A n \in 1..(Len(rows) + size) : n \notin 1..Len(rows) => n - Len(rows) \in 1..size /\ n = Len(rows) + (n - Len(rows))
    BY <1>1, <1>9
  <2>3. \A i \in 1..size : Len(rows) + i \in 1..(Len(rows) + size) /\ ~(Len(rows) + i <= Len(rows))
                           /\ (Len(rows) + i) - Len(rows) = i
    BY <1>1, <1>9
  <2>4. \A n \in 1..Len(rows) : n \in 1..(Len(rows) + size) /\ n <= Len(rows)
    BY <1>1, <1>9
  <2>5. \A i \in 1..size : read[Len(rows) + i] = batch[i]
    BY <2>1, <2>3
  <2>6. \A n \in 1..(Len(rows) + size) : n \in 1..Len(rows) \/ \E i \in 1..size : n = Len(rows) + i
    BY <2>2
  <2> QED BY <2>1, <2>3, <2>4, <2>5, <2>6
<1>14. \A n \in 1..Len(rows) :
         /\ rows[n] \in Present /\ Place(rows[n]) \in Nat \X Nat
         /\ Place(rows[n]) = after \/ Before(Place(rows[n]), after)
  <2>1. \A n \in 1..Len(rows) : rows[n] \in Present /\ (Place(rows[n]) = after \/ Before(Place(rows[n]), after))
    BY <1>7, <1>8, <1>9 DEF ExportInv, Read
  <2> QED BY <1>6, <2>1, RestFinite, PlaceTyped
<1>15. \A n \in 1..Len(rows), i \in 1..size : Before(Place(rows[n]), Place(batch[i]))
  <2> SUFFICES ASSUME NEW n \in 1..Len(rows), NEW i \in 1..size
               PROVE  Before(Place(rows[n]), Place(batch[i]))
    OBVIOUS
  <2>1. rows # <<>>
    BY <1>9
  <2>2. Before(after, Place(batch[i]))
    BY <1>5, <1>7, <1>8, <2>1 DEF Rest
  <2> QED BY <1>6, <1>9, <1>14, <2>2, BeforeIsStrict
<1>16. \A i \in 1..size : Place(batch[i]) = next \/ Before(Place(batch[i]), next)
  <2> SUFFICES ASSUME NEW i \in 1..size PROVE Place(batch[i]) = next \/ Before(Place(batch[i]), next)
    OBVIOUS
  <2>1. size # 0 /\ size \in 1..size /\ (i = size \/ i < size)
    BY <1>1
  <2> QED BY <1>4, <1>11, <2>1
<1>17. \A n \in 1..Len(rows) : Place(rows[n]) = next \/ Before(Place(rows[n]), next)
  <2>1. CASE size = 0
    BY <1>11, <1>14, <2>1
  <2>2. CASE size # 0
    <3>1. size \in 1..size
      BY <1>1, <2>2
    <3> QED BY <1>11, <1>15, <2>2, <3>1
  <2> QED BY <2>1, <2>2
<1>18. \A i, j \in 1..size : batch[i] = batch[j] => i = j
  <2> SUFFICES ASSUME NEW i \in 1..size, NEW j \in 1..size, batch[i] = batch[j], i # j PROVE FALSE
    OBVIOUS
  <2>1. i < j \/ j < i
    BY <1>1
  <2> QED BY <1>4, <1>6, <2>1, BeforeIsStrict
<1>19. Read'
  <2>1. \A n \in 1..(Len(rows) + size) :
          read[n] \in Present /\ (Place(read[n]) = next \/ Before(Place(read[n]), next))
    <3> SUFFICES ASSUME NEW n \in 1..(Len(rows) + size)
                 PROVE  read[n] \in Present /\ (Place(read[n]) = next \/ Before(Place(read[n]), next))
      OBVIOUS
    <3>1. CASE n \in 1..Len(rows)
      <4>1. read[n] = rows[n]
        BY <1>13, <3>1
      <4> QED BY <1>14, <1>17, <3>1, <4>1
    <3>2. ASSUME NEW i \in 1..size, n = Len(rows) + i
          PROVE  read[n] \in Present /\ (Place(read[n]) = next \/ Before(Place(read[n]), next))
      <4>1. read[n] = batch[i]
        BY <1>13, <3>2
      <4> QED BY <1>5, <1>16, <4>1
    <3> QED BY <1>13, <3>1, <3>2
  <2>2. ASSUME NEW m \in 1..(Len(rows) + size), NEW n \in 1..(Len(rows) + size), read[m] = read[n]
        PROVE  m = n
    <3>1. CASE m \in 1..Len(rows) /\ n \in 1..Len(rows)
      <4>1. rows[m] = rows[n]
        BY <1>13, <2>2, <3>1
      <4> QED BY <1>7, <1>9, <3>1, <4>1 DEF ExportInv, Read
    <3>2. ASSUME NEW k \in 1..Len(rows), NEW i \in 1..size, rows[k] = batch[i] PROVE FALSE
      BY <1>6, <1>15, <3>2, BeforeIsStrict
    <3>3. CASE m \in 1..Len(rows) /\ n \notin 1..Len(rows)
      BY <1>13, <2>2, <3>2, <3>3
    <3>4. CASE m \notin 1..Len(rows) /\ n \in 1..Len(rows)
      BY <1>13, <2>2, <3>2, <3>4
    <3>5. CASE m \notin 1..Len(rows) /\ n \notin 1..Len(rows)
      BY <1>13, <1>18, <2>2, <3>5
    <3> QED BY <3>1, <3>3, <3>4, <3>5
  <2>3. Present' = Present /\ \A f : Place(f)' = Place(f)
    BY <1>3 DEF Present, Place
  <2> QED BY <1>12, <1>13, <2>1, <2>2, <2>3 DEF Read
<1>20. Reached'
  <2>1. ASSUME NEW f \in throughout, ~\E n \in DOMAIN rows : rows[n] = f PROVE f \in Rest
    BY <1>3, <1>7, <2>1 DEF ExportInv, Reached, Ahead, Rest
  <2>2. ASSUME NEW f \in throughout'
        PROVE  Ahead(f)'
    <3>1. f \in throughout
      OBVIOUS
    <3>2. CASE \E n \in DOMAIN rows : rows[n] = f
      <4>1. \E n \in DOMAIN read : read[n] = f
        BY <1>9, <1>13, <3>2
      <4> QED BY <1>12, <4>1 DEF Ahead
    <3>3. CASE f \in Rest /\ \E i \in 1..size : batch[i] = f
      <4>1. \E n \in DOMAIN read : read[n] = f
        BY <1>13, <3>3
      <4> QED BY <1>12, <4>1 DEF Ahead
    <3>4. CASE f \in Rest /\ ~\E i \in 1..size : batch[i] = f
      <4>1. size = BatchSize
        <5>1. ASSUME size = Cardinality(Rest) PROVE FALSE
          BY <1>1, <1>2, <1>6, <3>4, <5>1, LastBatch
        <5> QED BY <1>1, <5>1
      <4>2. size \in 1..size /\ size # 0 /\ ~(size < BatchSize)
        BY <1>1, <4>1
      <4>3. Before(Place(batch[size]), Place(f))
        BY <1>4, <3>4, <4>2
      <4>4. Place(f)' = Place(f)
        BY <1>3 DEF Place
      <4> QED BY <1>11, <1>12, <4>2, <4>3, <4>4 DEF Ahead
    <3> QED BY <2>1, <3>1, <3>2, <3>3, <3>4
  <2> QED BY <2>2 DEF Reached
<1> QED BY <1>6, <1>12, <1>19, <1>20 DEF ExportInv

LEMMA ExportInit == Init => ExportInv
<1> SUFFICES ASSUME Init PROVE ExportInv
  OBVIOUS
<1>1. Dated
  BY DEF Init, Dated
<1>2. export \in ExportRecord /\ export.rows = <<>> /\ export.state = "idle" /\ throughout = {}
  BY DEF Init, Idle, ExportRecord
<1> QED BY <1>1, <1>2 DEF ExportInv, Read, Reached

LEMMA ExportStep == Inv /\ ExportInv /\ [Next]_vars => ExportInv'
<1> SUFFICES ASSUME Inv, ExportInv, [Next]_vars PROVE ExportInv'
  OBVIOUS
<1>1. CASE UNCHANGED vars
  <2>1. /\ UNCHANGED <<runs, stamp, opened, clock, by>>
        /\ export' = export /\ throughout' = throughout
    BY <1>1 DEF vars, comparison, review
  <2>2. Current' = Current
    BY <2>1, SameDone DEF Done
  <2>3. Present' = Present /\ Matching' = Matching /\ Dated' = Dated
    BY <2>1, <2>2 DEF Present, InScope, Matching, Dated
  <2>4. \A f \in Present : f \in Present' /\ Place(f)' = Place(f)
    BY <2>1, <2>3 DEF Place
  <2>5. Dated'
    BY <2>1 DEF Dated, ExportInv
  <2> QED BY <2>1, <2>3, <2>4, <2>5, ExportKept
<1>2. CASE Next
  <2>1. CASE ExportBegins
    <3>1. export'.state = "reading" /\ export.state # "reading"
      BY <2>1 DEF ExportBegins, Idle
    <3>2. throughout' = Matching'
      BY <1>2, <3>1 DEF Next
    <3> QED BY <2>1, <3>2, ExportStart
  <2>2. CASE ExportBatch
    <3>1. export.state = "reading"
      BY <2>2 DEF ExportBatch
    <3>2. throughout' = throughout \cap Matching'
      BY <1>2, <3>1 DEF Next
    <3> QED BY <2>2, <3>2, ExportReads
  <2>3. CASE Step /\ ~ExportBegins /\ ~ExportBatch
    <3>1. /\ Dated' /\ export' = export
          /\ \A f \in Present : f \in Present' /\ Place(f)' = Place(f)
      BY <2>3, DatesKept DEF ExportInv
    <3>2. \/ throughout' = {} /\ export.state # "reading"
          \/ throughout' = throughout \cap Matching'
      BY <1>2, <3>1 DEF Next
    <3> QED BY <3>1, <3>2, ExportKept
  <2> QED BY <1>2, <2>1, <2>2, <2>3 DEF Next
<1> QED BY <1>1, <1>2

\* An export holds every flag that matched from its first to its last batch, and none
\* twice, whatever runs end and flags are closed while it reads, for any sizes of batches
\* (exportFlags).
THEOREM ExportsComplete == Spec => []ExportComplete
<1>1. Init => ExportInv
  BY ExportInit
<1>2. Inv /\ ExportInv => ExportComplete
  <2> SUFFICES ASSUME ExportInv PROVE ExportComplete
    OBVIOUS
  <2>1. ASSUME export.state = "done", NEW f \in throughout
        PROVE  \E n \in DOMAIN export.rows : export.rows[n] = f
    BY <2>1 DEF ExportInv, Reached, Ahead
  <2> QED BY <2>1 DEF ExportInv, Read, ExportComplete
<1> QED BY <1>1, <1>2, ExportStep, Invariance, PTL DEF Spec

\* An export that is reading always has a next batch, so it stops for no want of one
\* (exportFlags).
THEOREM ExportGoesOn ==
  Spec => [](export.state = "reading" => Batches(Min({BatchSize, Cardinality(Rest)})) # {})
<1>1. ExportInv => Batches(Min({BatchSize, Cardinality(Rest)})) # {}
  BY BatchBound, BatchThere DEF ExportInv
<1>2. Init => ExportInv
  BY ExportInit
<1> QED BY <1>1, <1>2, ExportStep, Invariance, PTL DEF Spec
=============================================================================
