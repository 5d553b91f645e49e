------------------------ MODULE BillingWebhookProofs ------------------------
(***************************************************************************)
(* Theorems about BillingWebhook, for every set of workspaces,             *)
(* subscriptions and concurrent deliveries and every bound.                *)
(*                                                                         *)
(* The row a delivery has read under the advisory lock is still the row    *)
(* when it writes (SeenIsRow), because no other delivery for the workspace *)
(* is past the lock (Exclusive).  The checks of upsert(), made on the row  *)
(* read, are then checks of the row written.                               *)
(***************************************************************************)
EXTENDS BillingWebhook, TLAPS

Exclusive == \A g, h \in Handlers :
  pc[g] = "write" /\ pc[h] = "write" /\ event[g].ws = event[h].ws => g = h

SeenIsRow == \A h \in Handlers :
  pc[h] = "write" => seen[h] = row[event[h].ws]

IInv == TypeOK /\ Exclusive /\ SeenIsRow /\ AppliedIsKept

-----------------------------------------------------------------------------

LEMMA InitIInv == Init => IInv
<1> SUFFICES ASSUME Init PROVE IInv
  OBVIOUS
<1>1. TypeOK
  <2>1. ls \in [Subs -> [at : Times, until : Untils, changes : Nat]]
    BY Bounds DEF Init, Times, Untils, Forever
  <2>2. sent \subseteq Event
    BY OthersKnown DEF Init
  <2>3. \A s \in Subs : ls[s].changes <= MaxChanges[s]
    BY Bounds DEF Init
  <2>4. /\ row \in [Workspaces -> Row \cup {NoRow}]
        /\ pc \in [Handlers -> {"idle", "process", "lock", "write"}]
        /\ event \in [Handlers -> Event \cup {NoEvent}]
        /\ seen \in [Handlers -> Row \cup {NoRow}]
    BY DEF Init
  <2> QED BY <2>1, <2>2, <2>3, <2>4, Bounds DEF Init, TypeOK, Times, Configs
<1>2. Exclusive /\ SeenIsRow
  BY DEF Init, Exclusive, SeenIsRow
<1>3. AppliedIsKept
  BY DEF Init, AppliedIsKept
<1> QED BY <1>1, <1>2, <1>3 DEF IInv

-----------------------------------------------------------------------------
(* Types *)

LEMMA TypeOKStep == TypeOK /\ [Next]_vars => TypeOK'
<1> SUFFICES ASSUME TypeOK, [Next]_vars PROVE TypeOK'
  OBVIOUS
<1> USE DEF TypeOK, Times, Untils, Forever, books, handlers
<1>1. CASE Tick
  BY <1>1, Bounds DEF Tick
<1>2. ASSUME NEW s \in Subs, Change(s) PROVE TypeOK'
  <2> PICK u \in Untils, w \in Workspaces :
        /\ ls[s].changes < MaxChanges[s]
        /\ ls' = [ls EXCEPT ![s].at = now, ![s].until = u, ![s].changes = @ + 1]
        /\ sent' = sent \cup {[kind |-> "ours", sub |-> s, ws |-> w, at |-> now, until |-> u]}
    BY <1>2 DEF Change
  <2>1. sent' \subseteq Event
    BY DEF Event, Kinds
  <2>2. UNCHANGED <<now, config, books, row, handlers, faults>>
    BY <1>2 DEF Change
  <2> QED BY <2>1, <2>2
<1>3. ASSUME NEW h \in Handlers, Receive(h) PROVE TypeOK'
  BY <1>3 DEF Receive
<1>4. ASSUME NEW h \in Handlers, Step(h) PROVE TypeOK'
  <2>1. CASE NotOurs(h)
    BY <2>1 DEF NotOurs, Close, Answer
  <2>2. CASE Misconfigured(h)
    BY <2>2 DEF Misconfigured, Answer
  <2>3. CASE CheckElsewhere(h)
    BY <2>3 DEF CheckElsewhere, Close, Answer, Goto
  <2>4. CASE Begin(h)
    BY <2>4 DEF Begin, Event
  <2>5. CASE Reject(h)
    BY <2>5 DEF Reject, Close, Answer
  <2>6. CASE Upsert(h)
    <3>1. event[h] \in Event
      BY <2>6 DEF Upsert
    <3>2. RowOf(event[h]) \in Row
      BY <3>1 DEF RowOf, Row, Event
    <3> QED BY <2>6, <3>2 DEF Upsert, Close, Answer
  <2>7. CASE Duplicate(h)
    BY <2>7 DEF Duplicate, Answer
  <2> QED BY <1>4, <2>1, <2>2, <2>3, <2>4, <2>5, <2>6, <2>7 DEF Step
<1>5. ASSUME NEW h \in Handlers, Fail(h) PROVE TypeOK'
  BY <1>5, Bounds DEF Fail, Answer
<1>6. ASSUME NEW c \in Configs, Configure(c) PROVE TypeOK'
  <2>1. config' \in Configs /\ faults' \in 0..MaxFaults
    BY <1>6, Bounds DEF Configure
  <2> QED BY <1>6, <2>1 DEF Configure
<1>7. CASE UNCHANGED vars
  BY <1>7 DEF vars
<1> QED BY <1>1, <1>2, <1>3, <1>4, <1>5, <1>6, <1>7 DEF Next

-----------------------------------------------------------------------------
(* The lock *)

\* A step that moves one delivery, not past the lock, and writes no row.
LEMMA OutsideLock ==
  ASSUME TypeOK, Exclusive, SeenIsRow, NEW h \in Handlers, row' = row,
         pc'[h] # "write",
         \A g \in Handlers \ {h} : pc'[g] = pc[g] /\ event'[g] = event[g] /\ seen'[g] = seen[g]
  PROVE  Exclusive' /\ SeenIsRow'
BY DEF Exclusive, SeenIsRow

\* A delivery that is answered is no longer past the lock.
LEMMA AnswerMoves ==
  ASSUME TypeOK, NEW h \in Handlers, Answer(h)
  PROVE  /\ pc'[h] # "write"
         /\ \A g \in Handlers \ {h} :
              pc'[g] = pc[g] /\ event'[g] = event[g] /\ seen'[g] = seen[g]
BY DEF TypeOK, Answer

LEMMA LockStep == TypeOK /\ Exclusive /\ SeenIsRow /\ [Next]_vars => Exclusive' /\ SeenIsRow'
<1> SUFFICES ASSUME TypeOK, Exclusive, SeenIsRow, [Next]_vars PROVE Exclusive' /\ SeenIsRow'
  OBVIOUS
<1>1. ASSUME UNCHANGED <<row, handlers>> PROVE Exclusive' /\ SeenIsRow'
  BY <1>1 DEF handlers, Exclusive, SeenIsRow
<1>2. ASSUME NEW h \in Handlers, Receive(h) PROVE Exclusive' /\ SeenIsRow'
  <2>1. row' = row /\ pc'[h] # "write"
    BY <1>2 DEF Receive, TypeOK
  <2>2. \A g \in Handlers \ {h} : pc'[g] = pc[g] /\ event'[g] = event[g] /\ seen'[g] = seen[g]
    BY <1>2 DEF Receive, TypeOK
  <2> QED BY <2>1, <2>2, OutsideLock
<1>3. ASSUME NEW h \in Handlers, Answer(h), row' = row PROVE Exclusive' /\ SeenIsRow'
  BY <1>3, AnswerMoves, OutsideLock
<1>4. ASSUME NEW h \in Handlers, NEW label \in {"process", "lock"}, Goto(h, label), row' = row
      PROVE  Exclusive' /\ SeenIsRow'
  <2>1. pc'[h] # "write"
    BY <1>4 DEF Goto, TypeOK
  <2>2. \A g \in Handlers \ {h} : pc'[g] = pc[g] /\ event'[g] = event[g] /\ seen'[g] = seen[g]
    BY <1>4 DEF Goto, TypeOK
  <2> QED BY <1>4, <2>1, <2>2, OutsideLock
<1>5. ASSUME NEW h \in Handlers, Begin(h) PROVE Exclusive' /\ SeenIsRow'
  <2>1. /\ pc' = [pc EXCEPT ![h] = "write"] /\ event' = event /\ row' = row
        /\ seen' = [seen EXCEPT ![h] = row[event[h].ws]]
        /\ \A g \in Handlers : pc[g] = "write" => event[g].ws # event[h].ws
    BY <1>5 DEF Begin, Free
  <2>2. Exclusive'
    BY <2>1 DEF TypeOK, Exclusive
  <2>3. SeenIsRow'
    BY <2>1 DEF TypeOK, SeenIsRow
  <2> QED BY <2>2, <2>3
<1>6. ASSUME NEW h \in Handlers, Upsert(h) PROVE Exclusive' /\ SeenIsRow'
  <2>1. /\ pc[h] = "write" /\ Answer(h)
        /\ row' = [row EXCEPT ![event[h].ws] = RowOf(event[h])]
    BY <1>6 DEF Upsert
  <2>2. Exclusive'
    BY <2>1, AnswerMoves DEF Exclusive
  <2>3. ASSUME NEW g \in Handlers, pc'[g] = "write" PROVE seen'[g] = row'[event'[g].ws]
    <3>1. g # h /\ pc[g] = "write" /\ event'[g] = event[g] /\ seen'[g] = seen[g]
      BY <2>1, <2>3, AnswerMoves
    <3>2. event[g].ws # event[h].ws
      BY <2>1, <3>1 DEF Exclusive
    <3>3. row'[event[g].ws] = row[event[g].ws]
      <4>1. event[g].ws \in Workspaces
        BY <3>1 DEF TypeOK, Event
      <4> QED BY <2>1, <3>2, <4>1 DEF TypeOK
    <3> QED BY <3>1, <3>3 DEF SeenIsRow
  <2> QED BY <2>2, <2>3 DEF SeenIsRow
<1>7. ASSUME NEW c \in Configs, Configure(c) PROVE Exclusive' /\ SeenIsRow'
  BY <1>7 DEF Configure, Exclusive, SeenIsRow
<1>8. ASSUME NEW h \in Handlers, Step(h) PROVE Exclusive' /\ SeenIsRow'
  <2>1. CASE CheckElsewhere(h)
    BY <2>1, <1>3, <1>4 DEF CheckElsewhere
  <2>2. CASE NotOurs(h) \/ Misconfigured(h) \/ Reject(h) \/ Duplicate(h)
    BY <2>2, <1>3 DEF NotOurs, Misconfigured, Reject, Duplicate
  <2> QED BY <1>5, <1>6, <1>8, <2>1, <2>2 DEF Step
<1>9. ASSUME NEW h \in Handlers, Fail(h) PROVE Exclusive' /\ SeenIsRow'
  BY <1>3, <1>9 DEF Fail
<1> QED BY <1>1, <1>2, <1>7, <1>8, <1>9 DEF Next, Tick, Change, vars, handlers

-----------------------------------------------------------------------------
(* The row *)

\* What upsert() has checked of the row it read holds of the row it writes: the
\* event is not older, and the row's subscription is its own or lapsed.
LEMMA UpsertIsFresh ==
  ASSUME TypeOK, SeenIsRow, NEW h \in Handlers, Upsert(h)
  PROVE  /\ event[h] \in Event
         /\ row' = [row EXCEPT ![event[h].ws] = RowOf(event[h])]
         /\ row[event[h].ws] # NoRow =>
              /\ row[event[h].ws].at <= event[h].at
              /\ Entitled(row[event[h].ws]) => row[event[h].ws].sub = event[h].sub
<1>1. event[h] \in Event /\ pc[h] = "write"
  BY DEF Upsert, TypeOK
<1>2. seen[h] = row[event[h].ws]
  BY <1>1 DEF SeenIsRow
<1>3. row[event[h].ws] \in Row \cup {NoRow}
  BY <1>1 DEF TypeOK, Event
<1>4. ~Stale(h) => (row[event[h].ws] # NoRow => row[event[h].ws].at <= event[h].at)
  BY <1>1, <1>2, <1>3, Bounds DEF Stale, Row, Event, Times
<1> QED BY <1>1, <1>2, <1>4 DEF Upsert, Occupied

\* No other step writes a row.
LEMMA OnlyUpsertWrites == [Next]_vars => row' = row \/ \E h \in Handlers : Upsert(h)
BY DEF Next, vars, Tick, Change, Receive, Step, NotOurs, Misconfigured,
       CheckElsewhere, Begin, Reject, Duplicate, Fail, Configure

LEMMA RowStep == TypeOK /\ SeenIsRow /\ [Next]_vars => Forward /\ Kept
<1> SUFFICES ASSUME TypeOK, SeenIsRow, [Next]_vars PROVE Forward /\ Kept
  OBVIOUS
<1>1. CASE row' = row
  <2>1. \A w \in Workspaces : row[w] # NoRow => row[w].at >= row[w].at
    BY Bounds DEF TypeOK, Row, Times
  <2> QED BY <1>1, <2>1 DEF Forward, Kept
<1>2. ASSUME NEW h \in Handlers, Upsert(h) PROVE Forward /\ Kept
  <2> DEFINE e == event[h]
  <2>1. e \in Event /\ RowOf(e) \in Row
    BY <1>2, UpsertIsFresh DEF RowOf, Row, Event
  <2>2. RowOf(e) # NoRow
    BY <2>1, NoRowFresh
  <2>3. ASSUME NEW w \in Workspaces, row[w] # NoRow
        PROVE  /\ row'[w] # NoRow /\ row'[w].at >= row[w].at
               /\ Entitled(row[w]) => row'[w].sub = row[w].sub
    <3>1. CASE w = e.ws
      <4>1. row'[w] = RowOf(e)
        BY <1>2, <3>1, UpsertIsFresh DEF TypeOK
      <4>2. row[w].at <= e.at /\ (Entitled(row[w]) => row[w].sub = e.sub)
        BY <1>2, <2>3, <3>1, UpsertIsFresh
      <4>3. row[w].at \in Int /\ e.at \in Int
        BY <2>1, <2>3, Bounds DEF TypeOK, Row, Event, Times
      <4> QED BY <2>2, <4>1, <4>2, <4>3 DEF RowOf
    <3>2. CASE w # e.ws
      <4>1. row'[w] = row[w]
        BY <1>2, <3>2, UpsertIsFresh DEF TypeOK
      <4>2. row[w].at \in Int
        BY <2>3, Bounds DEF TypeOK, Row, Times
      <4> QED BY <2>3, <4>1, <4>2
    <3> QED BY <3>1, <3>2
  <2> QED BY <2>3 DEF Forward, Kept
<1> QED BY <1>1, <1>2, OnlyUpsertWrites

\* Events are closed as applied by an upsert, or by an event that is not ours.
LEMMA AppliedStep == TypeOK /\ SeenIsRow /\ AppliedIsKept /\ [Next]_vars => AppliedIsKept'
<1> SUFFICES ASSUME TypeOK, SeenIsRow, AppliedIsKept, [Next]_vars PROVE AppliedIsKept'
  OBVIOUS
<1>1. Forward
  BY RowStep
<1>2. ASSUME (done \ rejected)' \subseteq done \ rejected PROVE AppliedIsKept'
  <2>1. SUFFICES ASSUME NEW e \in done \ rejected, Ours(e)
                 PROVE  row'[e.ws] # NoRow /\ row'[e.ws].at >= e.at
    BY <1>2 DEF AppliedIsKept, Ours
  <2>2. e \in Event /\ row[e.ws] # NoRow /\ row[e.ws].at >= e.at
    BY <2>1 DEF AppliedIsKept, TypeOK
  <2>3. row'[e.ws] # NoRow /\ row'[e.ws].at >= row[e.ws].at
    BY <1>1, <2>2 DEF Forward, Event
  <2>4. row'[e.ws].at \in Int /\ row[e.ws].at \in Int /\ e.at \in Int
    BY <2>2, <2>3, TypeOKStep, Bounds DEF TypeOK, Event, Row, Times
  <2> QED BY <2>2, <2>3, <2>4
<1>3. ASSUME UNCHANGED books PROVE AppliedIsKept'
  BY <1>2, <1>3 DEF books
<1>4. ASSUME NEW h \in Handlers, Close(h, TRUE) PROVE AppliedIsKept'
  BY <1>2, <1>4 DEF Close
<1>5. ASSUME NEW h \in Handlers, NotOurs(h) PROVE AppliedIsKept'
  <2>1. ~Ours(event[h]) /\ row' = row
    BY <1>5 DEF NotOurs
  <2>2. (done \ rejected)' \subseteq (done \ rejected) \cup {event[h]}
    BY <1>5 DEF NotOurs, Close
  <2> QED BY <2>1, <2>2 DEF AppliedIsKept, Ours
<1>6. ASSUME NEW h \in Handlers, Upsert(h) PROVE AppliedIsKept'
  <2> DEFINE e == event[h]
  <2>1. (done \ rejected)' \subseteq (done \ rejected) \cup {e}
    BY <1>6 DEF Upsert, Close
  <2>2. e \in Event /\ row'[e.ws] = RowOf(e)
    BY <1>6, UpsertIsFresh DEF TypeOK, Event
  <2>3. RowOf(e) # NoRow /\ RowOf(e).at >= e.at
    BY <2>2, NoRowFresh, Bounds DEF RowOf, Row, Event, Times
  <2>4. SUFFICES ASSUME NEW f \in done \ rejected, Ours(f)
                 PROVE  row'[f.ws] # NoRow /\ row'[f.ws].at >= f.at
    BY <2>1, <2>2, <2>3 DEF AppliedIsKept, Ours
  <2>5. f \in Event /\ row[f.ws] # NoRow /\ row[f.ws].at >= f.at
    BY <2>4 DEF AppliedIsKept, TypeOK
  <2>6. row'[f.ws] # NoRow /\ row'[f.ws].at >= row[f.ws].at
    BY <1>1, <2>5 DEF Forward, Event
  <2>7. row'[f.ws].at \in Int /\ row[f.ws].at \in Int /\ f.at \in Int
    BY <2>5, <2>6, TypeOKStep, Bounds DEF TypeOK, Event, Row, Times
  <2> QED BY <2>5, <2>6, <2>7
<1>7. ASSUME NEW h \in Handlers, Receive(h) PROVE AppliedIsKept'
  BY <1>2, <1>7 DEF Receive
<1>8. ASSUME NEW h \in Handlers, Step(h) PROVE AppliedIsKept'
  <2>1. CASE CheckElsewhere(h)
    BY <2>1, <1>3, <1>4 DEF CheckElsewhere
  <2>2. CASE Reject(h)
    BY <2>2, <1>4 DEF Reject
  <2>3. CASE Misconfigured(h) \/ Begin(h) \/ Duplicate(h)
    BY <2>3, <1>3 DEF Misconfigured, Begin, Duplicate
  <2> QED BY <1>5, <1>6, <1>8, <2>1, <2>2, <2>3 DEF Step
<1> QED BY <1>3, <1>7, <1>8 DEF Next, Tick, Change, Fail, Configure, vars, books

-----------------------------------------------------------------------------
(* Theorems *)

LEMMA Inductive == Spec => []IInv
<1>1. IInv /\ [Next]_vars => IInv'
  BY TypeOKStep, LockStep, AppliedStep DEF IInv
<1> QED BY <1>1, InitIInv, PTL DEF Spec

\* Every variable keeps its type, and a delivery in progress is on record.
THEOREM WebhookTyping == Spec => []TypeOK
<1>1. IInv => TypeOK
  BY DEF IInv
<1> QED BY <1>1, Inductive, PTL

\* An event recorded as applied is in its workspace's row or superseded there.
THEOREM AppliedKept == Spec => []AppliedIsKept
<1>1. IInv => AppliedIsKept
  BY DEF IInv
<1> QED BY <1>1, Inductive, PTL

\* No row is written from an older event.
THEOREM RowNeverOlder == Spec => NeverOlder
<1>1. IInv /\ [Next]_vars => [Forward]_row
  BY RowStep DEF IInv
<1> QED BY <1>1, Inductive, PTL DEF Spec, NeverOlder

\* No subscription takes the place of one that entitles the workspace.
THEOREM EntitledNotReplaced == Spec => EntitledKept
<1>1. IInv /\ [Next]_vars => [Kept]_row
  BY RowStep DEF IInv
<1> QED BY <1>1, Inductive, PTL DEF Spec, EntitledKept

=============================================================================
