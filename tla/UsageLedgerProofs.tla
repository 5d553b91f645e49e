------------------------- MODULE UsageLedgerProofs --------------------------
(***************************************************************************)
(* Proofs about UsageLedger, for every number of requests, pairs, quotas   *)
(* and windows: typing, no double charge, no unpaid comparison, no charge  *)
(* above its quota, and that the transactions implement QuotaLedger.       *)
(*                                                                         *)
(* The argument rests on the advisory lock: what a request has read inside *)
(* its transaction is still true when it uses it (Accurate, Room), because *)
(* no other request is inside one (Exclusive).                             *)
(***************************************************************************)
EXTENDS UsageLedger, TLAPS

-----------------------------------------------------------------------------
(* The inductive invariant *)

\* The ledger is written by the holder of the lock alone.
Exclusive(r) == req[r].pc \in InTransaction => lock = r

ForPair(r) == req[r].kind = "matched_line"

\* A request about a pair names one, and asks for at least one line.
Named(r) == ForPair(r) => req[r].pair \in Pairs

\* Only a pair has rows of its own to count.
Counting(r) == req[r].pc = "count" => ForPair(r)

\* Past the count, the count is what the ledger holds, and something is due.
Accurate(r) == ForPair(r) /\ req[r].pc \in {"sum", "insert"} =>
  req[r].counted = PaidFor(r) /\ req[r].counted < req[r].lines

\* Past the check, the window has room for what is due.
Room(r) == req[r].pc = "insert" /\ req[r].limit # NoLimit =>
  used[req[r].kind][req[r].window] + Due(r) <= req[r].limit

\* What an entitled request asks for is accounted for in the history.
Recorded(r) == ForPair(r) /\ req[r].pc \in {"lock"} \cup InTransaction =>
  req[r].lines <= asked[Key(r)]

\* What a request let through asked for is paid.
Settled(r) == Enforced /\ ForPair(r) /\ req[r].pc = "through" =>
  PaidFor(r) >= req[r].lines

RequestInv(r) ==
  Exclusive(r) /\ Named(r) /\ Counting(r) /\ Accurate(r) /\ Room(r) /\ Recorded(r) /\ Settled(r)

Inv == TypeOK /\ NeverOvercharged /\ \A r \in Requests : RequestInv(r)

-----------------------------------------------------------------------------
(* Windows *)

\* The window of any entitlement read at a time within bounds is one of Windows,
\* and its start one of Starts.
LEMMA WindowOfType ==
  ASSUME NEW t \in Times, NEW state
  PROVE  WindowOf(state, t) \in Windows
BY DEF WindowOf, Windows

LEMMA WindowStart ==
  ASSUME NEW w \in Windows
  PROVE  w.start \in Starts
BY DEF Starts

\* Every quota is a number, or there is none.
LEMMA QuotaOfType ==
  ASSUME NEW a \in Account, NEW state
  PROVE  QuotaOf(a, state) \in Quotas \cup {NoLimit}
BY QuotasNatural DEF QuotaOf, Account

\* Adding a row of n keeps the sums natural, never lowers one, and raises the sum
\* of a window by n at most.
LEMMA AddedType ==
  ASSUME used \in [Kinds -> [Windows -> Nat]],
         NEW k \in Kinds, NEW t, NEW n \in Nat
  PROVE  /\ Added(k, t, n) \in [Kinds -> [Windows -> Nat]]
         /\ \A w \in Windows : Added(k, t, n)[k][w] <= used[k][w] + n
BY DEF Added

-----------------------------------------------------------------------------
(* The initial state *)

LEMMA InitInv == Init => Inv
<1> SUFFICES ASSUME Init PROVE Inv
    OBVIOUS
<1>1. Trial \in Windows
    BY DEF Windows
<1>2. TypeOK
  <2>1. IdleRequest \in Request
      BY <1>1, TimesAreNatural, LinesNatural
      DEF IdleRequest, Request, Kinds, InTransaction, Times
  <2>2. req \in [Requests -> Request]
      BY <2>1 DEF Init
  <2>3. paid \in [Keys -> Nat] /\ asked \in [Keys -> Nat]
      BY DEF Init
  <2>4. used \in [Kinds -> [Windows -> Nat]]
      BY DEF Init
  <2> QED
      BY <2>2, <2>3, <2>4, TrialInside DEF Init, TypeOK
<1>3. NeverOvercharged
    BY DEF Init, NeverOvercharged
<1>4. \A r \in Requests : RequestInv(r)
    BY DEF Init, IdleRequest, RequestInv, Exclusive, Named, Counting, Accurate, Room, Recorded,
           Settled, ForPair, InTransaction
<1> QED
    BY <1>2, <1>3, <1>4 DEF Inv

-----------------------------------------------------------------------------
(* Steps *)

\* A step that leaves the ledger alone and moves request r only keeps what was
\* true of the others.
LEMMA OthersKept ==
  ASSUME NEW r \in Requests, NEW x \in Requests, x # r,
         TypeOK, RequestInv(x), req'[x] = req[x],
         UNCHANGED <<paid, used>>,
         req[x].pc \in InTransaction => lock' = lock,
         asked \in [Keys -> Nat], asked' \in [Keys -> Nat],
         \A k \in Keys : asked[k] <= asked'[k]
  PROVE  RequestInv(x)'
<1> DEFINE q == req[x]
<1>0. q \in Request
    BY DEF TypeOK
<1>1. Exclusive(x)'
    BY DEF RequestInv, Exclusive
<1>2. Named(x)'
    BY DEF RequestInv, Named, ForPair
<1>3. Accurate(x)' /\ Counting(x)'
    BY DEF RequestInv, Accurate, Counting, ForPair, PaidFor, Key
<1>4. Room(x)'
    BY DEF RequestInv, Room, Due
<1>5. Recorded(x)'
  <2> SUFFICES ASSUME ForPair(x)', req'[x].pc \in {"lock"} \cup InTransaction
               PROVE  q.lines <= asked'[Key(x)]
      BY DEF Recorded, Key
  <2>1. Key(x) \in Keys /\ Key(x)' = Key(x)
      BY <1>0, WindowStart DEF RequestInv, Named, ForPair, Keys, Key, Request
  <2>2. q.lines <= asked[Key(x)]
      BY DEF RequestInv, Recorded, ForPair
  <2>3. asked[Key(x)] <= asked'[Key(x)]
      BY <2>1
  <2> QED
      BY <1>0, <2>1, <2>2, <2>3, LinesNatural DEF Request
<1>6. Settled(x)'
    BY DEF RequestInv, Settled, ForPair, PaidFor, Key
<1> QED
    BY <1>1, <1>2, <1>3, <1>4, <1>5, <1>6 DEF RequestInv

LEMMA TickStep == ASSUME Inv, Tick PROVE Inv'
<1>1. TypeOK'
    BY TimesAreNatural DEF Inv, TypeOK, Tick, Times
<1>2. NeverOvercharged'
    BY DEF Inv, Tick, NeverOvercharged
<1>3. \A r \in Requests : RequestInv(r)'
    BY DEF Inv, Tick, RequestInv, Exclusive, Named, Counting, Accurate, Room, Recorded,
           Settled, ForPair, PaidFor, Key, Due
<1> QED
    BY <1>1, <1>2, <1>3 DEF Inv

LEMMA StutterStep == ASSUME Inv, UNCHANGED vars PROVE Inv'
BY DEF Inv, vars, TypeOK, NeverOvercharged, RequestInv, Exclusive, Named, Counting, Accurate, Room,
       Recorded, Settled, ForPair, PaidFor, Key, Due

\* Steps that leave the ledger and its history alone: it is enough that they keep
\* the types, the request they move, and the lock of a transaction in progress.
LEMMA LedgerUntouched ==
  ASSUME Inv, NEW r \in Requests, NEW q \in Request,
         req' = [req EXCEPT ![r] = q],
         lock' \in Requests \cup {NoRequest},
         \A x \in Requests : x # r /\ lock = x => lock' = x,
         UNCHANGED <<now, paid, used, lastCharge, asked>>,
         RequestInv(r)'
  PROVE  Inv'
<1>1. TypeOK'
    BY DEF Inv, TypeOK
<1>2. NeverOvercharged'
    BY DEF Inv, NeverOvercharged
<1>3. ASSUME NEW x \in Requests, x # r PROVE RequestInv(x)'
  <2>1. req'[x] = req[x]
      BY <1>3 DEF Inv, TypeOK
  <2>2. req[x].pc \in InTransaction => lock' = lock
      BY <1>3 DEF Inv, RequestInv, Exclusive
  <2>3. \A k \in Keys : asked[k] <= asked'[k]
      BY DEF Inv, TypeOK
  <2> QED
      BY <1>1, <1>3, <2>1, <2>2, <2>3, OthersKept DEF Inv, TypeOK
<1> QED
    BY <1>1, <1>2, <1>3 DEF Inv

\* The fields of a request, for the steps that change some of them.
LEMMA RequestFields ==
  ASSUME TypeOK, NEW r \in Requests
  PROVE  /\ req[r] \in Request
         /\ req[r].kind \in Kinds /\ req[r].pair \in Pairs \cup {NoPair}
         /\ req[r].lines \in 0..MaxLines /\ req[r].lines \in Int /\ req[r].at \in Times
         /\ req[r].window \in Windows /\ req[r].limit \in Quotas \cup {NoLimit}
         /\ req[r].counted \in Nat
         /\ ForPair(r) /\ req[r].pair \in Pairs => Key(r) \in Keys
<1>1. req[r] \in Request
    BY DEF TypeOK
<1>2. ForPair(r) /\ req[r].pair \in Pairs => Key(r) \in Keys
    BY <1>1, WindowStart DEF Key, Keys, Request
<1> QED
    BY <1>1, <1>2 DEF Request

LEMMA ArriveStep == ASSUME Inv, NEW r \in Requests, Arrive(r) PROVE Inv'
<1>0. TypeOK /\ req[r].pc = "idle" /\ lock \in Requests \cup {NoRequest}
    BY DEF Inv, TypeOK, Arrive
<1>1. CASE \E p \in Pairs, n \in 1..MaxLines :
             req' = [req EXCEPT ![r] = [@ EXCEPT
               !.pc = "resolve", !.kind = "matched_line", !.pair = p, !.lines = n, !.at = now]]
  <2>1. PICK p \in Pairs, n \in 1..MaxLines :
             req' = [req EXCEPT ![r] = [@ EXCEPT
               !.pc = "resolve", !.kind = "matched_line", !.pair = p, !.lines = n, !.at = now]]
      BY <1>1
  <2> DEFINE q == [req[r] EXCEPT !.pc = "resolve", !.kind = "matched_line",
                                 !.pair = p, !.lines = n, !.at = now]
  <2>0. p \in Pairs /\ n \in 0..MaxLines /\ now \in Times /\ req[r] \in Request
      BY <1>0, <2>1, LinesNatural DEF TypeOK
  <2>2. q \in Request /\ q.pc = "resolve" /\ q.pair \in Pairs
      BY <2>0 DEF Request, Kinds
  <2>3. req'[r] = q
      BY <1>0, <2>1 DEF TypeOK
  <2>4. RequestInv(r)'
      BY <2>2, <2>3 DEF RequestInv, Exclusive, Named, Counting, Accurate, Room, Recorded, Settled,
                        ForPair, InTransaction
  <2> QED
      BY <1>0, <2>1, <2>2, <2>4, LedgerUntouched DEF Arrive
<1>2. CASE req' = [req EXCEPT ![r] = [@ EXCEPT !.pc = "resolve", !.at = now]]
  <2> DEFINE q == [req[r] EXCEPT !.pc = "resolve", !.at = now]
  <2>2. q \in Request /\ q.pc = "resolve" /\ q.pair = req[r].pair /\ q.kind = req[r].kind
      BY <1>0 DEF TypeOK, Request
  <2>3. req'[r] = q
      BY <1>0, <1>2 DEF TypeOK
  <2>4. RequestInv(r)'
      BY <2>2, <2>3 DEF Inv, RequestInv, Exclusive, Named, Counting, Accurate, Room, Recorded,
                        Settled, ForPair, InTransaction
  <2> QED
      BY <1>0, <1>2, <2>2, <2>4, LedgerUntouched DEF Arrive
<1> QED
    BY <1>1, <1>2 DEF Arrive

LEMMA StopStep == ASSUME Inv, NEW r \in Requests, Stop(r) PROVE Inv'
<1> DEFINE q == [req[r] EXCEPT !.pc = "stopped"]
<1>1. q \in Request /\ q.pc = "stopped" /\ q.pair = req[r].pair /\ q.kind = req[r].kind
    BY DEF Inv, TypeOK, Request
<1>2. req' = [req EXCEPT ![r] = q] /\ req'[r] = q
    BY DEF Inv, TypeOK, Stop
<1>3. RequestInv(r)'
    BY <1>1, <1>2 DEF Inv, RequestInv, Exclusive, Named, Counting, Accurate, Room, Recorded,
                      Settled, ForPair, InTransaction
<1> QED
    BY <1>1, <1>2, <1>3, LedgerUntouched DEF Inv, TypeOK, Stop

LEMMA TakeLockStep == ASSUME Inv, NEW r \in Requests, TakeLock(r) PROVE Inv'
<1> DEFINE q == [req[r] EXCEPT !.pc = IF req[r].kind = "matched_line" THEN "count" ELSE "sum"]
<1>1. /\ q \in Request /\ q.pc = (IF req[r].kind = "matched_line" THEN "count" ELSE "sum")
      /\ q.pair = req[r].pair /\ q.kind = req[r].kind /\ q.lines = req[r].lines
      /\ q.window = req[r].window
    BY DEF Inv, TypeOK, Request, InTransaction
<1>2. req' = [req EXCEPT ![r] = q] /\ req'[r] = q
    BY DEF Inv, TypeOK, TakeLock
<1>3. RequestInv(r)'
    BY <1>1, <1>2 DEF Inv, RequestInv, Exclusive, Named, Counting, Accurate, Room, Recorded,
                      Settled, ForPair, Key, InTransaction, TakeLock
<1>4. \A x \in Requests : x # r /\ lock = x => lock' = x
    BY NoRequestFresh DEF TakeLock
<1> QED
    BY <1>1, <1>2, <1>3, <1>4, LedgerUntouched DEF TakeLock

LEMMA CountPaidStep == ASSUME Inv, NEW r \in Requests, CountPaid(r) PROVE Inv'
<1> DEFINE q == [req[r] EXCEPT !.pc = "sum", !.counted = PaidFor(r)]
<1>0. /\ TypeOK /\ Named(r) /\ Recorded(r) /\ Exclusive(r)
      /\ req[r].pc = "count" /\ ForPair(r) /\ req[r] \in Request
    BY DEF Inv, TypeOK, RequestInv, Counting, CountPaid
<1>1. PaidFor(r) \in Nat
    BY <1>0, RequestFields DEF TypeOK, PaidFor, Named
<1>2. /\ q \in Request /\ q.pc = "sum" /\ q.counted = PaidFor(r)
      /\ q.pair = req[r].pair /\ q.kind = req[r].kind /\ q.lines = req[r].lines
      /\ q.window = req[r].window
    BY <1>0, <1>1 DEF Request, InTransaction
<1>3. req' = [req EXCEPT ![r] = q] /\ req'[r] = q
    BY <1>0 DEF TypeOK, CountPaid
<1>4. RequestInv(r)'
    BY <1>0, <1>2, <1>3
    DEF RequestInv, Exclusive, Named, Counting, Accurate, Room, Recorded, Settled, ForPair,
        Key, PaidFor, InTransaction, CountPaid
<1> QED
    BY <1>0, <1>2, <1>3, <1>4, LedgerUntouched DEF TypeOK, CountPaid

LEMMA CheckQuotaStep == ASSUME Inv, NEW r \in Requests, CheckQuota(r) PROVE Inv'
<1> DEFINE q == [req[r] EXCEPT !.pc = "insert"]
<1>0. TypeOK /\ RequestInv(r) /\ req[r].pc = "sum" /\ req[r] \in Request
    BY DEF Inv, TypeOK, CheckQuota
<1>1. /\ q \in Request /\ q.pc = "insert" /\ q.counted = req[r].counted
      /\ q.pair = req[r].pair /\ q.kind = req[r].kind /\ q.lines = req[r].lines
      /\ q.window = req[r].window /\ q.limit = req[r].limit
    BY <1>0 DEF Request, InTransaction
<1>2. req' = [req EXCEPT ![r] = q] /\ req'[r] = q
    BY <1>0 DEF TypeOK, CheckQuota
<1>3. RequestInv(r)'
    BY <1>0, <1>1, <1>2
    DEF RequestInv, Exclusive, Named, Counting, Accurate, Room, Recorded, Settled, ForPair,
        Key, PaidFor, Due, InTransaction, CheckQuota
<1> QED
    BY <1>0, <1>1, <1>2, <1>3, LedgerUntouched DEF TypeOK, CheckQuota

\* The end of a transaction that charged nothing.
LEMMA LeaveStep ==
  ASSUME Inv, NEW r \in Requests, NEW outcome \in {"through", "stopped"},
         Leave(r, outcome), req[r].pc \in InTransaction,
         UNCHANGED <<now, paid, used, lastCharge, asked>>,
         Enforced /\ ForPair(r) /\ outcome = "through" => PaidFor(r) >= req[r].lines
  PROVE  Inv'
<1> DEFINE q == [req[r] EXCEPT !.pc = outcome, !.counted = 0]
<1>0. TypeOK /\ RequestInv(r) /\ req[r] \in Request
    BY DEF Inv, TypeOK
<1>1. /\ q \in Request /\ q.pc = outcome
      /\ q.pair = req[r].pair /\ q.kind = req[r].kind /\ q.lines = req[r].lines
      /\ q.window = req[r].window
    BY <1>0 DEF Request
<1>2. req' = [req EXCEPT ![r] = q] /\ req'[r] = q /\ lock' = NoRequest
    BY <1>0 DEF TypeOK, Leave
<1>3. RequestInv(r)'
    BY <1>0, <1>1, <1>2
    DEF RequestInv, Exclusive, Named, Counting, Accurate, Room, Recorded, Settled, ForPair,
        Key, PaidFor, InTransaction
<1>4. \A x \in Requests : x # r /\ lock = x => lock' = x
    BY <1>0 DEF RequestInv, Exclusive
<1> QED
    BY <1>1, <1>2, <1>3, <1>4, LedgerUntouched

LEMMA AlreadyPaidStep == ASSUME Inv, NEW r \in Requests, AlreadyPaid(r) PROVE Inv'
BY LeaveStep DEF AlreadyPaid, InTransaction

LEMMA OverQuotaStep == ASSUME Inv, NEW r \in Requests, OverQuota(r) PROVE Inv'
BY LeaveStep DEF OverQuota, InTransaction

LEMMA AbortStep == ASSUME Inv, NEW r \in Requests, Abort(r) PROVE Inv'
BY LeaveStep, EnforcedBoolean DEF Abort, InTransaction

LEMMA ResolveStep == ASSUME Inv, NEW r \in Requests, Resolve(r) PROVE Inv'
<1>0. TypeOK /\ RequestInv(r) /\ req[r] \in Request /\ req[r].pc = "resolve"
    BY DEF Inv, TypeOK, Resolve
<1>1. PICK a \in Account :
        LET state == IF Enforced THEN StateAt(a, req[r].at) ELSE "exempt"
            w == WindowOf(state, req[r].at)
            key == <<req[r].pair, w.start>>
        IN  /\ req' = [req EXCEPT ![r] = [@ EXCEPT
                         !.pc = "lock", !.window = w, !.limit = QuotaOf(a, state)]]
            /\ asked' = IF req[r].kind = "matched_line" /\ asked[key] < req[r].lines
                        THEN [asked EXCEPT ![key] = req[r].lines] ELSE asked
            /\ UNCHANGED <<now, lock, paid, used, lastCharge>>
    BY DEF Resolve
<1> DEFINE state == IF Enforced THEN StateAt(a, req[r].at) ELSE "exempt"
           w == WindowOf(state, req[r].at)
           key == <<req[r].pair, w.start>>
           limit == QuotaOf(a, state)
           q == [req[r] EXCEPT !.pc = "lock", !.window = w, !.limit = limit]
<1>2. w \in Windows
    BY <1>0, WindowOfType DEF Request
<1>3. limit \in Quotas \cup {NoLimit}
    BY <1>1, QuotaOfType
<1>4. req' = [req EXCEPT ![r] = q] /\ UNCHANGED <<now, lock, paid, used, lastCharge>>
    BY <1>0, <1>1
<1>5. asked' = IF req[r].kind = "matched_line" /\ asked[key] < req[r].lines
              THEN [asked EXCEPT ![key] = req[r].lines] ELSE asked
    BY <1>1
<1> HIDE DEF state, w, limit
<1>6. /\ q \in Request /\ q.pc = "lock" /\ q.pair = req[r].pair /\ q.kind = req[r].kind
      /\ q.lines = req[r].lines /\ q.window = w
    BY <1>0, <1>2, <1>3 DEF Request
<1>7. req'[r] = q
    BY <1>0, <1>4 DEF TypeOK
<1> HIDE DEF q
<1>8. ForPair(r) => key \in Keys
    BY <1>0, <1>2, WindowStart DEF RequestInv, Named, Keys
<1>9. asked' \in [Keys -> Nat] /\ \A k \in Keys : asked[k] <= asked'[k]
  <2>1. asked \in [Keys -> Nat] /\ req[r].lines \in Nat
      BY <1>0, LinesNatural DEF TypeOK, Request
  <2>2. CASE req[r].kind = "matched_line" /\ asked[key] < req[r].lines
    <3>1. asked' = [asked EXCEPT ![key] = req[r].lines]
        BY <1>5, <2>2
    <3>2. key \in Keys
        BY <1>8, <2>2 DEF ForPair
    <3> HIDE DEF key
    <3>3. asked' \in [Keys -> Nat]
        BY <2>1, <3>1, <3>2
    <3>4. ASSUME NEW k \in Keys PROVE asked[k] <= asked'[k]
      <4>1. asked[key] \in Nat /\ asked[k] \in Nat
          BY <2>1, <3>2
      <4>2. asked'[k] = IF k = key THEN req[r].lines ELSE asked[k]
          BY <2>1, <3>1, <3>2
      <4> QED
          BY <2>1, <2>2, <4>1, <4>2
    <3> QED
        BY <3>3, <3>4
  <2>3. CASE ~(req[r].kind = "matched_line" /\ asked[key] < req[r].lines)
    <3>1. asked' = asked
        BY <1>5, <2>3
    <3> QED
        BY <2>1, <3>1
  <2> QED
      BY <2>2, <2>3
<1>10. TypeOK'
    BY <1>0, <1>4, <1>6, <1>9 DEF TypeOK
<1>11. NeverOvercharged'
  <2> SUFFICES ASSUME NEW k \in Keys PROVE paid[k] <= asked'[k]
      BY <1>4 DEF NeverOvercharged
  <2> QED
      BY <1>0, <1>9 DEF Inv, NeverOvercharged, TypeOK
<1>12. RequestInv(r)'
  <2>1. ForPair(r) => req[r].lines <= asked'[key]
      BY <1>0, <1>5, <1>8, LinesNatural DEF TypeOK, Request, ForPair
  <2> QED
      BY <1>0, <1>6, <1>7, <2>1
      DEF RequestInv, Exclusive, Named, Counting, Accurate, Room, Recorded, Settled,
          ForPair, Key, InTransaction
<1>13. ASSUME NEW x \in Requests, x # r PROVE RequestInv(x)'
    BY <1>0, <1>4, <1>9, <1>13, OthersKept DEF Inv, TypeOK
<1> QED
    BY <1>10, <1>11, <1>12, <1>13 DEF Inv

\* What the holder of the lock inserts: its first row cannot conflict, and what it
\* adds is what is due.
LEMMA Insertion ==
  ASSUME Inv, NEW r \in Requests, InsertRow(r)
  PROVE  /\ ~Conflict(r)
         /\ Due(r) \in Nat \ {0}
         /\ ForPair(r) => /\ Key(r) \in Keys
                          /\ paid[Key(r)] + Due(r) = req[r].lines
                          /\ paid' = [paid EXCEPT ![Key(r)] = req[r].lines]
                          /\ paid[Key(r)] < req[r].lines
         /\ ~ForPair(r) => paid' = paid /\ Due(r) = 1
         /\ used' = Added(req[r].kind, req[r].at, Due(r))
         /\ lastCharge' = [kind |-> req[r].kind, window |-> req[r].window, limit |-> req[r].limit]
<1>0. TypeOK /\ RequestInv(r) /\ req[r] \in Request /\ req[r].pc = "insert"
    BY DEF Inv, TypeOK, InsertRow
<1>1. /\ req[r].lines \in Int /\ req[r].counted \in Nat
      /\ ForPair(r) => Key(r) \in Keys
    BY <1>0, RequestFields DEF RequestInv, Named
<1>2. ForPair(r) => /\ req[r].counted = paid[Key(r)] /\ req[r].counted < req[r].lines
                    /\ paid[Key(r)] \in Nat
    BY <1>0, <1>1 DEF RequestInv, Accurate, PaidFor, TypeOK
<1>3. ~Conflict(r)
    BY <1>2 DEF Conflict, ForPair, PaidFor
<1>4. /\ ForPair(r) => Due(r) = req[r].lines - req[r].counted
      /\ ~ForPair(r) => Due(r) = 1
    BY DEF Due, ForPair
<1>5. Due(r) \in Nat \ {0}
    BY <1>1, <1>2, <1>4
<1>6. ForPair(r) => paid[Key(r)] + Due(r) = req[r].lines
    BY <1>1, <1>2, <1>4
<1>7. /\ ForPair(r) => paid' = [paid EXCEPT ![Key(r)] = paid[Key(r)] + Due(r)]
      /\ ~ForPair(r) => paid' = paid
      /\ used' = Added(req[r].kind, req[r].at, Due(r))
      /\ lastCharge' = [kind |-> req[r].kind, window |-> req[r].window, limit |-> req[r].limit]
    BY <1>3 DEF InsertRow, ForPair
<1> QED
    BY <1>1, <1>2, <1>3, <1>4, <1>5, <1>6, <1>7

LEMMA InsertRowStep == ASSUME Inv, NEW r \in Requests, InsertRow(r) PROVE Inv'
<1> DEFINE q == [req[r] EXCEPT !.pc = "through", !.counted = 0]
<1>0. /\ TypeOK /\ RequestInv(r) /\ req[r] \in Request /\ req[r].pc = "insert"
      /\ req' = [req EXCEPT ![r] = q] /\ req'[r] = q /\ lock' = NoRequest
      /\ now' = now /\ asked' = asked
    BY DEF Inv, TypeOK, InsertRow, Leave
<1>1. /\ q \in Request /\ q.pc = "through"
      /\ q.pair = req[r].pair /\ q.kind = req[r].kind /\ q.lines = req[r].lines
      /\ q.window = req[r].window
    BY <1>0 DEF Request
<1> HIDE DEF q
<1>2. req[r].lines \in Nat /\ req[r].lines \in 0..MaxLines
    BY <1>0, LinesNatural DEF Request
<1>3. paid' \in [Keys -> Nat] /\ \A k \in Keys : paid[k] <= paid'[k]
  <2>1. paid \in [Keys -> Nat]
      BY <1>0 DEF TypeOK
  <2>2. CASE ForPair(r)
    <3>1. Key(r) \in Keys /\ paid[Key(r)] < req[r].lines
          /\ paid' = [paid EXCEPT ![Key(r)] = req[r].lines]
        BY <2>2, Insertion
    <3> QED
        BY <1>2, <2>1, <3>1
  <2>3. CASE ~ForPair(r)
      BY <2>1, <2>3, Insertion
  <2> QED
      BY <2>2, <2>3
<1>4. used' \in [Kinds -> [Windows -> Nat]]
    BY <1>0, Insertion, AddedType DEF TypeOK, Request
<1>5. TypeOK'
  <2>1. req' \in [Requests -> Request]
      BY <1>0, <1>1 DEF TypeOK
  <2>2. lastCharge' \in [kind : Kinds, window : Windows, limit : Quotas \cup {NoLimit}]
      BY <1>0, Insertion, RequestFields
  <2> QED
      BY <1>0, <1>3, <1>4, <2>1, <2>2 DEF TypeOK
<1>6. NeverOvercharged'
  <2> SUFFICES ASSUME NEW k \in Keys PROVE paid'[k] <= asked[k]
      BY <1>0 DEF NeverOvercharged
  <2>1. paid \in [Keys -> Nat] /\ paid[k] <= asked[k]
      BY <1>0 DEF Inv, TypeOK, NeverOvercharged
  <2>2. ForPair(r) => req[r].lines <= asked[Key(r)]
      BY <1>0 DEF RequestInv, Recorded, InTransaction
  <2> QED
      BY <2>1, <2>2, Insertion
<1>7. RequestInv(r)'
  <2>1. ForPair(r) => paid'[Key(r)] = req[r].lines
      BY <1>0, Insertion DEF TypeOK
  <2> QED
      BY <1>0, <1>1, <1>2, <2>1
      DEF RequestInv, Exclusive, Named, Counting, Accurate, Room, Recorded, Settled, ForPair,
          PaidFor, Key, InTransaction
<1>8. ASSUME NEW x \in Requests, x # r PROVE RequestInv(x)'
  <2>1. req'[x] = req[x] /\ req[x].pc \notin InTransaction /\ RequestInv(x) /\ req[x] \in Request
      BY <1>0, <1>8 DEF Inv, TypeOK, RequestInv, Exclusive, InTransaction
  <2>2. Exclusive(x)' /\ Named(x)' /\ Counting(x)' /\ Accurate(x)' /\ Room(x)' /\ Recorded(x)'
      BY <1>0, <2>1
      DEF RequestInv, Exclusive, Named, Counting, Accurate, Room, Recorded, ForPair, Key,
          InTransaction
  <2>3. Settled(x)'
    <3> SUFFICES ASSUME Enforced, ForPair(x), req[x].pc = "through"
                 PROVE  paid'[Key(x)] >= req[x].lines
        BY <2>1 DEF Settled, ForPair, PaidFor, Key
    <3>1. Key(x) \in Keys /\ paid[Key(x)] >= req[x].lines /\ req[x].lines \in Int
        BY <1>0, <2>1, RequestFields DEF RequestInv, Settled, Named, PaidFor
    <3>2. paid[Key(x)] <= paid'[Key(x)] /\ paid[Key(x)] \in Nat /\ paid'[Key(x)] \in Nat
        BY <1>0, <1>3, <3>1 DEF TypeOK
    <3> QED
        BY <3>1, <3>2
  <2> QED
      BY <2>2, <2>3 DEF RequestInv
<1> QED
    BY <1>5, <1>6, <1>7, <1>8 DEF Inv

-----------------------------------------------------------------------------
(* Theorems *)

LEMMA NextInv == Inv /\ [Next]_vars => Inv'
<1> SUFFICES ASSUME Inv, [Next]_vars PROVE Inv'
    OBVIOUS
<1>1. CASE Tick
    BY <1>1, TickStep
<1>2. ASSUME NEW r \in Requests,
             \/ Arrive(r) \/ Resolve(r) \/ Stop(r) \/ TakeLock(r)
             \/ CountPaid(r) \/ AlreadyPaid(r) \/ CheckQuota(r)
             \/ OverQuota(r) \/ InsertRow(r) \/ Abort(r)
      PROVE  Inv'
    BY <1>2, ArriveStep, ResolveStep, StopStep, TakeLockStep, CountPaidStep, AlreadyPaidStep,
       CheckQuotaStep, OverQuotaStep, InsertRowStep, AbortStep
<1>3. CASE UNCHANGED vars
    BY <1>3, StutterStep
<1> QED
    BY <1>1, <1>2, <1>3 DEF Next

LEMMA Invariance == Spec => []Inv
<1>1. Inv /\ [Next]_vars => Inv'
    BY NextInv
<1> QED
    BY InitInv, <1>1, PTL DEF Spec

\* Every variable keeps its type: sums and counts stay natural numbers whatever
\* the workspace's quotas and windows are.
THEOREM Typing == Spec => []TypeOK
<1>1. Inv => TypeOK
    BY DEF Inv
<1> QED
    BY <1>1, Invariance, PTL

\* No pair is charged twice for a line: the ledger never holds more of a pair in a
\* period than the largest comparison of it asked for (reservePairLines).
THEOREM NoDoubleCharge == Spec => []NeverOvercharged
<1>1. Inv => NeverOvercharged
    BY DEF Inv
<1> QED
    BY <1>1, Invariance, PTL

\* With enforcement on, what the gate lets through is in the ledger.
THEOREM NothingUnpaid == Spec => []ThroughIsPaid
<1>1. Inv => ThroughIsPaid
    BY DEF Inv, RequestInv, Settled, ThroughIsPaid, ForPair
<1> QED
    BY <1>1, Invariance, PTL

\* Every step but the insertion of a row leaves the ledger alone.
LEMMA OnlyInsertion ==
  ASSUME Inv, [Next]_vars
  PROVE  \/ UNCHANGED <<paid, used, lastCharge>>
         \/ \E r \in Requests : InsertRow(r)
BY DEF Next, vars, Tick, Arrive, Resolve, Stop, TakeLock, CountPaid, AlreadyPaid, CheckQuota,
       OverQuota, Abort

\* A row never takes the use of the window it was checked in above the quota it
\* was granted under, whatever was inserted since the entitlement was read.
THEOREM WithinQuota == Spec => ChargeWithinQuota
<1>1. ASSUME Inv, [Next]_vars, used' # used, lastCharge'.limit # NoLimit
      PROVE  used'[lastCharge'.kind][lastCharge'.window] <= lastCharge'.limit
  <2>1. PICK r \in Requests : InsertRow(r)
      BY <1>1, OnlyInsertion
  <2>2. /\ req[r].kind \in Kinds /\ req[r].window \in Windows /\ Due(r) \in Nat
        /\ used \in [Kinds -> [Windows -> Nat]]
        /\ req[r].limit \in Quotas \cup {NoLimit}
      BY <1>1, <2>1, Insertion, RequestFields DEF Inv, TypeOK
  <2>3. /\ used' = Added(req[r].kind, req[r].at, Due(r))
        /\ lastCharge'.kind = req[r].kind /\ lastCharge'.window = req[r].window
        /\ lastCharge'.limit = req[r].limit
      BY <1>1, <2>1, Insertion
  <2>4. used[req[r].kind][req[r].window] + Due(r) <= req[r].limit
      BY <1>1, <2>1, <2>3 DEF Inv, RequestInv, Room, InsertRow
  <2>5. /\ used'[req[r].kind][req[r].window] <= used[req[r].kind][req[r].window] + Due(r)
        /\ used'[req[r].kind][req[r].window] \in Nat
        /\ used[req[r].kind][req[r].window] \in Nat
      BY <2>2, <2>3, AddedType
  <2>6. req[r].limit \in Nat
      BY <1>1, <2>2, <2>3, QuotasNatural
  <2> QED
      BY <2>2, <2>3, <2>4, <2>5, <2>6
<1>2. Inv /\ [Next]_vars
        => [used' # used /\ lastCharge'.limit # NoLimit
              => used'[lastCharge'.kind][lastCharge'.window] <= lastCharge'.limit]_vars
    BY <1>1
<1> QED
    BY <1>2, Invariance, PTL DEF Spec, ChargeWithinQuota

\* The windows and their starts are those of the abstract ledger.
LEMMA SameWindows ==
  /\ Atomic!Times = Times /\ Atomic!Windows = Windows /\ Atomic!Starts = Starts
  /\ Atomic!Kinds = Kinds
  /\ \A k, t, n : Atomic!Added(k, t, n) = Added(k, t, n)
BY DEF Times, Windows, Starts, Kinds, Added, Covers, Month, Trial,
       Atomic!Times, Atomic!Windows, Atomic!Starts, Atomic!Kinds, Atomic!Added, Atomic!Covers,
       Atomic!Month, Atomic!Trial

\* An insertion is one charge of the abstract ledger.
LEMMA InsertionCharges ==
  ASSUME Inv, NEW r \in Requests, InsertRow(r)
  PROVE  Atomic!Next
<1>0. /\ TypeOK /\ req[r].window \in Windows /\ req[r].at \in Times
      /\ req[r].limit \in Quotas \cup {NoLimit} /\ req[r].kind \in Kinds
      /\ req[r].limit # NoLimit => used[req[r].kind][req[r].window] + Due(r) <= req[r].limit
    BY RequestFields DEF Inv, TypeOK, RequestInv, Room, InsertRow
<1>1. Atomic!Grant(req[r].kind, req[r].window, Due(r))
    BY <1>0, Insertion DEF Atomic!Grant
<1>2. \E t \in Times : used' = Atomic!Added(req[r].kind, t, Due(r))
    BY <1>0, Insertion, SameWindows
<1>3. CASE ForPair(r)
  <2>1. /\ req[r].pair \in Pairs /\ Key(r) = <<req[r].pair, req[r].window.start>>
        /\ req[r].kind = "matched_line"
      BY <1>3 DEF Inv, RequestInv, Named, ForPair, Key
  <2>2. /\ paid' = [paid EXCEPT ![Key(r)] = req[r].lines]
        /\ paid[Key(r)] + Due(r) = req[r].lines /\ Due(r) \in Nat \ {0}
        /\ Key(r) \in Keys
      BY <1>3, Insertion
  <2>3. paid[Key(r)] \in Nat /\ req[r].lines \in 0..MaxLines
      BY <1>0, <2>2, RequestFields DEF TypeOK
  <2>4. req[r].lines - paid[Key(r)] = Due(r) /\ Due(r) > 0 /\ req[r].lines \in 1..MaxLines
      BY <2>2, <2>3, LinesNatural
  <2>5. Atomic!ChargePair(req[r].pair, req[r].window, req[r].lines)
      BY <1>1, <1>2, <2>1, <2>2, <2>4, SameWindows DEF Atomic!ChargePair
  <2> QED
      BY <1>0, <2>1, <2>4, <2>5, SameWindows DEF Atomic!Next
<1>4. CASE ~ForPair(r)
  <2>1. req[r].kind = "photo_check" /\ Due(r) = 1 /\ paid' = paid
      BY <1>0, <1>4, Insertion DEF ForPair, Kinds
  <2>2. Atomic!ChargePhoto(req[r].window)
      BY <1>1, <1>2, <2>1, SameWindows DEF Atomic!ChargePhoto
  <2> QED
      BY <1>0, <2>2, SameWindows DEF Atomic!Next
<1> QED
    BY <1>3, <1>4

\* The locked transactions implement the atomic ledger: a step is one charge of it,
\* or changes nothing it can see.
THEOREM Refinement == Spec => ImplementsAtomic
<1>1. Init => Atomic!Init
    BY SameWindows DEF Init, Keys, Atomic!Init
<1>2. ASSUME Inv, [Next]_vars PROVE [Atomic!Next]_<<paid, used, lastCharge>>
    BY <1>2, OnlyInsertion, InsertionCharges
<1>3. Inv /\ [Next]_vars => [Atomic!Next]_<<paid, used, lastCharge>>
    BY <1>2
<1> QED
    BY <1>1, <1>3, Invariance, PTL DEF Spec, ImplementsAtomic, Atomic!Spec
=============================================================================
