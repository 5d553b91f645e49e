------------------------------ MODULE WebSession -----------------------------
(***************************************************************************)
(* How a browser keeps its session: the two cookies, the navigations that  *)
(* renew them (apps/web, middleware.ts) and the data calls of open pages   *)
(* that do (src/lib/api/client.ts), against refresh() of the API           *)
(* (auth.service.ts), which takes a token it has rotated for a theft.      *)
(*                                                                         *)
(* The pages share the cookies, but not the promise that makes the calls   *)
(* of one page share a refresh.                                            *)
(***************************************************************************)
EXTENDS Integers, Sequences, FiniteSets

CONSTANTS
  Pages,       \* pages (tabs) of one browser
  Calls,       \* data calls a page may have under way
  MaxTokens,   \* mnemra_at expires while fewer refresh tokens have been issued
  MaxFaults    \* bound on answers that are lost

ConstantsTyped == MaxTokens \in Nat \ {0} /\ MaxFaults \in Nat

VARIABLES
  cookie,      \* mnemra_rt, and whether mnemra_at is there
  live,        \* of each refresh token issued, whether it may be used
  page,        \* closed, loading, open, or at the login page
  call,        \* what each data call has reached
  refresh,     \* the refresh a page is waiting for
  faults,
  crossed      \* history: a token was sent by two pages at once

vars == <<cookie, live, page, call, refresh, faults, crossed>>

None == [pc |-> "none", sent |-> 0, token |-> 0]
NoCalls == [c \in Calls |-> "idle"]

Init ==
  /\ live = <<TRUE>> /\ cookie = [rt |-> 1, at |-> TRUE]
  /\ page = [p \in Pages |-> "closed"]
  /\ call = [p \in Pages |-> NoCalls]
  /\ refresh = [p \in Pages |-> None]
  /\ faults = 0 /\ crossed = FALSE

\* A request to refresh leaves with the cookies of this moment.
Send(p) ==
  /\ refresh' = [refresh EXCEPT ![p] = [pc |-> "sent", sent |-> cookie.rt, token |-> 0]]
  /\ crossed' = (crossed \/ \E q \in Pages \ {p} : refresh[q].pc # "none" /\ refresh[q].sent = cookie.rt)

-----------------------------------------------------------------------------
(* middleware() *)

\* A page is opened or left for another; without an access token the session is renewed
\* first.  The calls of the page that is left are forgotten.
Navigate(p) ==
  /\ page[p] \in {"closed", "open"} /\ refresh[p].pc = "none"
  /\ call' = [call EXCEPT ![p] = NoCalls]
  /\ \/ cookie.at /\ page' = [page EXCEPT ![p] = "open"] /\ UNCHANGED <<refresh, crossed>>
     \/ ~cookie.at /\ page' = [page EXCEPT ![p] = "loading"] /\ Send(p)
  /\ UNCHANGED <<cookie, live, faults>>

-----------------------------------------------------------------------------
(* apiFetch() *)

\* A call is answered according to the cookies it was sent with; the answer may be late.
Call(p, c) ==
  /\ page[p] = "open" /\ call[p][c] = "idle"
  /\ call' = [call EXCEPT ![p][c] = IF cookie.at THEN "accepted" ELSE "refused"]
  /\ UNCHANGED <<cookie, live, page, refresh, faults, crossed>>

\* Mutant of InFlight: every 401 starts a refresh of its own.
InFlightNever(p) == FALSE

\* refreshInFlight
InFlight(p) == refresh[p].pc # "none"

\* 401: the call waits for the refresh that is under way, or starts one.
Unauthorized(p, c) ==
  /\ call[p][c] = "refused"
  /\ call' = [call EXCEPT ![p][c] = "waiting"]
  /\ IF InFlight(p) THEN UNCHANGED <<refresh, crossed>> ELSE Send(p)
  /\ UNCHANGED <<cookie, live, page, faults>>

\* The call is sent once more.  If it is refused again, the page goes to the login page.
Retry(p, c) ==
  /\ call[p][c] = "retry"
  /\ call' = [call EXCEPT ![p][c] = "idle"]
  /\ page' = [page EXCEPT ![p] = IF cookie.at THEN @ ELSE "login"]
  /\ UNCHANGED <<cookie, live, refresh, faults, crossed>>

Succeed(p, c) ==
  /\ call[p][c] = "accepted"
  /\ call' = [call EXCEPT ![p][c] = "idle"]
  /\ UNCHANGED <<cookie, live, page, refresh, faults, crossed>>

-----------------------------------------------------------------------------
(* refresh() of the API, and its answer *)

\* The token is looked up.  One that was rotated or revoked ends every session.
Check(p) == LET t == refresh[p].sent IN
  /\ refresh[p].pc = "sent"
  /\ IF live[t]
     THEN refresh' = [refresh EXCEPT ![p].pc = "rotate"] /\ UNCHANGED live
     ELSE refresh' = [refresh EXCEPT ![p].pc = "denied"] /\ live' = [n \in DOMAIN live |-> FALSE]
  /\ UNCHANGED <<cookie, page, call, faults, crossed>>

\* The token is revoked and another issued, in one transaction.
Rotate(p) ==
  /\ refresh[p].pc = "rotate"
  /\ live' = Append([live EXCEPT ![refresh[p].sent] = FALSE], TRUE)
  /\ refresh' = [refresh EXCEPT ![p].pc = "renewed", ![p].token = Len(live) + 1]
  /\ UNCHANGED <<cookie, page, call, faults, crossed>>

\* Mutant of Resume: only a refresh that succeeds wakes the calls that wait for it.
ResumeRenewed(p, renewed) ==
  /\ refresh' = [refresh EXCEPT ![p] = None]
  /\ IF page[p] = "loading"
     THEN page' = [page EXCEPT ![p] = IF renewed THEN "open" ELSE "login"] /\ UNCHANGED call
     ELSE /\ call' = [call EXCEPT ![p] = [c \in Calls |->
                IF renewed /\ @[c] = "waiting" THEN "retry" ELSE @[c]]]
          /\ page' = [page EXCEPT ![p] = IF renewed THEN @ ELSE "login"]

\* What the page does when its refresh is over.
Resume(p, renewed) ==
  /\ refresh' = [refresh EXCEPT ![p] = None]
  /\ IF page[p] = "loading"
     THEN page' = [page EXCEPT ![p] = IF renewed THEN "open" ELSE "login"] /\ UNCHANGED call
     ELSE /\ call' = [call EXCEPT ![p] = [c \in Calls |->
                IF @[c] # "waiting" THEN @[c] ELSE IF renewed THEN "retry" ELSE "idle"]]
          /\ page' = [page EXCEPT ![p] = IF renewed THEN @ ELSE "login"]

\* The browser stores both cookies.
Renewed(p) ==
  /\ refresh[p].pc = "renewed"
  /\ cookie' = [rt |-> refresh[p].token, at |-> TRUE]
  /\ Resume(p, TRUE)
  /\ UNCHANGED <<live, faults, crossed>>

Denied(p) ==
  /\ refresh[p].pc = "denied"
  /\ Resume(p, FALSE)
  /\ UNCHANGED <<cookie, live, faults, crossed>>

\* The answer is lost: the token was rotated, and nobody has the new one.
Lost(p) ==
  /\ faults < MaxFaults /\ faults' = faults + 1
  /\ refresh[p].pc = "renewed"
  /\ Resume(p, FALSE)
  /\ UNCHANGED <<cookie, live, crossed>>

\* mnemra_at expires after a quarter of an hour: no call waits that long to be sent again.
Expire ==
  /\ cookie.at /\ Len(live) < MaxTokens
  /\ \A p \in Pages, c \in Calls : call[p][c] # "retry"
  /\ cookie' = [cookie EXCEPT !.at = FALSE]
  /\ UNCHANGED <<live, page, call, refresh, faults, crossed>>

-----------------------------------------------------------------------------

Answer(p) == Check(p) \/ Rotate(p) \/ Renewed(p) \/ Denied(p)

Next ==
  \/ Expire
  \/ \E p \in Pages : Navigate(p) \/ Answer(p) \/ Lost(p)
  \/ \E p \in Pages, c \in Calls : Call(p, c) \/ Unauthorized(p, c) \/ Retry(p, c) \/ Succeed(p, c)

Spec == Init /\ [][Next]_vars

-----------------------------------------------------------------------------
(* Properties *)

TypeOK ==
  /\ cookie \in [rt : DOMAIN live, at : BOOLEAN]
  /\ live \in Seq(BOOLEAN)
  /\ page \in [Pages -> {"closed", "loading", "open", "login"}]
  /\ call \in [Pages -> [Calls -> {"idle", "accepted", "refused", "waiting", "retry"}]]
  /\ refresh \in [Pages -> [pc : {"none", "sent", "rotate", "renewed", "denied"}, sent : 0..Len(live),
                           token : 0..Len(live)]]
  /\ faults \in 0..MaxFaults /\ crossed \in BOOLEAN

LoggedOut == \E p \in Pages : page[p] = "login"

\* "This only eliminates the false-positive logout case": nobody signs out here, and no
\* refresh token expires, so nobody should be sent to the login page.  The code keeps that
\* promise for pages that refresh one at a time, however many of their calls are
\* refused at once and however late the answers come.
KeptUnlessCrossed == LoggedOut => crossed \/ faults > 0

\* No call is left waiting for a refresh that has ended, whichever call started it and
\* however it ended.
NobodyStranded == \A p \in Pages, c \in Calls : call[p][c] = "waiting" => refresh[p].pc # "none"
=============================================================================
