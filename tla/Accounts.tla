------------------------------ MODULE Accounts ------------------------------
(***************************************************************************)
(* Users and their access: an account and its refresh tokens               *)
(* (AuthSessions), the browser that keeps one of them (WebSession), and    *)
(* the members of a workspace (Membership).                                *)
(*                                                                         *)
(* They meet in two interfaces only: WebSession has its own short refresh()*)
(* of the API, and Membership takes a signed-in user for granted.  So a    *)
(* behaviour follows one of the three, named by `focus`.                   *)
(***************************************************************************)
EXTENDS Membership

CONSTANTS
  Handlers, MaxAttempts, MaxResends, MaxFailures, MaxCodes, MaxEras, \* of AuthSessions
  Pages, Calls,                                                      \* of WebSession
  MaxTokens, MaxFaults                                               \* of both

VARIABLES
  account, trials, otps, tokens, failures, resends, pc, subject, era, authFaults, authCrossed,
  cookie, live, page, call, refresh, webFaults, webCrossed,
  focus

Auth == INSTANCE AuthSessions WITH faults <- authFaults, crossed <- authCrossed
Web == INSTANCE WebSession WITH faults <- webFaults, crossed <- webCrossed

ASSUME ConstantsOfParts == Auth!ConstantsTyped /\ Web!ConstantsTyped

authVars == <<account, trials, otps, tokens, failures, resends, pc, subject, authFaults, era, authCrossed>>
webVars == <<cookie, live, page, call, refresh, webFaults, webCrossed>>
accountsVars == <<authVars, webVars, vars, focus>>

AccountsInit ==
  /\ focus \in {"account", "browser", "members"}
  /\ Auth!Init /\ Web!Init /\ Init

AccountsNext ==
  /\ \/ focus = "account" /\ Auth!Next /\ UNCHANGED <<webVars, vars>>
     \/ focus = "browser" /\ Web!Next /\ UNCHANGED <<authVars, vars>>
     \/ focus = "members" /\ Next /\ UNCHANGED <<authVars, webVars>>
  /\ UNCHANGED focus

AccountsSpec == AccountsInit /\ [][AccountsNext]_accountsVars

-----------------------------------------------------------------------------
(* Properties, with those of Membership *)

\* The codes of an account (AuthSessions): guesses sent at once are bounded, resends
\* that overlap guesses keep the user a working code, and right codes at once start one
\* trial.
CodesGuarded == Auth!GuessesBounded /\ Auth!KeepsWorkingCode /\ Auth!OneTrial

\* The sessions of an account (AuthSessions): a refresh token has one heir unless refreshes
\* raced, and none outlives the end of every session unless it was being exchanged.
SessionsGuarded == Auth!OneHeir /\ Auth!SessionsEnded

\* A browser is not signed out unless two pages renewed with one token, or an answer was
\* lost; and no call of a page waits for a refresh that is over (WebSession).
BrowserKept == Web!KeptUnlessCrossed /\ Web!NobodyStranded
=============================================================================
