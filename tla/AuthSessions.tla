---------------------------- MODULE AuthSessions ----------------------------
(***************************************************************************)
(* One account (auth.service.ts): its registration, the codes that verify  *)
(* it, its sign-ins and the refresh tokens that keep its sessions open.    *)
(* Every step of a request is one statement or one transaction, so steps   *)
(* of concurrent requests interleave.                                      *)
(*                                                                         *)
(* Timestamps that the code only compares with the present are flags here: *)
(* `live` is expires_at > now, `revoked` is revoked_at is not null.        *)
(***************************************************************************)
EXTENDS Naturals, Sequences

CONSTANTS
  Handlers,      \* requests that may be in progress at once
  MaxAttempts,   \* MAX_OTP_ATTEMPTS
  MaxResends,    \* MAX_OTP_RESENDS
  MaxFailures,   \* MAX_LOGIN_FAILURES
  MaxCodes,      \* bound on the codes of the account
  MaxTokens,     \* bound on its refresh tokens
  MaxEras,       \* bound on the times every session is ended
  MaxFaults      \* bound on deaths of requests and on failures of Redis

ConstantsTyped ==
  /\ {MaxAttempts, MaxResends, MaxFailures} \subseteq Nat \ {0}
  /\ {MaxCodes, MaxTokens, MaxEras, MaxFaults} \subseteq Nat

VARIABLES
  account,       \* the row of users: none, or by is_verified
  trials,        \* workspaces created with a trial for this user
  otps,          \* its rows, in the order of created_at
  tokens,        \* refresh_tokens
  failures,      \* the Redis counter of sign-in attempts
  resends,       \* the Redis counter of resent codes
  pc,            \* what each request has reached
  subject,       \* the code or token it is about, 0 for none
  faults,
  era,           \* history: how many times every session was ended
  crossed        \* history: two requests that make a code overlapped, or one died half-way

users == <<account, trials>>
limits == <<failures, resends>>
request == <<pc, subject>>
vars == <<users, otps, tokens, limits, request, faults, era, crossed>>

Code == [live : BOOLEAN, used : BOOLEAN, attempts : Nat,
         sent : BOOLEAN,       \* history: the e-mail went out
         lapsed : BOOLEAN,     \* history: its ten minutes passed
         guesses : Nat]        \* history: comparisons with it

Token == [revoked : BOOLEAN, expired : BOOLEAN,
          era : Nat,           \* history: the era its session began in
          late : BOOLEAN,      \* history: it, or one it descends from, was issued for a revoked one
          heirs : Nat,         \* history: the tokens it was exchanged for
          raced : BOOLEAN]     \* history: two refreshes of it overlapped

NewCode == [live |-> TRUE, used |-> FALSE, attempts |-> 0,
            sent |-> FALSE, lapsed |-> FALSE, guesses |-> 0]
NewToken == [revoked |-> FALSE, expired |-> FALSE, era |-> era, late |-> FALSE,
             heirs |-> 0, raced |-> FALSE]
Heir(t) == [NewToken EXCEPT !.era = tokens[t].era, !.late = tokens[t].late \/ tokens[t].revoked]

Init ==
  /\ account = "none" /\ trials = 0
  /\ otps = <<>> /\ tokens = <<>>
  /\ failures = 0 /\ resends = 0
  /\ pc = [h \in Handlers |-> "idle"]
  /\ subject = [h \in Handlers |-> 0]
  /\ faults = 0 /\ era = 0 /\ crossed = FALSE

Goto(h, label, s) ==
  /\ pc' = [pc EXCEPT ![h] = label]
  /\ subject' = [subject EXCEPT ![h] = s]

\* The request is answered, with success or not.
Answer(h) == Goto(h, "idle", 0)

\* Where a request that makes a code can be.
Making == {"firstCode", "sendFirst", "newCode", "send", "retire", "kill"}

\* Every place a request can be, and those at which it is about a code or a token.
Places == Making \cup {"idle", "insertUser", "reserve", "compare", "claim",
                       "password", "clear", "clearOnly", "reused", "rotate", "change"}
AboutCode == {"sendFirst", "send", "retire", "kill", "compare", "claim"}
AboutToken == {"reused", "rotate"}

-----------------------------------------------------------------------------
(* register() *)

\* The e-mail is free; the password is then hashed.
Register(h) ==
  /\ pc[h] = "idle" /\ account = "none"
  /\ Goto(h, "insertUser", 0)
  /\ UNCHANGED <<users, otps, tokens, limits, faults, era, crossed>>

\* users.email is unique: of two registrations one inserts, the other fails.
InsertUser(h) ==
  /\ pc[h] = "insertUser"
  /\ IF account = "none"
     THEN account' = "unverified" /\ Goto(h, "firstCode", 0)
     ELSE UNCHANGED account /\ Answer(h)
  /\ UNCHANGED <<trials, otps, tokens, limits, faults, era, crossed>>

InsertCode(h, from, to) ==
  /\ pc[h] = from
  /\ Len(otps) < MaxCodes
  /\ otps' = Append(otps, NewCode)
  /\ Goto(h, to, Len(otps) + 1)
  /\ UNCHANGED <<users, tokens, limits, faults, era>>

FirstCode(h) == InsertCode(h, "firstCode", "sendFirst") /\ UNCHANGED crossed

\* The code stays live when sendOtp() fails: there is no older one to fall back on.
SendFirst(h) ==
  /\ pc[h] = "sendFirst"
  /\ \/ otps' = [otps EXCEPT ![subject[h]].sent = TRUE]
     \/ UNCHANGED otps
  /\ Answer(h)
  /\ UNCHANGED <<users, tokens, limits, faults, era, crossed>>

-----------------------------------------------------------------------------
(* resendOtp() *)

Spare == resends < MaxResends

\* takeOtpResend() counts and refuses; when Redis fails it lets the resend through.
Resend(h) ==
  /\ pc[h] = "idle" /\ account = "unverified"
  /\ \/ Spare /\ resends' = resends + 1 /\ UNCHANGED faults
     \/ faults < MaxFaults /\ faults' = faults + 1 /\ UNCHANGED resends
  /\ Goto(h, "newCode", 0)
  /\ crossed' = (crossed \/ \E g \in Handlers : pc[g] \in Making)
  /\ UNCHANGED <<users, otps, tokens, failures, era>>

SecondCode(h) == InsertCode(h, "newCode", "send") /\ UNCHANGED crossed

Send(h) ==
  /\ pc[h] = "send"
  /\ \/ /\ otps' = [otps EXCEPT ![subject[h]].sent = TRUE]
        /\ Goto(h, "retire", subject[h])
     \/ Goto(h, "kill", subject[h]) /\ UNCHANGED otps
  /\ UNCHANGED <<users, tokens, limits, faults, era, crossed>>

\* Mutant of Kill: the code that was not sent stays live.
KillNothing(h) ==
  /\ pc[h] = "kill"
  /\ Answer(h)
  /\ UNCHANGED <<users, otps, tokens, limits, faults, era, crossed>>

\* A failed send: the new code is killed, the older ones stay.
Kill(h) ==
  /\ pc[h] = "kill"
  /\ otps' = [otps EXCEPT ![subject[h]].live = FALSE]
  /\ Answer(h)
  /\ UNCHANGED <<users, tokens, limits, faults, era, crossed>>

\* Every unused code but the new one.
Retire(h) ==
  /\ pc[h] = "retire"
  /\ otps' = [c \in DOMAIN otps |->
       IF c = subject[h] \/ otps[c].used THEN otps[c] ELSE [otps[c] EXCEPT !.live = FALSE]]
  /\ Answer(h)
  /\ UNCHANGED <<users, tokens, limits, faults, era, crossed>>

-----------------------------------------------------------------------------
(* verifyOtp() *)

Verify(h) ==
  /\ pc[h] = "idle" /\ account = "unverified"
  /\ Goto(h, "reserve", 0)
  /\ UNCHANGED <<users, otps, tokens, limits, faults, era, crossed>>

Live == {c \in DOMAIN otps : otps[c].live /\ ~otps[c].used}
Newest(c) == c \in Live /\ \A d \in Live : d <= c

\* Mutant of Open: the update does not check failed_attempts.
OpenAlways(c) == Newest(c)

Open(c) == Newest(c) /\ otps[c].attempts < MaxAttempts

\* An attempt on the newest live code, in one statement.
Reserve(h) ==
  /\ pc[h] = "reserve"
  /\ \/ \E c \in DOMAIN otps :
          /\ Open(c)
          /\ otps' = [otps EXCEPT ![c].attempts = @ + 1]
          /\ Goto(h, "compare", c)
     \/ /\ \A c \in DOMAIN otps : ~Open(c)
        /\ Answer(h) /\ UNCHANGED otps
  /\ UNCHANGED <<users, tokens, limits, faults, era, crossed>>

\* Only a code that was sent is guessed right.
Compare(h) ==
  /\ pc[h] = "compare"
  /\ otps' = [otps EXCEPT ![subject[h]].guesses = @ + 1]
  /\ \/ otps[subject[h]].sent /\ Goto(h, "claim", subject[h])
     \/ Answer(h)
  /\ UNCHANGED <<users, tokens, limits, faults, era, crossed>>

\* Mutant of Unclaimed: the transaction does not check is_verified.
UnclaimedAlways == TRUE

Unclaimed == account = "unverified"

\* The account, the code, its workspace with a trial, and a session: one transaction.
Claim(h) ==
  /\ pc[h] = "claim"
  /\ IF Unclaimed
     THEN /\ Len(tokens) < MaxTokens
          /\ account' = "verified"
          /\ trials' = trials + 1
          /\ otps' = [otps EXCEPT ![subject[h]].used = TRUE]
          /\ tokens' = Append(tokens, NewToken)
     ELSE UNCHANGED <<users, otps, tokens>>
  /\ Answer(h)
  /\ UNCHANGED <<limits, faults, era, crossed>>

-----------------------------------------------------------------------------
(* login() and AuthLimitsService *)

\* takeLoginAttempt(): counted before any password work; refused at the limit.
\* When Redis fails the attempt is let through uncounted.
Login(h) ==
  /\ pc[h] = "idle" /\ account # "none"
  /\ Goto(h, "password", 0)
  /\ \/ failures < MaxFailures /\ failures' = failures + 1 /\ UNCHANGED faults
     \/ faults < MaxFaults /\ faults' = faults + 1 /\ UNCHANGED failures
  /\ UNCHANGED <<users, otps, tokens, resends, era, crossed>>

\* bcrypt: wrong or right.  The row of users was read with the hash.
CheckPassword(h) ==
  /\ pc[h] = "password"
  /\ \/ Answer(h)
     \/ Goto(h, IF account = "verified" THEN "clear" ELSE "clearOnly", 0)
  /\ UNCHANGED <<users, otps, tokens, limits, faults, era, crossed>>

\* clearLoginFailures() and issueTokens(); an account that is not verified is
\* refused after the first.
SignIn(h) ==
  /\ pc[h] \in {"clear", "clearOnly"}
  /\ \/ failures' = 0 /\ UNCHANGED faults
     \/ /\ faults < MaxFaults /\ faults' = faults + 1
        /\ UNCHANGED <<failures>>
  /\ IF pc[h] = "clear"
     THEN Len(tokens) < MaxTokens /\ tokens' = Append(tokens, NewToken)
     ELSE UNCHANGED tokens
  /\ Answer(h)
  /\ UNCHANGED <<users, otps, resends, era, crossed>>

-----------------------------------------------------------------------------
(* refresh(), logout() and changePassword() *)

Usable(t) == ~tokens[t].revoked /\ ~tokens[t].expired

\* Mutant of Refresh: a token that was revoked is exchanged like any other.
RefreshRevoked(h) == \E t \in DOMAIN tokens :
  /\ pc[h] = "idle"
  /\ ~tokens[t].expired
  /\ Goto(h, "rotate", t)
  /\ tokens' = [tokens EXCEPT ![t].raced = @ \/ \E g \in Handlers : pc[g] = "rotate" /\ subject[g] = t]
  /\ UNCHANGED <<users, otps, limits, faults, era, crossed>>

\* The token is read.  One that is unknown or has expired is refused, which
\* changes nothing; one that was revoked ends every session.
Refresh(h) == \E t \in DOMAIN tokens :
  /\ pc[h] = "idle"
  /\ tokens[t].revoked \/ Usable(t)
  /\ Goto(h, IF tokens[t].revoked THEN "reused" ELSE "rotate", t)
  /\ tokens' = [tokens EXCEPT ![t].raced =
       @ \/ (Usable(t) /\ \E g \in Handlers : pc[g] = "rotate" /\ subject[g] = t)]
  /\ UNCHANGED <<users, otps, limits, faults, era, crossed>>

\* Mutant of EndAll: only the token at hand.
EndOne(h) == [t \in DOMAIN tokens |->
  IF t = subject[h] THEN [tokens[t] EXCEPT !.revoked = TRUE] ELSE tokens[t]]

\* Every token of the user that is not revoked yet.
EndAll(h) == [t \in DOMAIN tokens |-> [tokens[t] EXCEPT !.revoked = TRUE]]

EndSessions(h) ==
  /\ pc[h] \in {"reused", "change"}
  /\ era < MaxEras
  /\ tokens' = EndAll(h)
  /\ era' = era + 1
  /\ Answer(h)
  /\ UNCHANGED <<users, otps, limits, faults, crossed>>

\* The old token is revoked, whatever became of it, and a new one issued: one
\* transaction.
Rotate(h) ==
  /\ pc[h] = "rotate"
  /\ Len(tokens) < MaxTokens
  /\ tokens' = Append([tokens EXCEPT ![subject[h]].revoked = TRUE, ![subject[h]].heirs = @ + 1],
                      Heir(subject[h]))
  /\ Answer(h)
  /\ UNCHANGED <<users, otps, limits, faults, era, crossed>>

\* The current password was given; the new hash and the end of every session are
\* one transaction (EndSessions).
ChangePassword(h) ==
  /\ pc[h] = "idle" /\ account = "verified"
  /\ Goto(h, "change", 0)
  /\ UNCHANGED <<users, otps, tokens, limits, faults, era, crossed>>

Logout == \E t \in DOMAIN tokens :
  /\ ~tokens[t].revoked
  /\ tokens' = [tokens EXCEPT ![t].revoked = TRUE]
  /\ UNCHANGED <<users, otps, limits, request, faults, era, crossed>>

-----------------------------------------------------------------------------
(* Time and failures *)

\* A code that is used, or a token that is revoked, may expire unnoticed.
CodeLapses == \E c \in DOMAIN otps :
  /\ otps[c].live /\ ~otps[c].used
  /\ otps' = [otps EXCEPT ![c].live = FALSE, ![c].lapsed = TRUE]
  /\ UNCHANGED <<users, tokens, limits, request, faults, era, crossed>>

TokenExpires == \E t \in DOMAIN tokens :
  /\ Usable(t)
  /\ tokens' = [tokens EXCEPT ![t].expired = TRUE]
  /\ UNCHANGED <<users, otps, limits, request, faults, era, crossed>>

\* A counter reaches its TTL.
WindowEnds ==
  /\ \/ failures > 0 /\ failures' = 0 /\ UNCHANGED resends
     \/ resends > 0 /\ resends' = 0 /\ UNCHANGED <<failures>>
  /\ UNCHANGED <<users, otps, tokens, request, faults, era, crossed>>

\* A statement of the request fails, or its process dies.
Die(h) ==
  /\ pc[h] # "idle"
  /\ faults < MaxFaults /\ faults' = faults + 1
  /\ crossed' = (crossed \/ pc[h] \in Making)
  /\ Answer(h)
  /\ UNCHANGED <<users, otps, tokens, limits, era>>

Next ==
  \/ \E h \in Handlers :
       \/ Register(h) \/ InsertUser(h) \/ FirstCode(h) \/ SendFirst(h)
       \/ Resend(h) \/ SecondCode(h) \/ Send(h) \/ Kill(h) \/ Retire(h)
       \/ Verify(h) \/ Reserve(h) \/ Compare(h) \/ Claim(h)
       \/ Login(h) \/ CheckPassword(h) \/ SignIn(h)
       \/ Refresh(h) \/ EndSessions(h) \/ Rotate(h) \/ ChangePassword(h)
       \/ Die(h)
  \/ Logout \/ CodeLapses \/ TokenExpires \/ WindowEnds

Spec == Init /\ [][Next]_vars

-----------------------------------------------------------------------------
(* Properties *)

TypeOK ==
  /\ account \in {"none", "unverified", "verified"} /\ trials \in Nat
  /\ otps \in Seq(Code) /\ Len(otps) <= MaxCodes
  /\ tokens \in Seq(Token) /\ Len(tokens) <= MaxTokens
  /\ failures \in Nat /\ resends \in 0..MaxResends
  /\ pc \in [Handlers -> Places] /\ subject \in [Handlers -> Nat]
  /\ \A h \in Handlers :
       /\ pc[h] \in AboutCode => subject[h] \in DOMAIN otps
       /\ pc[h] \in AboutToken => subject[h] \in DOMAIN tokens
  /\ faults \in 0..MaxFaults /\ era \in Nat /\ crossed \in BOOLEAN

\* Guesses sent at the same time get at most MAX_OTP_ATTEMPTS comparisons with a
\* code between them.
GuessesBounded == \A c \in DOMAIN otps : otps[c].guesses <= MaxAttempts

\* A user starts one trial: two right codes at once create one workspace.
OneTrial == trials = (IF account = "verified" THEN 1 ELSE 0)

\* Resends keep the user a working code, whether their e-mails go out or not: when
\* none is in progress and one of the codes the user was sent can still be in its
\* ten minutes, the code that would be accepted is one the user was sent.
\* Excepted: resends that overlapped each other or the registration, or died half-way.
KeepsWorkingCode ==
  /\ account = "unverified" /\ ~crossed
  /\ \A h \in Handlers : pc[h] \notin Making
  /\ \E c \in DOMAIN otps : otps[c].sent /\ \A d \in c..Len(otps) : ~otps[d].lapsed
  => \E c \in DOMAIN otps : Newest(c) /\ otps[c].sent

\* A refresh token is exchanged for one other, unless two refreshes had read it
\* before either ended.
OneHeir == \A t \in DOMAIN tokens : tokens[t].heirs <= 1 \/ tokens[t].raced

\* Once every session was ended, by a change of password or by the reuse of a
\* token, no token of a session that began before is usable.  Excepted: the tokens
\* of a refresh that had read its own before that token was revoked.  (A sign-in
\* that checked the old password in time begins its session when it ends.)
SessionsEnded == \A t \in DOMAIN tokens : Usable(t) => tokens[t].era = era \/ tokens[t].late
=============================================================================
