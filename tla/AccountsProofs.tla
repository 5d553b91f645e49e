---------------------------- MODULE AccountsProofs ----------------------------
(***************************************************************************)
(* Theorems about Accounts, for any requests, pages, users and bounds.     *)
(***************************************************************************)
EXTENDS Accounts, FiniteSetTheorems, SequenceTheorems, TLAPS

-----------------------------------------------------------------------------
(* Sequences of rows *)

LEMMA RowAppended ==
  ASSUME NEW S, NEW s \in Seq(S), NEW e \in S
  PROVE  /\ Append(s, e) \in Seq(S) /\ Len(Append(s, e)) = Len(s) + 1
         /\ DOMAIN s \subseteq DOMAIN Append(s, e)
         /\ DOMAIN Append(s, e) = DOMAIN s \cup {Len(s) + 1}
         /\ Len(s) + 1 \notin DOMAIN s
         /\ \A n \in DOMAIN s : Append(s, e)[n] = s[n]
         /\ Append(s, e)[Len(s) + 1] = e
  BY AppendProperties

LEMMA RowChanged ==
  ASSUME NEW S, NEW s \in Seq(S), NEW n \in DOMAIN s, NEW e \in S
  PROVE  /\ [s EXCEPT ![n] = e] \in Seq(S) /\ Len([s EXCEPT ![n] = e]) = Len(s)
         /\ DOMAIN [s EXCEPT ![n] = e] = DOMAIN s
         /\ [s EXCEPT ![n] = e][n] = e
         /\ \A m \in DOMAIN s : m # n => [s EXCEPT ![n] = e][m] = s[m]
  BY ExceptSeq, LenProperties

LEMMA RowsMapped ==
  ASSUME NEW S, NEW s \in Seq(S), NEW f \in [DOMAIN s -> S]
  PROVE  f \in Seq(S) /\ Len(f) = Len(s) /\ DOMAIN f = DOMAIN s
  BY IsASeq, LenProperties

-----------------------------------------------------------------------------
(* The account: types *)

LEMMA AuthBounds ==
  /\ MaxAttempts \in Nat /\ MaxResends \in Nat /\ MaxFailures \in Nat /\ MaxCodes \in Nat
  /\ MaxTokens \in Nat /\ MaxEras \in Nat /\ MaxFaults \in Nat
  <1>1. {MaxAttempts, MaxResends, MaxFailures, MaxCodes, MaxTokens, MaxEras, MaxFaults} \subseteq Nat
    BY ConstantsOfParts DEF Auth!ConstantsTyped
  <1> QED
    BY <1>1

LEMMA AuthInitTyped == Auth!Init => Auth!TypeOK
  <1> SUFFICES ASSUME Auth!Init PROVE Auth!TypeOK
    OBVIOUS
  <1> USE AuthBounds DEF Auth!Init
  <1>1. otps \in Seq(Auth!Code) /\ tokens \in Seq(Auth!Token) /\ Len(otps) = 0 /\ Len(tokens) = 0
    OBVIOUS
  <1>2. pc \in [Handlers -> Auth!Places] /\ subject \in [Handlers -> Nat]
    BY DEF Auth!Places
  <1>3. \A h \in Handlers : pc[h] \notin Auth!AboutCode /\ pc[h] \notin Auth!AboutToken
    BY DEF Auth!AboutCode, Auth!AboutToken
  <1>4. /\ account \in {"none", "unverified", "verified"} /\ trials \in Nat
        /\ failures \in Nat /\ resends \in 0..MaxResends
        /\ authFaults \in 0..MaxFaults /\ era \in Nat
    OBVIOUS
  <1>5. authCrossed \in BOOLEAN
    OBVIOUS
  <1> HIDE DEF Auth!Init
  <1> QED
    BY <1>1, <1>2, <1>3, <1>4, <1>5 DEF Auth!TypeOK

Routed ==
  /\ pc \in [Handlers -> Auth!Places] /\ subject \in [Handlers -> Nat]
  /\ \A h \in Handlers :
       /\ pc[h] \in Auth!AboutCode => subject[h] \in DOMAIN otps
       /\ pc[h] \in Auth!AboutToken => subject[h] \in DOMAIN tokens

Counted ==
  /\ account \in {"none", "unverified", "verified"} /\ trials \in Nat
  /\ failures \in Nat /\ resends \in 0..MaxResends
  /\ authFaults \in 0..MaxFaults /\ era \in Nat /\ authCrossed \in BOOLEAN

StoredCodes == otps \in Seq(Auth!Code) /\ Len(otps) <= MaxCodes
StoredTokens == tokens \in Seq(Auth!Token) /\ Len(tokens) <= MaxTokens

LEMMA TypedParts == Auth!TypeOK <=> Routed /\ Counted /\ StoredCodes /\ StoredTokens
  BY DEF Auth!TypeOK, Routed, Counted, StoredCodes, StoredTokens

\* Where a request goes, its code or token is there.
LEMMA GotoTyped ==
  ASSUME Routed, NEW h \in Handlers, NEW label \in Auth!Places, NEW s \in Nat,
         Auth!Goto(h, label, s),
         DOMAIN otps \subseteq DOMAIN otps', DOMAIN tokens \subseteq DOMAIN tokens',
         label \in Auth!AboutCode => s \in DOMAIN otps',
         label \in Auth!AboutToken => s \in DOMAIN tokens'
  PROVE  Routed'
  BY DEF Routed, Auth!Goto

\* A request that goes nowhere in particular.
LEMMA FreeTyped ==
  ASSUME Routed, NEW h \in Handlers,
         NEW label \in {"idle", "insertUser", "firstCode", "newCode", "reserve", "password", "clear", 
                        "clearOnly", "change"},
         Auth!Goto(h, label, 0),
         DOMAIN otps \subseteq DOMAIN otps', DOMAIN tokens \subseteq DOMAIN tokens'
  PROVE  Routed'
  <1>1. label \in Auth!Places /\ label \notin Auth!AboutCode /\ label \notin Auth!AboutToken
    BY DEF Auth!Places, Auth!Making, Auth!AboutCode, Auth!AboutToken
  <1> QED
    BY <1>1, GotoTyped DEF Auth!Goto


LEMMA CountedStep ==
  ASSUME Counted, Auth!Next PROVE Counted'
  <1> USE AuthBounds DEF Counted, Auth!users, Auth!limits, Auth!request, Auth!Goto, Auth!Answer
  <1>1. ASSUME NEW h \in Handlers, Auth!Register(h) \/ Auth!InsertUser(h) \/ Auth!FirstCode(h) \/ Auth!SendFirst(h)
        PROVE Counted'
    BY <1>1 DEF Auth!Register, Auth!InsertUser, Auth!FirstCode, Auth!InsertCode, Auth!SendFirst
  <1>2. ASSUME NEW h \in Handlers, Auth!Resend(h)
        PROVE Counted'
    BY <1>2 DEF Auth!Resend, Auth!Spare
  <1>3. ASSUME NEW h \in Handlers, Auth!SecondCode(h) \/ Auth!Send(h) \/ Auth!Kill(h) \/ Auth!Retire(h)
        PROVE Counted'
    BY <1>3 DEF Auth!SecondCode, Auth!InsertCode, Auth!Send, Auth!Kill, Auth!Retire
  <1>4. ASSUME NEW h \in Handlers, Auth!Verify(h) \/ Auth!Reserve(h) \/ Auth!Compare(h) \/ Auth!Claim(h)
        PROVE Counted'
    BY <1>4 DEF Auth!Verify, Auth!Reserve, Auth!Compare, Auth!Claim
  <1>5. ASSUME NEW h \in Handlers, Auth!Login(h) \/ Auth!CheckPassword(h)
        PROVE Counted'
    BY <1>5 DEF Auth!Login, Auth!CheckPassword
  <1>6. ASSUME NEW h \in Handlers, Auth!SignIn(h) PROVE Counted'
    BY <1>6 DEF Auth!SignIn
  <1>7. ASSUME NEW h \in Handlers, Auth!Refresh(h) \/ Auth!EndSessions(h) \/ Auth!Rotate(h) \/ Auth!ChangePassword(h)
        PROVE Counted'
    BY <1>7 DEF Auth!Refresh, Auth!EndSessions, Auth!Rotate, Auth!ChangePassword
  <1>8. ASSUME NEW h \in Handlers, Auth!Die(h) PROVE Counted'
    BY <1>8 DEF Auth!Die
  <1>9. CASE Auth!Logout \/ Auth!CodeLapses \/ Auth!TokenExpires
    BY <1>9 DEF Auth!Logout, Auth!CodeLapses, Auth!TokenExpires
  <1>10. CASE Auth!WindowEnds
    BY <1>10 DEF Auth!WindowEnds
  <1> QED
    BY <1>1, <1>2, <1>3, <1>4, <1>5, <1>6, <1>7, <1>8, <1>9, <1>10 DEF Auth!Next

-----------------------------------------------------------------------------
(* The account: its inductive invariant *)

Comparing(c) == {h \in Handlers : pc[h] = "compare" /\ subject[h] = c}
Makers == {h \in Handlers : pc[h] \in Auth!Making}
Rotating(t) == {h \in Handlers : pc[h] = "rotate" /\ subject[h] = t}

\* A comparison has an attempt of its own, taken before it.
Reserved == \A c \in DOMAIN otps :
  /\ IsFiniteSet(Comparing(c))
  /\ otps[c].guesses + Cardinality(Comparing(c)) <= otps[c].attempts
  /\ otps[c].attempts <= MaxAttempts

\* Nothing is made for an account that is not there, and a code is used by the
\* transaction that verifies the account.
Begun ==
  /\ account = "none" => Len(otps) = 0 /\ Makers = {}
  /\ account # "verified" => \A c \in DOMAIN otps : ~otps[c].used
  /\ trials = (IF account = "verified" THEN 1 ELSE 0)

InTime(c) == otps[c].live \/ otps[c].lapsed

\* Of the first n codes, the last that was sent died of nothing but age, and those after
\* it are dead.
Works(n) ==
  \/ \A c \in 1..n : ~otps[c].sent
  \/ \E c \in 1..n : /\ otps[c].sent /\ InTime(c)
                     /\ \A d \in (c + 1)..n : ~otps[d].sent /\ ~otps[d].live

\* What a request that makes a code has done so far.
Made(h) ==
  /\ pc[h] = "firstCode" => Len(otps) = 0
  /\ pc[h] = "sendFirst" => Len(otps) = 1 /\ subject[h] = 1 /\ InTime(1)
  /\ pc[h] = "newCode" => Works(Len(otps))
  /\ pc[h] \in {"send", "kill"} =>
       subject[h] = Len(otps) /\ Works(Len(otps) - 1) /\ ~otps[Len(otps)].sent
  /\ pc[h] \in {"send", "retire"} => subject[h] = Len(otps) /\ InTime(Len(otps))
  /\ pc[h] = "retire" => otps[Len(otps)].sent

\* Requests that make codes one at a time leave one that works.
Orderly == account = "unverified" /\ ~authCrossed =>
  /\ \A g, h \in Makers : g = h
  /\ \A h \in Makers : Made(h)
  /\ Makers = {} => Works(Len(otps))

\* A token that was exchanged is revoked, and a refresh that has read it in time either
\* exchanges it for the first time or was seen by another.
Exchanged == \A t \in DOMAIN tokens :
  /\ tokens[t].heirs = 0 \/ tokens[t].revoked
  /\ tokens[t].raced \/ /\ tokens[t].heirs <= 1
                        /\ \A g, h \in Rotating(t) : g = h
                        /\ Rotating(t) # {} => tokens[t].heirs = 0

\* What is not revoked began since every session was ended last, or is late.
Current == \A t \in DOMAIN tokens : tokens[t].revoked \/ tokens[t].era = era \/ tokens[t].late

AuthInv == Auth!TypeOK /\ Reserved /\ Begun /\ Orderly /\ Exchanged /\ Current

-----------------------------------------------------------------------------
(* What each statement does to the codes *)

SentKept == \A c \in DOMAIN otps : otps'[c].sent = otps[c].sent
TimeKept == \A c \in DOMAIN otps : otps'[c].live = otps[c].live /\ otps'[c].lapsed = otps[c].lapsed
UseKept == \A c \in DOMAIN otps : otps'[c].used = otps[c].used
TriesKept == \A c \in DOMAIN otps :
  otps'[c].attempts = otps[c].attempts /\ otps'[c].guesses = otps[c].guesses

\* No code is added or taken away.
InPlace == StoredCodes' /\ Len(otps') = Len(otps) /\ DOMAIN otps' = DOMAIN otps

LEMMA CodeColumns ==
  ASSUME NEW c \in Auth!Code
  PROVE  /\ [c EXCEPT !.sent = TRUE] \in Auth!Code
         /\ [c EXCEPT !.live = FALSE] \in Auth!Code
         /\ [c EXCEPT !.used = TRUE] \in Auth!Code
         /\ [c EXCEPT !.attempts = c.attempts + 1] \in Auth!Code
         /\ [c EXCEPT !.guesses = c.guesses + 1] \in Auth!Code
         /\ [c EXCEPT !.live = FALSE, !.lapsed = TRUE] \in Auth!Code
  <1>1. [c EXCEPT !.sent = TRUE] \in Auth!Code
    BY DEF Auth!Code
  <1>2. [c EXCEPT !.live = FALSE] \in Auth!Code
    BY DEF Auth!Code
  <1>3. [c EXCEPT !.used = TRUE] \in Auth!Code
    BY DEF Auth!Code
  <1>4. [c EXCEPT !.attempts = c.attempts + 1] \in Auth!Code
    BY DEF Auth!Code
  <1>5. [c EXCEPT !.guesses = c.guesses + 1] \in Auth!Code
    BY DEF Auth!Code
  <1>6. [c EXCEPT !.live = FALSE, !.lapsed = TRUE] \in Auth!Code
    BY DEF Auth!Code
  <1> QED
    BY <1>1, <1>2, <1>3, <1>4, <1>5, <1>6

\* One column of one code, or what is expected of it, changes.
LEMMA CodeChanged ==
  ASSUME StoredCodes, NEW c \in DOMAIN otps, NEW e \in Auth!Code, otps' = [otps EXCEPT ![c] = e]
  PROVE  /\ InPlace /\ otps'[c] = e
         /\ \A d \in DOMAIN otps : d # c => otps'[d] = otps[d]
  BY RowChanged DEF StoredCodes, InPlace

LEMMA InsertEffect ==
  ASSUME StoredCodes, NEW h \in Handlers, Auth!FirstCode(h) \/ Auth!SecondCode(h)
  PROVE  /\ StoredCodes' /\ Len(otps') = Len(otps) + 1 /\ DOMAIN otps' = DOMAIN otps \cup {Len(otps) + 1}
         /\ Len(otps) + 1 \notin DOMAIN otps
         /\ \A c \in DOMAIN otps : otps'[c] = otps[c]
         /\ otps'[Len(otps) + 1] = Auth!NewCode
  <1>1. Auth!NewCode \in Auth!Code
    BY DEF Auth!NewCode, Auth!Code
  <1>2. Len(otps) < MaxCodes /\ otps' = Append(otps, Auth!NewCode)
    BY DEF Auth!FirstCode, Auth!SecondCode, Auth!InsertCode
  <1> QED
    BY <1>1, <1>2, RowAppended, AuthBounds DEF StoredCodes

LEMMA SendEffect ==
  ASSUME StoredCodes, Routed, NEW h \in Handlers, Auth!SendFirst(h) \/ Auth!Send(h)
  PROVE  /\ InPlace /\ TimeKept /\ UseKept /\ TriesKept
         /\ \A c \in DOMAIN otps : c # subject[h] => otps'[c].sent = otps[c].sent
         /\ UNCHANGED otps \/ otps'[subject[h]].sent
         /\ otps' = [otps EXCEPT ![subject[h]].sent = TRUE] => otps'[subject[h]].sent
  <1> DEFINE c == subject[h]  e == [otps[c] EXCEPT !.sent = TRUE]
  <1>1. c \in DOMAIN otps /\ otps' \in {otps, [otps EXCEPT ![c] = e]}
    BY DEF Auth!SendFirst, Auth!Send, Routed, Auth!AboutCode
  <1>2. otps[c] \in Auth!Code /\ e \in Auth!Code
    <2>1. otps[c] \in Auth!Code
      BY <1>1, ElementOfSeq DEF StoredCodes
    <2> QED
      BY <2>1, CodeColumns
  <1>3. e.sent /\ e.live = otps[c].live /\ e.lapsed = otps[c].lapsed /\ e.used = otps[c].used
        /\ e.attempts = otps[c].attempts /\ e.guesses = otps[c].guesses
    BY <1>2 DEF Auth!Code
  <1>4. CASE otps' # [otps EXCEPT ![c] = e]
    <2>1. UNCHANGED otps /\ otps' # [otps EXCEPT ![subject[h]].sent = TRUE]
      BY <1>1, <1>4
    <2> QED
      BY <2>1 DEF InPlace, TimeKept, UseKept, TriesKept, StoredCodes
  <1>5. CASE otps' = [otps EXCEPT ![c] = e]
    <2> HIDE DEF e
    <2>1. InPlace /\ otps'[c] = e /\ \A d \in DOMAIN otps : d # c => otps'[d] = otps[d]
      BY <1>1, <1>2, <1>5, CodeChanged
    <2> QED
      BY <1>1, <1>3, <2>1 DEF TimeKept, UseKept, TriesKept
  <1> QED
    BY <1>1, <1>4, <1>5

LEMMA KillEffect ==
  ASSUME StoredCodes, Routed, NEW h \in Handlers, Auth!Kill(h)
  PROVE  /\ InPlace /\ SentKept /\ UseKept /\ TriesKept
         /\ \A c \in DOMAIN otps : otps'[c].lapsed = otps[c].lapsed
         /\ \A c \in DOMAIN otps : c # subject[h] => otps'[c].live = otps[c].live
         /\ subject[h] \in DOMAIN otps /\ ~otps'[subject[h]].live
  <1> DEFINE c == subject[h]  e == [otps[c] EXCEPT !.live = FALSE]
  <1>1. c \in DOMAIN otps /\ otps' = [otps EXCEPT ![c] = e]
    BY DEF Auth!Kill, Routed, Auth!AboutCode
  <1>2. otps[c] \in Auth!Code /\ e \in Auth!Code
    <2>1. otps[c] \in Auth!Code
      BY <1>1, ElementOfSeq DEF StoredCodes
    <2> QED
      BY <2>1, CodeColumns
  <1>3. ~e.live /\ e.sent = otps[c].sent /\ e.lapsed = otps[c].lapsed /\ e.used = otps[c].used
        /\ e.attempts = otps[c].attempts /\ e.guesses = otps[c].guesses
    BY <1>2 DEF Auth!Code
  <1> HIDE DEF e
  <1>4. InPlace /\ otps'[c] = e /\ \A d \in DOMAIN otps : d # c => otps'[d] = otps[d]
    BY <1>1, <1>2, CodeChanged
  <1> QED
    BY <1>1, <1>3, <1>4 DEF SentKept, UseKept, TriesKept

LEMMA RetireEffect ==
  ASSUME StoredCodes, NEW h \in Handlers, Auth!Retire(h)
  PROVE  /\ InPlace /\ SentKept /\ UseKept /\ TriesKept
         /\ \A c \in DOMAIN otps : otps'[c].lapsed = otps[c].lapsed
         /\ subject[h] \in DOMAIN otps => otps'[subject[h]].live = otps[subject[h]].live
         /\ \A c \in DOMAIN otps : otps'[c].live => otps[c].live
  <1>1. \A c \in DOMAIN otps : otps[c] \in Auth!Code /\ [otps[c] EXCEPT !.live = FALSE] \in Auth!Code
    <2>1. \A c \in DOMAIN otps : otps[c] \in Auth!Code
      BY ElementOfSeq DEF StoredCodes
    <2> QED
      BY <2>1, CodeColumns
  <1>2. otps' = [c \in DOMAIN otps |-> IF c = subject[h] \/ otps[c].used THEN otps[c]
                                      ELSE [otps[c] EXCEPT !.live = FALSE]]
    BY DEF Auth!Retire
  <1>3. otps' \in [DOMAIN otps -> Auth!Code]
    BY <1>1, <1>2
  <1>4. InPlace
    BY <1>3, RowsMapped DEF StoredCodes, InPlace
  <1>5. \A c \in DOMAIN otps : otps'[c] \in {otps[c], [otps[c] EXCEPT !.live = FALSE]}
                              /\ (c = subject[h] => otps'[c] = otps[c])
    BY <1>2
  <1>6. \A c \in DOMAIN otps :
          /\ otps'[c].sent = otps[c].sent /\ otps'[c].used = otps[c].used /\ otps'[c].lapsed = otps[c].lapsed
          /\ otps'[c].attempts = otps[c].attempts /\ otps'[c].guesses = otps[c].guesses
          /\ (otps'[c].live => otps[c].live)
    BY <1>1, <1>5 DEF Auth!Code
  <1> QED
    BY <1>4, <1>5, <1>6 DEF SentKept, UseKept, TriesKept

LEMMA ReserveEffect ==
  ASSUME StoredCodes, NEW h \in Handlers, NEW c \in DOMAIN otps,
         otps' = [otps EXCEPT ![c].attempts = otps[c].attempts + 1]
  PROVE  /\ InPlace /\ SentKept /\ UseKept /\ TimeKept
         /\ \A d \in DOMAIN otps : otps'[d].guesses = otps[d].guesses
         /\ \A d \in DOMAIN otps : d # c => otps'[d].attempts = otps[d].attempts
         /\ otps'[c].attempts = otps[c].attempts + 1
  <1> DEFINE e == [otps[c] EXCEPT !.attempts = otps[c].attempts + 1]
  <1>1. otps' = [otps EXCEPT ![c] = e]
    OBVIOUS
  <1>2. otps[c] \in Auth!Code /\ e \in Auth!Code
    <2>1. otps[c] \in Auth!Code
      BY <1>1, ElementOfSeq DEF StoredCodes
    <2> QED
      BY <2>1, CodeColumns
  <1>3. e.attempts = otps[c].attempts + 1 /\ e.sent = otps[c].sent /\ e.lapsed = otps[c].lapsed
        /\ e.used = otps[c].used /\ e.live = otps[c].live /\ e.guesses = otps[c].guesses
    BY <1>2 DEF Auth!Code
  <1> HIDE DEF e
  <1>4. InPlace /\ otps'[c] = e /\ \A d \in DOMAIN otps : d # c => otps'[d] = otps[d]
    BY <1>1, <1>2, CodeChanged
  <1> QED
    BY <1>3, <1>4 DEF SentKept, UseKept, TimeKept

LEMMA CompareEffect ==
  ASSUME StoredCodes, Routed, NEW h \in Handlers, Auth!Compare(h)
  PROVE  /\ InPlace /\ SentKept /\ UseKept /\ TimeKept
         /\ \A d \in DOMAIN otps : otps'[d].attempts = otps[d].attempts
         /\ \A d \in DOMAIN otps : d # subject[h] => otps'[d].guesses = otps[d].guesses
         /\ subject[h] \in DOMAIN otps /\ otps'[subject[h]].guesses = otps[subject[h]].guesses + 1
  <1> DEFINE c == subject[h]  e == [otps[c] EXCEPT !.guesses = otps[c].guesses + 1]
  <1>1. c \in DOMAIN otps /\ otps' = [otps EXCEPT ![c] = e]
    BY DEF Auth!Compare, Routed, Auth!AboutCode
  <1>2. otps[c] \in Auth!Code /\ e \in Auth!Code
    <2>1. otps[c] \in Auth!Code
      BY <1>1, ElementOfSeq DEF StoredCodes
    <2> QED
      BY <2>1, CodeColumns
  <1>3. e.guesses = otps[c].guesses + 1 /\ e.sent = otps[c].sent /\ e.lapsed = otps[c].lapsed
        /\ e.used = otps[c].used /\ e.live = otps[c].live /\ e.attempts = otps[c].attempts
    BY <1>2 DEF Auth!Code
  <1> HIDE DEF e
  <1>4. InPlace /\ otps'[c] = e /\ \A d \in DOMAIN otps : d # c => otps'[d] = otps[d]
    BY <1>1, <1>2, CodeChanged
  <1> QED
    BY <1>1, <1>3, <1>4 DEF SentKept, UseKept, TimeKept

LEMMA ClaimEffect ==
  ASSUME StoredCodes, Routed, NEW h \in Handlers, Auth!Claim(h)
  PROVE  /\ InPlace /\ SentKept /\ TimeKept /\ TriesKept
  <1> DEFINE c == subject[h]  e == [otps[c] EXCEPT !.used = TRUE]
  <1>1. c \in DOMAIN otps /\ otps' \in {otps, [otps EXCEPT ![c] = e]}
    BY DEF Auth!Claim, Routed, Auth!AboutCode
  <1>2. otps[c] \in Auth!Code /\ e \in Auth!Code
    <2>1. otps[c] \in Auth!Code
      BY <1>1, ElementOfSeq DEF StoredCodes
    <2> QED
      BY <2>1, CodeColumns
  <1>3. e.guesses = otps[c].guesses /\ e.sent = otps[c].sent /\ e.lapsed = otps[c].lapsed
        /\ e.live = otps[c].live /\ e.attempts = otps[c].attempts
    BY <1>2 DEF Auth!Code
  <1>4. CASE UNCHANGED otps
    BY <1>4 DEF InPlace, SentKept, TimeKept, TriesKept, StoredCodes
  <1>5. CASE otps' = [otps EXCEPT ![c] = e]
    <2> HIDE DEF e
    <2>1. InPlace /\ otps'[c] = e /\ \A d \in DOMAIN otps : d # c => otps'[d] = otps[d]
      BY <1>1, <1>2, <1>5, CodeChanged
    <2> QED
      BY <1>1, <1>3, <2>1 DEF SentKept, TimeKept, TriesKept
  <1> QED
    BY <1>1, <1>4, <1>5

LEMMA LapseEffect ==
  ASSUME StoredCodes, Auth!CodeLapses
  PROVE  /\ InPlace /\ SentKept /\ UseKept /\ TriesKept
         /\ \A c \in DOMAIN otps : otps'[c].live => otps[c].live
         /\ \A c \in DOMAIN otps : otps[c].lapsed => otps'[c].lapsed
         /\ \A c \in DOMAIN otps : otps[c].live => otps'[c].live \/ otps'[c].lapsed
  <1>1. PICK c \in DOMAIN otps : otps' = [otps EXCEPT ![c] = [otps[c] EXCEPT !.live = FALSE, !.lapsed = TRUE]]
    BY DEF Auth!CodeLapses
  <1> DEFINE e == [otps[c] EXCEPT !.live = FALSE, !.lapsed = TRUE]
  <1>2. otps[c] \in Auth!Code /\ e \in Auth!Code
    <2>1. otps[c] \in Auth!Code
      BY <1>1, ElementOfSeq DEF StoredCodes
    <2> QED
      BY <2>1, CodeColumns
  <1>3. ~e.live /\ e.lapsed /\ e.guesses = otps[c].guesses /\ e.sent = otps[c].sent
        /\ e.used = otps[c].used /\ e.attempts = otps[c].attempts
    BY <1>2 DEF Auth!Code
  <1>5. otps' = [otps EXCEPT ![c] = e]
    BY <1>1
  <1> HIDE DEF e
  <1>4. InPlace /\ otps'[c] = e /\ \A d \in DOMAIN otps : d # c => otps'[d] = otps[d]
    BY <1>2, <1>5, CodeChanged
  <1> QED
    BY <1>3, <1>4 DEF SentKept, UseKept, TriesKept

-----------------------------------------------------------------------------
(* What each statement does to the tokens *)

RevokedKept == \A t \in DOMAIN tokens : tokens'[t].revoked = tokens[t].revoked
BirthKept == \A t \in DOMAIN tokens : tokens'[t].era = tokens[t].era /\ tokens'[t].late = tokens[t].late
HeirsKept == \A t \in DOMAIN tokens : tokens'[t].heirs = tokens[t].heirs
RacedKept == \A t \in DOMAIN tokens : tokens'[t].raced = tokens[t].raced

TokensInPlace == StoredTokens' /\ Len(tokens') = Len(tokens) /\ DOMAIN tokens' = DOMAIN tokens

LEMMA TokenColumns ==
  ASSUME NEW t \in Auth!Token, NEW b \in BOOLEAN
  PROVE  /\ [t EXCEPT !.revoked = TRUE] \in Auth!Token
         /\ [t EXCEPT !.expired = TRUE] \in Auth!Token
         /\ [t EXCEPT !.raced = b] \in Auth!Token
         /\ [t EXCEPT !.revoked = TRUE, !.heirs = t.heirs + 1] \in Auth!Token
  <1>1. [t EXCEPT !.revoked = TRUE] \in Auth!Token
    BY DEF Auth!Token
  <1>2. [t EXCEPT !.expired = TRUE] \in Auth!Token
    BY DEF Auth!Token
  <1>3. [t EXCEPT !.raced = b] \in Auth!Token
    <2>1. b = TRUE \/ b = FALSE
      OBVIOUS
    <2>2. CASE b = TRUE
      BY <2>2 DEF Auth!Token
    <2>3. CASE b = FALSE
      BY <2>3 DEF Auth!Token
    <2> QED
      BY <2>1, <2>2, <2>3
  <1>4. [t EXCEPT !.revoked = TRUE, !.heirs = t.heirs + 1] \in Auth!Token
    <2>1. PICK n \in Nat : n = t.heirs + 1
      BY DEF Auth!Token
    <2>2. [t EXCEPT !.revoked = TRUE, !.heirs = n] \in Auth!Token
      BY DEF Auth!Token
    <2> QED
      BY <2>1, <2>2
  <1> QED
    BY <1>1, <1>2, <1>3, <1>4

LEMMA TokenChanged ==
  ASSUME StoredTokens, NEW t \in DOMAIN tokens, NEW e \in Auth!Token, tokens' = [tokens EXCEPT ![t] = e]
  PROVE  /\ TokensInPlace /\ tokens'[t] = e
         /\ \A u \in DOMAIN tokens : u # t => tokens'[u] = tokens[u]
  BY RowChanged DEF StoredTokens, TokensInPlace

\* A new session begins in the present era; it is neither late nor exchanged.
LEMMA BeginEffect ==
  ASSUME StoredTokens, era \in Nat, Len(tokens) < MaxTokens, tokens' = Append(tokens, Auth!NewToken)
  PROVE  /\ StoredTokens' /\ DOMAIN tokens' = DOMAIN tokens \cup {Len(tokens) + 1}
         /\ Len(tokens) + 1 \notin DOMAIN tokens
         /\ \A t \in DOMAIN tokens : tokens'[t] = tokens[t]
         /\ tokens'[Len(tokens) + 1].heirs = 0 /\ tokens'[Len(tokens) + 1].era = era
  <1>1. Auth!NewToken \in Auth!Token /\ Auth!NewToken.heirs = 0 /\ Auth!NewToken.era = era
    BY DEF Auth!NewToken, Auth!Token
  <1> QED
    BY <1>1, RowAppended, AuthBounds DEF StoredTokens

LEMMA RefreshEffect ==
  ASSUME StoredTokens, NEW h \in Handlers, NEW t \in DOMAIN tokens,
         tokens' = [tokens EXCEPT ![t].raced =
           tokens[t].raced \/ (Auth!Usable(t) /\ \E g \in Handlers : pc[g] = "rotate" /\ subject[g] = t)]
  PROVE  /\ TokensInPlace /\ RevokedKept /\ BirthKept /\ HeirsKept
         /\ \A u \in DOMAIN tokens : u # t => tokens'[u].raced = tokens[u].raced
         /\ tokens'[t].raced = (tokens[t].raced \/ (Auth!Usable(t) /\ Rotating(t) # {}))
  <1> DEFINE b == tokens[t].raced \/ (Auth!Usable(t) /\ \E g \in Handlers : pc[g] = "rotate" /\ subject[g] = t)
             e == [tokens[t] EXCEPT !.raced = b]
  <1>1. tokens' = [tokens EXCEPT ![t] = e]
    OBVIOUS
  <1>2. tokens[t] \in Auth!Token /\ b \in BOOLEAN
    <2>1. tokens[t] \in Auth!Token
      BY ElementOfSeq DEF StoredTokens
    <2>2. b \in BOOLEAN
      BY <2>1, Zenon DEF Auth!Token
    <2> QED
      BY <2>1, <2>2
  <1>3. b = (tokens[t].raced \/ (Auth!Usable(t) /\ Rotating(t) # {}))
    BY Zenon DEF Rotating
  <1> HIDE DEF b
  <1>4. e \in Auth!Token
    BY <1>2, TokenColumns
  <1>5. e.raced = b /\ e.revoked = tokens[t].revoked /\ e.era = tokens[t].era
        /\ e.late = tokens[t].late /\ e.heirs = tokens[t].heirs
    BY <1>2 DEF Auth!Token
  <1> HIDE DEF e
  <1>6. TokensInPlace /\ tokens'[t] = e /\ \A u \in DOMAIN tokens : u # t => tokens'[u] = tokens[u]
    BY <1>1, <1>4, TokenChanged
  <1>7. tokens'[t].raced = (tokens[t].raced \/ (Auth!Usable(t) /\ Rotating(t) # {}))
    BY <1>3, <1>5, <1>6, Zenon
  <1> QED
    BY <1>5, <1>6, <1>7 DEF RevokedKept, BirthKept, HeirsKept

LEMMA EndEffect ==
  ASSUME StoredTokens, NEW h \in Handlers, Auth!EndSessions(h)
  PROVE  /\ TokensInPlace /\ BirthKept /\ HeirsKept /\ RacedKept
         /\ \A t \in DOMAIN tokens : tokens'[t].revoked
  <1>1. \A t \in DOMAIN tokens : tokens[t] \in Auth!Token /\ [tokens[t] EXCEPT !.revoked = TRUE] \in Auth!Token
    <2>1. \A t \in DOMAIN tokens : tokens[t] \in Auth!Token
      BY ElementOfSeq DEF StoredTokens
    <2> QED
      BY <2>1, TokenColumns
  <1>2. tokens' = [t \in DOMAIN tokens |-> [tokens[t] EXCEPT !.revoked = TRUE]]
    BY DEF Auth!EndSessions, Auth!EndAll
  <1>3. tokens' \in [DOMAIN tokens -> Auth!Token]
    BY <1>1, <1>2
  <1>4. TokensInPlace
    BY <1>3, RowsMapped DEF StoredTokens, TokensInPlace
  <1>5. \A t \in DOMAIN tokens : tokens'[t] = [tokens[t] EXCEPT !.revoked = TRUE]
    BY <1>2
  <1>6. ASSUME NEW t \in DOMAIN tokens
        PROVE  /\ tokens'[t].revoked /\ tokens'[t].era = tokens[t].era /\ tokens'[t].late = tokens[t].late
               /\ tokens'[t].heirs = tokens[t].heirs /\ tokens'[t].raced = tokens[t].raced
    <2>1. tokens[t] \in Auth!Token
      BY <1>1
    <2> QED
      BY <1>5, <2>1 DEF Auth!Token
  <1> QED
    BY <1>4, <1>6 DEF BirthKept, HeirsKept, RacedKept

LEMMA RevokeEffect ==
  ASSUME StoredTokens, Auth!Logout \/ Auth!TokenExpires
  PROVE  /\ TokensInPlace /\ BirthKept /\ HeirsKept /\ RacedKept
         /\ \A t \in DOMAIN tokens : tokens[t].revoked => tokens'[t].revoked
  <1>1. PICK t \in DOMAIN tokens : tokens' \in {[tokens EXCEPT ![t] = [tokens[t] EXCEPT !.revoked = TRUE]],
                                              [tokens EXCEPT ![t] = [tokens[t] EXCEPT !.expired = TRUE]]}
    BY DEF Auth!Logout, Auth!TokenExpires
  <1>2. tokens[t] \in Auth!Token
    BY ElementOfSeq DEF StoredTokens
  <1>3. PICK e \in {[tokens[t] EXCEPT !.revoked = TRUE], [tokens[t] EXCEPT !.expired = TRUE]} :
          tokens' = [tokens EXCEPT ![t] = e]
    BY <1>1
  <1>4. e \in Auth!Token
    BY <1>2, <1>3, TokenColumns
  <1>5. (tokens[t].revoked => e.revoked) /\ e.era = tokens[t].era /\ e.late = tokens[t].late
        /\ e.heirs = tokens[t].heirs /\ e.raced = tokens[t].raced
    BY <1>2, <1>3 DEF Auth!Token
  <1>6. TokensInPlace /\ tokens'[t] = e /\ \A u \in DOMAIN tokens : u # t => tokens'[u] = tokens[u]
    BY <1>3, <1>4, TokenChanged
  <1> QED
    BY <1>5, <1>6 DEF BirthKept, HeirsKept, RacedKept

LEMMA RotateEffect ==
  ASSUME StoredTokens, Routed, NEW h \in Handlers, Auth!Rotate(h)
  PROVE  /\ subject[h] \in DOMAIN tokens
         /\ StoredTokens' /\ DOMAIN tokens' = DOMAIN tokens \cup {Len(tokens) + 1}
         /\ Len(tokens) + 1 \notin DOMAIN tokens
         /\ BirthKept /\ RacedKept
         /\ \A t \in DOMAIN tokens : t # subject[h] =>
              tokens'[t].revoked = tokens[t].revoked /\ tokens'[t].heirs = tokens[t].heirs
         /\ tokens'[subject[h]].revoked /\ tokens'[subject[h]].heirs = tokens[subject[h]].heirs + 1
         /\ tokens'[Len(tokens) + 1].heirs = 0
         /\ tokens'[Len(tokens) + 1].era = tokens[subject[h]].era
         /\ tokens[subject[h]].late \/ tokens[subject[h]].revoked => tokens'[Len(tokens) + 1].late
  <1> DEFINE t == subject[h]
             e == [tokens[t] EXCEPT !.revoked = TRUE, !.heirs = tokens[t].heirs + 1]
             old == [tokens EXCEPT ![t] = e]
             heir == Auth!Heir(t)
  <1>1. t \in DOMAIN tokens
    BY DEF Auth!Rotate, Routed, Auth!AboutToken
  <1>2. tokens[t] \in Auth!Token
    BY <1>1, ElementOfSeq DEF StoredTokens
  <1>3. e \in Auth!Token
    BY <1>2, TokenColumns
  <1>4. e.revoked /\ e.era = tokens[t].era /\ e.late = tokens[t].late /\ e.raced = tokens[t].raced
        /\ e.heirs = tokens[t].heirs + 1
    BY <1>2 DEF Auth!Token
  <1>5. Len(tokens) < MaxTokens /\ tokens' = Append(old, heir)
    BY <1>1, <1>2 DEF Auth!Rotate, Auth!Token
  <1>6. heir \in Auth!Token
    <2>1. (tokens[t].late \/ tokens[t].revoked) \in BOOLEAN
      BY <1>2, Zenon
    <2> QED
      BY <1>2, <2>1 DEF Auth!Heir, Auth!NewToken, Auth!Token
  <1>7. heir.heirs = 0 /\ heir.era = tokens[t].era /\ (tokens[t].late \/ tokens[t].revoked => heir.late)
    BY DEF Auth!Heir, Auth!NewToken
  <1> HIDE DEF e, heir
  <1>8. /\ old \in Seq(Auth!Token) /\ Len(old) = Len(tokens) /\ DOMAIN old = DOMAIN tokens
        /\ old[t] = e /\ \A u \in DOMAIN tokens : u # t => old[u] = tokens[u]
    BY <1>1, <1>3, RowChanged DEF StoredTokens
  <1> HIDE DEF old
  <1>9. /\ tokens' \in Seq(Auth!Token) /\ Len(tokens') = Len(tokens) + 1
        /\ DOMAIN tokens' = DOMAIN tokens \cup {Len(tokens) + 1} /\ Len(tokens) + 1 \notin DOMAIN tokens
        /\ tokens'[Len(tokens) + 1] = heir /\ \A u \in DOMAIN tokens : tokens'[u] = old[u]
    BY <1>5, <1>6, <1>8, RowAppended
  <1>10. StoredTokens'
    BY <1>5, <1>9, AuthBounds DEF StoredTokens
  <1> QED
    BY <1>1, <1>4, <1>7, <1>8, <1>9, <1>10 DEF BirthKept, RacedKept

-----------------------------------------------------------------------------
(* The account: every step keeps the types *)

LEMMA CodesUntouched ==
  ASSUME \/ Auth!Logout \/ Auth!TokenExpires \/ Auth!WindowEnds
         \/ \E h \in Handlers :
              \/ Auth!Register(h) \/ Auth!InsertUser(h) \/ Auth!Resend(h) \/ Auth!Verify(h)
              \/ Auth!Login(h) \/ Auth!CheckPassword(h) \/ Auth!SignIn(h) \/ Auth!Refresh(h)
              \/ Auth!EndSessions(h) \/ Auth!Rotate(h) \/ Auth!ChangePassword(h) \/ Auth!Die(h)
  PROVE  UNCHANGED otps
  BY DEF Auth!Logout, Auth!TokenExpires, Auth!WindowEnds, Auth!Register, Auth!InsertUser, Auth!Resend,
         Auth!Verify, Auth!Login, Auth!CheckPassword, Auth!SignIn, Auth!Refresh, Auth!EndSessions,
         Auth!Rotate, Auth!ChangePassword, Auth!Die

LEMMA CodesStep ==
  ASSUME StoredCodes, Routed, Auth!Next
  PROVE  StoredCodes' /\ DOMAIN otps \subseteq DOMAIN otps'
  <1>1. CASE UNCHANGED otps
    BY <1>1 DEF StoredCodes
  <1>2. ASSUME InPlace PROVE StoredCodes' /\ DOMAIN otps \subseteq DOMAIN otps'
    BY <1>2 DEF InPlace
  <1>3. ASSUME NEW h \in Handlers, Auth!FirstCode(h) \/ Auth!SecondCode(h)
        PROVE StoredCodes' /\ DOMAIN otps \subseteq DOMAIN otps'
    BY <1>3, InsertEffect
  <1>4. ASSUME NEW h \in Handlers, Auth!SendFirst(h) \/ Auth!Send(h) PROVE InPlace
    BY <1>4, SendEffect
  <1>5. ASSUME NEW h \in Handlers, Auth!Kill(h) PROVE InPlace
    BY <1>5, KillEffect
  <1>6. ASSUME NEW h \in Handlers, Auth!Retire(h) PROVE InPlace
    BY <1>6, RetireEffect
  <1>7. ASSUME NEW h \in Handlers, Auth!Reserve(h) PROVE InPlace \/ UNCHANGED otps
    BY <1>7, ReserveEffect DEF Auth!Reserve
  <1>8. ASSUME NEW h \in Handlers, Auth!Compare(h) PROVE InPlace
    BY <1>8, CompareEffect
  <1>9. ASSUME NEW h \in Handlers, Auth!Claim(h) PROVE InPlace
    BY <1>9, ClaimEffect
  <1>10. ASSUME Auth!CodeLapses PROVE InPlace
    BY <1>10, LapseEffect
  <1> QED
    BY <1>1, <1>2, <1>3, <1>4, <1>5, <1>6, <1>7, <1>8, <1>9, <1>10, CodesUntouched DEF Auth!Next

LEMMA TokensUntouched ==
  ASSUME \/ Auth!CodeLapses \/ Auth!WindowEnds
         \/ \E h \in Handlers :
              \/ Auth!Register(h) \/ Auth!InsertUser(h) \/ Auth!FirstCode(h) \/ Auth!SendFirst(h)
              \/ Auth!Resend(h) \/ Auth!SecondCode(h) \/ Auth!Send(h) \/ Auth!Kill(h) \/ Auth!Retire(h)
              \/ Auth!Verify(h) \/ Auth!Reserve(h) \/ Auth!Compare(h)
              \/ Auth!Login(h) \/ Auth!CheckPassword(h) \/ Auth!ChangePassword(h) \/ Auth!Die(h)
  PROVE  UNCHANGED tokens /\ UNCHANGED era
  BY DEF Auth!CodeLapses, Auth!WindowEnds, Auth!Register, Auth!InsertUser, Auth!FirstCode, Auth!SendFirst,
         Auth!InsertCode, Auth!Resend, Auth!SecondCode, Auth!Send, Auth!Kill, Auth!Retire, Auth!Verify,
         Auth!Reserve, Auth!Compare, Auth!Login, Auth!CheckPassword, Auth!ChangePassword, Auth!Die

LEMMA TokensStep ==
  ASSUME StoredTokens, Routed, era \in Nat, Auth!Next
  PROVE  StoredTokens' /\ DOMAIN tokens \subseteq DOMAIN tokens'
  <1>1. CASE UNCHANGED tokens
    BY <1>1 DEF StoredTokens
  <1>2. ASSUME TokensInPlace PROVE StoredTokens' /\ DOMAIN tokens \subseteq DOMAIN tokens'
    BY <1>2 DEF TokensInPlace
  <1>3. ASSUME NEW h \in Handlers, Auth!Claim(h) \/ Auth!SignIn(h), ~UNCHANGED tokens
        PROVE StoredTokens' /\ DOMAIN tokens \subseteq DOMAIN tokens'
    BY <1>3, BeginEffect DEF Auth!Claim, Auth!SignIn
  <1>4. ASSUME NEW h \in Handlers, Auth!Refresh(h) PROVE TokensInPlace
    BY <1>4, RefreshEffect DEF Auth!Refresh
  <1>5. ASSUME NEW h \in Handlers, Auth!EndSessions(h) PROVE TokensInPlace
    BY <1>5, EndEffect
  <1>6. ASSUME NEW h \in Handlers, Auth!Rotate(h)
        PROVE StoredTokens' /\ DOMAIN tokens \subseteq DOMAIN tokens'
    BY <1>6, RotateEffect
  <1>7. ASSUME Auth!Logout \/ Auth!TokenExpires PROVE TokensInPlace
    BY <1>7, RevokeEffect
  <1> QED
    BY <1>1, <1>2, <1>3, <1>4, <1>5, <1>6, <1>7, TokensUntouched DEF Auth!Next

LEMMA RoutedStep ==
  ASSUME Routed, StoredCodes, StoredTokens, era \in Nat, Auth!Next
  PROVE  Routed'
  <1>0. /\ DOMAIN otps \subseteq DOMAIN otps' /\ DOMAIN tokens \subseteq DOMAIN tokens'
    BY CodesStep, TokensStep
  <1> DEFINE Quiet == {"idle", "insertUser", "firstCode", "newCode", "reserve", "password",
                       "clear", "clearOnly", "change"}
  <1>a. /\ \A h \in Handlers : pc[h] \in Auth!AboutCode => subject[h] \in DOMAIN otps /\ subject[h] \in Nat
        /\ Auth!AboutCode \cup Auth!AboutToken \subseteq Auth!Places
        /\ Auth!AboutCode \cap Auth!AboutToken = {}
    BY DEF Routed, Auth!AboutCode, Auth!AboutToken, Auth!Places, Auth!Making
  <1>1. ASSUME UNCHANGED <<pc, subject>> PROVE Routed'
    BY <1>0, <1>1 DEF Routed
  <1>2. ASSUME NEW h \in Handlers, NEW label \in Quiet, Auth!Goto(h, label, 0) PROVE Routed'
    BY <1>0, <1>2, FreeTyped
  <1>3. ASSUME NEW h \in Handlers, NEW label \in Auth!AboutCode, NEW c \in DOMAIN otps',
               c \in Nat, Auth!Goto(h, label, c)
        PROVE Routed'
    BY <1>0, <1>a, <1>3, GotoTyped
  <1>4. ASSUME NEW h \in Handlers,
               \/ Auth!Register(h) \/ Auth!InsertUser(h) \/ Auth!SendFirst(h) \/ Auth!Resend(h) \/ Auth!Kill(h)
               \/ Auth!Retire(h) \/ Auth!Verify(h) \/ Auth!Claim(h) \/ Auth!Login(h) \/ Auth!CheckPassword(h)
               \/ Auth!SignIn(h) \/ Auth!EndSessions(h) \/ Auth!Rotate(h) \/ Auth!ChangePassword(h) \/ Auth!Die(h)
        PROVE \E label \in Quiet : Auth!Goto(h, label, 0)
    BY <1>4, Zenon DEF Auth!Register, Auth!InsertUser, Auth!SendFirst, Auth!Resend, Auth!Kill, Auth!Retire,
         Auth!Verify, Auth!Claim, Auth!Login, Auth!CheckPassword, Auth!SignIn, Auth!EndSessions,
         Auth!Rotate, Auth!ChangePassword, Auth!Die, Auth!Answer
  <1>5. ASSUME NEW h \in Handlers, Auth!FirstCode(h) \/ Auth!SecondCode(h) PROVE Routed'
    <2>1. PICK label \in Auth!AboutCode : Auth!Goto(h, label, Len(otps) + 1)
      BY <1>5, Zenon DEF Auth!FirstCode, Auth!SecondCode, Auth!InsertCode, Auth!AboutCode
    <2>2. Len(otps) + 1 \in DOMAIN otps' /\ Len(otps) + 1 \in Nat
      BY <1>5, InsertEffect DEF StoredCodes
    <2> QED
      BY <1>3, <2>1, <2>2
  <1>6. ASSUME NEW h \in Handlers, Auth!Send(h) \/ Auth!Compare(h) PROVE Routed'
    <2>1. \/ \E label \in Auth!AboutCode : Auth!Goto(h, label, subject[h])
          \/ Auth!Goto(h, "idle", 0)
      BY <1>6, Zenon DEF Auth!Send, Auth!Compare, Auth!AboutCode, Auth!Answer
    <2>2. subject[h] \in DOMAIN otps' /\ subject[h] \in Nat
      BY <1>0, <1>6, <1>a DEF Auth!Send, Auth!Compare, Auth!AboutCode
    <2> QED
      BY <1>2, <1>3, <2>1, <2>2
  <1>7. ASSUME NEW h \in Handlers, Auth!Reserve(h) PROVE Routed'
    <2>1. \/ \E c \in DOMAIN otps : Auth!Goto(h, "compare", c)
          \/ Auth!Goto(h, "idle", 0)
      BY <1>7, Zenon DEF Auth!Reserve, Auth!Answer
    <2>2. \A c \in DOMAIN otps : c \in DOMAIN otps' /\ c \in Nat
      BY <1>0 DEF StoredCodes
    <2>3. "compare" \in Auth!AboutCode
      BY DEF Auth!AboutCode
    <2> QED
      BY <1>2, <1>3, <2>1, <2>2, <2>3
  <1>8. ASSUME NEW h \in Handlers, Auth!Refresh(h) PROVE Routed'
    <2>1. PICK t \in DOMAIN tokens, label \in Auth!AboutToken : Auth!Goto(h, label, t)
      BY <1>8, Zenon DEF Auth!Refresh, Auth!AboutToken
    <2>2. t \in DOMAIN tokens' /\ t \in Nat
      BY <1>0 DEF StoredTokens
    <2> QED
      BY <1>0, <1>a, <2>1, <2>2, GotoTyped
  <1>9. ASSUME Auth!Logout \/ Auth!CodeLapses \/ Auth!TokenExpires \/ Auth!WindowEnds
        PROVE UNCHANGED <<pc, subject>>
    BY <1>9 DEF Auth!Logout, Auth!CodeLapses, Auth!TokenExpires, Auth!WindowEnds, Auth!request
  <1> QED
    BY <1>1, <1>2, <1>4, <1>5, <1>6, <1>7, <1>8, <1>9 DEF Auth!Next

LEMMA AuthTypedStep == Auth!TypeOK /\ [Auth!Next]_authVars => Auth!TypeOK'
  <1> SUFFICES ASSUME Auth!TypeOK, [Auth!Next]_authVars PROVE Auth!TypeOK'
    OBVIOUS
  <1>1. CASE UNCHANGED authVars
    BY <1>1 DEF authVars, Auth!TypeOK
  <1>2. CASE Auth!Next
    <2>1. Routed /\ Counted /\ StoredCodes /\ StoredTokens /\ era \in Nat
      BY TypedParts DEF Counted
    <2>2. Routed' /\ Counted' /\ StoredCodes' /\ StoredTokens'
      BY <1>2, <2>1, RoutedStep, CountedStep, CodesStep, TokensStep
    <2> QED
      BY <2>2, TypedParts DEF Auth!TypeOK, Routed, Counted, StoredCodes, StoredTokens
  <1> QED
    BY <1>1, <1>2

-----------------------------------------------------------------------------
(* The account: every step keeps the invariant *)

LEMMA Moved ==
  ASSUME Routed, NEW h \in Handlers, NEW label, NEW s, Auth!Goto(h, label, s)
  PROVE  /\ pc'[h] = label /\ subject'[h] = s
         /\ \A g \in Handlers : g # h => pc'[g] = pc[g] /\ subject'[g] = subject[g]
  BY DEF Routed, Auth!Goto

LEMMA ComparingMoved ==
  ASSUME Routed, NEW h \in Handlers, NEW label, NEW s, Auth!Goto(h, label, s), NEW c
  PROVE  Comparing(c)' = IF label = "compare" /\ s = c THEN Comparing(c) \cup {h} ELSE Comparing(c) \ {h}
  BY Moved DEF Comparing

LEMMA ReservedInPlace ==
  ASSUME Reserved, InPlace, TriesKept, \A c \in DOMAIN otps : Comparing(c)' = Comparing(c)
  PROVE  Reserved'
  BY DEF Reserved, InPlace, TriesKept

LEMMA ReservedUntouched ==
  ASSUME Reserved, UNCHANGED otps, \A c \in DOMAIN otps : Comparing(c)' = Comparing(c)
  PROVE  Reserved'
  BY DEF Reserved

\* The requests that have nothing to do with codes yet, or any more.
LEMMA PlainStep ==
  ASSUME NEW h \in Handlers,
         \/ Auth!Register(h) \/ Auth!Verify(h) \/ Auth!Login(h) \/ Auth!CheckPassword(h) \/ Auth!SignIn(h)
         \/ Auth!Refresh(h) \/ Auth!EndSessions(h) \/ Auth!Rotate(h) \/ Auth!ChangePassword(h)
  PROVE  /\ UNCHANGED <<account, trials, otps, authCrossed>>
         /\ pc[h] \notin Auth!Making /\ pc[h] # "compare"
         /\ \E label, s : Auth!Goto(h, label, s) /\ label \notin Auth!Making /\ label # "compare"
  <1>1. UNCHANGED <<account, trials, otps, authCrossed>>
    BY DEF Auth!Register, Auth!Verify, Auth!Login, Auth!CheckPassword, Auth!SignIn, Auth!Refresh,
           Auth!EndSessions, Auth!Rotate, Auth!ChangePassword, Auth!users
  <1>2. pc[h] \in {"idle", "password", "clear", "clearOnly", "reused", "change", "rotate"}
    BY DEF Auth!Register, Auth!Verify, Auth!Login, Auth!CheckPassword, Auth!SignIn, Auth!Refresh,
           Auth!EndSessions, Auth!Rotate, Auth!ChangePassword
  <1>3. \E label \in {"idle", "insertUser", "reserve", "password", "clear", "clearOnly", "reused", "rotate",
                     "change"} : \E s : Auth!Goto(h, label, s)
    BY Zenon DEF Auth!Register, Auth!Verify, Auth!Login, Auth!CheckPassword, Auth!SignIn, Auth!Refresh,
           Auth!EndSessions, Auth!Rotate, Auth!ChangePassword, Auth!Answer
  <1>4. /\ \A p \in {"idle", "password", "clear", "clearOnly", "reused", "change", "rotate"} :
             p \notin Auth!Making /\ p # "compare"
        /\ \A p \in {"idle", "insertUser", "reserve", "password", "clear", "clearOnly", "reused", "rotate",
                    "change"} : p \notin Auth!Making /\ p # "compare"
    BY DEF Auth!Making
  <1> QED
    BY <1>1, <1>2, <1>3, <1>4, Zenon

LEMMA ReservedStep ==
  ASSUME Reserved, Routed, Counted, StoredCodes, Auth!Next
  PROVE  Reserved'
  <1>0. ASSUME NEW c \in DOMAIN otps PROVE otps[c].attempts \in Nat /\ otps[c].guesses \in Nat
    <2>1. otps[c] \in Auth!Code
      BY ElementOfSeq DEF StoredCodes
    <2> QED
      BY <2>1 DEF Auth!Code
  <1>1. ASSUME NEW h \in Handlers, NEW label, NEW s, Auth!Goto(h, label, s), pc[h] # "compare", label # "compare"
        PROVE \A c \in DOMAIN otps : Comparing(c)' = Comparing(c)
    BY <1>1, ComparingMoved DEF Comparing
  <1>2. ASSUME NEW h \in Handlers,
               \/ Auth!Register(h) \/ Auth!Verify(h) \/ Auth!Login(h) \/ Auth!CheckPassword(h) \/ Auth!SignIn(h)
               \/ Auth!Refresh(h) \/ Auth!EndSessions(h) \/ Auth!Rotate(h) \/ Auth!ChangePassword(h)
        PROVE Reserved'
    BY <1>1, <1>2, PlainStep, ReservedUntouched
  <1>3. ASSUME NEW h \in Handlers, Auth!InsertUser(h) \/ Auth!Resend(h) PROVE Reserved'
    <2>1. UNCHANGED otps /\ pc[h] # "compare"
      BY <1>3 DEF Auth!InsertUser, Auth!Resend
    <2>2. \E label \in {"firstCode", "idle", "newCode"} : Auth!Goto(h, label, 0)
      BY <1>3, Zenon DEF Auth!InsertUser, Auth!Resend, Auth!Answer
    <2> QED
      BY <1>1, <2>1, <2>2, ReservedUntouched
  <1>4. ASSUME NEW h \in Handlers, Auth!FirstCode(h) \/ Auth!SecondCode(h) PROVE Reserved'
    <2>0. PICK n \in Nat : n = Len(otps) + 1
      BY DEF StoredCodes
    <2>1. PICK label \in {"sendFirst", "send"} : Auth!Goto(h, label, n)
      BY <1>4, <2>0, Zenon DEF Auth!FirstCode, Auth!SecondCode, Auth!InsertCode
    <2>2. pc[h] # "compare" /\ label # "compare"
      BY <1>4, <2>1 DEF Auth!FirstCode, Auth!SecondCode, Auth!InsertCode
    <2>3. \A c \in DOMAIN otps : Comparing(c)' = Comparing(c)
      BY <1>1, <2>1, <2>2
    <2>4. /\ DOMAIN otps' = DOMAIN otps \cup {n} /\ n \notin DOMAIN otps
          /\ otps'[n] = Auth!NewCode
          /\ \A c \in DOMAIN otps : otps'[c] = otps[c]
      BY <1>4, <2>0, InsertEffect
    <2>5. Comparing(n)' = {}
      <3>1. Comparing(n) = {}
        BY <2>4 DEF Comparing, Routed, Auth!AboutCode
      <3>2. Comparing(n)' = Comparing(n) \ {h}
        BY <2>1, <2>2, ComparingMoved
      <3> QED
        BY <3>1, <3>2
    <2>6. Auth!NewCode.guesses = 0 /\ Auth!NewCode.attempts = 0
      BY DEF Auth!NewCode
    <2>7. IsFiniteSet({}) /\ Cardinality({}) = 0
      BY FS_EmptySet
    <2>8. ASSUME NEW c \in DOMAIN otps'
          PROVE  /\ IsFiniteSet(Comparing(c)')
                 /\ otps'[c].guesses + Cardinality(Comparing(c)') <= otps'[c].attempts
                 /\ otps'[c].attempts <= MaxAttempts
      <3>1. CASE c = n
        BY <2>4, <2>5, <2>6, <2>7, <3>1, AuthBounds
      <3>2. CASE c \in DOMAIN otps
        BY <2>3, <2>4, <3>2 DEF Reserved
      <3> QED
        BY <2>4, <3>1, <3>2
    <2> QED
      BY <2>8 DEF Reserved
  <1>5. ASSUME NEW h \in Handlers, Auth!SendFirst(h) \/ Auth!Send(h) \/ Auth!Kill(h) \/ Auth!Retire(h)
        PROVE Reserved'
    <2>1. pc[h] # "compare"
      BY <1>5 DEF Auth!SendFirst, Auth!Send, Auth!Kill, Auth!Retire
    <2>2. \E label \in {"retire", "kill", "idle"} : \E s : Auth!Goto(h, label, s)
      BY <1>5, Zenon DEF Auth!SendFirst, Auth!Send, Auth!Kill, Auth!Retire, Auth!Answer
    <2>3. \A c \in DOMAIN otps : Comparing(c)' = Comparing(c)
      BY <1>1, <2>1, <2>2
    <2>4. InPlace /\ TriesKept
      BY <1>5, SendEffect, KillEffect, RetireEffect
    <2> QED
      BY <2>3, <2>4, ReservedInPlace
  <1>6. ASSUME NEW h \in Handlers, Auth!Claim(h) PROVE Reserved'
    <2>1. pc[h] # "compare" /\ Auth!Goto(h, "idle", 0)
      BY <1>6, Zenon DEF Auth!Claim, Auth!Answer
    <2>2. \A c \in DOMAIN otps : Comparing(c)' = Comparing(c)
      BY <1>1, <2>1
    <2> QED
      BY <1>6, <2>2, ClaimEffect, ReservedInPlace
  <1>7. ASSUME NEW h \in Handlers, Auth!Reserve(h) PROVE Reserved'
    <2>1. CASE UNCHANGED otps /\ Auth!Answer(h)
      <3>1. pc[h] # "compare" /\ Auth!Goto(h, "idle", 0)
        BY <1>7, <2>1, Zenon DEF Auth!Reserve, Auth!Answer
      <3> QED
        BY <1>1, <2>1, <3>1, ReservedUntouched
    <2>2. ASSUME NEW c \in DOMAIN otps, Auth!Open(c), otps' = [otps EXCEPT ![c].attempts = otps[c].attempts + 1],
                 Auth!Goto(h, "compare", c)
          PROVE Reserved'
      <3>1. /\ InPlace /\ \A d \in DOMAIN otps : otps'[d].guesses = otps[d].guesses
            /\ \A d \in DOMAIN otps : d # c => otps'[d].attempts = otps[d].attempts
            /\ otps'[c].attempts = otps[c].attempts + 1
        BY <2>2, ReserveEffect
      <3>2. pc[h] # "compare"
        BY <1>7 DEF Auth!Reserve
      <3>3. ASSUME NEW d \in DOMAIN otps, d # c
            PROVE  Comparing(d)' = Comparing(d)
        BY <2>2, <3>2, <3>3, ComparingMoved DEF Comparing
      <3>4. Comparing(c)' = Comparing(c) \cup {h} /\ h \notin Comparing(c)
        BY <2>2, <3>2, ComparingMoved DEF Comparing
      <3>5. IsFiniteSet(Comparing(c)') /\ Cardinality(Comparing(c)') = Cardinality(Comparing(c)) + 1
        BY <3>4, FS_AddElement DEF Reserved
      <3>6. Cardinality(Comparing(c)) \in Nat
        BY FS_CardinalityType DEF Reserved
      <3>7. /\ otps'[c].guesses + Cardinality(Comparing(c)') <= otps'[c].attempts
            /\ otps'[c].attempts <= MaxAttempts
        <4>1. otps[c].attempts < MaxAttempts
          BY <2>2 DEF Auth!Open
        <4>2. otps[c].guesses + Cardinality(Comparing(c)) <= otps[c].attempts
          BY DEF Reserved
        <4> QED
          BY <1>0, <3>1, <3>5, <3>6, <4>1, <4>2, AuthBounds
      <3> QED
        BY <3>1, <3>3, <3>5, <3>7 DEF Reserved, InPlace
    <2> QED
      BY <1>7, <2>1, <2>2, Zenon DEF Auth!Reserve
  <1>8. ASSUME NEW h \in Handlers, pc[h] = "compare",
               NEW label, NEW s, Auth!Goto(h, label, s), label # "compare"
        PROVE  /\ \A c \in DOMAIN otps : c # subject[h] => Comparing(c)' = Comparing(c)
               /\ \A c \in DOMAIN otps : c = subject[h] => h \in Comparing(c) /\ Comparing(c)' = Comparing(c) \ {h}
    BY <1>8, ComparingMoved DEF Comparing
  <1>9. ASSUME NEW h \in Handlers, NEW c \in DOMAIN otps, h \in Comparing(c)
        PROVE  /\ IsFiniteSet(Comparing(c) \ {h})
               /\ Cardinality(Comparing(c) \ {h}) = Cardinality(Comparing(c)) - 1
               /\ Cardinality(Comparing(c)) \in Nat
    BY <1>9, FS_RemoveElement, FS_CardinalityType DEF Reserved
  <1>10. ASSUME NEW h \in Handlers, Auth!Compare(h) PROVE Reserved'
    <2>0. PICK c \in DOMAIN otps : c = subject[h]
      BY <1>10, CompareEffect
    <2>1. \E label \in {"claim", "idle"} : \E s : Auth!Goto(h, label, s)
      BY <1>10, Zenon DEF Auth!Compare, Auth!Answer
    <2>2. PICK label, s : label \in {"claim", "idle"} /\ Auth!Goto(h, label, s)
      BY <2>1
    <2>3. pc[h] = "compare" /\ label # "compare"
      BY <1>10, <2>2 DEF Auth!Compare
    <2>4. /\ InPlace
          /\ \A d \in DOMAIN otps : otps'[d].attempts = otps[d].attempts
          /\ \A d \in DOMAIN otps : d # c => otps'[d].guesses = otps[d].guesses
          /\ otps'[c].guesses = otps[c].guesses + 1
      BY <1>10, <2>0, CompareEffect
    <2>5. /\ h \in Comparing(c) /\ Comparing(c)' = Comparing(c) \ {h}
          /\ \A d \in DOMAIN otps : d # c => Comparing(d)' = Comparing(d)
      BY <1>8, <2>0, <2>2, <2>3
    <2>6. ASSUME NEW d \in DOMAIN otps
          PROVE  /\ IsFiniteSet(Comparing(d)')
                 /\ otps'[d].guesses + Cardinality(Comparing(d)') <= otps'[d].attempts
                 /\ otps'[d].attempts <= MaxAttempts
      <3>1. /\ otps[d].guesses + Cardinality(Comparing(d)) <= otps[d].attempts
            /\ otps[d].attempts <= MaxAttempts /\ IsFiniteSet(Comparing(d))
        BY DEF Reserved
      <3>2. CASE d # c
        BY <2>4, <2>5, <3>1, <3>2
      <3>3. CASE d = c
        <4>1. /\ IsFiniteSet(Comparing(d) \ {h})
              /\ Cardinality(Comparing(d) \ {h}) = Cardinality(Comparing(d)) - 1
              /\ Cardinality(Comparing(d)) \in Nat
          BY <1>9, <2>5, <3>3
        <4>2. Comparing(d)' = Comparing(d) \ {h}
          BY <2>5, <3>3
        <4>3. /\ otps[d].attempts \in Nat /\ otps[d].guesses \in Nat
              /\ otps'[d].attempts = otps[d].attempts /\ otps'[d].guesses = otps[d].guesses + 1
          BY <1>0, <2>4, <3>3
        <4> QED
          BY <3>1, <4>1, <4>2, <4>3
      <3> QED
        BY <3>2, <3>3
    <2> QED
      BY <2>4, <2>6 DEF Reserved, InPlace
  <1>11. ASSUME NEW h \in Handlers, Auth!Die(h) PROVE Reserved'
    <2>1. UNCHANGED otps /\ Auth!Goto(h, "idle", 0)
      BY <1>11, Zenon DEF Auth!Die, Auth!Answer
    <2>2. CASE pc[h] # "compare"
      BY <1>1, <2>1, <2>2, ReservedUntouched
    <2>3. CASE pc[h] = "compare"
      <3>1. ASSUME NEW d \in DOMAIN otps
            PROVE  IsFiniteSet(Comparing(d)') /\ otps[d].guesses + Cardinality(Comparing(d)') <= otps[d].attempts
        <4>1. otps[d].guesses + Cardinality(Comparing(d)) <= otps[d].attempts /\ IsFiniteSet(Comparing(d))
          BY DEF Reserved
        <4>2. Comparing(d)' = Comparing(d) \/ (h \in Comparing(d) /\ Comparing(d)' = Comparing(d) \ {h})
          <5>1. "idle" # "compare"
            OBVIOUS
          <5> QED
            BY <1>8, <2>1, <2>3, <5>1
        <4>3. CASE Comparing(d)' = Comparing(d)
          BY <4>1, <4>3
        <4>4. CASE h \in Comparing(d) /\ Comparing(d)' = Comparing(d) \ {h}
          BY <1>0, <1>9, <4>1, <4>4
        <4> QED
          BY <4>2, <4>3, <4>4
      <3> QED
        BY <2>1, <3>1 DEF Reserved
    <2> QED
      BY <2>2, <2>3
  <1>12. ASSUME UNCHANGED <<pc, subject>> PROVE \A c \in DOMAIN otps : Comparing(c)' = Comparing(c)
    BY <1>12 DEF Comparing
  <1>13. CASE Auth!Logout \/ Auth!TokenExpires \/ Auth!WindowEnds
    <2>1. UNCHANGED <<otps, pc, subject>>
      BY <1>13 DEF Auth!Logout, Auth!TokenExpires, Auth!WindowEnds, Auth!request
    <2> QED
      BY <1>12, <2>1, ReservedUntouched
  <1>14. CASE Auth!CodeLapses
    <2>1. UNCHANGED <<pc, subject>>
      BY <1>14 DEF Auth!CodeLapses, Auth!request
    <2> QED
      BY <1>12, <1>14, <2>1, LapseEffect, ReservedInPlace
  <1> QED
    BY <1>2, <1>3, <1>4, <1>5, <1>6, <1>7, <1>10, <1>11, <1>13, <1>14 DEF Auth!Next


-----------------------------------------------------------------------------
(* The account: what is made for it *)

LEMMA MakersMoved ==
  ASSUME Routed, NEW h \in Handlers, NEW label, NEW s, Auth!Goto(h, label, s)
  PROVE  Makers' = IF label \in Auth!Making THEN Makers \cup {h} ELSE Makers \ {h}
  BY Moved DEF Makers

LEMMA MakersUntouched ==
  ASSUME UNCHANGED pc
  PROVE  Makers' = Makers
  BY DEF Makers

\* Only a maker works on a code that is not there yet, or that is not sent.
LEMMA MakerSteps ==
  ASSUME NEW h \in Handlers,
         \/ Auth!FirstCode(h) \/ Auth!SendFirst(h) \/ Auth!SecondCode(h)
         \/ Auth!Send(h) \/ Auth!Kill(h) \/ Auth!Retire(h)
  PROVE  h \in Makers /\ UNCHANGED <<account, trials, authCrossed>>
  BY DEF Auth!FirstCode, Auth!SendFirst, Auth!SecondCode, Auth!InsertCode, Auth!Send, Auth!Kill, Auth!Retire,
         Auth!Making, Makers, Auth!users

LEMMA BegunKept ==
  ASSUME Begun, UNCHANGED <<account, trials>>, UNCHANGED otps \/ (InPlace /\ UseKept),
         account = "none" => Makers' \subseteq Makers
  PROVE  Begun'
  <1>1. account' = "none" => Len(otps') = 0 /\ Makers' = {}
    BY DEF Begun, InPlace
  <1>2. account' # "verified" => \A c \in DOMAIN otps' : ~otps'[c].used
    <2>1. CASE UNCHANGED otps
      BY <2>1 DEF Begun
    <2>2. CASE InPlace /\ UseKept
      BY <2>2 DEF Begun, InPlace, UseKept
    <2> QED
      BY <2>1, <2>2
  <1>3. trials' = (IF account' = "verified" THEN 1 ELSE 0)
    BY DEF Begun
  <1> QED
    BY <1>1, <1>2, <1>3 DEF Begun

LEMMA BegunStep ==
  ASSUME Begun, Routed, Counted, StoredCodes, Auth!Next
  PROVE  Begun'
  <1>1. ASSUME NEW h \in Handlers, NEW label, NEW s, Auth!Goto(h, label, s), label \notin Auth!Making
        PROVE  Makers' \subseteq Makers
    BY <1>1, MakersMoved
  <1>2. ASSUME NEW h \in Handlers,
               \/ Auth!Register(h) \/ Auth!Verify(h) \/ Auth!Login(h) \/ Auth!CheckPassword(h) \/ Auth!SignIn(h)
               \/ Auth!Refresh(h) \/ Auth!EndSessions(h) \/ Auth!Rotate(h) \/ Auth!ChangePassword(h)
        PROVE Begun'
    BY <1>1, <1>2, PlainStep, BegunKept
  <1>3. ASSUME NEW h \in Handlers, Auth!InsertUser(h) PROVE Begun'
    <2>1. CASE account = "none"
      <3>1. account' = "unverified" /\ UNCHANGED <<trials, otps>>
        BY <1>3, <2>1 DEF Auth!InsertUser
      <3> QED
        BY <2>1, <3>1 DEF Begun
    <2>2. CASE account # "none"
      <3>1. UNCHANGED <<account, trials, otps>>
        BY <1>3, <2>2 DEF Auth!InsertUser
      <3> QED
        BY <2>2, <3>1, BegunKept
    <2> QED
      BY <2>1, <2>2
  <1>4. ASSUME NEW h \in Handlers, Auth!FirstCode(h) \/ Auth!SecondCode(h) PROVE Begun'
    <2>1. account # "none" /\ UNCHANGED <<account, trials>>
      BY <1>4, MakerSteps DEF Begun
    <2>2. ~Auth!NewCode.used
      BY DEF Auth!NewCode
    <2>3. account # "verified" => \A c \in DOMAIN otps' : ~otps'[c].used
      BY <1>4, <2>2, InsertEffect DEF Begun
    <2> QED
      BY <2>1, <2>3 DEF Begun
  <1>5. ASSUME NEW h \in Handlers, Auth!SendFirst(h) \/ Auth!Send(h) \/ Auth!Kill(h) \/ Auth!Retire(h)
        PROVE Begun'
    <2>1. account # "none" /\ UNCHANGED <<account, trials>>
      BY <1>5, MakerSteps DEF Begun
    <2>2. InPlace /\ UseKept
      BY <1>5, SendEffect, KillEffect, RetireEffect
    <2> QED
      BY <2>1, <2>2, BegunKept
  <1>6. ASSUME NEW h \in Handlers, Auth!Resend(h) PROVE Begun'
    BY <1>6, BegunKept DEF Auth!Resend, Auth!users
  <1>7. ASSUME NEW h \in Handlers, Auth!Reserve(h) \/ Auth!Compare(h) PROVE Begun'
    <2>1. UNCHANGED <<account, trials>>
      BY <1>7 DEF Auth!Reserve, Auth!Compare, Auth!users
    <2>2. UNCHANGED otps \/ (InPlace /\ UseKept)
      BY <1>7, ReserveEffect, CompareEffect DEF Auth!Reserve
    <2>3. PICK label, s : label \in {"compare", "claim", "idle"} /\ Auth!Goto(h, label, s)
      <3>1. \E label \in {"compare", "claim", "idle"} : \E s : Auth!Goto(h, label, s)
        BY <1>7, Zenon DEF Auth!Reserve, Auth!Compare, Auth!Answer
      <3> QED BY <3>1
    <2>4. label \notin Auth!Making
      BY <2>3 DEF Auth!Making
    <2> QED
      BY <1>1, <2>1, <2>2, <2>3, <2>4, BegunKept
  <1>8. ASSUME NEW h \in Handlers, Auth!Claim(h) PROVE Begun'
    <2>1. CASE Auth!Unclaimed
      <3>1. account = "unverified" /\ account' = "verified" /\ trials' = trials + 1
        BY <1>8, <2>1 DEF Auth!Claim, Auth!Unclaimed
      <3>2. trials = 0
        BY <3>1 DEF Begun
      <3> QED
        BY <3>1, <3>2 DEF Begun
    <2>2. CASE ~Auth!Unclaimed
      <3>1. UNCHANGED <<account, trials, otps>> /\ Auth!Goto(h, "idle", 0)
        BY <1>8, <2>2, Zenon DEF Auth!Claim, Auth!Answer, Auth!users
      <3>2. "idle" \notin Auth!Making
        BY DEF Auth!Making
      <3> QED
        BY <1>1, <3>1, <3>2, BegunKept
    <2> QED
      BY <2>1, <2>2
  <1>9. ASSUME NEW h \in Handlers, Auth!Die(h) PROVE Begun'
    <2>1. UNCHANGED <<account, trials, otps>> /\ Auth!Goto(h, "idle", 0)
      BY <1>9, Zenon DEF Auth!Die, Auth!Answer, Auth!users
    <2>2. "idle" \notin Auth!Making
      BY DEF Auth!Making
    <2> QED
      BY <1>1, <2>1, <2>2, BegunKept
  <1>10. CASE Auth!Logout \/ Auth!TokenExpires \/ Auth!WindowEnds \/ Auth!CodeLapses
    <2>1. UNCHANGED <<account, trials, pc>>
      BY <1>10 DEF Auth!Logout, Auth!TokenExpires, Auth!WindowEnds, Auth!CodeLapses, Auth!users, Auth!request
    <2>2. UNCHANGED otps \/ (InPlace /\ UseKept)
      BY <1>10, CodesUntouched, LapseEffect
    <2> QED
      BY <2>1, <2>2, MakersUntouched, BegunKept
  <1> QED
    BY <1>2, <1>3, <1>4, <1>5, <1>6, <1>7, <1>8, <1>9, <1>10 DEF Auth!Next

-----------------------------------------------------------------------------
(* The account: requests that make codes one at a time *)

\* The codes grow older and nothing else.
Aged == /\ InPlace /\ SentKept
        /\ \A c \in DOMAIN otps : (InTime(c) => InTime(c)') /\ (otps'[c].live => otps[c].live)

LEMMA AgedUntouched ==
  ASSUME StoredCodes, UNCHANGED otps
  PROVE  Aged
  BY DEF Aged, StoredCodes, InPlace, SentKept, InTime

LEMMA AgedInTime ==
  ASSUME InPlace, SentKept, TimeKept
  PROVE  Aged
  BY DEF Aged, TimeKept, InTime

LEMMA AgedByLapse ==
  ASSUME StoredCodes, Auth!CodeLapses
  PROVE  Aged
  BY LapseEffect DEF Aged, InTime

LEMMA WorksKept ==
  ASSUME NEW n \in Nat, Works(n),
         \A c \in 1..n : /\ otps'[c].sent = otps[c].sent
                         /\ otps[c].live \/ otps[c].lapsed => otps'[c].live \/ otps'[c].lapsed
                         /\ otps'[c].live => otps[c].live
  PROVE  Works(n)'
  BY DEF Works, InTime

LEMMA AgedWorks ==
  ASSUME StoredCodes, Aged, NEW n \in Nat, n <= Len(otps), Works(n)
  PROVE  Works(n)'
  <1>1. 1..n \subseteq DOMAIN otps
    BY DEF StoredCodes
  <1> QED
    BY <1>1, WorksKept DEF Aged, SentKept, InTime

LEMMA MadeKept ==
  ASSUME StoredCodes, Routed, Aged, NEW h \in Handlers, Made(h), pc'[h] = pc[h], subject'[h] = subject[h]
  PROVE  Made(h)'
  <1>0. Len(otps) \in Nat /\ DOMAIN otps = 1..Len(otps) /\ Len(otps') = Len(otps)
    BY DEF StoredCodes, Aged, InPlace
  <1>1. pc[h] = "firstCode" => Len(otps') = 0
    BY <1>0 DEF Made
  <1>2. pc[h] = "sendFirst" => Len(otps') = 1 /\ subject'[h] = 1 /\ InTime(1)'
    BY <1>0 DEF Made, Aged
  <1>3. pc[h] = "newCode" => Works(Len(otps))'
    BY <1>0, AgedWorks DEF Made
  <1>4. pc[h] \in {"send", "kill"} =>
          subject'[h] = Len(otps') /\ Works(Len(otps) - 1)' /\ ~otps'[Len(otps')].sent
    <2> SUFFICES ASSUME pc[h] \in {"send", "kill"}
                 PROVE  subject'[h] = Len(otps') /\ Works(Len(otps) - 1)' /\ ~otps'[Len(otps')].sent
      OBVIOUS
    <2>1. subject[h] = Len(otps) /\ Works(Len(otps) - 1) /\ ~otps[Len(otps)].sent
      BY DEF Made
    <2>2. subject[h] \in DOMAIN otps
      BY DEF Routed, Auth!AboutCode
    <2>3. Works(Len(otps) - 1)'
      BY <1>0, <2>1, <2>2, AgedWorks
    <2> QED
      BY <1>0, <2>1, <2>2, <2>3 DEF Aged, SentKept
  <1>5. pc[h] \in {"send", "retire"} => subject'[h] = Len(otps') /\ InTime(Len(otps))'
    BY <1>0 DEF Made, Aged, Routed, Auth!AboutCode
  <1>6. pc[h] = "retire" => otps'[Len(otps')].sent
    BY <1>0 DEF Made, Aged, SentKept, Routed, Auth!AboutCode
  <1> QED
    BY <1>0, <1>1, <1>2, <1>3, <1>4, <1>5, <1>6 DEF Made

\* Once is enough to be out of order.
Tended == account = "unverified" /\ ~authCrossed

LEMMA OrderlyParts ==
  Orderly <=> (Tended => /\ \A g, h \in Makers : g = h
                         /\ \A h \in Makers : Made(h)
                         /\ Makers = {} => Works(Len(otps)))
  BY DEF Orderly, Tended

LEMMA OrderlyKept ==
  ASSUME Orderly, Routed, StoredCodes, Aged, Tended' => Tended, Makers' = Makers,
         \A h \in Makers : pc'[h] = pc[h] /\ subject'[h] = subject[h]
  PROVE  Orderly'
  <1> SUFFICES ASSUME Tended'
               PROVE  /\ \A g, h \in Makers' : g = h
                      /\ \A h \in Makers' : Made(h)'
                      /\ Makers' = {} => Works(Len(otps))'
    BY DEF Orderly, Tended
  <1>1. /\ \A g, h \in Makers : g = h
        /\ \A h \in Makers : Made(h)
        /\ Makers = {} => Works(Len(otps))
    BY OrderlyParts
  <1>2. \A h \in Makers : Made(h)'
    BY <1>1, MadeKept DEF Makers
  <1>3. Makers = {} => Works(Len(otps))'
    <2>1. PICK n \in Nat : n = Len(otps) /\ n = Len(otps')
      BY DEF StoredCodes, Aged, InPlace
    <2>2. Makers = {} => Works(n)'
      BY <1>1, <2>1, AgedWorks
    <2> QED
      BY <2>1, <2>2
  <1> QED
    BY <1>1, <1>2, <1>3

LEMMA OtherMakers ==
  ASSUME Routed, NEW h \in Handlers, pc[h] \notin Auth!Making,
         NEW label, NEW s, Auth!Goto(h, label, s), label \notin Auth!Making
  PROVE  /\ Makers' = Makers
         /\ \A g \in Makers : pc'[g] = pc[g] /\ subject'[g] = subject[g]
  BY Moved, MakersMoved DEF Makers

LEMMA OnlyMaker ==
  ASSUME Orderly, Tended, NEW h \in Makers
  PROVE  Makers = {h} /\ Made(h)
  BY OrderlyParts

\* The request that makes a code goes on, or ends.
LEMMA MakerGoesOn ==
  ASSUME Routed, Orderly, NEW h \in Makers, Tended' => Tended,
         NEW label \in Auth!Making, NEW s, Auth!Goto(h, label, s),
         Tended => Made(h)'
  PROVE  Orderly'
  <1>1. Tended => Makers' = {h}
    BY OnlyMaker, MakersMoved DEF Makers
  <1> QED
    BY <1>1 DEF Orderly, Tended

LEMMA MakerEnds ==
  ASSUME Routed, Orderly, NEW h \in Makers, Tended' => Tended, Auth!Answer(h),
         Tended => Works(Len(otps))'
  PROVE  Orderly'
  <1>1. Auth!Goto(h, "idle", 0) /\ "idle" \notin Auth!Making
    BY DEF Auth!Answer, Auth!Making
  <1>2. Tended => Makers' = {}
    BY <1>1, OnlyMaker, MakersMoved DEF Makers
  <1> QED
    BY <1>2 DEF Orderly, Tended

LEMMA OrderlyInsert ==
  ASSUME Orderly, Routed, StoredCodes, NEW h \in Handlers, Auth!FirstCode(h) \/ Auth!SecondCode(h)
  PROVE  Orderly'
  <1>1. h \in Makers /\ (Tended' => Tended)
    BY MakerSteps DEF Tended
  <1>2. PICK n \in Nat : n = Len(otps) /\ DOMAIN otps = 1..n
    BY DEF StoredCodes
  <1>3. /\ Len(otps') = n + 1 /\ \A c \in DOMAIN otps : otps'[c] = otps[c]
        /\ ~otps'[n + 1].sent /\ otps'[n + 1].live
    BY <1>2, InsertEffect DEF Auth!NewCode
  <1>4. CASE Auth!FirstCode(h)
    <2>1. Auth!Goto(h, "sendFirst", n + 1) /\ pc[h] = "firstCode"
      BY <1>2, <1>4, Zenon DEF Auth!FirstCode, Auth!InsertCode
    <2>2. Tended => n = 0
      BY <1>1, <1>2, <2>1, OnlyMaker DEF Made
    <2>3. pc'[h] = "sendFirst" /\ subject'[h] = n + 1
      BY <2>1, Moved
    <2>4. Tended => Made(h)'
      BY <1>3, <2>2, <2>3 DEF Made, InTime
    <2>5. "sendFirst" \in Auth!Making
      BY DEF Auth!Making
    <2> QED
      BY <1>1, <2>1, <2>4, <2>5, MakerGoesOn
  <1>5. CASE Auth!SecondCode(h)
    <2>1. Auth!Goto(h, "send", n + 1) /\ pc[h] = "newCode"
      BY <1>2, <1>5, Zenon DEF Auth!SecondCode, Auth!InsertCode
    <2>2. Tended => Works(n)
      BY <1>1, <1>2, <2>1, OnlyMaker DEF Made
    <2>3. pc'[h] = "send" /\ subject'[h] = n + 1
      BY <2>1, Moved
    <2>4. Tended => Works(n)'
      BY <1>2, <1>3, <2>2, WorksKept
    <2>5. Tended => Made(h)'
      <3>1. Len(otps') - 1 = n
        BY <1>3
      <3>2. Tended => Works(Len(otps) - 1)'
        BY <2>4, <3>1
      <3> QED
        BY <1>3, <2>3, <3>2 DEF Made, InTime
    <2>6. "send" \in Auth!Making
      BY DEF Auth!Making
    <2> QED
      BY <1>1, <2>1, <2>5, <2>6, MakerGoesOn
  <1> QED
    BY <1>4, <1>5

LEMMA OrderlySendFirst ==
  ASSUME Orderly, Routed, StoredCodes, NEW h \in Handlers, Auth!SendFirst(h)
  PROVE  Orderly'
  <1>1. h \in Makers /\ (Tended' => Tended)
    BY MakerSteps DEF Tended
  <1>2. pc[h] = "sendFirst" /\ Auth!Answer(h)
    BY Zenon DEF Auth!SendFirst
  <1>3. InPlace /\ TimeKept
    BY SendEffect
  <1>4. Tended => Len(otps) = 1 /\ (otps[1].live \/ otps[1].lapsed)
    BY <1>1, <1>2, OnlyMaker DEF Made, InTime
  <1>5. Tended => Works(Len(otps))'
    <2> SUFFICES ASSUME Tended PROVE Works(Len(otps))'
      OBVIOUS
    <2>0. Len(otps) = 1 /\ DOMAIN otps = 1..1
      <3>1. PICK n \in Nat : n = Len(otps) /\ DOMAIN otps = 1..n
        BY DEF StoredCodes
      <3>2. n = 1
        BY <1>4, <3>1
      <3> QED
        BY <3>1, <3>2
    <2>1. Len(otps') = 1 /\ 1 \in DOMAIN otps
      BY <1>3, <2>0 DEF InPlace
    <2>2. otps'[1].live \/ otps'[1].lapsed
      BY <1>3, <1>4, <2>1 DEF TimeKept
    <2>3. Works(1)'
      BY <2>2 DEF Works, InTime
    <2> QED
      BY <2>1, <2>3
  <1> QED
    BY <1>1, <1>2, <1>5, MakerEnds

LEMMA OrderlySend ==
  ASSUME Orderly, Routed, StoredCodes, NEW h \in Handlers, Auth!Send(h)
  PROVE  Orderly'
  <1>1. h \in Makers /\ (Tended' => Tended)
    BY MakerSteps DEF Tended
  <1>2. PICK n \in Nat : n = Len(otps) /\ DOMAIN otps = 1..n
    BY DEF StoredCodes
  <1>3. pc[h] = "send" /\ subject[h] \in DOMAIN otps
    BY DEF Auth!Send, Routed, Auth!AboutCode
  <1>4. Tended => subject[h] = n /\ Works(n - 1) /\ InTime(n) /\ ~otps[n].sent
    BY <1>1, <1>2, <1>3, OnlyMaker DEF Made
  <1>5. CASE otps' = [otps EXCEPT ![subject[h]].sent = TRUE] /\ Auth!Goto(h, "retire", subject[h])
    <2>1. InPlace /\ TimeKept /\ otps'[subject[h]].sent
      BY <1>5, SendEffect
    <2>2. pc'[h] = "retire" /\ subject'[h] = subject[h] /\ "retire" \in Auth!Making
      BY <1>5, Moved DEF Auth!Making
    <2>3. Tended => otps'[n].sent /\ InTime(n)' /\ Len(otps') = n
      BY <1>2, <1>3, <1>4, <2>1 DEF TimeKept, InTime, InPlace
    <2>4. Tended => Made(h)'
      BY <1>4, <2>2, <2>3 DEF Made
    <2> QED
      BY <1>1, <1>5, <2>2, <2>4, MakerGoesOn
  <1>6. CASE UNCHANGED otps /\ Auth!Goto(h, "kill", subject[h])
    <2>1. pc'[h] = "kill" /\ subject'[h] = subject[h] /\ "kill" \in Auth!Making
      BY <1>6, Moved DEF Auth!Making
    <2>2. Aged /\ n - 1 \in Nat
      BY <1>2, <1>3, <1>6, AgedUntouched
    <2>3. Tended => Works(n - 1)'
      BY <1>2, <1>4, <2>2, AgedWorks
    <2>4. Tended => Works(Len(otps) - 1)' /\ Len(otps') = n /\ ~otps'[n].sent
      BY <1>2, <1>4, <1>6, <2>3
    <2>5. Tended => Made(h)'
      BY <1>4, <2>1, <2>4 DEF Made
    <2> QED
      BY <1>1, <1>6, <2>1, <2>5, MakerGoesOn
  <1> QED
    BY <1>5, <1>6, Zenon DEF Auth!Send

LEMMA OrderlyKill ==
  ASSUME Orderly, Routed, StoredCodes, NEW h \in Handlers, Auth!Kill(h)
  PROVE  Orderly'
  <1>1. h \in Makers /\ (Tended' => Tended)
    BY MakerSteps DEF Tended
  <1>2. PICK n \in Nat : n = Len(otps) /\ DOMAIN otps = 1..n
    BY DEF StoredCodes
  <1>3. pc[h] = "kill" /\ subject[h] \in DOMAIN otps /\ Auth!Answer(h)
    BY Zenon, KillEffect DEF Auth!Kill
  <1>4. Tended => subject[h] = n /\ Works(n - 1) /\ ~otps[n].sent /\ n - 1 \in Nat
    BY <1>1, <1>2, <1>3, OnlyMaker DEF Made
  <1>5. Tended => Works(Len(otps))'
    <2> SUFFICES ASSUME Tended PROVE Works(Len(otps))'
      OBVIOUS
    <2>1. /\ Len(otps') = n /\ ~otps'[n].live /\ ~otps'[n].sent
          /\ \A c \in 1..(n - 1) : /\ otps'[c].sent = otps[c].sent
                                   /\ otps'[c].live = otps[c].live /\ otps'[c].lapsed = otps[c].lapsed
      BY <1>2, <1>3, <1>4, KillEffect DEF InPlace, SentKept
    <2>2. Works(n - 1)'
      BY <1>4, <2>1, WorksKept
    <2>3. CASE \A c \in 1..(n - 1) : ~otps'[c].sent
      <3>1. \A c \in 1..n : ~otps'[c].sent
        BY <2>1, <2>3
      <3> QED
        BY <2>1, <3>1 DEF Works
    <2>4. ASSUME NEW c \in 1..(n - 1), otps'[c].sent, InTime(c)',
                 \A d \in (c + 1)..(n - 1) : ~otps'[d].sent /\ ~otps'[d].live
          PROVE  Works(Len(otps))'
      <3>1. c \in 1..n /\ \A d \in (c + 1)..n : ~otps'[d].sent /\ ~otps'[d].live
        BY <2>1, <2>4
      <3>2. Works(n)'
        BY <2>4, <3>1 DEF Works
      <3> QED
        BY <2>1, <3>2
    <2> QED
      BY <2>2, <2>3, <2>4 DEF Works
  <1> QED
    BY <1>1, <1>3, <1>5, MakerEnds

LEMMA OrderlyRetire ==
  ASSUME Orderly, Routed, StoredCodes, NEW h \in Handlers, Auth!Retire(h)
  PROVE  Orderly'
  <1>1. h \in Makers /\ (Tended' => Tended)
    BY MakerSteps DEF Tended
  <1>2. PICK n \in Nat : n = Len(otps) /\ DOMAIN otps = 1..n
    BY DEF StoredCodes
  <1>3. pc[h] = "retire" /\ Auth!Answer(h) /\ subject[h] \in DOMAIN otps
    BY Zenon DEF Auth!Retire, Routed, Auth!AboutCode
  <1>4. Tended => subject[h] = n /\ InTime(n) /\ otps[n].sent
    BY <1>1, <1>2, <1>3, OnlyMaker DEF Made
  <1>5. Tended => Works(Len(otps))'
    <2> SUFFICES ASSUME Tended PROVE Works(Len(otps))'
      OBVIOUS
    <2>1. /\ Len(otps') = n /\ n \in 1..n /\ otps'[n].sent
          /\ otps'[n].live = otps[n].live /\ otps'[n].lapsed = otps[n].lapsed
      BY <1>2, <1>3, <1>4, RetireEffect DEF InPlace, SentKept
    <2>2. InTime(n)'
      BY <1>4, <2>1 DEF InTime
    <2>3. Works(n)'
      BY <2>1, <2>2 DEF Works
    <2> QED
      BY <2>1, <2>3
  <1> QED
    BY <1>1, <1>3, <1>5, MakerEnds

LEMMA OrderlyStep ==
  ASSUME Orderly, Begun, Routed, Counted, StoredCodes, Auth!Next
  PROVE  Orderly'
  <1>1. ASSUME NEW h \in Handlers,
               \/ Auth!Register(h) \/ Auth!Verify(h) \/ Auth!Login(h) \/ Auth!CheckPassword(h) \/ Auth!SignIn(h)
               \/ Auth!Refresh(h) \/ Auth!EndSessions(h) \/ Auth!Rotate(h) \/ Auth!ChangePassword(h)
        PROVE Orderly'
    <2>1. Tended' => Tended
      BY <1>1, PlainStep DEF Tended
    <2>2. Aged /\ pc[h] \notin Auth!Making
      BY <1>1, PlainStep, AgedUntouched
    <2>3. PICK label, s : Auth!Goto(h, label, s) /\ label \notin Auth!Making
      BY <1>1, PlainStep
    <2> QED
      BY <2>1, <2>2, <2>3, OtherMakers, OrderlyKept
  <1>2. ASSUME NEW h \in Handlers, Auth!Reserve(h) \/ Auth!Compare(h) PROVE Orderly'
    <2>1. Tended' => Tended
      BY <1>2 DEF Auth!Reserve, Auth!Compare, Auth!users, Tended
    <2>2. Aged
      BY <1>2, ReserveEffect, CompareEffect, AgedInTime, AgedUntouched DEF Auth!Reserve
    <2>3. PICK label, s : label \in {"compare", "claim", "idle"} /\ Auth!Goto(h, label, s)
      <3>1. \E label \in {"compare", "claim", "idle"} : \E s : Auth!Goto(h, label, s)
        BY <1>2, Zenon DEF Auth!Reserve, Auth!Compare, Auth!Answer
      <3> QED BY <3>1
    <2>4. pc[h] \notin Auth!Making /\ label \notin Auth!Making
      BY <1>2, <2>3 DEF Auth!Reserve, Auth!Compare, Auth!Making
    <2> QED
      BY <2>1, <2>2, <2>3, <2>4, OtherMakers, OrderlyKept
  <1>3. ASSUME NEW h \in Handlers, Auth!Claim(h) PROVE Orderly'
    <2>1. CASE Auth!Unclaimed
      <3>1. account' = "verified"
        BY <1>3, <2>1 DEF Auth!Claim
      <3> QED
        BY <3>1 DEF Orderly
    <2>2. CASE ~Auth!Unclaimed
      <3>1. UNCHANGED otps /\ Auth!Goto(h, "idle", 0) /\ (Tended' => Tended) /\ pc[h] = "claim"
        BY <1>3, <2>2, Zenon DEF Auth!Claim, Auth!Answer, Auth!users, Tended
      <3>2. pc[h] \notin Auth!Making /\ "idle" \notin Auth!Making
        BY <3>1 DEF Auth!Making
      <3> QED
        BY <3>1, <3>2, AgedUntouched, OtherMakers, OrderlyKept
    <2> QED
      BY <2>1, <2>2
  <1>4. ASSUME NEW h \in Handlers, Auth!InsertUser(h) PROVE Orderly'
    <2>1. CASE account = "none"
      <3>1. Auth!Goto(h, "firstCode", 0) /\ UNCHANGED otps
        BY <1>4, <2>1, Zenon DEF Auth!InsertUser
      <3>2. Makers = {} /\ Len(otps) = 0
        BY <2>1 DEF Begun
      <3>3. Makers' = {h} /\ pc'[h] = "firstCode"
        BY <3>1, <3>2, MakersMoved, Moved DEF Auth!Making
      <3>4. Made(h)'
        BY <3>1, <3>2, <3>3 DEF Made
      <3> QED
        BY <3>3, <3>4 DEF Orderly
    <2>2. CASE account # "none"
      <3>1. UNCHANGED otps /\ Auth!Goto(h, "idle", 0) /\ (Tended' => Tended) /\ pc[h] = "insertUser"
        BY <1>4, <2>2, Zenon DEF Auth!InsertUser, Auth!Answer, Auth!users, Tended
      <3>2. pc[h] \notin Auth!Making /\ "idle" \notin Auth!Making
        BY <3>1 DEF Auth!Making
      <3> QED
        BY <3>1, <3>2, AgedUntouched, OtherMakers, OrderlyKept
    <2> QED
      BY <2>1, <2>2
  <1>5. ASSUME NEW h \in Handlers, Auth!Resend(h) PROVE Orderly'
    <2>1. Auth!Goto(h, "newCode", 0) /\ UNCHANGED <<account, otps>>
      BY <1>5, Zenon DEF Auth!Resend, Auth!users
    <2>2. Tended' => Tended /\ Makers = {}
      BY <1>5, <2>1 DEF Auth!Resend, Makers, Tended
    <2>3. Makers = {} => Makers' = {h}
      BY <2>1, MakersMoved DEF Auth!Making
    <2>4. pc'[h] = "newCode"
      BY <2>1, Moved
    <2>5. Tended' => Works(Len(otps))
      BY <2>2, OrderlyParts
    <2>6. Works(Len(otps)) => Works(Len(otps))'
      BY <2>1 DEF Works, InTime
    <2>7. Tended' => Made(h)'
      BY <2>4, <2>5, <2>6 DEF Made
    <2> QED
      BY <2>2, <2>3, <2>7 DEF Orderly, Tended
  <1>6. ASSUME NEW h \in Handlers, Auth!Die(h) PROVE Orderly'
    <2>1. UNCHANGED <<account, otps>> /\ Auth!Goto(h, "idle", 0)
      BY <1>6, Zenon DEF Auth!Die, Auth!Answer, Auth!users
    <2>2. authCrossed' = (authCrossed \/ pc[h] \in Auth!Making)
      BY <1>6 DEF Auth!Die
    <2>3. CASE pc[h] \in Auth!Making
      BY <2>2, <2>3 DEF Orderly
    <2>4. CASE pc[h] \notin Auth!Making
      <3>1. (Tended' => Tended) /\ "idle" \notin Auth!Making
        BY <2>1, <2>2 DEF Tended, Auth!Making
      <3> QED
        BY <2>1, <2>4, <3>1, AgedUntouched, OtherMakers, OrderlyKept
    <2> QED
      BY <2>3, <2>4
  <1>7. CASE Auth!Logout \/ Auth!TokenExpires \/ Auth!WindowEnds \/ Auth!CodeLapses
    <2>1. UNCHANGED <<account, authCrossed, pc, subject>>
      BY <1>7 DEF Auth!Logout, Auth!TokenExpires, Auth!WindowEnds, Auth!CodeLapses, Auth!users, Auth!request
    <2>2. Aged
      BY <1>7, CodesUntouched, AgedUntouched, AgedByLapse
    <2>3. (Tended' => Tended) /\ Makers' = Makers
      BY <2>1, MakersUntouched DEF Tended
    <2> QED
      BY <2>1, <2>2, <2>3, OrderlyKept
  <1> QED
    BY <1>1, <1>2, <1>3, <1>4, <1>5, <1>6, <1>7, OrderlyInsert, OrderlySendFirst, OrderlySend, OrderlyKill,
       OrderlyRetire DEF Auth!Next

-----------------------------------------------------------------------------
(* The account: what becomes of its tokens *)

LEMMA RotatingMoved ==
  ASSUME Routed, NEW h \in Handlers, NEW label, NEW s, Auth!Goto(h, label, s), NEW t
  PROVE  Rotating(t)' = IF label = "rotate" /\ s = t THEN Rotating(t) \cup {h} ELSE Rotating(t) \ {h}
  BY Moved DEF Rotating

\* No refresh starts.
Settling == \A t : Rotating(t)' \subseteq Rotating(t)

LEMMA SettlingElsewhere ==
  ASSUME Routed, NEW h \in Handlers, NEW label, NEW s, Auth!Goto(h, label, s), label # "rotate"
  PROVE  Settling
  BY RotatingMoved DEF Settling

LEMMA SettlingStep ==
  ASSUME Routed, Auth!Next, \A h \in Handlers : ~Auth!Refresh(h)
  PROVE  Settling
  <1> DEFINE Labels == {"idle", "insertUser", "firstCode", "sendFirst", "newCode", "send", "retire", "kill",
                        "reserve", "compare", "claim", "password", "clear", "clearOnly", "change"}
  <1>1. ASSUME NEW h \in Handlers, NEW label \in Labels, NEW s, Auth!Goto(h, label, s) PROVE Settling
    BY <1>1, SettlingElsewhere
  <1>2. ASSUME NEW h \in Handlers,
               \/ Auth!Register(h) \/ Auth!InsertUser(h) \/ Auth!FirstCode(h) \/ Auth!SendFirst(h)
               \/ Auth!Resend(h) \/ Auth!SecondCode(h) \/ Auth!Send(h) \/ Auth!Kill(h) \/ Auth!Retire(h)
        PROVE \E label \in Labels : \E s : Auth!Goto(h, label, s)
    BY <1>2, Zenon DEF Auth!Register, Auth!InsertUser, Auth!FirstCode, Auth!InsertCode, Auth!SendFirst,
         Auth!Resend, Auth!SecondCode, Auth!Send, Auth!Kill, Auth!Retire, Auth!Answer
  <1>3. ASSUME NEW h \in Handlers,
               \/ Auth!Verify(h) \/ Auth!Reserve(h) \/ Auth!Compare(h) \/ Auth!Claim(h)
               \/ Auth!Login(h) \/ Auth!CheckPassword(h) \/ Auth!SignIn(h)
               \/ Auth!EndSessions(h) \/ Auth!Rotate(h) \/ Auth!ChangePassword(h) \/ Auth!Die(h)
        PROVE \E label \in Labels : \E s : Auth!Goto(h, label, s)
    BY <1>3, Zenon DEF Auth!Verify, Auth!Reserve, Auth!Compare, Auth!Claim, Auth!Login, Auth!CheckPassword,
         Auth!SignIn, Auth!EndSessions, Auth!Rotate, Auth!ChangePassword, Auth!Die, Auth!Answer
  <1>4. CASE Auth!Logout \/ Auth!TokenExpires \/ Auth!WindowEnds \/ Auth!CodeLapses
    <2>1. UNCHANGED <<pc, subject>>
      BY <1>4 DEF Auth!Logout, Auth!TokenExpires, Auth!WindowEnds, Auth!CodeLapses, Auth!request
    <2> QED
      BY <2>1 DEF Settling, Rotating
  <1> HIDE DEF Labels
  <1> QED
    BY <1>1, <1>2, <1>3, <1>4 DEF Auth!Next

LEMMA TokenTyped ==
  ASSUME StoredTokens, NEW t \in DOMAIN tokens
  PROVE  tokens[t].heirs \in Nat /\ tokens[t].revoked \in BOOLEAN /\ tokens[t].raced \in BOOLEAN
  <1>1. tokens[t] \in Auth!Token
    BY ElementOfSeq DEF StoredTokens
  <1> QED
    BY <1>1 DEF Auth!Token

\* Nobody rotates a token that is not there.
LEMMA NobodyRotates ==
  ASSUME Routed, NEW n, n \notin DOMAIN tokens
  PROVE  Rotating(n) = {}
  <1>1. \A h \in Handlers : pc[h] = "rotate" => subject[h] \in DOMAIN tokens
    BY DEF Routed, Auth!AboutToken
  <1> QED
    BY <1>1 DEF Rotating

LEMMA ExchangedKept ==
  ASSUME Exchanged, Settling, DOMAIN tokens' = DOMAIN tokens, HeirsKept, RacedKept,
         \A t \in DOMAIN tokens : tokens[t].revoked => tokens'[t].revoked
  PROVE  Exchanged'
  BY DEF Exchanged, Settling, HeirsKept, RacedKept

LEMMA ExchangedBegin ==
  ASSUME Exchanged, Routed, StoredTokens, Settling, era \in Nat,
         Len(tokens) < MaxTokens, tokens' = Append(tokens, Auth!NewToken)
  PROVE  Exchanged'
  <1>1. PICK n \in Nat : n = Len(tokens) + 1
    BY DEF StoredTokens
  <1>2. /\ DOMAIN tokens' = DOMAIN tokens \cup {n} /\ n \notin DOMAIN tokens
        /\ \A t \in DOMAIN tokens : tokens'[t] = tokens[t]
        /\ tokens'[n].heirs = 0
    BY <1>1, BeginEffect
  <1>3. Rotating(n)' = {}
    <2>1. Rotating(n) = {}
      BY <1>2, NobodyRotates
    <2> QED
      BY <2>1 DEF Settling
  <1> QED
    BY <1>2, <1>3 DEF Exchanged, Settling

LEMMA ExchangedRefresh ==
  ASSUME Exchanged, Routed, StoredTokens, NEW h \in Handlers, Auth!Refresh(h)
  PROVE  Exchanged'
  <1>1. PICK t \in DOMAIN tokens :
          /\ tokens[t].revoked \/ Auth!Usable(t)
          /\ Auth!Goto(h, IF tokens[t].revoked THEN "reused" ELSE "rotate", t)
          /\ tokens' = [tokens EXCEPT ![t].raced =
               tokens[t].raced \/ (Auth!Usable(t) /\ \E g \in Handlers : pc[g] = "rotate" /\ subject[g] = t)]
    BY Zenon DEF Auth!Refresh
  <1>2. /\ TokensInPlace /\ RevokedKept /\ HeirsKept
        /\ \A u \in DOMAIN tokens : u # t => tokens'[u].raced = tokens[u].raced
        /\ tokens'[t].raced = (tokens[t].raced \/ (Auth!Usable(t) /\ Rotating(t) # {}))
    BY <1>1, RefreshEffect
  <1>3. \A u \in DOMAIN tokens : u # t => Rotating(u)' \subseteq Rotating(u)
    BY <1>1, RotatingMoved
  <1>4. CASE tokens[t].revoked
    <2>1. Auth!Goto(h, "reused", t)
      BY <1>1, <1>4, Zenon
    <2>2. Settling
      BY <2>1, SettlingElsewhere
    <2>3. ~Auth!Usable(t)
      BY <1>4 DEF Auth!Usable
    <2>4. tokens'[t].raced = tokens[t].raced
      <3>1. tokens[t].raced \in BOOLEAN
        BY TokenTyped
      <3> QED
        BY <1>2, <2>3, <3>1
    <2>5. RacedKept
      BY <1>2, <2>4 DEF RacedKept
    <2> QED
      BY <1>2, <2>2, <2>5, ExchangedKept DEF TokensInPlace, RevokedKept
  <1>5. CASE ~tokens[t].revoked
    <2>1. Auth!Goto(h, "rotate", t) /\ Auth!Usable(t)
      BY <1>1, <1>5, Zenon
    <2>2. tokens[t].heirs = 0 /\ tokens'[t].heirs = 0
      BY <1>2, <1>5 DEF Exchanged, HeirsKept
    <2>3. tokens'[t].raced \/ Rotating(t) = {}
      BY <1>2, <2>1
    <2>4. Rotating(t)' = Rotating(t) \cup {h}
      BY <2>1, RotatingMoved
    <2>5. tokens'[t].raced \/ (\A g, k \in Rotating(t)' : g = k)
      BY <2>3, <2>4
    <2>6. ASSUME NEW u \in DOMAIN tokens, u # t
          PROVE  /\ tokens'[u].heirs = 0 \/ tokens'[u].revoked
                 /\ tokens'[u].raced \/ /\ tokens'[u].heirs <= 1
                                        /\ \A g, k \in Rotating(u)' : g = k
                                        /\ Rotating(u)' # {} => tokens'[u].heirs = 0
      BY <1>2, <1>3, <2>6 DEF Exchanged, HeirsKept, RevokedKept
    <2> QED
      BY <1>2, <2>2, <2>5, <2>6 DEF Exchanged, TokensInPlace
  <1> QED
    BY <1>4, <1>5

LEMMA ExchangedRotate ==
  ASSUME Exchanged, Routed, StoredTokens, NEW h \in Handlers, Auth!Rotate(h)
  PROVE  Exchanged'
  <1>1. PICK t \in DOMAIN tokens : t = subject[h]
    BY RotateEffect
  <1>2. PICK n \in Nat : n = Len(tokens) + 1
    BY DEF StoredTokens
  <1>3. /\ DOMAIN tokens' = DOMAIN tokens \cup {n} /\ n \notin DOMAIN tokens
        /\ RacedKept
        /\ \A u \in DOMAIN tokens : u # t =>
             tokens'[u].revoked = tokens[u].revoked /\ tokens'[u].heirs = tokens[u].heirs
        /\ tokens'[t].revoked /\ tokens'[t].heirs = tokens[t].heirs + 1
        /\ tokens'[n].heirs = 0
    BY <1>1, <1>2, RotateEffect
  <1>4. Auth!Goto(h, "idle", 0) /\ pc[h] = "rotate"
    BY Zenon DEF Auth!Rotate, Auth!Answer
  <1>5. \A u : Rotating(u)' = Rotating(u) \ {h}
    BY <1>4, RotatingMoved
  <1>6. Rotating(n)' = {}
    <2>1. Rotating(n) = {}
      BY <1>3, NobodyRotates
    <2> QED
      BY <1>5, <2>1
  <1>7. tokens'[t].raced \/ (tokens'[t].heirs <= 1 /\ Rotating(t)' = {})
    <2>1. h \in Rotating(t)
      BY <1>1, <1>4 DEF Rotating
    <2>2. tokens[t].raced \/ (tokens[t].heirs = 0 /\ \A g, k \in Rotating(t) : g = k)
      BY <2>1 DEF Exchanged
    <2> QED
      BY <1>3, <1>5, <2>1, <2>2 DEF RacedKept
  <1>8. ASSUME NEW u \in DOMAIN tokens, u # t
        PROVE  /\ tokens'[u].heirs = 0 \/ tokens'[u].revoked
               /\ tokens'[u].raced \/ /\ tokens'[u].heirs <= 1
                                      /\ \A g, k \in Rotating(u)' : g = k
                                      /\ Rotating(u)' # {} => tokens'[u].heirs = 0
    BY <1>3, <1>5, <1>8 DEF Exchanged, RacedKept
  <1> QED
    BY <1>3, <1>6, <1>7, <1>8 DEF Exchanged

LEMMA ExchangedStep ==
  ASSUME Exchanged, Routed, Counted, StoredTokens, Auth!Next
  PROVE  Exchanged'
  <1>0. era \in Nat
    BY DEF Counted
  <1>1. CASE \E h \in Handlers : Auth!Refresh(h)
    BY <1>1, ExchangedRefresh
  <1>2. CASE \A h \in Handlers : ~Auth!Refresh(h)
    <2>1. Settling
      BY <1>2, SettlingStep
    <2>2. ASSUME UNCHANGED tokens PROVE Exchanged'
      BY <2>1, <2>2, ExchangedKept DEF HeirsKept, RacedKept
    <2>3. ASSUME NEW h \in Handlers, Auth!Claim(h) \/ Auth!SignIn(h) PROVE Exchanged'
      <3>1. UNCHANGED tokens \/ (Len(tokens) < MaxTokens /\ tokens' = Append(tokens, Auth!NewToken))
        BY <2>3 DEF Auth!Claim, Auth!SignIn
      <3> QED
        BY <1>0, <2>1, <2>2, <3>1, ExchangedBegin
    <2>4. ASSUME NEW h \in Handlers, Auth!EndSessions(h) PROVE Exchanged'
      BY <2>1, <2>4, EndEffect, ExchangedKept DEF TokensInPlace
    <2>5. CASE Auth!Logout \/ Auth!TokenExpires
      BY <2>1, <2>5, RevokeEffect, ExchangedKept DEF TokensInPlace
    <2> QED
      BY <1>2, <2>2, <2>3, <2>4, <2>5, TokensUntouched, ExchangedRotate DEF Auth!Next
  <1> QED
    BY <1>1, <1>2

LEMMA CurrentKept ==
  ASSUME Current, UNCHANGED era, DOMAIN tokens' = DOMAIN tokens, BirthKept,
         \A t \in DOMAIN tokens : tokens[t].revoked => tokens'[t].revoked
  PROVE  Current'
  BY DEF Current, BirthKept

LEMMA CurrentStep ==
  ASSUME Current, Routed, Counted, StoredTokens, Auth!Next
  PROVE  Current'
  <1>0. era \in Nat
    BY DEF Counted
  <1>1. ASSUME UNCHANGED <<tokens, era>> PROVE Current'
    BY <1>1 DEF Current
  <1>2. ASSUME NEW h \in Handlers, Auth!Claim(h) \/ Auth!SignIn(h) PROVE Current'
    <2>1. /\ UNCHANGED era
          /\ UNCHANGED tokens \/ (Len(tokens) < MaxTokens /\ tokens' = Append(tokens, Auth!NewToken))
      BY <1>2 DEF Auth!Claim, Auth!SignIn
    <2>2. CASE Len(tokens) < MaxTokens /\ tokens' = Append(tokens, Auth!NewToken)
      BY <1>0, <2>1, <2>2, BeginEffect DEF Current
    <2> QED
      BY <1>1, <2>1, <2>2
  <1>3. ASSUME NEW h \in Handlers, Auth!Refresh(h) PROVE Current'
    <2>1. PICK t \in DOMAIN tokens :
            tokens' = [tokens EXCEPT ![t].raced =
              tokens[t].raced \/ (Auth!Usable(t) /\ \E g \in Handlers : pc[g] = "rotate" /\ subject[g] = t)]
      BY <1>3, Zenon DEF Auth!Refresh
    <2>2. UNCHANGED era
      BY <1>3 DEF Auth!Refresh
    <2>3. TokensInPlace /\ RevokedKept /\ BirthKept
      BY <2>1, RefreshEffect
    <2> QED
      BY <2>2, <2>3, CurrentKept DEF TokensInPlace, RevokedKept
  <1>4. ASSUME NEW h \in Handlers, Auth!EndSessions(h) PROVE Current'
    BY <1>4, EndEffect DEF Current, TokensInPlace
  <1>5. ASSUME NEW h \in Handlers, Auth!Rotate(h) PROVE Current'
    <2>1. PICK t \in DOMAIN tokens : t = subject[h]
      BY <1>5, RotateEffect
    <2>2. PICK n \in Nat : n = Len(tokens) + 1
      BY DEF StoredTokens
    <2>3. /\ DOMAIN tokens' = DOMAIN tokens \cup {n} /\ BirthKept
          /\ \A u \in DOMAIN tokens : u # t => tokens'[u].revoked = tokens[u].revoked
          /\ tokens'[t].revoked
          /\ tokens'[n].era = tokens[t].era
          /\ tokens[t].late \/ tokens[t].revoked => tokens'[n].late
      BY <1>5, <2>1, <2>2, RotateEffect
    <2>4. UNCHANGED era
      BY <1>5 DEF Auth!Rotate
    <2>5. tokens'[n].era = era' \/ tokens'[n].late
      BY <2>1, <2>3, <2>4 DEF Current
    <2>6. \A u \in DOMAIN tokens : tokens'[u].revoked \/ tokens'[u].era = era' \/ tokens'[u].late
      BY <2>3, <2>4 DEF Current, BirthKept
    <2> QED
      BY <2>3, <2>5, <2>6 DEF Current
  <1>6. CASE Auth!Logout \/ Auth!TokenExpires
    <2>1. UNCHANGED era
      BY <1>6 DEF Auth!Logout, Auth!TokenExpires
    <2> QED
      BY <1>6, <2>1, RevokeEffect, CurrentKept DEF TokensInPlace
  <1> QED
    BY <1>1, <1>2, <1>3, <1>4, <1>5, <1>6, TokensUntouched DEF Auth!Next

-----------------------------------------------------------------------------
(* The account: theorems *)

LEMMA AuthInit == Auth!Init => AuthInv
  <1> SUFFICES ASSUME Auth!Init PROVE AuthInv
    OBVIOUS
  <1>1. Auth!TypeOK
    BY AuthInitTyped
  <1>2. /\ DOMAIN otps = {} /\ DOMAIN tokens = {} /\ Len(otps) = 0 /\ account = "none" /\ trials = 0
        /\ \A h \in Handlers : pc[h] = "idle"
    BY DEF Auth!Init
  <1>3. Makers = {}
    BY <1>2 DEF Makers, Auth!Making
  <1>4. Reserved /\ Exchanged /\ Current
    BY <1>2 DEF Reserved, Exchanged, Current
  <1>5. Begun
    BY <1>2, <1>3 DEF Begun
  <1>6. Orderly
    BY <1>2 DEF Orderly
  <1> QED
    BY <1>1, <1>4, <1>5, <1>6 DEF AuthInv

LEMMA AuthStutter ==
  ASSUME AuthInv, UNCHANGED authVars
  PROVE  AuthInv'
  <1>1. UNCHANGED <<account, trials, otps, tokens, pc, subject, era, authCrossed>>
    BY DEF authVars
  <1>2. Auth!TypeOK'
    BY AuthTypedStep DEF AuthInv
  <1>3. Reserved' /\ Exchanged' /\ Current'
    BY <1>1 DEF AuthInv, Reserved, Comparing, Exchanged, Rotating, Current
  <1>4. Begun'
    BY <1>1 DEF AuthInv, Begun, Makers
  <1>5. Orderly'
    BY <1>1 DEF AuthInv, Orderly, Makers, Made, Works, InTime
  <1> QED
    BY <1>2, <1>3, <1>4, <1>5 DEF AuthInv

LEMMA AuthStep ==
  ASSUME AuthInv, [Auth!Next]_authVars
  PROVE  AuthInv'
  <1>1. CASE UNCHANGED authVars
    BY <1>1, AuthStutter
  <1>2. CASE Auth!Next
    <2>1. Auth!TypeOK /\ Reserved /\ Begun /\ Orderly /\ Exchanged /\ Current
      BY DEF AuthInv
    <2>2. Routed /\ Counted /\ StoredCodes /\ StoredTokens
      BY <2>1, TypedParts
    <2>3. Auth!TypeOK'
      BY <2>1, AuthTypedStep
    <2> QED
      BY <1>2, <2>1, <2>2, <2>3, ReservedStep, BegunStep, OrderlyStep, ExchangedStep, CurrentStep DEF AuthInv
  <1> QED
    BY <1>1, <1>2

\* Where no request makes a code, the newest live code is the last one sent in time.
LEMMA CodesFollow == AuthInv => CodesGuarded
  <1> SUFFICES ASSUME AuthInv PROVE CodesGuarded
    OBVIOUS
  <1>0. otps \in Seq(Auth!Code) /\ Len(otps) \in Nat /\ DOMAIN otps = 1..Len(otps)
    BY DEF AuthInv, Auth!TypeOK
  <1>1. Auth!GuessesBounded
    <2>1. ASSUME NEW c \in DOMAIN otps PROVE otps[c].guesses <= MaxAttempts
      <3>1. otps[c] \in Auth!Code
        BY <1>0, ElementOfSeq
      <3>2. otps[c].guesses \in Nat /\ otps[c].attempts \in Nat
        BY <3>1 DEF Auth!Code
      <3>3. /\ otps[c].guesses + Cardinality(Comparing(c)) <= otps[c].attempts
            /\ otps[c].attempts <= MaxAttempts /\ IsFiniteSet(Comparing(c))
        BY DEF AuthInv, Reserved
      <3>4. Cardinality(Comparing(c)) \in Nat
        BY <3>3, FS_CardinalityType
      <3> QED
        BY <3>2, <3>3, <3>4, AuthBounds
    <2> QED
      BY <2>1 DEF Auth!GuessesBounded
  <1>2. Auth!OneTrial
    BY DEF AuthInv, Begun, Auth!OneTrial
  <1>3. Auth!KeepsWorkingCode
    <2> SUFFICES ASSUME account = "unverified", ~authCrossed, \A h \in Handlers : pc[h] \notin Auth!Making,
                        NEW c \in DOMAIN otps, otps[c].sent, \A d \in c..Len(otps) : ~otps[d].lapsed
                 PROVE  \E d \in DOMAIN otps : Auth!Newest(d) /\ otps[d].sent
      BY Zenon DEF Auth!KeepsWorkingCode
    <2>1. Makers = {}
      BY DEF Makers
    <2>2. Works(Len(otps))
      BY <2>1 DEF AuthInv, Orderly
    <2>3. PICK s \in 1..Len(otps) : /\ otps[s].sent /\ (otps[s].live \/ otps[s].lapsed)
                                    /\ \A d \in (s + 1)..Len(otps) : ~otps[d].sent /\ ~otps[d].live
      BY <1>0, <2>2 DEF Works, InTime
    <2>4. s \in c..Len(otps)
      BY <1>0, <2>3
    <2>5. otps[s].live /\ ~otps[s].used
      BY <1>0, <2>3, <2>4 DEF AuthInv, Begun
    <2>6. \A d \in DOMAIN otps : otps[d].live => d <= s
      BY <1>0, <2>3
    <2>7. Auth!Newest(s)
      BY <1>0, <2>5, <2>6 DEF Auth!Newest, Auth!Live
    <2> QED
      BY <1>0, <2>3, <2>7
  <1> QED
    BY <1>1, <1>2, <1>3 DEF CodesGuarded

LEMMA SessionsFollow == AuthInv => SessionsGuarded
  BY DEF AuthInv, Exchanged, Current, SessionsGuarded, Auth!OneHeir, Auth!SessionsEnded, Auth!Usable

LEMMA AccountFollowed == AccountsNext => [Auth!Next]_authVars
  <1> SUFFICES ASSUME AccountsNext PROVE [Auth!Next]_authVars
    OBVIOUS
  <1> QED
    BY Zenon DEF AccountsNext

\* The inductive invariant of the account, for any requests and bounds.
THEOREM AccountSafe == AccountsSpec => []AuthInv
  <1>1. AccountsInit => AuthInv
    BY AuthInit DEF AccountsInit
  <1>2. AuthInv /\ [AccountsNext]_accountsVars => AuthInv'
    <2> SUFFICES ASSUME AuthInv, [AccountsNext]_accountsVars PROVE AuthInv'
      OBVIOUS
    <2>1. CASE AccountsNext
      BY <2>1, AccountFollowed, AuthStep
    <2>2. CASE UNCHANGED accountsVars
      BY <2>2, AuthStutter DEF accountsVars
    <2> QED
      BY <2>1, <2>2
  <1> QED
    BY <1>1, <1>2, PTL DEF AccountsSpec

\* However the requests of an account interleave (verifyOtp, resendOtp), a code gets at most
\* MAX_OTP_ATTEMPTS comparisons, resends keep the user a working code, and the
\* account starts one trial.
THEOREM CodesSafe == AccountsSpec => []CodesGuarded
  BY AccountSafe, CodesFollow, PTL

\* A refresh token has one heir unless refreshes raced, and no token outlives the end of
\* every session unless it was being exchanged (refresh, changePassword).
THEOREM SessionsSafe == AccountsSpec => []SessionsGuarded
  BY AccountSafe, SessionsFollow, PTL

-----------------------------------------------------------------------------
(* The browser: its inductive invariant *)

Refreshing == [pc : {"none", "sent", "rotate", "renewed", "denied"}, sent : Nat, token : Nat]

WebTyped ==
  /\ live \in Seq(BOOLEAN)
  /\ cookie \in [rt : Nat, at : BOOLEAN] /\ cookie.rt \in DOMAIN live
  /\ page \in [Pages -> {"closed", "loading", "open", "login"}]
  /\ call \in [Pages -> [Calls -> {"idle", "accepted", "refused", "waiting", "retry"}]]
  /\ refresh \in [Pages -> Refreshing]
  /\ \A p \in Pages : refresh[p].pc = "renewed" => refresh[p].token \in DOMAIN live
  /\ webFaults \in Nat /\ webCrossed \in BOOLEAN

\* A page that loads has no calls yet, and a call waits for a refresh.
Waiting == \A p \in Pages, c \in Calls :
  /\ page[p] = "loading" => call[p][c] = "idle"
  /\ call[p][c] = "waiting" => refresh[p].pc # "none"

\* A call is sent again with the access token its refresh brought.
Retrying == \A p \in Pages, c \in Calls : call[p][c] = "retry" => cookie.at

\* One page refreshes, with the token of the cookie, which is live until the other is issued.
Alone == ~webCrossed /\ webFaults = 0 =>
  /\ \A p \in Pages : page[p] # "login"
  /\ \A p, q \in Pages : refresh[p].pc # "none" /\ refresh[q].pc # "none" => p = q
  /\ \A p \in Pages : refresh[p].pc # "none" =>
       /\ refresh[p].sent = cookie.rt /\ refresh[p].pc # "denied"
       /\ refresh[p].pc = "renewed" => live[refresh[p].token]
       /\ refresh[p].pc # "renewed" => live[cookie.rt]
  /\ (\A p \in Pages : refresh[p].pc = "none") => live[cookie.rt]

WebInv == WebTyped /\ Waiting /\ Retrying /\ Alone

LEMMA WebInit == Web!Init => WebInv
  <1> SUFFICES ASSUME Web!Init PROVE WebInv
    OBVIOUS
  <1>1. /\ live = <<TRUE>> /\ cookie = [rt |-> 1, at |-> TRUE]
        /\ page = [p \in Pages |-> "closed"]
        /\ call = [p \in Pages |-> [c \in Calls |-> "idle"]]
        /\ refresh = [p \in Pages |-> Web!None]
        /\ webFaults = 0 /\ webCrossed = FALSE
    BY DEF Web!Init, Web!NoCalls
  <1>2. Web!None \in Refreshing /\ Web!None.pc = "none"
    BY DEF Web!None, Refreshing
  <1>3. live \in Seq(BOOLEAN) /\ DOMAIN live = {1} /\ live[1] = TRUE
    BY <1>1
  <1>4. cookie.rt = 1 /\ cookie \in [rt : Nat, at : BOOLEAN]
    BY <1>1
  <1>5. \A p \in Pages : refresh[p].pc = "none"
    BY <1>1, <1>2
  <1>6. WebTyped
    BY <1>1, <1>2, <1>3, <1>4, <1>5 DEF WebTyped
  <1>7. Waiting /\ Retrying
    BY <1>1 DEF Waiting, Retrying
  <1>8. Alone
    BY <1>1, <1>3, <1>4, <1>5 DEF Alone
  <1> QED
    BY <1>6, <1>7, <1>8 DEF WebInv

\* A request to refresh has the cookie's token.
LEMMA SendEffect2 ==
  ASSUME WebTyped, NEW p \in Pages, Web!Send(p)
  PROVE  /\ refresh' \in [Pages -> Refreshing]
         /\ refresh'[p].pc = "sent" /\ refresh'[p].sent = cookie.rt
         /\ \A q \in Pages : q # p => refresh'[q] = refresh[q]
         /\ webCrossed' \in BOOLEAN
         /\ ~webCrossed' => ~webCrossed /\ \A q \in Pages : q # p /\ refresh[q].pc # "none" => refresh[q].sent # cookie.rt
  <1> DEFINE e == [pc |-> "sent", sent |-> cookie.rt, token |-> 0]
  <1>1. refresh' = [refresh EXCEPT ![p] = e]
    BY DEF Web!Send
  <1>2. e \in Refreshing /\ e.pc = "sent" /\ e.sent = cookie.rt
    BY DEF WebTyped, Refreshing
  <1>3. webCrossed' = (webCrossed \/ \E q \in Pages \ {p} : refresh[q].pc # "none" /\ refresh[q].sent = cookie.rt)
    BY DEF Web!Send
  <1> HIDE DEF e
  <1>4. webCrossed' \in BOOLEAN
    BY <1>3, Zenon DEF WebTyped
  <1>5. ~webCrossed' => ~webCrossed /\ \A q \in Pages : q # p /\ refresh[q].pc # "none" => refresh[q].sent # cookie.rt
    BY <1>3
  <1> QED
    BY <1>1, <1>2, <1>4, <1>5 DEF WebTyped

\* Nobody has to wait for a request that was sent alone.
LEMMA AloneSent ==
  ASSUME WebInv, NEW p \in Pages, refresh[p].pc = "none", Web!Send(p),
         UNCHANGED <<cookie, live, webFaults>>, \A q \in Pages : page'[q] = "login" => page[q] = "login"
  PROVE  Alone'
  <1> SUFFICES ASSUME ~webCrossed', webFaults' = 0
               PROVE  /\ \A q \in Pages : page'[q] # "login"
                      /\ \A q, r \in Pages : refresh'[q].pc # "none" /\ refresh'[r].pc # "none" => q = r
                      /\ \A q \in Pages : refresh'[q].pc # "none" =>
                           /\ refresh'[q].sent = cookie'.rt /\ refresh'[q].pc # "denied"
                           /\ refresh'[q].pc = "renewed" => live'[refresh'[q].token]
                           /\ refresh'[q].pc # "renewed" => live'[cookie'.rt]
                      /\ (\A q \in Pages : refresh'[q].pc = "none") => live'[cookie'.rt]
    BY DEF Alone
  <1>1. /\ refresh'[p].pc = "sent" /\ refresh'[p].sent = cookie.rt
        /\ \A q \in Pages : q # p => refresh'[q] = refresh[q]
        /\ ~webCrossed /\ \A q \in Pages : q # p /\ refresh[q].pc # "none" => refresh[q].sent # cookie.rt
    BY SendEffect2 DEF WebInv
  <1>2. \A q \in Pages : refresh[q].pc = "none"
    BY <1>1 DEF WebInv, Alone
  <1>3. live[cookie.rt] /\ \A q \in Pages : page[q] # "login"
    BY <1>1, <1>2 DEF WebInv, Alone
  <1> QED
    BY <1>1, <1>2, <1>3

LEMMA WebNavigate ==
  ASSUME WebInv, NEW p \in Pages, Web!Navigate(p)
  PROVE  WebInv'
  <1>0. WebTyped /\ Waiting /\ Retrying /\ Alone
    BY DEF WebInv
  <1>1. /\ call' = [call EXCEPT ![p] = [c \in Calls |-> "idle"]]
        /\ refresh[p].pc = "none" /\ UNCHANGED <<cookie, live, webFaults>>
    BY DEF Web!Navigate, Web!NoCalls
  <1>2. /\ \A q \in Pages : q # p => call'[q] = call[q]
        /\ \A c \in Calls : call'[p][c] = "idle"
        /\ call' \in [Pages -> [Calls -> {"idle", "accepted", "refused", "waiting", "retry"}]]
    BY <1>0, <1>1 DEF WebTyped
  <1>3. Retrying'
    BY <1>0, <1>1, <1>2 DEF Retrying
  <1>4. CASE cookie.at
    <2>1. page' = [page EXCEPT ![p] = "open"] /\ UNCHANGED <<refresh, webCrossed>>
      BY <1>4 DEF Web!Navigate
    <2>2. WebTyped'
      BY <1>0, <1>1, <1>2, <2>1 DEF WebTyped
    <2>3. \A q \in Pages : page'[q] = (IF q = p THEN "open" ELSE page[q])
      BY <1>0, <2>1 DEF WebTyped
    <2>4. Waiting'
      BY <1>0, <1>2, <2>1, <2>3 DEF Waiting
    <2>5. Alone'
      BY <1>0, <1>1, <2>1, <2>3 DEF Alone
    <2> QED
      BY <1>3, <2>2, <2>4, <2>5 DEF WebInv
  <1>5. CASE ~cookie.at
    <2>1. page' = [page EXCEPT ![p] = "loading"] /\ Web!Send(p)
      BY <1>5 DEF Web!Navigate
    <2>2. /\ refresh' \in [Pages -> Refreshing] /\ refresh'[p].pc = "sent"
          /\ \A q \in Pages : q # p => refresh'[q] = refresh[q]
          /\ webCrossed' \in BOOLEAN
      BY <1>0, <2>1, SendEffect2
    <2>3. WebTyped'
      BY <1>0, <1>1, <1>2, <2>1, <2>2 DEF WebTyped
    <2>4. \A q \in Pages : page'[q] = (IF q = p THEN "loading" ELSE page[q])
      BY <1>0, <2>1 DEF WebTyped
    <2>5. Waiting'
      BY <1>0, <1>2, <2>2, <2>4 DEF Waiting
    <2>6. Alone'
      BY <1>1, <2>1, <2>4, AloneSent
    <2> QED
      BY <1>3, <2>3, <2>5, <2>6 DEF WebInv
  <1> QED
    BY <1>4, <1>5

\* A data call changes its own place, not to waiting, and no page.
LEMMA CallMoves ==
  ASSUME WebInv, NEW p \in Pages, NEW c \in Calls, NEW label \in {"idle", "accepted", "refused"},
         call' = [call EXCEPT ![p][c] = label],
         label # "idle" => page[p] = "open",
         UNCHANGED <<cookie, live, page, refresh, webFaults, webCrossed>>
  PROVE  WebInv'
  <1>0. WebTyped /\ Waiting /\ Retrying /\ Alone
    BY DEF WebInv
  <1>1. /\ call' \in [Pages -> [Calls -> {"idle", "accepted", "refused", "waiting", "retry"}]]
        /\ \A q \in Pages, d \in Calls : call'[q][d] = (IF q = p /\ d = c THEN label ELSE call[q][d])
    BY <1>0 DEF WebTyped
  <1>2. WebTyped'
    BY <1>0, <1>1 DEF WebTyped
  <1>3. Waiting' /\ Retrying'
    BY <1>0, <1>1 DEF Waiting, Retrying
  <1>4. Alone'
    BY <1>0 DEF Alone
  <1> QED
    BY <1>2, <1>3, <1>4 DEF WebInv

LEMMA WebUnauthorized ==
  ASSUME WebInv, NEW p \in Pages, NEW c \in Calls, Web!Unauthorized(p, c)
  PROVE  WebInv'
  <1>0. WebTyped /\ Waiting /\ Retrying /\ Alone
    BY DEF WebInv
  <1>1. /\ call[p][c] = "refused" /\ call' = [call EXCEPT ![p][c] = "waiting"]
        /\ UNCHANGED <<cookie, live, page, webFaults>>
    BY DEF Web!Unauthorized
  <1>2. /\ call' \in [Pages -> [Calls -> {"idle", "accepted", "refused", "waiting", "retry"}]]
        /\ \A q \in Pages, d \in Calls : call'[q][d] = (IF q = p /\ d = c THEN "waiting" ELSE call[q][d])
    BY <1>0, <1>1 DEF WebTyped
  <1>3. Retrying'
    BY <1>0, <1>1, <1>2 DEF Retrying
  <1>4. page[p] # "loading"
    BY <1>0, <1>1 DEF Waiting
  <1>5. CASE Web!InFlight(p)
    <2>1. UNCHANGED <<refresh, webCrossed>> /\ refresh[p].pc # "none"
      BY <1>5 DEF Web!Unauthorized, Web!InFlight
    <2>2. WebTyped'
      BY <1>0, <1>1, <1>2, <2>1 DEF WebTyped
    <2>3. Waiting'
      BY <1>0, <1>1, <1>2, <1>4, <2>1 DEF Waiting
    <2>4. Alone'
      BY <1>0, <1>1, <2>1 DEF Alone
    <2> QED
      BY <1>3, <2>2, <2>3, <2>4 DEF WebInv
  <1>6. CASE ~Web!InFlight(p)
    <2>1. Web!Send(p) /\ refresh[p].pc = "none"
      BY <1>6 DEF Web!Unauthorized, Web!InFlight
    <2>2. /\ refresh' \in [Pages -> Refreshing] /\ refresh'[p].pc = "sent"
          /\ \A q \in Pages : q # p => refresh'[q] = refresh[q]
          /\ webCrossed' \in BOOLEAN
      BY <1>0, <2>1, SendEffect2
    <2>3. WebTyped'
      BY <1>0, <1>1, <1>2, <2>1, <2>2 DEF WebTyped
    <2>4. Waiting'
      BY <1>0, <1>1, <1>2, <1>4, <2>2 DEF Waiting
    <2>5. Alone'
      BY <1>1, <2>1, AloneSent
    <2> QED
      BY <1>3, <2>3, <2>4, <2>5 DEF WebInv
  <1> QED
    BY <1>5, <1>6

LEMMA WebRetry ==
  ASSUME WebInv, NEW p \in Pages, NEW c \in Calls, Web!Retry(p, c)
  PROVE  WebInv'
  <1>0. WebTyped /\ Waiting /\ Retrying /\ Alone
    BY DEF WebInv
  <1>1. call[p][c] = "retry" /\ call' = [call EXCEPT ![p][c] = "idle"]
    BY DEF Web!Retry
  <1>2. cookie.at
    BY <1>0, <1>1 DEF Retrying
  <1>3. page' = page /\ UNCHANGED <<cookie, live, refresh, webFaults, webCrossed>>
    <2>1. page' = [page EXCEPT ![p] = page[p]]
      BY <1>2 DEF Web!Retry
    <2> QED
      BY <1>0, <2>1 DEF WebTyped, Web!Retry
  <1> QED
    BY <1>1, <1>3, CallMoves

\* A refresh that is over leaves no call waiting for it.
LEMMA ResumeEffect ==
  ASSUME WebTyped, Waiting, NEW p \in Pages, NEW renewed \in BOOLEAN, Web!Resume(p, renewed)
  PROVE  /\ refresh' \in [Pages -> Refreshing] /\ refresh'[p].pc = "none"
         /\ \A q \in Pages : q # p => refresh'[q] = refresh[q]
         /\ page' \in [Pages -> {"closed", "loading", "open", "login"}]
         /\ \A q \in Pages : page'[q] = "login" => page[q] = "login" \/ (q = p /\ ~renewed)
         /\ call' \in [Pages -> [Calls -> {"idle", "accepted", "refused", "waiting", "retry"}]]
         /\ \A q \in Pages, c \in Calls : call'[q][c] = "retry" => renewed \/ call[q][c] = "retry"
         /\ Waiting'
  <1>1. refresh' = [refresh EXCEPT ![p] = Web!None] /\ Web!None \in Refreshing /\ Web!None.pc = "none"
    BY DEF Web!Resume, Web!None, Refreshing
  <1>2. /\ refresh' \in [Pages -> Refreshing] /\ refresh'[p].pc = "none"
        /\ \A q \in Pages : q # p => refresh'[q] = refresh[q]
    BY <1>1 DEF WebTyped
  <1>3. CASE page[p] = "loading"
    <2>1. page' = [page EXCEPT ![p] = IF renewed THEN "open" ELSE "login"] /\ UNCHANGED call
      BY <1>3 DEF Web!Resume
    <2>2. /\ page' \in [Pages -> {"closed", "loading", "open", "login"}]
          /\ \A q \in Pages : page'[q] = (IF q = p THEN (IF renewed THEN "open" ELSE "login") ELSE page[q])
      BY <2>1 DEF WebTyped
    <2>3. Waiting'
      BY <1>2, <1>3, <2>1, <2>2 DEF Waiting
    <2> QED
      BY <1>2, <2>1, <2>2, <2>3 DEF WebTyped
  <1>4. CASE page[p] # "loading"
    <2> DEFINE woken == [c \in Calls |-> IF call[p][c] # "waiting" THEN call[p][c]
                                         ELSE IF renewed THEN "retry" ELSE "idle"]
    <2>1. call' = [call EXCEPT ![p] = woken] /\ page' = [page EXCEPT ![p] = IF renewed THEN page[p] ELSE "login"]
      BY <1>4 DEF Web!Resume
    <2>2. woken \in [Calls -> {"idle", "accepted", "refused", "waiting", "retry"}]
      BY DEF WebTyped
    <2>3. \A c \in Calls : /\ woken[c] # "waiting"
                           /\ woken[c] = "retry" => renewed \/ call[p][c] = "retry"
      OBVIOUS
    <2> HIDE DEF woken
    <2>4. /\ call' \in [Pages -> [Calls -> {"idle", "accepted", "refused", "waiting", "retry"}]]
          /\ call'[p] = woken /\ \A q \in Pages : q # p => call'[q] = call[q]
      BY <2>1, <2>2 DEF WebTyped
    <2>5. /\ page' \in [Pages -> {"closed", "loading", "open", "login"}]
          /\ \A q \in Pages : page'[q] = (IF q = p THEN (IF renewed THEN page[p] ELSE "login") ELSE page[q])
      BY <2>1 DEF WebTyped
    <2>6. page'[p] # "loading"
      BY <1>4, <2>5
    <2>7. Waiting'
      BY <1>2, <2>3, <2>4, <2>5, <2>6 DEF Waiting
    <2> QED
      BY <1>2, <2>3, <2>4, <2>5, <2>7
  <1> QED
    BY <1>3, <1>4

LEMMA WebCheck ==
  ASSUME WebInv, NEW p \in Pages, Web!Check(p)
  PROVE  WebInv'
  <1>0. WebTyped /\ Waiting /\ Retrying /\ Alone
    BY DEF WebInv
  <1>1. refresh[p].pc = "sent" /\ UNCHANGED <<cookie, page, call, webFaults, webCrossed>>
    BY DEF Web!Check
  <1>2. refresh[p] \in Refreshing
    BY <1>0 DEF WebTyped
  <1>3. CASE live[refresh[p].sent]
    <2> DEFINE e == [refresh[p] EXCEPT !.pc = "rotate"]
    <2>1. refresh' = [refresh EXCEPT ![p] = e] /\ UNCHANGED live
      BY <1>3 DEF Web!Check
    <2>2. e \in Refreshing /\ e.pc = "rotate" /\ e.sent = refresh[p].sent
      BY <1>2 DEF Refreshing
    <2> HIDE DEF e
    <2>3. /\ refresh' \in [Pages -> Refreshing]
          /\ refresh'[p] = e /\ \A q \in Pages : q # p => refresh'[q] = refresh[q]
      BY <1>0, <2>1, <2>2 DEF WebTyped
    <2>4. WebTyped'
      BY <1>0, <1>1, <2>1, <2>2, <2>3 DEF WebTyped
    <2>5. Waiting' /\ Retrying'
      BY <1>0, <1>1, <2>2, <2>3 DEF Waiting, Retrying
    <2>6. Alone'
      BY <1>0, <1>1, <2>1, <2>2, <2>3 DEF Alone
    <2> QED
      BY <2>4, <2>5, <2>6 DEF WebInv
  <1>4. CASE ~live[refresh[p].sent]
    <2> DEFINE e == [refresh[p] EXCEPT !.pc = "denied"]
    <2>1. refresh' = [refresh EXCEPT ![p] = e] /\ live' = [n \in DOMAIN live |-> FALSE]
      BY <1>4 DEF Web!Check
    <2>2. e \in Refreshing /\ e.pc = "denied"
      BY <1>2 DEF Refreshing
    <2> HIDE DEF e
    <2>3. /\ refresh' \in [Pages -> Refreshing]
          /\ refresh'[p] = e /\ \A q \in Pages : q # p => refresh'[q] = refresh[q]
      BY <1>0, <2>1, <2>2 DEF WebTyped
    <2>4. live' \in Seq(BOOLEAN) /\ DOMAIN live' = DOMAIN live
      <3>1. live' \in [DOMAIN live -> BOOLEAN]
        BY <2>1
      <3> QED
        BY <1>0, <3>1, RowsMapped DEF WebTyped
    <2>5. WebTyped'
      BY <1>0, <1>1, <2>2, <2>3, <2>4 DEF WebTyped
    <2>6. Waiting' /\ Retrying'
      BY <1>0, <1>1, <2>2, <2>3 DEF Waiting, Retrying
    <2>7. Alone'
      BY <1>0, <1>1, <1>4 DEF Alone
    <2> QED
      BY <2>5, <2>6, <2>7 DEF WebInv
  <1> QED
    BY <1>3, <1>4

LEMMA WebRotate ==
  ASSUME WebInv, NEW p \in Pages, Web!Rotate(p)
  PROVE  WebInv'
  <1>0. WebTyped /\ Waiting /\ Retrying /\ Alone
    BY DEF WebInv
  <1>1. refresh[p].pc = "rotate" /\ UNCHANGED <<cookie, page, call, webFaults, webCrossed>>
    BY DEF Web!Rotate
  <1>2. refresh[p] \in Refreshing
    BY <1>0 DEF WebTyped
  <1>3. PICK n \in Nat : n = Len(live) + 1
    BY <1>0 DEF WebTyped
  <1> DEFINE e == [refresh[p] EXCEPT !.pc = "renewed", !.token = n]
             old == [live EXCEPT ![refresh[p].sent] = FALSE]
  <1>4. refresh' = [refresh EXCEPT ![p] = e] /\ live' = Append(old, TRUE)
    BY <1>2, <1>3 DEF Web!Rotate, WebTyped, Refreshing
  <1>5. e \in Refreshing /\ e.pc = "renewed" /\ e.token = n
    BY <1>2 DEF Refreshing
  <1>6. old \in Seq(BOOLEAN) /\ Len(old) = Len(live) /\ DOMAIN old = DOMAIN live
    <2>1. CASE refresh[p].sent \in DOMAIN live
      BY <1>0, <2>1, RowChanged DEF WebTyped
    <2>2. CASE refresh[p].sent \notin DOMAIN live
      <3>1. old = live
        BY <1>0, <2>2 DEF WebTyped
      <3> QED
        BY <1>0, <3>1 DEF WebTyped
    <2> QED
      BY <2>1, <2>2
  <1> HIDE DEF e, old
  <1>7. /\ refresh' \in [Pages -> Refreshing]
        /\ refresh'[p] = e /\ \A q \in Pages : q # p => refresh'[q] = refresh[q]
    BY <1>0, <1>4, <1>5 DEF WebTyped
  <1>8. /\ live' \in Seq(BOOLEAN) /\ DOMAIN live' = DOMAIN live \cup {n} /\ live'[n]
    BY <1>3, <1>4, <1>6, RowAppended
  <1>9. WebTyped'
    BY <1>0, <1>1, <1>5, <1>7, <1>8 DEF WebTyped
  <1>10. Waiting' /\ Retrying'
    BY <1>0, <1>1, <1>5, <1>7 DEF Waiting, Retrying
  <1>11. Alone'
    <2> SUFFICES ASSUME ~webCrossed, webFaults = 0
                 PROVE  /\ \A q \in Pages : page[q] # "login"
                        /\ \A q, r \in Pages : refresh'[q].pc # "none" /\ refresh'[r].pc # "none" => q = r
                        /\ \A q \in Pages : refresh'[q].pc # "none" =>
                             /\ refresh'[q].sent = cookie.rt /\ refresh'[q].pc # "denied"
                             /\ refresh'[q].pc = "renewed" => live'[refresh'[q].token]
                             /\ refresh'[q].pc # "renewed" => live'[cookie.rt]
                        /\ (\A q \in Pages : refresh'[q].pc = "none") => live'[cookie.rt]
      BY <1>1 DEF Alone
    <2>1. \A q \in Pages : q # p => refresh[q].pc = "none"
      BY <1>0, <1>1 DEF Alone
    <2>2. e.sent = cookie.rt
      BY <1>0, <1>1, <1>2 DEF Alone, e, Refreshing
    <2>3. \A q \in Pages : refresh'[q].pc # "none" => q = p
      BY <1>7, <2>1
    <2> QED
      BY <1>0, <1>5, <1>7, <1>8, <2>2, <2>3 DEF Alone
  <1> QED
    BY <1>9, <1>10, <1>11 DEF WebInv

LEMMA WebRenewed ==
  ASSUME WebInv, NEW p \in Pages, Web!Renewed(p)
  PROVE  WebInv'
  <1>0. WebTyped /\ Waiting /\ Retrying /\ Alone
    BY DEF WebInv
  <1>1. /\ refresh[p].pc = "renewed" /\ cookie' = [rt |-> refresh[p].token, at |-> TRUE]
        /\ Web!Resume(p, TRUE) /\ UNCHANGED <<live, webFaults, webCrossed>>
    BY DEF Web!Renewed
  <1>2. /\ refresh' \in [Pages -> Refreshing] /\ refresh'[p].pc = "none"
        /\ \A q \in Pages : q # p => refresh'[q] = refresh[q]
        /\ page' \in [Pages -> {"closed", "loading", "open", "login"}]
        /\ \A q \in Pages : page'[q] = "login" => page[q] = "login"
        /\ call' \in [Pages -> [Calls -> {"idle", "accepted", "refused", "waiting", "retry"}]]
        /\ Waiting'
    BY <1>0, <1>1, ResumeEffect
  <1>3. refresh[p].token \in Nat /\ refresh[p].token \in DOMAIN live
    BY <1>0, <1>1 DEF WebTyped, Refreshing
  <1>4. cookie' \in [rt : Nat, at : BOOLEAN] /\ cookie'.rt = refresh[p].token /\ cookie'.at
    BY <1>1, <1>3
  <1>5. WebTyped'
    BY <1>0, <1>1, <1>2, <1>3, <1>4 DEF WebTyped
  <1>6. Retrying'
    BY <1>4 DEF Retrying
  <1>7. Alone'
    <2> SUFFICES ASSUME ~webCrossed, webFaults = 0
                 PROVE  /\ \A q \in Pages : page'[q] # "login"
                        /\ \A q \in Pages : refresh'[q].pc = "none"
                        /\ live[cookie'.rt]
      <3>1. UNCHANGED <<live, webFaults, webCrossed>>
        BY <1>1
      <3> QED
        BY <3>1 DEF Alone
    <2>1. \A q \in Pages : q # p => refresh[q].pc = "none"
      BY <1>0, <1>1 DEF Alone
    <2>2. live[refresh[p].token] /\ \A q \in Pages : page[q] # "login"
      BY <1>0, <1>1 DEF Alone
    <2>3. live[cookie'.rt]
      BY <1>4, <2>2
    <2> QED
      BY <1>2, <2>1, <2>2, <2>3
  <1> QED
    BY <1>2, <1>5, <1>6, <1>7 DEF WebInv

LEMMA WebUnrenewed ==
  ASSUME WebInv, NEW p \in Pages, Web!Denied(p) \/ Web!Lost(p)
  PROVE  WebInv'
  <1>0. WebTyped /\ Waiting /\ Retrying /\ Alone
    BY DEF WebInv
  <1>1. Web!Resume(p, FALSE) /\ UNCHANGED <<cookie, live, webCrossed>> /\ FALSE \in BOOLEAN
    BY DEF Web!Denied, Web!Lost
  <1>2. /\ refresh' \in [Pages -> Refreshing] /\ refresh'[p].pc = "none"
        /\ \A q \in Pages : q # p => refresh'[q] = refresh[q]
        /\ page' \in [Pages -> {"closed", "loading", "open", "login"}]
        /\ call' \in [Pages -> [Calls -> {"idle", "accepted", "refused", "waiting", "retry"}]]
        /\ \A q \in Pages, c \in Calls : call'[q][c] = "retry" => call[q][c] = "retry"
        /\ Waiting'
    BY <1>0, <1>1, ResumeEffect
  <1>3. \/ refresh[p].pc = "denied" /\ webFaults' = webFaults
        \/ webFaults' = webFaults + 1
    BY Zenon DEF Web!Denied, Web!Lost
  <1>4. WebTyped'
    <2>1. webFaults' \in Nat
      BY <1>0, <1>3 DEF WebTyped
    <2> QED
      BY <1>0, <1>1, <1>2, <2>1 DEF WebTyped
  <1>5. Retrying'
    BY <1>0, <1>1, <1>2 DEF Retrying
  <1>6. webCrossed \/ webFaults' # 0
    <2>1. webFaults \in Nat
      BY <1>0 DEF WebTyped
    <2>2. refresh[p].pc = "denied" => webCrossed \/ webFaults # 0
      BY <1>0 DEF Alone
    <2> QED
      BY <1>3, <2>1, <2>2
  <1>7. Alone'
    BY <1>1, <1>6 DEF Alone
  <1> QED
    BY <1>2, <1>4, <1>5, <1>7 DEF WebInv

LEMMA WebExpire ==
  ASSUME WebInv, Web!Expire
  PROVE  WebInv'
  <1>0. WebTyped /\ Waiting /\ Retrying /\ Alone
    BY DEF WebInv
  <1>1. /\ cookie' = [cookie EXCEPT !.at = FALSE]
        /\ \A p \in Pages, c \in Calls : call[p][c] # "retry"
        /\ UNCHANGED <<live, page, call, refresh, webFaults, webCrossed>>
    BY DEF Web!Expire
  <1>2. cookie' \in [rt : Nat, at : BOOLEAN] /\ cookie'.rt = cookie.rt
    BY <1>0, <1>1 DEF WebTyped
  <1>3. WebTyped'
    BY <1>0, <1>1, <1>2 DEF WebTyped
  <1>4. Waiting' /\ Retrying'
    BY <1>0, <1>1 DEF Waiting, Retrying
  <1>5. Alone'
    BY <1>0, <1>1, <1>2 DEF Alone
  <1> QED
    BY <1>3, <1>4, <1>5 DEF WebInv

LEMMA WebStutter ==
  ASSUME WebInv, UNCHANGED webVars
  PROVE  WebInv'
  BY DEF WebInv, webVars, WebTyped, Waiting, Retrying, Alone

LEMMA WebStep ==
  ASSUME WebInv, [Web!Next]_webVars
  PROVE  WebInv'
  <1>1. ASSUME NEW p \in Pages, NEW c \in Calls, Web!Call(p, c) \/ Web!Succeed(p, c)
        PROVE  WebInv'
    <2>1. CASE Web!Call(p, c)
      <3>1. PICK label \in {"accepted", "refused"} : call' = [call EXCEPT ![p][c] = label]
        BY <2>1 DEF Web!Call
      <3>2. page[p] = "open" /\ UNCHANGED <<cookie, live, page, refresh, webFaults, webCrossed>>
        BY <2>1 DEF Web!Call
      <3> QED
        BY <3>1, <3>2, CallMoves
    <2>2. CASE Web!Succeed(p, c)
      <3>1. call' = [call EXCEPT ![p][c] = "idle"] /\ UNCHANGED <<cookie, live, page, refresh, webFaults, webCrossed>>
        BY <2>2 DEF Web!Succeed
      <3> QED
        BY <3>1, CallMoves
    <2> QED
      BY <1>1, <2>1, <2>2
  <1> QED
    BY <1>1, WebStutter, WebExpire, WebNavigate, WebCheck, WebRotate, WebRenewed, WebUnrenewed, WebUnauthorized,
       WebRetry DEF Web!Next, Web!Answer

\* The inductive invariant of the browser, for any pages and calls.
THEOREM BrowserSafe == AccountsSpec => []WebInv
  <1>1. AccountsInit => WebInv
    BY WebInit DEF AccountsInit
  <1>2. AccountsNext => [Web!Next]_webVars
    <2> SUFFICES ASSUME AccountsNext PROVE [Web!Next]_webVars
      OBVIOUS
    <2> QED
      BY Zenon DEF AccountsNext
  <1>3. WebInv /\ [AccountsNext]_accountsVars => WebInv'
    <2> SUFFICES ASSUME WebInv, [AccountsNext]_accountsVars PROVE WebInv'
      OBVIOUS
    <2>1. CASE AccountsNext
      BY <1>2, <2>1, WebStep
    <2>2. CASE UNCHANGED accountsVars
      BY <2>2, WebStutter DEF accountsVars
    <2> QED
      BY <2>1, <2>2
  <1> QED
    BY <1>1, <1>3, PTL DEF AccountsSpec

\* A browser whose pages refresh one at a time is not signed out, however many of its
\* calls are refused at once (apiFetch, middleware), and none of them waits for nothing.
THEOREM BrowserStays == AccountsSpec => []BrowserKept
  <1>1. WebInv => BrowserKept
    BY DEF WebInv, WebTyped, Waiting, Alone, BrowserKept, Web!KeptUnlessCrossed, Web!LoggedOut,
           Web!NobodyStranded
  <1> QED
    BY BrowserSafe, <1>1, PTL

-----------------------------------------------------------------------------
(* The members: the inductive invariant *)

Creator == [id |-> 1, user |-> Owner, role |-> "owner"]

\* There is one owner, so nobody who counts the owners may remove it, whatever was
\* found before; and no acceptance of theirs finds that they are not a member.
Owned ==
  /\ Owners = {Creator} /\ MembersOf(Owner) = {Creator}
  /\ request = [r \in Requests |-> request[r]]
  /\ \A r \in Requests : request[r].pc = "removing" => request[r].member.role # "owner"
  /\ \A r \in Requests : request[r].pc = "joining" /\ request[r].joins => request[r].user # Owner

\* Invitations are numbered in the order they are made.
Numbered ==
  /\ invites \subseteq Invitation /\ IsFiniteSet(invites)
  /\ \A i \in invites : i.id <= Cardinality(invites)
  /\ \A i, j \in invites : i.id = j.id => i = j

Taking == {r \in Requests : request[r].pc \in {"accepting", "joining"}}

\* A request that accepts an invitation is its user's, and the only one unless two overlapped.
Taken ==
  /\ \A r \in Taking : \E i \in invites : i.id = request[r].invite /\ i.email = request[r].user
  /\ \A q, r \in Taking : request[q].user = request[r].user => q = r \/ request[r].user \in crossed

\* An invitation was not accepted while a request is about to.
Unspent ==
  /\ uses \in [1..MaxInvites -> Nat]
  /\ \A n \in 1..MaxInvites : uses[n] # 0 => \E i \in invites : i.id = n /\ i.state = "accepted"
  /\ \A i \in invites : \/ i.email \in crossed
                        \/ /\ uses[i.id] <= 1
                           /\ \A r \in Taking : request[r].invite = i.id => uses[i.id] = 0

\* A user has one membership, and none while a request is about to insert one.
Single ==
  /\ \A m, n \in members : m.user = n.user => m = n \/ m.user \in crossed
  /\ \A r \in Requests : request[r].pc = "joining" /\ request[r].joins =>
       request[r].user \in crossed \/ \A m \in members : m.user # request[r].user

MembersInv == Owned /\ Numbered /\ Taken /\ Unspent /\ Single

LEMMA MembersInit == Init => MembersInv
  <1> SUFFICES ASSUME Init PROVE MembersInv
    OBVIOUS
  <1>1. /\ members = {Creator} /\ invites = {} /\ request = [r \in Requests |-> [pc |-> "idle"]]
        /\ uses = [i \in 1..MaxInvites |-> 0] /\ crossed = {}
    BY DEF Init, Creator, Idle
  <1>2. \A r \in Requests : request[r].pc = "idle"
    BY <1>1
  <1>3. Owned
    BY <1>1, <1>2 DEF Owned, Owners, MembersOf, Creator
  <1>4. Numbered
    BY <1>1, FS_EmptySet DEF Numbered
  <1>5. Taking = {}
    BY <1>2 DEF Taking
  <1>6. Taken
    BY <1>5 DEF Taken
  <1>7. Unspent
    BY <1>1 DEF Unspent
  <1>8. Single
    BY <1>1, <1>2 DEF Single
  <1> QED
    BY <1>3, <1>4, <1>6, <1>7, <1>8 DEF MembersInv

LEMMA Requested ==
  ASSUME Owned, NEW r \in Requests, NEW e, request' = [request EXCEPT ![r] = e]
  PROVE  /\ request'[r] = e /\ request' = [q \in Requests |-> request'[q]]
         /\ \A q \in Requests : q # r => request'[q] = request[q]
  BY DEF Owned

\* An invitation changes its state and nothing else.
LEMMA Restated ==
  ASSUME Numbered, NEW i \in invites, NEW s \in {"open", "accepted", "expired"}, NEW e,
         e = [i EXCEPT !.state = s], invites' = (invites \ {i}) \cup {e}
  PROVE  /\ Numbered' /\ e.id = i.id /\ e.email = i.email /\ e.state = s
         /\ \A j \in invites' : j = e \/ (j \in invites /\ j.id # i.id)
         /\ \A j \in invites : j.id # i.id => j \in invites'
         /\ e \in invites'
  <1>1. i \in Invitation
    BY DEF Numbered
  <1>2. e \in Invitation /\ e.id = i.id /\ e.email = i.email /\ e.state = s
    BY <1>1 DEF Invitation
  <1>3. e \notin invites \ {i}
    BY <1>2 DEF Numbered
  <1>4. IsFiniteSet(invites) /\ IsFiniteSet(invites \ {i}) /\ Cardinality(invites \ {i}) = Cardinality(invites) - 1
    BY FS_RemoveElement DEF Numbered
  <1>5. IsFiniteSet(invites') /\ Cardinality(invites') = Cardinality(invites \ {i}) + 1
    BY <1>3, <1>4, FS_AddElement
  <1>6. Cardinality(invites') = Cardinality(invites)
    BY <1>4, <1>5, FS_CardinalityType
  <1>7. \A j \in invites : j.id # i.id => j \in invites'
    OBVIOUS
  <1>8. \A j \in invites' : j = e \/ (j \in invites /\ j.id # i.id)
    BY DEF Numbered
  <1>9. Numbered'
    <2>1. invites' \subseteq Invitation
      BY <1>2 DEF Numbered
    <2>2. \A j \in invites' : j.id <= Cardinality(invites')
      BY <1>2, <1>6, <1>8 DEF Numbered
    <2>3. \A j, k \in invites' : j.id = k.id => j = k
      BY <1>2, <1>8 DEF Numbered
    <2> QED
      BY <1>5, <2>1, <2>2, <2>3 DEF Numbered
  <1> QED
    BY <1>2, <1>7, <1>8, <1>9

LEMMA InvitesTyped ==
  ASSUME Numbered, NEW i \in invites
  PROVE  i.id \in 1..MaxInvites /\ i.id \in Nat
  <1>1. i \in Invitation
    BY DEF Numbered
  <1> QED
    BY <1>1, BoundsNatural DEF Invitation

LEMMA MembersInvite ==
  ASSUME MembersInv, NEW u \in Users, Invite(u)
  PROVE  MembersInv'
  <1>0. Owned /\ Numbered /\ Taken /\ Unspent /\ Single
    BY DEF MembersInv
  <1>1. PICK n \in Nat : n = Cardinality(invites)
    BY <1>0, FS_CardinalityType DEF Numbered
  <1> DEFINE e == [id |-> n + 1, email |-> u, state |-> "open"]
  <1>2. /\ n < MaxInvites /\ invites' = invites \cup {e}
        /\ UNCHANGED <<members, rows, request, uses, crossed>>
    BY <1>1 DEF Invite
  <1>3. e \in Invitation /\ e.id = n + 1
    BY <1>1, <1>2, BoundsNatural DEF Invitation
  <1> HIDE DEF e
  <1>4. \A i \in invites : i.id # n + 1
    <2>1. \A i \in invites : i.id \in Nat /\ i.id <= n
      BY <1>0, <1>1, InvitesTyped DEF Numbered
    <2> QED
      BY <1>1, <2>1
  <1>5. IsFiniteSet(invites') /\ Cardinality(invites') = n + 1
    BY <1>0, <1>1, <1>2, <1>3, <1>4, FS_AddElement DEF Numbered
  <1>6. Numbered'
    <2>1. \A i \in invites : i.id <= n + 1
      BY <1>0, <1>1, InvitesTyped DEF Numbered
    <2>2. \A i \in invites' : i.id <= Cardinality(invites')
      BY <1>1, <1>2, <1>3, <1>5, <2>1
    <2>3. \A i, j \in invites' : i.id = j.id => i = j
      BY <1>0, <1>2, <1>3, <1>4 DEF Numbered
    <2>4. invites' \subseteq Invitation
      BY <1>0, <1>2, <1>3 DEF Numbered
    <2> QED
      BY <1>5, <2>2, <2>3, <2>4 DEF Numbered
  <1>7. Owned' /\ Single'
    BY <1>0, <1>2 DEF Owned, Owners, MembersOf, Single
  <1>8. Taken'
    BY <1>0, <1>2 DEF Taken, Taking
  <1>9. Unspent'
    <2>1. uses[n + 1] = 0
      <3>1. n + 1 \in 1..MaxInvites
        BY <1>1, <1>2, BoundsNatural
      <3> QED
        BY <1>0, <1>4, <3>1 DEF Unspent
    <2>2. \A i \in invites' : \/ i.email \in crossed
                              \/ /\ uses[i.id] <= 1
                                 /\ \A r \in Taking : request[r].invite = i.id => uses[i.id] = 0
      BY <1>0, <1>2, <1>3, <2>1 DEF Unspent
    <2> QED
      BY <1>0, <1>2, <2>2 DEF Unspent, Taking
  <1> QED
    BY <1>6, <1>7, <1>8, <1>9 DEF MembersInv

LEMMA MembersExpire ==
  ASSUME MembersInv, NEW i \in invites, Expire(i)
  PROVE  MembersInv'
  <1>0. Owned /\ Numbered /\ Taken /\ Unspent /\ Single
    BY DEF MembersInv
  <1> DEFINE e == [i EXCEPT !.state = "expired"]
  <1>1. /\ i.state = "open" /\ invites' = (invites \ {i}) \cup {e}
        /\ UNCHANGED <<members, rows, request, uses, crossed>>
    BY DEF Expire
  <1>2. /\ Numbered' /\ e.id = i.id /\ e.email = i.email
        /\ \A j \in invites' : j = e \/ (j \in invites /\ j.id # i.id)
        /\ \A j \in invites : j.id # i.id => j \in invites'
        /\ e \in invites'
    BY <1>0, <1>1, Restated
  <1> HIDE DEF e
  <1>3. Owned' /\ Single'
    BY <1>0, <1>1 DEF Owned, Owners, MembersOf, Single
  <1>4. Taken'
    BY <1>0, <1>1, <1>2 DEF Taken, Taking, Numbered
  <1>5. Unspent'
    <2>1. \A n \in 1..MaxInvites : uses[n] # 0 => \E j \in invites' : j.id = n /\ j.state = "accepted"
      BY <1>0, <1>1, <1>2 DEF Unspent, Numbered
    <2>2. \A j \in invites' : \E k \in invites : k.id = j.id /\ k.email = j.email
      BY <1>2
    <2> QED
      BY <1>0, <1>1, <2>1, <2>2 DEF Unspent, Taking
  <1> QED
    BY <1>2, <1>3, <1>4, <1>5 DEF MembersInv

LEMMA MembersAccept ==
  ASSUME MembersInv, NEW r \in Requests, NEW u \in Users, NEW i \in invites, Accept(r, u, i)
  PROVE  MembersInv'
  <1>0. Owned /\ Numbered /\ Taken /\ Unspent /\ Single
    BY DEF MembersInv
  <1> DEFINE e == [pc |-> "accepting", user |-> u, invite |-> i.id]
  <1>1. /\ request[r].pc = "idle" /\ i.state = "open" /\ i.email = u
        /\ request' = [request EXCEPT ![r] = e]
        /\ UNCHANGED <<invites, members, rows, uses>>
    BY DEF Accept, MayAccept
  <1>2. e.pc = "accepting" /\ e.user = u /\ e.invite = i.id
    OBVIOUS
  <1> HIDE DEF e
  <1>3. /\ request'[r] = e /\ request' = [q \in Requests |-> request'[q]]
        /\ \A q \in Requests : q # r => request'[q] = request[q]
    BY <1>0, <1>1, Requested
  <1>4. r \notin Taking /\ Taking' = Taking \cup {r}
    BY <1>1, <1>2, <1>3 DEF Taking
  <1>5. /\ crossed \subseteq crossed'
        /\ \A q \in Taking : request[q].user = u => u \in crossed'
    BY DEF Accept, Taking
  <1>6. Owned'
    BY <1>0, <1>1, <1>2, <1>3 DEF Owned, Owners, MembersOf
  <1>7. Numbered'
    BY <1>0, <1>1 DEF Numbered
  <1>8. Taken'
    <2>1. \A q \in Taking' : \E j \in invites : j.id = request'[q].invite /\ j.email = request'[q].user
      BY <1>0, <1>1, <1>2, <1>3, <1>4 DEF Taken, Taking
    <2>2. ASSUME NEW q \in Taking', NEW s \in Taking', request'[q].user = request'[s].user, q # s
          PROVE  request'[s].user \in crossed'
      <3>1. CASE q = r
        BY <1>2, <1>3, <1>4, <1>5, <2>2, <3>1 DEF Taking
      <3>2. CASE s = r
        BY <1>2, <1>3, <1>4, <1>5, <2>2, <3>2 DEF Taking
      <3>3. CASE q # r /\ s # r
        BY <1>0, <1>3, <1>4, <1>5, <2>2, <3>3 DEF Taken, Taking
      <3> QED
        BY <3>1, <3>2, <3>3
    <2> QED
      BY <1>1, <2>1, <2>2 DEF Taken
  <1>9. Unspent'
    <2>1. uses[i.id] = 0
      BY <1>0, <1>1, InvitesTyped DEF Unspent, Numbered
    <2>2. ASSUME NEW j \in invites
          PROVE  \/ j.email \in crossed'
                 \/ /\ uses[j.id] <= 1
                    /\ \A q \in Taking' : request'[q].invite = j.id => uses[j.id] = 0
      <3>1. CASE j.id = i.id
        BY <2>1, <3>1
      <3>2. CASE j.id # i.id
        BY <1>0, <1>2, <1>3, <1>4, <1>5, <3>2 DEF Unspent, Taking
      <3> QED
        BY <3>1, <3>2
    <2> QED
      BY <1>0, <1>1, <2>2 DEF Unspent
  <1>10. Single'
    BY <1>0, <1>1, <1>2, <1>3, <1>5 DEF Single
  <1> QED
    BY <1>6, <1>7, <1>8, <1>9, <1>10 DEF MembersInv

LEMMA MembersLook ==
  ASSUME MembersInv, NEW r \in Requests, Look(r)
  PROVE  MembersInv'
  <1>0. Owned /\ Numbered /\ Taken /\ Unspent /\ Single
    BY DEF MembersInv
  <1> DEFINE e == [pc |-> "joining", user |-> request[r].user, invite |-> request[r].invite,
                   joins |-> Joins(request[r].user)]
  <1>1. /\ request[r].pc = "accepting" /\ request' = [request EXCEPT ![r] = e]
        /\ UNCHANGED <<invites, members, rows, uses, crossed>>
    BY <1>0 DEF Look, Owned
  <1>2. /\ e.pc = "joining" /\ e.user = request[r].user /\ e.invite = request[r].invite
        /\ e.joins = (MembersOf(request[r].user) = {})
    BY DEF Joins
  <1> HIDE DEF e
  <1>3. /\ request'[r] = e /\ request' = [q \in Requests |-> request'[q]]
        /\ \A q \in Requests : q # r => request'[q] = request[q]
    BY <1>0, <1>1, Requested
  <1>4. /\ Taking' = Taking
        /\ \A q \in Taking : request'[q].user = request[q].user /\ request'[q].invite = request[q].invite
    BY <1>1, <1>2, <1>3 DEF Taking
  <1>5. Owned'
    <2>1. e.joins => e.user # Owner
      BY <1>0, <1>2 DEF Owned
    <2> QED
      BY <1>0, <1>1, <1>2, <1>3, <2>1 DEF Owned, Owners, MembersOf
  <1>6. Numbered' /\ Taken'
    BY <1>0, <1>1, <1>4 DEF Numbered, Taken
  <1>7. Unspent'
    BY <1>0, <1>1, <1>4 DEF Unspent
  <1>8. Single'
    <2>1. e.joins => \A m \in members : m.user # e.user
      BY <1>2 DEF MembersOf
    <2> QED
      BY <1>0, <1>1, <1>3, <2>1 DEF Single
  <1> QED
    BY <1>5, <1>6, <1>7, <1>8 DEF MembersInv

\* A request that ends leaves the others as they were.
LEMMA Ended ==
  ASSUME MembersInv, NEW r \in Requests, request' = [request EXCEPT ![r] = Idle]
  PROVE  /\ request' = [q \in Requests |-> request'[q]]
         /\ Taking' = Taking \ {r} /\ \A q \in Taking' : request'[q] = request[q]
         /\ request'[r].pc = "idle" /\ \A q \in Requests : q # r => request'[q] = request[q]
  <1>1. Owned
    BY DEF MembersInv
  <1>2. Idle.pc = "idle"
    BY DEF Idle
  <1>3. /\ request'[r] = Idle /\ request' = [q \in Requests |-> request'[q]]
        /\ \A q \in Requests : q # r => request'[q] = request[q]
    BY <1>1, Requested
  <1> QED
    BY <1>2, <1>3 DEF Taking

LEMMA MembersJoin ==
  ASSUME MembersInv, NEW r \in Requests, Join(r)
  PROVE  MembersInv'
  <1>0. Owned /\ Numbered /\ Taken /\ Unspent /\ Single
    BY DEF MembersInv
  <1>1. /\ request[r].pc = "joining" /\ r \in Taking /\ request' = [request EXCEPT ![r] = Idle]
        /\ uses' = [uses EXCEPT ![request[r].invite] = uses[request[r].invite] + 1]
        /\ invites' = {IF j.id = request[r].invite THEN [j EXCEPT !.state = "accepted"] ELSE j : j \in invites}
        /\ UNCHANGED crossed
    BY <1>0 DEF Join, Taking, Unspent
  <1>2. /\ request' = [q \in Requests |-> request'[q]]
        /\ Taking' = Taking \ {r} /\ \A q \in Taking' : request'[q] = request[q]
        /\ request'[r].pc = "idle" /\ \A q \in Requests : q # r => request'[q] = request[q]
    BY <1>1, Ended
  <1>3. PICK i \in invites : i.id = request[r].invite /\ i.email = request[r].user
    BY <1>0, <1>1 DEF Taken
  <1> DEFINE e == [i EXCEPT !.state = "accepted"]
  <1>4. invites' = (invites \ {i}) \cup {e}
    BY <1>0, <1>1, <1>3 DEF Numbered
  <1>5. /\ Numbered' /\ e.id = i.id /\ e.email = i.email /\ e.state = "accepted"
        /\ \A j \in invites' : j = e \/ (j \in invites /\ j.id # i.id)
        /\ \A j \in invites : j.id # i.id => j \in invites'
        /\ e \in invites'
    BY <1>0, <1>4, Restated
  <1> HIDE DEF e
  <1>6. i.id \in 1..MaxInvites
    BY <1>0, InvitesTyped
  <1>7. /\ uses' \in [1..MaxInvites -> Nat] /\ uses'[i.id] = uses[i.id] + 1 /\ uses[i.id] \in Nat
        /\ \A n \in 1..MaxInvites : n # i.id => uses'[n] = uses[n]
    BY <1>0, <1>1, <1>3, <1>6 DEF Unspent
  <1>8. \A q \in Taking' : q # r /\ q \in Taking
    BY <1>2
  <1>9. Taken'
    <2>1. \A q \in Taking' : \E j \in invites' : j.id = request'[q].invite /\ j.email = request'[q].user
      <3>1. \A q \in Taking' : \E j \in invites : j.id = request[q].invite /\ j.email = request[q].user
        BY <1>0, <1>8 DEF Taken
      <3>2. \A j \in invites : \E k \in invites' : k.id = j.id /\ k.email = j.email
        BY <1>0, <1>5 DEF Numbered
      <3> QED
        BY <1>2, <3>1, <3>2
    <2>2. \A p, q \in Taking' : request'[p].user = request'[q].user => p = q \/ request'[q].user \in crossed
      BY <1>0, <1>2, <1>8 DEF Taken
    <2> QED
      BY <1>1, <2>1, <2>2 DEF Taken
  <1>10. Unspent'
    <2>1. ASSUME NEW n \in 1..MaxInvites, uses'[n] # 0
          PROVE  \E j \in invites' : j.id = n /\ j.state = "accepted"
      <3>1. CASE n = i.id
        BY <1>5, <3>1
      <3>2. CASE n # i.id
        <4>1. uses[n] # 0
          BY <1>7, <2>1, <3>2
        <4>2. PICK j \in invites : j.id = n /\ j.state = "accepted"
          BY <1>0, <4>1 DEF Unspent
        <4> QED
          BY <1>5, <3>2, <4>2
      <3> QED
        BY <3>1, <3>2
    <2>2. ASSUME NEW j \in invites', j.email \notin crossed
          PROVE  /\ uses'[j.id] <= 1
                 /\ \A q \in Taking' : request'[q].invite = j.id => uses'[j.id] = 0
      <3>1. CASE j = e
        <4>1. uses[i.id] = 0
          BY <1>0, <1>1, <1>3, <1>5, <2>2, <3>1 DEF Unspent
        <4>2. ASSUME NEW q \in Taking', request'[q].invite = i.id PROVE FALSE
          <5>1. request[q].invite = i.id /\ q \in Taking /\ q # r
            BY <1>2, <1>8, <4>2
          <5>2. request[q].user = i.email
            BY <1>0, <5>1 DEF Taken, Numbered
          <5>3. request[q].user \in crossed
            BY <1>0, <1>1, <1>3, <5>1, <5>2 DEF Taken
          <5> QED
            BY <1>5, <2>2, <3>1, <5>2, <5>3
        <4>3. uses'[i.id] = 1
          BY <1>7, <4>1
        <4> QED
          BY <1>5, <3>1, <4>2, <4>3
      <3>2. CASE j \in invites /\ j.id # i.id
        <4>1. uses'[j.id] = uses[j.id]
          BY <1>0, <1>7, <3>2, InvitesTyped
        <4>2. /\ uses[j.id] <= 1
              /\ \A q \in Taking : request[q].invite = j.id => uses[j.id] = 0
          BY <1>0, <2>2, <3>2 DEF Unspent
        <4> QED
          BY <1>2, <1>8, <4>1, <4>2
      <3> QED
        BY <1>5, <3>1, <3>2
    <2> QED
      BY <1>1, <1>7, <2>1, <2>2 DEF Unspent
  <1>11. Owned' /\ Single'
    <2> DEFINE m == [id |-> rows + 1, user |-> request[r].user, role |-> "member"]
    <2>1. m.user = request[r].user /\ m.role # "owner"
      OBVIOUS
    <2>2. \/ UNCHANGED members
          \/ request[r].joins /\ members' = members \cup {m}
      BY DEF Join
    <2> HIDE DEF m
    <2>3. Owners' = Owners
      BY <2>1, <2>2 DEF Owners
    <2>4. Owned'
      <3>1. request[r].joins => m.user # Owner
        BY <1>0, <1>1, <2>1 DEF Owned
      <3>2. MembersOf(Owner)' = MembersOf(Owner)
        BY <2>2, <3>1 DEF MembersOf
      <3> QED
        BY <1>0, <1>2, <2>3, <3>2 DEF Owned
    <2>5. CASE UNCHANGED members
      <3>1. ASSUME NEW q \in Requests, request'[q].pc = "joining", request'[q].joins,
                   request'[q].user \notin crossed
            PROVE  \A n \in members' : n.user # request'[q].user
        <4>1. q # r /\ request'[q] = request[q]
          BY <1>2, <3>1
        <4> QED
          BY <1>0, <2>5, <3>1, <4>1 DEF Single
      <3>2. \A n, k \in members' : n.user = k.user => n = k \/ n.user \in crossed
        BY <1>0, <2>5 DEF Single
      <3>3. Single'
        BY <1>1, <3>1, <3>2 DEF Single
      <3> QED
        BY <2>4, <3>3
    <2>6. CASE request[r].joins /\ members' = members \cup {m}
      <3>2. \A n \in members : n.user = m.user => m.user \in crossed
        BY <1>0, <1>1, <2>1, <2>6 DEF Single
      <3>3. \A n, k \in members' : n.user = k.user => n = k \/ n.user \in crossed
        BY <1>0, <2>6, <3>2 DEF Single
      <3>4. ASSUME NEW q \in Requests, request'[q].pc = "joining", request'[q].joins,
                   request'[q].user \notin crossed
            PROVE  \A n \in members' : n.user # request'[q].user
        <4>1. q # r /\ request'[q] = request[q] /\ q \in Taking
          BY <1>2, <3>4 DEF Taking
        <4>2. request[q].user # request[r].user
          BY <1>0, <1>1, <3>4, <4>1 DEF Taken
        <4>3. \A n \in members : n.user # request[q].user
          BY <1>0, <3>4, <4>1 DEF Single
        <4> QED
          BY <2>1, <2>6, <4>1, <4>2, <4>3
      <3>5. Single'
        BY <1>1, <3>3, <3>4 DEF Single
      <3> QED
        BY <2>4, <3>5
    <2> QED
      BY <2>2, <2>4, <2>5, <2>6
  <1> QED
    BY <1>5, <1>9, <1>10, <1>11 DEF MembersInv

\* removeMember() leaves the invitations alone, and the acceptances.
LEMMA OthersLeave ==
  ASSUME MembersInv, NEW r \in Requests, NEW e, request' = [request EXCEPT ![r] = e],
         r \notin Taking, e.pc \notin {"accepting", "joining"},
         e.pc = "removing" => e.member.role # "owner",
         members' \subseteq members, Owners' = Owners, UNCHANGED <<invites, uses, crossed>>
  PROVE  MembersInv'
  <1>0. Owned /\ Numbered /\ Taken /\ Unspent /\ Single
    BY DEF MembersInv
  <1>1. /\ request'[r] = e /\ request' = [q \in Requests |-> request'[q]]
        /\ \A q \in Requests : q # r => request'[q] = request[q]
    BY <1>0, Requested
  <1>2. Taking' = Taking /\ \A q \in Taking : request'[q] = request[q]
    BY <1>1 DEF Taking
  <1>3. Owned'
    <2>1. MembersOf(Owner)' \subseteq {Creator} /\ Creator \in Owners'
      BY <1>0 DEF Owned, MembersOf
    <2>2. MembersOf(Owner)' = {Creator}
      BY <2>1 DEF MembersOf, Owners, Creator
    <2> QED
      BY <1>0, <1>1, <2>2 DEF Owned
  <1>4. Numbered' /\ Taken'
    BY <1>0, <1>2 DEF Numbered, Taken
  <1>5. Unspent'
    BY <1>0, <1>2 DEF Unspent
  <1>6. Single'
    BY <1>0, <1>1 DEF Single
  <1> QED
    BY <1>3, <1>4, <1>5, <1>6 DEF MembersInv

LEMMA MembersFind ==
  ASSUME MembersInv, NEW r \in Requests, NEW m \in members, FindMember(r, m)
  PROVE  MembersInv'
  <1> DEFINE e == [pc |-> "found", member |-> m]
  <1>1. /\ request[r].pc = "idle" /\ request' = [request EXCEPT ![r] = e] /\ e.pc = "found"
        /\ UNCHANGED <<invites, members, rows, uses, crossed>>
    BY DEF FindMember
  <1> HIDE DEF e
  <1>2. r \notin Taking /\ Owners' = Owners
    BY <1>1 DEF Taking, Owners
  <1> QED
    BY <1>1, <1>2, OthersLeave

LEMMA MembersCount ==
  ASSUME MembersInv, NEW r \in Requests, CountOwners(r)
  PROVE  MembersInv'
  <1> DEFINE m == request[r].member
             e == IF MayRemove(m) THEN [pc |-> "removing", member |-> m] ELSE Idle
  <1>1. /\ request[r].pc = "found" /\ request' = [request EXCEPT ![r] = e]
        /\ UNCHANGED <<invites, members, rows, uses, crossed>>
    BY DEF CountOwners
  <1>2. Cardinality(Owners) = 1
    BY FS_Singleton DEF MembersInv, Owned
  <1>3. MayRemove(m) => m.role # "owner"
    BY <1>2 DEF MayRemove
  <1>4. e.pc \in {"removing", "idle"} /\ (e.pc = "removing" => e.member.role # "owner")
    BY <1>3 DEF Idle
  <1> HIDE DEF e
  <1>5. r \notin Taking /\ Owners' = Owners
    BY <1>1 DEF Taking, Owners
  <1> QED
    BY <1>1, <1>4, <1>5, OthersLeave

LEMMA MembersRemove ==
  ASSUME MembersInv, NEW r \in Requests, Remove(r)
  PROVE  MembersInv'
  <1>1. /\ request[r].pc = "removing" /\ request' = [request EXCEPT ![r] = Idle]
        /\ members' = members \ {request[r].member} /\ UNCHANGED <<invites, rows, uses, crossed>>
    BY DEF Remove
  <1>2. request[r].member.role # "owner"
    BY <1>1 DEF MembersInv, Owned
  <1>3. Owners' = Owners
    BY <1>1, <1>2 DEF Owners
  <1>4. r \notin Taking /\ Idle.pc = "idle"
    BY <1>1 DEF Taking, Idle
  <1> QED
    BY <1>1, <1>3, <1>4, OthersLeave

LEMMA MembersStep == MembersInv /\ [Next]_vars => MembersInv'
  <1> SUFFICES ASSUME MembersInv, [Next]_vars PROVE MembersInv'
    OBVIOUS
  <1>1. CASE UNCHANGED vars
    BY <1>1 DEF vars, MembersInv, Owned, Owners, MembersOf, Numbered, Taken, Taking, Unspent, Single
  <1>2. CASE Next
    BY <1>2, MembersInvite, MembersExpire, MembersAccept, MembersLook, MembersJoin, MembersFind, MembersCount,
       MembersRemove DEF Next
  <1> QED
    BY <1>1, <1>2

\* A workspace of the composition behaves as Membership says.
THEOREM MembersFollowed == AccountsSpec => Spec
  <1>1. AccountsInit => Init
    BY DEF AccountsInit
  <1>2. [AccountsNext]_accountsVars => [Next]_vars
    BY Zenon DEF AccountsNext, accountsVars
  <1> QED
    BY <1>1, <1>2, PTL DEF AccountsSpec, Spec

\* The inductive invariant of a workspace's members, for any users and requests.
THEOREM MembersSafe == Spec => []MembersInv
  BY MembersInit, MembersStep, PTL DEF Spec

\* Whoever removes members, whatever happens between the count of the owners and the
\* deletion, and however the acceptances of the owner overlap, the owner stays, and has one
\* membership (removeMember, acceptInvite).
THEOREM KeepsOwner == Spec => []OwnerKept
  <1>1. MembersInv => OwnerKept
    BY DEF MembersInv, Owned, OwnerKept
  <1> QED
    BY MembersSafe, <1>1, PTL

\* Of one user's acceptances, only those that overlap make an invitation serve twice
\* (acceptInvite).
THEOREM ServesOnce == Spec => []SingleUseUnlessCrossed
  <1>1. MembersInv => SingleUseUnlessCrossed
    BY DEF MembersInv, Unspent, SingleUseUnlessCrossed
  <1> QED
    BY MembersSafe, <1>1, PTL

\* A member who is removed is out, unless two of its acceptances overlapped (removeMember
\* deletes the one row it found).
THEOREM RemovedStaysOut == Spec => RemovedIsOut
  <1>1. MembersInv /\ [Next]_vars =>
          [\A r \in Requests, u \in Users :
             Remove(r) /\ request[r].member.user = u /\ request[r].member \in members
               => MembersOf(u)' = {} \/ u \in crossed]_vars
    <2> SUFFICES ASSUME MembersInv, NEW r \in Requests, NEW u \in Users, Remove(r),
                        request[r].member.user = u, request[r].member \in members, u \notin crossed
                 PROVE  MembersOf(u)' = {}
      OBVIOUS
    <2>1. \A m \in members : m.user = u => m = request[r].member
      BY DEF MembersInv, Single
    <2>2. members' = members \ {request[r].member}
      BY DEF Remove
    <2> QED
      BY <2>1, <2>2 DEF MembersOf
  <1> QED
    BY MembersSafe, <1>1, PTL DEF Spec, RemovedIsOut
=============================================================================
