----------------------------- MODULE MCAccounts -----------------------------
EXTENDS Accounts, TLC

\* Requests differ only by name.
Symmetry == Permutations(Handlers) \union Permutations(Requests)

\* Whether a request about the codes has yet to read or compare one.
OnCodes == \E h \in Handlers : pc[h] \in Auth!Making \cup {"reserve", "compare"}

\* Nothing asks a revoked token when it expired or how its session began, and its heirs
\* are late whatever it is; nothing asks a late token when its session began.
Seen(t) == CASE t.revoked -> [t EXCEPT !.expired = TRUE, !.late = TRUE, !.era = 0]
             [] ~t.revoked /\ t.late -> [t EXCEPT !.era = 0]
             [] OTHER -> t

\* Once the account is verified no code changes hands any more: what is left of a
\* code is what a request in progress may still read, and nothing reads the
\* counter of resends or what the e-mails and the clock did.
View ==
  IF account = "verified"
  THEN <<[t \in DOMAIN tokens |-> Seen(tokens[t])], failures, pc, subject, authFaults, era, trials,
         Auth!GuessesBounded,
         IF OnCodes THEN [c \in DOMAIN otps |-> [otps[c] EXCEPT !.lapsed = FALSE]] ELSE <<>> >>
  ELSE accountsVars
=============================================================================
