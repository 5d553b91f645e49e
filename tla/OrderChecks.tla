---------------------------- MODULE OrderChecks -----------------------------
(***************************************************************************)
(* What an order is held against: the invoice and the receipts of a        *)
(* comparison (MatchEngine), and the prices a vendor agreed to             *)
(* (PriceTerms), whose terms change while orders are compared.             *)
(*                                                                         *)
(* The two checks share no state, and a comparison only reads the terms:   *)
(* a behaviour is one comparison, or the recording of terms.               *)
(***************************************************************************)
EXTENDS Integers, Sequences, FiniteSets

CONSTANTS
  None,
  Names, Quantities, Prices, Units, MaxLines,                     \* of MatchEngine
  Handlers, TermPrices, Currencies, LastDay, MaxTerms, MaxAborted \* of PriceTerms

VARIABLES
  po, inv, grn, flags, stage,                       \* of MatchEngine
  terms, termsPc, input, open, aborted, recordedAtOnce, \* of PriceTerms
  check

Engine == INSTANCE MatchEngine WITH pc <- stage
Terms == INSTANCE PriceTerms WITH
  Prices <- TermPrices, MaxFaults <- MaxAborted,
  pc <- termsPc, faults <- aborted, crossed <- recordedAtOnce

ASSUME ChecksConstants == Engine!ConstantsTyped /\ Terms!ConstantsTyped

engineVars == <<po, inv, grn, flags, stage>>
termVars == <<terms, termsPc, input, open, aborted, recordedAtOnce>>

ChecksInit == check \in {"lines", "terms"} /\ Engine!Init /\ Terms!Init

ChecksNext ==
  /\ \/ check = "lines" /\ Engine!Next /\ UNCHANGED termVars
     \/ check = "terms" /\ Terms!Next /\ UNCHANGED engineVars
  /\ UNCHANGED check

ChecksSpec == ChecksInit /\ [][ChecksNext]_<<engineVars, termVars, check>>

-----------------------------------------------------------------------------
(* Properties *)

\* What a comparison accuses a supplier of is computed from what both sides state, in
\* one unit (MatchEngine).
AccusesByEvidence == Engine!NoFalseAccusation /\ Engine!NoArithmeticAcrossUnits

\* Receiving evidence only adds questions (MatchEngine).
ReceiptNeverClears == Engine!ReceiptNeverClears

\* An item without a flag costs the same on both documents, and no more of it is billed
\* than was accepted (MatchEngine).
SilenceAgrees == Engine!SilenceAgrees

\* The flag of an item that is on one document only shows what that one states
\* (MatchEngine).
MissingIsEvidence == Engine!MissingIsEvidence

\* The terms of an agreement tile its days, and an order is held against the one term
\* that can apply (PriceTerms).
OneTermApplies == Terms!CoveredOnce /\ Terms!AccusesByOneTerm

\* A new term changes nothing before its first day (PriceTerms).
PastKept == Terms!PastKept
=============================================================================
