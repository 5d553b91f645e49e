------------------------------- MODULE AiBudget ------------------------------
(***************************************************************************)
(* The model calls of one workspace against its AI budget: UsageService    *)
(* (apps/api, limits/usage.service.ts), the dollar cap of BillingGate and  *)
(* the answer stream of the chat, which is charged outside metered().      *)
(*                                                                         *)
(* A budget is checked before a call and charged after it, in two stores:  *)
(* tokens in Redis, which fails open, and priced rows in Postgres, which   *)
(* counts only while billing is enforced.  Both windows are the month.     *)
(* Tokens and their price are one number.                                  *)
(***************************************************************************)
EXTENDS Integers, FiniteSets, FiniteSetsExt

CONSTANTS
  Callers,      \* requests and jobs that may call a model at once
  Cap,          \* the plan's AI budget for a month
  Budget,       \* MAX_TOKENS_PER_WORKSPACE_MONTH
  Uses,         \* what one model call may use
  MaxMonth,     \* bound on the months
  MaxCalls,     \* bound on the calls admitted
  MaxFaults     \* bound on the writes that fail, reads that fail and processes that die

ASSUME BoundsNatural ==
  /\ Cap \in Nat \ {0} /\ Budget \in Nat \ {0} /\ Uses \subseteq Nat \ {0}
  /\ MaxMonth \in Nat \ {0} /\ MaxCalls \in Nat /\ MaxFaults \in Nat
ASSUME FinitelyMany == IsFiniteSet(Callers) /\ IsFiniteSet(Uses) /\ Uses # {}

VARIABLES
  enforced,     \* BILLING_ENFORCEMENT
  month,        \* the clock
  tokens,       \* usage:tok:<workspace>:<month>
  cost,         \* the llm_cost rows of each month
  call,         \* what each caller is at, and what its meter holds
  calls,        \* calls admitted
  faults,
  spent,        \* history: what the provider was asked for, by month of the charge
  lost          \* history: what of it no row was written for

vars == <<enforced, month, tokens, cost, call, calls, faults, spent, lost>>

Months == 1..MaxMonth
Kinds == {"metered", "ledgerOnly", "answer"}
Idle == [pc |-> "idle", kind |-> "metered", used |-> 0]
Zero == [m \in Months |-> 0]

Init ==
  /\ enforced \in BOOLEAN /\ month = 1
  /\ tokens = Zero /\ cost = Zero
  /\ call = [c \in Callers |-> Idle]
  /\ calls = 0 /\ faults = 0 /\ spent = 0 /\ lost = 0

Fault == faults < MaxFaults /\ faults' = faults + 1
Goto(c, pc) == call' = [call EXCEPT ![c].pc = pc]

-----------------------------------------------------------------------------
(* The checks *)

\* Mutant of Spent: the last unit of a budget admits another call.
SpentAbove(used, limit) == used > limit

\* A budget is used up.
Spent(used, limit) == used >= limit

\* metered(), or answer() of the chat.  Without enforcement the cap is not looked at.
Start(c, kind) ==
  /\ call[c].pc = "idle" /\ calls < MaxCalls
  /\ calls' = calls + 1
  /\ call' = [call EXCEPT ![c] =
       [pc |-> IF enforced THEN "cap" ELSE IF kind = "ledgerOnly" THEN "run" ELSE "redis",
        kind |-> kind, used |-> 0]]
  /\ UNCHANGED <<enforced, month, tokens, cost, faults, spent, lost>>

\* assertAiBudget(); a database error refuses the call too.
CheckCap(c) ==
  /\ call[c].pc = "cap"
  /\ \/ ~Spent(cost[month], Cap) /\ UNCHANGED faults
        /\ Goto(c, IF call[c].kind = "ledgerOnly" THEN "run" ELSE "redis")
     \/ Spent(cost[month], Cap) /\ UNCHANGED faults /\ Goto(c, "idle")
     \/ Fault /\ Goto(c, "idle")
  /\ UNCHANGED <<enforced, month, tokens, cost, calls, spent, lost>>

\* The Redis budget; an error admits the call.
CheckTokens(c) ==
  /\ call[c].pc = "redis"
  /\ \/ ~Spent(tokens[month], Budget) /\ UNCHANGED faults /\ Goto(c, "run")
     \/ Spent(tokens[month], Budget) /\ UNCHANGED faults /\ Goto(c, "idle")
     \/ Fault /\ Goto(c, "run")
  /\ UNCHANGED <<enforced, month, tokens, cost, calls, spent, lost>>

-----------------------------------------------------------------------------
(* The call and its charges *)

\* The provider reports what was used: the whole call of metered(), or one of an answer.
Use(c, n) ==
  /\ call[c].pc = "run" /\ call[c].used = 0
  /\ call' = [call EXCEPT ![c].used = n]
  /\ spent' = spent + n
  /\ UNCHANGED <<enforced, month, tokens, cost, calls, faults, lost>>

\* Mutant of Charged: what a call that fails has used is not charged.
ChargedIfEnded(c, ends) == call[c].used > 0 /\ ends

\* finally, and settle() of a stream: whatever was used is charged, however the call ends.
Charged(c, ends) == call[c].used > 0

\* The call returns, throws, or its stream is broken off.  metered() charges Redis, then
\* the ledger; a stream charges the ledger, and its estimate once it has been read whole.
\* A stream of which the provider reported nothing has an estimate for its use.
End(c, ends) ==
  /\ call[c].pc = "run"
  /\ call[c].kind = "answer" /\ ends => call[c].used > 0
  /\ Goto(c, IF ~Charged(c, ends) THEN "idle"
             ELSE IF call[c].kind = "metered" THEN "tokens"
             ELSE IF call[c].kind = "answer" /\ ends THEN "answered" ELSE "ledger")
  /\ UNCHANGED <<enforced, month, tokens, cost, calls, faults, spent, lost>>

\* incrby under the key of this month; a failure is logged.
AddUsage(c) ==
  /\ call[c].pc \in {"tokens", "estimate"}
  /\ \/ tokens' = [tokens EXCEPT ![month] = @ + call[c].used] /\ UNCHANGED faults
     \/ Fault /\ UNCHANGED tokens
  /\ call' = [call EXCEPT ![c] = IF @.pc = "tokens" THEN [@ EXCEPT !.pc = "ledger"] ELSE Idle]
  /\ UNCHANGED <<enforced, month, cost, calls, spent, lost>>

\* recordLlmCost(): a row of this moment, or a warning.
Record(c) ==
  /\ call[c].pc \in {"ledger", "answered"}
  /\ \/ cost' = [cost EXCEPT ![month] = @ + call[c].used] /\ UNCHANGED <<faults, lost>>
     \/ Fault /\ lost' = lost + call[c].used /\ UNCHANGED cost
  /\ call' = [call EXCEPT ![c] = IF @.pc = "answered" THEN [@ EXCEPT !.pc = "estimate"] ELSE Idle]
  /\ UNCHANGED <<enforced, month, tokens, calls, spent>>

\* The process dies in a call: nothing is written for it.
Crash(c) ==
  /\ Fault
  /\ call[c].pc \in {"run", "tokens", "ledger", "answered"}
  /\ lost' = lost + call[c].used
  /\ call' = [call EXCEPT ![c] = Idle]
  /\ UNCHANGED <<enforced, month, tokens, cost, calls, spent>>

NewMonth ==
  /\ month < MaxMonth /\ month' = month + 1
  /\ UNCHANGED <<enforced, tokens, cost, call, calls, faults, spent, lost>>

-----------------------------------------------------------------------------

Next ==
  \/ NewMonth
  \/ \E c \in Callers :
       \/ \E k \in Kinds : Start(c, k)
       \/ \E n \in Uses : Use(c, n)
       \/ \E ends \in BOOLEAN : End(c, ends)
       \/ CheckCap(c) \/ CheckTokens(c) \/ AddUsage(c) \/ Record(c) \/ Crash(c)

Spec == Init /\ [][Next]_vars

-----------------------------------------------------------------------------
(* Properties *)

TypeOK ==
  /\ enforced \in BOOLEAN /\ month \in Months
  /\ tokens \in [Months -> Nat] /\ cost \in [Months -> Nat]
  /\ call \in [Callers -> [pc : {"idle", "cap", "redis", "run", "tokens", "ledger", "answered", "estimate"},
                           kind : Kinds, used : {0} \union Uses]]
  /\ calls \in 0..MaxCalls /\ faults \in 0..MaxFaults /\ spent \in Nat /\ lost \in Nat

\* What callers use at most between their check and their charge.
Reach == Cardinality(Callers) * Max(Uses)

\* Calls that run side by side overspend a cap by what each of them uses, and by no more,
\* also when they were admitted in one month and are charged in the next.
CapHolds == enforced => \A m \in Months : cost[m] < Cap + Reach

\* Every priced call has its row once: what is neither in a row nor lost with a failed
\* write or a dead process is in the meter of a call under way.
Priced ==
  LET unrecorded == {c \in Callers : call[c].pc # "estimate"} IN
  spent = lost + SumFunction(cost) + SumFunction([c \in unrecorded |-> call[c].used])
=============================================================================
