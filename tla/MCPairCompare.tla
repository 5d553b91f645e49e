-------------------------- MODULE MCPairCompare ----------------------------
(* One order, one invoice and one photo receipt: the smallest instance in   *)
(* which a document that is neither side of the pair feeds its verdict.     *)
EXTENDS PairCompare, TLC

\* A bound on behaviours: users compare by hand, or the infrastructure fails.
VARIABLE setting

MCInit == Init /\ setting \in {"manual", "faulty"}

MCNext ==
  /\ Next
  /\ setting = "manual" => faults' = 0
  /\ setting = "faulty" => \A u \in Users : handler'[u].pc = "idle"
  /\ UNCHANGED setting

MCSpec == MCInit /\ [][MCNext]_<<vars, setting>>

\* Workers of the queue are interchangeable (the checked properties are safety).
WorkerSymmetry == Permutations(Workers)
=============================================================================
