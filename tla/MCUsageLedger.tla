--------------------------- MODULE MCUsageLedger ----------------------------
(* Months of two days and a trial that straddles two of them.               *)
EXTENDS UsageLedger, TLC

\* Requests differ only by name.
RequestSymmetry == Permutations(Requests)
=============================================================================
