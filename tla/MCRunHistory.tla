---------------------------- MODULE MCRunHistory -----------------------------
EXTENDS RunHistory, TLC

\* Comparisons and reviewers differ only by name.
Symmetry == Permutations(Comparers) \cup Permutations(Reviewers)
=============================================================================
