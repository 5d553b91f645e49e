----------------------------- MODULE MCSourcing -----------------------------
EXTENDS Sourcing, TLC

\* Searches differ only by name, and so do the pages beside the seed that are neither
\* foreign nor barred.
Symmetry == Permutations(Searches) \cup Permutations(Pages \ ({Seed} \cup Foreign \cup Barred))
=============================================================================
