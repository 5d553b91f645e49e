--------------------------- MODULE MCOrderChecks ----------------------------
EXTENDS OrderChecks, TLC

\* A line with a SKU, one known by its description alone, one with neither.
LineNames ==
  {[sku |-> "pump", description |-> None], [sku |-> None, description |-> "freight"],
   [sku |-> None, description |-> None]}

\* Calls differ only by name, and so do units and the prices of terms.
Symmetry == Permutations(Handlers) \cup Permutations(TermPrices) \cup Permutations(Units)
=============================================================================
