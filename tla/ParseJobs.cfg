SPECIFICATION JobsSpec
CONSTANTS
  Workers = {w1, w2}
  Sweeps = {s1}
  Reviewers = {u1}
  Attempts = 2
  MaxRequeues = 1
  MaxFaults = 2
  CatalogFaults = 1
INVARIANTS
  ConfirmedOnce
  DoneHoldsItemsOnce
PROPERTIES
  SettlesForGood
CHECK_DEADLOCK FALSE
