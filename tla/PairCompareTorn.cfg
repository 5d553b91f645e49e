SPECIFICATION MCSpec
CONSTANTS
  NoJob = NoJob
  PO = po
  Invoices = {i1}
  Receipts = {r1}
  Photos = {r1}
  Workers = {w1}
  Users = {u1}
  MaxClock = 4
  MaxRuns = 2
  MaxFaults = 0
INVARIANT FreshnessSound
SYMMETRY WorkerSymmetry
CHECK_DEADLOCK FALSE
