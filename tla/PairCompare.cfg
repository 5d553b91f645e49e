SPECIFICATION MCSpec
CONSTANTS
  NoJob = NoJob
  PO = po
  Invoices = {i1}
  Receipts = {r1}
  Photos = {r1}
  Workers = {w1, w2}
  Users = {u1}
  MaxClock = 3
  MaxRuns = 2
  MaxFaults = 2
INVARIANTS
  FreshUnlessOverlapped
  NoRedundantRun
  ComparedAtRest
SYMMETRY WorkerSymmetry
CHECK_DEADLOCK FALSE
