SPECIFICATION Spec
CONSTANTS
  Comparers = {h1, h2}
  Reviewers = {u1, u2}
  Lines = {1, 2}
  Verdicts = {{}, {1, 2}}
  Nobody = Nobody
  BatchSize = 1
  MaxRuns = 2
  MaxRequests = 2
  MaxFaults = 1
INVARIANTS
  TrailMatches
  ExportComplete
PROPERTIES
  ImplementsQueue
SYMMETRY Symmetry
CHECK_DEADLOCK FALSE
