SPECIFICATION Spec
CONSTANTS
  MaxTime = 2
  MonthLength = 2
  TrialStart = 1
  TrialEnd = 3
  Requests = {q1, q2, q3}
  NoRequest = NoRequest
  Pairs = {p1}
  NoPair = NoPair
  MaxLines = 2
  Quotas = {1, 2}
  TrialQuota = 2
  NoLimit = NoLimit
  NoCharge = NoCharge
  Enforced = TRUE
INVARIANTS
  NeverOvercharged
  ThroughIsPaid
PROPERTIES
  ChargeWithinQuota
  ImplementsAtomic
SYMMETRY RequestSymmetry
CHECK_DEADLOCK FALSE
