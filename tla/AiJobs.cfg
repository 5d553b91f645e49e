SPECIFICATION AiJobsSpec
CONSTANTS
  Callers = {w1, w2}
  Cap = 2
  Budget = 3
  Uses = {1, 2}
  MaxMonth = 2
  MaxCalls = 4
  MaxFaults = 1
  t1 = t1
  t2 = t2
  t3 = t3
  t4 = t4
  Tickets <- MCTickets
  Topics <- MCTopics
  TopicOf <- MCTopicOf
  MinCluster = 2
  Workers = {w1, w2}
  Reviewers = {r1, r2}
  Attempts = 2
  MaxWeeks = 2
  MaxDrafts = 3
INVARIANTS
  CapHolds
  Priced
  DraftsExact
SYMMETRY Symmetry
CHECK_DEADLOCK FALSE
