SPECIFICATION Spec
CONSTANTS
  Readers = {r1, r2}
  MaxAsks = 3
  MaxChanges = 2
  MaxFaults = 2
  Workers = {w1, w2}
  MaxContents = 2
  MaxTries = 2
  Editors = {e1, e2}
  MaxTexts = 3
  Starters = {s1, s2}
  MaxCrawls = 3
INVARIANTS
  AnswersAreCurrent
  IndexFollows
  SettledAtRest
  OneCrawl
PROPERTIES
  OutcomeKept
VIEW View
SYMMETRY Symmetry
CHECK_DEADLOCK FALSE
