SPECIFICATION FairSpec
CONSTANTS
  Handlers = {h1, h2}
  Workspaces = {w1, w2}
  Home <- BothOfW1
  Subs = {s1, s2}
  NoEvent = NoEvent
  NoRow = NoRow
  Others <- OneForeign
  Rebound = {s1}
  BadConfigs = {"no variants", "wrong variant"}
  s1 = s1
  s2 = s2
  w1 = w1
  w2 = w2
  MaxTime = 1
  MaxChanges <- Changes
  MaxFaults = 1
INVARIANTS
  AppliedIsKept
PROPERTIES
  NeverOlder
  EntitledKept
  Settles
CHECK_DEADLOCK FALSE
