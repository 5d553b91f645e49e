SPECIFICATION AccountsSpec
CONSTANTS
  Handlers = {h1, h2}
  MaxAttempts = 1
  MaxResends = 1
  MaxFailures = 1
  MaxCodes = 2
  MaxTokens = 3
  MaxEras = 1
  MaxFaults = 1
  Pages = {p1, p2}
  Calls = {c1, c2}
  Owner = owner
  Users = {owner, ann, bob}
  Requests = {r1, r2}
  MaxInvites = 3
  MaxRows = 4
INVARIANTS
  CodesGuarded
  SessionsGuarded
  BrowserKept
  OwnerKept
  SingleUseUnlessCrossed
PROPERTIES
  RemovedIsOut
SYMMETRY Symmetry
VIEW View
CHECK_DEADLOCK FALSE
