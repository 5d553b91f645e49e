SPECIFICATION ChecksSpec
CONSTANTS
  None = None
  Names <- LineNames
  Quantities = {1, 2}
  Prices = {1, 3}
  Units = {box, each}
  MaxLines = 3
  Handlers = {h1, h2}
  TermPrices = {p1, p2}
  Currencies = {usd, eur}
  LastDay = 2
  MaxTerms = 3
  MaxAborted = 1
INVARIANTS
  AccusesByEvidence
  ReceiptNeverClears
  SilenceAgrees
  OneTermApplies
PROPERTIES
  PastKept
SYMMETRY Symmetry
CHECK_DEADLOCK FALSE
