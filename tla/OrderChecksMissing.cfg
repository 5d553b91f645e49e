SPECIFICATION ChecksSpec
CONSTANTS
  None = None
  Names <- LineNames
  Quantities = {1, 2}
  Prices = {1, 3}
  Units = {box, each}
  MaxLines = 3
  Handlers = {h1, h2}
  TermPrices = {p1, p2}
  Currencies = {usd, eur}
  LastDay = 2
  MaxTerms = 0
  MaxAborted = 0
INVARIANT
  MissingIsEvidence
CHECK_DEADLOCK FALSE
