SPECIFICATION SourcingSpec
CONSTANTS
  Pages = {seed, p1, p2, p3, bar}
  Seed = seed
  Foreign = {}
  Barred = {bar}
  MaxDepth = 2
  MaxPages = 3
  Concurrency = 2
  None = None
  Searches = {s1, s2}
  Lines = {l1}
  Texts = {{1, 2}, {1}}
  Vendors = {acme, bolt}
  Parsed = acme
  MaxCandidates = 2
  MaxSearches = 3
  MaxItems = 2
INVARIANTS
  CrawlExact
  NothingMissed
  OneVerdict
PROPERTIES
  VerdictsKept
SYMMETRY Symmetry
CHECK_DEADLOCK FALSE
