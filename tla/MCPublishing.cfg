SPECIFICATION PublishingSpec
CONSTANTS
  Publisher = {p, q}
  Sections <- MCSections
  MaxEditions = 2
  MaxPublishes = 3
  MaxCrossed = 2
  MaxLosses = 1
  Catalog <- MCCatalog
  Covered = {10}
  Retold = {8}
  Elsewhere = {12}
  Searches <- MCSearches
  MaxSlips = 1
  FRESH_CAP = 3
  SECTION_CAP = 2
  OUTLET_CAP = 1
  FETCH_ALTERNATE_LIMIT = 2
  Pages = {"a", "b"}
  FRONT_PAGE_MAX_STORIES = 3
  FRONT_PAGE_SECONDARY_THRESHOLD = 3
  Source = {s1, s2}
  Story = {"a", "b"}
  Worker = {w1, w2}
  Batches = 2
  Breaker = 2
  MAX_ATTEMPTS = 2
  MAX_SOURCE_ATTEMPTS = 3
  MaxVisits = 2
  DotPath = {"f", "g"}
  MaxContent = 2
  MaxLog = 3
  MaxMeddling = 4
  MaxTries = 2
INVARIANTS PublishedTrue SelectionSound AttentionHonest
PROPERTIES SnapshotImproves
CHECK_DEADLOCK FALSE
SYMMETRY Symmetry
