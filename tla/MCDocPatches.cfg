SPECIFICATION PatchSpec
CONSTANTS
  c1 = c1
  c2 = c2
  p1 = p1
  p2 = p2
  k1 = k1
  k2 = k2
  ws1 = ws1
  ws2 = ws2
  NoScope = NoScope
  Calls <- MCCalls
  Patches <- MCPatches
  Creds <- MCCreds
  Scopes <- MCScopes
  HomeOf <- MCHomeOf
  MaxRecords = 1
  TtlMs = 1
  MaxTime = 2
  MaxVersion = 3
SYMMETRY Symmetry
INVARIANTS PublishedAtMostOnce PublishedOnReviewedBase AnswersAreTrue
