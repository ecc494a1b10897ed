SPECIFICATION OrderSpec
CONSTANTS
  c1 = c1
  c2 = c2
  c3 = c3
  c4 = c4
  ws1 = ws1
  ws2 = ws2
  NoScope = NoScope
  Calls <- MCCalls4
  Signalled <- MCCalls2
  Scopes <- MCScopes2
  MaxPending = 2
INVARIANTS MutualExclusion NoStrandedWaiter
PROPERTIES ServesInArrivalOrder WaiterLeavesQueue
