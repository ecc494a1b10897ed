SPECIFICATION ToolSpec
CONSTANTS
  c1 = c1
  c2 = c2
  c3 = c3
  d1 = d1
  ws1 = ws1
  e1 = e1
  NoScope = NoScope
  NoToken = NoToken
  FirstItem = FirstItem
  Calls <- MCCalls
  Docs <- MCDocs
  Scopes <- MCScopes
  Edits <- MCEdits
  HomeOf <- MCHomeOf
SYMMETRY Symmetry
INVARIANTS GuardedEditKeepsItsBase ReadFollowsQueueOrder DeletionRetiresTokens
