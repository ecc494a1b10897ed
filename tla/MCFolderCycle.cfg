SPECIFICATION WorkspaceSpec
CONSTANTS
  c1 = c1
  c2 = c2
  p1 = p1
  p2 = p2
  f1 = f1
  f2 = f2
  f3 = f3
  l1 = l1
  d1 = d1
  d2 = d2
  g1 = g1
  g2 = g2
  r = r
  a = a
  b = b
  m1 = m1
  m2 = m2
  e1 = e1
  q1 = q1
  q2 = q2
  q3 = q3
  status = status
  owner = owner
  TagCalls <- MCCalls
  Pages <- MCPages
  FreshPage = p2
  FirstTag = FirstTag
  FirstName = FirstName
  OtherName = OtherName
  TreeCalls <- MCCalls
  StartTree <- MCTree
  NoNode = NoNode
  LocaleRank <- MCRank
  MAX_KEY = 5
  CollectionCalls <- MCCalls
  TheCollection = TheCollection
  WorkspaceDocs <- MCWorkspaceDocs
  Filters <- MCFilters
  Matching <- MCMatching
  PropertyCalls <- MCCalls
  ListedPages <- MCListed
  UnlistedPage = UnlistedPage
  StartDefs <- MCDefs
  StartValues <- MCValues
  PropertyNames <- MCNames
  Initial = Initial
  Nobody = Nobody
  Docs <- MCDocs
  Moves <- MCMoves
  Edits <- MCEdits
  Trees <- MCTrees
INVARIANTS FoldersHangFromTheRoot
