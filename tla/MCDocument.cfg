SPECIFICATION DocumentSpec
CONSTANTS
  c1 = c1
  c2 = c2
  sub = sub
  row1 = row1
  row2 = row2
  col1 = col1
  col2 = col2
  text1 = text1
  shape1 = shape1
  frame = frame
  note = note
  n1 = n1
  n2 = n2
  n3 = n3
  Seeded = Seeded
  PageBlock = PageBlock
  SurfaceBlock = SurfaceBlock
  NoteBlock = NoteBlock
  TextBlock = TextBlock
  BlockCalls <- MCCalls
  AppendInputs <- MCInputs
  StartPages <- MCPages
  DbCalls <- MCCalls
  Board = Board
  Labels <- MCLabels
  NoLabel = NoLabel
  OwnData = OwnData
  TableCalls <- MCCalls
  Rows <- MCRows
  Columns <- MCColumns
  NewRow = NewRow
  Texts <- MCTexts
  Empty = Empty
  Widths <- MCWidths
  Automatic = Automatic
  SurfaceCalls <- MCCalls
  Canvas <- MCCanvas
  Missing = Missing
  None = None
  Spots <- MCSpots
  BlockSize <- MCSize
  Paddings <- MCPaddings
  LayoutInputs <- MCAppends
  MapCalls <- MCCalls
  StartMap <- MCMap
  TheMap = TheMap
  Root = Root
  Group = Group
  MAX_NODES = 5
  MAX_DEPTH = 3
  LineCounts = {1, 3}
  Layouts = {"right", "balance"}
  Styles = {1, 4}
INVARIANTS BlocksFormATree PlacementHonoured DatabasesStayReadable SurfaceReferencesResolve LayoutHintsHonoured MindmapsStayReadable MindmapsAreLaidOut
PROPERTIES TableEditsHitTheirCells
SYMMETRY Symmetry
