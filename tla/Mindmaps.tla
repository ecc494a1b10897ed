------------------------------- MODULE Mindmaps -------------------------------
(***************************************************************************)
(* Native mind maps (src/tools/mindmap.ts) on the surface of a page, where *)
(* the general surface tools may also delete a node's shape or group it.   *)
(*                                                                         *)
(* A node is a shape and an entry of the map's children: parent, index and *)
(* collapsed. Geometry is counted in twentieths of a pixel; labels are     *)
(* short lines, so every node is as wide as the narrowest one.             *)
(***************************************************************************)
EXTENDS Integers, Sequences, FiniteSets, FiniteSetsExt, SequencesExt, YjsMerge

CONSTANTS MapCalls,     \* the tool calls
          StartMap,     \* the page they start from: a map, TheMap, of root Root
          TheMap, Root,
          Group,        \* a group element
          MAX_NODES, MAX_DEPTH,
          LineCounts,   \* lines of a label
          Layouts, Styles

VARIABLES
  mDoc,                     \* shapes, maps and the group
  mPhase, mUpdate, mStale,  \* the calls: see DocUpdates
  mAbused                   \* a surface tool deleted or grouped a node, or the group itself

mapVars == <<mDoc, mPhase, mUpdate, mStale, mAbused>>

NewNode(c) == <<c, "node">>
Px20(n) == 20 * n
NoParent == <<>>
Detail(parent, index) == [parent |-> parent, index |-> index, collapsed |-> FALSE]
Sketch(lines, x, y) == [lines |-> lines, x |-> x, y |-> y, locked |-> FALSE]
Mindmap(kids, layout, style) == [kids |-> kids, layout |-> layout, style |-> style, locked |-> FALSE]

-----------------------------------------------------------------------------
MapNodes(d, m) == DOMAIN d.maps[m].kids
ParentOf(d, m, n) == d.maps[m].kids[n].parent
RootsIn(kids) == {n \in DOMAIN kids : kids[n].parent = NoParent}
RootIn(kids) == CHOOSE n \in RootsIn(kids) : TRUE
RootOf(d, m) == RootIn(d.maps[m].kids)
(* The node and the nodes above it, as far as they can be followed.        *)
LineageIn(kids, n) ==
  LET far == Cardinality(DOMAIN kids)
      up[k \in 0..far] == IF k = 0 THEN {n}
        ELSE up[k - 1] \cup {kids[x].parent : x \in up[k - 1] \cap DOMAIN kids}
  IN  up[far] \ {NoParent}
Lineage(d, m, n) == LineageIn(d.maps[m].kids, n)
KidsOf(d, m, n) ==
  SetToSortSeq({x \in MapNodes(d, m) : ParentOf(d, m, x) = n},
               LAMBDA a, b : d.maps[m].kids[a].index < d.maps[m].kids[b].index)

(* readTree: what it does not throw for.                                   *)
TreeOf(kids) ==
  /\ Cardinality(DOMAIN kids) \in 1..MAX_NODES
  /\ Cardinality(RootsIn(kids)) = 1
  /\ \A n \in DOMAIN kids : LET above == LineageIn(kids, n) IN
       /\ above \subseteq DOMAIN kids
       /\ RootIn(kids) \in above                         \* no cycle
       /\ Cardinality(above) <= MAX_DEPTH
ReadableTree(d, m) ==
  /\ m \in DOMAIN d.maps
  /\ TreeOf(d.maps[m].kids)
  /\ MapNodes(d, m) \subseteq DOMAIN d.shapes
  /\ \A o \in DOMAIN d.maps \ {m} : MapNodes(d, o) \cap MapNodes(d, m) = {}
  /\ d.group.kids \cap MapNodes(d, m) = {}

(* mapLock and the locks of the nodes. A group inside itself is refused.   *)
GroupCycle(d, m) == m \in d.group.kids /\ Group \in d.group.kids
Locked(d, m) ==
  \/ d.maps[m].locked
  \/ m \in d.group.kids /\ d.group.locked
  \/ \E n \in MapNodes(d, m) : d.shapes[n].locked

(* insertionIndex: a key between two siblings; none fits between equals.   *)
insertionIndex(d, m, parent, before, moving) ==
  LET siblings == SelectSeq(KidsOf(d, m, parent), LAMBDA n : n # moving)
      at == IF before = NoParent THEN Len(siblings) + 1 ELSE SelectInSeq(siblings, LAMBDA n : n = before)
      Key(i) == d.maps[m].kids[siblings[i]].index
  IN  CASE at = 0 -> {}
        [] siblings = <<>> -> {64}
        [] at = Len(siblings) + 1 -> {Key(at - 1) + 64}
        [] at = 1 -> {Key(1) - 64}
        [] OTHER -> IF Key(at - 1) < Key(at) THEN {(Key(at - 1) + Key(at)) \div 2} ELSE {}

-----------------------------------------------------------------------------
(* nativeNodeStyle and resizeLabel: how tall a node is.                    *)
FontSize(style, root) == CASE style = 1 -> IF root THEN 20 ELSE 16
                           [] style = 2 -> IF root THEN 18 ELSE 16
                           [] style = 3 -> 16
                           [] OTHER -> IF root THEN 22 ELSE 18
VerticalPadding(style, root) ==
  CASE style = 4 -> IF root THEN 0 ELSE 30 [] style = 3 /\ root -> Px20(10)
    [] root -> Px20(11) [] OTHER -> Px20(6)
NodeHeight(d, m, n) ==
  LET root == ParentOf(d, m, n) = NoParent
      style == d.maps[m].style
  IN  Max({Px20(30), 28 * d.shapes[n].lines * FontSize(style, root) + 2 * VerticalPadding(style, root)})
NodeWidth == Px20(100)

(* layoutTree. A branch is as tall as its node or its children's column.   *)
Spacing == Px20(45)
ColumnHeight(heights, kids) ==
  IF kids = <<>> THEN 0
  ELSE FoldSeq(LAMBDA k, sum : sum + heights[k], Spacing * (Len(kids) - 1), kids)
BranchHeights(d, m) ==
  LET H[k \in 0..MAX_DEPTH] == [n \in MapNodes(d, m) |->
        IF k = 0 \/ d.maps[m].kids[n].collapsed THEN NodeHeight(d, m, n)
        ELSE Max({NodeHeight(d, m, n), ColumnHeight(H[k - 1], KidsOf(d, m, n))})]
  IN  H[MAX_DEPTH]

(* The children on each side of a node, from the top.                      *)
Columns2(d, m, n) ==
  LET kids == KidsOf(d, m, n)
      half == (Len(kids) + 1) \div 2
  IN  IF n = RootOf(d, m) /\ d.maps[m].layout = "balance"
      THEN {[kids |-> SubSeq(kids, 1, half), right |-> TRUE],
            [kids |-> Reverse(SubSeq(kids, half + 1, Len(kids))), right |-> FALSE]}
      ELSE {[kids |-> kids, right |-> d.maps[m].layout # "left"]}

(* Where place puts the i-th child of a column, its parent being at (x, y).*)
PlacedAt(d, m, heights, n, column, i, x, y) ==
  LET tall  == NodeHeight(d, m, n)
      total == Max({tall, ColumnHeight(heights, column.kids)})
      kid   == column.kids[i]
      start == y + (tall - total) \div 2
               + IF tall >= total THEN (tall - NodeHeight(d, m, column.kids[1])) \div 2 ELSE 0
      gap   == IF n = RootOf(d, m) THEN Px20(200) ELSE Px20(110)
  IN  [x |-> IF column.right THEN x + NodeWidth + gap ELSE x - gap - NodeWidth,
       y |-> start + ColumnHeight(heights, SubSeq(column.kids, 1, i - 1))
               + (IF i = 1 THEN 0 ELSE Spacing)
               + (heights[kid] - NodeHeight(d, m, kid)) \div 2]

(* Below the root every node keeps the side of its branch, and nothing is  *)
(* placed below a collapsed node.                                          *)
Unfolded(d, m, n) == \A x \in Lineage(d, m, n) : ~d.maps[m].kids[x].collapsed
PlacesOf(d, m) ==
  LET heights == BranchHeights(d, m)
      Side(at, n, cs) == IF n = RootOf(d, m) THEN cs
                         ELSE {[c EXCEPT !.right = at[n].x > d.shapes[RootOf(d, m)].x] : c \in cs}
      Placed(at, n) == UNION {{[id |-> c.kids[i], at |-> PlacedAt(d, m, heights, n, c, i, at[n].x, at[n].y)] :
                                 i \in DOMAIN c.kids} : c \in Side(at, n, Columns2(d, m, n))}
      Open(k) == {n \in MapNodes(d, m) : Unfolded(d, m, n) /\ Cardinality(Lineage(d, m, n)) = k}
      P[k \in 0..MAX_DEPTH] ==
        IF k = 0 THEN [n \in MapNodes(d, m) |-> [x |-> d.shapes[n].x, y |-> d.shapes[n].y]]
        ELSE LET here == UNION {Placed(P[k - 1], n) : n \in Open(k)}
             IN  [n \in MapNodes(d, m) |-> IF \E p \in here : p.id = n
                                        THEN (CHOOSE p \in here : p.id = n).at ELSE P[k - 1][n]]
  IN  P[MAX_DEPTH]

layoutTree(d, m) ==
  LET final == PlacesOf(d, m)
  IN  [d EXCEPT !.shapes = [n \in DOMAIN d.shapes |->
         IF n \in MapNodes(d, m)
         THEN [d.shapes[n] EXCEPT !.x = final[n].x, !.y = final[n].y] ELSE d.shapes[n]]]

-----------------------------------------------------------------------------
(* mutateNativeMindmap: each operation on the call's own copy, and then,   *)
(* before anything is pushed, the tree is read again and laid out.         *)
(* Mutant: the changed tree is not read again. *)
RevalidatedBlindly(changed, m) == {d \in changed : m \in DOMAIN d.maps}

(* (As a mutant of LaidOut it forgets the layout.)                         *)
Revalidated(changed, m) == {d \in changed : ReadableTree(d, m)}
LaidOut(changed, m) == {layoutTree(d, m) : d \in Revalidated(changed, m)}

CreatedMap(d, c, layout, style) ==
  LaidOut({[d EXCEPT !.shapes = MapSet(@, NewNode(c), Sketch(1, 0, 0)),
                     !.maps = MapSet(@, c, Mindmap([n \in {NewNode(c)} |-> Detail(NoParent, 64)],
                                                   layout, style))]}, c)

AddedNode(d, c, m, parent, before) ==
  IF Cardinality(MapNodes(d, m)) >= MAX_NODES THEN {}
  ELSE {[d EXCEPT !.shapes = MapSet(@, NewNode(c), Sketch(1, 0, 0)),
                  !.maps[m].kids = MapSet(@, NewNode(c), Detail(parent, i))] :
          i \in insertionIndex(d, m, parent, before, NoParent)}

Relabelled(d, n, lines) == {[d EXCEPT !.shapes[n].lines = lines]}
Collapsed(d, m, n, collapsed) == {[d EXCEPT !.maps[m].kids[n].collapsed = collapsed]}

Reparented(d, m, n, parent, before) ==
  IF n = RootOf(d, m) \/ n \in Lineage(d, m, parent) THEN {}
  ELSE {[d EXCEPT !.maps[m].kids[n] = [@ EXCEPT !.parent = parent, !.index = i]] :
          i \in insertionIndex(d, m, parent, before, n)}

(* The lock of the map alone changes while the map is locked.              *)
LockSet(d, m, locked) ==
  IF ReadableTree(d, m) /\ ~GroupCycle(d, m) THEN {[d EXCEPT !.maps[m].locked = locked]} ELSE {}
Edited(d, m, changed) ==
  IF ReadableTree(d, m) /\ ~GroupCycle(d, m) /\ ~Locked(d, m) THEN LaidOut(changed, m) ELSE {}

-----------------------------------------------------------------------------
MapMerge(now, base, made) ==
  LET Record(n, b, f) == [k \in DOMAIN n |-> IF k = "kids" THEN MergedMap(n[k], b[k], f[k])
                                             ELSE IF f[k] # b[k] THEN f[k] ELSE n[k]]
      Things(n, b, f) ==
        [i \in (DOMAIN n \ (DOMAIN b \ DOMAIN f)) \cup (DOMAIN f \ DOMAIN b) |->
           IF i \notin DOMAIN b THEN IF i \in DOMAIN f THEN f[i] ELSE n[i]
           ELSE Record(n[i], b[i], f[i])]
  IN  [shapes |-> Things(now.shapes, base.shapes, made.shapes),
       maps   |-> Things(now.maps, base.maps, made.maps),
       group  |-> IF made.group # base.group THEN made.group ELSE now.group]

MU == INSTANCE DocUpdates WITH Calls <- MapCalls, Merge <- MapMerge,
        doc <- mDoc, phase <- mPhase, update <- mUpdate, stale <- mStale

(* What mind maps, shapes and a group are made of.                         *)
IsSketch(s) == s = [lines |-> s.lines, x |-> s.x, y |-> s.y, locked |-> s.locked]
IsMindmap(r) ==
  r = [kids |-> r.kids, layout |-> r.layout, style |-> r.style, locked |-> r.locked] /\ IsMap(r.kids)
MapPage(d) ==
  /\ d = [shapes |-> d.shapes, maps |-> d.maps, group |-> [kids |-> d.group.kids, locked |-> d.group.locked]]
  /\ IsMap(d.shapes) /\ \A n \in DOMAIN d.shapes : IsSketch(d.shapes[n])
  /\ IsMap(d.maps) /\ \A m \in DOMAIN d.maps : IsMindmap(d.maps[m])

(* A new element has an id of its own; so has the map the page starts with.*)
ASSUME MindmapsAssumption ==
  /\ MapPage(StartMap)
  /\ \A m \in DOMAIN StartMap.maps : ReadableTree(StartMap, m) /\ TheMap \notin MapNodes(StartMap, m)
  /\ \A c \in MapCalls : NewNode(c) # TheMap

MindmapsInit ==
  /\ mDoc = layoutTree(StartMap, TheMap)
  /\ MU!UpdatesInit
  /\ mAbused = FALSE

Settled(m) == {[map |-> m]}
MindmapCall(c) ==
  /\ \/ \E layout \in Layouts, style \in Styles :
          MU!Handled(c, CreatedMap(mDoc, c, layout, style), Settled(c))
     \/ \E m \in DOMAIN mDoc.maps : \E n \in MapNodes(mDoc, m) :
          \/ \E before \in MapNodes(mDoc, m) \cup {NoParent} :
               MU!Handled(c, Edited(mDoc, m, AddedNode(mDoc, c, m, n, before)), Settled(m))
          \/ \E lines \in LineCounts : MU!Handled(c, Edited(mDoc, m, Relabelled(mDoc, n, lines)), Settled(m))
          \/ \E collapsed \in BOOLEAN :
               MU!Handled(c, Edited(mDoc, m, Collapsed(mDoc, m, n, collapsed)), Settled(m))
          \/ \E parent \in MapNodes(mDoc, m), before \in MapNodes(mDoc, m) \cup {NoParent} :
               MU!Handled(c, Edited(mDoc, m, Reparented(mDoc, m, n, parent, before)), Settled(m))
          \/ \E style \in Styles : MU!Handled(c, Edited(mDoc, m, {[mDoc EXCEPT !.maps[m].style = style]}), Settled(m))
          \/ \E layout \in Layouts :
               MU!Handled(c, Edited(mDoc, m, {[mDoc EXCEPT !.maps[m].layout = layout]}), Settled(m))
          \/ \E locked \in BOOLEAN : MU!Handled(c, LockSet(mDoc, m, locked), {})
  /\ UNCHANGED mAbused

(* delete_surface_element and update_surface_element (children of a group):*)
(* neither looks for the mind maps that own what they are given.           *)
surfaceTool(c) ==
  \/ /\ \E n \in DOMAIN mDoc.shapes :
          MU!Handled(c, {[mDoc EXCEPT !.shapes = MapDelete(@, n)]}, {})
     /\ mAbused' = TRUE
  \/ \E kids \in {{}, {TheMap}, {Root}, {TheMap, Group}} :
       /\ MU!Handled(c, {[mDoc EXCEPT !.group.kids = kids]}, {})
       /\ mAbused' = (mAbused \/ kids \notin {{}, {TheMap}})

(* Somebody locks the root or the group in the editor, before anything is  *)
(* merged: a bound.                                                        *)
EditorLocks ==
  /\ ~mDoc.group.locked /\ \A n \in DOMAIN mDoc.shapes : ~mDoc.shapes[n].locked
  /\ \/ mDoc' = [mDoc EXCEPT !.group.locked = TRUE]
     \/ Root \in DOMAIN mDoc.shapes /\ mDoc' = [mDoc EXCEPT !.shapes[Root].locked = TRUE]
  /\ \A c \in MapCalls : mPhase[c] \in {"idle", "sent"}
  /\ UNCHANGED <<mPhase, mUpdate, mStale, mAbused>>

MindmapsNext ==
  \/ \E c \in MapCalls :
       \/ MindmapCall(c) \/ surfaceTool(c)
       \/ (MU!MergeUpdate(c) \/ MU!LoseAck(c)) /\ UNCHANGED mAbused
  \/ EditorLocks
  \/ MU!UpdatesDone /\ UNCHANGED mAbused

MindmapsSpec == MindmapsInit /\ [][MindmapsNext]_mapVars

-----------------------------------------------------------------------------
(* A mind map stays readable, and so editable, for every mind map tool,    *)
(* until an update is merged late or a surface tool takes one of its       *)
(* shapes: no operation pushes a tree the next one would refuse to read.   *)
MindmapsStayReadable ==
  ~mStale /\ ~mAbused => \A m \in DOMAIN mDoc.maps : ReadableTree(mDoc, m)

Visible(d, m, n) == \A x \in Lineage(d, m, n) \ {n} : ~d.maps[m].kids[x].collapsed
NodesOverlap(d, m, a, b) ==
  LET p == d.shapes[a]  q == d.shapes[b]
  IN  /\ p.x < q.x + NodeWidth /\ q.x < p.x + NodeWidth
      /\ p.y < q.y + NodeHeight(d, m, b) /\ q.y < p.y + NodeHeight(d, m, a)
(* A node at least as tall as a column of more than one leaf: place shifts *)
(* the column down by half the first child, past the end of the branch.    *)
Overhangs(d, m, n) ==
  \E column \in Columns2(d, m, n) :
    /\ column.kids # <<>>
    /\ NodeHeight(d, m, n) >= ColumnHeight(BranchHeights(d, m), column.kids)
    /\ ColumnHeight(BranchHeights(d, m), column.kids) # NodeHeight(d, m, column.kids[1])

(* Right after a mind map operation, if no late update interferes, no two  *)
(* visible nodes of the map overlap, whatever their heights, layout, style *)
(* and collapsed branches, unless an unfolded node overhangs its column;   *)
(* and the root stands where it stood.                                     *)
MindmapsAreLaidOut ==
  \A c \in MapCalls : mPhase[c] = "merged" /\ ~mStale =>
    \A a \in mUpdate[c].asked : LET m == a.map IN
      ReadableTree(mDoc, m) =>
      /\ m = TheMap => mDoc.shapes[Root].x = 0 /\ mDoc.shapes[Root].y = 0
      /\ (\A n \in MapNodes(mDoc, m) : ~(Unfolded(mDoc, m, n) /\ Overhangs(mDoc, m, n))) =>
           \A x, y \in {x \in MapNodes(mDoc, m) : Visible(mDoc, m, x)} :
              x # y => ~NodesOverlap(mDoc, m, x, y)
=============================================================================
