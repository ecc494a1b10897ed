--------------------------- MODULE DocumentProofs ---------------------------
(***************************************************************************)
(* Proofs about the structures of a page: the edgeless surface, tables,    *)
(* mind maps, databases and the block tree. Each states an invariant of the*)
(* document and of the updates under way, shows that every handler makes   *)
(* such an update and that a merge, in whatever order, keeps it.           *)
(***************************************************************************)
EXTENDS WorkspaceProofs, BlockTree, Databases, Tables, Surface, Mindmaps

-----------------------------------------------------------------------------
(***************************************************************************)
(* The edgeless surface.                                                   *)
(***************************************************************************)

(* A finite set of numbers has a greatest and a least.                     *)
LEMMA ExtremesOfFinite ==
  ASSUME NEW S \in SUBSET Int, IsFiniteSet(S), S # {}
  PROVE  /\ \E x \in S : \A y \in S : x >= y
         /\ \E x \in S : \A y \in S : x <= y
<1> DEFINE Fine(T) == (\E x \in T : \A y \in T : x >= y) /\ (\E x \in T : \A y \in T : x <= y)
           coarse == {n \in Nat : \E T \in SUBSET S : T # {} /\ Cardinality(T) = n /\ ~Fine(T)}
<1>1. coarse = {}
  <2> SUFFICES ASSUME coarse # {} PROVE FALSE
    OBVIOUS
  <2>1. PICK n \in coarse : \A m \in coarse : n <= m
    <3> HIDE DEF coarse
    <3>1. coarse \in SUBSET Nat
      BY DEF coarse
    <3> QED
      BY <3>1, LeastNumber
  <2>2. PICK T \in SUBSET S : T # {} /\ Cardinality(T) = n /\ ~Fine(T)
    OBVIOUS
  <2>3. PICK x \in T : TRUE
    BY <2>2
  <2>4. IsFiniteSet(T) /\ IsFiniteSet(T \ {x}) /\ Cardinality(T \ {x}) = n - 1 /\ n \in Nat
    BY <2>2, <2>3, FS_Subset, FS_RemoveElement, FS_CardinalityType
  <2>5. CASE T \ {x} = {}
    <3>1. T = {x} /\ x \in Int
      BY <2>3, <2>5
    <3> QED
      BY <3>1, <2>2
  <2>6. CASE T \ {x} # {}
    <3>1. n - 1 \in Nat
      BY <2>4, FS_CardinalityType
    <3>2. Fine(T \ {x})
      <4>1. n - 1 \notin coarse
        <5> HIDE DEF coarse
        <5> QED
          BY <2>1, <2>4
      <4> QED
        BY <4>1, <3>1, <2>6, <2>4
    <3>3. PICK a \in T \ {x}, z \in T \ {x} : \A y \in T \ {x} : a >= y /\ z <= y
      BY <3>2
    <3>4. T \subseteq Int
      OBVIOUS
    <3>5. \A y \in T : (IF x > a THEN x ELSE a) >= y /\ (IF x < z THEN x ELSE z) <= y
      BY <3>3, <3>4
    <3> QED
      BY <3>5, <2>2, <2>3, <3>3
  <2> QED
    BY <2>5, <2>6
<1>2. Cardinality(S) \in Nat
  BY FS_CardinalityType
<1> QED
  BY <1>1, <1>2

(* Max and Min are what they are called. *)
LEMMA MaxAndMin ==
  ASSUME NEW S \in SUBSET Int, IsFiniteSet(S), S # {}
  PROVE  /\ Max(S) \in S /\ \A y \in S : y <= Max(S)
         /\ Min(S) \in S /\ \A y \in S : Min(S) <= y
<1>1. Max(S) \in S /\ \A y \in S : Max(S) >= y
  BY ExtremesOfFinite DEF Max
<1>2. Min(S) \in S /\ \A y \in S : Min(S) <= y
  BY ExtremesOfFinite DEF Min
<1> QED
  BY <1>1, <1>2

-----------------------------------------------------------------------------
(* What a function has for the members of a finite set is finite.          *)
LEMMA FiniteImage ==
  ASSUME NEW S, IsFiniteSet(S), NEW f
  PROVE  IsFiniteSet({f[x] : x \in S})
<1> DEFINE g == [x \in S |-> f[x]]
<1>1. g \in Surjection(S, {f[x] : x \in S})
  BY DEF Surjection
<1> QED
  BY <1>1, FS_Surjection

(* Rounding to whole pixels. *)
LEMMA Rounding ==
  ASSUME NEW n \in Int
  PROVE  /\ FloorPx(n) \in Int /\ FloorPx(n) <= n /\ n - 1 <= FloorPx(n)
         /\ CeilPx(n) \in Int /\ n <= CeilPx(n) /\ CeilPx(n) <= n + 1
BY DEF FloorPx, CeilPx, Px

(* The bound around children with some padding holds them all. *)
LEMMA EnclosesAll ==
  ASSUME NEW kids \in SUBSET Bounds, IsFiniteSet(kids), kids # {}, NEW padding \in Nat
  PROVE  /\ encloseBounds(kids, padding) \in Bounds
         /\ padding > 0 => \A b \in kids : Encloses(encloseBounds(kids, padding), b)
<1> DEFINE xs == {b.x : b \in kids}  rights == {Right(b) : b \in kids}
           ys == {b.y : b \in kids}  bottoms == {Bottom(b) : b \in kids}
           minX == Min(xs)  maxX == Max(rights)  minY == Min(ys)  maxY == Max(bottoms)
           wide == Max({Px(1), maxX - minX + 2 * padding})
           high == maxY - minY + 2 * padding + titleBand
<1>1. \A b \in kids : b.x \in Int /\ b.y \in Int /\ b.w \in Nat /\ b.h \in Nat
                      /\ Right(b) \in Int /\ Bottom(b) \in Int
  BY DEF Bounds, Right, Bottom
<1>2. /\ xs \in SUBSET Int /\ rights \in SUBSET Int /\ ys \in SUBSET Int /\ bottoms \in SUBSET Int
      /\ xs # {} /\ rights # {} /\ ys # {} /\ bottoms # {}
  BY <1>1
<1>3. IsFiniteSet(xs) /\ IsFiniteSet(rights) /\ IsFiniteSet(ys) /\ IsFiniteSet(bottoms)
  <2> DEFINE X == [b \in kids |-> b.x]  R == [b \in kids |-> Right(b)]
             Y == [b \in kids |-> b.y]  B == [b \in kids |-> Bottom(b)]
  <2>1. /\ IsFiniteSet({X[b] : b \in kids}) /\ IsFiniteSet({R[b] : b \in kids})
        /\ IsFiniteSet({Y[b] : b \in kids}) /\ IsFiniteSet({B[b] : b \in kids})
    <3> HIDE DEF X, R, Y, B
    <3> QED
      BY FiniteImage
  <2> QED
    BY <2>1
<1>4. /\ minX \in Int /\ maxX \in Int /\ minY \in Int /\ maxY \in Int
      /\ \A b \in kids : minX <= b.x /\ Right(b) <= maxX /\ minY <= b.y /\ Bottom(b) <= maxY
      /\ minX <= maxX /\ minY <= maxY
  <2>1. /\ minX \in xs /\ \A y \in xs : minX <= y
        /\ maxX \in rights /\ \A y \in rights : y <= maxX
        /\ minY \in ys /\ \A y \in ys : minY <= y
        /\ maxY \in bottoms /\ \A y \in bottoms : y <= maxY
    <3> HIDE DEF xs, rights, ys, bottoms
    <3> QED
      BY <1>2, <1>3, MaxAndMin
  <2>2. \A b \in kids : b.x \in xs /\ Right(b) \in rights /\ b.y \in ys /\ Bottom(b) \in bottoms
    OBVIOUS
  <2>3. PICK b \in kids : TRUE
    OBVIOUS
  <2>4. b.x <= Right(b) /\ b.y <= Bottom(b)
    BY <1>1, <2>3 DEF Right, Bottom
  <2> HIDE DEF minX, maxX, minY, maxY
  <2>5. minX \in Int /\ maxX \in Int /\ minY \in Int /\ maxY \in Int
    BY <1>2, <2>1
  <2>6. \A k \in kids : minX <= k.x /\ Right(k) <= maxX /\ minY <= k.y /\ Bottom(k) <= maxY
    BY <2>1, <2>2
  <2>7. minX <= maxX /\ minY <= maxY
    BY <2>3, <2>4, <2>5, <2>6, <1>1
  <2> QED
    BY <2>5, <2>6, <2>7
<1>5. wide \in Int /\ 2 <= wide /\ maxX - minX + 2 * padding <= wide
  <2>1. {Px(1), maxX - minX + 2 * padding} \in SUBSET Int
    BY <1>4 DEF Px
  <2>2. IsFiniteSet({Px(1), maxX - minX + 2 * padding})
    <3>1. ASSUME NEW v PROVE IsFiniteSet({Px(1), v})
      <4>1. IsFiniteSet({} \cup {Px(1)})
        BY FS_EmptySet, FS_AddElement
      <4>2. IsFiniteSet(({} \cup {Px(1)}) \cup {v})
        BY <4>1, FS_AddElement
      <4>3. ({} \cup {Px(1)}) \cup {v} = {Px(1), v}
        OBVIOUS
      <4> QED
        BY <4>2, <4>3
    <3> QED
      BY <3>1
  <2>3. wide \in Int /\ Px(1) <= wide /\ maxX - minX + 2 * padding <= wide
    BY <2>1, <2>2, MaxAndMin
  <2> QED
    BY <2>3 DEF Px
<1>6. encloseBounds(kids, padding)
        = Bound(FloorPx(minX - padding), FloorPx(minY - padding - titleBand), CeilPx(wide), CeilPx(high))
  BY DEF encloseBounds
<1> HIDE DEF minX, maxX, minY, maxY, wide
<1>7. titleBand = 120
  BY DEF titleBand, Px
<1>8. /\ FloorPx(minX - padding) \in Int /\ FloorPx(minX - padding) <= minX - padding
      /\ minX - padding - 1 <= FloorPx(minX - padding)
      /\ FloorPx(minY - padding - titleBand) \in Int
      /\ FloorPx(minY - padding - titleBand) <= minY - padding - titleBand
      /\ minY - padding - titleBand - 1 <= FloorPx(minY - padding - titleBand)
      /\ CeilPx(wide) \in Int /\ wide <= CeilPx(wide)
      /\ CeilPx(high) \in Int /\ high <= CeilPx(high)
  <2>1. minX - padding \in Int /\ minY - padding - titleBand \in Int /\ wide \in Int /\ high \in Int
    BY <1>4, <1>5, <1>7
  <2> HIDE DEF high
  <2> QED
    BY <2>1, Rounding
<1>9. encloseBounds(kids, padding) \in Bounds
  BY <1>4, <1>5, <1>6, <1>7, <1>8 DEF Bound, Bounds
<1>10. ASSUME padding > 0, NEW b \in kids PROVE Encloses(encloseBounds(kids, padding), b)
  BY <1>1, <1>4, <1>5, <1>6, <1>7, <1>8, <1>10 DEF Encloses, Right, Bottom, Bound
<1> QED
  BY <1>9, <1>10

-----------------------------------------------------------------------------
(* A block stacked after the furthest of its anchors covers none of them,  *)
(* wherever it is put across, unless the gap is negative.                  *)
LEMMA StackedClear ==
  ASSUME NEW anchors \in SUBSET Bounds, NEW direction \in {"down", "up", "right", "left"},
         NEW ref \in pickFurthestInDirection(anchors, direction), NEW w \in Nat, NEW h \in Nat,
         NEW gap \in Int, NEW at \in Int
  PROVE  LET box == stackRelativeTo(ref, w, h, direction, gap)
             Clear(made) == made \in Bounds /\ (gap >= 0 => \A b \in anchors : ~Overlap(made, b))
         IN  /\ Clear(box)
             /\ Vertical(direction) => Clear([box EXCEPT !.x = at])
             /\ ~Vertical(direction) => Clear([box EXCEPT !.y = at])
<1> DEFINE box == stackRelativeTo(ref, w, h, direction, gap)
<1>1. /\ ref \in Bounds /\ ref.x \in Int /\ ref.y \in Int /\ ref.w \in Nat /\ ref.h \in Nat
      /\ \A b \in anchors : b.x \in Int /\ b.y \in Int /\ b.w \in Nat /\ b.h \in Nat
  BY DEF pickFurthestInDirection, Bounds
<1>2. CASE direction = "down"
  <2>1. box = Bound(ref.x, Bottom(ref) + gap, w, h)
    BY <1>2 DEF stackRelativeTo
  <2>2. Vertical(direction)
    BY <1>2 DEF Vertical
  <2>3. \A b \in anchors : Bottom(b) <= Bottom(ref)
    BY <1>2 DEF pickFurthestInDirection
  <2> QED
    BY <1>1, <2>1, <2>2, <2>3 DEF Bound, Bounds, Bottom, Right, Overlap
<1>3. CASE direction = "up"
  <2>1. box = Bound(ref.x, ref.y - gap - h, w, h)
    BY <1>3 DEF stackRelativeTo
  <2>2. Vertical(direction)
    BY <1>3 DEF Vertical
  <2>3. \A b \in anchors : - b.y <= - ref.y
    BY <1>3 DEF pickFurthestInDirection
  <2> QED
    BY <1>1, <2>1, <2>2, <2>3 DEF Bound, Bounds, Bottom, Right, Overlap
<1>4. CASE direction = "right"
  <2>1. box = Bound(Right(ref) + gap, ref.y, w, h)
    BY <1>4 DEF stackRelativeTo
  <2>2. ~Vertical(direction)
    BY <1>4 DEF Vertical
  <2>3. \A b \in anchors : Right(b) <= Right(ref)
    BY <1>4 DEF pickFurthestInDirection
  <2> QED
    BY <1>1, <2>1, <2>2, <2>3 DEF Bound, Bounds, Bottom, Right, Overlap
<1>5. CASE direction = "left"
  <2>1. box = Bound(ref.x - gap - w, ref.y, w, h)
    BY <1>5 DEF stackRelativeTo
  <2>2. ~Vertical(direction)
    BY <1>5 DEF Vertical
  <2>3. \A b \in anchors : - b.x <= - ref.x
    BY <1>5 DEF pickFurthestInDirection
  <2> QED
    BY <1>1, <2>1, <2>2, <2>3 DEF Bound, Bounds, Bottom, Right, Overlap
<1> QED
  BY <1>2, <1>3, <1>4, <1>5

(* An arrow leaves on a side that faces its target and enters on one that  *)
(* faces its source, if the two do not overlap.                            *)
LEMMA SidesFace ==
  ASSUME NEW a \in Bounds, NEW b \in Bounds
  PROVE  LET sides == pickConnectorSides(a, b)
         IN  Overlap(a, b) \/ (Faces(sides[1], a, b) /\ Faces(sides[2], b, a))
<1> DEFINE above == Bottom(a) <= b.y      below == Bottom(b) <= a.y
           leftOf == Right(a) <= b.x      rightOf == Right(b) <= a.x
           dx == (2 * b.x + b.w) - (2 * a.x + a.w)
           dy == (2 * b.y + b.h) - (2 * a.y + a.h)
           sides == pickConnectorSides(a, b)
           facing == Faces(sides[1], a, b) /\ Faces(sides[2], b, a)
<1>1. a.x \in Int /\ a.y \in Int /\ a.w \in Nat /\ a.h \in Nat
      /\ b.x \in Int /\ b.y \in Int /\ b.w \in Nat /\ b.h \in Nat
  BY DEF Bounds
<1>2. /\ sides = <<"bottom", "top">> /\ above => facing
      /\ sides = <<"top", "bottom">> /\ below => facing
      /\ sides = <<"right", "left">> /\ leftOf => facing
      /\ sides = <<"left", "right">> /\ rightOf => facing
  <2> HIDE DEF sides
  <2> QED
    BY DEF Faces
<1>3. CASE (above \/ below) /\ ~(leftOf \/ rightOf)
  <2>1. sides = IF above THEN <<"bottom", "top">> ELSE <<"top", "bottom">>
    BY <1>3 DEF pickConnectorSides
  <2> QED
    BY <1>2, <1>3, <2>1
<1>4. CASE (leftOf \/ rightOf) /\ ~(above \/ below)
  <2>1. sides = IF leftOf THEN <<"right", "left">> ELSE <<"left", "right">>
    BY <1>4 DEF pickConnectorSides
  <2> QED
    BY <1>2, <1>4, <2>1
<1>5. CASE (leftOf \/ rightOf) /\ (above \/ below)
  <2>1. \/ sides = IF dx >= 0 THEN <<"right", "left">> ELSE <<"left", "right">>
        \/ sides = IF dy >= 0 THEN <<"bottom", "top">> ELSE <<"top", "bottom">>
    BY <1>5 DEF pickConnectorSides
  <2>2. dx >= 0 => leftOf
    BY <1>1, <1>5 DEF Right
  <2>3. ~(dx >= 0) => rightOf
    BY <1>1, <1>5 DEF Right
  <2>4. dy >= 0 => above
    BY <1>1, <1>5 DEF Bottom
  <2>5. ~(dy >= 0) => below
    BY <1>1, <1>5 DEF Bottom
  <2> HIDE DEF sides, dx, dy, above, below, leftOf, rightOf, facing
  <2>6. \/ sides = <<"right", "left">> /\ leftOf
        \/ sides = <<"left", "right">> /\ rightOf
        \/ sides = <<"bottom", "top">> /\ above
        \/ sides = <<"top", "bottom">> /\ below
    BY <2>1, <2>2, <2>3, <2>4, <2>5
  <2>7. facing
    BY <1>2, <2>6
  <2> QED
    BY <2>7 DEF facing, sides
<1>6. CASE ~(leftOf \/ rightOf) /\ ~(above \/ below)
  BY <1>1, <1>6 DEF Overlap, Right, Bottom
<1> QED
  BY <1>3, <1>4, <1>5, <1>6

-----------------------------------------------------------------------------
(* The bounds of what is on a canvas are bounds, and finitely many. *)
LEMMA BoundsAreBounds ==
  ASSUME NEW d, WholeCanvas(d), NEW ids
  PROVE  BoundsOf(d, ids) \in SUBSET Bounds /\ IsFiniteSet(BoundsOf(d, ids))
<1> DEFINE box == [i \in DOMAIN d.elements \cup DOMAIN d.blocks |->
                     IF i \in DOMAIN d.elements THEN d.elements[i].box ELSE d.blocks[i].box]
           there == {i \in ids : Exists(d, i)}
<1>1. IsFiniteSet(there)
  <2>1. IsFiniteSet(DOMAIN d.elements \cup DOMAIN d.blocks)
    BY FS_Union DEF WholeCanvas
  <2>2. there \subseteq DOMAIN d.elements \cup DOMAIN d.blocks
    BY DEF Exists
  <2> QED
    BY <2>1, <2>2, FS_Subset
<1>2. IsFiniteSet({box[i] : i \in there})
  <2> HIDE DEF box, there
  <2> QED
    BY <1>1, FiniteImage
<1>3. BoundsOf(d, ids) = {b \in {box[i] : i \in there} : b # None}
  BY DEF BoundsOf, Exists
<1>4. \A i \in there : box[i] \in Bounds \cup {None}
  BY DEF Exists, WholeCanvas, WholeElement, WholeBlock
<1>5. IsFiniteSet(BoundsOf(d, ids))
  BY <1>2, <1>3, FS_Subset
<1> QED
  BY <1>3, <1>4, <1>5

(* Canvases that agree on what is asked for have the same bounds of it. *)
LEMMA SameBounds ==
  ASSUME NEW d, NEW e, NEW ids,
         \A i \in ids : /\ i \in DOMAIN d.elements <=> i \in DOMAIN e.elements
                        /\ i \in DOMAIN d.blocks <=> i \in DOMAIN e.blocks
                        /\ i \in DOMAIN d.elements => d.elements[i].box = e.elements[i].box
                        /\ i \in DOMAIN d.blocks => d.blocks[i].box = e.blocks[i].box
  PROVE  BoundsOf(d, ids) = BoundsOf(e, ids)
BY DEF BoundsOf, Exists

-----------------------------------------------------------------------------
(* What every tool makes of a whole canvas whose references resolve.       *)
CanvasStep(made, c, loose) ==
  /\ WholeCanvas(made) /\ ReferencesResolve(made, loose)
  /\ MarksOf(made) \subseteq MarksOf(sDoc) \cup {c}
HintKept(d, c, a) == c \in MarksOf(d) /\ HintHonoured(d, c, a)

(* A new element is on top of all others. *)
LEMMA NextIndex ==
  ASSUME NEW d, WholeCanvas(d)
  PROVE  /\ nextSurfaceElementIndex(d) \in Int
         /\ \A e \in DOMAIN d.elements : d.elements[e].index < nextSurfaceElementIndex(d)
<1> DEFINE index == [e \in DOMAIN d.elements |-> d.elements[e].index]
           used == {d.elements[e].index : e \in DOMAIN d.elements}
<1>1. IsFiniteSet(used)
  <2>1. IsFiniteSet({index[e] : e \in DOMAIN d.elements})
    <3> HIDE DEF index
    <3> QED
      BY FiniteImage DEF WholeCanvas
  <2> QED
    BY <2>1
<1>2. IsFiniteSet({0} \cup used)
  <2>1. IsFiniteSet(used \cup {0}) /\ used \cup {0} = {0} \cup used
    <3> HIDE DEF used
    <3> QED
      BY <1>1, FS_AddElement
  <2> QED
    BY <2>1
<1>3. {0} \cup used \in SUBSET Int
  <2>1. \A e \in DOMAIN d.elements : d.elements[e].index \in Int
    BY DEF WholeCanvas, WholeElement
  <2> QED
    BY <2>1
<1>4. Max({0} \cup used) \in Int /\ \A n \in {0} \cup used : n <= Max({0} \cup used)
  <2> HIDE DEF used
  <2> QED
    BY <1>2, <1>3, MaxAndMin
<1>5. \A e \in DOMAIN d.elements : d.elements[e].index \in used
  OBVIOUS
<1>6. nextSurfaceElementIndex(d) = 1 + Max({0} \cup used)
  BY DEF nextSurfaceElementIndex
<1> QED
  <2> HIDE DEF used
  <2> QED
    BY <1>3, <1>4, <1>5, <1>6

(* addSurfaceElement. *)
LEMMA ElementAdded ==
  ASSUME WholeCanvas(sDoc), ReferencesResolve(sDoc, sLoose), NEW c \in SurfaceCalls,
         c \notin MarksOf(sDoc), NEW i \in ElementInputs
  PROVE  LET made == [sDoc EXCEPT !.elements = MapSet(@, c, buildSurfaceElementData(sDoc, c, i))]
             loose == IF i.type = "connector" THEN sLoose \cup ({i.from, i.to} \cap {Missing}) ELSE sLoose
         IN  CanvasStep(made, c, loose) /\ HintKept(made, c, [kind |-> "element"])
<1> DEFINE el == buildSurfaceElementData(sDoc, c, i)
           made == [sDoc EXCEPT !.elements = MapSet(@, c, el)]
           loose == IF i.type = "connector" THEN sLoose \cup ({i.from, i.to} \cap {Missing}) ELSE sLoose
           index == nextSurfaceElementIndex(sDoc)
           sides == pickConnectorSides(Box(sDoc, i.from), Box(sDoc, i.to))
           bounded == BoundsOf(sDoc, {i.from}) # {} /\ BoundsOf(sDoc, {i.to}) # {}
<1>1. index \in Int /\ \A e \in DOMAIN sDoc.elements : sDoc.elements[e].index < index
  BY NextIndex
<1>2. /\ el.type = i.type /\ el.index = index /\ WholeElement(el)
      /\ i.type # "connector" => el.ends = <<>>
      /\ i.type = "connector" =>
           /\ i.from \in Ids /\ i.to \in Ids /\ EndIds(el) = {i.from, i.to}
           /\ el.ends.source.id = i.from /\ el.ends.target.id = i.to
           /\ el.ends.source.side = IF bounded THEN sides[1] ELSE None
           /\ el.ends.target.side = IF bounded THEN sides[2] ELSE None
  <2>1. CASE i.type \in {"shape", "text"}
    <3>1. i.box \in Bounds
      BY <2>1, SurfaceAssumption DEF ElementInputs
    <3>2. el = Element(i.type, index, i.box, <<>>, Owned({}, c))
      BY <2>1 DEF buildSurfaceElementData
    <3> HIDE DEF el, index
    <3>3. /\ el = [type |-> i.type, index |-> index, box |-> i.box, ends |-> <<>>, owned |-> el.owned]
          /\ el.owned = [map |-> c, ids |-> {}]
      BY <3>2 DEF Element, Owned
    <3>4. /\ el.type = i.type /\ el.index = index /\ el.box = i.box /\ el.ends = <<>>
          /\ el.owned = Owned(el.owned.ids, el.owned.map)
      BY <3>3 DEF Owned
    <3>5. WholeElement(el)
      BY <1>1, <2>1, <3>1, <3>3, <3>4 DEF Element, WholeElement
    <3> QED
      BY <2>1, <3>4, <3>5
  <2>2. CASE i.type = "group"
    <3>1. el = Element(i.type, index, None, <<>>, Owned(i.kids, c))
      BY <2>2 DEF buildSurfaceElementData
    <3> HIDE DEF el, index
    <3>2. /\ el = [type |-> i.type, index |-> index, box |-> None, ends |-> <<>>, owned |-> el.owned]
          /\ el.owned = [map |-> c, ids |-> i.kids]
      BY <3>1 DEF Element, Owned
    <3>3. /\ el.type = i.type /\ el.index = index /\ el.box = None /\ el.ends = <<>>
          /\ el.owned = Owned(el.owned.ids, el.owned.map)
      BY <3>2 DEF Owned
    <3>4. WholeElement(el)
      BY <1>1, <2>2, <3>2, <3>3 DEF Element, WholeElement
    <3> QED
      BY <2>2, <3>3, <3>4
  <2>3. CASE i.type = "connector"
    <3>1. i.from \in Ids /\ i.to \in Ids
      BY <2>3 DEF ElementInputs
    <3>2. el = Element(i.type, index, None, Ends(sDoc, i.from, i.to), Owned({}, c))
      BY <2>3 DEF buildSurfaceElementData
    <3>3. PICK s, t : /\ Ends(sDoc, i.from, i.to) = [source |-> [id |-> i.from, side |-> s], target |-> [id |-> i.to, side |-> t]]
                      /\ s = IF bounded THEN sides[1] ELSE None
                      /\ t = IF bounded THEN sides[2] ELSE None
      BY DEF Ends
    <3> HIDE DEF el, sides, bounded, index
    <3>4. /\ el = [type |-> i.type, index |-> index, box |-> None, ends |-> el.ends, owned |-> Owned({}, c)]
          /\ el.ends = [source |-> [id |-> i.from, side |-> s], target |-> [id |-> i.to, side |-> t]]
      BY <3>2, <3>3 DEF Element
    <3>5. /\ el.type = i.type /\ el.index = index /\ el.ends.source = [id |-> i.from, side |-> s]
          /\ el.ends.target = [id |-> i.to, side |-> t] /\ DOMAIN el.ends = {"source", "target"}
          /\ el.box = None /\ el.owned = Owned({}, c)
      BY <3>4
    <3>7. WholeElement(el)
      <4>1. el.owned = Owned(el.owned.ids, el.owned.map)
        BY <3>5 DEF Owned
      <4>2. End(el.ends.source) /\ End(el.ends.target)
        BY <3>5 DEF End
      <4>3. el = Element(el.type, el.index, el.box, el.ends, el.owned)
        BY <3>4 DEF Element
      <4>4. el.ends = [source |-> el.ends.source, target |-> el.ends.target]
        BY <3>4
      <4> QED
        BY <1>1, <2>3, <3>5, <4>1, <4>2, <4>3, <4>4 DEF WholeElement
    <3>6. EndIds(el) = {i.from, i.to}
      BY <3>5 DEF EndIds
    <3> QED
      BY <2>3, <3>1, <3>3, <3>5, <3>6, <3>7
  <2>4. i.type \in {"shape", "text", "group", "connector"}
    BY DEF ElementInputs
  <2> QED
    BY <2>1, <2>2, <2>3, <2>4
<1> HIDE DEF el, sides, bounded, index
<1>3. /\ made.blocks = sDoc.blocks /\ DOMAIN made.elements = DOMAIN sDoc.elements \cup {c}
      /\ made.elements[c] = el /\ \A e \in DOMAIN sDoc.elements : made.elements[e] = sDoc.elements[e]
      /\ made = [elements |-> made.elements, blocks |-> made.blocks]
      /\ made.elements = [e \in DOMAIN made.elements |-> made.elements[e]]
      /\ c \notin DOMAIN sDoc.elements \cup DOMAIN sDoc.blocks
  <2>1. c \notin DOMAIN sDoc.elements \cup DOMAIN sDoc.blocks
    BY DEF MarksOf
  <2>2. made = [elements |-> MapSet(sDoc.elements, c, el), blocks |-> sDoc.blocks]
    BY DEF WholeCanvas
  <2> QED
    BY <2>1, <2>2 DEF MapSet
<1> HIDE DEF made
<1>4. WholeCanvas(made)
  <2>1. IsFiniteSet(DOMAIN sDoc.elements \cup {c})
    BY FS_AddElement DEF WholeCanvas
  <2> QED
    BY <1>2, <1>3, <2>1 DEF WholeCanvas
<1>5. ReferencesResolve(made, loose)
  <2>1. \A k : Exists(sDoc, k) => Exists(made, k)
    BY <1>3 DEF Exists
  <2>2. i.type = "connector" => \A k \in EndIds(el) : Exists(sDoc, k) \/ k \in loose
    BY <1>2 DEF Exists, Ids
  <2>3. i.type # "connector" => EndIds(el) = {}
    BY <1>2 DEF EndIds
  <2> QED
    BY <1>3, <2>1, <2>2, <2>3 DEF ReferencesResolve
<1>6. MarksOf(made) \subseteq MarksOf(sDoc) \cup {c} /\ c \in MarksOf(made)
  BY <1>3 DEF MarksOf
<1>7. ASSUME i.type = "connector", el.ends.source.side # None
      PROVE  LET from == Box(made, el.ends.source.id)  to == Box(made, el.ends.target.id)
             IN  \/ Overlap(from, to)
                 \/ /\ Faces(el.ends.source.side, from, to)
                    /\ Faces(el.ends.target.side, to, from)
  <2>1. bounded /\ el.ends.source.side = sides[1] /\ el.ends.target.side = sides[2]
    BY <1>2, <1>7
  <2>2. Box(sDoc, i.from) \in Bounds /\ Box(sDoc, i.to) \in Bounds
    BY <2>1, BoundsAreBounds DEF Box, bounded
  <2>3. i.from # c /\ i.to # c
    BY <1>2, <1>3, <1>7, SurfaceAssumption DEF Ids
  <2>4. Box(made, i.from) = Box(sDoc, i.from) /\ Box(made, i.to) = Box(sDoc, i.to)
    <3>1. BoundsOf(made, {i.from}) = BoundsOf(sDoc, {i.from}) /\ BoundsOf(made, {i.to}) = BoundsOf(sDoc, {i.to})
      BY <1>3, <2>3, SameBounds
    <3> QED
      BY <3>1 DEF Box
  <2>5. LET from == Box(sDoc, i.from)  to == Box(sDoc, i.to)
        IN  Overlap(from, to) \/ (Faces(sides[1], from, to) /\ Faces(sides[2], to, from))
    BY <2>2, SidesFace DEF sides
  <2> QED
    BY <1>2, <1>7, <2>1, <2>4, <2>5
<1>8. HintHonoured(made, c, [kind |-> "element"])
  BY <1>1, <1>2, <1>3, <1>7 DEF HintHonoured
<1> QED
  BY <1>4, <1>5, <1>6, <1>8 DEF CanvasStep, HintKept, made, el

(* updateSurfaceElement. *)
LEMMA ElementUpdated ==
  ASSUME WholeCanvas(sDoc), ReferencesResolve(sDoc, sLoose), NEW c \in SurfaceCalls,
         NEW e \in DOMAIN sDoc.elements, NEW field \in DOMAIN Applicable,
         NEW v, field = "x" => v \in Spots, field = "index" => v \in {0},
         field \in {"sourceId", "targetId"} => v \in Ids,
         NEW made \in UpdatedElement(sDoc, c, e, field, v)
  PROVE  CanvasStep(made, c, IF field \in {"sourceId", "targetId"} THEN sLoose \cup ({v} \cap {Missing}) ELSE sLoose)
<1> DEFINE el == sDoc.elements[e]  upd == made.elements[e]
           loose == IF field \in {"sourceId", "targetId"} THEN sLoose \cup ({v} \cap {Missing}) ELSE sLoose
<1>1. WholeElement(el) /\ el.type \in Applicable[field]
  BY DEF WholeCanvas, UpdatedElement
<1>2. /\ made.blocks = sDoc.blocks /\ DOMAIN made.elements = DOMAIN sDoc.elements
      /\ \A o \in DOMAIN sDoc.elements \ {e} : made.elements[o] = sDoc.elements[o]
      /\ made = [elements |-> made.elements, blocks |-> made.blocks]
      /\ made.elements = [o \in DOMAIN made.elements |-> made.elements[o]]
      /\ upd = CASE field = "x" -> [el EXCEPT !.box = v]
                 [] field = "index" -> [el EXCEPT !.index = v]
                 [] field = "children" -> [el EXCEPT !.owned = Owned(v, c)]
                 [] field = "sourceId" -> [el EXCEPT !.ends.source = [id |-> v, side |-> None]]
                 [] field = "targetId" -> [el EXCEPT !.ends.target = [id |-> v, side |-> None]]
                 [] OTHER -> el
  BY <1>1 DEF UpdatedElement, WholeCanvas
<1>3. WholeElement(upd) /\ \A k \in EndIds(upd) : Exists(sDoc, k) \/ k \in loose
  <2>0. \A k \in EndIds(el) : Exists(sDoc, k) \/ k \in loose
    BY DEF ReferencesResolve
  <2>1. CASE field = "x"
    <3>1. v \in Bounds /\ upd = [el EXCEPT !.box = v]
      BY <1>2, <2>1, SurfaceAssumption
    <3>2. WholeElement(upd) /\ upd.ends = el.ends
      BY <1>1, <3>1 DEF WholeElement, Element
    <3> QED
      BY <2>0, <3>2 DEF EndIds
  <2>2. CASE field = "index"
    <3>1. v = 0 /\ upd = [el EXCEPT !.index = v]
      BY <1>2, <2>2
    <3>2. WholeElement(upd) /\ upd.ends = el.ends
      BY <1>1, <3>1 DEF WholeElement, Element
    <3> QED
      BY <2>0, <3>2 DEF EndIds
  <2>3. CASE field = "children"
    <3>1. upd = [el EXCEPT !.owned = Owned(v, c)]
      BY <1>2, <2>3
    <3>2. WholeElement(upd) /\ upd.ends = el.ends
      BY <1>1, <3>1 DEF WholeElement, Element, Owned
    <3> QED
      BY <2>0, <3>2 DEF EndIds
  <2>4. CASE field = "sourceId"
    <3>1. el.type = "connector" /\ upd = [el EXCEPT !.ends.source = [id |-> v, side |-> None]]
      BY <1>1, <1>2, <2>4 DEF Applicable
    <3>2. /\ upd.ends = [source |-> [id |-> v, side |-> None], target |-> el.ends.target]
          /\ el.ends = [source |-> el.ends.source, target |-> el.ends.target]
      BY <1>1, <3>1 DEF WholeElement, Element
    <3>3. WholeElement(upd)
      BY <1>1, <3>1, <3>2 DEF WholeElement, Element, End
    <3>4. EndIds(upd) \subseteq {v} \cup EndIds(el)
      BY <3>2 DEF EndIds
    <3>5. Exists(sDoc, v) \/ v \in loose
      BY <2>4 DEF Ids, Exists
    <3> QED
      BY <2>0, <3>3, <3>4, <3>5
  <2>5. CASE field = "targetId"
    <3>1. el.type = "connector" /\ upd = [el EXCEPT !.ends.target = [id |-> v, side |-> None]]
      BY <1>1, <1>2, <2>5 DEF Applicable
    <3>2. /\ upd.ends = [source |-> el.ends.source, target |-> [id |-> v, side |-> None]]
          /\ el.ends = [source |-> el.ends.source, target |-> el.ends.target]
      BY <1>1, <3>1 DEF WholeElement, Element
    <3>3. WholeElement(upd)
      BY <1>1, <3>1, <3>2 DEF WholeElement, Element, End
    <3>4. EndIds(upd) \subseteq {v} \cup EndIds(el)
      BY <3>2 DEF EndIds
    <3>5. Exists(sDoc, v) \/ v \in loose
      BY <2>5 DEF Ids, Exists
    <3> QED
      BY <2>0, <3>3, <3>4, <3>5
  <2>6. CASE field \notin {"x", "index", "children", "sourceId", "targetId"}
    BY <1>1, <1>2, <2>0, <2>6
  <2> QED
    BY <2>1, <2>2, <2>3, <2>4, <2>5, <2>6
<1> HIDE DEF upd
<1>4. WholeCanvas(made)
  BY <1>2, <1>3 DEF WholeCanvas, upd
<1>5. ReferencesResolve(made, loose)
  BY <1>2, <1>3 DEF ReferencesResolve, Exists, upd
<1>6. MarksOf(made) \subseteq MarksOf(sDoc) \cup {c}
  BY <1>2 DEF MarksOf
<1> QED
  BY <1>4, <1>5, <1>6 DEF CanvasStep

(* deleteSurfaceElement and delete_block. *)
LEMMA ThingDeleted ==
  ASSUME WholeCanvas(sDoc), ReferencesResolve(sDoc, sLoose), NEW c \in SurfaceCalls,
         NEW id, NEW pruneConnectors \in BOOLEAN
  PROVE  CanvasStep(Without(sDoc, id, pruneConnectors), c,
                    sLoose \cup IF pruneConnectors THEN ConnectorsOf(sDoc, id) ELSE {id})
<1> DEFINE made == Without(sDoc, id, pruneConnectors)
           gone == {id} \cup (IF pruneConnectors THEN ConnectorsOf(sDoc, id) ELSE {})
           loose == sLoose \cup IF pruneConnectors THEN ConnectorsOf(sDoc, id) ELSE {id}
<1>1. /\ DOMAIN made.elements = DOMAIN sDoc.elements \ gone /\ DOMAIN made.blocks = DOMAIN sDoc.blocks \ gone
      /\ \A e \in DOMAIN made.elements : made.elements[e] = sDoc.elements[e]
      /\ \A b \in DOMAIN made.blocks : made.blocks[b] = [sDoc.blocks[b] EXCEPT !.owned.ids = @ \ gone]
      /\ made = [elements |-> made.elements, blocks |-> made.blocks]
      /\ made.elements = [e \in DOMAIN made.elements |-> made.elements[e]]
      /\ made.blocks = [b \in DOMAIN made.blocks |-> made.blocks[b]]
  <2> DEFINE d2 == pruneFromFrameChildElementIds(sDoc, gone)
  <2>1. made = [elements |-> [e \in DOMAIN sDoc.elements \ gone |-> sDoc.elements[e]],
                blocks |-> [b \in DOMAIN sDoc.blocks \ gone |-> d2.blocks[b]]]
    BY DEF Without
  <2>2. d2.blocks = [b \in DOMAIN sDoc.blocks |-> [sDoc.blocks[b] EXCEPT !.owned.ids = @ \ gone]]
    <3>1. sDoc = [elements |-> sDoc.elements, blocks |-> sDoc.blocks]
      BY DEF WholeCanvas
    <3> DEFINE blocks == [b \in DOMAIN sDoc.blocks |-> [sDoc.blocks[b] EXCEPT !.owned.ids = @ \ gone]]
    <3>2. d2 = [sDoc EXCEPT !.blocks = blocks]
      BY DEF pruneFromFrameChildElementIds
    <3> HIDE DEF blocks, d2
    <3>3. d2.blocks = blocks
      BY <3>1, <3>2
    <3> QED
      BY <3>3 DEF blocks
  <2> HIDE DEF made, gone, d2
  <2> QED
    BY <2>1, <2>2
<1> HIDE DEF made
<1>2. \A b \in DOMAIN made.blocks : /\ WholeBlock(made.blocks[b])
                                    /\ made.blocks[b].owned.ids = sDoc.blocks[b].owned.ids \ gone
                                    /\ made.blocks[b].owned.map = sDoc.blocks[b].owned.map
  <2> TAKE b \in DOMAIN made.blocks
  <2>1. WholeBlock(sDoc.blocks[b]) /\ made.blocks[b] = [sDoc.blocks[b] EXCEPT !.owned.ids = @ \ gone]
    BY <1>1 DEF WholeCanvas
  <2> HIDE DEF gone
  <2> QED
    BY <2>1 DEF WholeBlock, Edgeless, Owned
<1>3. WholeCanvas(made)
  <2>1. IsFiniteSet(DOMAIN made.elements) /\ IsFiniteSet(DOMAIN made.blocks)
    BY <1>1, FS_Subset DEF WholeCanvas
  <2> QED
    BY <1>1, <1>2, <2>1 DEF WholeCanvas
<1>4. ReferencesResolve(made, loose)
  <2>1. \A i : Exists(sDoc, i) /\ i \notin gone => Exists(made, i)
    BY <1>1 DEF Exists
  <2>2. ASSUME NEW b \in DOMAIN made.blocks, NEW i \in made.blocks[b].owned.ids PROVE Exists(made, i)
    BY <1>1, <1>2, <2>1 DEF ReferencesResolve
  <2>3. ASSUME NEW e \in DOMAIN made.elements, NEW i \in EndIds(made.elements[e])
        PROVE  Exists(made, i) \/ i \in loose
    <3>1. e \in DOMAIN sDoc.elements \ gone /\ made.elements[e] = sDoc.elements[e]
      BY <1>1
    <3>2. Exists(sDoc, i) \/ i \in sLoose
      BY <2>3, <3>1 DEF ReferencesResolve
    <3>3. sDoc.elements[e].type = "connector"
      <4>1. EndIds(sDoc.elements[e]) # {}
        BY <2>3, <3>1
      <4>2. sDoc.elements[e].ends # <<>>
        BY <4>1 DEF EndIds
      <4> QED
        BY <3>1, <4>2 DEF WholeCanvas, WholeElement
    <3>4. i = id /\ pruneConnectors => e \in ConnectorsOf(sDoc, id)
      BY <2>3, <3>1, <3>3 DEF ConnectorsOf
    <3> QED
      BY <2>1, <3>1, <3>2, <3>4
  <2> QED
    BY <2>2, <2>3 DEF ReferencesResolve
<1>5. MarksOf(made) \subseteq MarksOf(sDoc) \cup {c}
  BY <1>1, <1>2 DEF MarksOf
<1> QED
  BY <1>3, <1>4, <1>5 DEF CanvasStep, made

(* updateEdgelessBlock. *)
LEMMA BlockMoved ==
  ASSUME WholeCanvas(sDoc), ReferencesResolve(sDoc, sLoose), NEW c \in SurfaceCalls,
         NEW b \in DOMAIN sDoc.blocks, NEW box \in Spots
  PROVE  CanvasStep([sDoc EXCEPT !.blocks[b].box = box], c, sLoose)
<1> DEFINE made == [sDoc EXCEPT !.blocks[b].box = box]
<1>1. /\ made.elements = sDoc.elements /\ DOMAIN made.blocks = DOMAIN sDoc.blocks
      /\ \A o \in DOMAIN sDoc.blocks \ {b} : made.blocks[o] = sDoc.blocks[o]
      /\ made.blocks[b] = [sDoc.blocks[b] EXCEPT !.box = box]
      /\ made = [elements |-> made.elements, blocks |-> made.blocks]
      /\ made.blocks = [o \in DOMAIN made.blocks |-> made.blocks[o]]
  BY DEF WholeCanvas
<1> HIDE DEF made
<1>2. WholeBlock(made.blocks[b]) /\ made.blocks[b].owned = sDoc.blocks[b].owned
  <2>1. WholeBlock(sDoc.blocks[b]) /\ box \in Bounds
    BY SurfaceAssumption DEF WholeCanvas
  <2> QED
    BY <1>1, <2>1 DEF WholeBlock, Edgeless
<1>3. WholeCanvas(made)
  BY <1>1, <1>2 DEF WholeCanvas
<1>4. ReferencesResolve(made, sLoose)
  BY <1>1, <1>2 DEF ReferencesResolve, Exists
<1>5. MarksOf(made) \subseteq MarksOf(sDoc) \cup {c}
  <2>1. \A o \in DOMAIN sDoc.blocks : made.blocks[o].owned.map = sDoc.blocks[o].owned.map
    BY <1>1, <1>2
  <2> QED
    BY <1>1, <2>1 DEF MarksOf
<1> QED
  BY <1>3, <1>4, <1>5 DEF CanvasStep, made

(* updateFrameChildren. *)
LEMMA FrameUpdated ==
  ASSUME WholeCanvas(sDoc), ReferencesResolve(sDoc, sLoose), NEW c \in SurfaceCalls,
         NEW f \in DOMAIN sDoc.blocks, NEW ids, NEW resizeToFit \in BOOLEAN, NEW padding \in Paddings,
         NEW made \in UpdatedFrame(sDoc, c, f, ids, resizeToFit, padding)
  PROVE  /\ CanvasStep(made, c, sLoose)
         /\ HintKept(made, c, [kind |-> IF resizeToFit THEN Fitting(padding) ELSE "placed", block |-> f,
                               clear |-> {}, kids |-> ids])
<1> DEFINE owned == {i \in ids : Exists(sDoc, i)}
           kids  == BoundsOf(sDoc, owned)
           fitted == resizeToFit /\ kids # {}
           box == IF fitted THEN encloseBounds(kids, padding) ELSE sDoc.blocks[f].box
           hint == [kind |-> IF resizeToFit THEN Fitting(padding) ELSE "placed", block |-> f,
                    clear |-> {}, kids |-> ids]
<1>1. WholeBlock(sDoc.blocks[f]) /\ padding \in Nat
  BY SurfaceAssumption DEF WholeCanvas
<1>2. /\ kids \in SUBSET Bounds /\ IsFiniteSet(kids)
      /\ kids = BoundsOf(sDoc, ids)
  BY BoundsAreBounds DEF BoundsOf
<1>3. box \in Bounds /\ (fitted /\ padding > 0 => \A b \in kids : Encloses(box, b))
  <2> HIDE DEF kids
  <2> QED
    BY <1>1, <1>2, EnclosesAll DEF WholeBlock
<1>4. made = [sDoc EXCEPT !.blocks[f].owned = Owned(owned, c), !.blocks[f].box = box]
  BY DEF UpdatedFrame
<1> HIDE DEF box, fitted, kids, owned
<1>5. /\ made.elements = sDoc.elements /\ DOMAIN made.blocks = DOMAIN sDoc.blocks
      /\ \A o \in DOMAIN sDoc.blocks \ {f} : made.blocks[o] = sDoc.blocks[o]
      /\ made.blocks[f] = [sDoc.blocks[f] EXCEPT !.owned = Owned(owned, c), !.box = box]
      /\ made = [elements |-> made.elements, blocks |-> made.blocks]
      /\ made.blocks = [o \in DOMAIN made.blocks |-> made.blocks[o]]
  BY <1>4 DEF WholeCanvas
<1>6. /\ WholeBlock(made.blocks[f]) /\ made.blocks[f].box = box
      /\ made.blocks[f].owned.ids = owned /\ made.blocks[f].owned.map = c
  <2>1. /\ made.blocks[f] = [sDoc.blocks[f] EXCEPT !.owned = Owned(owned, c), !.box = box]
        /\ sDoc.blocks[f] = [flavour |-> sDoc.blocks[f].flavour, box |-> sDoc.blocks[f].box,
                             owned |-> sDoc.blocks[f].owned]
    BY <1>1, <1>5 DEF WholeBlock, Edgeless
  <2>2. made.blocks[f] = Edgeless(sDoc.blocks[f].flavour, box, Owned(owned, c))
    BY <2>1 DEF Edgeless
  <2> QED
    BY <1>3, <2>2 DEF WholeBlock, Edgeless, Owned
<1>7. WholeCanvas(made)
  BY <1>5, <1>6 DEF WholeCanvas
<1>8. ReferencesResolve(made, sLoose)
  BY <1>5, <1>6 DEF ReferencesResolve, Exists, owned
<1>9. MarksOf(made) \subseteq MarksOf(sDoc) \cup {c} /\ c \in MarksOf(made)
  <2>1. \A o \in DOMAIN sDoc.blocks : sDoc.blocks[o].owned.map \in MarksOf(sDoc)
    BY DEF MarksOf
  <2>2. \A o \in DOMAIN made.blocks : made.blocks[o].owned.map \in MarksOf(sDoc) \cup {c}
    BY <1>5, <1>6, <2>1
  <2>3. DOMAIN made.elements \cup DOMAIN made.blocks \subseteq MarksOf(sDoc)
    BY <1>5 DEF MarksOf
  <2>4. c \in MarksOf(made)
    BY <1>5, <1>6 DEF MarksOf
  <2> QED
    BY <2>2, <2>3, <2>4 DEF MarksOf
<1>10. ASSUME resizeToFit, padding > 0, NEW b \in BoundsOf(made, ids)
       PROVE  Encloses(box, b)
  <2>1. PICK i \in ids : /\ Exists(made, i) /\ b # None
                         /\ b = IF i \in DOMAIN made.elements THEN made.elements[i].box ELSE made.blocks[i].box
    BY <1>10 DEF BoundsOf
  <2>2. DOMAIN made.elements \cap DOMAIN made.blocks = {}
    BY <1>7 DEF WholeCanvas
  <2>3. CASE i = f
    <3>1. b = box
      BY <1>6, <1>5, <2>1, <2>2, <2>3
    <3> QED
      BY <1>3, <3>1 DEF Encloses, Bounds, Right, Bottom
  <2>4. CASE i # f
    <3>1. Exists(sDoc, i) /\ b = IF i \in DOMAIN sDoc.elements THEN sDoc.elements[i].box ELSE sDoc.blocks[i].box
      BY <1>5, <2>1, <2>4 DEF Exists
    <3>2. b \in BoundsOf(sDoc, ids)
      BY <2>1, <3>1 DEF BoundsOf
    <3> QED
      BY <1>2, <1>3, <1>10, <3>2 DEF fitted
  <2> QED
    BY <2>3, <2>4
<1>11. HintHonoured(made, c, hint)
  <2>1. hint.kind \notin {"element", "automatic", "stacked"}
    BY DEF Fitting
  <2>2. hint.kind = "fitted" => resizeToFit /\ padding > 0
    BY DEF Fitting
  <2> QED
    BY <1>6, <1>10, <2>1, <2>2 DEF HintHonoured
<1> QED
  BY <1>7, <1>8, <1>9, <1>11 DEF CanvasStep, HintKept

(* The inputs of append_block have a size, and paddings are not negative. *)
LEMMA InputsFit ==
  ASSUME NEW i \in EdgelessInputs
  PROVE  /\ Wanted(i) \in Bounds
         /\ i.direction \in {"down", "up", "right", "left"}
         /\ StackGap(i) \in Int /\ PaddingOf(i) \in Nat
         /\ i.kids \subseteq Ids
<1>1. PICK j \in LayoutInputs :
        /\ i.direction = j.direction /\ i.gap = j.gap /\ i.padding = j.padding /\ i.want = j.want
        /\ i.kids \subseteq Ids
  <2> DEFINE Input(j, f, kids) ==
        [flavour |-> f, after |-> j.after, direction |-> j.direction, gap |-> j.gap,
         padding |-> j.padding, want |-> j.want, kids |-> kids]
  <2>1. \E j \in LayoutInputs, f \in {"frame", "note"}, kids \in SUBSET Ids : i = Input(j, f, kids)
    BY DEF EdgelessInputs
  <2> QED
    BY <2>1
<1>2. /\ i.direction \in {"down", "up", "right", "left"}
      /\ i.gap \in Int \cup {None} /\ i.padding \in Nat \cup {None}
      /\ i.want.x \in Int \cup {None} /\ i.want.y \in Int \cup {None}
      /\ i.want.w \in Nat \cup {None} /\ i.want.h \in Nat \cup {None}
      /\ BlockSize.w \in Nat /\ BlockSize.h \in Nat
  BY <1>1, SurfaceAssumption
<1>3. StackGap(i) \in Int /\ PaddingOf(i) \in Nat
  BY <1>2 DEF StackGap, PaddingOf, Px
<1>4. \A n \in Int : FloorPx(n) \in Int
  BY Rounding
<1>5. \A n \in Nat : AtLeastPx(n) \in Nat
  <2> TAKE n \in Nat
  <2>1. CASE n < 2
    BY <2>1 DEF AtLeastPx, Px
  <2>2. CASE ~(n < 2)
    <3>1. FloorPx(n) \in Int /\ n - 1 <= FloorPx(n)
      BY Rounding
    <3> QED
      BY <2>2, <3>1 DEF AtLeastPx, Px
  <2> QED
    BY <2>1, <2>2
<1>6. /\ Wanted(i).x \in Int /\ Wanted(i).y \in Int /\ Wanted(i).w \in Nat /\ Wanted(i).h \in Nat
      /\ Wanted(i) = Bound(Wanted(i).x, Wanted(i).y, Wanted(i).w, Wanted(i).h)
  BY <1>2, <1>4, <1>5 DEF Wanted, Given, Bound
<1>7. Wanted(i) \in Bounds
  <2>1. Wanted(i) = [x |-> Wanted(i).x, y |-> Wanted(i).y, w |-> Wanted(i).w, h |-> Wanted(i).h]
    BY <1>6 DEF Bound
  <2> QED
    BY <1>6, <2>1 DEF Bounds
<1> QED
  BY <1>1, <1>2, <1>3, <1>7

(* stackAfter puts a block clear of all its anchors. *)
LEMMA StackedAfterFits ==
  ASSUME WholeCanvas(sDoc), NEW i \in EdgelessInputs, NEW box \in StackedAfter(sDoc, i)
  PROVE  box \in Bounds /\ (StackGap(i) >= 0 => \A b \in Anchors(sDoc, i) : ~Overlap(box, b))
<1> DEFINE anchors == Anchors(sDoc, i)
           at == Wanted(i)
           gap == StackGap(i)
           xs == {b.x : b \in anchors}  rights == {Right(b) : b \in anchors}
           ys == {b.y : b \in anchors}  bottoms == {Bottom(b) : b \in anchors}
           atX == IF Given(i, "x") THEN at.x ELSE Centred(Min(xs), Max(rights), at.w)
           atY == IF Given(i, "y") THEN at.y ELSE Centred(Min(ys), Max(bottoms), at.h)
           Put(ref) == stackRelativeTo(ref, at.w, at.h, i.direction, gap)
<1>1. PICK ref \in pickFurthestInDirection(anchors, i.direction) :
        box = IF Vertical(i.direction) THEN [Put(ref) EXCEPT !.x = atX] ELSE [Put(ref) EXCEPT !.y = atY]
  BY DEF StackedAfter
<1>2. anchors \in SUBSET Bounds /\ IsFiniteSet(anchors) /\ anchors # {}
  <2> DEFINE there == i.after \cap DOMAIN sDoc.blocks
             box2 == [b \in there |-> sDoc.blocks[b].box]
  <2>1. IsFiniteSet(there)
    BY FS_Subset DEF WholeCanvas
  <2>2. anchors = {box2[b] : b \in there}
    BY DEF Anchors
  <2>3. IsFiniteSet({box2[b] : b \in there})
    <3> HIDE DEF box2, there
    <3> QED
      BY <2>1, FiniteImage
  <2>4. anchors \in SUBSET Bounds
    BY DEF Anchors, WholeCanvas, WholeBlock
  <2> QED
    BY <1>1, <2>2, <2>3, <2>4 DEF pickFurthestInDirection
<1>3. gap \in Int /\ at.x \in Int /\ at.y \in Int /\ at.w \in Nat /\ at.h \in Nat
      /\ i.direction \in {"down", "up", "right", "left"}
  BY InputsFit DEF Bounds
<1> HIDE DEF anchors, at
<1>4. atX \in Int /\ atY \in Int
  <2> DEFINE X == [b \in anchors |-> b.x]  R == [b \in anchors |-> Right(b)]
             Y == [b \in anchors |-> b.y]  B == [b \in anchors |-> Bottom(b)]
  <2>1. /\ IsFiniteSet({X[b] : b \in anchors}) /\ IsFiniteSet({R[b] : b \in anchors})
        /\ IsFiniteSet({Y[b] : b \in anchors}) /\ IsFiniteSet({B[b] : b \in anchors})
    <3> HIDE DEF X, R, Y, B
    <3> QED
      BY <1>2, FiniteImage
  <2>2. IsFiniteSet(xs) /\ IsFiniteSet(rights) /\ IsFiniteSet(ys) /\ IsFiniteSet(bottoms)
    BY <2>1
  <2>3. \A b \in anchors : b.x \in Int /\ b.y \in Int /\ Right(b) \in Int /\ Bottom(b) \in Int
    BY <1>2 DEF Bounds, Right, Bottom
  <2>4. /\ xs \in SUBSET Int /\ rights \in SUBSET Int /\ ys \in SUBSET Int /\ bottoms \in SUBSET Int
        /\ xs # {} /\ rights # {} /\ ys # {} /\ bottoms # {}
    BY <1>2, <2>3
  <2>5. Min(xs) \in Int /\ Max(rights) \in Int /\ Min(ys) \in Int /\ Max(bottoms) \in Int
    <3> HIDE DEF xs, rights, ys, bottoms
    <3> QED
      BY <2>2, <2>4, MaxAndMin
  <2> HIDE DEF xs, rights, ys, bottoms
  <2> QED
    BY <1>3, <2>5 DEF Centred, Px
<1> HIDE DEF gap, atX, atY
<1>5. CASE Vertical(i.direction)
  <2>1. box = [stackRelativeTo(ref, at.w, at.h, i.direction, gap) EXCEPT !.x = atX]
    BY <1>1, <1>5
  <2>2. ref \in pickFurthestInDirection(anchors, i.direction)
    OBVIOUS
  <2>3. box \in Bounds /\ (gap >= 0 => \A b \in anchors : ~Overlap(box, b))
    BY <1>2, <1>3, <1>4, <1>5, <2>1, <2>2, StackedClear
  <2> QED
    BY <2>3 DEF anchors, gap
<1>6. CASE ~Vertical(i.direction)
  <2>1. box = [stackRelativeTo(ref, at.w, at.h, i.direction, gap) EXCEPT !.y = atY]
    BY <1>1, <1>6
  <2>2. ref \in pickFurthestInDirection(anchors, i.direction)
    OBVIOUS
  <2>3. box \in Bounds /\ (gap >= 0 => \A b \in anchors : ~Overlap(box, b))
    BY <1>2, <1>3, <1>4, <1>6, <2>1, <2>2, StackedClear
  <2> QED
    BY <2>3 DEF anchors, gap
<1> QED
  BY <1>5, <1>6

(* A block whose y nobody gave goes below all others. *)
LEMMA AutoStackedFits ==
  ASSUME WholeCanvas(sDoc), NEW i \in EdgelessInputs, NEW box \in AutoStacked(sDoc, i)
  PROVE  /\ box \in Bounds
         /\ ~Given(i, "y") => \A b \in BoundsOf(sDoc, DOMAIN sDoc.blocks) : ~Overlap(box, b)
<1> DEFINE existing == {sDoc.blocks[b].box : b \in DOMAIN sDoc.blocks}
           at == Wanted(i)
<1>1. existing \in SUBSET Bounds
  BY DEF WholeCanvas, WholeBlock
<1>2. BoundsOf(sDoc, DOMAIN sDoc.blocks) \subseteq existing
  BY DEF BoundsOf, WholeCanvas
<1>3. /\ at \in Bounds /\ at.x \in Int /\ at.w \in Nat /\ at.h \in Nat /\ PaddingOf(i) \in Nat
  BY InputsFit DEF Bounds
<1>4. CASE Given(i, "y") \/ existing = {}
  <2>1. box = at
    BY <1>4 DEF AutoStacked
  <2> QED
    BY <1>2, <1>3, <1>4, <2>1
<1>5. CASE ~(Given(i, "y") \/ existing = {})
  <2>1. PICK ref \in pickFurthestInDirection(existing, "down") :
          LET put == stackRelativeTo(ref, at.w, at.h, "down", PaddingOf(i))
          IN  box = IF Given(i, "x") THEN [put EXCEPT !.x = at.x] ELSE put
    BY <1>5 DEF AutoStacked
  <2> HIDE DEF existing, at
  <2>2. box \in Bounds /\ \A b \in existing : ~Overlap(box, b)
    <3>1. "down" \in {"down", "up", "right", "left"} /\ Vertical("down")
          /\ PaddingOf(i) \in Int /\ PaddingOf(i) >= 0
      BY <1>3 DEF Vertical
    <3>2. ref \in pickFurthestInDirection(existing, "down")
      OBVIOUS
    <3>3. LET put == stackRelativeTo(ref, at.w, at.h, "down", PaddingOf(i))
              Clear(made) == made \in Bounds /\ (PaddingOf(i) >= 0 => \A b \in existing : ~Overlap(made, b))
          IN  Clear(put) /\ Clear([put EXCEPT !.x = at.x])
      BY <1>1, <1>3, <3>1, <3>2, StackedClear
    <3> QED
      BY <2>1, <3>1, <3>3
  <2> QED
    BY <1>2, <2>2
<1> QED
  BY <1>4, <1>5

(* appendEdgelessBlock. *)
LEMMA BlockAppended ==
  ASSUME WholeCanvas(sDoc), ReferencesResolve(sDoc, sLoose), NEW c \in SurfaceCalls, c \notin MarksOf(sDoc),
         NEW i \in EdgelessInputs, NEW made \in AppendedEdgeless(sDoc, c, i)
  PROVE  /\ CanvasStep(made, c, sLoose)
         /\ HintKept(made, c,
              [kind |-> Promise(sDoc, i), block |-> c, kids |-> i.kids,
               clear |-> IF i.after # {} THEN i.after \cap DOMAIN sDoc.blocks ELSE DOMAIN sDoc.blocks])
<1> DEFINE kids == {k \in i.kids : Exists(sDoc, k)}
           wraps == BoundsOf(sDoc, i.kids) # {} /\ ~Wholly(i)
           hint == [kind |-> Promise(sDoc, i), block |-> c, kids |-> i.kids,
                    clear |-> IF i.after # {} THEN i.after \cap DOMAIN sDoc.blocks ELSE DOMAIN sDoc.blocks]
<1>1. PICK box \in resolveEdgelessLayoutHints(sDoc, i) :
        made = [sDoc EXCEPT !.blocks = MapSet(@, c, Edgeless(i.flavour, box, Owned(kids, c)))]
  BY DEF AppendedEdgeless
<1>2. BoundsOf(sDoc, kids) = BoundsOf(sDoc, i.kids)
  BY DEF BoundsOf
<1>3. c \notin DOMAIN sDoc.elements \cup DOMAIN sDoc.blocks /\ c \notin i.kids
  <2>1. c \notin DOMAIN sDoc.elements \cup DOMAIN sDoc.blocks
    BY DEF MarksOf
  <2> QED
    BY <2>1, InputsFit, SurfaceAssumption DEF Ids
<1> HIDE DEF kids
<1>4. /\ box \in Bounds
      /\ hint.kind \in {"automatic", "stacked"} => \A b \in BoundsOf(sDoc, hint.clear) : ~Overlap(box, b)
      /\ hint.kind = "fitted" => \A b \in BoundsOf(sDoc, i.kids) : Encloses(box, b)
      /\ hint.kind # "element"
  <2>0. hint.kind # "element"
    BY DEF Promise, Fitting
  <2>1. CASE wraps
    <3> DEFINE around == encloseBounds(BoundsOf(sDoc, i.kids), PaddingOf(i))
    <3>1. PICK put \in (IF i.after = {} THEN {Wanted(i)} ELSE StackedAfter(sDoc, i)) :
            box = Wrapped(i, put, around)
      BY <1>1, <1>2, <2>1 DEF resolveEdgelessLayoutHints, kids
    <3>2. /\ hint.kind \notin {"automatic", "stacked"}
          /\ hint.kind = "fitted" => PaddingOf(i) > 0 /\ \A f \in {"x", "y", "w", "h"} : ~Given(i, f)
      <4>1. Promise(sDoc, i) = IF \E f \in {"x", "y", "w", "h"} : Given(i, f) THEN "placed" ELSE Fitting(PaddingOf(i))
        BY <2>1 DEF Promise
      <4> QED
        BY <4>1 DEF Fitting
    <3>3. /\ around \in Bounds
          /\ PaddingOf(i) > 0 => \A b \in BoundsOf(sDoc, i.kids) : Encloses(around, b)
      BY <2>1, BoundsAreBounds, InputsFit, EnclosesAll
    <3>4. put \in Bounds
      BY <3>1, InputsFit, StackedAfterFits
    <3> HIDE DEF around, hint
    <3>5. /\ around = Bound(around.x, around.y, around.w, around.h)
          /\ around.x \in Int /\ around.y \in Int /\ around.w \in Nat /\ around.h \in Nat
          /\ put.x \in Int /\ put.y \in Int /\ put.w \in Nat /\ put.h \in Nat
      BY <3>3, <3>4 DEF Bounds, Bound
    <3>6. box \in Bounds
      BY <3>1, <3>5 DEF Wrapped, Bound, Bounds
    <3>7. (\A f \in {"x", "y", "w", "h"} : ~Given(i, f)) => box = around
      BY <3>1, <3>5 DEF Wrapped
    <3> QED
      BY <2>0, <3>2, <3>3, <3>6, <3>7
  <2>2. CASE ~wraps /\ i.after # {}
    <3>1. box \in StackedAfter(sDoc, i)
      BY <1>1, <1>2, <2>2 DEF resolveEdgelessLayoutHints, kids
    <3>2. /\ hint.clear = i.after \cap DOMAIN sDoc.blocks
          /\ hint.kind = IF StackGap(i) >= 0 THEN "stacked" ELSE "placed"
      BY <2>2 DEF Promise
    <3>3. BoundsOf(sDoc, hint.clear) \subseteq Anchors(sDoc, i)
      <4> HIDE DEF hint
      <4> QED
        BY <3>2 DEF BoundsOf, Anchors, WholeCanvas
    <3> HIDE DEF hint
    <3> QED
      BY <2>0, <3>1, <3>2, <3>3, StackedAfterFits
  <2>3. CASE ~wraps /\ i.after = {}
    <3>1. box \in AutoStacked(sDoc, i)
      BY <1>1, <1>2, <2>3 DEF resolveEdgelessLayoutHints, kids
    <3>2. /\ hint.clear = DOMAIN sDoc.blocks
          /\ hint.kind = IF Given(i, "y") THEN "placed" ELSE "automatic"
      BY <2>3 DEF Promise
    <3> HIDE DEF hint
    <3> QED
      BY <3>1, <3>2, AutoStackedFits
  <2> QED
    BY <2>1, <2>2, <2>3
<1>5. /\ made.elements = sDoc.elements /\ DOMAIN made.blocks = DOMAIN sDoc.blocks \cup {c}
      /\ made.blocks[c] = Edgeless(i.flavour, box, Owned(kids, c))
      /\ \A b \in DOMAIN sDoc.blocks : made.blocks[b] = sDoc.blocks[b]
      /\ made = [elements |-> made.elements, blocks |-> made.blocks]
      /\ made.blocks = [b \in DOMAIN made.blocks |-> made.blocks[b]]
  <2>1. made = [elements |-> sDoc.elements, blocks |-> MapSet(sDoc.blocks, c, Edgeless(i.flavour, box, Owned(kids, c)))]
    BY <1>1 DEF WholeCanvas
  <2> HIDE DEF hint
  <2> QED
    BY <1>3, <2>1 DEF MapSet
<1>6. /\ WholeBlock(made.blocks[c]) /\ made.blocks[c].box = box
      /\ made.blocks[c].owned.ids = kids /\ made.blocks[c].owned.map = c
  BY <1>4, <1>5 DEF WholeBlock, Edgeless, Owned
<1>7. WholeCanvas(made)
  <2>1. IsFiniteSet(DOMAIN sDoc.blocks \cup {c})
    BY FS_AddElement DEF WholeCanvas
  <2> QED
    BY <1>3, <1>5, <1>6, <2>1 DEF WholeCanvas
<1>8. ReferencesResolve(made, sLoose)
  <2>1. \A k : Exists(sDoc, k) => Exists(made, k)
    BY <1>5 DEF Exists
  <2> QED
    BY <1>5, <1>6, <2>1 DEF ReferencesResolve, kids
<1>9. MarksOf(made) \subseteq MarksOf(sDoc) \cup {c} /\ c \in MarksOf(made)
  <2>1. \A b \in DOMAIN sDoc.blocks : sDoc.blocks[b].owned.map \in MarksOf(sDoc)
    BY DEF MarksOf
  <2>2. \A b \in DOMAIN made.blocks : made.blocks[b].owned.map \in MarksOf(sDoc) \cup {c}
    BY <1>5, <1>6, <2>1
  <2>3. DOMAIN made.elements \cup DOMAIN made.blocks \subseteq MarksOf(sDoc) \cup {c}
    BY <1>5 DEF MarksOf
  <2>4. c \in MarksOf(made)
    BY <1>5 DEF MarksOf
  <2> QED
    BY <2>2, <2>3, <2>4 DEF MarksOf
<1>10. BoundsOf(made, hint.clear) = BoundsOf(sDoc, hint.clear) /\ BoundsOf(made, i.kids) = BoundsOf(sDoc, i.kids)
  <2>1. c \notin hint.clear
    BY <1>3
  <2> HIDE DEF hint
  <2> QED
    BY <1>3, <1>5, <2>1, SameBounds
<1>11. HintHonoured(made, c, hint)
  <2>1. hint.block = c /\ hint.kids = i.kids
    OBVIOUS
  <2> HIDE DEF hint
  <2> QED
    BY <1>4, <1>6, <1>10, <2>1 DEF HintHonoured
<1> QED
  BY <1>7, <1>8, <1>9, <1>11 DEF CanvasStep, HintKept

-----------------------------------------------------------------------------
(* Merged into the canvas it was made from, an update gives what was made. *)
LEMMA SurfaceMergesInPlace ==
  ASSUME NEW base, NEW made, WholeCanvas(base), WholeCanvas(made)
  PROVE  SurfaceMerge(base, base, made) = made
<1>1. ASSUME NEW b, NEW m, b = Owned(b.ids, b.map), m = Owned(m.ids, m.map)
      PROVE  MergedOwned(b, b, m) = m
  <2>1. CASE m.map # b.map
    BY <2>1 DEF MergedOwned
  <2>2. CASE m.map = b.map
    <3>1. MergedOwned(b, b, m) = Owned(MergedSet(b.ids, b.ids, m.ids), b.map)
      BY <2>2 DEF MergedOwned
    <3>2. MergedSet(b.ids, b.ids, m.ids) = m.ids
      BY DEF MergedSet
    <3> QED
      BY <1>1, <2>2, <3>1, <3>2
  <2> QED
    BY <2>1, <2>2
<1>2. ASSUME NEW b, NEW m, WholeElement(b), WholeElement(m)
      PROVE  MergedThing(b, b, m) = m
  <2>1. MergedOwned(b.owned, b.owned, m.owned) = m.owned
    BY <1>1, <1>2 DEF WholeElement
  <2>2. /\ b = [type |-> b.type, index |-> b.index, box |-> b.box, ends |-> b.ends, owned |-> b.owned]
        /\ m = [type |-> m.type, index |-> m.index, box |-> m.box, ends |-> m.ends, owned |-> m.owned]
    BY <1>2 DEF WholeElement, Element
  <2>3. MergedThing(b, b, m) =
          [f \in {"type", "index", "box", "ends", "owned"} |->
             IF f = "owned" THEN m.owned ELSE IF m[f] # b[f] THEN m[f] ELSE b[f]]
    BY <2>1, <2>2 DEF MergedThing
  <2> QED
    BY <2>2, <2>3
<1>3. ASSUME NEW b, NEW m, WholeBlock(b), WholeBlock(m)
      PROVE  MergedThing(b, b, m) = m
  <2>1. MergedOwned(b.owned, b.owned, m.owned) = m.owned
    BY <1>1, <1>3 DEF WholeBlock
  <2>2. /\ b = [flavour |-> b.flavour, box |-> b.box, owned |-> b.owned]
        /\ m = [flavour |-> m.flavour, box |-> m.box, owned |-> m.owned]
    BY <1>3 DEF WholeBlock, Edgeless
  <2>3. MergedThing(b, b, m) =
          [f \in {"flavour", "box", "owned"} |->
             IF f = "owned" THEN m.owned ELSE IF m[f] # b[f] THEN m[f] ELSE b[f]]
    BY <2>1, <2>2 DEF MergedThing
  <2> QED
    BY <2>2, <2>3
<1>4. ASSUME NEW b, NEW m, m = [i \in DOMAIN m |-> m[i]],
             \A i \in DOMAIN b \cap DOMAIN m : MergedThing(b[i], b[i], m[i]) = m[i]
      PROVE  MergedThings(b, b, m) = m
  BY <1>4 DEF MergedThings
<1>5. MergedThings(base.elements, base.elements, made.elements) = made.elements
  <2>1. \A i \in DOMAIN base.elements \cap DOMAIN made.elements :
          WholeElement(base.elements[i]) /\ WholeElement(made.elements[i])
    BY DEF WholeCanvas
  <2>2. made.elements = [i \in DOMAIN made.elements |-> made.elements[i]]
    BY DEF WholeCanvas
  <2> QED
    BY <1>2, <1>4, <2>1, <2>2
<1>6. MergedThings(base.blocks, base.blocks, made.blocks) = made.blocks
  <2>1. \A i \in DOMAIN base.blocks \cap DOMAIN made.blocks :
          WholeBlock(base.blocks[i]) /\ WholeBlock(made.blocks[i])
    BY DEF WholeCanvas
  <2>2. made.blocks = [i \in DOMAIN made.blocks |-> made.blocks[i]]
    BY DEF WholeCanvas
  <2> QED
    BY <1>3, <1>4, <2>1, <2>2
<1>7. /\ made = [elements |-> made.elements, blocks |-> made.blocks]
      /\ DOMAIN base = {"elements", "blocks"}
  <2>1. base = [elements |-> base.elements, blocks |-> base.blocks]
    BY DEF WholeCanvas
  <2> QED
    BY <2>1 DEF WholeCanvas
<1>8. SurfaceMerge(base, base, made)
        = [f \in {"elements", "blocks"} |-> MergedThings(base[f], base[f], made[f])]
  BY <1>7 DEF SurfaceMerge
<1> QED
  BY <1>5, <1>6, <1>7, <1>8

-----------------------------------------------------------------------------
(* As long as every update is merged into the canvas it was made from, it  *)
(* gives just what was made; a call that wrote has left its mark, so that  *)
(* an update computed without it is not merged any more.                   *)
CanvasLanded == {c \in SurfaceCalls : sPhase[c] \in {"merged", "late"}}
Awaited == {c \in SurfaceCalls : sPhase[c] \in {"sent", "lost"}}
SurfacePhases == {"idle", "sent", "merged", "refused", "lost", "late"}

MarkedBy(d, calls) == MarksOf(d) \cap SurfaceCalls \subseteq calls
CanvasUpdateFits(c) ==
  /\ WholeCanvas(sUpdate[c].base) /\ MarkedBy(sUpdate[c].base, CanvasLanded)
  /\ WholeCanvas(sUpdate[c].made) /\ ReferencesResolve(sUpdate[c].made, sLoose)
  /\ MarkedBy(sUpdate[c].made, CanvasLanded \cup {c})
  /\ \A a \in sUpdate[c].asked : HintKept(sUpdate[c].made, c, a)

OneCanvasAtWork ==
  \A c \in SurfaceCalls : \A o \in SurfaceCalls \ {c} : sPhase[c] = "sent" =>
    sPhase[o] # "sent" /\ (sPhase[o] = "merged" => sUpdate[o].asked = {})

CanvasInOrder ==
  /\ WholeCanvas(sDoc) /\ ReferencesResolve(sDoc, sLoose) /\ MarkedBy(sDoc, CanvasLanded)
  /\ \A c \in Awaited : CanvasUpdateFits(c)
  /\ \A c \in SurfaceCalls : sPhase[c] = "merged" => \A a \in sUpdate[c].asked : HintKept(sDoc, c, a)
  /\ \A c \in SurfaceCalls : \A o \in Awaited \ {c} :
       sPhase[c] \in {"sent", "merged"} /\ sUpdate[c].asked # {} => c \notin MarksOf(sUpdate[o].base)

SurfaceInv ==
  /\ sPhase \in [SurfaceCalls -> SurfacePhases]
  /\ DOMAIN sUpdate = SurfaceCalls
  /\ sStale \in BOOLEAN
  /\ OneCanvasAtWork
  /\ ~sStale => CanvasInOrder

(* The invariant holds of the canvas the calls start from. *)
LEMMA SurfaceStarts == SurfaceInit => SurfaceInv
<1> SUFFICES ASSUME SurfaceInit PROVE SurfaceInv
  OBVIOUS
<1>1. /\ sDoc = Canvas /\ sLoose = {} /\ sStale = FALSE
      /\ sPhase = [c \in SurfaceCalls |-> "idle"]
      /\ DOMAIN sUpdate = SurfaceCalls
  BY DEF SurfaceInit, SU!UpdatesInit
<1>2. WholeCanvas(sDoc) /\ ReferencesResolve(sDoc, sLoose) /\ MarkedBy(sDoc, CanvasLanded)
  BY <1>1, SurfaceAssumption DEF MarkedBy
<1> QED
  BY <1>1, <1>2 DEF SurfaceInv, OneCanvasAtWork, CanvasInOrder, Awaited, SurfacePhases

(* What resolves still does when more ids are loose. *)
LEMMA StillResolves ==
  ASSUME NEW d, NEW loose, NEW more, loose \subseteq more, ReferencesResolve(d, loose)
  PROVE  ReferencesResolve(d, more)
BY DEF ReferencesResolve

(* A handler that makes a canvas fit, or throws, keeps the invariant.      *)
LEMMA SurfaceHandlerKeeps ==
  ASSUME SurfaceInv, NEW c \in SurfaceCalls, NEW results, NEW asked, SU!Handled(c, results, asked),
         sLoose \subseteq sLoose',
         \A made \in results :
           /\ WholeCanvas(sDoc) /\ ReferencesResolve(sDoc, sLoose) /\ c \notin MarksOf(sDoc)
           => CanvasStep(made, c, sLoose') /\ \A a \in asked : HintKept(made, c, a)
  PROVE  SurfaceInv'
<1>1. /\ sPhase[c] = "idle" /\ \A o \in SurfaceCalls : sPhase[o] # "sent"
      /\ sDoc' = sDoc /\ sStale' = sStale
      /\ sPhase \in [SurfaceCalls -> SurfacePhases] /\ DOMAIN sUpdate = SurfaceCalls /\ sStale \in BOOLEAN
      /\ ~sStale => CanvasInOrder
  BY DEF SU!Handled, SurfaceInv
<1>2. CASE sPhase' = [sPhase EXCEPT ![c] = "refused"] /\ sUpdate' = sUpdate
  <2>1. /\ sPhase' \in [SurfaceCalls -> SurfacePhases] /\ DOMAIN sUpdate' = SurfaceCalls
        /\ \A o \in SurfaceCalls : sPhase'[o] = IF o = c THEN "refused" ELSE sPhase[o]
    BY <1>1, <1>2 DEF SurfacePhases
  <2>2. CanvasLanded' = CanvasLanded /\ Awaited' = Awaited
    BY <1>1, <2>1 DEF CanvasLanded, Awaited
  <2>3. OneCanvasAtWork'
    BY <1>1, <2>1 DEF OneCanvasAtWork
  <2>4. ASSUME ~sStale PROVE CanvasInOrder'
    <3>1. CanvasInOrder
      BY <1>1, <2>4
    <3>2. ReferencesResolve(sDoc, sLoose')
      BY <3>1, StillResolves DEF CanvasInOrder
    <3>3. ASSUME NEW o \in Awaited PROVE CanvasUpdateFits(o)'
      <4>1. CanvasUpdateFits(o)
        BY <3>1 DEF CanvasInOrder
      <4>2. ReferencesResolve(sUpdate[o].made, sLoose')
        BY <4>1, StillResolves DEF CanvasUpdateFits
      <4> QED
        BY <1>2, <2>2, <4>1, <4>2 DEF CanvasUpdateFits
    <3>4. \A o \in SurfaceCalls : sPhase'[o] \in {"sent", "merged"} => sPhase[o] \in {"sent", "merged"}
                                  /\ (sPhase'[o] = "merged" => sPhase[o] = "merged")
      BY <2>1
    <3>5. WholeCanvas(sDoc) /\ MarkedBy(sDoc, CanvasLanded)
      BY <3>1 DEF CanvasInOrder
    <3>6. \A o \in SurfaceCalls : sPhase'[o] = "merged" => \A a \in sUpdate[o].asked : HintKept(sDoc, o, a)
      BY <3>1, <3>4 DEF CanvasInOrder
    <3>7. \A k \in SurfaceCalls : \A o \in Awaited \ {k} :
            sPhase'[k] \in {"sent", "merged"} /\ sUpdate[k].asked # {} => k \notin MarksOf(sUpdate[o].base)
      BY <3>1, <3>4 DEF CanvasInOrder
    <3> QED
      BY <1>1, <1>2, <2>2, <3>2, <3>3, <3>5, <3>6, <3>7 DEF CanvasInOrder
  <2> QED
    BY <1>1, <2>1, <2>3, <2>4 DEF SurfaceInv
<1>3. ASSUME NEW r \in results, sPhase' = [sPhase EXCEPT ![c] = "sent"],
             sUpdate' = [o \in SurfaceCalls |->
                IF o = c THEN [base |-> sDoc, made |-> r, asked |-> asked]
                ELSE IF sPhase[o] = "lost" THEN sUpdate[o] ELSE SU!Nothing]
      PROVE  SurfaceInv'
  <2>1. /\ sPhase' \in [SurfaceCalls -> SurfacePhases] /\ DOMAIN sUpdate' = SurfaceCalls
        /\ \A o \in SurfaceCalls : sPhase'[o] = IF o = c THEN "sent" ELSE sPhase[o]
    BY <1>1, <1>3 DEF SurfacePhases
  <2>2. /\ sUpdate'[c].base = sDoc /\ sUpdate'[c].made = r /\ sUpdate'[c].asked = asked
        /\ \A o \in SurfaceCalls \ {c} : sPhase[o] = "lost" => sUpdate'[o] = sUpdate[o]
        /\ \A o \in SurfaceCalls \ {c} : sPhase[o] # "lost" => sUpdate'[o].asked = {}
    BY <1>3 DEF SU!Nothing
  <2>3. CanvasLanded' = CanvasLanded /\ Awaited' = Awaited \cup {c} /\ c \notin Awaited \cup CanvasLanded
        /\ \A o \in Awaited : sPhase[o] = "lost"
    BY <1>1, <2>1 DEF CanvasLanded, Awaited
  <2>4. OneCanvasAtWork'
    BY <1>1, <2>1, <2>2 DEF OneCanvasAtWork
  <2>5. ASSUME ~sStale PROVE CanvasInOrder'
    <3>1. CanvasInOrder
      BY <1>1, <2>5
    <3>2. WholeCanvas(sDoc) /\ ReferencesResolve(sDoc, sLoose) /\ MarkedBy(sDoc, CanvasLanded) /\ c \notin MarksOf(sDoc)
      BY <2>3, <3>1 DEF CanvasInOrder, MarkedBy
    <3>3. CanvasStep(r, c, sLoose') /\ \A a \in asked : HintKept(r, c, a)
      BY <3>2
    <3>4. ReferencesResolve(sDoc, sLoose')
      BY <3>2, StillResolves
    <3>5. CanvasUpdateFits(c)'
      <4>1. MarkedBy(r, CanvasLanded \cup {c})
        BY <3>2, <3>3 DEF CanvasStep, MarkedBy
      <4>2. WholeCanvas(r) /\ ReferencesResolve(r, sLoose')
        BY <3>3 DEF CanvasStep
      <4> QED
        BY <2>2, <2>3, <3>2, <3>3, <4>1, <4>2 DEF CanvasUpdateFits
    <3>6. ASSUME NEW o \in Awaited PROVE CanvasUpdateFits(o)' /\ sUpdate'[o] = sUpdate[o] /\ c \notin MarksOf(sUpdate[o].base)
      <4>1. CanvasUpdateFits(o)
        BY <3>1 DEF CanvasInOrder
      <4>2. o \in SurfaceCalls \ {c} /\ sUpdate'[o] = sUpdate[o]
        BY <2>2, <2>3 DEF Awaited
      <4>3. ReferencesResolve(sUpdate[o].made, sLoose')
        BY <4>1, StillResolves DEF CanvasUpdateFits
      <4>4. c \notin MarksOf(sUpdate[o].base)
        BY <2>3, <4>1 DEF CanvasUpdateFits, MarkedBy
      <4> QED
        BY <2>3, <4>1, <4>2, <4>3, <4>4 DEF CanvasUpdateFits
    <3>7. \A o \in SurfaceCalls : sPhase'[o] = "merged" => sUpdate'[o].asked = {}
      BY <2>1, <2>2
    <3>8. ASSUME NEW k \in SurfaceCalls, NEW o \in Awaited' \ {k}, sPhase'[k] \in {"sent", "merged"},
                 sUpdate'[k].asked # {}
          PROVE  k \notin MarksOf(sUpdate'[o].base)
      <4>1. k = c
        BY <1>1, <2>1, <3>7, <3>8
      <4>2. o \in Awaited
        BY <2>3, <3>8, <4>1
      <4> QED
        BY <3>6, <4>1, <4>2
    <3> QED
      BY <1>1, <2>3, <3>2, <3>4, <3>5, <3>6, <3>7, <3>8 DEF CanvasInOrder
  <2> QED
    BY <1>1, <2>1, <2>4, <2>5 DEF SurfaceInv
<1> QED
  BY <1>2, <1>3 DEF SU!Handled

(* Merges and lost acknowledgements keep the invariant. *)
LEMMA SurfaceMergeKeeps ==
  ASSUME SurfaceInv, NEW c \in SurfaceCalls, SU!MergeUpdate(c), UNCHANGED sLoose
  PROVE  SurfaceInv'
<1>1. /\ c \in Awaited /\ sPhase[c] \in {"sent", "lost"} /\ sUpdate' = sUpdate /\ sLoose' = sLoose
      /\ sDoc' = SurfaceMerge(sDoc, sUpdate[c].base, sUpdate[c].made)
      /\ sStale' = (sStale \/ sDoc # sUpdate[c].base)
      /\ sPhase \in [SurfaceCalls -> SurfacePhases] /\ DOMAIN sUpdate = SurfaceCalls /\ sStale \in BOOLEAN
      /\ OneCanvasAtWork
  BY DEF SU!MergeUpdate, SurfaceInv, Awaited
<1>2. /\ sPhase' \in [SurfaceCalls -> SurfacePhases]
      /\ \A o \in SurfaceCalls : sPhase'[o] = IF o # c THEN sPhase[o]
                                              ELSE IF sPhase[c] = "sent" THEN "merged" ELSE "late"
  BY <1>1 DEF SU!MergeUpdate, SurfacePhases
<1>3. CanvasLanded' = CanvasLanded \cup {c} /\ Awaited' = Awaited \ {c}
  BY <1>1, <1>2 DEF CanvasLanded, Awaited
<1>4. OneCanvasAtWork'
  BY <1>1, <1>2 DEF OneCanvasAtWork
<1>5. sStale' \in BOOLEAN
  BY <1>1
<1>6. ASSUME ~sStale' PROVE CanvasInOrder'
  <2>1. sDoc = sUpdate[c].base /\ CanvasInOrder
    BY <1>1, <1>6 DEF SurfaceInv
  <2>2. CanvasUpdateFits(c) /\ WholeCanvas(sDoc)
    BY <1>1, <2>1 DEF CanvasInOrder
  <2>3. sDoc' = sUpdate[c].made
    BY <1>1, <2>1, <2>2, SurfaceMergesInPlace DEF CanvasUpdateFits
  <2>4. ASSUME NEW o \in SurfaceCalls, sPhase'[o] = "merged", NEW a \in sUpdate[o].asked
        PROVE  HintKept(sUpdate[c].made, o, a)
    <3>1. CASE o = c
      BY <2>2, <2>4, <3>1 DEF CanvasUpdateFits
    <3>2. CASE o # c
      <4>1. sPhase[o] = "merged"
        BY <1>2, <2>4, <3>2
      <4>2. sPhase[c] # "sent"
        BY <1>1, <2>4, <3>2, <4>1 DEF OneCanvasAtWork
      <4>3. o \in MarksOf(sDoc)
        BY <2>1, <2>4, <4>1 DEF CanvasInOrder, HintKept
      <4>4. o \notin MarksOf(sUpdate[c].base)
        BY <1>1, <2>1, <2>4, <3>2, <4>1 DEF CanvasInOrder
      <4> QED
        BY <2>1, <4>3, <4>4
    <3> QED
      BY <3>1, <3>2
  <2>5. ASSUME NEW o \in Awaited \ {c} PROVE CanvasUpdateFits(o)'
    <3>1. CanvasUpdateFits(o)
      BY <2>1 DEF CanvasInOrder
    <3> QED
      BY <1>1, <1>3, <3>1 DEF CanvasUpdateFits, MarkedBy
  <2>6. ASSUME NEW k \in SurfaceCalls, NEW o \in (Awaited \ {c}) \ {k}, sPhase'[k] \in {"sent", "merged"},
               sUpdate[k].asked # {}
        PROVE  k \notin MarksOf(sUpdate[o].base)
    <3>1. CASE sPhase[k] \in {"sent", "merged"}
      BY <2>1, <2>6, <3>1 DEF CanvasInOrder
    <3>2. CASE sPhase[k] \notin {"sent", "merged"}
      BY <1>2, <2>6, <3>2
    <3> QED
      BY <3>1, <3>2
  <2>7. WholeCanvas(sDoc') /\ ReferencesResolve(sDoc', sLoose') /\ MarkedBy(sDoc', CanvasLanded')
    BY <1>1, <1>3, <2>2, <2>3 DEF CanvasUpdateFits
  <2>8. \A o \in SurfaceCalls : sPhase'[o] = "merged" => \A a \in sUpdate'[o].asked : HintKept(sDoc', o, a)
    BY <1>1, <2>3, <2>4
  <2>9. \A o \in Awaited' : CanvasUpdateFits(o)'
    BY <1>3, <2>5
  <2>10. \A k \in SurfaceCalls : \A o \in Awaited' \ {k} :
           sPhase'[k] \in {"sent", "merged"} /\ sUpdate'[k].asked # {} => k \notin MarksOf(sUpdate'[o].base)
    BY <1>1, <1>3, <2>6
  <2> QED
    BY <2>7, <2>8, <2>9, <2>10 DEF CanvasInOrder
<1> QED
  BY <1>1, <1>2, <1>4, <1>5, <1>6 DEF SurfaceInv

(* A lost acknowledgement only makes its update a late one. *)
LEMMA SurfaceLossKeeps ==
  ASSUME SurfaceInv, NEW c \in SurfaceCalls, SU!LoseAck(c), UNCHANGED sLoose
  PROVE  SurfaceInv'
<1>1. /\ sPhase[c] = "sent" /\ sUpdate' = sUpdate /\ sLoose' = sLoose /\ sDoc' = sDoc /\ sStale' = sStale
      /\ sPhase \in [SurfaceCalls -> SurfacePhases] /\ DOMAIN sUpdate = SurfaceCalls /\ sStale \in BOOLEAN
      /\ OneCanvasAtWork
  BY DEF SU!LoseAck, SurfaceInv
<1>2. /\ sPhase' \in [SurfaceCalls -> SurfacePhases]
      /\ \A o \in SurfaceCalls : sPhase'[o] = IF o = c THEN "lost" ELSE sPhase[o]
  BY <1>1 DEF SU!LoseAck, SurfacePhases
<1>3. CanvasLanded' = CanvasLanded /\ Awaited' = Awaited
  BY <1>1, <1>2 DEF CanvasLanded, Awaited
<1>4. OneCanvasAtWork'
  BY <1>1, <1>2 DEF OneCanvasAtWork
<1>5. ASSUME ~sStale PROVE CanvasInOrder'
  <2>1. CanvasInOrder
    BY <1>5 DEF SurfaceInv
  <2>2. \A o \in Awaited : CanvasUpdateFits(o)'
    BY <1>1, <1>3, <2>1 DEF CanvasInOrder, CanvasUpdateFits
  <2>3. \A k \in SurfaceCalls : sPhase'[k] \in {"sent", "merged"} => sPhase[k] \in {"sent", "merged"}
                                /\ (sPhase'[k] = "merged" => sPhase[k] = "merged")
    BY <1>2
  <2>4. \A o \in SurfaceCalls : sPhase'[o] = "merged" => \A a \in sUpdate[o].asked : HintKept(sDoc, o, a)
    BY <2>1, <2>3 DEF CanvasInOrder
  <2>5. \A k \in SurfaceCalls : \A o \in Awaited \ {k} :
          sPhase'[k] \in {"sent", "merged"} /\ sUpdate[k].asked # {} => k \notin MarksOf(sUpdate[o].base)
    BY <2>1, <2>3 DEF CanvasInOrder
  <2>6. WholeCanvas(sDoc) /\ ReferencesResolve(sDoc, sLoose) /\ MarkedBy(sDoc, CanvasLanded)
    BY <2>1 DEF CanvasInOrder
  <2> QED
    BY <1>1, <1>3, <2>2, <2>4, <2>5, <2>6 DEF CanvasInOrder
<1> QED
  BY <1>1, <1>2, <1>4, <1>5 DEF SurfaceInv

(* Every step of the calls on a canvas keeps the invariant. *)
LEMMA SurfaceNextKeeps == SurfaceInv /\ [SurfaceNext]_surfaceVars => SurfaceInv'
<1> SUFFICES ASSUME SurfaceInv, [SurfaceNext]_surfaceVars PROVE SurfaceInv'
  OBVIOUS
<1>1. ASSUME NEW c \in SurfaceCalls, addSurfaceElement(c) PROVE SurfaceInv'
  <2>1. PICK i \in ElementInputs :
          /\ SU!Handled(c, {[sDoc EXCEPT !.elements = MapSet(@, c, buildSurfaceElementData(sDoc, c, i))]},
                        {[kind |-> "element"]})
          /\ sLoose' = IF i.type = "connector" THEN sLoose \cup ({i.from, i.to} \cap {Missing}) ELSE sLoose
    BY <1>1 DEF addSurfaceElement
  <2>2. sLoose \subseteq sLoose'
    BY <2>1
  <2>3. ASSUME WholeCanvas(sDoc), ReferencesResolve(sDoc, sLoose), c \notin MarksOf(sDoc)
        PROVE  LET made == [sDoc EXCEPT !.elements = MapSet(@, c, buildSurfaceElementData(sDoc, c, i))]
               IN  CanvasStep(made, c, sLoose') /\ HintKept(made, c, [kind |-> "element"])
    BY <2>1, <2>3, ElementAdded
  <2> QED
    BY <2>1, <2>2, <2>3, SurfaceHandlerKeeps
<1>2. ASSUME NEW c \in SurfaceCalls, updateSurfaceElement(c) PROVE SurfaceInv'
  <2>1. PICK e \in DOMAIN sDoc.elements, field \in DOMAIN Applicable :
          \E v \in CASE field = "x" -> Spots [] field = "index" -> {0}
                     [] field \in {"sourceId", "targetId"} -> Ids
                     [] field = "children" -> {{}, {Missing}} [] OTHER -> {None} :
             /\ SU!Handled(c, UpdatedElement(sDoc, c, e, field, v), {})
             /\ sLoose' = IF field \in {"sourceId", "targetId"} THEN sLoose \cup ({v} \cap {Missing}) ELSE sLoose
    BY <1>2 DEF updateSurfaceElement
  <2>2. PICK v : /\ field = "x" => v \in Spots
                 /\ field = "index" => v \in {0}
                 /\ field \in {"sourceId", "targetId"} => v \in Ids
                 /\ SU!Handled(c, UpdatedElement(sDoc, c, e, field, v), {})
                 /\ sLoose' = IF field \in {"sourceId", "targetId"} THEN sLoose \cup ({v} \cap {Missing})
                              ELSE sLoose
    BY <2>1
  <2>3. sLoose \subseteq sLoose'
    BY <2>2
  <2>4. ASSUME WholeCanvas(sDoc), ReferencesResolve(sDoc, sLoose),
               NEW made \in UpdatedElement(sDoc, c, e, field, v)
        PROVE  CanvasStep(made, c, sLoose')
    BY <2>2, <2>4, ElementUpdated
  <2> QED
    BY <2>2, <2>3, <2>4, SurfaceHandlerKeeps
<1>3. ASSUME NEW c \in SurfaceCalls, NEW id, NEW pruneConnectors \in BOOLEAN, NEW results,
             results \subseteq {Without(sDoc, id, pruneConnectors)}, SU!Handled(c, results, {}),
             sLoose' = sLoose \cup IF pruneConnectors THEN ConnectorsOf(sDoc, id) ELSE {id}
      PROVE  SurfaceInv'
  <2>1. ASSUME WholeCanvas(sDoc), ReferencesResolve(sDoc, sLoose), NEW made \in results
        PROVE  CanvasStep(made, c, sLoose')
    BY <1>3, <2>1, ThingDeleted
  <2>2. sLoose \subseteq sLoose'
    BY <1>3
  <2> QED
    BY <1>3, <2>1, <2>2, SurfaceHandlerKeeps
<1>4. ASSUME NEW c \in SurfaceCalls, deleteSurfaceElement(c) PROVE SurfaceInv'
  <2>1. PICK e \in DOMAIN sDoc.elements \cup {Missing}, pruneConnectors \in BOOLEAN :
          /\ SU!Handled(c, IF e \in DOMAIN sDoc.elements THEN {Without(sDoc, e, pruneConnectors)} ELSE {}, {})
          /\ sLoose' = sLoose \cup IF pruneConnectors THEN ConnectorsOf(sDoc, e) ELSE {e}
    BY <1>4 DEF deleteSurfaceElement
  <2>2. (IF e \in DOMAIN sDoc.elements THEN {Without(sDoc, e, pruneConnectors)} ELSE {})
          \subseteq {Without(sDoc, e, pruneConnectors)}
    OBVIOUS
  <2> QED
    BY <1>3, <2>1, <2>2
<1>5. ASSUME NEW c \in SurfaceCalls, deleteEdgelessBlock(c) PROVE SurfaceInv'
  <2>1. PICK b \in DOMAIN sDoc.blocks, pruneConnectors \in BOOLEAN :
          /\ SU!Handled(c, {Without(sDoc, b, pruneConnectors)}, {})
          /\ sLoose' = sLoose \cup IF pruneConnectors THEN ConnectorsOf(sDoc, b) ELSE {b}
    BY <1>5 DEF deleteEdgelessBlock
  <2> QED
    BY <1>3, <2>1
<1>6. ASSUME NEW c \in SurfaceCalls, appendEdgelessBlock(c) PROVE SurfaceInv'
  <2> DEFINE Hint(i) ==
        [kind |-> Promise(sDoc, i), block |-> c, kids |-> i.kids,
         clear |-> IF i.after # {} THEN i.after \cap DOMAIN sDoc.blocks ELSE DOMAIN sDoc.blocks]
  <2>1. PICK i \in EdgelessInputs : SU!Handled(c, AppendedEdgeless(sDoc, c, i), {Hint(i)})
    BY <1>6 DEF appendEdgelessBlock
  <2>2. ASSUME WholeCanvas(sDoc), ReferencesResolve(sDoc, sLoose), c \notin MarksOf(sDoc),
               NEW made \in AppendedEdgeless(sDoc, c, i)
        PROVE  CanvasStep(made, c, sLoose) /\ HintKept(made, c, Hint(i))
    BY <2>1, <2>2, BlockAppended
  <2>3. sLoose' = sLoose
    BY <1>6 DEF appendEdgelessBlock
  <2> HIDE DEF Hint
  <2>4. \A made \in AppendedEdgeless(sDoc, c, i) :
           /\ WholeCanvas(sDoc) /\ ReferencesResolve(sDoc, sLoose) /\ c \notin MarksOf(sDoc)
           => CanvasStep(made, c, sLoose') /\ \A a \in {Hint(i)} : HintKept(made, c, a)
    BY <2>2, <2>3
  <2> QED
    BY <2>1, <2>3, <2>4, SurfaceHandlerKeeps
<1>7. ASSUME NEW c \in SurfaceCalls, updateFrameChildren(c) PROVE SurfaceInv'
  <2> DEFINE Hint(f, ids, resizeToFit, padding) ==
        [kind |-> IF resizeToFit THEN Fitting(padding) ELSE "placed", block |-> f, clear |-> {}, kids |-> ids]
  <2>1. PICK f \in DOMAIN sDoc.blocks, ids \in {{}, Ids} \cup {{i} : i \in Ids}, resizeToFit \in BOOLEAN,
             padding \in Paddings :
          SU!Handled(c, UpdatedFrame(sDoc, c, f, ids, resizeToFit, padding), {Hint(f, ids, resizeToFit, padding)})
    BY <1>7 DEF updateFrameChildren
  <2>2. ASSUME WholeCanvas(sDoc), ReferencesResolve(sDoc, sLoose),
               NEW made \in UpdatedFrame(sDoc, c, f, ids, resizeToFit, padding)
        PROVE  CanvasStep(made, c, sLoose) /\ HintKept(made, c, Hint(f, ids, resizeToFit, padding))
    BY <2>2, FrameUpdated
  <2>3. sLoose' = sLoose
    BY <1>7 DEF updateFrameChildren
  <2> HIDE DEF Hint
  <2>4. \A made \in UpdatedFrame(sDoc, c, f, ids, resizeToFit, padding) :
           /\ WholeCanvas(sDoc) /\ ReferencesResolve(sDoc, sLoose) /\ c \notin MarksOf(sDoc)
           => CanvasStep(made, c, sLoose') /\ \A a \in {Hint(f, ids, resizeToFit, padding)} : HintKept(made, c, a)
    BY <2>2, <2>3
  <2> QED
    BY <2>1, <2>3, <2>4, SurfaceHandlerKeeps
<1>8. ASSUME NEW c \in SurfaceCalls, updateEdgelessBlock(c) PROVE SurfaceInv'
  <2>1. PICK b \in DOMAIN sDoc.blocks, box \in Spots : SU!Handled(c, {[sDoc EXCEPT !.blocks[b].box = box]}, {})
    BY <1>8 DEF updateEdgelessBlock
  <2>2. sLoose' = sLoose
    BY <1>8 DEF updateEdgelessBlock
  <2>3. ASSUME WholeCanvas(sDoc), ReferencesResolve(sDoc, sLoose)
        PROVE  CanvasStep([sDoc EXCEPT !.blocks[b].box = box], c, sLoose')
    BY <2>2, <2>3, BlockMoved
  <2> QED
    BY <2>1, <2>2, <2>3, SurfaceHandlerKeeps
<1>9. ASSUME NEW c \in SurfaceCalls, (SU!MergeUpdate(c) \/ SU!LoseAck(c)) /\ UNCHANGED sLoose PROVE SurfaceInv'
  BY <1>9, SurfaceMergeKeeps, SurfaceLossKeeps
<1>10. CASE SU!UpdatesDone /\ UNCHANGED sLoose
  BY <1>10 DEF SU!UpdatesDone, SurfaceInv, OneCanvasAtWork, CanvasInOrder, CanvasUpdateFits, MarkedBy, CanvasLanded, Awaited
<1>11. CASE UNCHANGED surfaceVars
  BY <1>11 DEF surfaceVars, SurfaceInv, OneCanvasAtWork, CanvasInOrder, CanvasUpdateFits, MarkedBy, CanvasLanded, Awaited
<1> QED
  BY <1>1, <1>2, <1>4, <1>5, <1>6, <1>7, <1>8, <1>9, <1>10, <1>11 DEF SurfaceNext

(* The invariant of the edgeless canvas. *)
THEOREM SurfaceSafety == SurfaceSpec => []SurfaceInv
BY SurfaceStarts, SurfaceNextKeeps, PTL DEF SurfaceSpec

(* While every update is merged into the canvas it was computed from,      *)
(* frames own only what exists, and a connector ends only at what exists,  *)
(* but for the ids a caller let hang.                                      *)
THEOREM ReferencesHold == SurfaceSpec => []SurfaceReferencesResolve
<1>1. SurfaceInv => SurfaceReferencesResolve
  BY DEF SurfaceInv, CanvasInOrder, SurfaceReferencesResolve
<1> QED
  BY <1>1, SurfaceSafety, PTL

(* What a call asked of where its block or element lies, it gets, however  *)
(* many blocks there are and wherever they lie: a stacked block clears its *)
(* anchors, a fitted frame holds its children, and a connector leaves and  *)
(* enters on sides that face each other.                                   *)
THEOREM LayoutHintsHold == SurfaceSpec => []LayoutHintsHonoured
<1>1. SurfaceInv => LayoutHintsHonoured
  BY DEF SurfaceInv, CanvasInOrder, HintKept, LayoutHintsHonoured
<1> QED
  BY <1>1, SurfaceSafety, PTL

-----------------------------------------------------------------------------
(***************************************************************************)
(* Tables.                                                                 *)
(***************************************************************************)

(* An update that leaves a list as it was leaves the list it meets.        *)
LEMMA MergesNothing ==
  ASSUME NEW S, NEW now \in Seq(S), Ordered(now, now), NEW base, Len(base) \in Nat,
         DOMAIN base = 1..Len(base)
  PROVE  MergedList(now, base, base) = now
<1>1. PICK f : /\ MergedList(now, base, base) = f[Len(base)]
               /\ f[0] = WithoutItems(now, Range(base) \ Range(base))
               /\ \A i \in 1..Len(base) :
                    f[i] = IF base[i] \in Range(base) \cup Range(f[i - 1]) THEN f[i - 1]
                           ELSE InsertAt(f[i - 1], PlaceFor(f[i - 1], base, i), base[i])
  BY InsertedStepByStep
<1>2. \A i \in 1..Len(base) : base[i] \in Range(base)
  BY DEF Range
<1>3. \A i \in 1..Len(base) : f[i] = f[i - 1]
  BY <1>1, <1>2
<1> DEFINE changed == {i \in 0..Len(base) : f[i] # f[0]}
<1>4. changed = {}
  <2>1. SUFFICES ASSUME changed # {} PROVE FALSE
    OBVIOUS
  <2>2. changed \in SUBSET Nat
    OBVIOUS
  <2>3. PICK m \in changed : \A k \in changed : m <= k
    <3> HIDE DEF changed
    <3> QED
      BY <2>1, <2>2, LeastNumber
  <2>4. m \in 1..Len(base) /\ m - 1 \in 0..Len(base) /\ m - 1 < m
    OBVIOUS
  <2>5. m - 1 \notin changed
    <3> HIDE DEF changed
    <3> QED
      BY <2>3, <2>4
  <2> QED
    BY <1>3, <2>4, <2>5
<1>5. f[Len(base)] = f[0]
  BY <1>4
<1>6. PICK gone : gone = Range(base) \ Range(base)
  OBVIOUS
<1>10. PICK kept : kept = WithoutItems(now, gone)
  OBVIOUS
<1>7. kept \in Seq(S) /\ Range(kept) = Range(now) \ gone /\ Ordered(kept, now)
  BY <1>10, KeptInOrder
<1>8. Ordered(kept, kept)
  BY <1>7, SelectionIsAlone
<1>9. kept = now
  <2>1. Range(kept) = Range(now)
    BY <1>6, <1>7
  <2> QED
    BY <1>7, <1>8, <2>1, SameItemsSameOrder
<1> QED
  BY <1>1, <1>5, <1>6, <1>10, <1>9

(* A list of distinct items is ordered as itself.                          *)
LEMMA DistinctItems ==
  ASSUME NEW S, NEW list \in Seq(S), \A i, j \in DOMAIN list : list[i] = list[j] => i = j
  PROVE  Ordered(list, list)
BY LenProperties DEF Ordered

-----------------------------------------------------------------------------
(* The lists, maps and cells of a table.                                   *)
TableFits(t) ==
  /\ t = [layout |-> t.layout, order |-> t.order, cells |-> t.cells, flat |-> t.flat, width |-> t.width]
  /\ t.order \in Seq(Range(Rows) \cup {NewRow}) /\ Ordered(t.order, t.order)
  /\ t.cells = [k \in DOMAIN t.cells |-> t.cells[k]] /\ t.flat = [k \in DOMAIN t.flat |-> t.flat[k]]
  /\ t.width = [k \in DOMAIN t.width |-> t.width[k]]

(* What an update that waits to be merged does to the table it was made    *)
(* from: it sets one cell, or widths.                                      *)
CellWritten(base, made, a) ==
  /\ a.cell \in Range(base.order) \X Range(Columns)
  /\ made = writeTableCellText(base, a.cell, a.text)
  /\ extractTableData(base)[a.cell] # a.text
WidthsWritten(base, made) ==
  \E width : width = [k \in DOMAIN width |-> width[k]] /\ made = [base EXCEPT !.width = width]

TableUpdateFits(c) ==
  /\ TableFits(tUpdate[c].base)
  /\ tUpdate[c].base.layout = tDoc.layout
  /\ Range(tUpdate[c].base.order) \subseteq Range(tDoc.order)
  /\ \/ tUpdate[c].asked = {} /\ WidthsWritten(tUpdate[c].base, tUpdate[c].made)
     \/ \E a : tUpdate[c].asked = {a} /\ CellWritten(tUpdate[c].base, tUpdate[c].made, a)

TablePhases == {"idle", "sent", "merged", "refused", "lost", "late"}
TablesInv ==
  /\ tPhase \in [TableCalls -> TablePhases]
  /\ DOMAIN tUpdate = TableCalls
  /\ TableFits(tDoc)
  /\ \A c \in TableCalls : tPhase[c] \in {"sent", "lost"} => TableUpdateFits(c)

(* Merging a map in which one key was set sets that key, whatever else was *)
(* set since.                                                              *)
LEMMA MergedKey ==
  ASSUME NEW now, now = [k \in DOMAIN now |-> now[k]], NEW base, NEW key, NEW value,
         key \in DOMAIN base => base[key] # value
  PROVE  MergedMap(now, base, MapSet(base, key, value)) = MapSet(now, key, value)
<1> DEFINE made == MapSet(base, key, value)
           set == {k \in DOMAIN made : k \in DOMAIN base => made[k] # base[k]}
           gone == {k \in DOMAIN base \ DOMAIN made : k \in DOMAIN now => now[k] = base[k]}
<1>1. MergedMap(now, base, made) = [k \in (DOMAIN now \ gone) \cup set |-> IF k \in set THEN made[k] ELSE now[k]]
  BY DEF MergedMap
<1>2. DOMAIN made = DOMAIN base \cup {key} /\ \A k \in DOMAIN made : made[k] = IF k = key THEN value ELSE base[k]
  BY DEF MapSet
<1> HIDE DEF made
<1>3. gone = {} /\ set = {key}
  BY <1>2
<1> HIDE DEF gone, set
<1>4. made[key] = value
  BY <1>2
<1> QED
  BY <1>1, <1>3, <1>4 DEF MapSet, made

(* Merging a map that was left as it was changes nothing. *)
LEMMA MergedNoKey ==
  ASSUME NEW now, now = [k \in DOMAIN now |-> now[k]], NEW base
  PROVE  MergedMap(now, base, base) = now
<1>1. {k \in DOMAIN base : k \in DOMAIN base => base[k] # base[k]} = {}
  OBVIOUS
<1>2. {k \in DOMAIN base \ DOMAIN base : k \in DOMAIN now => now[k] = base[k]} = {}
  OBVIOUS
<1>3. MergedMap(now, base, base) = [k \in (DOMAIN now \ {}) \cup {} |-> IF k \in {} THEN base[k] ELSE now[k]]
  BY <1>1, <1>2 DEF MergedMap
<1> QED
  BY <1>3

(* A cell that is set reads as it was set, all others as before.           *)
LEMMA CellSet ==
  ASSUME NEW R, NEW cells, NEW cell \in R, NEW text, NEW before, NEW after,
         before = [k \in R |-> IF k \in DOMAIN cells THEN cells[k] ELSE Empty],
         after = [k \in R |-> IF k \in DOMAIN MapSet(cells, cell, text) THEN MapSet(cells, cell, text)[k] ELSE Empty]
  PROVE  after = [before EXCEPT ![cell] = text]
<1> DEFINE set == MapSet(cells, cell, text)
<1>1. DOMAIN set = DOMAIN cells \cup {cell} /\ \A k \in DOMAIN set : set[k] = IF k = cell THEN text ELSE cells[k]
  BY DEF MapSet
<1> HIDE DEF set
<1>2. \A k \in R : (IF k \in DOMAIN set THEN set[k] ELSE Empty)
                     = IF k = cell THEN text ELSE IF k \in DOMAIN cells THEN cells[k] ELSE Empty
  BY <1>1
<1>3. [k \in R |-> IF k \in DOMAIN set THEN set[k] ELSE Empty]
        = [[k \in R |-> IF k \in DOMAIN cells THEN cells[k] ELSE Empty] EXCEPT ![cell] = text]
  BY <1>2
<1> QED
  BY <1>3 DEF set

(* The merge of an update of one cell, however late.                       *)
LEMMA CellMerged ==
  ASSUME NEW now, TableFits(now), NEW base, TableFits(base), base.layout = now.layout,
         Range(base.order) \subseteq Range(now.order), NEW made, NEW a, CellWritten(base, made, a)
  PROVE  LET merged == TableMerge(now, base, made)
         IN  /\ TableFits(merged) /\ merged.layout = now.layout /\ merged.order = now.order
             /\ merged.width = now.width
             /\ extractTableData(merged) = [extractTableData(now) EXCEPT ![a.cell] = a.text]
<1> DEFINE merged == TableMerge(now, base, made)
<1>1. /\ now = [layout |-> now.layout, order |-> now.order, cells |-> now.cells, flat |-> now.flat, width |-> now.width]
      /\ base = [layout |-> base.layout, order |-> base.order, cells |-> base.cells, flat |-> base.flat,
                 width |-> base.width]
      /\ merged = [now EXCEPT !.order = MergedList(@, base.order, made.order),
                              !.cells = MergedMap(@, base.cells, made.cells),
                              !.flat  = MergedMap(@, base.flat, made.flat),
                              !.width = MergedMap(@, base.width, made.width)]
  BY DEF TableFits, TableMerge
<1>2. /\ a.cell \in Range(now.order) \X Range(Columns)
      /\ a.cell \in DOMAIN CellsOf(base) => CellsOf(base)[a.cell] # a.text
      /\ made = writeTableCellText(base, a.cell, a.text)
  <2>1. a.cell \in Range(base.order) \X Range(Columns) /\ extractTableData(base)[a.cell] # a.text
    BY DEF CellWritten
  <2> QED
    BY <2>1 DEF extractTableData, CellWritten
<1>3. MergedList(now.order, base.order, base.order) = now.order
  <2>1. Len(base.order) \in Nat /\ DOMAIN base.order = 1..Len(base.order)
    BY LenProperties DEF TableFits
  <2> QED
    BY <2>1, MergesNothing DEF TableFits
<1>4. /\ MergedMap(now.cells, base.cells, base.cells) = now.cells
      /\ MergedMap(now.flat, base.flat, base.flat) = now.flat
      /\ MergedMap(now.width, base.width, base.width) = now.width
  BY MergedNoKey DEF TableFits
<1>5. CASE now.layout = "flat"
  <2>1. /\ made.order = base.order /\ made.cells = base.cells /\ made.width = base.width
        /\ made.flat = MapSet(base.flat, a.cell, a.text)
    BY <1>1, <1>2, <1>5 DEF writeTableCellText
  <2>2. MergedMap(now.flat, base.flat, made.flat) = MapSet(now.flat, a.cell, a.text)
    BY <1>2, <1>5, <2>1, MergedKey DEF TableFits, CellsOf
  <2>3. merged = [layout |-> now.layout, order |-> now.order, cells |-> now.cells,
                  flat |-> MapSet(now.flat, a.cell, a.text), width |-> now.width]
    BY <1>1, <1>3, <1>4, <2>1, <2>2
  <2>4. TableFits(merged)
    BY <2>3 DEF TableFits, MapSet
  <2>5. CellsOf(merged) = MapSet(CellsOf(now), a.cell, a.text)
    BY <1>5, <2>3 DEF CellsOf
  <2>6. extractTableData(merged) = [extractTableData(now) EXCEPT ![a.cell] = a.text]
    <3>1. merged.order = now.order
      BY <2>3
    <3> HIDE DEF merged
    <3>2. PICK R, cells, cell, text : /\ R = Range(now.order) \X Range(Columns) /\ cells = CellsOf(now)
                                      /\ cell = a.cell /\ text = a.text
      OBVIOUS
    <3>3. extractTableData(now) = [k \in R |-> IF k \in DOMAIN cells THEN cells[k] ELSE Empty]
      BY <3>2 DEF extractTableData
    <3>4. extractTableData(merged) = [k \in R |-> IF k \in DOMAIN MapSet(cells, cell, text)
                                                  THEN MapSet(cells, cell, text)[k] ELSE Empty]
      BY <2>5, <3>1, <3>2 DEF extractTableData
    <3>5. cell \in R
      BY <1>2, <3>2
    <3>6. extractTableData(merged) = [extractTableData(now) EXCEPT ![cell] = text]
      <4>1. PICK before, after : before = extractTableData(now) /\ after = extractTableData(merged)
        OBVIOUS
      <4>2. after = [before EXCEPT ![cell] = text]
        BY <3>3, <3>4, <3>5, <4>1, CellSet
      <4> QED
        BY <4>1, <4>2
    <3> QED
      BY <3>2, <3>6
  <2> QED
    BY <2>3, <2>4, <2>6
<1>6. CASE now.layout # "flat"
  <2>1. /\ made.order = base.order /\ made.flat = base.flat /\ made.width = base.width
        /\ made.cells = MapSet(base.cells, a.cell, a.text)
    BY <1>1, <1>2, <1>6 DEF writeTableCellText
  <2>2. MergedMap(now.cells, base.cells, made.cells) = MapSet(now.cells, a.cell, a.text)
    BY <1>2, <1>6, <2>1, MergedKey DEF TableFits, CellsOf
  <2>3. merged = [layout |-> now.layout, order |-> now.order, flat |-> now.flat,
                  cells |-> MapSet(now.cells, a.cell, a.text), width |-> now.width]
    BY <1>1, <1>3, <1>4, <2>1, <2>2
  <2>4. TableFits(merged)
    BY <2>3 DEF TableFits, MapSet
  <2>5. CellsOf(merged) = MapSet(CellsOf(now), a.cell, a.text)
    BY <1>6, <2>3 DEF CellsOf
  <2>6. extractTableData(merged) = [extractTableData(now) EXCEPT ![a.cell] = a.text]
    <3>1. merged.order = now.order
      BY <2>3
    <3> HIDE DEF merged
    <3>2. PICK R, cells, cell, text : /\ R = Range(now.order) \X Range(Columns) /\ cells = CellsOf(now)
                                      /\ cell = a.cell /\ text = a.text
      OBVIOUS
    <3>3. extractTableData(now) = [k \in R |-> IF k \in DOMAIN cells THEN cells[k] ELSE Empty]
      BY <3>2 DEF extractTableData
    <3>4. extractTableData(merged) = [k \in R |-> IF k \in DOMAIN MapSet(cells, cell, text)
                                                  THEN MapSet(cells, cell, text)[k] ELSE Empty]
      BY <2>5, <3>1, <3>2 DEF extractTableData
    <3>5. cell \in R
      BY <1>2, <3>2
    <3>6. extractTableData(merged) = [extractTableData(now) EXCEPT ![cell] = text]
      <4>1. PICK before, after : before = extractTableData(now) /\ after = extractTableData(merged)
        OBVIOUS
      <4>2. after = [before EXCEPT ![cell] = text]
        BY <3>3, <3>4, <3>5, <4>1, CellSet
      <4> QED
        BY <4>1, <4>2
    <3> QED
      BY <3>2, <3>6
  <2> QED
    BY <2>3, <2>4, <2>6
<1> QED
  BY <1>5, <1>6

(* The merge of an update of widths. *)
LEMMA WidthsMerged ==
  ASSUME NEW now, TableFits(now), NEW base, TableFits(base), NEW made, WidthsWritten(base, made)
  PROVE  LET merged == TableMerge(now, base, made)
         IN  /\ TableFits(merged) /\ merged.layout = now.layout /\ merged.order = now.order
             /\ extractTableData(merged) = extractTableData(now)
<1> DEFINE merged == TableMerge(now, base, made)
<1>1. /\ now = [layout |-> now.layout, order |-> now.order, cells |-> now.cells, flat |-> now.flat, width |-> now.width]
      /\ base = [layout |-> base.layout, order |-> base.order, cells |-> base.cells, flat |-> base.flat,
                 width |-> base.width]
      /\ merged = [now EXCEPT !.order = MergedList(@, base.order, made.order),
                              !.cells = MergedMap(@, base.cells, made.cells),
                              !.flat  = MergedMap(@, base.flat, made.flat),
                              !.width = MergedMap(@, base.width, made.width)]
  BY DEF TableFits, TableMerge
<1>2. made.order = base.order /\ made.cells = base.cells /\ made.flat = base.flat
  BY <1>1 DEF WidthsWritten
<1>3. MergedList(now.order, base.order, base.order) = now.order
  <2>1. Len(base.order) \in Nat /\ DOMAIN base.order = 1..Len(base.order)
    BY LenProperties DEF TableFits
  <2> QED
    BY <2>1, MergesNothing DEF TableFits
<1>4. /\ MergedMap(now.cells, base.cells, base.cells) = now.cells
      /\ MergedMap(now.flat, base.flat, base.flat) = now.flat
  BY MergedNoKey DEF TableFits
<1>5. PICK width : width = MergedMap(now.width, base.width, made.width)
  OBVIOUS
<1>6. merged = [layout |-> now.layout, order |-> now.order, cells |-> now.cells, flat |-> now.flat, width |-> width]
  BY <1>1, <1>2, <1>3, <1>4, <1>5
<1>7. width = [k \in DOMAIN width |-> width[k]]
  BY <1>5, MergedKeys
<1> QED
  BY <1>6, <1>7 DEF TableFits, extractTableData, CellsOf

-----------------------------------------------------------------------------
(* The widths are written column by column. *)
LEMMA WidthsStepByStep ==
  ASSUME NEW t, NEW widths, NEW made \in WidthsUpdated(t, widths), Len(Columns) \in Nat
  PROVE  \E f : /\ made = f[Len(Columns)]
                /\ f[0] = t
                /\ \A i \in 1..Len(Columns) :
                     f[i] = IF readTableColumnWidth(f[i - 1], Columns[i]) = widths[i] THEN f[i - 1]
                            ELSE writeTableColumnWidth(f[i - 1], Columns[i], widths[i])
<1> DEFINE top == Len(Columns)
           Write(done, i) == IF readTableColumnWidth(done, Columns[i]) = widths[i] THEN done
                             ELSE writeTableColumnWidth(done, Columns[i], widths[i])
           Builds(g, m) == g = [i \in 0..m |-> IF i = 0 THEN t ELSE Write(g[i - 1], i)]
           unbuilt == {m \in 0..top : ~ \E g : Builds(g, m)}
<1>1. top \in Nat
  OBVIOUS
<1>2. unbuilt = {}
  <2>1. SUFFICES ASSUME unbuilt # {} PROVE FALSE
    OBVIOUS
  <2>2. unbuilt \in SUBSET Nat
    BY <1>1
  <2>3. PICK m \in unbuilt : \A k \in unbuilt : m <= k
    <3> HIDE DEF unbuilt
    <3> QED
      BY <2>1, <2>2, LeastNumber
  <2>4. m # 0
    <3>1. Builds([i \in 0..0 |-> t], 0)
      OBVIOUS
    <3> QED
      BY <3>1
  <2>5. m - 1 \in 0..top /\ m - 1 \notin unbuilt
    <3>1. m \in 0..top
      OBVIOUS
    <3> HIDE DEF unbuilt, top
    <3>2. m - 1 \in 0..top /\ m - 1 < m /\ m \in Nat /\ m - 1 \in Nat
      BY <1>1, <2>4, <3>1
    <3> QED
      BY <2>3, <3>2
  <2>6. PICK g : Builds(g, m - 1)
    BY <2>5
  <2> DEFINE h == [i \in 0..m |-> IF i = m THEN Write(g[m - 1], m) ELSE g[i]]
  <2> HIDE DEF Write
  <2>7. ASSUME NEW i \in 0..m PROVE h[i] = IF i = 0 THEN t ELSE Write(h[i - 1], i)
    <3>1. CASE i = m
      BY <1>1, <2>4, <3>1
    <3>2. CASE i # m
      <4>1. i \in 0..(m - 1)
        BY <1>1, <3>2
      <4>2. h[i] = g[i] /\ g[i] = IF i = 0 THEN t ELSE Write(g[i - 1], i)
        BY <2>6, <3>2, <4>1
      <4>3. i # 0 => h[i - 1] = g[i - 1]
        BY <1>1, <4>1
      <4> QED
        BY <4>2, <4>3
    <3> QED
      BY <3>1, <3>2
  <2>8. Builds(h, m)
    <3> HIDE DEF h
    <3>1. h = [i \in 0..m |-> h[i]]
      BY DEF h
    <3> QED
      BY <2>7, <3>1
  <2> QED
    BY <2>8
<1>3. \E g : Builds(g, top)
  <2>1. top \in 0..top
    BY <1>1
  <2>2. \A m \in 0..top : \E g : Builds(g, m)
    <3> HIDE DEF top, Builds
    <3> QED
      BY <1>2
  <2> HIDE DEF top, Builds
  <2> QED
    BY <2>1, <2>2
<1> DEFINE f == CHOOSE g : Builds(g, top)
<1>4. Builds(f, top)
  BY <1>3
<1>5. made = f[top]
  BY DEF WidthsUpdated
<1> HIDE DEF f
<1>6. f[0] = t /\ \A i \in 1..top : f[i] = Write(f[i - 1], i)
  <2>1. 0 \in 0..top /\ \A i \in 1..top : i \in 0..top /\ i # 0
    BY <1>1
  <2> HIDE DEF top, Write
  <2> QED
    BY <1>4, <2>1
<1> QED
  BY <1>5, <1>6

(* update_table_column_widths writes nothing but widths. *)
LEMMA OnlyWidthsUpdated ==
  ASSUME NEW t, TableFits(t), NEW widths, NEW made \in WidthsUpdated(t, widths)
  PROVE  WidthsWritten(t, made)
<1>1. Len(Columns) \in Nat
  BY TablesAssumption, LenProperties
<1>2. PICK f : /\ made = f[Len(Columns)]
               /\ f[0] = t
               /\ \A i \in 1..Len(Columns) :
                    f[i] = IF readTableColumnWidth(f[i - 1], Columns[i]) = widths[i] THEN f[i - 1]
                           ELSE writeTableColumnWidth(f[i - 1], Columns[i], widths[i])
  BY <1>1, WidthsStepByStep
<1> DEFINE bad == {i \in 0..Len(Columns) : ~WidthsWritten(t, f[i])}
<1>3. bad = {}
  <2>1. SUFFICES ASSUME bad # {} PROVE FALSE
    OBVIOUS
  <2>2. bad \in SUBSET Nat
    OBVIOUS
  <2>3. PICK i \in bad : \A k \in bad : i <= k
    <3> HIDE DEF bad
    <3> QED
      BY <2>1, <2>2, LeastNumber
  <2>4. i # 0
    <3>1. t = [t EXCEPT !.width = t.width]
      BY DEF TableFits
    <3>2. WidthsWritten(t, t)
      BY <3>1 DEF TableFits, WidthsWritten
    <3> QED
      BY <1>2, <3>2
  <2>5. i \in 1..Len(Columns) /\ i - 1 \in 0..Len(Columns) /\ i - 1 < i
    BY <1>1, <2>4
  <2>6. i - 1 \notin bad
    <3> HIDE DEF bad
    <3> QED
      BY <2>3, <2>5
  <2>7. WidthsWritten(t, f[i - 1])
    BY <2>5, <2>6
  <2>8. PICK width : width = [k \in DOMAIN width |-> width[k]] /\ f[i - 1] = [t EXCEPT !.width = width]
    BY <2>7 DEF WidthsWritten
  <2>9. ASSUME NEW column, NEW w PROVE WidthsWritten(t, writeTableColumnWidth(f[i - 1], column, w))
    <3> DEFINE put == [width EXCEPT ![column] = w]
    <3>1. put = [k \in DOMAIN put |-> put[k]]
      BY <2>8
    <3>2. f[i - 1].width = width
      BY <2>8 DEF TableFits
    <3>3. [f[i - 1] EXCEPT !.width[column] = w] = [f[i - 1] EXCEPT !.width = put]
      BY <3>2
    <3> HIDE DEF put
    <3>4. [f[i - 1] EXCEPT !.width = put] = [t EXCEPT !.width = put]
      BY <2>8
    <3> QED
      BY <3>1, <3>3, <3>4 DEF WidthsWritten, writeTableColumnWidth
  <2>10. WidthsWritten(t, f[i])
    BY <1>2, <2>5, <2>7, <2>9
  <2> QED
    BY <2>10
<1>4. WidthsWritten(t, f[Len(Columns)])
  <2>1. Len(Columns) \in 0..Len(Columns)
    BY <1>1
  <2> QED
    BY <1>3, <2>1
<1> QED
  BY <1>2, <1>4

(* update_table_cell sets one cell, if it changes anything. *)
LEMMA CellIsUpdated ==
  ASSUME NEW t, TableFits(t), NEW row \in Nat, NEW column \in Nat, NEW text,
         NEW made \in CellUpdated(t, row, column, text)
  PROVE  /\ row < Len(t.order) /\ column < Len(Columns)
         /\ CellWritten(t, made, [cell |-> <<t.order[row + 1], Columns[column + 1]>>, text |-> text])
<1> DEFINE k == <<t.order[row + 1], Columns[column + 1]>>
<1>1. /\ Len(t.order) \in Nat /\ DOMAIN t.order = 1..Len(t.order)
      /\ Len(Columns) \in Nat /\ DOMAIN Columns = 1..Len(Columns)
  BY TablesAssumption, LenProperties DEF TableFits
<1>2. ~(row >= Len(t.order) \/ column >= Len(Columns))
  BY DEF CellUpdated
<1>3. row + 1 \in DOMAIN t.order /\ column + 1 \in DOMAIN Columns
  BY <1>1, <1>2
<1>4. k \in Range(t.order) \X Range(Columns)
  BY <1>3 DEF Range
<1>5. extractTableData(t)[k] # text /\ made = writeTableCellText(t, k, text)
  BY <1>2 DEF CellUpdated
<1> QED
  BY <1>1, <1>2, <1>4, <1>5 DEF CellWritten

-----------------------------------------------------------------------------
(* The invariant holds of a new table. *)
LEMMA TablesStart == TablesInit => TablesInv
<1> SUFFICES ASSUME TablesInit PROVE TablesInv
  OBVIOUS
<1>1. PICK layout : tDoc = Table(layout)
  BY DEF TablesInit
<1>2. tPhase = [c \in TableCalls |-> "idle"] /\ DOMAIN tUpdate = TableCalls
  BY DEF TablesInit, TU!UpdatesInit
<1>3. Rows \in Seq(Range(Rows) \cup {NewRow}) /\ Ordered(Rows, Rows)
  <2>1. Rows \in Seq(Range(Rows))
    BY TablesAssumption
  <2>2. Ordered(Rows, Rows)
    BY <2>1, TablesAssumption, DistinctItems
  <2> QED
    BY <2>1, <2>2
<1>4. TableFits(tDoc)
  <2>1. \A e : e = <<>> => e = [k \in DOMAIN e |-> e[k]]
    OBVIOUS
  <2> QED
    BY <1>1, <1>3, <2>1 DEF Table, TableFits
<1> QED
  BY <1>2, <1>4 DEF TablesInv, TablePhases

(* A handler whose results fit keeps the invariant. *)
LEMMA TableHandlerKeeps ==
  ASSUME TablesInv, NEW c \in TableCalls, NEW results, NEW asked, TU!Handled(c, results, asked),
         \A made \in results :
           \/ asked = {} /\ WidthsWritten(tDoc, made)
           \/ \E a : asked = {a} /\ CellWritten(tDoc, made, a)
  PROVE  TablesInv' /\ tDoc' = tDoc /\ \A o \in TableCalls : tPhase[o] \in {"sent", "lost"} => tPhase'[o] = tPhase[o]
<1>1. /\ tPhase[c] = "idle" /\ tDoc' = tDoc
      /\ tPhase \in [TableCalls -> TablePhases] /\ DOMAIN tUpdate = TableCalls /\ TableFits(tDoc)
      /\ \A o \in TableCalls : tPhase[o] # "sent"
      /\ \A o \in TableCalls : tPhase[o] \in {"sent", "lost"} => TableUpdateFits(o)
  BY DEF TU!Handled, TablesInv
<1>2. CASE tPhase' = [tPhase EXCEPT ![c] = "refused"] /\ tUpdate' = tUpdate
  <2>1. /\ tPhase' \in [TableCalls -> TablePhases]
        /\ \A o \in TableCalls : tPhase'[o] = IF o = c THEN "refused" ELSE tPhase[o]
    BY <1>1, <1>2 DEF TablePhases
  <2>2. \A o \in TableCalls : tPhase'[o] \in {"sent", "lost"} => TableUpdateFits(o)'
    BY <1>1, <1>2, <2>1 DEF TableUpdateFits
  <2> QED
    BY <1>1, <1>2, <2>1, <2>2 DEF TablesInv
<1>3. ASSUME NEW r \in results, tPhase' = [tPhase EXCEPT ![c] = "sent"],
             tUpdate' = [o \in TableCalls |->
                IF o = c THEN [base |-> tDoc, made |-> r, asked |-> asked]
                ELSE IF tPhase[o] = "lost" THEN tUpdate[o] ELSE TU!Nothing]
      PROVE  TablesInv' /\ \A o \in TableCalls : tPhase[o] \in {"sent", "lost"} => tPhase'[o] = tPhase[o]
  <2>1. /\ tPhase' \in [TableCalls -> TablePhases] /\ DOMAIN tUpdate' = TableCalls
        /\ \A o \in TableCalls : tPhase'[o] = IF o = c THEN "sent" ELSE tPhase[o]
    BY <1>1, <1>3 DEF TablePhases
  <2>2. /\ tUpdate'[c].base = tDoc /\ tUpdate'[c].made = r /\ tUpdate'[c].asked = asked
        /\ \A o \in TableCalls \ {c} : tPhase[o] = "lost" => tUpdate'[o] = tUpdate[o]
    BY <1>3
  <2>3. TableUpdateFits(c)'
    BY <1>1, <1>3, <2>2 DEF TableUpdateFits
  <2>4. ASSUME NEW o \in TableCalls \ {c}, tPhase'[o] \in {"sent", "lost"} PROVE TableUpdateFits(o)'
    <3>1. tPhase[o] = "lost"
      BY <1>1, <2>1, <2>4
    <3>2. TableUpdateFits(o) /\ tUpdate'[o] = tUpdate[o]
      BY <1>1, <2>2, <3>1
    <3> QED
      BY <1>1, <3>2 DEF TableUpdateFits
  <2> QED
    BY <1>1, <2>1, <2>3, <2>4 DEF TablesInv
<1> QED
  BY <1>1, <1>2, <1>3 DEF TU!Handled

(* What a merge does to the table, and that it keeps the invariant.        *)
LEMMA TableMergeKeeps ==
  ASSUME TablesInv, NEW c \in TableCalls, TU!MergeUpdate(c)
  PROVE  /\ TablesInv'
         /\ \A o \in TableCalls \ {c} : tPhase'[o] = tPhase[o]
         /\ \/ /\ tUpdate[c].asked = {} /\ extractTableData(tDoc') = extractTableData(tDoc)
            \/ \E a : /\ tUpdate[c].asked = {a}
                      /\ extractTableData(tDoc') = [extractTableData(tDoc) EXCEPT ![a.cell] = a.text]
                      /\ tDoc'.width = tDoc.width
<1>1. /\ tPhase[c] \in {"sent", "lost"} /\ tUpdate' = tUpdate
      /\ tDoc' = TableMerge(tDoc, tUpdate[c].base, tUpdate[c].made)
      /\ tPhase \in [TableCalls -> TablePhases] /\ DOMAIN tUpdate = TableCalls /\ TableFits(tDoc)
      /\ \A o \in TableCalls : tPhase[o] \in {"sent", "lost"} => TableUpdateFits(o)
  BY DEF TU!MergeUpdate, TablesInv
<1>2. /\ tPhase' \in [TableCalls -> TablePhases]
      /\ \A o \in TableCalls : tPhase'[o] = IF o # c THEN tPhase[o]
                                            ELSE IF tPhase[c] = "sent" THEN "merged" ELSE "late"
  BY <1>1 DEF TU!MergeUpdate, TablePhases
<1>3. TableUpdateFits(c)
  BY <1>1
<1>4. PICK now, base, made, after : now = tDoc /\ base = tUpdate[c].base /\ made = tUpdate[c].made /\ after = tDoc'
  OBVIOUS
<1>5. /\ TableFits(after) /\ after.layout = now.layout /\ after.order = now.order
      /\ \/ tUpdate[c].asked = {} /\ extractTableData(after) = extractTableData(now)
         \/ \E a : /\ tUpdate[c].asked = {a}
                   /\ extractTableData(after) = [extractTableData(now) EXCEPT ![a.cell] = a.text]
                   /\ after.width = now.width
  <2>1. /\ TableFits(now) /\ TableFits(base) /\ base.layout = now.layout
        /\ Range(base.order) \subseteq Range(now.order)
        /\ after = TableMerge(now, base, made)
    BY <1>1, <1>3, <1>4 DEF TableUpdateFits
  <2>2. CASE tUpdate[c].asked = {} /\ WidthsWritten(base, made)
    BY <2>1, <2>2, WidthsMerged
  <2>3. ASSUME NEW a, tUpdate[c].asked = {a}, CellWritten(base, made, a)
        PROVE  /\ TableFits(after) /\ after.layout = now.layout /\ after.order = now.order
               /\ extractTableData(after) = [extractTableData(now) EXCEPT ![a.cell] = a.text]
               /\ after.width = now.width
    BY <2>1, <2>3, CellMerged
  <2> QED
    BY <1>3, <1>4, <2>2, <2>3 DEF TableUpdateFits
<1>6. \A o \in TableCalls : tPhase'[o] \in {"sent", "lost"} => TableUpdateFits(o)'
  <2> TAKE o \in TableCalls
  <2>1. tPhase'[o] \in {"sent", "lost"} => TableUpdateFits(o)
    BY <1>1, <1>2
  <2> QED
    BY <1>1, <1>4, <1>5, <2>1 DEF TableUpdateFits
<1> QED
  BY <1>1, <1>2, <1>4, <1>5, <1>6 DEF TablesInv

(* Every step of the table tools and the editor keeps the invariant, and   *)
(* only the merge of its update settles a call.                            *)
LEMMA TablesNextKeeps ==
  ASSUME TablesInv, [TablesNext]_tableVars
  PROVE  /\ TablesInv'
         /\ \A c \in TableCalls : tPhase[c] \in {"sent", "lost"} /\ tPhase'[c] \in {"merged", "late"} =>
              TU!MergeUpdate(c)
<1>0. /\ TableFits(tDoc) /\ tPhase \in [TableCalls -> TablePhases]
      /\ \A o \in TableCalls : tPhase[o] \in {"sent", "lost"} => TableUpdateFits(o)
  BY DEF TablesInv
<1>1. ASSUME NEW c \in TableCalls, updateTableCell(c)
      PROVE  TablesInv' /\ \A o \in TableCalls : tPhase[o] \in {"sent", "lost"} => tPhase'[o] = tPhase[o]
  <2>1. PICK row \in 0..Len(Rows), column \in 0..Len(Columns), text \in Texts :
          TU!Handled(c, CellUpdated(tDoc, row, column, text),
            IF row < Len(tDoc.order) /\ column < Len(Columns)
            THEN {[cell |-> <<tDoc.order[row + 1], Columns[column + 1]>>, text |-> text]} ELSE {})
    BY <1>1 DEF updateTableCell
  <2>2. row \in Nat /\ column \in Nat
    BY TablesAssumption, LenProperties
  <2>3. ASSUME NEW made \in CellUpdated(tDoc, row, column, text)
        PROVE  /\ row < Len(tDoc.order) /\ column < Len(Columns)
               /\ CellWritten(tDoc, made, [cell |-> <<tDoc.order[row + 1], Columns[column + 1]>>, text |-> text])
    BY <1>0, <2>2, CellIsUpdated
  <2> QED
    BY <2>1, <2>3, TableHandlerKeeps
<1>2. ASSUME NEW c \in TableCalls, updateTableColumnWidths(c)
      PROVE  TablesInv' /\ \A o \in TableCalls : tPhase[o] \in {"sent", "lost"} => tPhase'[o] = tPhase[o]
  <2>1. PICK widths : TU!Handled(c, WidthsUpdated(tDoc, widths), {})
    BY <1>2 DEF updateTableColumnWidths
  <2>2. \A made \in WidthsUpdated(tDoc, widths) : WidthsWritten(tDoc, made)
    BY <1>0, OnlyWidthsUpdated
  <2> QED
    BY <2>1, <2>2, TableHandlerKeeps
<1>3. ASSUME NEW c \in TableCalls, TU!MergeUpdate(c)
      PROVE  TablesInv' /\ \A o \in TableCalls \ {c} : tPhase'[o] = tPhase[o]
  BY <1>3, TableMergeKeeps
<1>4. ASSUME NEW c \in TableCalls, TU!LoseAck(c)
      PROVE  TablesInv' /\ \A o \in TableCalls : tPhase'[o] \in {"merged", "late"} => tPhase'[o] = tPhase[o]
  <2>1. /\ tPhase[c] = "sent" /\ tUpdate' = tUpdate /\ tDoc' = tDoc
        /\ tPhase' \in [TableCalls -> TablePhases]
        /\ \A o \in TableCalls : tPhase'[o] = IF o = c THEN "lost" ELSE tPhase[o]
    BY <1>0, <1>4 DEF TU!LoseAck, TablePhases
  <2>2. \A o \in TableCalls : tPhase'[o] \in {"sent", "lost"} => TableUpdateFits(o)'
    BY <1>0, <2>1 DEF TableUpdateFits
  <2> QED
    BY <2>1, <2>2 DEF TablesInv
<1>5. ASSUME EditorAddsRow PROVE TablesInv' /\ tPhase' = tPhase
  <2>1. PICK at \in {1, Len(tDoc.order) + 1} : tDoc' = [tDoc EXCEPT !.order = InsertAt(@, at, NewRow)]
    BY <1>5 DEF EditorAddsRow
  <2>2. PICK order, added : order = tDoc.order /\ added = InsertAt(order, at, NewRow)
    OBVIOUS
  <2>3. order \in Seq(Range(Rows) \cup {NewRow}) /\ Ordered(order, order) /\ NewRow \notin Range(order)
    BY <1>0, <1>5, <2>2 DEF TableFits, EditorAddsRow
  <2>4. at \in 1..Len(order) + 1
    BY <2>2, <2>3, LenProperties
  <2>5. NewRow \in Range(Rows) \cup {NewRow}
    OBVIOUS
  <2>6. added \in Seq(Range(Rows) \cup {NewRow}) /\ Range(added) = Range(order) \cup {NewRow}
    BY <2>2, <2>3, <2>4, <2>5, InsertedItem
  <2>7. Ordered(added, added)
    BY <2>2, <2>3, <2>4, <2>5, NewItemIsAlone
  <2>8. tDoc' = [layout |-> tDoc.layout, order |-> added, cells |-> tDoc.cells, flat |-> tDoc.flat,
                 width |-> tDoc.width]
    BY <1>0, <2>1, <2>2 DEF TableFits
  <2>9. TableFits(tDoc')
    BY <1>0, <2>6, <2>7, <2>8 DEF TableFits
  <2>10. tPhase' = tPhase /\ tUpdate' = tUpdate
    BY <1>5 DEF EditorAddsRow
  <2>11. ASSUME NEW o \in TableCalls, tPhase[o] \in {"sent", "lost"} PROVE TableUpdateFits(o)'
    <3>1. TableUpdateFits(o)
      BY <1>0, <2>11
    <3> QED
      BY <2>2, <2>6, <2>8, <2>10, <3>1 DEF TableUpdateFits
  <2> QED
    BY <2>9, <2>10, <2>11 DEF TablesInv
<1>6. ASSUME tDoc' = tDoc, tPhase' = tPhase, tUpdate' = tUpdate PROVE TablesInv'
  BY <1>6 DEF TablesInv, TableUpdateFits
<1> QED
  BY <1>1, <1>2, <1>3, <1>4, <1>5, <1>6 DEF TablesNext, tableVars, TU!UpdatesDone

(* The invariant of tables. *)
THEOREM TablesSafety == TablesSpec => []TablesInv
<1>1. TablesInv /\ [TablesNext]_tableVars => TablesInv'
  BY TablesNextKeeps
<1> QED
  BY <1>1, TablesStart, PTL DEF TablesSpec

(* A cell update sets the text of the cell it found at the coordinates and *)
(* of no other, and leaves the widths, however late it is merged and       *)
(* whatever rows were added; an update of widths leaves all cells.         *)
THEOREM TableEditsHit == TablesSpec => TableEditsHitTheirCells
<1>1. ASSUME TablesInv, [TablesNext]_tableVars,
             NEW c \in TableCalls, tPhase[c] \in {"sent", "lost"}, tPhase'[c] \in {"merged", "late"}
      PROVE  LET before == extractTableData(tDoc)
                 after  == extractTableData(tDoc')
                 asked  == tUpdate[c].asked
             IN  IF asked = {} THEN after = before
                 ELSE \A a \in asked :
                        /\ after = [before EXCEPT ![a.cell] = a.text]
                        /\ tDoc'.width = tDoc.width
                        /\ totalTableColumnWidth(tDoc') = totalTableColumnWidth(tDoc)
  <2>1. TU!MergeUpdate(c)
    BY <1>1, TablesNextKeeps
  <2>2. \/ /\ tUpdate[c].asked = {} /\ extractTableData(tDoc') = extractTableData(tDoc)
        \/ \E a : /\ tUpdate[c].asked = {a}
                  /\ extractTableData(tDoc') = [extractTableData(tDoc) EXCEPT ![a.cell] = a.text]
                  /\ tDoc'.width = tDoc.width
    BY <1>1, <2>1, TableMergeKeeps
  <2>3. tDoc'.width = tDoc.width => totalTableColumnWidth(tDoc') = totalTableColumnWidth(tDoc)
    BY DEF totalTableColumnWidth
  <2> QED
    BY <2>2, <2>3
<1>2. TablesInv /\ [TablesNext]_tableVars =>
        [\A c \in TableCalls : tPhase[c] \in {"sent", "lost"} /\ tPhase'[c] \in {"merged", "late"} =>
           LET before == extractTableData(tDoc)
               after  == extractTableData(tDoc')
               asked  == tUpdate[c].asked
           IN  IF asked = {} THEN after = before
               ELSE \A a \in asked :
                      /\ after = [before EXCEPT ![a.cell] = a.text]
                      /\ tDoc'.width = tDoc.width
                      /\ totalTableColumnWidth(tDoc') = totalTableColumnWidth(tDoc)]_tableVars
  BY <1>1
<1> QED
  BY <1>2, TablesSafety, PTL DEF TablesSpec, TableEditsHitTheirCells

-----------------------------------------------------------------------------
(***************************************************************************)
(* Native mind maps.                                                       *)
(***************************************************************************)

(* Every mind map of the page can be read.                                 *)
MapsReadable(d) ==
  \A m \in DOMAIN d.maps : ReadableTree(d, m) /\ TheMap \notin MapNodes(d, m)

MapPhases == {"idle", "sent", "merged", "refused", "lost", "late"}
MapUpdateFits(c) == MapPage(mUpdate[c].base) /\ MapPage(mUpdate[c].made)
MapsInv ==
  /\ mPhase \in [MapCalls -> MapPhases]
  /\ MapPage(mDoc)
  /\ mStale \in BOOLEAN /\ mAbused \in BOOLEAN
  /\ \A c \in MapCalls : mPhase[c] \in {"sent", "lost"} => MapUpdateFits(c)
  /\ ~mStale /\ ~mAbused =>
       /\ MapsReadable(mDoc)
       /\ \A c \in MapCalls : mPhase[c] \in {"sent", "lost"} => MapsReadable(mUpdate[c].made)

-----------------------------------------------------------------------------
(* An update that is merged into the page it was made from leaves the page *)
(* it made.                                                                *)
LEMMA MapMergesInPlace ==
  ASSUME NEW base, NEW made, MapPage(base), MapPage(made)
  PROVE  MapMerge(base, base, made) = made
<1> DEFINE Record(n, b, f) == [k \in DOMAIN n |-> IF k = "kids" THEN MergedMap(n[k], b[k], f[k])
                                             ELSE IF f[k] # b[k] THEN f[k] ELSE n[k]]
           Things(n, b, f) ==
             [i \in (DOMAIN n \ (DOMAIN b \ DOMAIN f)) \cup (DOMAIN f \ DOMAIN b) |->
               IF i \notin DOMAIN b THEN IF i \in DOMAIN f THEN f[i] ELSE n[i]
               ELSE Record(n[i], b[i], f[i])]
<1>1. MapMerge(base, base, made)
        = [shapes |-> Things(base.shapes, base.shapes, made.shapes),
           maps   |-> Things(base.maps, base.maps, made.maps),
           group  |-> IF made.group # base.group THEN made.group ELSE base.group]
  BY DEF MapMerge
<1>2. ASSUME NEW b, NEW f, \A i \in DOMAIN b \cap DOMAIN f : Record(b[i], b[i], f[i]) = f[i],
             f = [i \in DOMAIN f |-> f[i]]
      PROVE  Things(b, b, f) = f
  <2> HIDE DEF Record
  <2> QED
    BY <1>2
<1>3. ASSUME NEW n \in DOMAIN base.shapes \cap DOMAIN made.shapes
      PROVE  Record(base.shapes[n], base.shapes[n], made.shapes[n]) = made.shapes[n]
  <2>1. IsSketch(base.shapes[n]) /\ IsSketch(made.shapes[n])
    BY <1>3 DEF MapPage
  <2> QED
    BY <2>1 DEF IsSketch
<1>4. ASSUME NEW m \in DOMAIN base.maps \cap DOMAIN made.maps
      PROVE  Record(base.maps[m], base.maps[m], made.maps[m]) = made.maps[m]
  <2>1. IsMindmap(base.maps[m]) /\ IsMindmap(made.maps[m])
    BY <1>4 DEF MapPage
  <2>2. MergedMap(base.maps[m].kids, base.maps[m].kids, made.maps[m].kids) = made.maps[m].kids
    BY <2>1, MergedInPlace DEF IsMindmap, IsMap
  <2> QED
    BY <2>1, <2>2 DEF IsMindmap
<1>5. Things(base.shapes, base.shapes, made.shapes) = made.shapes
  <2>1. made.shapes = [i \in DOMAIN made.shapes |-> made.shapes[i]]
    BY DEF MapPage, IsMap
  <2> HIDE DEF Things, Record
  <2> QED
    BY <1>2, <1>3, <2>1
<1>6. Things(base.maps, base.maps, made.maps) = made.maps
  <2>1. made.maps = [i \in DOMAIN made.maps |-> made.maps[i]]
    BY DEF MapPage, IsMap
  <2> HIDE DEF Things, Record
  <2> QED
    BY <1>2, <1>4, <2>1
<1>7. made = [shapes |-> made.shapes, maps |-> made.maps, group |-> made.group]
  BY DEF MapPage
<1> HIDE DEF Things
<1> QED
  BY <1>1, <1>5, <1>6, <1>7

(* What is merged late is still a page of mind maps.                       *)
LEMMA MapMergeFits ==
  ASSUME NEW now, NEW base, NEW made, MapPage(now), MapPage(base), MapPage(made)
  PROVE  MapPage(MapMerge(now, base, made))
<1> DEFINE Record(n, b, f) == [k \in DOMAIN n |-> IF k = "kids" THEN MergedMap(n[k], b[k], f[k])
                                             ELSE IF f[k] # b[k] THEN f[k] ELSE n[k]]
           Things(n, b, f) ==
             [i \in (DOMAIN n \ (DOMAIN b \ DOMAIN f)) \cup (DOMAIN f \ DOMAIN b) |->
               IF i \notin DOMAIN b THEN IF i \in DOMAIN f THEN f[i] ELSE n[i]
               ELSE Record(n[i], b[i], f[i])]
           result == MapMerge(now, base, made)
<1>1. PICK shapes, maps : /\ shapes = Things(now.shapes, base.shapes, made.shapes)
                          /\ maps = Things(now.maps, base.maps, made.maps)
  OBVIOUS
<1>2. result = [shapes |-> shapes, maps |-> maps,
                group  |-> IF made.group # base.group THEN made.group ELSE now.group]
  BY <1>1 DEF MapMerge
<1>3. result.group = [kids |-> result.group.kids, locked |-> result.group.locked]
  BY <1>2 DEF MapPage
<1>4. IsMap(shapes) /\ \A n \in DOMAIN shapes : IsSketch(shapes[n])
  <2>1. \A n \in DOMAIN shapes : \/ n \in DOMAIN made.shapes /\ shapes[n] = made.shapes[n]
                                 \/ n \in DOMAIN now.shapes /\ shapes[n] = now.shapes[n]
                                 \/ n \in DOMAIN now.shapes
                                    /\ shapes[n] = Record(now.shapes[n], base.shapes[n], made.shapes[n])
    BY <1>1
  <2>2. ASSUME NEW n \in DOMAIN now.shapes
        PROVE  IsSketch(Record(now.shapes[n], base.shapes[n], made.shapes[n]))
    <3>1. IsSketch(now.shapes[n])
      BY <2>2 DEF MapPage
    <3>2. DOMAIN now.shapes[n] = {"lines", "x", "y", "locked"}
      BY <3>1 DEF IsSketch
    <3> QED
      BY <3>2 DEF IsSketch
  <2>3. IsMap(shapes)
    BY <1>1 DEF IsMap
  <2> HIDE DEF Record
  <2> QED
    BY <2>1, <2>2, <2>3 DEF MapPage
<1>5. IsMap(maps) /\ \A m \in DOMAIN maps : IsMindmap(maps[m])
  <2>1. \A m \in DOMAIN maps : \/ m \in DOMAIN made.maps /\ maps[m] = made.maps[m]
                               \/ m \in DOMAIN now.maps /\ maps[m] = now.maps[m]
                               \/ m \in DOMAIN now.maps
                                  /\ maps[m] = Record(now.maps[m], base.maps[m], made.maps[m])
    BY <1>1
  <2>2. ASSUME NEW m \in DOMAIN now.maps
        PROVE  IsMindmap(Record(now.maps[m], base.maps[m], made.maps[m]))
    <3>1. IsMindmap(now.maps[m])
      BY <2>2 DEF MapPage
    <3>2. DOMAIN now.maps[m] = {"kids", "layout", "style", "locked"}
      BY <3>1 DEF IsMindmap
    <3>3. IsMap(MergedMap(now.maps[m].kids, base.maps[m].kids, made.maps[m].kids))
      BY DEF MergedMap, IsMap
    <3> QED
      BY <3>2, <3>3 DEF IsMindmap
  <2>3. IsMap(maps)
    BY <1>1 DEF IsMap
  <2> HIDE DEF Record
  <2> QED
    BY <2>1, <2>2, <2>3 DEF MapPage
<1> HIDE DEF Record, Things
<1> QED
  BY <1>2, <1>3, <1>4, <1>5 DEF MapPage

-----------------------------------------------------------------------------
(* Laying a tree out moves shapes and changes nothing else.                *)
LEMMA OnlyMoved ==
  ASSUME NEW d, NEW m, MapPage(d)
  PROVE  LET e == layoutTree(d, m) IN
         /\ MapPage(e)
         /\ e.maps = d.maps /\ e.group = d.group /\ DOMAIN e.shapes = DOMAIN d.shapes
<1>1. PICK final : layoutTree(d, m) =
        [d EXCEPT !.shapes = [n \in DOMAIN d.shapes |->
           IF n \in MapNodes(d, m)
           THEN [d.shapes[n] EXCEPT !.x = final[n].x, !.y = final[n].y] ELSE d.shapes[n]]]
  BY DEF layoutTree
<1>2. PICK shapes : shapes = [n \in DOMAIN d.shapes |->
           IF n \in MapNodes(d, m)
           THEN [d.shapes[n] EXCEPT !.x = final[n].x, !.y = final[n].y] ELSE d.shapes[n]]
  OBVIOUS
<1>3. IsMap(shapes) /\ DOMAIN shapes = DOMAIN d.shapes
  BY <1>2 DEF IsMap
<1>4. ASSUME NEW n \in DOMAIN shapes PROVE IsSketch(shapes[n])
  <2>1. IsSketch(d.shapes[n])
    BY <1>3, <1>4 DEF MapPage
  <2>2. DOMAIN d.shapes[n] = {"lines", "x", "y", "locked"}
    BY <2>1 DEF IsSketch
  <2> QED
    BY <1>2, <1>3, <1>4, <2>1, <2>2 DEF IsSketch
<1>5. layoutTree(d, m) = [d EXCEPT !.shapes = shapes]
  BY <1>1, <1>2
<1>6. DOMAIN d = {"shapes", "maps", "group"}
  BY DEF MapPage
<1>7. PICK e : e = layoutTree(d, m)
  OBVIOUS
<1>8. e = [shapes |-> shapes, maps |-> d.maps, group |-> d.group]
  BY <1>5, <1>6, <1>7
<1>9. MapPage(e)
  BY <1>3, <1>4, <1>8 DEF MapPage
<1> QED
  BY <1>3, <1>7, <1>8, <1>9

(* What can be read before the layout can be read after it.                *)
LEMMA ReadableStill ==
  ASSUME NEW d, NEW e, MapsReadable(d), e.maps = d.maps, e.group.kids = d.group.kids,
         DOMAIN d.shapes \subseteq DOMAIN e.shapes
  PROVE  MapsReadable(e)
BY DEF MapsReadable, ReadableTree, MapNodes

(* An operation on one map that leaves the others, the group and the       *)
(* shapes there are: when the map it changed can be read, all can.         *)
MapChanged(d, e, m) ==
  /\ DOMAIN e.maps = DOMAIN d.maps \cup {m}
  /\ \A o \in DOMAIN d.maps \ {m} : e.maps[o].kids = d.maps[o].kids
  /\ TheMap \notin MapNodes(e, m)
  /\ DOMAIN d.shapes \subseteq DOMAIN e.shapes
  /\ e.group = d.group
LEMMA OthersReadable ==
  ASSUME NEW d, NEW e, NEW m, MapsReadable(d), MapChanged(d, e, m), ReadableTree(e, m)
  PROVE  MapsReadable(e)
<1>1. ASSUME NEW o \in DOMAIN e.maps, o # m PROVE ReadableTree(e, o) /\ TheMap \notin MapNodes(e, o)
  <2>1. o \in DOMAIN d.maps /\ e.maps[o].kids = d.maps[o].kids /\ ReadableTree(d, o)
        /\ TheMap \notin MapNodes(d, o)
    BY <1>1 DEF MapChanged, MapsReadable
  <2>2. ASSUME NEW p \in DOMAIN e.maps \ {o} PROVE MapNodes(e, p) \cap MapNodes(e, o) = {}
    <3>1. CASE p = m
      BY <1>1, <3>1 DEF ReadableTree
    <3>2. CASE p # m
      <4>1. p \in DOMAIN d.maps \ {o} /\ e.maps[p].kids = d.maps[p].kids
        BY <2>2, <3>2 DEF MapChanged
      <4> QED
        BY <2>1, <4>1 DEF ReadableTree, MapNodes
    <3> QED
      BY <3>1, <3>2
  <2>3. MapNodes(e, o) = MapNodes(d, o)
    BY <2>1 DEF MapNodes
  <2>4. /\ o \in DOMAIN e.maps /\ TreeOf(e.maps[o].kids)
        /\ MapNodes(e, o) \subseteq DOMAIN e.shapes
        /\ e.group.kids \cap MapNodes(e, o) = {}
    BY <1>1, <2>1, <2>3 DEF ReadableTree, MapChanged
  <2> QED
    BY <2>1, <2>2, <2>3, <2>4 DEF ReadableTree
<1> QED
  BY <1>1 DEF MapsReadable, MapChanged

(* What an operation makes of a page, read again and laid out.             *)
LEMMA LaidOutReadable ==
  ASSUME NEW d, NEW m, NEW changed,
         \A e \in changed : MapPage(e) /\ (MapsReadable(d) => MapChanged(d, e, m))
  PROVE  \A r \in LaidOut(changed, m) : MapPage(r) /\ (MapsReadable(d) => MapsReadable(r))
<1>1. ASSUME NEW r \in LaidOut(changed, m)
      PROVE  MapPage(r) /\ (MapsReadable(d) => MapsReadable(r))
  <2>1. PICK e \in changed : r = layoutTree(e, m) /\ ReadableTree(e, m)
    BY <1>1 DEF LaidOut, Revalidated
  <2>2. MapPage(e) /\ (MapsReadable(d) => MapChanged(d, e, m))
    OBVIOUS
  <2>3. MapPage(r) /\ r.maps = e.maps /\ r.group = e.group /\ DOMAIN r.shapes = DOMAIN e.shapes
    BY <2>1, <2>2, OnlyMoved
  <2>4. MapsReadable(d) => MapsReadable(e)
    BY <2>1, <2>2, OthersReadable
  <2> QED
    BY <2>3, <2>4, ReadableStill
<1> QED
  BY <1>1

(* A page whose map m became r, with shapes changed or added.              *)
LEMMA MapEdited ==
  ASSUME NEW d, NEW m \in DOMAIN d.maps, MapPage(d), NEW shapes, NEW r,
         IsMap(shapes), \A n \in DOMAIN shapes : IsSketch(shapes[n]),
         DOMAIN d.shapes \subseteq DOMAIN shapes,
         IsMindmap(r), MapsReadable(d) => TheMap \notin DOMAIN r.kids,
         NEW e, e = [shapes |-> shapes, maps |-> [d.maps EXCEPT ![m] = r], group |-> d.group]
  PROVE  MapPage(e) /\ (MapsReadable(d) => MapChanged(d, e, m))
<1>1. PICK maps : maps = [d.maps EXCEPT ![m] = r]
  OBVIOUS
<1>2. IsMap(maps) /\ DOMAIN maps = DOMAIN d.maps /\ maps[m] = r
      /\ \A o \in DOMAIN d.maps \ {m} : maps[o] = d.maps[o]
  BY <1>1 DEF IsMap
<1>3. e.shapes = shapes /\ e.maps = maps /\ e.group = d.group
      /\ e = [shapes |-> e.shapes, maps |-> e.maps, group |-> e.group]
  BY <1>1
<1>4. \A o \in DOMAIN maps : IsMindmap(maps[o])
  BY <1>2 DEF MapPage
<1>5. MapPage(e)
  BY <1>2, <1>3, <1>4 DEF MapPage
<1>6. MapsReadable(d) => MapChanged(d, e, m)
  BY <1>2, <1>3 DEF MapChanged, MapNodes
<1> QED
  BY <1>5, <1>6

(* A new map.                                                              *)
LEMMA MapCreated ==
  ASSUME NEW d, MapPage(d), NEW c \in MapCalls, NEW layout, NEW style
  PROVE  \A r \in CreatedMap(d, c, layout, style) : MapPage(r) /\ (MapsReadable(d) => MapsReadable(r))
<1>1. PICK kids, shapes, new, maps, e :
        /\ kids = [n \in {NewNode(c)} |-> Detail(NoParent, 64)]
        /\ shapes = MapSet(d.shapes, NewNode(c), Sketch(1, 0, 0))
        /\ new = Mindmap(kids, layout, style)
        /\ maps = MapSet(d.maps, c, new)
        /\ e = [d EXCEPT !.shapes = shapes, !.maps = maps]
  OBVIOUS
<1>2. CreatedMap(d, c, layout, style) = LaidOut({e}, c)
  BY <1>1 DEF CreatedMap
<1>3. e = [shapes |-> shapes, maps |-> maps, group |-> d.group]
  BY <1>1 DEF MapPage
<1>4. IsMap(shapes) /\ DOMAIN d.shapes \subseteq DOMAIN shapes
      /\ \A n \in DOMAIN shapes : IsSketch(shapes[n])
  BY <1>1 DEF MapSet, IsMap, IsSketch, Sketch, MapPage
<1>5. IsMindmap(new) /\ new.kids = kids /\ DOMAIN kids = {NewNode(c)}
  BY <1>1 DEF IsMindmap, Mindmap, IsMap
<1>6. IsMap(maps) /\ DOMAIN maps = DOMAIN d.maps \cup {c} /\ maps[c] = new
      /\ \A o \in DOMAIN d.maps \ {c} : maps[o] = d.maps[o]
  BY <1>1 DEF MapSet, IsMap
<1>7. \A o \in DOMAIN maps : IsMindmap(maps[o])
  BY <1>5, <1>6 DEF MapPage
<1>8. MapPage(e)
  BY <1>3, <1>4, <1>6, <1>7 DEF MapPage
<1>9. TheMap \notin MapNodes(e, c)
  BY <1>3, <1>5, <1>6, MindmapsAssumption DEF MapNodes
<1>10. MapChanged(d, e, c)
  BY <1>3, <1>4, <1>6, <1>9 DEF MapChanged
<1> QED
  BY <1>2, <1>8, <1>10, LaidOutReadable

(* A new node in a map.                                                    *)
LEMMA NodeAdded ==
  ASSUME NEW d, MapPage(d), NEW c \in MapCalls, NEW m \in DOMAIN d.maps, NEW parent, NEW before
  PROVE  \A e \in AddedNode(d, c, m, parent, before) :
           MapPage(e) /\ (MapsReadable(d) => MapChanged(d, e, m))
<1>1. ASSUME NEW e \in AddedNode(d, c, m, parent, before)
      PROVE  MapPage(e) /\ (MapsReadable(d) => MapChanged(d, e, m))
  <2>1. PICK i : e = [d EXCEPT !.shapes = MapSet(@, NewNode(c), Sketch(1, 0, 0)),
                               !.maps[m].kids = MapSet(@, NewNode(c), Detail(parent, i))]
    BY <1>1 DEF AddedNode
  <2>2. PICK kids, shapes, r : /\ kids = MapSet(d.maps[m].kids, NewNode(c), Detail(parent, i))
                               /\ shapes = MapSet(d.shapes, NewNode(c), Sketch(1, 0, 0))
                               /\ r = [d.maps[m] EXCEPT !.kids = kids]
    OBVIOUS
  <2>3. e = [shapes |-> shapes, maps |-> [d.maps EXCEPT ![m] = r], group |-> d.group]
    BY <2>1, <2>2 DEF MapPage
  <2>4. IsMap(shapes) /\ DOMAIN d.shapes \subseteq DOMAIN shapes
        /\ \A n \in DOMAIN shapes : IsSketch(shapes[n])
    BY <2>2 DEF MapSet, IsMap, IsSketch, Sketch, MapPage
  <2>5. IsMap(kids) /\ DOMAIN kids = MapNodes(d, m) \cup {NewNode(c)}
    BY <2>2 DEF MapSet, IsMap, MapNodes
  <2>6. IsMindmap(d.maps[m])
    BY DEF MapPage
  <2>7. r = [kids |-> kids, layout |-> d.maps[m].layout, style |-> d.maps[m].style, locked |-> d.maps[m].locked]
    BY <2>2, <2>6 DEF IsMindmap
  <2>8. IsMindmap(r) /\ r.kids = kids
    BY <2>5, <2>7 DEF IsMindmap
  <2>9. MapsReadable(d) => TheMap \notin DOMAIN r.kids
    BY <2>5, <2>8, MindmapsAssumption DEF MapsReadable
  <2> HIDE <2>1, <2>2, <2>5, <2>6, <2>7
  <2> QED
    BY <2>3, <2>4, <2>8, <2>9, MapEdited
<1> QED
  BY <1>1

(* The shape of a node, changed.                                           *)
LEMMA NodeRelabelled ==
  ASSUME NEW d, MapPage(d), NEW m \in DOMAIN d.maps, NEW n, NEW lines
  PROVE  \A e \in Relabelled(d, n, lines) : MapPage(e) /\ (MapsReadable(d) => MapChanged(d, e, m))
<1>1. PICK e : e = [d EXCEPT !.shapes[n].lines = lines]
  OBVIOUS
<1>2. PICK shapes : shapes = [d.shapes EXCEPT ![n].lines = lines]
  OBVIOUS
<1>3. e = [shapes |-> shapes, maps |-> d.maps, group |-> d.group]
  BY <1>1, <1>2 DEF MapPage
<1>4. IsMap(shapes) /\ DOMAIN shapes = DOMAIN d.shapes
  BY <1>2 DEF IsMap
<1>5. ASSUME NEW x \in DOMAIN shapes PROVE IsSketch(shapes[x])
  BY <1>2, <1>4, <1>5 DEF MapPage, IsSketch
<1>6. MapPage(e)
  BY <1>3, <1>4, <1>5 DEF MapPage
<1>7. MapsReadable(d) => MapChanged(d, e, m)
  BY <1>3, <1>4 DEF MapsReadable, MapChanged, MapNodes
<1> QED
  BY <1>1, <1>6, <1>7 DEF Relabelled

(* A map, changed without a new node.                                      *)
LEMMA MapReplaced ==
  ASSUME NEW d, MapPage(d), NEW m \in DOMAIN d.maps, NEW r, IsMindmap(r), DOMAIN r.kids = MapNodes(d, m),
         NEW e, e = [d EXCEPT !.maps[m] = r]
  PROVE  MapPage(e) /\ (MapsReadable(d) => MapChanged(d, e, m))
<1>1. e = [shapes |-> d.shapes, maps |-> [d.maps EXCEPT ![m] = r], group |-> d.group]
  BY DEF MapPage
<1>2. IsMap(d.shapes) /\ \A n \in DOMAIN d.shapes : IsSketch(d.shapes[n])
  BY DEF MapPage
<1>3. MapsReadable(d) => TheMap \notin DOMAIN r.kids
  BY DEF MapsReadable
<1> QED
  BY <1>1, <1>2, <1>3, MapEdited

(* The operations that change a map and no shape.                          *)
LEMMA MapRewritten ==
  ASSUME NEW d, MapPage(d), NEW m \in DOMAIN d.maps, NEW e,
         \/ \E n, collapsed : e \in Collapsed(d, m, n, collapsed)
         \/ \E n, parent, before : e \in Reparented(d, m, n, parent, before)
         \/ \E style : e = [d EXCEPT !.maps[m].style = style]
         \/ \E layout : e = [d EXCEPT !.maps[m].layout = layout]
         \/ \E locked : e = [d EXCEPT !.maps[m].locked = locked]
  PROVE  MapPage(e) /\ (MapsReadable(d) => MapChanged(d, e, m))
<1>1. IsMindmap(d.maps[m]) /\ DOMAIN d.maps[m] = {"kids", "layout", "style", "locked"} /\ IsMap(d.maps[m].kids)
  BY DEF MapPage, IsMindmap
<1>2. ASSUME NEW r, \/ \E kids : r = [d.maps[m] EXCEPT !.kids = kids] /\ IsMap(kids) /\ DOMAIN kids = MapNodes(d, m)
                    \/ \E style : r = [d.maps[m] EXCEPT !.style = style]
                    \/ \E layout : r = [d.maps[m] EXCEPT !.layout = layout]
                    \/ \E locked : r = [d.maps[m] EXCEPT !.locked = locked]
      PROVE  IsMindmap(r) /\ DOMAIN r.kids = MapNodes(d, m)
  BY <1>1, <1>2 DEF IsMindmap, MapNodes
<1> DEFINE Kind(r) == \/ \E kids : r = [d.maps[m] EXCEPT !.kids = kids] /\ IsMap(kids) /\ DOMAIN kids = MapNodes(d, m)
                      \/ \E style : r = [d.maps[m] EXCEPT !.style = style]
                      \/ \E layout : r = [d.maps[m] EXCEPT !.layout = layout]
                      \/ \E locked : r = [d.maps[m] EXCEPT !.locked = locked]
<1>3. PICK r : e = [d EXCEPT !.maps[m] = r] /\ Kind(r)
  <2>1. ASSUME NEW n, NEW collapsed, e \in Collapsed(d, m, n, collapsed)
        PROVE  \E r : e = [d EXCEPT !.maps[m] = r] /\ Kind(r)
    <3>1. PICK kids : kids = [d.maps[m].kids EXCEPT ![n].collapsed = collapsed]
      OBVIOUS
    <3>2. e = [d EXCEPT !.maps[m] = [d.maps[m] EXCEPT !.kids = kids]]
      BY <2>1, <3>1 DEF Collapsed
    <3>3. IsMap(kids) /\ DOMAIN kids = MapNodes(d, m)
      BY <1>1, <3>1 DEF IsMap, MapNodes
    <3>4. Kind([d.maps[m] EXCEPT !.kids = kids])
      BY <3>3
    <3> QED
      BY <3>2, <3>4
  <2>2. ASSUME NEW n, NEW parent, NEW before, e \in Reparented(d, m, n, parent, before)
        PROVE  \E r : e = [d EXCEPT !.maps[m] = r] /\ Kind(r)
    <3>1. PICK i : e = [d EXCEPT !.maps[m].kids[n] = [@ EXCEPT !.parent = parent, !.index = i]]
      BY <2>2 DEF Reparented
    <3>2. PICK kids : kids = [d.maps[m].kids EXCEPT ![n] = [@ EXCEPT !.parent = parent, !.index = i]]
      OBVIOUS
    <3>3. e = [d EXCEPT !.maps[m] = [d.maps[m] EXCEPT !.kids = kids]]
      BY <3>1, <3>2
    <3>4. IsMap(kids) /\ DOMAIN kids = MapNodes(d, m)
      BY <1>1, <3>2 DEF IsMap, MapNodes
    <3>5. Kind([d.maps[m] EXCEPT !.kids = kids])
      BY <3>4
    <3> QED
      BY <3>3, <3>5
  <2>3. ASSUME NEW style, e = [d EXCEPT !.maps[m].style = style]
        PROVE  \E r : e = [d EXCEPT !.maps[m] = r] /\ Kind(r)
    <3>1. e = [d EXCEPT !.maps[m] = [d.maps[m] EXCEPT !.style = style]]
      BY <2>3
    <3>2. Kind([d.maps[m] EXCEPT !.style = style])
      OBVIOUS
    <3> QED
      BY <3>1, <3>2
  <2>4. ASSUME NEW layout, e = [d EXCEPT !.maps[m].layout = layout]
        PROVE  \E r : e = [d EXCEPT !.maps[m] = r] /\ Kind(r)
    <3>1. e = [d EXCEPT !.maps[m] = [d.maps[m] EXCEPT !.layout = layout]]
      BY <2>4
    <3>2. Kind([d.maps[m] EXCEPT !.layout = layout])
      OBVIOUS
    <3> QED
      BY <3>1, <3>2
  <2>5. ASSUME NEW locked, e = [d EXCEPT !.maps[m].locked = locked]
        PROVE  \E r : e = [d EXCEPT !.maps[m] = r] /\ Kind(r)
    <3>1. e = [d EXCEPT !.maps[m] = [d.maps[m] EXCEPT !.locked = locked]]
      BY <2>5
    <3>2. Kind([d.maps[m] EXCEPT !.locked = locked])
      OBVIOUS
    <3> QED
      BY <3>1, <3>2
  <2> HIDE DEF Kind
  <2> QED
    BY <2>1, <2>2, <2>3, <2>4, <2>5
<1>4. IsMindmap(r) /\ DOMAIN r.kids = MapNodes(d, m)
  BY <1>2, <1>3
<1>5. e = [d EXCEPT !.maps[m] = r]
  BY <1>3
<1> QED
  BY <1>4, <1>5, MapReplaced

-----------------------------------------------------------------------------
(* The page the tools start from.                                          *)
LEMMA MapsStart == MindmapsInit => MapsInv
<1> SUFFICES ASSUME MindmapsInit PROVE MapsInv
  OBVIOUS
<1>1. /\ mDoc = layoutTree(StartMap, TheMap) /\ mPhase = [c \in MapCalls |-> "idle"]
      /\ mStale = FALSE /\ mAbused = FALSE
  BY DEF MindmapsInit, MU!UpdatesInit
<1>2. MapPage(StartMap) /\ MapsReadable(StartMap)
  BY MindmapsAssumption DEF MapsReadable
<1>3. MapPage(mDoc) /\ MapsReadable(mDoc)
  BY <1>1, <1>2, OnlyMoved, ReadableStill
<1> QED
  BY <1>1, <1>3 DEF MapsInv, MapPhases

(* A handler that pushes a page whose maps can be read.                    *)
LEMMA MapHandlerKeeps ==
  ASSUME MapsInv, NEW c \in MapCalls, NEW results, NEW asked, MU!Handled(c, results, asked),
         mAbused' \in BOOLEAN, mAbused => mAbused',
         \A r \in results : MapPage(r) /\ (~mAbused' /\ MapsReadable(mDoc) => MapsReadable(r))
  PROVE  MapsInv'
<1>1. mDoc' = mDoc /\ mStale' = mStale /\ MapPage(mDoc) /\ mPhase \in [MapCalls -> MapPhases]
      /\ mStale \in BOOLEAN
  BY DEF MU!Handled, MapsInv
<1>2. CASE mPhase' = [mPhase EXCEPT ![c] = "refused"] /\ mUpdate' = mUpdate
  <2>1. mPhase' \in [MapCalls -> MapPhases]
        /\ \A o \in MapCalls : mPhase'[o] \in {"sent", "lost"} => mPhase[o] \in {"sent", "lost"}
    BY <1>1, <1>2 DEF MapPhases
  <2> QED
    BY <1>1, <1>2, <2>1 DEF MapsInv, MapUpdateFits
<1>3. ASSUME NEW r \in results, mPhase' = [mPhase EXCEPT ![c] = "sent"],
             mUpdate' = [o \in MapCalls |->
                IF o = c THEN [base |-> mDoc, made |-> r, asked |-> asked]
                ELSE IF mPhase[o] = "lost" THEN mUpdate[o] ELSE MU!Nothing],
             \A o \in MapCalls : mPhase[o] # "sent"
      PROVE  MapsInv'
  <2>1. mPhase' \in [MapCalls -> MapPhases]
        /\ \A o \in MapCalls : mPhase'[o] \in {"sent", "lost"} => o = c \/ mPhase[o] = "lost"
    BY <1>1, <1>3 DEF MapPhases
  <2>2. mUpdate'[c].base = mDoc /\ mUpdate'[c].made = r
    BY <1>3
  <2>3. \A o \in MapCalls \ {c} : mPhase[o] = "lost" => mUpdate'[o] = mUpdate[o]
    BY <1>3
  <2>4. MapPage(r) /\ (~mAbused' /\ MapsReadable(mDoc) => MapsReadable(r))
    BY <1>3
  <2>5. ASSUME NEW o \in MapCalls, mPhase'[o] \in {"sent", "lost"}
        PROVE  /\ MapUpdateFits(o)'
               /\ ~mStale' /\ ~mAbused' => MapsReadable(mUpdate'[o].made)
    <3>1. CASE o = c
      BY <1>1, <2>2, <2>4, <3>1 DEF MapsInv, MapUpdateFits
    <3>2. CASE o # c
      BY <1>1, <2>1, <2>3, <2>5, <3>2 DEF MapsInv, MapUpdateFits
    <3> QED
      BY <3>1, <3>2
  <2> QED
    BY <1>1, <2>1, <2>5 DEF MapsInv
<1> QED
  BY <1>2, <1>3 DEF MU!Handled

(* The merge of an update, in order or late.                               *)
LEMMA MapMergeKeeps ==
  ASSUME MapsInv, NEW c \in MapCalls, MU!MergeUpdate(c), mAbused' = mAbused
  PROVE  MapsInv'
<1>1. PICK base, made : base = mUpdate[c].base /\ made = mUpdate[c].made
  OBVIOUS
<1>2. /\ mPhase[c] \in {"sent", "lost"} /\ mDoc' = MapMerge(mDoc, base, made) /\ mUpdate' = mUpdate
      /\ mStale' = (mStale \/ mDoc # base)
      /\ mPhase' \in [MapCalls -> MapPhases]
      /\ \A o \in MapCalls : mPhase'[o] \in {"sent", "lost"} => mPhase[o] \in {"sent", "lost"}
  BY <1>1 DEF MapsInv, MU!MergeUpdate, MapPhases
<1>3. MapPage(mDoc) /\ MapPage(base) /\ MapPage(made)
  BY <1>1, <1>2 DEF MapsInv, MapUpdateFits
<1>4. MapPage(mDoc')
  BY <1>2, <1>3, MapMergeFits
<1>5. mDoc = base => mDoc' = made
  BY <1>2, <1>3, MapMergesInPlace
<1>6. ~mStale' /\ ~mAbused' => MapsReadable(mDoc')
  BY <1>1, <1>2, <1>5 DEF MapsInv
<1> QED
  BY <1>2, <1>4, <1>6 DEF MapsInv, MapUpdateFits

(* What one edit of an unlocked map pushes.                                *)
LEMMA EditedReadable ==
  ASSUME MapPage(mDoc), NEW m, NEW changed,
         \A e \in changed : MapPage(e) /\ (MapsReadable(mDoc) => MapChanged(mDoc, e, m))
  PROVE  \A r \in Edited(mDoc, m, changed) :
           MapPage(r) /\ (~mAbused' /\ MapsReadable(mDoc) => MapsReadable(r))
BY LaidOutReadable DEF Edited

(* A call of the mind map tools.                                           *)
LEMMA MapCallKeeps ==
  ASSUME MapsInv, NEW c \in MapCalls, MindmapCall(c)
  PROVE  MapsInv'
<1>1. MapPage(mDoc) /\ mAbused' = mAbused /\ mAbused' \in BOOLEAN
  BY DEF MapsInv, MindmapCall
<1>2. ASSUME NEW layout \in Layouts, NEW style \in Styles,
             MU!Handled(c, CreatedMap(mDoc, c, layout, style), Settled(c))
      PROVE  MapsInv'
  <2>1. \A r \in CreatedMap(mDoc, c, layout, style) :
          MapPage(r) /\ (~mAbused' /\ MapsReadable(mDoc) => MapsReadable(r))
    BY <1>1, MapCreated
  <2> QED
    BY <1>1, <1>2, <2>1, MapHandlerKeeps
<1>3. ASSUME NEW m \in DOMAIN mDoc.maps, NEW n, NEW before,
             MU!Handled(c, Edited(mDoc, m, AddedNode(mDoc, c, m, n, before)), Settled(m))
      PROVE  MapsInv'
  <2>1. \A e \in AddedNode(mDoc, c, m, n, before) :
          MapPage(e) /\ (MapsReadable(mDoc) => MapChanged(mDoc, e, m))
    BY <1>1, NodeAdded
  <2>2. PICK results : results = Edited(mDoc, m, AddedNode(mDoc, c, m, n, before))
    OBVIOUS
  <2>3. \A r \in results : MapPage(r) /\ (~mAbused' /\ MapsReadable(mDoc) => MapsReadable(r))
    BY <1>1, <2>1, <2>2, EditedReadable
  <2> QED
    BY <1>1, <1>3, <2>2, <2>3, MapHandlerKeeps
<1>4. ASSUME NEW m \in DOMAIN mDoc.maps, NEW n, NEW lines,
             MU!Handled(c, Edited(mDoc, m, Relabelled(mDoc, n, lines)), Settled(m))
      PROVE  MapsInv'
  <2>1. \A e \in Relabelled(mDoc, n, lines) :
          MapPage(e) /\ (MapsReadable(mDoc) => MapChanged(mDoc, e, m))
    BY <1>1, NodeRelabelled
  <2>2. PICK results : results = Edited(mDoc, m, Relabelled(mDoc, n, lines))
    OBVIOUS
  <2>3. \A r \in results : MapPage(r) /\ (~mAbused' /\ MapsReadable(mDoc) => MapsReadable(r))
    BY <1>1, <2>1, <2>2, EditedReadable
  <2> QED
    BY <1>1, <1>4, <2>2, <2>3, MapHandlerKeeps
<1>5. ASSUME NEW m \in DOMAIN mDoc.maps, NEW changed, MU!Handled(c, Edited(mDoc, m, changed), Settled(m)),
             \A e \in changed : \/ \E n, collapsed : e \in Collapsed(mDoc, m, n, collapsed)
                                \/ \E n, parent, before : e \in Reparented(mDoc, m, n, parent, before)
                                \/ \E style : e = [mDoc EXCEPT !.maps[m].style = style]
                                \/ \E layout : e = [mDoc EXCEPT !.maps[m].layout = layout]
      PROVE  MapsInv'
  <2>1. ASSUME NEW e \in changed PROVE MapPage(e) /\ (MapsReadable(mDoc) => MapChanged(mDoc, e, m))
    <3>1. \/ \E n, collapsed : e \in Collapsed(mDoc, m, n, collapsed)
          \/ \E n, parent, before : e \in Reparented(mDoc, m, n, parent, before)
          \/ \E style : e = [mDoc EXCEPT !.maps[m].style = style]
          \/ \E layout : e = [mDoc EXCEPT !.maps[m].layout = layout]
      BY <1>5
    <3> QED
      BY <1>1, <3>1, MapRewritten
  <2>2. PICK results : results = Edited(mDoc, m, changed)
    OBVIOUS
  <2>3. \A r \in results : MapPage(r) /\ (~mAbused' /\ MapsReadable(mDoc) => MapsReadable(r))
    BY <1>1, <2>1, <2>2, EditedReadable
  <2>4. MU!Handled(c, results, Settled(m))
    BY <1>5, <2>2
  <2> QED
    BY <1>1, <2>3, <2>4, MapHandlerKeeps
<1>6. ASSUME NEW m \in DOMAIN mDoc.maps, NEW locked, MU!Handled(c, LockSet(mDoc, m, locked), {})
      PROVE  MapsInv'
  <2>1. ASSUME NEW r \in LockSet(mDoc, m, locked)
        PROVE  MapPage(r) /\ (~mAbused' /\ MapsReadable(mDoc) => MapsReadable(r))
    <3>1. r = [mDoc EXCEPT !.maps[m].locked = locked] /\ ReadableTree(mDoc, m)
      BY <2>1 DEF LockSet
    <3>2. MapPage(r) /\ (MapsReadable(mDoc) => MapChanged(mDoc, r, m))
      BY <1>1, <3>1, MapRewritten
    <3>3. /\ r.shapes = mDoc.shapes /\ r.group = mDoc.group /\ DOMAIN r.maps = DOMAIN mDoc.maps
          /\ \A o \in DOMAIN r.maps : r.maps[o].kids = mDoc.maps[o].kids
      <4>1. IsMindmap(mDoc.maps[m])
        BY <1>1 DEF MapPage
      <4>2. \A o \in DOMAIN mDoc.maps : o # m => r.maps[o].kids = mDoc.maps[o].kids
        BY <1>1, <3>1 DEF MapPage
      <4>3. r.maps[m].kids = mDoc.maps[m].kids
        BY <1>1, <3>1, <4>1 DEF MapPage, IsMindmap
      <4> QED
        BY <1>1, <3>1, <4>2, <4>3 DEF MapPage
    <3>4. MapsReadable(mDoc) => MapsReadable(r)
      BY <3>3 DEF MapsReadable, ReadableTree, MapNodes
    <3> QED
      BY <3>2, <3>4
  <2> QED
    BY <1>1, <1>6, <2>1, MapHandlerKeeps
<1>7. ASSUME NEW m \in DOMAIN mDoc.maps, NEW n, NEW collapsed,
             MU!Handled(c, Edited(mDoc, m, Collapsed(mDoc, m, n, collapsed)), Settled(m))
      PROVE  MapsInv'
  <2>1. PICK changed : changed = Collapsed(mDoc, m, n, collapsed)
    OBVIOUS
  <2> QED
    BY <1>5, <1>7, <2>1
<1>8. ASSUME NEW m \in DOMAIN mDoc.maps, NEW n, NEW parent, NEW before,
             MU!Handled(c, Edited(mDoc, m, Reparented(mDoc, m, n, parent, before)), Settled(m))
      PROVE  MapsInv'
  <2>1. PICK changed : changed = Reparented(mDoc, m, n, parent, before)
    OBVIOUS
  <2> QED
    BY <1>5, <1>8, <2>1
<1>9. ASSUME NEW m \in DOMAIN mDoc.maps, NEW style,
             MU!Handled(c, Edited(mDoc, m, {[mDoc EXCEPT !.maps[m].style = style]}), Settled(m))
      PROVE  MapsInv'
  <2>1. PICK changed : changed = {[mDoc EXCEPT !.maps[m].style = style]}
    OBVIOUS
  <2> QED
    BY <1>5, <1>9, <2>1
<1>10. ASSUME NEW m \in DOMAIN mDoc.maps, NEW layout,
             MU!Handled(c, Edited(mDoc, m, {[mDoc EXCEPT !.maps[m].layout = layout]}), Settled(m))
      PROVE  MapsInv'
  <2>1. PICK changed : changed = {[mDoc EXCEPT !.maps[m].layout = layout]}
    OBVIOUS
  <2> QED
    BY <1>5, <1>10, <2>1
<1> QED
  BY <1>2, <1>3, <1>4, <1>6, <1>7, <1>8, <1>9, <1>10 DEF MindmapCall

(* A call of the general surface tools.                                    *)
LEMMA SurfaceToolKeeps ==
  ASSUME MapsInv, NEW c \in MapCalls, surfaceTool(c)
  PROVE  MapsInv'
<1>1. MapPage(mDoc) /\ mAbused \in BOOLEAN
  BY DEF MapsInv
<1>2. ASSUME NEW n \in DOMAIN mDoc.shapes,
             MU!Handled(c, {[mDoc EXCEPT !.shapes = MapDelete(@, n)]}, {}), mAbused' = TRUE
      PROVE  MapsInv'
  <2>1. PICK r : r = [mDoc EXCEPT !.shapes = MapDelete(@, n)]
    OBVIOUS
  <2>2. MapPage(r)
    BY <1>1, <2>1 DEF MapPage, MapDelete, IsMap
  <2>3. MU!Handled(c, {r}, {})
    BY <1>2, <2>1
  <2>4. \A x \in {r} : MapPage(x) /\ (~mAbused' /\ MapsReadable(mDoc) => MapsReadable(x))
    BY <1>2, <2>2
  <2> QED
    BY <1>2, <2>3, <2>4, MapHandlerKeeps
<1>3. ASSUME NEW kids, MU!Handled(c, {[mDoc EXCEPT !.group.kids = kids]}, {}),
             mAbused' = (mAbused \/ kids \notin {{}, {TheMap}})
      PROVE  MapsInv'
  <2>1. PICK r : r = [mDoc EXCEPT !.group.kids = kids]
    OBVIOUS
  <2>2. r = [shapes |-> mDoc.shapes, maps |-> mDoc.maps,
             group |-> [kids |-> kids, locked |-> mDoc.group.locked]]
    BY <1>1, <2>1 DEF MapPage
  <2>3. MapPage(r)
    BY <1>1, <2>2 DEF MapPage
  <2>4. kids \in {{}, {TheMap}} /\ MapsReadable(mDoc) => MapsReadable(r)
    BY <2>2 DEF MapsReadable, ReadableTree, MapNodes
  <2>5. MU!Handled(c, {r}, {})
    BY <1>3, <2>1
  <2>6. \A x \in {r} : MapPage(x) /\ (~mAbused' /\ MapsReadable(mDoc) => MapsReadable(x))
    BY <1>3, <2>3, <2>4
  <2>7. mAbused' \in BOOLEAN /\ (mAbused => mAbused')
    BY <1>1, <1>3
  <2> QED
    BY <2>5, <2>6, <2>7, MapHandlerKeeps
<1> QED
  BY <1>2, <1>3 DEF surfaceTool

(* Every step of the mind map tools, the surface tools and the editor.     *)
LEMMA MapsNextKeeps == MapsInv /\ [MindmapsNext]_mapVars => MapsInv'
<1> SUFFICES ASSUME MapsInv, [MindmapsNext]_mapVars PROVE MapsInv'
  OBVIOUS
<1>1. ASSUME NEW c \in MapCalls, MU!LoseAck(c), mAbused' = mAbused PROVE MapsInv'
  <2>1. /\ mPhase[c] = "sent" /\ mUpdate' = mUpdate /\ mDoc' = mDoc /\ mStale' = mStale
        /\ mPhase' \in [MapCalls -> MapPhases]
        /\ \A o \in MapCalls : mPhase'[o] \in {"sent", "lost"} => mPhase[o] \in {"sent", "lost"}
    BY <1>1 DEF MapsInv, MU!LoseAck, MapPhases
  <2> QED
    BY <1>1, <2>1 DEF MapsInv, MapUpdateFits
<1>2. ASSUME EditorLocks PROVE MapsInv'
  <2>1. /\ mPhase' = mPhase /\ mUpdate' = mUpdate /\ mStale' = mStale /\ mAbused' = mAbused
        /\ MapPage(mDoc)
    BY <1>2 DEF EditorLocks, MapsInv
  <2>2. /\ MapPage(mDoc') /\ mDoc'.maps = mDoc.maps /\ mDoc'.group.kids = mDoc.group.kids
        /\ DOMAIN mDoc'.shapes = DOMAIN mDoc.shapes
    <3>1. CASE mDoc' = [mDoc EXCEPT !.group.locked = TRUE]
      <4>1. PICK yes : yes = TRUE
        OBVIOUS
      <4>2. PICK group : group = [mDoc.group EXCEPT !.locked = yes]
        OBVIOUS
      <4>3. mDoc' = [shapes |-> mDoc.shapes, maps |-> mDoc.maps, group |-> group]
        BY <2>1, <3>1, <4>1, <4>2 DEF MapPage
      <4>4. mDoc.group = [kids |-> mDoc.group.kids, locked |-> mDoc.group.locked]
        BY <2>1 DEF MapPage
      <4>5. DOMAIN group = {"kids", "locked"} /\ group.kids = mDoc.group.kids
            /\ group = [k \in DOMAIN group |-> group[k]]
        BY <4>2, <4>4
      <4>6. group = [kids |-> group.kids, locked |-> group.locked]
        BY <4>5
      <4> QED
        BY <2>1, <4>3, <4>5, <4>6 DEF MapPage
    <3>2. CASE Root \in DOMAIN mDoc.shapes /\ mDoc' = [mDoc EXCEPT !.shapes[Root].locked = TRUE]
      <4>1. PICK shapes : shapes = [mDoc.shapes EXCEPT ![Root].locked = TRUE]
        OBVIOUS
      <4>2. mDoc' = [shapes |-> shapes, maps |-> mDoc.maps, group |-> mDoc.group]
        BY <2>1, <3>2, <4>1 DEF MapPage
      <4>3. IsMap(shapes) /\ DOMAIN shapes = DOMAIN mDoc.shapes
        BY <4>1 DEF IsMap
      <4>4. \A n \in DOMAIN shapes : IsSketch(shapes[n])
        BY <2>1, <4>1, <4>3 DEF MapPage, IsSketch
      <4> QED
        BY <2>1, <4>2, <4>3, <4>4 DEF MapPage
    <3> QED
      BY <1>2, <3>1, <3>2 DEF EditorLocks
  <2>3. MapsReadable(mDoc) => MapsReadable(mDoc')
    BY <2>2, ReadableStill
  <2> QED
    BY <2>1, <2>2, <2>3 DEF MapsInv, MapUpdateFits
<1>3. ASSUME UNCHANGED mapVars PROVE MapsInv'
  BY <1>3 DEF mapVars, MapsInv, MapUpdateFits
<1>4. ASSUME MU!UpdatesDone, mAbused' = mAbused PROVE MapsInv'
  BY <1>4 DEF MU!UpdatesDone, MapsInv, MapUpdateFits
<1> QED
  BY <1>1, <1>2, <1>3, <1>4, MapCallKeeps, SurfaceToolKeeps, MapMergeKeeps DEF MindmapsNext

(* The invariant of the mind maps.                                         *)
THEOREM MindmapsSafety == MindmapsSpec => []MapsInv
<1>1. MapsInv /\ [MindmapsNext]_mapVars => MapsInv'
  BY MapsNextKeeps
<1> QED
  BY <1>1, MapsStart, PTL DEF MindmapsSpec

(* Every mind map stays readable until an update is merged late or a       *)
(* surface tool takes one of its shapes.                                   *)
THEOREM MapsStayReadable == MindmapsSpec => []MindmapsStayReadable
<1>1. MapsInv => MindmapsStayReadable
  BY DEF MapsInv, MapsReadable, MindmapsStayReadable
<1> QED
  BY <1>1, MindmapsSafety, PTL

-----------------------------------------------------------------------------
(***************************************************************************)
(* Databases.                                                              *)
(***************************************************************************)

(* The column of the id k has the data map it was created with.            *)
Owns(db, k) == k \in DOMAIN db.data /\ db.data[k] = OwnData

(* The database d, whole: its rows are its row blocks, its views show its  *)
(* columns, each cell has its row and its column, each data map its column *)
(* and each option its label; the options of a column that still has the   *)
(* data map it was created with are in that map.                           *)
WholeDatabase(d, db) ==
  /\ db = [columns |-> db.columns, data |-> db.data, options |-> db.options, views |-> db.views,
           shown |-> db.shown, rows |-> db.rows, blocks |-> db.blocks, cells |-> db.cells]
  /\ db.views = {NewId(d, "view")}
  /\ db.rows = db.blocks
  /\ db.shown = db.views \X {col.id : col \in db.columns}
  /\ \A x, y \in db.columns : x.id = y.id => x = y
  /\ IsMap(db.cells) /\ \A k \in DOMAIN db.cells : k[1] \in db.rows /\ \E col \in db.columns : col.id = k[2]
  /\ IsMap(db.data) /\ \A k \in DOMAIN db.data : \E col \in db.columns : col.id = k
  /\ \A o \in db.options : /\ o.label # NoLabel /\ o.column \in DOMAIN db.data
                           /\ Owns(db, o.column) => o.map = OwnData

(* Every cell has a label, or an option in some data map its column had.   *)
CellsReadable(db) ==
  \A k \in DOMAIN db.cells, col \in db.columns : col.id = k[2] =>
    IF col.type \in SelectTypes
    THEN \E o \in db.options : o.column = col.id /\ o.id = db.cells[k]
    ELSE db.cells[k] # NoLabel

(* Names and titles are unique and no option is left behind in a data map. *)
OrderlyDatabase(db) ==
  /\ \A x, y \in db.columns : (x.name = y.name \/ {x.type, y.type} = {"title"}) => x = y
  /\ \A o \in db.options : o.map = db.data[o.column]

(* No data map is lost, and no column loses the one it was created with,   *)
(* or gets it later.                                                       *)
DataKept(db, e) == \A k \in DOMAIN db.data : k \in DOMAIN e.data /\ e.data[k] = db.data[k]
OwnersKept(db, e) ==
  /\ DOMAIN db.data \subseteq DOMAIN e.data
  /\ \A col \in db.columns : Owns(db, col.id) <=> Owns(e, col.id)

(* The push that adds the column of an id.                                 *)
Maker(id) == IF id[2] = "Type" THEN Fill(id[1]) ELSE id[1]

(* The composition of d, if d was composed at all, replaced no options     *)
(* behind another update's back.                                           *)
OptionsKept(d) == d = Board \/ dPhase[Fill(d)] # "late"

(* What the update of push p changes in the database d.                    *)
DbChange(p, d) ==
  LET b == dUpdate[p].base[d]
      m == dUpdate[p].made[d]
  IN  /\ b.columns \subseteq m.columns \cap dDoc[d].columns
      /\ DataKept(b, m) /\ OwnersKept(b, m) /\ OwnersKept(b, dDoc[d])
      /\ \A col \in m.columns \ b.columns : Maker(col.id) = p
      /\ d = Board \/ p = Fill(d) \/ dPhase[Fill(d)] \notin {"idle", "sent"}
      /\ OptionsKept(d) =>
           /\ CellsReadable(m)
           /\ p # Fill(d) => b.options \subseteq m.options \cap dDoc[d].options

(* An update a call pushed and the server has not merged.                  *)
DbUpdateFits(p) ==
  LET base == dUpdate[p].base
      made == dUpdate[p].made
  IN  /\ IsMap(base) /\ IsMap(made)
      /\ DOMAIN base \subseteq DOMAIN dDoc \cap DOMAIN made
      /\ \A d \in DOMAIN base : WholeDatabase(d, base[d])
      /\ \A d \in DOMAIN made : WholeDatabase(d, made[d])
      /\ \A d \in DOMAIN base : made[d] # base[d] => DbChange(p, d)
      /\ \A d \in DOMAIN made \ DOMAIN base :
           p = d /\ d \in DbCalls /\ made[d] = EmptyBoard(d) /\ (d \in dComposing \/ dPhase[Fill(d)] # "idle")
      /\ ~dStale => \A d \in DOMAIN made : OrderlyDatabase(made[d])
      /\ \A d \in DbCalls \cap DOMAIN base :
           p = Fill(d) /\ dPhase[p] = "sent" => dDoc[d] = base[d]

DbPhases == {"idle", "sent", "merged", "refused", "lost", "late"}
PendingDb(p) == dPhase[p] \in {"sent", "lost"}
DbInv ==
  /\ dPhase \in [Pushes -> DbPhases]
  /\ dStale \in BOOLEAN
  /\ dComposing \subseteq DbCalls /\ \A x, y \in dComposing : x = y
  /\ IsMap(dDoc)
  /\ \A d \in DOMAIN dDoc :
       /\ WholeDatabase(d, dDoc[d])
       /\ OptionsKept(d) => CellsReadable(dDoc[d])
       /\ ~dStale => OrderlyDatabase(dDoc[d])
       /\ d # Board =>
            /\ d \in DbCalls /\ dPhase[d] \in {"merged", "late"}
            /\ d \in dComposing \/ dPhase[Fill(d)] # "idle"
            /\ dPhase[Fill(d)] = "idle" => dDoc[d] = EmptyBoard(d)
       /\ \A col \in dDoc[d].columns, p \in Pushes : Maker(col.id) = p => dPhase[p] \in {"merged", "late"}
  /\ \A p \in Pushes : PendingDb(p) => DbUpdateFits(p)

-----------------------------------------------------------------------------
(* The cells of a call are written one after the other.                    *)
CellSteps(f, db, c, row, cells, create) ==
  /\ f[0] = {db}
  /\ \A i \in 1..Len(cells) : \A x \in f[i] : \E e \in f[i - 1] : x \in WriteCell(e, c, row, cells[i], create)
LEMMA CellsStepByStep ==
  ASSUME NEW db, NEW c, NEW row, NEW cells, NEW createOption, Len(cells) \in Nat
  PROVE  \E f : /\ WriteCells(db, c, row, cells, createOption) = f[Len(cells)]
                /\ CellSteps(f, db, c, row, cells, createOption)
<1> DEFINE top == Len(cells)
           Write(done, i) == UNION {WriteCell(d, c, row, cells[i], createOption) : d \in done}
           Builds(g, m) == g = [i \in 0..m |-> IF i = 0 THEN {db} ELSE Write(g[i - 1], i)]
           unbuilt == {m \in 0..top : ~ \E g : Builds(g, m)}
<1>1. top \in Nat
  OBVIOUS
<1>2. unbuilt = {}
  <2>1. SUFFICES ASSUME unbuilt # {} PROVE FALSE
    OBVIOUS
  <2>2. unbuilt \in SUBSET Nat
    BY <1>1
  <2>3. PICK m \in unbuilt : \A k \in unbuilt : m <= k
    <3> HIDE DEF unbuilt
    <3> QED
      BY <2>1, <2>2, LeastNumber
  <2>4. m # 0
    <3>1. Builds([i \in 0..0 |-> {db}], 0)
      OBVIOUS
    <3> QED
      BY <3>1
  <2>5. m - 1 \in 0..top /\ m - 1 \notin unbuilt
    <3>1. m \in 0..top
      OBVIOUS
    <3> HIDE DEF unbuilt, top
    <3>2. m - 1 \in 0..top /\ m - 1 < m /\ m \in Nat /\ m - 1 \in Nat
      BY <1>1, <2>4, <3>1
    <3> QED
      BY <2>3, <3>2
  <2>6. PICK g : Builds(g, m - 1)
    BY <2>5
  <2> DEFINE h == [i \in 0..m |-> IF i = m THEN Write(g[m - 1], m) ELSE g[i]]
  <2> HIDE DEF Write
  <2>7. ASSUME NEW i \in 0..m PROVE h[i] = IF i = 0 THEN {db} ELSE Write(h[i - 1], i)
    <3>1. CASE i = m
      BY <1>1, <2>4, <3>1
    <3>2. CASE i # m
      <4>1. i \in 0..(m - 1)
        BY <1>1, <3>2
      <4>2. h[i] = g[i] /\ g[i] = IF i = 0 THEN {db} ELSE Write(g[i - 1], i)
        BY <2>6, <3>2, <4>1
      <4>3. i # 0 => h[i - 1] = g[i - 1]
        BY <1>1, <4>1
      <4> QED
        BY <4>2, <4>3
    <3> QED
      BY <3>1, <3>2
  <2>8. Builds(h, m)
    <3> HIDE DEF h
    <3>1. h = [i \in 0..m |-> h[i]]
      BY DEF h
    <3> QED
      BY <2>7, <3>1
  <2> QED
    BY <2>8
<1>3. \E g : Builds(g, top)
  <2>1. top \in 0..top
    BY <1>1
  <2>2. \A m \in 0..top : \E g : Builds(g, m)
    <3> HIDE DEF top, Builds
    <3> QED
      BY <1>2
  <2> HIDE DEF top, Builds
  <2> QED
    BY <2>1, <2>2
<1> DEFINE f == CHOOSE g : Builds(g, top)
<1>4. Builds(f, top)
  BY <1>3
<1>5. WriteCells(db, c, row, cells, createOption) = f[top]
  BY DEF WriteCells
<1> HIDE DEF f
<1>6. f[0] = {db} /\ \A i \in 1..top : f[i] = Write(f[i - 1], i)
  <2>1. 0 \in 0..top /\ \A i \in 1..top : i \in 0..top /\ i # 0
    BY <1>1
  <2> HIDE DEF top, Write
  <2> QED
    BY <1>4, <2>1
<1>7. ASSUME NEW i \in 1..Len(cells), NEW x \in f[i]
      PROVE  \E e \in f[i - 1] : x \in WriteCell(e, c, row, cells[i], createOption)
  BY <1>6, <1>7
<1> QED
  BY <1>5, <1>6, <1>7 DEF CellSteps

(* The values of a call: each is a label.                                  *)
Labelled(cells) == Len(cells) \in Nat /\ \A i \in 1..Len(cells) : cells[i].value # NoLabel

(* What writing cells of a row leaves of a database.                       *)
CellsWritten(db, row, e) ==
  /\ e = [columns |-> db.columns, data |-> e.data, options |-> e.options, views |-> db.views,
          shown |-> db.shown, rows |-> db.rows, blocks |-> db.blocks, cells |-> e.cells]
  /\ db.options \subseteq e.options
  /\ \A o \in e.options \ db.options :
       o.label # NoLabel /\ o.column \in DOMAIN e.data /\ o.map = e.data[o.column]
  /\ IsMap(e.data) /\ DataKept(db, e)
  /\ \A k \in DOMAIN e.data \ DOMAIN db.data : e.data[k] # OwnData /\ \E col \in db.columns : col.id = k
  /\ IsMap(e.cells)
  /\ \A k \in DOMAIN e.cells : \/ k \in DOMAIN db.cells
                               \/ k[1] = row /\ \E col \in db.columns : col.id = k[2]
  /\ CellsReadable(db) => CellsReadable(e)

(* One more option.                                                        *)
LEMMA OptionResolved ==
  ASSUME NEW db, NEW row, NEW e, CellsWritten(db, row, e), NEW c, c # OwnData, NEW col \in db.columns,
         NEW label, label # NoLabel, NEW create, NEW x \in resolveSelectOptionId(e, c, col, label, create)
  PROVE  /\ CellsWritten(db, row, x.db) /\ x.db.cells = e.cells
         /\ \E o \in x.db.options : o.column = col.id /\ o.id = x.value
<1>1. CASE x.db = e /\ \E o \in OptionsOf(e, col) : x.value = o.id
  BY <1>1 DEF OptionsOf
<1>2. ASSUME NEW map, map = DataMap(e, c, col), NEW new,
             new = [column |-> col.id, id |-> NewId(c, <<col.name, label>>), label |-> label, map |-> map],
             x = [db    |-> [e EXCEPT !.data = MapSet(@, col.id, map), !.options = @ \cup {new}],
                  value |-> new.id]
      PROVE  /\ CellsWritten(db, row, x.db) /\ x.db.cells = e.cells
             /\ \E o \in x.db.options : o.column = col.id /\ o.id = x.value
  <2>1. PICK r, data : r = x.db /\ data = MapSet(e.data, col.id, map)
    OBVIOUS
  <2>2. r = [columns |-> db.columns, data |-> data, options |-> e.options \cup {new}, views |-> db.views,
             shown |-> db.shown, rows |-> db.rows, blocks |-> db.blocks, cells |-> e.cells]
    <3>1. r = [e EXCEPT !.data = MapSet(@, col.id, map), !.options = @ \cup {new}]
      BY <1>2, <2>1
    <3>2. PICK maps, options, cells : maps = e.data /\ options = e.options /\ cells = e.cells
      OBVIOUS
    <3>3. e = [columns |-> db.columns, data |-> maps, options |-> options, views |-> db.views,
               shown |-> db.shown, rows |-> db.rows, blocks |-> db.blocks, cells |-> cells]
      BY <3>2 DEF CellsWritten
    <3>4. r = [e EXCEPT !.data = data, !.options = options \cup {new}]
      BY <2>1, <3>1, <3>2
    <3>5. r = [columns |-> db.columns, data |-> data, options |-> options \cup {new}, views |-> db.views,
               shown |-> db.shown, rows |-> db.rows, blocks |-> db.blocks, cells |-> cells]
      BY <3>3, <3>4
    <3> QED
      BY <3>2, <3>5
  <2>3. new.label = label /\ new.column = col.id /\ new.map = map /\ x.value = new.id
    BY <1>2
  <2>4. CellsReadable(e) => CellsReadable(r)
    BY <2>2 DEF CellsReadable, CellsWritten
  <2>5. /\ IsMap(data) /\ DOMAIN data = DOMAIN e.data \cup {col.id} /\ data[col.id] = map
        /\ \A k \in DOMAIN e.data : data[k] = e.data[k]
    BY <1>2, <2>1 DEF MapSet, IsMap, DataMap
  <2>6. \A k \in DOMAIN data \ DOMAIN db.data : data[k] # OwnData /\ \E y \in db.columns : y.id = k
    BY <1>2, <2>5 DEF CellsWritten, DataMap
  <2>7. DataKept(db, r)
    BY <2>2, <2>5 DEF CellsWritten, DataKept
  <2>8. \A o \in r.options \ db.options : o.label # NoLabel /\ o.column \in DOMAIN data /\ o.map = data[o.column]
    BY <2>2, <2>3, <2>5 DEF CellsWritten
  <2>9. CellsWritten(db, row, r)
    BY <2>2, <2>4, <2>5, <2>6, <2>7, <2>8 DEF CellsWritten
  <2> QED
    BY <2>1, <2>2, <2>3, <2>9
<1> DEFINE known == {o \in OptionsOf(e, col) : o.label = label}
<1>3. PICK map, new :
        /\ map = DataMap(e, c, col)
        /\ new = [column |-> col.id, id |-> NewId(c, <<col.name, label>>), label |-> label, map |-> map]
  OBVIOUS
<1>4. \/ known # {} /\ x \in {[db |-> e, value |-> o.id] : o \in known}
      \/ x = [db |-> [e EXCEPT !.data = MapSet(@, col.id, map), !.options = @ \cup {new}], value |-> new.id]
  BY <1>3 DEF resolveSelectOptionId
<1>5. CASE x \in {[db |-> e, value |-> o.id] : o \in known}
  BY <1>1, <1>5
<1>6. CASE x = [db |-> [e EXCEPT !.data = MapSet(@, col.id, map), !.options = @ \cup {new}], value |-> new.id]
  BY <1>2, <1>3, <1>6
<1> QED
  BY <1>4, <1>5, <1>6, Zenon

(* One cell.                                                               *)
LEMMA CellWrittenOnce ==
  ASSUME NEW db, \A x, y \in db.columns : x.id = y.id => x = y,
         NEW row, NEW e, CellsWritten(db, row, e), NEW c, c # OwnData, NEW cell, cell.value # NoLabel, NEW create,
         NEW r \in WriteCell(e, c, row, cell, create)
  PROVE  CellsWritten(db, row, r)
<1>1. CASE r = e
  BY <1>1
<1> DEFINE Reads(w, col, v) ==
             IF col.type \in SelectTypes THEN \E o \in w.options : o.column = col.id /\ o.id = v ELSE v # NoLabel
<1>2. ASSUME NEW col \in db.columns, NEW w, CellsWritten(db, row, w), NEW v, Reads(w, col, v),
             r = [w EXCEPT !.cells = MapSet(@, <<row, col.id>>, v)]
      PROVE  CellsWritten(db, row, r)
  <2>1. PICK key : key = <<row, col.id>>
    OBVIOUS
  <2>2. key[1] = row /\ key[2] = col.id
    BY <2>1
  <2>3. PICK cells : cells = MapSet(w.cells, key, v)
    OBVIOUS
  <2>4. /\ IsMap(cells) /\ DOMAIN cells = DOMAIN w.cells \cup {key} /\ cells[key] = v
        /\ \A k \in DOMAIN w.cells : k # key => cells[k] = w.cells[k]
    BY <2>3 DEF MapSet, IsMap
  <2>5. r = [columns |-> db.columns, data |-> w.data, options |-> w.options, views |-> db.views,
             shown |-> db.shown, rows |-> db.rows, blocks |-> db.blocks, cells |-> cells]
    BY <1>2, <2>1, <2>3 DEF CellsWritten
  <2>6. w.columns = db.columns
    BY <1>2 DEF CellsWritten
  <2>7. CellsReadable(w) => CellsReadable(r)
    <3>1. SUFFICES ASSUME CellsReadable(w), NEW k \in DOMAIN r.cells, NEW x \in r.columns, x.id = k[2]
                   PROVE  IF x.type \in SelectTypes
                          THEN \E o \in r.options : o.column = x.id /\ o.id = r.cells[k]
                          ELSE r.cells[k] # NoLabel
      BY DEF CellsReadable
    <3>2. r.cells = cells /\ r.options = w.options /\ r.columns = db.columns
      BY <2>5
    <3>3. CASE k = key
      <4>1. x = col
        BY <1>2, <2>2, <3>1, <3>2, <3>3
      <4> QED
        BY <1>2, <2>4, <3>2, <3>3, <4>1
    <3>4. CASE k # key
      <4>1. k \in DOMAIN w.cells /\ cells[k] = w.cells[k] /\ x \in w.columns
        BY <2>4, <2>6, <3>1, <3>2, <3>4
      <4> QED
        BY <3>1, <3>2, <4>1 DEF CellsReadable
    <3> QED
      BY <3>3, <3>4
  <2> QED
    BY <1>2, <2>2, <2>4, <2>5, <2>7 DEF CellsWritten, DataKept
<1>3. ASSUME NEW col \in ColumnNamed(e, cell.key), r \in writeDatabaseCellValue(e, c, row, col, cell.value, create)
      PROVE  CellsWritten(db, row, r)
  <2>1. col \in db.columns
    BY <1>3 DEF ColumnNamed, readColumnDefs, CellsWritten
  <2>2. CASE col.type \in SelectTypes
    <3>1. PICK x \in resolveSelectOptionId(e, c, col, cell.value, create) :
            r = [x.db EXCEPT !.cells = MapSet(@, <<row, col.id>>, x.value)]
      BY <1>3, <2>2 DEF writeDatabaseCellValue
    <3>2. CellsWritten(db, row, x.db) /\ \E o \in x.db.options : o.column = col.id /\ o.id = x.value
      BY <2>1, OptionResolved
    <3>3. Reads(x.db, col, x.value)
      BY <2>2, <3>2
    <3> HIDE DEF Reads
    <3> QED
      BY <1>2, <2>1, <3>1, <3>2, <3>3
  <2>3. CASE col.type \notin SelectTypes
    <3>1. r = [e EXCEPT !.cells = MapSet(@, <<row, col.id>>, cell.value)]
      BY <1>3, <2>3 DEF writeDatabaseCellValue
    <3>2. Reads(e, col, cell.value)
      BY <2>3
    <3> HIDE DEF Reads
    <3> QED
      BY <1>2, <2>1, <3>1, <3>2
  <2> QED
    BY <2>2, <2>3
<1>4. \/ r = e
      \/ \E col \in ColumnNamed(e, cell.key) : r \in writeDatabaseCellValue(e, c, row, col, cell.value, create)
  BY Zenon DEF WriteCell
<1> QED
  BY <1>1, <1>3, <1>4

(* All the cells of a call.                                                *)
LEMMA AllCellsWritten ==
  ASSUME NEW d, NEW db, WholeDatabase(d, db), NEW c, c # OwnData, NEW row, NEW cells, Labelled(cells), NEW create,
         NEW r \in WriteCells(db, c, row, cells, create)
  PROVE  CellsWritten(db, row, r)
<1>1. PICK f : /\ WriteCells(db, c, row, cells, create) = f[Len(cells)]
               /\ CellSteps(f, db, c, row, cells, create)
  BY CellsStepByStep DEF Labelled
<1>2. CellsWritten(db, row, db)
  BY DEF CellsWritten, WholeDatabase, DataKept
<1>3. \A x, y \in db.columns : x.id = y.id => x = y
  BY DEF WholeDatabase
<1> DEFINE broken == {i \in 0..Len(cells) : ~ \A e \in f[i] : CellsWritten(db, row, e)}
<1>4. broken = {}
  <2>1. SUFFICES ASSUME broken # {} PROVE FALSE
    OBVIOUS
  <2>2. broken \in SUBSET Nat
    BY DEF Labelled
  <2>3. PICK m \in broken : \A k \in broken : m <= k
    <3> HIDE DEF broken
    <3> QED
      BY <2>1, <2>2, LeastNumber
  <2>4. m # 0
    BY <1>1, <1>2 DEF CellSteps
  <2>5. m \in 1..Len(cells) /\ m - 1 \in 0..Len(cells) /\ m - 1 < m
    BY <2>4 DEF Labelled
  <2>6. m - 1 \notin broken
    <3> HIDE DEF broken
    <3> QED
      BY <2>3, <2>5
  <2>7. \A e \in f[m - 1] : CellsWritten(db, row, e)
    BY <2>5, <2>6
  <2>8. ASSUME NEW x \in f[m] PROVE CellsWritten(db, row, x)
    <3>1. PICK e \in f[m - 1] : x \in WriteCell(e, c, row, cells[m], create)
      BY <1>1, <2>5 DEF CellSteps
    <3>2. CellsWritten(db, row, e) /\ cells[m].value # NoLabel
      BY <2>5, <2>7 DEF Labelled
    <3> QED
      BY <1>3, <3>1, <3>2, CellWrittenOnce
  <2> QED
    BY <2>8
<1>5. Len(cells) \in 0..Len(cells)
  BY DEF Labelled
<1> QED
  BY <1>1, <1>4, <1>5

-----------------------------------------------------------------------------
(* What the push p makes of the database d it edits.                       *)
DbEdited(p, d, db, r) ==
  /\ WholeDatabase(d, r)
  /\ db.columns \subseteq r.columns
  /\ \A col \in r.columns \ db.columns : Maker(col.id) = p
  /\ DataKept(db, r) /\ OwnersKept(db, r)
  /\ p # Fill(d) => db.options \subseteq r.options
  /\ CellsReadable(db) => CellsReadable(r)
  /\ OrderlyDatabase(db) => OrderlyDatabase(r)

(* Cells are written in a row of the database.                             *)
LEMMA RowWritten ==
  ASSUME NEW p, NEW d, NEW db, WholeDatabase(d, db), NEW row \in db.rows, NEW e, CellsWritten(db, row, e)
  PROVE  DbEdited(p, d, db, e) /\ e.columns = db.columns /\ db.options \subseteq e.options
<1>1. /\ e.columns = db.columns /\ e.views = db.views /\ e.shown = db.shown
      /\ e.rows = db.rows /\ e.blocks = db.blocks
      /\ e = [columns |-> e.columns, data |-> e.data, options |-> e.options, views |-> e.views,
              shown |-> e.shown, rows |-> e.rows, blocks |-> e.blocks, cells |-> e.cells]
  BY DEF CellsWritten
<1>2. \A k \in DOMAIN e.cells : k[1] \in e.rows /\ \E col \in e.columns : col.id = k[2]
  BY <1>1 DEF CellsWritten, WholeDatabase
<1>3. IsMap(e.data) /\ \A k \in DOMAIN e.data : \E col \in e.columns : col.id = k
  BY <1>1 DEF CellsWritten, WholeDatabase
<1>4. \A o \in e.options : /\ o.label # NoLabel /\ o.column \in DOMAIN e.data
                           /\ Owns(e, o.column) => o.map = OwnData
  BY DEF CellsWritten, WholeDatabase, Owns, DataKept
<1>5. WholeDatabase(d, e)
  BY <1>1, <1>2, <1>3, <1>4 DEF WholeDatabase, CellsWritten
<1>6. OrderlyDatabase(db) => OrderlyDatabase(e)
  BY <1>1 DEF OrderlyDatabase, CellsWritten, WholeDatabase, DataKept
<1>7. OwnersKept(db, e)
  BY DEF CellsWritten, OwnersKept, DataKept, Owns
<1> QED
  BY <1>1, <1>5, <1>6, <1>7 DEF DbEdited, CellsWritten

(* A row is added with its cells.                                          *)
LEMMA RowAdded ==
  ASSUME NEW p, NEW d, NEW db, WholeDatabase(d, db), NEW c, c # OwnData, NEW row, NEW cells, Labelled(cells),
         NEW r \in addDatabaseRowToBlock(db, c, row, cells)
  PROVE  DbEdited(p, d, db, r) /\ r.columns = db.columns /\ db.options \subseteq r.options
<1>1. PICK e : e = [db EXCEPT !.rows = @ \cup {row}, !.blocks = @ \cup {row}]
  OBVIOUS
<1>2. e = [columns |-> db.columns, data |-> db.data, options |-> db.options, views |-> db.views,
           shown |-> db.shown, rows |-> db.rows \cup {row}, blocks |-> db.blocks \cup {row}, cells |-> db.cells]
  BY <1>1 DEF WholeDatabase
<1>3. WholeDatabase(d, e) /\ row \in e.rows
  BY <1>2 DEF WholeDatabase, Owns
<1>4. r \in WriteCells(e, c, row, cells, TRUE)
  BY <1>1 DEF addDatabaseRowToBlock
<1>5. CellsWritten(e, row, r)
  BY <1>3, <1>4, AllCellsWritten
<1>6. DbEdited(p, d, e, r) /\ r.columns = e.columns /\ e.options \subseteq r.options
  BY <1>3, <1>5, RowWritten
<1>7. CellsReadable(db) => CellsReadable(e)
  BY <1>2 DEF CellsReadable
<1>8. OrderlyDatabase(db) => OrderlyDatabase(e)
  BY <1>2 DEF OrderlyDatabase
<1>9. e.columns = db.columns /\ e.options = db.options /\ e.data = db.data
  BY <1>2
<1> QED
  BY <1>6, <1>7, <1>8, <1>9 DEF DbEdited, DataKept, OwnersKept, Owns

(* Cells of a row are updated.                                             *)
LEMMA RowUpdated ==
  ASSUME NEW p, NEW d, NEW db, WholeDatabase(d, db), NEW c, c # OwnData, NEW row, NEW cells, Labelled(cells), NEW create,
         NEW r \in UpdatedRow(db, c, row, cells, create)
  PROVE  DbEdited(p, d, db, r)
<1>1. row \in db.rows /\ r \in WriteCells(db, c, row, cells, create)
  BY DEF UpdatedRow, getDatabaseRowBlock, WholeDatabase
<1>2. CellsWritten(db, row, r)
  BY <1>1, AllCellsWritten
<1> QED
  BY <1>1, <1>2, RowWritten

(* A row is deleted with its cells.                                        *)
LEMMA RowDeleted ==
  ASSUME NEW p, NEW d, NEW db, WholeDatabase(d, db), NEW row, NEW r \in DeletedRow(db, row)
  PROVE  DbEdited(p, d, db, r)
<1>1. PICK rows, cells : rows = db.rows \ {row} /\ cells = CellsIn(db.cells, rows)
  OBVIOUS
<1>2. r = [db EXCEPT !.rows = rows, !.blocks = @ \ {row}, !.cells = cells]
  BY <1>1 DEF DeletedRow
<1>3. r = [columns |-> db.columns, data |-> db.data, options |-> db.options, views |-> db.views,
           shown |-> db.shown, rows |-> rows, blocks |-> db.blocks \ {row}, cells |-> cells]
  BY <1>2 DEF WholeDatabase
<1>4. /\ IsMap(cells) /\ DOMAIN cells \subseteq DOMAIN db.cells
      /\ \A k \in DOMAIN cells : cells[k] = db.cells[k] /\ k[1] \in rows
  BY <1>1 DEF IsMap, CellsIn
<1>5. WholeDatabase(d, r)
  BY <1>1, <1>3, <1>4 DEF WholeDatabase, Owns
<1>6. CellsReadable(db) => CellsReadable(r)
  BY <1>3, <1>4 DEF CellsReadable
<1>7. OrderlyDatabase(db) => OrderlyDatabase(r)
  BY <1>3 DEF OrderlyDatabase
<1>8. DataKept(db, r) /\ OwnersKept(db, r)
  BY <1>3 DEF DataKept, OwnersKept, Owns
<1> QED
  BY <1>3, <1>5, <1>6, <1>7, <1>8 DEF DbEdited

(* A column is added to the database and its views.                        *)
FreshId(db, id) == \A col \in db.columns : col.id # id
FreshName(db, name) == \A col \in db.columns : col.name # name
FreshTitle(db, type) == type = "title" => \A col \in db.columns : col.type # "title"
HasColumn(d, db, id, name, type, e) ==
  /\ WholeDatabase(d, e)
  /\ e.columns = db.columns \cup {Column(id, name, type)}
  /\ db.options \subseteq e.options
  /\ DataKept(db, e) /\ OwnersKept(db, e)
  /\ e.cells = db.cells
  /\ CellsReadable(db) => CellsReadable(e)
  /\ OrderlyDatabase(db) /\ FreshName(db, name) /\ FreshTitle(db, type) => OrderlyDatabase(e)
LEMMA ColumnAdded ==
  ASSUME NEW d, NEW db, WholeDatabase(d, db), NEW id, FreshId(db, id),
         NEW name, NEW type, NEW labels, NoLabel \notin labels,
         NEW e, e = WithColumn(db, Column(id, name, type), labels)
  PROVE  HasColumn(d, db, id, name, type, e)
<1>1. PICK col : col = Column(id, name, type)
  OBVIOUS
<1>2. col.id = id /\ col.name = name /\ col.type = type
  BY <1>1 DEF Column
<1>3. PICK values : values = IF col.type \in SelectTypes THEN labels ELSE {}
  OBVIOUS
<1>4. PICK more : more = {[column |-> col.id, id |-> <<col.id, l>>, label |-> l, map |-> OwnData] : l \in values}
  OBVIOUS
<1>5. PICK data : data = IF values = {} THEN db.data ELSE MapSet(db.data, col.id, OwnData)
  OBVIOUS
<1>6. PICK columns, shown, options : /\ columns = db.columns \cup {col}
                                     /\ shown = db.shown \cup {<<v, col.id>> : v \in db.views}
                                     /\ options = db.options \cup more
  OBVIOUS
<1>7. e = [columns |-> columns, data |-> data, options |-> options, views |-> db.views, shown |-> shown,
           rows |-> db.rows, blocks |-> db.blocks, cells |-> db.cells]
  <2>1. e = [db EXCEPT !.columns = columns, !.shown = shown, !.data = data, !.options = options]
    BY <1>1, <1>3, <1>4, <1>5, <1>6 DEF WithColumn
  <2> QED
    BY <2>1 DEF WholeDatabase
<1>8. shown = db.views \X {x.id : x \in columns}
  BY <1>6 DEF WholeDatabase
<1>9. \A x, y \in columns : x.id = y.id => x = y
  BY <1>2, <1>6 DEF WholeDatabase, FreshId
<1>10. id \notin DOMAIN db.data
  BY DEF WholeDatabase, FreshId
<1>11. /\ IsMap(data) /\ DOMAIN db.data \subseteq DOMAIN data
       /\ \A k \in DOMAIN db.data : data[k] = db.data[k]
       /\ \A k \in DOMAIN data : k \in DOMAIN db.data \/ k = id
       /\ values # {} => id \in DOMAIN data /\ data[id] = OwnData
  <2>1. CASE values = {}
    BY <1>5, <2>1 DEF WholeDatabase
  <2>2. CASE values # {}
    BY <1>2, <1>5, <1>10, <2>2 DEF MapSet, IsMap
  <2> QED
    BY <2>1, <2>2
<1>12. \A o \in more : o.label # NoLabel /\ o.column = id /\ o.map = OwnData /\ values # {}
  BY <1>2, <1>3, <1>4
<1>13. DataKept(db, e) /\ OwnersKept(db, e)
  <2>1. \A x \in db.columns : x.id # id
    BY DEF FreshId
  <2> QED
    BY <1>7, <1>11, <2>1 DEF DataKept, OwnersKept, Owns
<1>14. WholeDatabase(d, e)
  <2>1. \A k \in DOMAIN db.cells : k[1] \in db.rows /\ \E x \in columns : x.id = k[2]
    BY <1>6 DEF WholeDatabase
  <2>2. \A o \in options : o.label # NoLabel /\ o.column \in DOMAIN data /\ (data[o.column] = OwnData => o.map = OwnData)
    BY <1>6, <1>11, <1>12 DEF WholeDatabase, Owns
  <2>3. \A k \in DOMAIN data : \E x \in columns : x.id = k
    BY <1>2, <1>6, <1>11 DEF WholeDatabase
  <2> QED
    BY <1>7, <1>8, <1>9, <1>11, <2>1, <2>2, <2>3 DEF WholeDatabase, Owns
<1>15. CellsReadable(db) => CellsReadable(e)
  <2>1. SUFFICES ASSUME CellsReadable(db), NEW k \in DOMAIN db.cells, NEW x \in columns, x.id = k[2]
                 PROVE  IF x.type \in SelectTypes
                        THEN \E o \in options : o.column = x.id /\ o.id = db.cells[k]
                        ELSE db.cells[k] # NoLabel
    BY <1>7 DEF CellsReadable
  <2>2. x \in db.columns
    BY <1>2, <1>6, <2>1 DEF WholeDatabase, FreshId
  <2> QED
    BY <1>6, <2>1, <2>2 DEF CellsReadable
<1>16. OrderlyDatabase(db) /\ FreshName(db, name) /\ FreshTitle(db, type) => OrderlyDatabase(e)
  <2>1. SUFFICES ASSUME OrderlyDatabase(db), FreshName(db, name), FreshTitle(db, type) PROVE OrderlyDatabase(e)
    OBVIOUS
  <2>2. \A x, y \in columns : (x.name = y.name \/ {x.type, y.type} = {"title"}) => x = y
    BY <1>2, <1>6, <2>1 DEF OrderlyDatabase, FreshName, FreshTitle
  <2>3. \A o \in options : o.map = data[o.column]
    BY <1>6, <1>11, <1>12, <2>1 DEF OrderlyDatabase, WholeDatabase
  <2> QED
    BY <1>7, <2>2, <2>3 DEF OrderlyDatabase
<1> QED
  BY <1>1, <1>6, <1>7, <1>13, <1>14, <1>15, <1>16 DEF HasColumn

(* addDatabaseColumnHandler.                                               *)
LEMMA ColumnHandled ==
  ASSUME NEW c, NEW d, NEW db, WholeDatabase(d, db), \A col \in db.columns : Maker(col.id) # c,
         NEW name \in {"Status", "Owner"}, NEW type, NEW labels, NoLabel \notin labels,
         NEW r \in AddedColumn(db, c, name, type, labels)
  PROVE  DbEdited(c, d, db, r)
<1>1. PICK id : id = NewId(c, name)
  OBVIOUS
<1>2. Maker(id) = c
  BY <1>1 DEF Maker, NewId
<1>3. FreshId(db, id)
  BY <1>2 DEF FreshId
<1>4. /\ r = WithColumn(db, Column(id, name, type), labels)
      /\ FreshName(db, name) /\ FreshTitle(db, type)
  BY <1>1 DEF AddedColumn, ColumnNamed, readColumnDefs, FreshName, FreshTitle
<1>5. HasColumn(d, db, id, name, type, r)
  BY <1>3, <1>4, ColumnAdded
<1>6. Column(id, name, type).id = id
  BY DEF Column
<1> QED
  BY <1>2, <1>4, <1>5, <1>6 DEF DbEdited, HasColumn

(* The board a composition starts with.                                    *)
LEMMA EmptyBoardWhole ==
  ASSUME NEW c
  PROVE  LET db == EmptyBoard(c) IN
         /\ WholeDatabase(c, db) /\ CellsReadable(db) /\ OrderlyDatabase(db)
         /\ db.columns = {Column(NewId(c, "Title"), "Title", "title"),
                          Column(NewId(c, "Status"), "Status", "select")}
         /\ DOMAIN db.cells = {}
<1>1. PICK bare : bare = [columns |-> {}, data |-> [k \in {} |-> {}], options |-> {},
                          views |-> {NewId(c, "view")}, shown |-> {},
                          rows |-> {}, blocks |-> {}, cells |-> [k \in {} |-> {}]]
  OBVIOUS
<1>2. WholeDatabase(c, bare) /\ CellsReadable(bare) /\ OrderlyDatabase(bare) /\ DOMAIN bare.cells = {}
      /\ bare.columns = {}
  BY <1>1 DEF WholeDatabase, CellsReadable, OrderlyDatabase, IsMap
<1>3. PICK titled : titled = WithColumn(bare, Column(NewId(c, "Title"), "Title", "title"), {})
  OBVIOUS
<1>4. /\ WholeDatabase(c, titled) /\ CellsReadable(titled) /\ OrderlyDatabase(titled)
      /\ titled.columns = {Column(NewId(c, "Title"), "Title", "title")} /\ titled.cells = bare.cells
  <2>1. FreshId(bare, NewId(c, "Title")) /\ FreshName(bare, "Title") /\ FreshTitle(bare, "title")
    BY <1>2 DEF FreshId, FreshName, FreshTitle
  <2>2. HasColumn(c, bare, NewId(c, "Title"), "Title", "title", titled)
    BY <1>2, <1>3, <2>1, ColumnAdded
  <2> QED
    BY <1>2, <2>1, <2>2 DEF HasColumn
<1>5. EmptyBoard(c) = WithColumn(titled, Column(NewId(c, "Status"), "Status", "select"), {"todo"})
  BY <1>1, <1>3 DEF EmptyBoard
<1>6. FreshId(titled, NewId(c, "Status")) /\ FreshName(titled, "Status") /\ FreshTitle(titled, "select")
  BY <1>4 DEF Column, NewId, FreshId, FreshName, FreshTitle
<1>7. NoLabel \notin {"todo"}
  BY DatabasesAssumption
<1>8. PICK db : db = EmptyBoard(c)
  OBVIOUS
<1>9. HasColumn(c, titled, NewId(c, "Status"), "Status", "select", db)
  BY <1>4, <1>5, <1>6, <1>7, <1>8, ColumnAdded
<1> QED
  BY <1>2, <1>4, <1>6, <1>8, <1>9 DEF HasColumn

(* The second push of a composition, made from the board it starts with.   *)
LEMMA BoardFilled ==
  ASSUME NEW c \in DbCalls, NEW r \in Filled(EmptyBoard(c), c)
  PROVE  DbEdited(Fill(c), c, EmptyBoard(c), r)
<1>1. PICK db : db = EmptyBoard(c)
  OBVIOUS
<1>2. /\ WholeDatabase(c, db) /\ CellsReadable(db) /\ OrderlyDatabase(db)
      /\ db.columns = {Column(NewId(c, "Title"), "Title", "title"),
                       Column(NewId(c, "Status"), "Status", "select")}
      /\ DOMAIN db.cells = {}
  BY <1>1, EmptyBoardWhole
<1>3. PICK status, e, starter :
        /\ status = CHOOSE col \in ColumnNamed(db, "Status") : TRUE
        /\ e = replaceSelectColumnOptions(db, c, status, {"todo", "blocked"})
        /\ starter = <<[key |-> "title", value |-> "scope"], [key |-> "Status", value |-> "blocked"],
                       [key |-> "Type", value |-> "Task"]>>
        /\ \E f \in addDatabaseColumnToBlock(e, c, "Type", "select", {"Task"}) :
             r \in addDatabaseRowToBlock(f, c, NewId(c, "starter"), starter)
  BY <1>1 DEF Filled
<1>4. PICK map, more, data, options :
        /\ map = DataMap(db, c, status)
        /\ more = {[column |-> status.id, id |-> NewId(c, <<"preset", l>>), label |-> l, map |-> map] :
                     l \in {"todo", "blocked"}}
        /\ data = MapSet(db.data, status.id, map)
        /\ options = (db.options \ OptionsOf(db, status)) \cup more
  OBVIOUS
<1>5. e = [columns |-> db.columns, data |-> data, options |-> options, views |-> db.views, shown |-> db.shown,
           rows |-> db.rows, blocks |-> db.blocks, cells |-> db.cells]
  <2>1. e = [db EXCEPT !.data = data, !.options = options]
    BY <1>3, <1>4 DEF replaceSelectColumnOptions
  <2> QED
    BY <1>2, <2>1 DEF WholeDatabase
<1>6. /\ IsMap(data) /\ DOMAIN data = DOMAIN db.data \cup {status.id} /\ data[status.id] = map
      /\ \A k \in DOMAIN db.data : data[k] = db.data[k]
      /\ status.id \notin DOMAIN db.data => map # OwnData
  <2>1. c # OwnData
    BY DatabasesAssumption
  <2> QED
    BY <1>4, <2>1 DEF MapSet, IsMap, DataMap
<1>7. WholeDatabase(c, e) /\ CellsReadable(e) /\ OrderlyDatabase(e) /\ DataKept(db, e) /\ OwnersKept(db, e)
  <2>1. \A o \in more : o.label # NoLabel /\ o.column = status.id /\ o.map = map
    <3>1. NoLabel # "todo" /\ NoLabel # "blocked"
      BY DatabasesAssumption
    <3> QED
      BY <1>4, <3>1
  <2>2. \A o \in options : /\ o.label # NoLabel /\ o.column \in DOMAIN data /\ o.map = data[o.column]
    BY <1>2, <1>4, <1>6, <2>1 DEF WholeDatabase, OrderlyDatabase
  <2>3. status \in db.columns
    <3>1. PICK col : col = Column(NewId(c, "Status"), "Status", "select")
      OBVIOUS
    <3>2. col \in db.columns /\ col.name = "Status"
      BY <1>2, <3>1 DEF Column
    <3> QED
      BY <1>3, <3>2 DEF ColumnNamed, readColumnDefs
  <2>4. DataKept(db, e) /\ OwnersKept(db, e)
    BY <1>5, <1>6 DEF DataKept, OwnersKept, Owns
  <2>5. IsMap(data) /\ \A k \in DOMAIN data : \E col \in db.columns : col.id = k
    BY <1>2, <1>6, <2>3 DEF WholeDatabase
  <2>6. WholeDatabase(c, e)
    BY <1>2, <1>5, <2>2, <2>5 DEF WholeDatabase, Owns
  <2>7. CellsReadable(e) /\ OrderlyDatabase(e)
    BY <1>2, <1>5, <2>2 DEF CellsReadable, OrderlyDatabase
  <2> QED
    BY <2>4, <2>6, <2>7
<1>8. FreshId(e, NewId(c, "Type")) /\ FreshName(e, "Type") /\ FreshTitle(e, "select")
  BY <1>2, <1>5 DEF Column, NewId, FreshId, FreshName, FreshTitle
<1>9. PICK f : /\ f = WithColumn(e, Column(NewId(c, "Type"), "Type", "select"), {"Task"})
               /\ r \in addDatabaseRowToBlock(f, c, NewId(c, "starter"), starter)
  BY <1>3, <1>8 DEF addDatabaseColumnToBlock, ColumnNamed, readColumnDefs, FreshName
<1>10. NoLabel \notin {"Task"}
  BY DatabasesAssumption
<1>11. HasColumn(c, e, NewId(c, "Type"), "Type", "select", f)
  BY <1>7, <1>8, <1>9, <1>10, ColumnAdded
<1>12. WholeDatabase(c, f) /\ CellsReadable(f) /\ OrderlyDatabase(f)
  BY <1>7, <1>8, <1>11 DEF HasColumn
<1>13. Labelled(starter)
  <2>1. NoLabel # "Task" /\ NoLabel # "blocked" /\ NoLabel # "scope"
    BY DatabasesAssumption
  <2>2. Len(starter) = 3 /\ starter[1].value = "scope" /\ starter[2].value = "blocked" /\ starter[3].value = "Task"
    BY <1>3
  <2>3. \A i \in 1..3 : i = 1 \/ i = 2 \/ i = 3
    OBVIOUS
  <2> QED
    BY <2>1, <2>2, <2>3 DEF Labelled
<1>14. DbEdited(Fill(c), c, f, r) /\ r.columns = f.columns
  <2>1. c # OwnData
    BY DatabasesAssumption
  <2>2. PICK p, row : p = Fill(c) /\ row = NewId(c, "starter")
    OBVIOUS
  <2>3. r \in addDatabaseRowToBlock(f, c, row, starter)
    BY <1>9, <2>2
  <2>4. WholeDatabase(c, f)
    BY <1>12
  <2>5. DbEdited(p, c, f, r) /\ r.columns = f.columns
    BY <1>13, <2>1, <2>3, <2>4, RowAdded
  <2> QED
    BY <2>2, <2>5
<1>15. r.columns = db.columns \cup {Column(NewId(c, "Type"), "Type", "select")}
  BY <1>5, <1>11, <1>14 DEF HasColumn
<1>16. Maker(Column(NewId(c, "Type"), "Type", "select").id) = Fill(c)
  BY DEF Column, Maker, NewId
<1>17. DataKept(db, r) /\ OwnersKept(db, r)
  <2>1. DataKept(db, e) /\ OwnersKept(db, e) /\ DataKept(e, f) /\ OwnersKept(e, f)
        /\ DataKept(f, r) /\ OwnersKept(f, r) /\ db.columns = e.columns /\ e.columns \subseteq f.columns
    <3>1. DataKept(e, f) /\ OwnersKept(e, f) /\ e.columns \subseteq f.columns
      BY <1>11 DEF HasColumn
    <3>2. DataKept(f, r) /\ OwnersKept(f, r)
      BY <1>14 DEF DbEdited
    <3>3. e.columns = db.columns
      BY <1>5
    <3> QED
      BY <1>7, <3>1, <3>2, <3>3
  <2>2. DataKept(db, r)
    BY <2>1 DEF DataKept
  <2>3. OwnersKept(db, r)
    BY <2>1 DEF OwnersKept
  <2> QED
    BY <2>2, <2>3
<1> QED
  BY <1>1, <1>12, <1>14, <1>15, <1>16, <1>17 DEF DbEdited

-----------------------------------------------------------------------------
(* A merged database, part by part.                                        *)
LEMMA MergedParts ==
  ASSUME NEW d, NEW now, NEW b, NEW m, WholeDatabase(d, now)
  PROVE  MergeDatabase(now, b, m) =
           [columns |-> MergedSet(now.columns, b.columns, m.columns),
            data |-> MergedMap(now.data, b.data, m.data),
            options |-> MergedSet(now.options, b.options, m.options),
            views |-> MergedSet(now.views, b.views, m.views),
            shown |-> MergedSet(now.shown, b.shown, m.shown),
            rows |-> MergedSet(now.rows, b.rows, m.rows),
            blocks |-> MergedSet(now.blocks, b.blocks, m.blocks),
            cells |-> CellsIn(MergedMap(now.cells, b.cells, m.cells), MergedSet(now.rows, b.rows, m.rows))]
<1>1. DOMAIN now = {"columns", "data", "options", "views", "shown", "rows", "blocks", "cells"}
  BY DEF WholeDatabase
<1>2. PICK merged : merged = [f \in DOMAIN now |-> IF f \in {"data", "cells"} THEN MergedMap(now[f], b[f], m[f])
                                                 ELSE MergedSet(now[f], b[f], m[f])]
  OBVIOUS
<1>3. merged =
        [columns |-> MergedSet(now.columns, b.columns, m.columns),
         data |-> MergedMap(now.data, b.data, m.data),
         options |-> MergedSet(now.options, b.options, m.options),
         views |-> MergedSet(now.views, b.views, m.views),
         shown |-> MergedSet(now.shown, b.shown, m.shown),
         rows |-> MergedSet(now.rows, b.rows, m.rows),
         blocks |-> MergedSet(now.blocks, b.blocks, m.blocks),
         cells |-> MergedMap(now.cells, b.cells, m.cells)]
  BY <1>1, <1>2
<1>4. MergeDatabase(now, b, m) = [merged EXCEPT !.cells = CellsIn(@, merged.rows)]
  BY <1>2 DEF MergeDatabase
<1> QED
  BY <1>3, <1>4

(* Merged in place, or from an update that left it, a database is as made. *)
LEMMA DbMergesInPlace ==
  ASSUME NEW d, NEW b, NEW m, WholeDatabase(d, b), WholeDatabase(d, m)
  PROVE  MergeDatabase(b, b, m) = m
<1>1. MergedMap(b.cells, b.cells, m.cells) = m.cells /\ MergedMap(b.data, b.data, m.data) = m.data
  BY MergedInPlace DEF WholeDatabase, IsMap
<1>2. ASSUME NEW S, NEW T PROVE MergedSet(S, S, T) = T
  BY DEF MergedSet
<1>3. CellsIn(m.cells, m.rows) = m.cells
  BY DEF CellsIn, WholeDatabase, IsMap
<1>4. MergeDatabase(b, b, m) =
        [columns |-> m.columns, data |-> m.data, options |-> m.options, views |-> m.views, shown |-> m.shown,
         rows |-> m.rows, blocks |-> m.blocks, cells |-> m.cells]
  BY <1>1, <1>2, <1>3, MergedParts
<1>5. m = [columns |-> m.columns, data |-> m.data, options |-> m.options, views |-> m.views, shown |-> m.shown,
           rows |-> m.rows, blocks |-> m.blocks, cells |-> m.cells]
  BY DEF WholeDatabase
<1> QED
  BY <1>4, <1>5

(* An update that leaves a database leaves the one it meets.               *)
LEMMA DbLeftAlone ==
  ASSUME NEW d, NEW now, WholeDatabase(d, now), NEW b
  PROVE  MergeDatabase(now, b, b) = now
<1>1. MergedMap(now.cells, b.cells, b.cells) = now.cells /\ MergedMap(now.data, b.data, b.data) = now.data
  BY DEF WholeDatabase, IsMap, MergedMap
<1>2. ASSUME NEW S, NEW T PROVE MergedSet(S, T, T) = S
  BY DEF MergedSet
<1>3. CellsIn(now.cells, now.rows) = now.cells
  BY DEF CellsIn, WholeDatabase, IsMap
<1>4. MergeDatabase(now, b, b) =
        [columns |-> now.columns, data |-> now.data, options |-> now.options, views |-> now.views,
         shown |-> now.shown, rows |-> now.rows, blocks |-> now.blocks, cells |-> now.cells]
  BY <1>1, <1>2, <1>3, MergedParts
<1>5. now = [columns |-> now.columns, data |-> now.data, options |-> now.options, views |-> now.views,
             shown |-> now.shown, rows |-> now.rows, blocks |-> now.blocks, cells |-> now.cells]
  BY DEF WholeDatabase
<1> QED
  BY <1>4, <1>5

(* What becomes of the data maps of the columns: of a column both know,    *)
(* two calls may have made one, but neither made the one it was created    *)
(* with.                                                                   *)
LEMMA DataMerged ==
  ASSUME NEW d, NEW now, NEW b, NEW m, WholeDatabase(d, now), WholeDatabase(d, b), WholeDatabase(d, m),
         \A col \in m.columns \ b.columns, x \in now.columns : x.id # col.id,
         DataKept(b, m), OwnersKept(b, m), OwnersKept(b, now),
         NEW r, r = MergeDatabase(now, b, m)
  PROVE  /\ IsMap(r.data) /\ DOMAIN r.data = DOMAIN now.data \cup DOMAIN m.data
         /\ OwnersKept(now, r)
         /\ \A o \in now.options \cup m.options : Owns(r, o.column) => o.map = OwnData
<1>1. /\ IsMap(r.data) /\ DOMAIN r.data = DOMAIN now.data \cup DOMAIN m.data
      /\ \A k \in DOMAIN r.data : r.data[k] = IF k \in DOMAIN m.data \ DOMAIN b.data THEN m.data[k] ELSE now.data[k]
      /\ DOMAIN b.data \subseteq DOMAIN m.data \cap DOMAIN now.data
  <2>1. PICK data : data = MergedMap(now.data, b.data, m.data)
    OBVIOUS
  <2>2. r.data = data
    BY <2>1, MergedParts
  <2>3. IsMap(data)
    BY <2>1 DEF MergedMap, IsMap
  <2>4. /\ DOMAIN data = DOMAIN now.data \cup DOMAIN m.data
        /\ \A k \in DOMAIN data : data[k] = IF k \in DOMAIN m.data \ DOMAIN b.data THEN m.data[k] ELSE now.data[k]
        /\ DOMAIN b.data \subseteq DOMAIN m.data \cap DOMAIN now.data
    BY <2>1 DEF MergedMap, DataKept, OwnersKept
  <2> QED
    BY <2>2, <2>3, <2>4
<1>2. ASSUME NEW col \in b.columns
      PROVE  /\ Owns(b, col.id) <=> Owns(m, col.id)
             /\ Owns(b, col.id) <=> Owns(now, col.id)
  BY <1>2 DEF OwnersKept
<1>3. ASSUME NEW k \in DOMAIN m.data PROVE \E col \in m.columns : col.id = k
  BY <1>3 DEF WholeDatabase
<1>4. ASSUME NEW col \in now.columns PROVE Owns(now, col.id) <=> Owns(r, col.id)
  <2>1. CASE col.id \in DOMAIN m.data \ DOMAIN b.data
    <3>1. PICK x \in m.columns : x.id = col.id
      BY <1>3, <2>1
    <3>2. x \in b.columns
      BY <3>1
    <3>3. ~Owns(b, x.id) /\ ~Owns(m, x.id) /\ ~Owns(now, x.id)
      BY <1>2, <2>1, <3>1, <3>2 DEF Owns
    <3> QED
      BY <1>1, <2>1, <3>1, <3>3 DEF Owns
  <2>2. CASE col.id \notin DOMAIN m.data \ DOMAIN b.data
    BY <1>1, <2>2 DEF Owns
  <2> QED
    BY <2>1, <2>2
<1>5. ASSUME NEW o \in now.options, Owns(r, o.column) PROVE o.map = OwnData
  <2>1. PICK col \in now.columns : col.id = o.column
    BY <1>5 DEF WholeDatabase
  <2> QED
    BY <1>4, <1>5, <2>1 DEF WholeDatabase
<1>6. ASSUME NEW o \in m.options, Owns(r, o.column) PROVE o.map = OwnData
  <2>1. PICK k : k = o.column
    OBVIOUS
  <2>2. k \in DOMAIN m.data
    BY <2>1 DEF WholeDatabase
  <2>3. Owns(m, k)
    <3>1. CASE k \notin DOMAIN b.data
      BY <1>1, <1>6, <2>1, <2>2, <3>1 DEF Owns
    <3>2. CASE k \in DOMAIN b.data
      <4>1. PICK col \in b.columns : col.id = k
        BY <3>2 DEF WholeDatabase
      <4>2. Owns(now, k)
        BY <1>1, <1>6, <2>1, <3>2 DEF Owns
      <4> QED
        BY <1>2, <4>1, <4>2
    <3> QED
      BY <3>1, <3>2
  <2> QED
    BY <2>1, <2>3 DEF WholeDatabase
<1>7. OwnersKept(now, r)
  BY <1>1, <1>4 DEF OwnersKept
<1> QED
  BY <1>1, <1>5, <1>6, <1>7

(* A merged cell has its value from one of the two sides.                  *)
LEMMA CellsMerged ==
  ASSUME NEW d, NEW now, NEW b, NEW m, WholeDatabase(d, now), NEW r, r = MergeDatabase(now, b, m)
  PROVE  /\ IsMap(r.cells)
         /\ \A k \in DOMAIN r.cells : /\ k[1] \in r.rows
                                      /\ \/ k \in DOMAIN m.cells /\ r.cells[k] = m.cells[k]
                                         \/ k \in DOMAIN now.cells /\ r.cells[k] = now.cells[k]
<1>1. PICK all, rows : /\ all = MergedMap(now.cells, b.cells, m.cells)
                       /\ rows = MergedSet(now.rows, b.rows, m.rows)
  OBVIOUS
<1>2. \A k \in DOMAIN all : \/ k \in DOMAIN m.cells /\ all[k] = m.cells[k]
                            \/ k \in DOMAIN now.cells /\ all[k] = now.cells[k]
  BY <1>1, MergedKeys
<1>3. r.rows = rows /\ r.cells = CellsIn(all, rows)
  BY <1>1, MergedParts
<1>4. PICK cells : cells = CellsIn(all, rows)
  OBVIOUS
<1>5. /\ IsMap(cells) /\ DOMAIN cells \subseteq DOMAIN all
      /\ \A k \in DOMAIN cells : k[1] \in rows /\ cells[k] = all[k]
  BY <1>4 DEF CellsIn, IsMap
<1> QED
  BY <1>2, <1>3, <1>4, <1>5

(* An update merged late into a database it was not made from.             *)
LEMMA DbMergedLate ==
  ASSUME NEW d, NEW now, NEW b, NEW m, WholeDatabase(d, now), WholeDatabase(d, b), WholeDatabase(d, m),
         b.columns \subseteq m.columns \cap now.columns,
         \A col \in m.columns \ b.columns, x \in now.columns : x.id # col.id,
         DataKept(b, m), OwnersKept(b, m), OwnersKept(b, now),
         NEW r, r = MergeDatabase(now, b, m)
  PROVE  /\ WholeDatabase(d, r)
         /\ r.columns = now.columns \cup m.columns
         /\ OwnersKept(now, r)
         /\ b.options \subseteq m.options => now.options \subseteq r.options
         /\ b.options \subseteq m.options \cap now.options /\ CellsReadable(now) /\ CellsReadable(m)
              => CellsReadable(r)
<1>1. r = [columns |-> MergedSet(now.columns, b.columns, m.columns),
            data |-> MergedMap(now.data, b.data, m.data),
            options |-> MergedSet(now.options, b.options, m.options),
            views |-> MergedSet(now.views, b.views, m.views),
            shown |-> MergedSet(now.shown, b.shown, m.shown),
            rows |-> MergedSet(now.rows, b.rows, m.rows),
            blocks |-> MergedSet(now.blocks, b.blocks, m.blocks),
            cells |-> CellsIn(MergedMap(now.cells, b.cells, m.cells), MergedSet(now.rows, b.rows, m.rows))]
  BY MergedParts
<1>2. r.columns = now.columns \cup m.columns
  BY <1>1 DEF MergedSet
<1>3. r.views = now.views /\ now.views = m.views /\ now.views = b.views
  BY <1>1 DEF MergedSet, WholeDatabase
<1>4. r.rows = r.blocks
  BY <1>1 DEF MergedSet, WholeDatabase
<1>5. r.shown = now.shown \cup m.shown
  <2>1. b.shown \subseteq m.shown /\ b.shown \subseteq now.shown
    BY <1>3 DEF WholeDatabase
  <2> QED
    BY <1>1, <2>1 DEF MergedSet
<1>6. r.shown = r.views \X {col.id : col \in r.columns}
  BY <1>2, <1>3, <1>5 DEF WholeDatabase
<1>7. \A x, y \in r.columns : x.id = y.id => x = y
  <2>1. SUFFICES ASSUME NEW x \in now.columns \cup m.columns, NEW y \in now.columns \cup m.columns, x.id = y.id
                 PROVE  x = y
    BY <1>2
  <2>2. (x \in now.columns /\ y \in now.columns) \/ (x \in m.columns /\ y \in m.columns)
        \/ (x \in now.columns /\ y \in m.columns \ b.columns) \/ (y \in now.columns /\ x \in m.columns \ b.columns)
    OBVIOUS
  <2> QED
    BY <2>1, <2>2 DEF WholeDatabase
<1>8. /\ IsMap(r.cells)
      /\ \A k \in DOMAIN r.cells : /\ k[1] \in r.rows
                                   /\ \/ k \in DOMAIN m.cells /\ r.cells[k] = m.cells[k]
                                      \/ k \in DOMAIN now.cells /\ r.cells[k] = now.cells[k]
  BY CellsMerged
<1>9. \A k \in DOMAIN r.cells : k[1] \in r.rows /\ \E col \in r.columns : col.id = k[2]
  BY <1>2, <1>8 DEF WholeDatabase
<1>10. r.options = MergedSet(now.options, b.options, m.options)
  BY <1>1
<1>11. /\ IsMap(r.data) /\ DOMAIN r.data = DOMAIN now.data \cup DOMAIN m.data
       /\ OwnersKept(now, r)
       /\ \A o \in now.options \cup m.options : Owns(r, o.column) => o.map = OwnData
  BY DataMerged
<1>12. /\ \A k \in DOMAIN r.data : \E col \in r.columns : col.id = k
       /\ \A o \in r.options : /\ o.label # NoLabel /\ o.column \in DOMAIN r.data
                               /\ Owns(r, o.column) => o.map = OwnData
  <2>1. \A o \in r.options : o \in now.options \cup m.options
    BY <1>10 DEF MergedSet
  <2> QED
    BY <1>2, <1>11, <2>1 DEF WholeDatabase
<1>13. WholeDatabase(d, r)
  <2>1. r = [columns |-> r.columns, data |-> r.data, options |-> r.options, views |-> r.views,
             shown |-> r.shown, rows |-> r.rows, blocks |-> r.blocks, cells |-> r.cells]
    BY <1>1
  <2> QED
    BY <1>3, <1>4, <1>6, <1>7, <1>8, <1>9, <1>11, <1>12, <2>1 DEF WholeDatabase
<1>14. b.options \subseteq m.options => now.options \subseteq r.options
  BY <1>10 DEF MergedSet
<1>15. ASSUME b.options \subseteq m.options \cap now.options, CellsReadable(now), CellsReadable(m)
       PROVE  CellsReadable(r)
  <2>1. now.options \subseteq r.options /\ m.options \subseteq r.options
    BY <1>10, <1>15 DEF MergedSet
  <2>2. SUFFICES ASSUME NEW k \in DOMAIN r.cells, NEW x \in r.columns, x.id = k[2]
                 PROVE  IF x.type \in SelectTypes
                        THEN \E o \in r.options : o.column = x.id /\ o.id = r.cells[k]
                        ELSE r.cells[k] # NoLabel
    BY DEF CellsReadable
  <2>3. CASE k \in DOMAIN m.cells /\ r.cells[k] = m.cells[k]
    <3>1. PICK col \in m.columns : col.id = k[2]
      BY <2>3 DEF WholeDatabase
    <3>2. col = x
      BY <1>2, <1>7, <2>2, <3>1
    <3> QED
      BY <1>15, <2>1, <2>2, <2>3, <3>1, <3>2 DEF CellsReadable
  <2>4. CASE k \in DOMAIN now.cells /\ r.cells[k] = now.cells[k]
    <3>1. PICK col \in now.columns : col.id = k[2]
      BY <2>4 DEF WholeDatabase
    <3>2. col = x
      BY <1>2, <1>7, <2>2, <3>1
    <3> QED
      BY <1>15, <2>1, <2>2, <2>4, <3>1, <3>2 DEF CellsReadable
  <2> QED
    BY <1>8, <2>2, <2>3, <2>4
<1> QED
  BY <1>2, <1>11, <1>13, <1>14, <1>15

-----------------------------------------------------------------------------
(* The page the tools start from: one board with one row.                  *)
LEMMA DbStart == DatabasesInit => DbInv
<1> SUFFICES ASSUME DatabasesInit PROVE DbInv
  OBVIOUS
<1>1. PICK cells, bare, start, db :
        /\ cells = <<[key |-> "Status", value |-> "todo"]>>
        /\ bare = EmptyBoard(Board)
        /\ start = bare \/ start \in AddedColumn(bare, Board, "Owner", "select", {})
        /\ db \in addDatabaseRowToBlock(start, Board, NewId(Board, "row"), cells)
        /\ dDoc = [d \in {Board} |-> db]
  BY DEF DatabasesInit
<1>2. /\ dPhase = [c \in Pushes |-> "idle"] /\ dStale = FALSE /\ dComposing = {}
  BY DEF DatabasesInit, DU!UpdatesInit
<1>3. Labelled(cells)
  <2>1. NoLabel # "todo"
    BY DatabasesAssumption
  <2>2. Len(cells) = 1 /\ cells[1].value = "todo"
    BY <1>1
  <2> QED
    BY <2>1, <2>2 DEF Labelled
<1>4. /\ WholeDatabase(Board, bare) /\ CellsReadable(bare) /\ OrderlyDatabase(bare)
      /\ bare.columns = {Column(NewId(Board, "Title"), "Title", "title"),
                         Column(NewId(Board, "Status"), "Status", "select")}
  BY <1>1, EmptyBoardWhole
<1>5. /\ WholeDatabase(Board, start) /\ CellsReadable(start) /\ OrderlyDatabase(start)
      /\ \A col \in start.columns : Maker(col.id) = Board
  <2>1. \A col \in bare.columns : Maker(col.id) = Board
    BY <1>4 DEF Column, NewId, Maker
  <2>2. CASE start = bare
    BY <1>4, <2>1, <2>2
  <2>3. CASE start \in AddedColumn(bare, Board, "Owner", "select", {})
    <3>1. PICK id : id = NewId(Board, "Owner")
      OBVIOUS
    <3>2. FreshId(bare, id) /\ FreshName(bare, "Owner") /\ FreshTitle(bare, "select")
      BY <1>4, <3>1 DEF Column, NewId, FreshId, FreshName, FreshTitle
    <3>3. start = WithColumn(bare, Column(id, "Owner", "select"), {})
      BY <2>3, <3>1 DEF AddedColumn
    <3>4. HasColumn(Board, bare, id, "Owner", "select", start)
      BY <1>4, <3>2, <3>3, ColumnAdded
    <3>5. Maker(Column(id, "Owner", "select").id) = Board
      BY <3>1 DEF Column, NewId, Maker
    <3> QED
      BY <1>4, <2>1, <3>2, <3>4, <3>5 DEF HasColumn
  <2> QED
    BY <1>1, <2>2, <2>3
<1>6. DbEdited(Board, Board, start, db) /\ db.columns = start.columns
  <2>1. Board # OwnData
    BY DatabasesAssumption
  <2>2. PICK row : row = NewId(Board, "row")
    OBVIOUS
  <2>3. WholeDatabase(Board, start) /\ db \in addDatabaseRowToBlock(start, Board, row, cells)
    BY <1>1, <1>5, <2>2
  <2> QED
    BY <1>3, <2>1, <2>3, RowAdded
<1>7. WholeDatabase(Board, db) /\ CellsReadable(db) /\ OrderlyDatabase(db)
  BY <1>5, <1>6 DEF DbEdited
<1>8. \A col \in db.columns : Maker(col.id) = Board
  BY <1>5, <1>6
<1>9. \A d \in DOMAIN dDoc : d = Board /\ dDoc[d] = db
  BY <1>1
<1>10. IsMap(dDoc)
  BY <1>1 DEF IsMap
<1>11. dPhase \in [Pushes -> DbPhases] /\ \A p \in Pushes : ~PendingDb(p)
  BY <1>2 DEF DbPhases, PendingDb
<1> QED
  BY <1>2, <1>7, <1>8, <1>9, <1>10, <1>11, DatabasesAssumption DEF DbInv

(* The databases a handler may push.                                       *)
DbHandled(p, r) ==
  /\ IsMap(r) /\ DOMAIN dDoc \subseteq DOMAIN r
  /\ \A d \in DOMAIN dDoc : r[d] # dDoc[d] =>
       /\ DbEdited(p, d, dDoc[d], r[d])
       /\ d = Board \/ p = Fill(d) \/ dPhase[Fill(d)] # "idle"
  /\ \A d \in DOMAIN r \ DOMAIN dDoc :
       p = d /\ d \in DbCalls /\ r[d] = EmptyBoard(d) /\ d \in dComposing'

(* The pushes of a call.                                                   *)
LEMMA FillIsPush == \A d \in DbCalls : d \in Pushes /\ Fill(d) \in Pushes
BY DEF Pushes

(* The pushes a handler leaves as they are.                                *)
LEMMA DbOthersKeep ==
  ASSUME DbInv, NEW q \in Pushes, PendingDb(q), dPhase'[q] = dPhase[q], dUpdate'[q] = dUpdate[q],
         dDoc' = dDoc, dStale' = dStale,
         \A o \in Pushes : /\ dPhase[o] # "idle" => dPhase'[o] = dPhase[o]
                           /\ dPhase[o] = "idle" => dPhase'[o] # "late",
         dPhase[q] = "lost" \/ \A o \in Pushes : dPhase[o] = "idle" => dPhase'[o] # "sent",
         \A d \in dComposing : d \in dComposing' \/ dPhase'[Fill(d)] # "idle"
  PROVE  DbUpdateFits(q)'
<1>1. PICK base, made : base = dUpdate[q].base /\ made = dUpdate[q].made
  OBVIOUS
<1>2. base = dUpdate'[q].base /\ made = dUpdate'[q].made
  BY <1>1
<1>3. /\ IsMap(base) /\ IsMap(made)
      /\ DOMAIN base \subseteq DOMAIN dDoc \cap DOMAIN made
      /\ \A d \in DOMAIN base : WholeDatabase(d, base[d])
      /\ \A d \in DOMAIN made : WholeDatabase(d, made[d])
      /\ \A d \in DOMAIN base : made[d] # base[d] => DbChange(q, d)
      /\ \A d \in DOMAIN made \ DOMAIN base :
           q = d /\ d \in DbCalls /\ made[d] = EmptyBoard(d) /\ (d \in dComposing \/ dPhase[Fill(d)] # "idle")
      /\ ~dStale => \A d \in DOMAIN made : OrderlyDatabase(made[d])
      /\ \A d \in DbCalls \cap DOMAIN base :
           q = Fill(d) /\ dPhase[q] = "sent" => dDoc[d] = base[d]
  BY <1>1 DEF DbInv, DbUpdateFits
<1>4. ASSUME NEW d \in DOMAIN base, made[d] # base[d] PROVE DbChange(q, d)'
  <2>1. DbChange(q, d) /\ d \in DOMAIN dDoc
    BY <1>3, <1>4
  <2>2. d = Board \/ d \in DbCalls
    BY <2>1 DEF DbInv
  <2>3. d = Board \/ (OptionsKept(d)' <=> OptionsKept(d))
    BY <2>2, FillIsPush DEF OptionsKept
  <2>4. OptionsKept(Board)' /\ OptionsKept(Board)
    BY DEF OptionsKept
  <2>5. d = Board \/ q = Fill(d) \/ dPhase'[Fill(d)] \notin {"idle", "sent"}
    BY <2>1, <2>2, FillIsPush DEF DbChange
  <2>6. OptionsKept(d)' => OptionsKept(d)
    BY <2>3, <2>4
  <2> QED
    BY <2>1, <2>5, <2>6 DEF DbChange
<1>5. ASSUME NEW d \in DOMAIN made \ DOMAIN base PROVE d \in dComposing' \/ dPhase'[Fill(d)] # "idle"
  <2>1. d \in DbCalls /\ (d \in dComposing \/ dPhase[Fill(d)] # "idle")
    BY <1>3, <1>5
  <2> QED
    BY <2>1, FillIsPush
<1> QED
  BY <1>2, <1>3, <1>4, <1>5 DEF DbUpdateFits

(* What holds of the page's databases when only phases change.             *)
LEMMA DbDocKept ==
  ASSUME DbInv, dDoc' = dDoc, dStale' = dStale,
         \A o \in Pushes : /\ dPhase[o] \in {"merged", "late"} => dPhase'[o] = dPhase[o]
                           /\ dPhase[o] # "idle" => dPhase'[o] # "idle"
                           /\ dPhase[o] # "late" => dPhase'[o] # "late",
         \A d \in dComposing : d \in dComposing' \/ dPhase'[Fill(d)] # "idle"
  PROVE  \A d \in DOMAIN dDoc' :
           /\ WholeDatabase(d, dDoc'[d])
           /\ OptionsKept(d)' => CellsReadable(dDoc'[d])
           /\ ~dStale' => OrderlyDatabase(dDoc'[d])
           /\ d # Board =>
                /\ d \in DbCalls /\ dPhase'[d] \in {"merged", "late"}
                /\ d \in dComposing' \/ dPhase'[Fill(d)] # "idle"
                /\ dPhase'[Fill(d)] = "idle" => dDoc'[d] = EmptyBoard(d)
           /\ \A col \in dDoc'[d].columns, p \in Pushes : Maker(col.id) = p => dPhase'[p] \in {"merged", "late"}
<1> SUFFICES ASSUME NEW d \in DOMAIN dDoc
             PROVE  /\ WholeDatabase(d, dDoc[d])
                    /\ OptionsKept(d)' => CellsReadable(dDoc[d])
                    /\ ~dStale => OrderlyDatabase(dDoc[d])
                    /\ d # Board =>
                         /\ d \in DbCalls /\ dPhase'[d] \in {"merged", "late"}
                         /\ d \in dComposing' \/ dPhase'[Fill(d)] # "idle"
                         /\ dPhase'[Fill(d)] = "idle" => dDoc[d] = EmptyBoard(d)
                    /\ \A col \in dDoc[d].columns, p \in Pushes :
                         Maker(col.id) = p => dPhase'[p] \in {"merged", "late"}
  OBVIOUS
<1>1. /\ WholeDatabase(d, dDoc[d])
      /\ OptionsKept(d) => CellsReadable(dDoc[d])
      /\ ~dStale => OrderlyDatabase(dDoc[d])
      /\ d # Board =>
            /\ d \in DbCalls /\ dPhase[d] \in {"merged", "late"}
            /\ d \in dComposing \/ dPhase[Fill(d)] # "idle"
            /\ dPhase[Fill(d)] = "idle" => dDoc[d] = EmptyBoard(d)
      /\ \A col \in dDoc[d].columns, p \in Pushes : Maker(col.id) = p => dPhase[p] \in {"merged", "late"}
  BY DEF DbInv
<1>2. OptionsKept(d)' => OptionsKept(d)
  BY <1>1, FillIsPush DEF OptionsKept
<1>3. d # Board => /\ d \in DbCalls /\ dPhase'[d] \in {"merged", "late"}
                   /\ d \in dComposing' \/ dPhase'[Fill(d)] # "idle"
                   /\ dPhase'[Fill(d)] = "idle" => dDoc[d] = EmptyBoard(d)
  BY <1>1, FillIsPush
<1>4. \A col \in dDoc[d].columns, p \in Pushes : Maker(col.id) = p => dPhase'[p] \in {"merged", "late"}
  BY <1>1
<1> QED
  BY <1>1, <1>2, <1>3, <1>4

(* A handler that pushes databases made from the page's.                   *)
LEMMA DbHandlerKeeps ==
  ASSUME DbInv, NEW p \in Pushes, NEW results, NEW asked, DU!Handled(p, results, asked),
         \A r \in results : DbHandled(p, r),
         dComposing' \subseteq DbCalls, \A x, y \in dComposing' : x = y,
         \A d \in dComposing : d \in dComposing' \/ p = Fill(d)
  PROVE  DbInv'
<1>1. dDoc' = dDoc /\ dStale' = dStale /\ dPhase[p] = "idle" /\ (\A o \in Pushes : dPhase[o] # "sent")
      /\ dPhase \in [Pushes -> DbPhases] /\ dStale \in BOOLEAN /\ IsMap(dDoc)
      /\ \A q \in Pushes : PendingDb(q) => DbUpdateFits(q)
  BY DEF DU!Handled, DbInv
<1>2. ASSUME NEW now \in {"sent", "refused"}, dPhase' = [dPhase EXCEPT ![p] = now],
             \A q \in Pushes : q # p /\ dPhase[q] = "lost" => dUpdate'[q] = dUpdate[q],
             now = "sent" => DbUpdateFits(p)'
      PROVE  DbInv'
  <2>1. /\ dPhase' \in [Pushes -> DbPhases] /\ dPhase'[p] = now
        /\ \A o \in Pushes \ {p} : dPhase'[o] = dPhase[o]
    BY <1>1, <1>2 DEF DbPhases
  <2>2. \A o \in Pushes : /\ dPhase[o] # "idle" => dPhase'[o] = dPhase[o]
                          /\ dPhase[o] = "idle" => dPhase'[o] # "late"
    BY <1>1, <1>2, <2>1
  <2>3. \A o \in Pushes : /\ dPhase[o] \in {"merged", "late"} => dPhase'[o] = dPhase[o]
                          /\ dPhase[o] # "idle" => dPhase'[o] # "idle"
                          /\ dPhase[o] # "late" => dPhase'[o] # "late"
    BY <1>1, <1>2, <2>1
  <2>4. \A d \in dComposing : d \in dComposing' \/ dPhase'[Fill(d)] # "idle"
    BY <1>2, <2>1
  <2>5. ASSUME NEW q \in Pushes, PendingDb(q)' PROVE DbUpdateFits(q)'
    <3>1. CASE q = p
      BY <1>2, <2>1, <2>5, <3>1 DEF PendingDb
    <3>2. CASE q # p
      <4>1. dPhase[q] = "lost" /\ dPhase'[q] = dPhase[q] /\ dUpdate'[q] = dUpdate[q] /\ PendingDb(q)
        BY <1>1, <1>2, <2>1, <2>5, <3>2 DEF PendingDb
      <4> QED
        BY <1>1, <2>2, <2>4, <4>1, DbOthersKeep
    <3> QED
      BY <3>1, <3>2
  <2>6. \A d \in DOMAIN dDoc' :
           /\ WholeDatabase(d, dDoc'[d])
           /\ OptionsKept(d)' => CellsReadable(dDoc'[d])
           /\ ~dStale' => OrderlyDatabase(dDoc'[d])
           /\ d # Board =>
                /\ d \in DbCalls /\ dPhase'[d] \in {"merged", "late"}
                /\ d \in dComposing' \/ dPhase'[Fill(d)] # "idle"
                /\ dPhase'[Fill(d)] = "idle" => dDoc'[d] = EmptyBoard(d)
           /\ \A col \in dDoc'[d].columns, o \in Pushes : Maker(col.id) = o => dPhase'[o] \in {"merged", "late"}
    BY <1>1, <2>3, <2>4, DbDocKept
  <2> QED
    BY <1>1, <2>1, <2>5, <2>6 DEF DbInv
<1>3. CASE dPhase' = [dPhase EXCEPT ![p] = "refused"] /\ dUpdate' = dUpdate
  BY <1>2, <1>3
<1>4. ASSUME NEW r \in results, dPhase' = [dPhase EXCEPT ![p] = "sent"],
             dUpdate' = [o \in Pushes |->
                IF o = p THEN [base |-> dDoc, made |-> r, asked |-> asked]
                ELSE IF dPhase[o] = "lost" THEN dUpdate[o] ELSE DU!Nothing]
      PROVE  DbInv'
  <2>1. \A q \in Pushes : q # p /\ dPhase[q] = "lost" => dUpdate'[q] = dUpdate[q]
    BY <1>4
  <2>2. dUpdate'[p].base = dDoc /\ dUpdate'[p].made = r
    BY <1>4
  <2>3. DbHandled(p, r)
    BY <1>4
  <2>4. /\ dPhase' \in [Pushes -> DbPhases] /\ dPhase'[p] = "sent"
        /\ \A o \in Pushes \ {p} : dPhase'[o] = dPhase[o]
    BY <1>1, <1>4 DEF DbPhases
  <2>5. ASSUME NEW d \in DOMAIN dDoc, r[d] # dDoc[d]
        PROVE  DbChange(p, d)' /\ WholeDatabase(d, r[d]) /\ (~dStale => OrderlyDatabase(r[d]))
    <3>1. DbEdited(p, d, dDoc[d], r[d]) /\ (d = Board \/ p = Fill(d) \/ dPhase[Fill(d)] # "idle")
      BY <2>3, <2>5 DEF DbHandled
    <3>2. /\ OptionsKept(d) => CellsReadable(dDoc[d])
          /\ ~dStale => OrderlyDatabase(dDoc[d])
          /\ d # Board => d \in DbCalls
      BY DEF DbInv
    <3>3. OptionsKept(d)' => OptionsKept(d)
      BY <1>1, <2>4, <3>2, FillIsPush DEF OptionsKept
    <3>4. d = Board \/ p = Fill(d) \/ dPhase'[Fill(d)] \notin {"idle", "sent"}
      BY <1>1, <2>4, <3>1, <3>2, FillIsPush
    <3>5. OwnersKept(dDoc[d], dDoc[d])
      BY DEF OwnersKept
    <3> QED
      BY <1>1, <2>2, <3>1, <3>2, <3>3, <3>4, <3>5 DEF DbChange, DbEdited
  <2>6. ASSUME NEW d \in DOMAIN r
        PROVE  WholeDatabase(d, r[d]) /\ (~dStale => OrderlyDatabase(r[d]))
    <3>1. CASE d \notin DOMAIN dDoc
      BY <2>3, <3>1, EmptyBoardWhole DEF DbHandled
    <3>2. CASE d \in DOMAIN dDoc /\ r[d] = dDoc[d]
      BY <3>2 DEF DbInv
    <3>3. CASE d \in DOMAIN dDoc /\ r[d] # dDoc[d]
      BY <2>5, <3>3
    <3> QED
      BY <3>1, <3>2, <3>3
  <2>7. \A d \in DOMAIN dDoc : WholeDatabase(d, dDoc[d])
    BY DEF DbInv
  <2>8. DbUpdateFits(p)'
    BY <1>1, <2>2, <2>3, <2>5, <2>6, <2>7 DEF DbUpdateFits, DbHandled
  <2> QED
    BY <1>2, <1>4, <2>1, <2>8
<1> QED
  BY <1>3, <1>4 DEF DU!Handled

(* The merge of an update into a database of the page that it changes.     *)
LEMMA DbChangeMerged ==
  ASSUME DbInv, NEW p \in Pushes, PendingDb(p), NEW d \in DOMAIN dDoc, d \in DOMAIN dUpdate[p].base,
         dUpdate[p].made[d] # dUpdate[p].base[d],
         NEW r, r = MergeDatabase(dDoc[d], dUpdate[p].base[d], dUpdate[p].made[d])
  PROVE  /\ WholeDatabase(d, r)
         /\ dDoc[d].columns \subseteq r.columns
         /\ OwnersKept(dDoc[d], r)
         /\ \A col \in r.columns : col \in dDoc[d].columns \/ Maker(col.id) = p
         /\ OptionsKept(d) /\ p # Fill(d) => dDoc[d].options \subseteq r.options
         /\ OptionsKept(d) /\ (p = Fill(d) => dPhase[p] = "sent") => CellsReadable(r)
         /\ ~dStale /\ dDoc = dUpdate[p].base => OrderlyDatabase(r)
<1>1. PICK now, b, m : now = dDoc[d] /\ b = dUpdate[p].base[d] /\ m = dUpdate[p].made[d]
  OBVIOUS
<1>2. /\ WholeDatabase(d, now) /\ WholeDatabase(d, b) /\ WholeDatabase(d, m)
      /\ DbChange(p, d)
      /\ ~dStale => OrderlyDatabase(m)
      /\ OptionsKept(d) => CellsReadable(now)
      /\ d \in DbCalls /\ p = Fill(d) /\ dPhase[p] = "sent" => now = b
      /\ d = Board \/ d \in DbCalls
      /\ \A col \in now.columns : Maker(col.id) # p
  <2>1. DbUpdateFits(p)
    BY DEF DbInv
  <2>2. /\ WholeDatabase(d, now) /\ (OptionsKept(d) => CellsReadable(now)) /\ (d = Board \/ d \in DbCalls)
        /\ \A col \in now.columns : Maker(col.id) # p
    BY <1>1 DEF DbInv, PendingDb
  <2>3. d \in DOMAIN dUpdate[p].made
    BY <2>1 DEF DbUpdateFits
  <2> QED
    BY <1>1, <2>1, <2>2, <2>3 DEF DbUpdateFits
<1>3. /\ b.columns \subseteq m.columns \cap now.columns
      /\ DataKept(b, m) /\ OwnersKept(b, m) /\ OwnersKept(b, now)
      /\ \A col \in m.columns \ b.columns : Maker(col.id) = p
      /\ OptionsKept(d) =>
           /\ CellsReadable(m)
           /\ p # Fill(d) => b.options \subseteq m.options \cap now.options
  BY <1>1, <1>2 DEF DbChange
<1>4. \A col \in m.columns \ b.columns, x \in now.columns : x.id # col.id
  BY <1>2, <1>3
<1>5. r = MergeDatabase(now, b, m)
  BY <1>1
<1>6. /\ WholeDatabase(d, r)
      /\ r.columns = now.columns \cup m.columns
      /\ OwnersKept(now, r)
      /\ b.options \subseteq m.options => now.options \subseteq r.options
      /\ b.options \subseteq m.options \cap now.options /\ CellsReadable(now) /\ CellsReadable(m)
           => CellsReadable(r)
  <2>1. b.columns \subseteq m.columns \cap now.columns /\ DataKept(b, m) /\ OwnersKept(b, m) /\ OwnersKept(b, now)
    BY <1>3
  <2> QED
    BY <1>2, <1>4, <1>5, <2>1, DbMergedLate
<1>7. now = b => r = m
  BY <1>2, <1>5, DbMergesInPlace
<1>8. OptionsKept(d) /\ (p = Fill(d) => dPhase[p] = "sent") => CellsReadable(r)
  <2>1. CASE p # Fill(d)
    BY <1>2, <1>3, <1>6, <2>1
  <2>2. CASE p = Fill(d)
    <3>1. d \in DbCalls
      BY <1>2, <2>2, DatabasesAssumption DEF Pushes, Fill
    <3> QED
      BY <1>2, <1>3, <1>7, <2>2, <3>1
  <2> QED
    BY <2>1, <2>2
<1>9. ~dStale /\ dDoc = dUpdate[p].base => OrderlyDatabase(r)
  BY <1>1, <1>2, <1>7
<1>10. OptionsKept(d) /\ p # Fill(d) => now.options \subseteq r.options
  BY <1>3, <1>6
<1>11. \A col \in r.columns : col \in now.columns \/ Maker(col.id) = p
  BY <1>3, <1>6
<1> QED
  BY <1>1, <1>6, <1>8, <1>9, <1>10, <1>11

(* A push is merged, in order or late.                                     *)
LEMMA DbMergeKeeps ==
  ASSUME DbInv, NEW p \in Pushes, DU!MergeUpdate(p), dComposing' = dComposing
  PROVE  DbInv'
<1>1. PICK base, made : base = dUpdate[p].base /\ made = dUpdate[p].made
  OBVIOUS
<1>2. /\ PendingDb(p) /\ dUpdate' = dUpdate /\ dStale' = (dStale \/ dDoc # base)
      /\ dDoc' = DbMerge(dDoc, base, made)
      /\ dPhase' \in [Pushes -> DbPhases] /\ dStale' \in BOOLEAN
      /\ dPhase'[p] = IF dPhase[p] = "sent" THEN "merged" ELSE "late"
      /\ \A o \in Pushes \ {p} : dPhase'[o] = dPhase[o]
  BY <1>1 DEF DbInv, DU!MergeUpdate, DbPhases, PendingDb
<1>3. /\ IsMap(dDoc) /\ IsMap(made) /\ DOMAIN base \subseteq DOMAIN dDoc \cap DOMAIN made
      /\ \A d \in DOMAIN base : made[d] # base[d] => DbChange(p, d)
      /\ \A d \in DOMAIN made \ DOMAIN base :
           p = d /\ d \in DbCalls /\ made[d] = EmptyBoard(d) /\ (d \in dComposing \/ dPhase[Fill(d)] # "idle")
  BY <1>1, <1>2 DEF DbInv, DbUpdateFits
<1>4. /\ IsMap(dDoc') /\ DOMAIN dDoc' = DOMAIN dDoc \cup DOMAIN made
      /\ \A d \in DOMAIN dDoc : d \notin DOMAIN base => dDoc'[d] = dDoc[d]
      /\ \A d \in DOMAIN base : dDoc'[d] = MergeDatabase(dDoc[d], base[d], made[d])
      /\ \A d \in DOMAIN made \ DOMAIN dDoc : dDoc'[d] = made[d] /\ d \notin DOMAIN base
  BY <1>2, <1>3 DEF DbMerge, IsMap
<1>5. ASSUME NEW d \in DOMAIN base, made[d] = base[d] PROVE dDoc'[d] = dDoc[d]
  <2>1. WholeDatabase(d, dDoc[d])
    BY <1>3, <1>5 DEF DbInv
  <2> QED
    BY <1>4, <1>5, <2>1, DbLeftAlone
<1>6. \A o \in Pushes : /\ dPhase[o] \in {"merged", "late"} => dPhase'[o] = dPhase[o]
                        /\ dPhase[o] # "idle" => dPhase'[o] # "idle"
                        /\ dPhase'[o] = "idle" => dPhase[o] = "idle"
                        /\ dPhase[o] \notin {"idle", "sent"} => dPhase'[o] \notin {"idle", "sent"}
                        /\ dPhase'[o] = "sent" => dPhase[o] = "sent" /\ o # p
                        /\ dPhase'[o] # "late" => dPhase[o] # "late"
  BY <1>2 DEF PendingDb
<1>7. \A d \in DOMAIN dDoc : d = Board \/ d \in DbCalls
  BY DEF DbInv
<1>8. ASSUME NEW d \in DOMAIN dDoc PROVE OptionsKept(d)' => OptionsKept(d)
  BY <1>6, <1>7, <1>8, FillIsPush DEF OptionsKept
<1>9. ASSUME NEW d \in DOMAIN dDoc, dDoc'[d] # dDoc[d]
      PROVE  /\ d \in DOMAIN base /\ made[d] # base[d] /\ DbChange(p, d)
             /\ WholeDatabase(d, dDoc'[d])
             /\ dDoc[d].columns \subseteq dDoc'[d].columns
             /\ OwnersKept(dDoc[d], dDoc'[d])
             /\ \A col \in dDoc'[d].columns : col \in dDoc[d].columns \/ Maker(col.id) = p
             /\ OptionsKept(d) /\ p # Fill(d) => dDoc[d].options \subseteq dDoc'[d].options
             /\ OptionsKept(d) /\ (p = Fill(d) => dPhase[p] = "sent") => CellsReadable(dDoc'[d])
             /\ ~dStale /\ dDoc = base => OrderlyDatabase(dDoc'[d])
  <2>1. d \in DOMAIN base /\ made[d] # base[d] /\ DbChange(p, d)
    BY <1>3, <1>4, <1>5, <1>9
  <2>2. PICK r : r = MergeDatabase(dDoc[d], base[d], made[d]) /\ r = dDoc'[d]
    BY <1>4, <2>1
  <2>3. r = MergeDatabase(dDoc[d], dUpdate[p].base[d], dUpdate[p].made[d])
        /\ d \in DOMAIN dUpdate[p].base /\ dUpdate[p].made[d] # dUpdate[p].base[d]
    BY <1>1, <2>1, <2>2
  <2>4. /\ WholeDatabase(d, r)
        /\ dDoc[d].columns \subseteq r.columns
        /\ OwnersKept(dDoc[d], r)
        /\ \A col \in r.columns : col \in dDoc[d].columns \/ Maker(col.id) = p
        /\ OptionsKept(d) /\ p # Fill(d) => dDoc[d].options \subseteq r.options
        /\ OptionsKept(d) /\ (p = Fill(d) => dPhase[p] = "sent") => CellsReadable(r)
        /\ ~dStale /\ dDoc = dUpdate[p].base => OrderlyDatabase(r)
    BY <1>2, <2>3, DbChangeMerged
  <2> QED
    BY <1>1, <2>1, <2>2, <2>4
<1>10. ASSUME NEW d \in DOMAIN dDoc, d # Board, p = Fill(d), dDoc'[d] # dDoc[d], OptionsKept(d)'
       PROVE  dPhase[p] = "sent"
  <2>1. Fill(d) \in Pushes
    BY <1>7, <1>10, FillIsPush
  <2> QED
    BY <1>2, <1>10, <2>1 DEF OptionsKept, PendingDb
<1>11. ASSUME NEW d \in DOMAIN dDoc'
       PROVE  /\ WholeDatabase(d, dDoc'[d])
              /\ OptionsKept(d)' => CellsReadable(dDoc'[d])
              /\ ~dStale' => OrderlyDatabase(dDoc'[d])
              /\ d # Board =>
                   /\ d \in DbCalls /\ dPhase'[d] \in {"merged", "late"}
                   /\ d \in dComposing' \/ dPhase'[Fill(d)] # "idle"
                   /\ dPhase'[Fill(d)] = "idle" => dDoc'[d] = EmptyBoard(d)
              /\ \A col \in dDoc'[d].columns, o \in Pushes : Maker(col.id) = o => dPhase'[o] \in {"merged", "late"}
  <2>1. CASE d \notin DOMAIN dDoc
    <3>1. /\ p = d /\ d \in DbCalls /\ dDoc'[d] = EmptyBoard(d)
          /\ d \in dComposing \/ dPhase[Fill(d)] # "idle"
      BY <1>3, <1>4, <1>11, <2>1
    <3>2. PICK db : db = EmptyBoard(d)
      OBVIOUS
    <3>3. /\ WholeDatabase(d, db) /\ CellsReadable(db) /\ OrderlyDatabase(db)
          /\ db.columns = {Column(NewId(d, "Title"), "Title", "title"),
                           Column(NewId(d, "Status"), "Status", "select")}
      BY <3>2, EmptyBoardWhole
    <3>4. \A col \in db.columns : Maker(col.id) = d
      BY <3>3 DEF Column, NewId, Maker
    <3>5. dPhase'[p] \in {"merged", "late"}
      BY <1>2
    <3> QED
      BY <1>2, <1>6, <3>1, <3>2, <3>3, <3>4, <3>5, FillIsPush
  <2>2. CASE d \in DOMAIN dDoc
    <3>1. /\ WholeDatabase(d, dDoc[d])
          /\ OptionsKept(d) => CellsReadable(dDoc[d])
          /\ ~dStale => OrderlyDatabase(dDoc[d])
          /\ d # Board =>
               /\ d \in DbCalls /\ dPhase[d] \in {"merged", "late"}
               /\ d \in dComposing \/ dPhase[Fill(d)] # "idle"
               /\ dPhase[Fill(d)] = "idle" => dDoc[d] = EmptyBoard(d)
          /\ \A col \in dDoc[d].columns, o \in Pushes : Maker(col.id) = o => dPhase[o] \in {"merged", "late"}
      BY <2>2 DEF DbInv
    <3>2. d # Board => /\ d \in DbCalls /\ dPhase'[d] \in {"merged", "late"}
                       /\ d \in dComposing' \/ dPhase'[Fill(d)] # "idle"
      BY <1>2, <1>6, <3>1, FillIsPush
    <3>3. CASE dDoc'[d] = dDoc[d]
      <4>1. d # Board => (dPhase'[Fill(d)] = "idle" => dDoc'[d] = EmptyBoard(d))
        BY <1>6, <3>1, <3>3, FillIsPush
      <4>2. OptionsKept(d)' => CellsReadable(dDoc'[d])
        BY <1>8, <2>2, <3>1, <3>3
      <4> QED
        BY <1>2, <1>6, <3>1, <3>2, <3>3, <4>1, <4>2
    <3>4. CASE dDoc'[d] # dDoc[d]
      <4>1. /\ d \in DOMAIN base /\ made[d] # base[d] /\ DbChange(p, d)
            /\ WholeDatabase(d, dDoc'[d])
            /\ \A col \in dDoc'[d].columns : col \in dDoc[d].columns \/ Maker(col.id) = p
            /\ OptionsKept(d) /\ (p = Fill(d) => dPhase[p] = "sent") => CellsReadable(dDoc'[d])
            /\ ~dStale /\ dDoc = base => OrderlyDatabase(dDoc'[d])
        BY <1>9, <2>2, <3>4
      <4>2. d = Board => p # Fill(d)
        BY DatabasesAssumption DEF Pushes, Fill
      <4>3. OptionsKept(d)' => CellsReadable(dDoc'[d])
        BY <1>8, <1>10, <2>2, <3>4, <4>1, <4>2
      <4>4. d # Board => dPhase'[Fill(d)] # "idle"
        BY <1>2, <1>6, <3>1, <4>1, FillIsPush DEF DbChange, PendingDb
      <4>5. \A col \in dDoc'[d].columns, o \in Pushes : Maker(col.id) = o => dPhase'[o] \in {"merged", "late"}
        BY <1>2, <1>6, <3>1, <4>1
      <4> QED
        BY <1>2, <3>2, <4>1, <4>3, <4>4, <4>5
    <3> QED
      BY <3>3, <3>4
  <2> QED
    BY <2>1, <2>2
<1>12. ASSUME NEW q \in Pushes, PendingDb(q)' PROVE DbUpdateFits(q)'
  <2>1. q # p /\ PendingDb(q) /\ DbUpdateFits(q)
    BY <1>2, <1>12 DEF DbInv, PendingDb
  <2>2. PICK qbase, qmade : qbase = dUpdate[q].base /\ qmade = dUpdate[q].made
    OBVIOUS
  <2>3. qbase = dUpdate'[q].base /\ qmade = dUpdate'[q].made
    BY <1>2, <2>2
  <2>4. /\ IsMap(qbase) /\ IsMap(qmade)
        /\ DOMAIN qbase \subseteq DOMAIN dDoc \cap DOMAIN qmade
        /\ \A d \in DOMAIN qbase : WholeDatabase(d, qbase[d])
        /\ \A d \in DOMAIN qmade : WholeDatabase(d, qmade[d])
        /\ \A d \in DOMAIN qbase : qmade[d] # qbase[d] => DbChange(q, d)
        /\ \A d \in DOMAIN qmade \ DOMAIN qbase :
             q = d /\ d \in DbCalls /\ qmade[d] = EmptyBoard(d) /\ (d \in dComposing \/ dPhase[Fill(d)] # "idle")
        /\ ~dStale => \A d \in DOMAIN qmade : OrderlyDatabase(qmade[d])
        /\ \A d \in DbCalls \cap DOMAIN qbase :
             q = Fill(d) /\ dPhase[q] = "sent" => dDoc[d] = qbase[d]
    BY <2>1, <2>2 DEF DbUpdateFits
  <2>5. ASSUME NEW d \in DOMAIN qbase, qmade[d] # qbase[d] PROVE DbChange(q, d)'
    <3>1. DbChange(q, d) /\ d \in DOMAIN dDoc
      BY <2>4, <2>5
    <3>2. d = Board \/ q = Fill(d) \/ dPhase'[Fill(d)] \notin {"idle", "sent"}
      BY <1>6, <1>7, <3>1, FillIsPush DEF DbChange
    <3>3. dDoc[d].columns \subseteq dDoc'[d].columns /\ OwnersKept(dDoc[d], dDoc'[d])
      <4>1. OwnersKept(dDoc[d], dDoc[d])
        BY DEF OwnersKept
      <4> QED
        BY <1>9, <3>1, <4>1
    <3>4. OptionsKept(d)' /\ q # Fill(d) => dDoc[d].options \subseteq dDoc'[d].options
      <4>1. SUFFICES ASSUME OptionsKept(d)', q # Fill(d), dDoc'[d] # dDoc[d]
                     PROVE  dDoc[d].options \subseteq dDoc'[d].options
        OBVIOUS
      <4>2. p # Fill(d)
        <5>1. CASE d = Board
          BY <5>1, DatabasesAssumption DEF Pushes, Fill
        <5>2. CASE d # Board
          <6>1. dPhase[Fill(d)] \notin {"idle", "sent"}
            BY <3>1, <4>1, <5>2 DEF DbChange
          <6> QED
            BY <1>10, <3>1, <4>1, <5>2, <6>1
        <5> QED
          BY <5>1, <5>2
      <4> QED
        BY <1>8, <1>9, <3>1, <4>1, <4>2
    <3>5. OptionsKept(d)' => OptionsKept(d)
      BY <1>8, <3>1
    <3>6. OwnersKept(qbase[d], dDoc'[d])
      <4>1. OwnersKept(qbase[d], dDoc[d]) /\ qbase[d].columns \subseteq dDoc[d].columns
        BY <2>2, <3>1 DEF DbChange
      <4> QED
        BY <3>3, <4>1 DEF OwnersKept
    <3> QED
      BY <1>2, <2>2, <3>1, <3>2, <3>3, <3>4, <3>5, <3>6 DEF DbChange
  <2>6. ASSUME NEW d \in DOMAIN qmade \ DOMAIN qbase PROVE d \in dComposing' \/ dPhase'[Fill(d)] # "idle"
    BY <1>2, <1>6, <2>4, <2>6, FillIsPush
  <2>7. ASSUME NEW d \in DbCalls \cap DOMAIN qbase, q = Fill(d), dPhase'[q] = "sent" PROVE dDoc'[d] = qbase[d]
    <3>1. dPhase[q] = "sent" /\ dDoc[d] = qbase[d] /\ d \in DOMAIN dDoc /\ d # Board
      BY <1>6, <2>4, <2>7, DatabasesAssumption DEF Pushes
    <3>2. dDoc'[d] = dDoc[d]
      BY <1>9, <2>1, <2>7, <3>1 DEF DbChange
    <3> QED
      BY <3>1, <3>2
  <2>8. DOMAIN qbase \subseteq DOMAIN dDoc' \cap DOMAIN qmade
    BY <1>4, <2>4
  <2>9. ~dStale' => ~dStale
    BY <1>2
  <2> QED
    BY <2>3, <2>4, <2>5, <2>6, <2>7, <2>8, <2>9 DEF DbUpdateFits
<1>13. dComposing' \subseteq DbCalls /\ \A x, y \in dComposing' : x = y
  BY DEF DbInv
<1> QED
  BY <1>2, <1>4, <1>11, <1>12, <1>13 DEF DbInv

-----------------------------------------------------------------------------
(* An edit of one database.                                                *)
LEMMA DatabaseEditKeeps ==
  ASSUME DbInv, NEW c \in DbCalls, NEW d \in DOMAIN dDoc, NEW results, Edit(c, d, results),
         \A r \in results : DbEdited(c, d, dDoc[d], r)
  PROVE  DbInv'
<1>1. /\ dComposing = {} /\ dComposing' = {}
      /\ DU!Handled(c, {[dDoc EXCEPT ![d] = r] : r \in results}, {})
  BY DEF Edit
<1>2. ASSUME NEW r \in results PROVE DbHandled(c, [dDoc EXCEPT ![d] = r])
  <2>1. PICK x : x = [dDoc EXCEPT ![d] = r]
    OBVIOUS
  <2>2. /\ IsMap(x) /\ DOMAIN x = DOMAIN dDoc /\ x[d] = r
        /\ \A e \in DOMAIN dDoc : e # d => x[e] = dDoc[e]
    BY <2>1 DEF DbInv, IsMap
  <2>3. DbEdited(c, d, dDoc[d], r)
    BY <1>2
  <2>4. d = Board \/ dPhase[Fill(d)] # "idle"
    BY <1>1 DEF DbInv
  <2>5. DbHandled(c, x)
    BY <2>2, <2>3, <2>4 DEF DbHandled
  <2> QED
    BY <2>1, <2>5
<1>3. PICK docs : docs = {[dDoc EXCEPT ![d] = r] : r \in results}
  OBVIOUS
<1>4. \A x \in docs : DbHandled(c, x)
  BY <1>2, <1>3
<1>5. DU!Handled(c, docs, {}) /\ c \in Pushes
  BY <1>1, <1>3, FillIsPush
<1>6. /\ dComposing' \subseteq DbCalls /\ (\A x, y \in dComposing' : x = y)
      /\ \A e \in dComposing : e \in dComposing' \/ c = Fill(e)
  BY <1>1
<1> QED
  BY <1>4, <1>5, <1>6, DbHandlerKeeps

(* Every value of a call is a label.                                       *)
LEMMA InputsLabelled == \A cells \in CellInputs : Labelled(cells)
<1>1. ASSUME NEW l \in Labels PROVE l # NoLabel
  BY DatabasesAssumption
<1>2. ASSUME NEW k, NEW l \in Labels, NEW cells, cells = <<[key |-> k, value |-> l]>> PROVE Labelled(cells)
  BY <1>1, <1>2 DEF Labelled
<1>3. ASSUME NEW l \in Labels, NEW cells,
             cells = <<[key |-> "Status", value |-> l], [key |-> "Owner", value |-> l]>>
      PROVE  Labelled(cells)
  <2>1. Len(cells) = 2 /\ cells[1].value = l /\ cells[2].value = l
    BY <1>3
  <2>2. \A i \in 1..2 : i = 1 \/ i = 2
    OBVIOUS
  <2> QED
    BY <1>1, <2>1, <2>2 DEF Labelled
<1> QED
  BY <1>2, <1>3 DEF CellInputs

(* When the push that fills the database of a composition is made.         *)
FillsWait ==
  /\ dPhase \in [Pushes -> DbPhases] /\ dComposing \subseteq DbCalls
  /\ \A c \in dComposing : dPhase[c] # "idle" /\ dPhase[Fill(c)] = "idle"
  /\ \A c \in DbCalls : dPhase[c] = "idle" => dPhase[Fill(c)] = "idle"

(* It is not made before the push that adds the database, nor twice.       *)
LEMMA FillsKept == FillsWait /\ [DatabasesNext]_dbVars => FillsWait'
<1> SUFFICES ASSUME FillsWait, [DatabasesNext]_dbVars PROVE FillsWait'
  OBVIOUS
<1>1. \A c, e \in DbCalls : c # Fill(e) /\ (Fill(c) = Fill(e) => c = e)
  BY DatabasesAssumption DEF Fill
<1>2. ASSUME NEW p \in Pushes, NEW now \in DbPhases \ {"idle"}, dPhase' = [dPhase EXCEPT ![p] = now],
             dComposing' \subseteq DbCalls, \A c \in dComposing' : dPhase'[c] # "idle" /\ dPhase'[Fill(c)] = "idle",
             \A c \in DbCalls : p = Fill(c) => dPhase[c] # "idle"
      PROVE  FillsWait'
  <2>1. /\ dPhase' \in [Pushes -> DbPhases] /\ dPhase'[p] = now
        /\ \A o \in Pushes \ {p} : dPhase'[o] = dPhase[o]
    BY <1>2 DEF FillsWait
  <2>2. \A c \in DbCalls : dPhase'[c] = "idle" => dPhase'[Fill(c)] = "idle"
    BY <1>2, <2>1, FillIsPush DEF FillsWait
  <2> QED
    BY <1>2, <2>1, <2>2 DEF FillsWait
<1>3. ASSUME NEW p \in Pushes, NEW results, NEW asked, DU!Handled(p, results, asked)
      PROVE  /\ dPhase[p] = "idle"
             /\ \E now \in DbPhases \ {"idle"} : dPhase' = [dPhase EXCEPT ![p] = now]
  BY <1>3 DEF DU!Handled, DbPhases
<1>4. ASSUME NEW c \in DbCalls, dComposing' = {}, NEW results, NEW asked, DU!Handled(c, results, asked)
      PROVE  FillsWait'
  BY <1>1, <1>2, <1>3, <1>4, FillIsPush
<1>5. ASSUME NEW c \in DbCalls, NEW d, NEW results, Edit(c, d, results) PROVE FillsWait'
  <2>1. dComposing' = {} /\ DU!Handled(c, {[dDoc EXCEPT ![d] = r] : r \in results}, {})
    BY <1>5 DEF Edit
  <2>2. PICK docs : docs = {[dDoc EXCEPT ![d] = r] : r \in results}
    OBVIOUS
  <2> QED
    BY <1>4, <2>1, <2>2
<1>6. ASSUME NEW c \in DbCalls, composeDatabase(c) PROVE FillsWait'
  <2>1. PICK docs : docs = {MapSet(dDoc, c, EmptyBoard(c))}
    OBVIOUS
  <2>2. DU!Handled(c, docs, {}) /\ dComposing' = {c} /\ c \in Pushes
    BY <1>6, <2>1, FillIsPush DEF composeDatabase
  <2>3. PICK now \in DbPhases \ {"idle"} : dPhase' = [dPhase EXCEPT ![c] = now]
    BY <1>3, <2>2
  <2>4. dPhase[Fill(c)] = "idle" /\ c # Fill(c) /\ Fill(c) \in Pushes
    BY <1>1, <1>3, <2>2, FillIsPush DEF FillsWait
  <2>5. dPhase'[c] # "idle" /\ dPhase'[Fill(c)] = "idle"
    BY <2>2, <2>3, <2>4 DEF FillsWait
  <2> QED
    BY <1>1, <1>2, <2>2, <2>3, <2>5
<1>7. ASSUME NEW c \in DbCalls, FillDatabase(c) PROVE FillsWait'
  <2>1. PICK docs : docs = {[dDoc EXCEPT ![c] = r] : r \in Filled(dDoc[c], c)}
    OBVIOUS
  <2>2. DU!Handled(Fill(c), docs, {}) /\ dComposing' = {} /\ Fill(c) \in Pushes /\ dPhase[c] # "idle"
    BY <1>7, <2>1, FillIsPush DEF FillDatabase
  <2>3. PICK now \in DbPhases \ {"idle"} : dPhase' = [dPhase EXCEPT ![Fill(c)] = now]
    BY <1>3, <2>2
  <2> QED
    BY <1>1, <1>2, <2>2, <2>3
<1>8. ASSUME NEW c \in DbCalls, ComposeFails(c) PROVE FillsWait'
  <2>1. /\ dPhase' = [dPhase EXCEPT ![Fill(c)] = "refused"] /\ dComposing' = {}
        /\ Fill(c) \in Pushes /\ dPhase[c] # "idle"
    BY <1>8, FillIsPush DEF ComposeFails, FillsWait
  <2>2. "refused" \in DbPhases \ {"idle"}
    BY DEF DbPhases
  <2> QED
    BY <1>1, <1>2, <2>1, <2>2
<1>9. ASSUME NEW p \in Pushes, DU!MergeUpdate(p) \/ DU!LoseAck(p), UNCHANGED dComposing PROVE FillsWait'
  <2>1. dPhase[p] \in {"sent", "lost"} /\ \E now \in DbPhases \ {"idle"} : dPhase' = [dPhase EXCEPT ![p] = now]
    BY <1>9 DEF DU!MergeUpdate, DU!LoseAck, DbPhases
  <2>2. PICK now \in DbPhases \ {"idle"} : dPhase' = [dPhase EXCEPT ![p] = now]
    BY <2>1
  <2>3. \A c \in dComposing : dPhase'[c] # "idle" /\ dPhase'[Fill(c)] = "idle"
    BY <2>1, <2>2, FillIsPush DEF FillsWait
  <2>4. \A c \in DbCalls : p = Fill(c) => dPhase[c] # "idle"
    BY <2>1 DEF FillsWait
  <2> QED
    BY <1>2, <1>9, <2>2, <2>3, <2>4 DEF FillsWait
<1>10. ASSUME NEW c \in DbCalls,
              addDatabaseRow(c) \/ deleteDatabaseRow(c) \/ updateDatabaseRow(c) \/ addDatabaseColumn(c)
       PROVE  FillsWait'
  <2>1. \E d, results : Edit(c, d, results)
    BY <1>10 DEF addDatabaseRow, deleteDatabaseRow, updateDatabaseRow, addDatabaseColumn
  <2> QED
    BY <1>5, <2>1
<1>11. UNCHANGED dbVars => FillsWait'
  BY DEF dbVars, FillsWait
<1> QED
  BY <1>6, <1>7, <1>8, <1>9, <1>10, <1>11 DEF DatabasesNext

(* Every step of the database tools keeps the invariant.                   *)
LEMMA DbNextKeeps == DbInv /\ FillsWait /\ [DatabasesNext]_dbVars => DbInv'
<1> SUFFICES ASSUME DbInv, FillsWait, [DatabasesNext]_dbVars PROVE DbInv'
  OBVIOUS
<1>1. ASSUME NEW c \in DbCalls, addDatabaseRow(c) PROVE DbInv'
  <2>1. PICK d \in DOMAIN dDoc, cells \in CellInputs :
          Edit(c, d, addDatabaseRowToBlock(dDoc[d], c, NewId(c, "row"), cells))
    BY <1>1 DEF addDatabaseRow
  <2>2. PICK results : results = addDatabaseRowToBlock(dDoc[d], c, NewId(c, "row"), cells)
    OBVIOUS
  <2>3. WholeDatabase(d, dDoc[d]) /\ Labelled(cells)
    BY InputsLabelled DEF DbInv
  <2>4. \A r \in results : DbEdited(c, d, dDoc[d], r)
    BY <2>2, <2>3, DatabasesAssumption, RowAdded
  <2>5. Edit(c, d, results)
    BY <2>1, <2>2
  <2> QED
    BY <2>4, <2>5, DatabaseEditKeeps
<1>2. ASSUME NEW c \in DbCalls, deleteDatabaseRow(c) PROVE DbInv'
  <2>1. PICK d \in DOMAIN dDoc : \E row : Edit(c, d, DeletedRow(dDoc[d], row))
    BY <1>2 DEF deleteDatabaseRow
  <2>2. PICK row : Edit(c, d, DeletedRow(dDoc[d], row))
    BY <2>1
  <2>3. PICK results : results = DeletedRow(dDoc[d], row)
    OBVIOUS
  <2>4. WholeDatabase(d, dDoc[d])
    BY DEF DbInv
  <2>5. \A r \in results : DbEdited(c, d, dDoc[d], r)
    BY <2>3, <2>4, RowDeleted
  <2>6. Edit(c, d, results)
    BY <2>2, <2>3
  <2> QED
    BY <2>5, <2>6, DatabaseEditKeeps
<1>3. ASSUME NEW c \in DbCalls, updateDatabaseRow(c) PROVE DbInv'
  <2>1. PICK d \in DOMAIN dDoc, cells \in CellInputs : \E create, row :
          Edit(c, d, UpdatedRow(dDoc[d], c, row, cells, create))
    BY <1>3 DEF updateDatabaseRow
  <2>2. PICK create, row : Edit(c, d, UpdatedRow(dDoc[d], c, row, cells, create))
    BY <2>1
  <2>3. PICK results : results = UpdatedRow(dDoc[d], c, row, cells, create)
    OBVIOUS
  <2>4. WholeDatabase(d, dDoc[d]) /\ Labelled(cells)
    BY InputsLabelled DEF DbInv
  <2>5. \A r \in results : DbEdited(c, d, dDoc[d], r)
    BY <2>3, <2>4, DatabasesAssumption, RowUpdated
  <2>6. Edit(c, d, results)
    BY <2>2, <2>3
  <2> QED
    BY <2>5, <2>6, DatabaseEditKeeps
<1>4. ASSUME NEW c \in DbCalls, addDatabaseColumn(c) PROVE DbInv'
  <2>1. PICK d \in DOMAIN dDoc, name \in {"Status", "Owner"}, type \in {"select", "title"}, labels \in {{}, {"todo"}} :
          Edit(c, d, AddedColumn(dDoc[d], c, name, type, labels))
    BY <1>4 DEF addDatabaseColumn
  <2>2. PICK results : results = AddedColumn(dDoc[d], c, name, type, labels)
    OBVIOUS
  <2>3. dPhase[c] = "idle"
    BY <2>1 DEF Edit, DU!Handled
  <2>4. WholeDatabase(d, dDoc[d]) /\ \A col \in dDoc[d].columns : Maker(col.id) # c
    BY <2>3, FillIsPush DEF DbInv
  <2>5. \A r \in results : DbEdited(c, d, dDoc[d], r)
    <3>1. NoLabel \notin labels
      BY DatabasesAssumption
    <3> QED
      BY <2>2, <2>4, <3>1, ColumnHandled
  <2>6. Edit(c, d, results)
    BY <2>1, <2>2
  <2> QED
    BY <2>5, <2>6, DatabaseEditKeeps
<1>5. ASSUME NEW c \in DbCalls, composeDatabase(c) PROVE DbInv'
  <2>1. PICK r : r = MapSet(dDoc, c, EmptyBoard(c))
    OBVIOUS
  <2>2. DU!Handled(c, {r}, {}) /\ dComposing = {} /\ dComposing' = {c} /\ c \in Pushes
    BY <1>5, <2>1, FillIsPush DEF composeDatabase
  <2>3. c \notin DOMAIN dDoc
    BY <2>2, DatabasesAssumption DEF DU!Handled, DbInv, Pushes
  <2>4. /\ IsMap(r) /\ DOMAIN r = DOMAIN dDoc \cup {c} /\ r[c] = EmptyBoard(c)
        /\ \A d \in DOMAIN dDoc : r[d] = dDoc[d]
    BY <2>1, <2>3 DEF MapSet, IsMap
  <2>5. \A x \in {r} : DbHandled(c, x)
    BY <2>2, <2>4 DEF DbHandled
  <2>6. /\ dComposing' \subseteq DbCalls /\ (\A x, y \in dComposing' : x = y)
        /\ \A e \in dComposing : e \in dComposing' \/ c = Fill(e)
    BY <2>2
  <2> QED
    BY <2>2, <2>5, <2>6, DbHandlerKeeps
<1>6. ASSUME NEW c \in DbCalls, FillDatabase(c) PROVE DbInv'
  <2>1. PICK docs : docs = {[dDoc EXCEPT ![c] = r] : r \in Filled(dDoc[c], c)}
    OBVIOUS
  <2>2. DU!Handled(Fill(c), docs, {}) /\ c \in dComposing /\ dComposing' = {} /\ Fill(c) \in Pushes
    BY <1>6, <2>1, FillIsPush DEF FillDatabase
  <2>3. ASSUME NEW x \in docs PROVE DbHandled(Fill(c), x)
    <3>1. PICK r \in Filled(dDoc[c], c) : x = [dDoc EXCEPT ![c] = r]
      BY <2>1, <2>3
    <3>2. IsMap(dDoc)
      BY DEF DbInv
    <3>3. CASE c \notin DOMAIN dDoc
      <4>1. x = dDoc
        BY <3>1, <3>2, <3>3 DEF IsMap
      <4> QED
        BY <3>2, <4>1 DEF DbHandled
    <3>4. CASE c \in DOMAIN dDoc
      <4>1. dDoc[c] = EmptyBoard(c)
        BY <2>2, <3>4, DatabasesAssumption DEF DU!Handled, DbInv, Pushes
      <4>2. DbEdited(Fill(c), c, dDoc[c], r)
        BY <3>1, <4>1, BoardFilled
      <4>3. /\ IsMap(x) /\ DOMAIN x = DOMAIN dDoc /\ x[c] = r
            /\ \A e \in DOMAIN dDoc : e # c => x[e] = dDoc[e]
        BY <3>1, <3>2, <3>4 DEF IsMap
      <4> QED
        BY <4>2, <4>3 DEF DbHandled
    <3> QED
      BY <3>3, <3>4
  <2>4. \A e \in dComposing : e = c
    BY <2>2 DEF DbInv
  <2>5. /\ dComposing' \subseteq DbCalls /\ (\A x, y \in dComposing' : x = y)
        /\ \A e \in dComposing : e \in dComposing' \/ Fill(c) = Fill(e)
    BY <2>2, <2>4
  <2> QED
    BY <2>2, <2>3, <2>5, DbHandlerKeeps
<1>7. ASSUME NEW now \in {"refused", "lost"}, NEW p \in Pushes, dPhase[p] # "late",
             now = "lost" => dPhase[p] = "sent", now = "refused" => dPhase[p] \notin {"merged", "late"},
             dPhase' = [dPhase EXCEPT ![p] = now], UNCHANGED <<dDoc, dUpdate, dStale>>,
             dComposing' \subseteq dComposing, \A d \in dComposing : d \in dComposing' \/ p = Fill(d)
      PROVE  DbInv'
  <2>1. /\ dPhase' \in [Pushes -> DbPhases] /\ dPhase'[p] = now
        /\ \A o \in Pushes \ {p} : dPhase'[o] = dPhase[o]
    BY <1>7 DEF DbPhases, DbInv
  <2>2. \A o \in Pushes : /\ dPhase[o] \in {"merged", "late"} => dPhase'[o] = dPhase[o]
                          /\ dPhase[o] # "idle" => dPhase'[o] # "idle"
                          /\ dPhase[o] # "late" => dPhase'[o] # "late"
                          /\ dPhase[o] \notin {"idle", "sent"} => dPhase'[o] \notin {"idle", "sent"}
                          /\ dPhase'[o] = "sent" => dPhase[o] = "sent"
                          /\ dPhase'[o] \in {"sent", "lost"} => dPhase[o] \in {"sent", "lost"}
                          /\ dPhase'[o] # "late" => dPhase[o] # "late"
    BY <1>7, <2>1
  <2>3. \A d \in dComposing : d \in dComposing' \/ dPhase'[Fill(d)] # "idle"
    BY <1>7, <2>1
  <2>4. ASSUME NEW q \in Pushes, PendingDb(q)' PROVE DbUpdateFits(q)'
    <3>1. DbUpdateFits(q)
      BY <2>2, <2>4 DEF PendingDb, DbInv
    <3>2. PICK base, made : base = dUpdate[q].base /\ made = dUpdate[q].made
      OBVIOUS
    <3>3. base = dUpdate'[q].base /\ made = dUpdate'[q].made
      BY <1>7, <3>2
    <3>4. /\ IsMap(base) /\ IsMap(made)
          /\ DOMAIN base \subseteq DOMAIN dDoc \cap DOMAIN made
          /\ \A d \in DOMAIN base : WholeDatabase(d, base[d])
          /\ \A d \in DOMAIN made : WholeDatabase(d, made[d])
          /\ \A d \in DOMAIN base : made[d] # base[d] => DbChange(q, d)
          /\ \A d \in DOMAIN made \ DOMAIN base :
               q = d /\ d \in DbCalls /\ made[d] = EmptyBoard(d) /\ (d \in dComposing \/ dPhase[Fill(d)] # "idle")
          /\ ~dStale => \A d \in DOMAIN made : OrderlyDatabase(made[d])
          /\ \A d \in DbCalls \cap DOMAIN base :
               q = Fill(d) /\ dPhase[q] = "sent" => dDoc[d] = base[d]
      BY <3>1, <3>2 DEF DbUpdateFits
    <3>5. ASSUME NEW d \in DOMAIN base, made[d] # base[d] PROVE DbChange(q, d)'
      <4>1. DbChange(q, d) /\ (d = Board \/ d \in DbCalls)
        BY <3>4, <3>5 DEF DbInv
      <4>2. d = Board \/ q = Fill(d) \/ dPhase'[Fill(d)] \notin {"idle", "sent"}
        BY <2>2, <4>1, FillIsPush DEF DbChange
      <4>3. OptionsKept(d)' => OptionsKept(d)
        BY <2>2, <4>1, FillIsPush DEF OptionsKept
      <4> QED
        BY <1>7, <4>1, <4>2, <4>3 DEF DbChange
    <3>6. ASSUME NEW d \in DOMAIN made \ DOMAIN base PROVE d \in dComposing' \/ dPhase'[Fill(d)] # "idle"
      BY <2>2, <2>3, <3>4, <3>6, FillIsPush
    <3> QED
      BY <1>7, <2>2, <2>4, <3>3, <3>4, <3>5, <3>6 DEF DbUpdateFits
  <2>5. dDoc' = dDoc /\ dStale' = dStale
    BY <1>7
  <2>6. \A d \in DOMAIN dDoc' :
           /\ WholeDatabase(d, dDoc'[d])
           /\ OptionsKept(d)' => CellsReadable(dDoc'[d])
           /\ ~dStale' => OrderlyDatabase(dDoc'[d])
           /\ d # Board =>
                /\ d \in DbCalls /\ dPhase'[d] \in {"merged", "late"}
                /\ d \in dComposing' \/ dPhase'[Fill(d)] # "idle"
                /\ dPhase'[Fill(d)] = "idle" => dDoc'[d] = EmptyBoard(d)
           /\ \A col \in dDoc'[d].columns, o \in Pushes : Maker(col.id) = o => dPhase'[o] \in {"merged", "late"}
    BY <2>2, <2>3, <2>5, DbDocKept
  <2>7. IsMap(dDoc') /\ dStale' \in BOOLEAN /\ dComposing' \subseteq DbCalls /\ \A x, y \in dComposing' : x = y
    BY <1>7 DEF DbInv
  <2> QED
    BY <2>1, <2>4, <2>6, <2>7 DEF DbInv
<1>8. ASSUME NEW c \in DbCalls, ComposeFails(c) PROVE DbInv'
  <2>1. PICK p : p = Fill(c) /\ p \in Pushes
    BY FillIsPush
  <2>2. /\ c \in dComposing /\ dComposing' = {} /\ dPhase' = [dPhase EXCEPT ![p] = "refused"]
        /\ UNCHANGED <<dDoc, dUpdate, dStale>> /\ \A e \in dComposing : p = Fill(e)
    BY <1>8, <2>1 DEF ComposeFails, DbInv
  <2>3. dPhase[p] \notin {"merged", "late"}
    BY <2>1, <2>2 DEF FillsWait
  <2> QED
    BY <1>7, <2>1, <2>2, <2>3
<1>9. ASSUME NEW p \in Pushes, DU!LoseAck(p), UNCHANGED dComposing PROVE DbInv'
  <2>1. /\ dPhase[p] = "sent" /\ dPhase' = [dPhase EXCEPT ![p] = "lost"]
        /\ UNCHANGED <<dDoc, dUpdate, dStale>> /\ dComposing' = dComposing
    BY <1>9 DEF DU!LoseAck
  <2> QED
    BY <1>7, <2>1
<1>10. ASSUME UNCHANGED dbVars PROVE DbInv'
  BY <1>10 DEF dbVars, DbInv, DbUpdateFits, DbChange, OptionsKept, PendingDb
<1> QED
  BY <1>1, <1>2, <1>3, <1>4, <1>5, <1>6, <1>8, <1>9, <1>10, DbMergeKeeps DEF DatabasesNext

(* The invariant of the databases.                                         *)
THEOREM DatabasesSafety == DatabasesSpec => []DbInv
<1>1. DbInv /\ FillsWait /\ [DatabasesNext]_dbVars => (DbInv /\ FillsWait)'
  BY DbNextKeeps, FillsKept
<1>2. DatabasesInit => FillsWait
  <2> SUFFICES ASSUME DatabasesInit PROVE FillsWait
    OBVIOUS
  <2>1. dPhase = [p \in Pushes |-> "idle"] /\ dComposing = {}
    BY DEF DatabasesInit, DU!UpdatesInit
  <2>2. dPhase \in [Pushes -> DbPhases] /\ \A p \in Pushes : dPhase[p] = "idle"
    BY <2>1 DEF DbPhases
  <2> QED
    BY <2>1, <2>2, FillIsPush DEF FillsWait
<1> QED
  BY <1>1, <1>2, DbStart, PTL DEF DatabasesSpec

(* A database stays readable, whatever is merged late or out of order, but *)
(* for the two cases in which a late merge takes the option of a cell: the *)
(* second push of a composition, and a column created without options that *)
(* two calls have given a data map.                                        *)
THEOREM DatabasesReadable == DatabasesSpec => []DatabasesStayReadable
<1>1. DbInv => DatabasesStayReadable
  <2> DEFINE Reads(d, db, k) ==
               \/ decodeDatabaseCellValue(db, ColumnOf(db, k), db.cells[k]) # NoLabel
               \/ ~OptionsKept(d)
               \/ dStale /\ LostOption(db, ColumnOf(db, k), db.cells[k])
  <2> SUFFICES ASSUME DbInv, NEW d \in DOMAIN dDoc, NEW db, db = dDoc[d]
               PROVE  /\ db.rows = db.blocks
                      /\ db.shown = db.views \X {col.id : col \in db.columns}
                      /\ \A k \in DOMAIN db.cells :
                           /\ k[1] \in db.rows /\ \E col \in db.columns : col.id = k[2]
                           /\ Reads(d, db, k)
                      /\ ~dStale => OrderlyDatabase(db)
    BY DEF DatabasesStayReadable, OptionsKept, OrderlyDatabase
  <2>1. /\ WholeDatabase(d, db) /\ (OptionsKept(d) => CellsReadable(db))
        /\ ~dStale => OrderlyDatabase(db)
        /\ dStale \in BOOLEAN
    BY DEF DbInv
  <2>2. ASSUME NEW k \in DOMAIN db.cells, OptionsKept(d)
        PROVE  \/ decodeDatabaseCellValue(db, ColumnOf(db, k), db.cells[k]) # NoLabel
               \/ dStale /\ LostOption(db, ColumnOf(db, k), db.cells[k])
    <3>1. PICK col : col = ColumnOf(db, k)
      OBVIOUS
    <3>2. col \in db.columns /\ col.id = k[2]
      BY <2>1, <2>2, <3>1 DEF ColumnOf, WholeDatabase
    <3>3. IF col.type \in SelectTypes
          THEN \E o \in db.options : o.column = col.id /\ o.id = db.cells[k]
          ELSE db.cells[k] # NoLabel
      BY <2>1, <2>2, <3>2 DEF CellsReadable
    <3>4. PICK found : found = {o \in OptionsOf(db, col) : o.id = db.cells[k]}
      OBVIOUS
    <3>5. CASE col.type \in SelectTypes /\ found # {}
      <4>1. (CHOOSE o \in found : TRUE) \in db.options
        BY <3>4, <3>5 DEF OptionsOf
      <4>2. (CHOOSE o \in found : TRUE).label # NoLabel
        BY <2>1, <4>1 DEF WholeDatabase
      <4> QED
        BY <3>1, <3>4, <3>5, <4>2 DEF decodeDatabaseCellValue
    <3>6. CASE col.type \in SelectTypes /\ found = {}
      <4>1. PICK o \in db.options : o.column = col.id /\ o.id = db.cells[k]
        BY <3>3, <3>6
      <4>2. col.id \in DOMAIN db.data /\ (db.data[col.id] = OwnData => o.map = OwnData)
        BY <2>1, <4>1 DEF WholeDatabase, Owns
      <4>3. o.map # db.data[col.id]
        BY <3>4, <3>6, <4>1, <4>2 DEF OptionsOf
      <4>4. dStale
        BY <2>1, <4>1, <4>3 DEF OrderlyDatabase
      <4>5. LostOption(db, col, db.cells[k])
        BY <4>1, <4>2, <4>3 DEF LostOption
      <4> QED
        BY <3>1, <4>4, <4>5
    <3>7. CASE col.type \notin SelectTypes
      BY <3>1, <3>3, <3>7 DEF decodeDatabaseCellValue
    <3> QED
      BY <3>5, <3>6, <3>7
  <2> QED
    BY <2>1, <2>2 DEF WholeDatabase
<1> QED
  BY <1>1, DatabasesSafety, PTL

-----------------------------------------------------------------------------
(***************************************************************************)
(* The block tree.                                                         *)
(***************************************************************************)

(* A set of blocks that holds what those in it list.                       *)
DownClosed(K, C) == \A x \in C \cap DOMAIN K : K[x] \subseteq C

(* The blocks each block lists, and when they hang together: every block   *)
(* is listed once, none is below itself, and all but what was left are     *)
(* below the root.                                                         *)
Kids(d) == [b \in DOMAIN d |-> Range(childIdsFrom(d, b))]
HangsTogether(K, left) ==
  /\ \A b \in DOMAIN K : K[b] \subseteq DOMAIN K \ {PageBlock}
  /\ \A p, q \in DOMAIN K : K[p] \cap K[q] # {} => p = q
  /\ \A b \in DOMAIN K : \E C : DownClosed(K, C) /\ K[b] \subseteq C /\ b \notin C
  /\ \A C : DownClosed(K, C) /\ {PageBlock} \cup left \subseteq C => DOMAIN K \subseteq C

(* A new block under another.                                              *)
LEMMA LeafHangs ==
  ASSUME NEW K, NEW left, HangsTogether(K, left), PageBlock \in DOMAIN K,
         NEW p \in DOMAIN K, NEW x, x \notin DOMAIN K,
         NEW L, DOMAIN L = DOMAIN K \cup {x}, L[x] = {}, L[p] = K[p] \cup {x},
         \A q \in DOMAIN K \ {p} : L[q] = K[q]
  PROVE  HangsTogether(L, left)
<1>1. \A b \in DOMAIN L : L[b] \subseteq DOMAIN L \ {PageBlock}
  BY DEF HangsTogether
<1>2. ASSUME NEW a \in DOMAIN L, NEW b \in DOMAIN L, NEW y \in L[a] \cap L[b] PROVE a = b
  <2>1. CASE y = x
    BY <1>2, <2>1 DEF HangsTogether
  <2>2. CASE y # x
    <3>1. a \in DOMAIN K /\ b \in DOMAIN K /\ y \in K[a] \cap K[b]
      BY <1>2, <2>2
    <3> QED
      BY <3>1 DEF HangsTogether
  <2> QED
    BY <2>1, <2>2
<1>3. ASSUME NEW b \in DOMAIN L PROVE \E C : DownClosed(L, C) /\ L[b] \subseteq C /\ b \notin C
  <2>1. CASE b = x
    <3>1. DownClosed(L, {}) /\ L[b] \subseteq {} /\ b \notin {}
      BY <2>1 DEF DownClosed
    <3> QED
      BY <3>1
  <2>2. CASE b # x
    <3>1. PICK C : DownClosed(K, C) /\ K[b] \subseteq C /\ b \notin C
      BY <1>3, <2>2 DEF HangsTogether
    <3>2. DownClosed(L, C \cup {x}) /\ L[b] \subseteq C \cup {x} /\ b \notin C \cup {x}
      BY <1>3, <2>2, <3>1 DEF DownClosed
    <3> QED
      BY <3>2
  <2> QED
    BY <2>1, <2>2
<1>4. ASSUME NEW C, DownClosed(L, C), {PageBlock} \cup left \subseteq C PROVE DOMAIN L \subseteq C
  <2>1. DownClosed(K, C)
    BY <1>4 DEF DownClosed
  <2>2. DOMAIN K \subseteq C
    BY <1>4, <2>1 DEF HangsTogether
  <2> QED
    BY <1>4, <2>2 DEF DownClosed
<1> QED
  BY <1>1, <1>2, <1>3, <1>4 DEF HangsTogether

(* Blocks taken away, with what is below them or leaving that.             *)
LEMMA RestHangs ==
  ASSUME NEW K, NEW left, HangsTogether(K, left),
         NEW gone, PageBlock \notin gone, NEW later, left \subseteq later,
         \A b \in gone \cap DOMAIN K : K[b] \subseteq gone \cup later,
         NEW L, DOMAIN L = DOMAIN K \ gone, \A b \in DOMAIN L : L[b] = K[b] \ gone
  PROVE  HangsTogether(L, later)
<1>1. \A b \in DOMAIN L : L[b] \subseteq DOMAIN L \ {PageBlock}
  BY DEF HangsTogether
<1>2. ASSUME NEW a \in DOMAIN L, NEW b \in DOMAIN L, L[a] \cap L[b] # {} PROVE a = b
  <2>1. K[a] \cap K[b] # {}
    BY <1>2
  <2> QED
    BY <2>1 DEF HangsTogether
<1>3. ASSUME NEW b \in DOMAIN L PROVE \E C : DownClosed(L, C) /\ L[b] \subseteq C /\ b \notin C
  <2>1. PICK C : DownClosed(K, C) /\ K[b] \subseteq C /\ b \notin C
    BY <1>3 DEF HangsTogether
  <2>2. DownClosed(L, C) /\ L[b] \subseteq C
    BY <2>1 DEF DownClosed
  <2> QED
    BY <2>1, <2>2
<1>4. ASSUME NEW C, DownClosed(L, C), {PageBlock} \cup later \subseteq C PROVE DOMAIN L \subseteq C
  <2>1. DownClosed(K, C \cup gone)
    <3> SUFFICES ASSUME NEW x \in (C \cup gone) \cap DOMAIN K PROVE K[x] \subseteq C \cup gone
      BY DEF DownClosed
    <3>1. CASE x \in gone
      BY <1>4, <3>1
    <3>2. CASE x \notin gone
      <4>1. x \in C \cap DOMAIN L
        BY <3>2
      <4>2. L[x] \subseteq C
        BY <1>4, <4>1 DEF DownClosed
      <4> QED
        BY <4>1, <4>2
    <3> QED
      BY <3>1, <3>2
  <2>2. DOMAIN K \subseteq C \cup gone
    BY <1>4, <2>1 DEF HangsTogether
  <2> QED
    BY <2>2
<1> QED
  BY <1>1, <1>2, <1>3, <1>4 DEF HangsTogether

(* A block put under another one, B being what is below the block.         *)
LEMMA MovedHangs ==
  ASSUME NEW K, NEW left, HangsTogether(K, left), PageBlock \in DOMAIN K,
         NEW b \in DOMAIN K, b # PageBlock,
         NEW B, b \in B, DownClosed(K, B), NEW q \in DOMAIN K, q \notin B,
         NEW L, DOMAIN L = DOMAIN K,
         \A x \in DOMAIN K : L[x] = (K[x] \ {b}) \cup (IF x = q THEN {b} ELSE {})
  PROVE  HangsTogether(L, left)
<1>1. \A x \in DOMAIN L : L[x] \subseteq DOMAIN L \ {PageBlock}
  BY DEF HangsTogether
<1>2. ASSUME NEW x \in DOMAIN L, NEW z \in DOMAIN L, NEW y \in L[x] \cap L[z] PROVE x = z
  <2>1. CASE y = b
    BY <1>2, <2>1
  <2>2. CASE y # b
    <3>1. y \in K[x] \cap K[z]
      BY <1>2, <2>2
    <3> QED
      BY <3>1 DEF HangsTogether
  <2> QED
    BY <2>1, <2>2
<1>3. ASSUME NEW x \in DOMAIN L PROVE \E C : DownClosed(L, C) /\ L[x] \subseteq C /\ x \notin C
  <2>1. PICK C : DownClosed(K, C) /\ K[x] \subseteq C /\ x \notin C
    BY <1>3 DEF HangsTogether
  <2>2. CASE x \in B
    <3>1. DownClosed(L, C \cap B)
      BY <2>1 DEF DownClosed
    <3>2. L[x] \subseteq C \cap B
      BY <2>1, <2>2 DEF DownClosed
    <3> QED
      BY <2>1, <3>1, <3>2
  <2>3. CASE x \notin B
    <3>1. DownClosed(L, C \cup B)
      BY <2>1 DEF DownClosed
    <3>2. L[x] \subseteq C \cup B
      BY <2>1
    <3> QED
      BY <2>1, <2>3, <3>1, <3>2
  <2> QED
    BY <2>2, <2>3
<1>4. ASSUME NEW C, DownClosed(L, C), {PageBlock} \cup left \subseteq C PROVE DOMAIN L \subseteq C
  <2>1. \A x \in C \cap DOMAIN K : K[x] \subseteq C \cup {b}
    BY <1>4 DEF DownClosed
  <2>2. DownClosed(K, C \cup B)
    BY <2>1 DEF DownClosed
  <2>3. q \in C
    BY <1>4, <2>2 DEF HangsTogether
  <2>4. b \in C
    BY <1>4, <2>3 DEF DownClosed
  <2>5. DownClosed(K, C)
    BY <2>1, <2>4 DEF DownClosed
  <2> QED
    BY <1>4, <2>5 DEF HangsTogether
<1> QED
  BY <1>1, <1>2, <1>3, <1>4 DEF HangsTogether

-----------------------------------------------------------------------------
(* What is below a set is reached one level at a time.                     *)
LEMMA ReachedStepByStep ==
  ASSUME NEW d, NEW start, Cardinality(DOMAIN d) \in Nat
  PROVE  /\ Reached(d, start)[0] = start
         /\ \A i \in 1..Cardinality(DOMAIN d) :
              Reached(d, start)[i] = Downward(d, Reached(d, start)[i - 1])
<1> DEFINE top == Cardinality(DOMAIN d)
           Reaches(g, m) == g = [i \in 0..m |-> IF i = 0 THEN start ELSE Downward(d, g[i - 1])]
           unreached == {m \in 0..top : ~ \E g : Reaches(g, m)}
<1>1. top \in Nat
  OBVIOUS
<1>2. unreached = {}
  <2>1. SUFFICES ASSUME unreached # {} PROVE FALSE
    OBVIOUS
  <2>0. unreached \in SUBSET Nat
    BY <1>1
  <2>2. PICK m \in unreached : \A k \in unreached : m <= k
    <3> HIDE DEF unreached
    <3> QED
      BY <2>0, <2>1, LeastNumber
  <2>3. m # 0
    <3>1. [i \in 0..0 |-> start] = [i \in 0..0 |-> IF i = 0 THEN start ELSE Downward(d, [j \in 0..0 |-> start][i - 1])]
      OBVIOUS
    <3> QED
      BY <3>1
  <2>4. m - 1 \in 0..top /\ m - 1 \notin unreached
    <3>1. m \in 0..top /\ m - 1 < m /\ m - 1 \in 0..top
      BY <1>1, <2>3
    <3> HIDE DEF unreached
    <3> QED
      BY <1>1, <2>2, <3>1
  <2>5. PICK g : Reaches(g, m - 1)
    BY <2>4
  <2> DEFINE h == [i \in 0..m |-> IF i = m THEN Downward(d, g[m - 1]) ELSE g[i]]
  <2>6. ASSUME NEW i \in 0..m PROVE h[i] = IF i = 0 THEN start ELSE Downward(d, h[i - 1])
    <3>1. CASE i = m
      BY <1>1, <2>3, <3>1
    <3>2. CASE i # m
      <4>1. i \in 0..(m - 1)
        BY <1>1, <3>2
      <4>2. h[i] = g[i] /\ g[i] = IF i = 0 THEN start ELSE Downward(d, g[i - 1])
        BY <2>5, <3>2, <4>1
      <4>3. i # 0 => h[i - 1] = g[i - 1]
        BY <1>1, <4>1
      <4> QED
        BY <4>2, <4>3
    <3> QED
      BY <3>1, <3>2
  <2>7. Reaches(h, m)
    <3> HIDE DEF h
    <3>1. h = [i \in 0..m |-> h[i]]
      BY DEF h
    <3> QED
      BY <2>6, <3>1
  <2> QED
    BY <2>7
<1>3. \E g : Reaches(g, top)
  <2>1. top \in 0..top
    BY <1>1
  <2>2. \A m \in 0..top : \E g : Reaches(g, m)
    <3> HIDE DEF top, Reaches
    <3> QED
      BY <1>2
  <2> HIDE DEF top, Reaches
  <2> QED
    BY <2>1, <2>2
<1>4. Reached(d, start) = CHOOSE g : Reaches(g, top)
  BY DEF Reached
<1>5. Reaches(Reached(d, start), top)
  BY <1>3, <1>4
<1> HIDE DEF top
<1>6. \A i \in 0..top : Reached(d, start)[i] = IF i = 0 THEN start ELSE Downward(d, Reached(d, start)[i - 1])
  BY <1>5
<1> QED
  BY <1>1, <1>6 DEF top

(* What is below a set is in every closed set that has it.                 *)
LEMMA DescendsNoFurther ==
  ASSUME NEW d, IsFiniteSet(DOMAIN d), NEW start, NEW S, DownClosed(Kids(d), S), start \subseteq S
  PROVE  Descendants(d, start) \subseteq S
<1> DEFINE top == Cardinality(DOMAIN d)
           beyond == {i \in 0..top : ~ Reached(d, start)[i] \subseteq S}
<1>1. top \in Nat
  BY FS_CardinalityType
<1>2. beyond = {}
  <2>1. SUFFICES ASSUME beyond # {} PROVE FALSE
    OBVIOUS
  <2>2. beyond \in SUBSET Nat
    BY <1>1
  <2>3. PICK i \in beyond : \A k \in beyond : i <= k
    <3> HIDE DEF beyond
    <3> QED
      BY <2>1, <2>2, LeastNumber
  <2>4. i \in 0..top /\ i # 0 /\ ~ Reached(d, start)[i] \subseteq S
    BY <1>1, ReachedStepByStep
  <2>5. i - 1 \in 0..top /\ i - 1 \notin beyond
    <3>1. i - 1 < i /\ i - 1 \in 0..top
      BY <1>1, <2>4
    <3> HIDE DEF beyond
    <3> QED
      BY <1>1, <2>3, <2>4, <3>1
  <2>6. Reached(d, start)[i - 1] \subseteq S
    BY <2>5
  <2>7. Reached(d, start)[i] = Downward(d, Reached(d, start)[i - 1])
    BY <1>1, <2>4, ReachedStepByStep
  <2> QED
    BY <2>4, <2>6, <2>7 DEF Downward, DownClosed, Kids
<1>3. top \in 0..top
  BY <1>1
<1> QED
  BY <1>2, <1>3 DEF Descendants

(* The way down ends at a closed set: until it does, each level adds a     *)
(* block of the page.                                                      *)
LEMMA DescendsToTheEnd ==
  ASSUME NEW d, IsFiniteSet(DOMAIN d), NEW start
  PROVE  DownClosed(Kids(d), Descendants(d, start)) /\ start \subseteq Descendants(d, start)
<1> DEFINE top == Cardinality(DOMAIN d)
           at == [i \in 0..top |-> Reached(d, start)[i]]
           Slow(i) == DownClosed(Kids(d), at[i]) \/ Cardinality(at[i] \cap DOMAIN d) >= i + 1
<1>1. top \in Nat /\ Cardinality(DOMAIN d) \in Nat
  BY FS_CardinalityType
<1>2. /\ at[0] = start
      /\ \A i \in 1..top : i - 1 \in 0..top /\ at[i] = Downward(d, at[i - 1])
  <2>1. \A i \in 1..top : i \in 0..top /\ i - 1 \in 0..top
    BY <1>1
  <2>2. 0 \in 0..top
    BY <1>1
  <2>3. /\ Reached(d, start)[0] = start
        /\ \A i \in 1..top : Reached(d, start)[i] = Downward(d, Reached(d, start)[i - 1])
    BY <1>1, ReachedStepByStep
  <2> QED
    BY <2>1, <2>2, <2>3
<1> DEFINE bad == {i \in 0..top : ~ (start \subseteq at[i] /\ Slow(i))}
<1>3. \A S : IsFiniteSet(S \cap DOMAIN d) /\ Cardinality(S \cap DOMAIN d) \in Nat /\ Cardinality(S \cap DOMAIN d) <= top
  <2> TAKE S
  <2>1. S \cap DOMAIN d \subseteq DOMAIN d
    OBVIOUS
  <2>2. IsFiniteSet(S \cap DOMAIN d) /\ Cardinality(S \cap DOMAIN d) <= top
    BY <2>1, FS_Subset
  <2> QED
    BY <2>2, FS_CardinalityType
<1>4. bad = {}
  <2>1. SUFFICES ASSUME bad # {} PROVE FALSE
    OBVIOUS
  <2>2. bad \in SUBSET Nat
    BY <1>1
  <2>3. PICK i \in bad : \A k \in bad : i <= k
    <3> HIDE DEF bad
    <3> QED
      BY <2>1, <2>2, LeastNumber
  <2>4. i # 0
    <3>1. CASE start \cap DOMAIN d = {}
      <4>1. DownClosed(Kids(d), at[0])
        BY <1>2, <3>1 DEF DownClosed, Kids
      <4> QED
        BY <1>2, <4>1
    <3>2. CASE start \cap DOMAIN d # {}
      <4>1. Cardinality(at[0] \cap DOMAIN d) # 0
        BY <1>2, <1>3, <3>2, FS_EmptySet
      <4>2. Cardinality(at[0] \cap DOMAIN d) \in Nat
        <5> HIDE DEF at
        <5> QED
          BY <1>3
      <4>3. Slow(0)
        BY <4>1, <4>2
      <4> QED
        BY <1>2, <4>3
    <3> QED
      BY <3>1, <3>2
  <2>5. i - 1 \in 0..top /\ i - 1 \notin bad /\ i \in 1..top
    <3>1. i - 1 < i /\ i - 1 \in 0..top /\ i \in 1..top
      BY <1>1, <2>4
    <3> HIDE DEF bad
    <3> QED
      BY <1>1, <2>3, <3>1
  <2> DEFINE above == at[i - 1]
  <2>6. start \subseteq above /\ Slow(i - 1)
    BY <2>5
  <2>7. at[i] = Downward(d, above)
    BY <1>2, <2>5
  <2>8. above \subseteq at[i]
    BY <2>7 DEF Downward
  <2>9. CASE DownClosed(Kids(d), above)
    <3>1. at[i] = above
      <4> HIDE DEF at, above
      <4> QED
        BY <2>7, <2>9 DEF Downward, DownClosed, Kids
    <3> QED
      BY <2>5, <2>6, <2>9, <3>1
  <2>10. CASE ~ DownClosed(Kids(d), above) /\ at[i] \cap DOMAIN d = above \cap DOMAIN d
    <3>1. DownClosed(Kids(d), at[i])
      <4> HIDE DEF at, above
      <4> QED
        BY <2>7, <2>10 DEF Downward, DownClosed, Kids
    <3> QED
      BY <2>5, <2>6, <2>8, <3>1
  <2>11. CASE ~ DownClosed(Kids(d), above) /\ at[i] \cap DOMAIN d # above \cap DOMAIN d
    <3>1. PICK S, T : S = above \cap DOMAIN d /\ T = at[i] \cap DOMAIN d
      OBVIOUS
    <3>2. IsFiniteSet(S) /\ IsFiniteSet(T) /\ Cardinality(S) \in Nat /\ Cardinality(T) \in Nat
      <4> HIDE DEF at, above
      <4> QED
        BY <1>3, <3>1
    <3>3. S \subseteq T /\ S # T
      <4> HIDE DEF at, above
      <4> QED
        BY <2>8, <2>11, <3>1
    <3>4. Cardinality(S) < Cardinality(T)
      <4>1. Cardinality(S) <= Cardinality(T) /\ Cardinality(S) # Cardinality(T)
        BY <3>2, <3>3, FS_Subset
      <4> QED
        BY <3>2, <4>1
    <3>5. Cardinality(S) >= i
      BY <1>1, <2>5, <2>6, <2>11, <3>1
    <3>6. Cardinality(T) >= i + 1
      BY <1>1, <2>5, <3>2, <3>4, <3>5
    <3> QED
      BY <2>5, <2>6, <2>8, <3>1, <3>6
  <2> QED
    BY <2>9, <2>10, <2>11
<1>5. top \in 0..top
  BY <1>1
<1>6. start \subseteq at[top] /\ Slow(top)
  BY <1>4, <1>5
<1>7. DownClosed(Kids(d), at[top])
  <2>1. Cardinality(at[top] \cap DOMAIN d) \in Nat /\ Cardinality(at[top] \cap DOMAIN d) <= top
    <3> HIDE DEF at
    <3> QED
      BY <1>3
  <2> QED
    BY <1>1, <1>6, <2>1
<1>8. Descendants(d, start) = at[top]
  BY <1>5 DEF Descendants
<1> HIDE DEF at, top
<1> QED
  BY <1>6, <1>7, <1>8

-----------------------------------------------------------------------------
(* A page that is one tree. *)
NamesDiffer(kids) == \A i, j \in DOMAIN kids : kids[i][1] = kids[j][1] => i = j
PageTree(d, left) ==
  /\ IsPage(d) /\ TypesFit(d)
  /\ \A b \in DOMAIN d : NamesDiffer(d[b].kids)
  /\ HangsTogether(Kids(d), left)
  /\ \A a, b \in OfFlavour(d, "surface") : a = b

(* The blocks a block lists. *)
LEMMA WhatIsListed ==
  ASSUME NEW d, NEW b \in DOMAIN d
  PROVE  /\ DOMAIN Kids(d) = DOMAIN d
         /\ Kids(d)[b] = Range(childIdsFrom(d, b))
         /\ Kids(d)[b] = {d[b].kids[i][1] : i \in DOMAIN d[b].kids}
         /\ Kids(d)[b] = {e[1] : e \in Range(d[b].kids)}
BY DEF Kids, childIdsFrom, Range

(* Closed sets are all that is needed to see that a page is one tree. *)
LEMMA OneTreeByClosedSets ==
  ASSUME NEW d, NEW left, IsPage(d), TypesFit(d)
  PROVE  PageTree(d, left) <=> OneTree(d, left)
<1> DEFINE K == Kids(d)
<1>1. IsFiniteSet(DOMAIN d) /\ DOMAIN K = DOMAIN d
  BY DEF IsPage, Kids
<1>2. \A b \in DOMAIN d : K[b] = Range(childIdsFrom(d, b))
  BY DEF Kids
<1>3. \A p \in DOMAIN d : \A i \in DOMAIN d[p].kids :
        /\ <<p, i>> \in Entries(d) /\ childIdsFrom(d, <<p, i>>[1])[<<p, i>>[2]] = d[p].kids[i][1]
        /\ d[p].kids[i][1] \in K[p]
  <2> TAKE p \in DOMAIN d
  <2> TAKE i \in DOMAIN d[p].kids
  <2>1. <<p, i>> \in Entries(d)
    BY DEF Entries
  <2>2. childIdsFrom(d, p)[i] = d[p].kids[i][1]
    BY DEF childIdsFrom
  <2>3. d[p].kids[i][1] \in K[p]
    BY WhatIsListed
  <2>4. <<p, i>>[1] = p /\ <<p, i>>[2] = i
    OBVIOUS
  <2> QED
    BY <2>1, <2>2, <2>3, <2>4
<1>4. \A e \in Entries(d) : \E p \in DOMAIN d : \E i \in DOMAIN d[p].kids :
        e = <<p, i>> /\ childIdsFrom(d, e[1])[e[2]] = d[p].kids[i][1]
  BY DEF Entries, childIdsFrom
<1>5. \A p \in DOMAIN d : \A y \in K[p] : \E i \in DOMAIN d[p].kids : y = d[p].kids[i][1]
  BY WhatIsListed
<1>6. \A start : DownClosed(K, Descendants(d, start)) /\ start \subseteq Descendants(d, start)
  BY <1>1, DescendsToTheEnd
<1>7. \A start, C : DownClosed(K, C) /\ start \subseteq C => Descendants(d, start) \subseteq C
  BY <1>1, DescendsNoFurther
<1> HIDE DEF K
<1>8. ASSUME PageTree(d, left) PROVE OneTree(d, left)
  <2>1. /\ \A b \in DOMAIN d : NamesDiffer(d[b].kids)
        /\ \A b \in DOMAIN d : K[b] \subseteq DOMAIN d \ {PageBlock}
        /\ \A p, q \in DOMAIN d : K[p] \cap K[q] # {} => p = q
        /\ \A b \in DOMAIN d : \E C : DownClosed(K, C) /\ K[b] \subseteq C /\ b \notin C
        /\ \A C : DownClosed(K, C) /\ {PageBlock} \cup left \subseteq C => DOMAIN d \subseteq C
    BY <1>1, <1>8 DEF PageTree, HangsTogether, K
  <2>2. \A e \in Entries(d) : childIdsFrom(d, e[1])[e[2]] \in DOMAIN d \ {PageBlock}
    <3> TAKE e \in Entries(d)
    <3>1. PICK p \in DOMAIN d : \E i \in DOMAIN d[p].kids :
            e = <<p, i>> /\ childIdsFrom(d, e[1])[e[2]] = d[p].kids[i][1]
      BY <1>4
    <3> QED
      BY <1>3, <2>1, <3>1
  <2>3. ASSUME NEW e \in Entries(d), NEW f \in Entries(d),
               childIdsFrom(d, e[1])[e[2]] = childIdsFrom(d, f[1])[f[2]]
        PROVE  e = f
    <3>1. PICK p \in DOMAIN d : \E i \in DOMAIN d[p].kids :
            e = <<p, i>> /\ childIdsFrom(d, e[1])[e[2]] = d[p].kids[i][1]
      BY <1>4
    <3>2. PICK i \in DOMAIN d[p].kids : e = <<p, i>> /\ childIdsFrom(d, e[1])[e[2]] = d[p].kids[i][1]
      BY <3>1
    <3>3. PICK q \in DOMAIN d : \E j \in DOMAIN d[q].kids :
            f = <<q, j>> /\ childIdsFrom(d, f[1])[f[2]] = d[q].kids[j][1]
      BY <1>4
    <3>4. PICK j \in DOMAIN d[q].kids : f = <<q, j>> /\ childIdsFrom(d, f[1])[f[2]] = d[q].kids[j][1]
      BY <3>3
    <3>5. d[p].kids[i][1] = d[q].kids[j][1]
      BY <2>3, <3>2, <3>4
    <3>6. p = q
      <4>1. d[p].kids[i][1] \in K[p] /\ d[q].kids[j][1] \in K[q]
        BY <1>3
      <4>2. K[p] \cap K[q] # {}
        BY <3>5, <4>1
      <4> QED
        BY <2>1, <4>2
    <3>7. i = j
      BY <2>1, <3>5, <3>6 DEF NamesDiffer
    <3> QED
      BY <3>2, <3>4, <3>6, <3>7
  <2>4. ASSUME NEW b \in DOMAIN d, OnCycle(d, b) PROVE FALSE
    <3>1. PICK C : DownClosed(K, C) /\ K[b] \subseteq C /\ b \notin C
      BY <2>1
    <3>2. Descendants(d, Range(childIdsFrom(d, b))) \subseteq C
      BY <1>2, <1>7, <3>1
    <3> QED
      BY <2>4, <3>1, <3>2 DEF OnCycle
  <2>5. DOMAIN d \subseteq Descendants(d, {PageBlock} \cup left)
    BY <1>6, <2>1
  <2> QED
    BY <1>8, <2>2, <2>3, <2>4, <2>5 DEF OneTree, PageTree
<1>9. ASSUME OneTree(d, left) PROVE PageTree(d, left)
  <2>1. ASSUME NEW b \in DOMAIN d PROVE K[b] \subseteq DOMAIN d \ {PageBlock}
    <3> SUFFICES ASSUME NEW y \in K[b] PROVE y \in DOMAIN d \ {PageBlock}
      OBVIOUS
    <3>1. PICK i \in DOMAIN d[b].kids : y = d[b].kids[i][1]
      BY <1>5
    <3> QED
      BY <1>3, <1>9, <3>1 DEF OneTree
  <2>2. ASSUME NEW p \in DOMAIN d, NEW q \in DOMAIN d, NEW i \in DOMAIN d[p].kids, NEW j \in DOMAIN d[q].kids,
               d[p].kids[i][1] = d[q].kids[j][1]
        PROVE  p = q /\ i = j
    <3>1. PICK e \in Entries(d), f \in Entries(d) :
            /\ e = <<p, i>> /\ childIdsFrom(d, e[1])[e[2]] = d[p].kids[i][1]
            /\ f = <<q, j>> /\ childIdsFrom(d, f[1])[f[2]] = d[q].kids[j][1]
      BY <1>3
    <3>2. e = f
      BY <1>9, <2>2, <3>1 DEF OneTree
    <3> QED
      BY <3>1, <3>2
  <2>3. ASSUME NEW p \in DOMAIN d, NEW q \in DOMAIN d, K[p] \cap K[q] # {} PROVE p = q
    <3>1. PICK y \in K[p] : y \in K[q]
      BY <2>3
    <3>2. PICK i \in DOMAIN d[p].kids : y = d[p].kids[i][1]
      BY <1>5
    <3>3. PICK j \in DOMAIN d[q].kids : y = d[q].kids[j][1]
      BY <1>5, <3>1
    <3> QED
      BY <2>2, <3>2, <3>3
  <2>4. ASSUME NEW b \in DOMAIN d PROVE \E C : DownClosed(K, C) /\ K[b] \subseteq C /\ b \notin C
    <3>1. b \notin Descendants(d, Range(childIdsFrom(d, b)))
      BY <1>9 DEF OneTree, OnCycle
    <3> QED
      BY <1>2, <1>6, <3>1
  <2>5. ASSUME NEW C, DownClosed(K, C), {PageBlock} \cup left \subseteq C PROVE DOMAIN d \subseteq C
    <3>1. Descendants(d, {PageBlock} \cup left) \subseteq C
      BY <1>7, <2>5
    <3> QED
      BY <1>9, <3>1 DEF OneTree
  <2>6. HangsTogether(K, left)
    BY <1>1, <2>1, <2>3, <2>4, <2>5 DEF HangsTogether
  <2>7. \A b \in DOMAIN d : NamesDiffer(d[b].kids)
    BY <2>2 DEF NamesDiffer
  <2> QED
    BY <1>9, <2>6, <2>7 DEF PageTree, OneTree, K
<1> QED
  BY <1>8, <1>9

-----------------------------------------------------------------------------
(* Child lists: sequences whose entries name different blocks.             *)
ChildList(s) == s \in Seq(Range(s)) /\ NamesDiffer(s)
Names(s) == {e[1] : e \in Range(s)}

(* A list c made from another: what c did not put in it was there, in that *)
(* order.                                                                  *)
Follows(c, t, s) == Ordered(t, s) /\ \A e \in Range(t) : e[2] # c => e \in Range(s)

(* A list is a list over any set that holds its entries.                 *)
LEMMA ListOfItems ==
  ASSUME NEW S, NEW s \in Seq(S)
  PROVE  \A T : Range(s) \subseteq T => s \in Seq(T)
<1> SUFFICES ASSUME NEW T, Range(s) \subseteq T PROVE s \in Seq(T)
  OBVIOUS
<1>1. Len(s) \in Nat /\ DOMAIN s = 1..Len(s) /\ s = [i \in 1..Len(s) |-> s[i]]
  BY LenProperties
<1>2. \A i \in 1..Len(s) : s[i] \in T
  BY <1>1 DEF Range
<1> QED
  BY <1>1, <1>2, SeqDef

(* Its entries differ, so each has one place. *)
LEMMA EntriesDiffer ==
  ASSUME NEW s, ChildList(s)
  PROVE  /\ Len(s) \in Nat /\ DOMAIN s = 1..Len(s)
         /\ Ordered(s, s)
         /\ \A e, f \in Range(s) : e[1] = f[1] => e = f
<1>1. Len(s) \in Nat /\ DOMAIN s = 1..Len(s)
  BY LenProperties DEF ChildList
<1>2. Ordered(s, s)
  <2>1. \A i, j \in DOMAIN s : s[i] = s[j] => i = j
    BY DEF ChildList, NamesDiffer
  <2> HIDE DEF ChildList
  <2> QED
    BY <1>1, <2>1 DEF Ordered
<1>3. \A e, f \in Range(s) : e[1] = f[1] => e = f
  BY DEF ChildList, NamesDiffer, Range
<1> QED
  BY <1>1, <1>2, <1>3

(* What follows a list that follows a third follows the third.           *)
LEMMA FollowsTwice ==
  ASSUME NEW c, NEW r, NEW t, NEW s, Follows(c, r, t), Follows(c, t, s), \A e \in Range(s) : e[2] # c
  PROVE  Follows(c, r, s)
<1>1. \A e \in Range(r) : e[2] # c => e \in Range(s)
  BY DEF Follows
<1>2. ASSUME NEW i \in DOMAIN r, NEW j \in DOMAIN r, NEW a \in DOMAIN s, NEW b \in DOMAIN s,
             i < j, r[i] = s[a], r[j] = s[b]
      PROVE  a < b
  <2>1. r[i] \in Range(r) /\ r[j] \in Range(r) /\ r[i][2] # c /\ r[j][2] # c
    BY <1>2 DEF Range
  <2>2. PICK x \in DOMAIN t, y \in DOMAIN t : r[i] = t[x] /\ r[j] = t[y]
    BY <2>1 DEF Follows, Range
  <2>3. x < y
    BY <1>2, <2>2 DEF Follows, Ordered
  <2> QED
    BY <1>2, <2>2, <2>3 DEF Follows, Ordered
<1> QED
  BY <1>1, <1>2 DEF Follows, Ordered

(* An entry for a block that was not listed. *)
PutIn(c, s, b, k, t) ==
  /\ ChildList(t) /\ Follows(c, t, s)
  /\ Range(t) = Range(s) \cup {Entry(b, c)}
  /\ Len(t) = Len(s) + 1
  /\ \A j \in 1..Len(s) + 1 : t[j] = IF j < k THEN s[j] ELSE IF j = k THEN Entry(b, c) ELSE s[j - 1]

(* Inserting an entry into a child list puts it in, and only it.         *)
LEMMA EntryPutIn ==
  ASSUME NEW c, NEW s, ChildList(s), NEW b, b \notin Names(s), NEW k \in 1..Len(s) + 1
  PROVE  PutIn(c, s, b, k, InsertAt(s, k, Entry(b, c)))
<1> DEFINE x == Entry(b, c)
           S == Range(s) \cup {x}
           t == InsertAt(s, k, x)
<1>1. Len(s) \in Nat /\ DOMAIN s = 1..Len(s) /\ Ordered(s, s)
  BY EntriesDiffer
<1>2. s \in Seq(S) /\ x \in S /\ x[1] = b /\ x[2] = c
  BY ListOfItems DEF ChildList, Entry
<1>3. /\ t \in Seq(S) /\ Len(t) = Len(s) + 1
      /\ \A j \in 1..Len(s) + 1 : t[j] = IF j < k THEN s[j] ELSE IF j = k THEN x ELSE s[j - 1]
      /\ Range(t) = Range(s) \cup {x}
  <2> HIDE DEF x, S
  <2> QED
    BY <1>2, InsertedItem
<1> HIDE DEF t, x, S
<1>4. DOMAIN t = 1..Len(s) + 1
  BY <1>3, LenProperties
<1>5. \A i \in 1..Len(s) : s[i][1] # b
  BY <1>1 DEF Names, Range
<1>6. \A i, j \in 1..Len(s) : s[i][1] = s[j][1] => i = j
  BY <1>1 DEF ChildList, NamesDiffer
<1>7. NamesDiffer(t)
  <2> SUFFICES ASSUME NEW i \in 1..Len(s) + 1, NEW j \in 1..Len(s) + 1, t[i][1] = t[j][1] PROVE i = j
    BY <1>4 DEF NamesDiffer
  <2>1. \A h \in 1..Len(s) + 1 : (h < k => h \in 1..Len(s)) /\ (h > k => h - 1 \in 1..Len(s))
    BY <1>1
  <2> QED
    BY <1>1, <1>2, <1>3, <1>5, <1>6, <2>1
<1>8. ChildList(t)
  BY <1>3, <1>7, ListOfItems DEF ChildList
<1>9. ASSUME NEW i \in 1..Len(s) + 1, NEW a \in 1..Len(s), t[i] = s[a]
      PROVE  a = IF i < k THEN i ELSE i - 1
  <2>1. /\ i < k => i \in 1..Len(s)
        /\ i > k => i - 1 \in 1..Len(s)
    BY <1>1
  <2>2. i # k
    BY <1>2, <1>3, <1>5, <1>9
  <2>3. t[i] = IF i < k THEN s[i] ELSE s[i - 1]
    BY <1>3, <2>2
  <2>4. CASE i < k
    BY <1>6, <1>9, <2>1, <2>3, <2>4
  <2>5. CASE ~ i < k
    <3>1. i > k
      BY <1>1, <2>2, <2>5
    <3>2. i - 1 \in 1..Len(s) /\ s[i - 1] = s[a]
      BY <1>9, <2>1, <2>3, <2>5, <3>1
    <3>3. i - 1 = a
      BY <1>6, <3>2
    <3> QED
      BY <2>5, <3>3
  <2> QED
    BY <2>4, <2>5
<1>10. Ordered(t, s)
  <2> SUFFICES ASSUME NEW i \in 1..Len(s) + 1, NEW j \in 1..Len(s) + 1, NEW a \in 1..Len(s), NEW h \in 1..Len(s),
                      i < j, t[i] = s[a], t[j] = s[h]
               PROVE  a < h
    BY <1>1, <1>4 DEF Ordered
  <2>1. t[i] # x /\ i # k
    BY <1>2, <1>3, <1>5
  <2>2. a = (IF i < k THEN i ELSE i - 1) /\ h = (IF j < k THEN j ELSE j - 1)
    BY <1>9
  <2>3. j # k
    BY <1>2, <1>3, <1>5
  <2> QED
    BY <1>1, <2>1, <2>2, <2>3
<1>11. Follows(c, t, s)
  BY <1>2, <1>3, <1>10 DEF Follows
<1>12. PutIn(c, s, b, k, t)
  BY <1>3, <1>8, <1>11 DEF PutIn, x
<1> QED
  BY <1>12 DEF t, x

(* Entries taken out. *)
LEMMA EntriesTaken ==
  ASSUME NEW s, ChildList(s), NEW gone
  PROVE  /\ ChildList(Unlisted(s, gone))
         /\ \A c : Follows(c, Unlisted(s, gone), s)
         /\ Range(Unlisted(s, gone)) = {e \in Range(s) : e[1] \notin gone}
<1> DEFINE S == Range(s)
           out == {e \in S : e[1] \in gone}
           t == WithoutItems(s, out)
<1>1. s \in Seq(S) /\ Ordered(s, s)
  BY EntriesDiffer DEF ChildList
<1>2. t \in Seq(S) /\ Range(t) = Range(s) \ out /\ Ordered(t, s)
  <2> HIDE DEF S, out
  <2> QED
    BY <1>1, KeptInOrder
<1>3. t = Unlisted(s, gone)
  BY DEF Unlisted
<1> HIDE DEF t
<1>4. Range(t) \subseteq Range(s)
  BY <1>2
<1>5. Ordered(t, t)
  BY <1>1, <1>2, <1>4, SelectionIsAlone
<1>6. Len(t) \in Nat /\ DOMAIN t = 1..Len(t)
  BY <1>2, LenProperties
<1>7. NamesDiffer(t)
  <2> SUFFICES ASSUME NEW i \in 1..Len(t), NEW j \in 1..Len(t), t[i][1] = t[j][1], i < j PROVE FALSE
    BY <1>6 DEF NamesDiffer
  <2>1. t[i] \in Range(s) /\ t[j] \in Range(s)
    BY <1>4, <1>6 DEF Range
  <2>2. t[i] = t[j]
    BY <2>1, EntriesDiffer
  <2> QED
    BY <1>5, <1>6, <2>2 DEF Ordered
<1>8. ChildList(t)
  BY <1>2, <1>7, ListOfItems DEF ChildList
<1> QED
  BY <1>2, <1>3, <1>4, <1>8 DEF Follows

(* A list that follows another merges into it. *)
LEMMA ChildListMerges ==
  ASSUME NEW s, NEW t, ChildList(s), ChildList(t), Ordered(t, s)
  PROVE  MergedList(s, s, t) = t
<1> DEFINE S == Range(s) \cup Range(t)
<1>1. s \in Seq(S) /\ t \in Seq(S)
  BY ListOfItems DEF ChildList
<1>2. Ordered(s, s) /\ Ordered(t, t)
  BY EntriesDiffer
<1> HIDE DEF S
<1> QED
  BY <1>1, <1>2, MergesListInPlace

-----------------------------------------------------------------------------
(* What holds of a page in whatever order updates are merged: its blocks   *)
(* have types of their flavours.                                           *)
BlockRecords(d) ==
  /\ IsMap(d) /\ TypesFit(d)
  /\ \A b \in DOMAIN d : d[b] = Block(d[b].flavour, d[b].type, d[b].kids)

(* What a call makes of a page: it adds blocks of its own, and those that  *)
(* stay keep their flavours.                                               *)
FlavoursKept(c, d, r) ==
  /\ DOMAIN r \subseteq DOMAIN d \cup MadeBy(c)
  /\ \A b \in (DOMAIN r \cap DOMAIN d) \ MadeBy(c) : r[b].flavour = d[b].flavour
Kept(c, d, r) == BlockRecords(r) /\ FlavoursKept(c, d, r)

(* Two edits of one call that each keep the blocks keep them together.   *)
LEMMA KeptTwice ==
  ASSUME NEW c, NEW d, NEW e, NEW r, Kept(c, d, e), Kept(c, e, r)
  PROVE  Kept(c, d, r)
BY DEF Kept, FlavoursKept

(* Replacing a block's children leaves it a block.                       *)
LEMMA OtherKids ==
  ASSUME NEW x, x = Block(x.flavour, x.type, x.kids), NEW kids
  PROVE  [x EXCEPT !.kids = kids] = Block(x.flavour, x.type, kids)
BY DEF Block

(* Blocks that are as they were, or have other children, or are new.       *)
Likewise(c, d, b, x) ==
  \/ b \in DOMAIN d /\ x = d[b]
  \/ b \in DOMAIN d /\ \E kids : x = [d[b] EXCEPT !.kids = kids]
  \/ b \in MadeBy(c) /\ \E f, t, kids : x = Block(f, t, kids) /\ (t # "none" => t \in EditTypes(f))

(* An edit whose blocks are likewise keeps flavours and types.           *)
LEMMA BlocksKept ==
  ASSUME NEW c, NEW d, BlockRecords(d), NEW r, IsMap(r), \A b \in DOMAIN r : Likewise(c, d, b, r[b])
  PROVE  Kept(c, d, r)
<1>1. ASSUME NEW b \in DOMAIN r
      PROVE  /\ r[b] = Block(r[b].flavour, r[b].type, r[b].kids)
             /\ r[b].type # "none" => r[b].type \in EditTypes(r[b].flavour)
             /\ b \in DOMAIN d \cup MadeBy(c)
             /\ b \notin MadeBy(c) => r[b].flavour = d[b].flavour
  <2>1. CASE b \in DOMAIN d /\ r[b] = d[b]
    BY <2>1 DEF BlockRecords, TypesFit
  <2>2. CASE b \in DOMAIN d /\ \E kids : r[b] = [d[b] EXCEPT !.kids = kids]
    <3>1. PICK kids : r[b] = [d[b] EXCEPT !.kids = kids]
      BY <2>2
    <3>2. r[b] = Block(d[b].flavour, d[b].type, kids)
      BY <2>2, <3>1, OtherKids DEF BlockRecords
    <3>3. r[b].flavour = d[b].flavour /\ r[b].type = d[b].type /\ r[b].kids = kids
      BY <3>2 DEF Block
    <3> QED
      BY <2>2, <3>2, <3>3 DEF BlockRecords, TypesFit
  <2>3. CASE b \in MadeBy(c) /\ \E f, t, kids : r[b] = Block(f, t, kids) /\ (t # "none" => t \in EditTypes(f))
    <3>1. PICK f, t, kids : r[b] = Block(f, t, kids) /\ (t # "none" => t \in EditTypes(f))
      BY <2>3
    <3>2. r[b].flavour = f /\ r[b].type = t /\ r[b].kids = kids
      BY <3>1 DEF Block
    <3> QED
      BY <2>3, <3>1, <3>2
  <2> QED
    BY <1>1, <2>1, <2>2, <2>3 DEF Likewise
<1> QED
  BY <1>1 DEF Kept, FlavoursKept, BlockRecords, TypesFit

(* A block that createBlock makes. *)
LEMMA ShapeFits ==
  ASSUME NEW t, NEW hasText
  PROVE  BlockShape(t, hasText).type # "none" =>
           BlockShape(t, hasText).type \in EditTypes(BlockShape(t, hasText).flavour)
<1>1. CASE t \in {"frame", "edgeless_text", "note"}
  BY <1>1 DEF BlockShape, EdgelessShape
<1>2. CASE t \notin {"frame", "edgeless_text", "note"} /\ t \in MediaTypes \cup EmbedTypes
  BY <1>2 DEF BlockShape
<1>3. CASE t \notin {"frame", "edgeless_text", "note"} /\ t \notin MediaTypes \cup EmbedTypes
  <2>1. BlockShape(t, hasText) = TextShape(t)
    BY <1>3 DEF BlockShape
  <2> QED
    BY <2>1 DEF TextShape, EditTypes
<1> QED
  BY <1>1, <1>2, <1>3

(* Putting an id into a child list keeps the blocks.                     *)
LEMMA ListedKept ==
  ASSUME NEW c, NEW d, BlockRecords(d), NEW at, NEW b
  PROVE  Kept(c, d, ListedAt(d, at, b, c))
<1> DEFINE r == ListedAt(d, at, b, c)
<1>1. IsMap(r) /\ DOMAIN r = DOMAIN d
  BY DEF ListedAt, IsMap
<1>2. \A x \in DOMAIN d : r[x] = d[x] \/ r[x] = [d[x] EXCEPT !.kids = InsertAt(d[x].kids, at.pos, Entry(b, c))]
  BY DEF ListedAt
<1>3. \A x \in DOMAIN d : Likewise(c, d, x, r[x])
  BY <1>2 DEF Likewise
<1> HIDE DEF r
<1> QED
  BY <1>1, <1>3, BlocksKept DEF r

(* So does adding a block of a type its flavour may have.                *)
LEMMA NewBlockKept ==
  ASSUME NEW c, NEW d, BlockRecords(d), NEW at, NEW b \in MadeBy(c),
         NEW f, NEW t, t # "none" => t \in EditTypes(f)
  PROVE  Kept(c, d, WithNewBlock(d, at, b, f, t, c))
<1> DEFINE e == ListedAt(d, at, b, c)
           r == WithNewBlock(d, at, b, f, t, c)
<1>1. Kept(c, d, e)
  BY ListedKept
<1>2. /\ IsMap(r) /\ DOMAIN r = DOMAIN e \cup {b} /\ r[b] = Block(f, t, <<>>)
      /\ \A x \in DOMAIN e \ {b} : r[x] = e[x]
  BY DEF WithNewBlock, MapSet, IsMap
<1> HIDE DEF e, r
<1>3. Kept(c, e, r)
  <2>1. \A x \in DOMAIN r : Likewise(c, e, x, r[x])
    BY <1>2 DEF Likewise
  <2>2. BlockRecords(e)
    BY <1>1 DEF Kept
  <2> QED
    BY <1>2, <2>1, <2>2, BlocksKept
<1> QED
  BY <1>1, <1>3, KeptTwice DEF e, r

(* So does making the note or the surface a block needs.                 *)
LEMMA ParentKept ==
  ASSUME NEW c, NEW d, BlockRecords(d), NEW t, NEW pl
  PROVE  Kept(c, d, ensureNoteBlock(d, c)) /\ Kept(c, d, WithParent(d, c, t, pl))
<1>1. Kept(c, d, d)
  BY DEF Kept, FlavoursKept
<1>2. \A k \in {"one", "two", "text", "note", "empty", "surface"} : Fresh(c, k) \in MadeBy(c)
  BY DEF MadeBy
<1>3. Kept(c, d, NewSurface(d, c))
  BY <1>2, NewBlockKept DEF NewSurface
<1>4. Kept(c, d, NewNote(d, c))
  <2> DEFINE n == Fresh(c, "note")
             e == WithNewBlock(d, LastIn(d, PageBlock), n, "note", "none", c)
             r == WithNewBlock(e, LastIn(e, n), Fresh(c, "empty"), "paragraph", "text", c)
  <2>1. Kept(c, d, e)
    BY <1>2, NewBlockKept
  <2>2. Kept(c, e, r)
    <3> HIDE DEF e, n
    <3>1. "text" \in EditTypes("paragraph")
      BY DEF EditTypes
    <3> QED
      BY <1>2, <2>1, <3>1, NewBlockKept DEF Kept
  <2>3. r = NewNote(d, c)
    BY DEF NewNote
  <2> HIDE DEF e, r
  <2> QED
    BY <2>1, <2>2, <2>3, KeptTwice
<1>5. Kept(c, d, ensureNoteBlock(d, c)) /\ Kept(c, d, ensureSurfaceBlock(d, c))
  BY <1>1, <1>3, <1>4 DEF ensureNoteBlock, ensureSurfaceBlock
<1> QED
  BY <1>1, <1>5 DEF WithParent

(* insertBlockIntoDoc (append_block).                                    *)
LEMMA InsertedKept ==
  ASSUME NEW c, NEW d, BlockRecords(d), NEW k \in {"one", "two"}, NEW t, NEW hasText, NEW pl, NEW strict,
         NEW r \in insertBlockIntoDoc(d, c, k, t, hasText, pl, strict)
  PROVE  Kept(c, d, r)
<1> DEFINE e == WithParent(d, c, t, pl)
           s == BlockShape(t, hasText)
           b == Fresh(c, k)
<1>1. PICK at : r = InsertedBlock(e, at, b, s, c)
  BY DEF insertBlockIntoDoc
<1>2. b \in MadeBy(c) /\ Fresh(c, "text") \in MadeBy(c)
  BY DEF MadeBy
<1>3. Kept(c, d, e)
  BY ParentKept
<1>4. s.type # "none" => s.type \in EditTypes(s.flavour)
  BY ShapeFits
<1> DEFINE n == WithNewBlock(e, at, b, s.flavour, s.type, c)
           m == WithNewBlock(n, LastIn(n, b), Fresh(c, "text"), "paragraph", "text", c)
<1>5. r = n \/ r = m
  BY <1>1 DEF InsertedBlock
<1> HIDE DEF e, s, b
<1>6. Kept(c, e, n)
  BY <1>2, <1>3, <1>4, NewBlockKept DEF Kept
<1>7. Kept(c, n, m)
  <2> HIDE DEF n
  <2>1. "text" \in EditTypes("paragraph")
    BY DEF EditTypes
  <2> QED
    BY <1>2, <1>6, <2>1, NewBlockKept DEF Kept
<1> HIDE DEF n, m
<1> QED
  BY <1>3, <1>5, <1>6, <1>7, KeptTwice

(* removeBlockFromParents.                                               *)
LEMMA RemovedKept ==
  ASSUME NEW c, NEW d, BlockRecords(d), NEW b
  PROVE  Kept(c, d, removeBlockFromParents(d, b))
<1> DEFINE r == removeBlockFromParents(d, b)
<1>1. IsMap(r) /\ DOMAIN r = DOMAIN d
  BY DEF removeBlockFromParents, IsMap
<1>2. \A x \in DOMAIN d : Likewise(c, d, x, r[x])
  BY DEF removeBlockFromParents, Likewise
<1> HIDE DEF r
<1> QED
  BY <1>1, <1>2, BlocksKept DEF r

(* move_block.                                                           *)
LEMMA MovedKept ==
  ASSUME NEW c, NEW d, BlockRecords(d), NEW b, NEW pl, NEW r \in Moved(d, c, b, pl)
  PROVE  Kept(c, d, r)
<1> DEFINE e == removeBlockFromParents(d, b)
<1>1. PICK at : r = ListedAt(e, at, b, c)
  <2>1. r \in Relocated(d, c, b, pl)
    BY DEF Moved
  <2> QED
    BY <2>1 DEF Relocated
<1>2. Kept(c, d, e)
  BY RemovedKept
<1> HIDE DEF e
<1>3. Kept(c, e, r)
  BY <1>1, <1>2, ListedKept DEF Kept
<1> QED
  BY <1>2, <1>3, KeptTwice

(* delete_block.                                                         *)
LEMMA DeletedKept ==
  ASSUME NEW c, NEW d, BlockRecords(d), NEW b, NEW recursive, NEW refuse,
         NEW r \in deleteBlockInDoc(d, b, recursive, refuse)
  PROVE  Kept(c, d, r)
<1>1. PICK gone : r = [p \in DOMAIN d \ gone |-> [d[p] EXCEPT !.kids = Unlisted(@, gone)]]
  BY DEF deleteBlockInDoc
<1>2. IsMap(r) /\ DOMAIN r \subseteq DOMAIN d
  BY <1>1 DEF IsMap
<1>3. \A x \in DOMAIN r : Likewise(c, d, x, r[x])
  BY <1>1 DEF Likewise
<1> QED
  BY <1>2, <1>3, BlocksKept

(* replace_doc_with_markdown emptying the note.                          *)
LEMMA EmptiedKept ==
  ASSUME NEW c, NEW d, BlockRecords(d)
  PROVE  Kept(c, d, Emptied(d, c).doc)
<1> DEFINE e == ensureNoteBlock(d, c)
           n == CHOOSE b \in OfFlavour(e, "note") : TRUE
           gone == Descendants(e, Range(childIdsFrom(e, n)))
           r == [p \in DOMAIN e \ gone |-> IF p = n THEN [e[p] EXCEPT !.kids = <<>>] ELSE e[p]]
<1>1. Emptied(d, c).doc = r
  BY DEF Emptied
<1>2. Kept(c, d, e)
  BY ParentKept
<1> HIDE DEF e, n, gone
<1>3. IsMap(r) /\ DOMAIN r \subseteq DOMAIN e
  BY DEF IsMap
<1>4. \A x \in DOMAIN r : Likewise(c, e, x, r[x])
  BY DEF Likewise
<1> HIDE DEF r
<1>5. Kept(c, e, r)
  BY <1>2, <1>3, <1>4, BlocksKept DEF Kept
<1> QED
  BY <1>1, <1>2, <1>5, KeptTwice

(* append_markdown and replace_doc_with_markdown.                        *)
LEMMA MarkdownKept ==
  ASSUME NEW c, NEW d, BlockRecords(d), NEW replace, NEW pl, NEW r \in applyMarkdownOperations(d, c, replace, pl)
  PROVE  Kept(c, d, r)
<1> DEFINE start == IF replace THEN Emptied(d, c).doc ELSE d
           first == IF replace THEN [mode |-> "append", ref |-> Emptied(d, c).note] ELSE pl
           next == [mode |-> "after", ref |-> Fresh(c, "one")]
<1>1. PICK e \in insertBlockIntoDoc(start, c, "one", "heading", FALSE, first, TRUE) :
        r \in insertBlockIntoDoc(e, c, "two", "list", FALSE, next, TRUE)
  BY DEF applyMarkdownOperations
<1>2. Kept(c, d, start)
  <2>1. Kept(c, d, d)
    BY DEF Kept, FlavoursKept
  <2> QED
    BY <2>1, EmptiedKept
<1> HIDE DEF start, first, next
<1>3. Kept(c, start, e)
  BY <1>1, <1>2, InsertedKept DEF Kept
<1>4. Kept(c, e, r)
  BY <1>1, <1>3, InsertedKept DEF Kept
<1> QED
  BY <1>2, <1>3, <1>4, KeptTwice

(* append_semantic_section.                                              *)
LEMMA SectionKept ==
  ASSUME NEW c, NEW d, BlockRecords(d), NEW title, NEW r \in appendSection(d, c, title)
  PROVE  Kept(c, d, r)
<1> DEFINE e == ensureNoteBlock(d, c)
           next == [mode |-> "after", ref |-> Fresh(c, "one")]
           n == CHOOSE b \in OfFlavour(e, "note") : TRUE
           at == IF title = "none" THEN {Len(e[n].kids)}
                 ELSE {SectionEnd(e, n, h) : h \in {b \in Range(childIdsFrom(e, n)) \cap DOMAIN e : e[b].type = "heading"}}
           place(i) == [mode |-> "index", ref |-> n, index |-> i]
<1>0. PICK i \in at :
        r \in UNION {insertBlockIntoDoc(f, c, "two", "paragraph", FALSE, next, TRUE) :
                 f \in insertBlockIntoDoc(e, c, "one", "heading", FALSE, place(i), TRUE)}
  BY DEF appendSection
<1> HIDE DEF at
<1>1. PICK f \in insertBlockIntoDoc(e, c, "one", "heading", FALSE, place(i), TRUE) :
        r \in insertBlockIntoDoc(f, c, "two", "paragraph", FALSE, next, TRUE)
  BY <1>0
<1>2. Kept(c, d, e)
  BY ParentKept
<1> HIDE DEF e, next, n
<1>3. Kept(c, e, f)
  BY <1>1, <1>2, InsertedKept DEF Kept
<1>4. Kept(c, f, r)
  BY <1>1, <1>3, InsertedKept DEF Kept
<1> QED
  BY <1>2, <1>3, <1>4, KeptTwice

(* update_block writes a type the block's flavour may have.              *)
LEMMA UpdatedKept ==
  ASSUME NEW c, NEW d, BlockRecords(d), NEW b \in DOMAIN d, NEW t, NEW r \in Updated(d, b, t)
  PROVE  Kept(c, d, r)
<1>1. t \in EditTypes(d[b].flavour) /\ r = [d EXCEPT ![b].type = t]
  BY DEF Updated
<1>2. d = [x \in DOMAIN d |-> d[x]] /\ d[b] = Block(d[b].flavour, d[b].type, d[b].kids)
  BY DEF BlockRecords, IsMap
<1>3. /\ IsMap(r) /\ DOMAIN r = DOMAIN d
      /\ r[b] = Block(d[b].flavour, t, d[b].kids)
      /\ \A x \in DOMAIN d \ {b} : r[x] = d[x]
  BY <1>1, <1>2 DEF IsMap, Block
<1>4. r[b].flavour = d[b].flavour /\ r[b].type = t /\ r[b].kids = d[b].kids
  BY <1>3 DEF Block
<1> QED
  BY <1>1, <1>3, <1>4 DEF Kept, FlavoursKept, BlockRecords, TypesFit

(* apply_doc_patch: an insertion, then a deletion.                       *)
LEMMA PatchKept ==
  ASSUME NEW c, NEW d, BlockRecords(d), NEW p, NEW anchor, NEW b, NEW r \in applyPatchOperations(d, c, p, anchor, b)
  PROVE  Kept(c, d, r)
<1>1. PICK e \in PatchInserted(d, c, p, anchor) : r \in PatchDeleted(e, b)
  BY DEF applyPatchOperations
<1>2. Kept(c, d, e)
  BY InsertedKept DEF PatchInserted
<1>3. Kept(c, e, r)
  BY <1>1, <1>2, DeletedKept DEF Kept, PatchDeleted
<1> QED
  BY <1>2, <1>3, KeptTwice

-----------------------------------------------------------------------------
(* What a call makes of the page d it loaded, with nothing of its own in   *)
(* it: one tree, whose lists follow those of d.                            *)
ListOf(d, b) == IF b \in DOMAIN d THEN d[b].kids ELSE <<>>
Grown(c, d, r, left) ==
  /\ NothingBy(c, d)
  /\ PageTree(r, left)
  /\ \A b \in DOMAIN r : Follows(c, r[b].kids, ListOf(d, b))

(* The empty list follows every list.                                    *)
LEMMA NothingFollows ==
  ASSUME NEW c, NEW s
  PROVE  ChildList(<<>>) /\ Follows(c, <<>>, s) /\ Names(<<>>) = {}
<1>1. DOMAIN <<>> = {} /\ Len(<<>>) = 0 /\ Range(<<>>) = {} /\ <<>> \in Seq(Range(<<>>))
  BY DEF Range
<1> QED
  BY <1>1 DEF ChildList, NamesDiffer, Follows, Ordered, Names

(* In a page tree each child list is one, within the page.               *)
LEMMA TreesHaveLists ==
  ASSUME NEW d, NEW left, PageTree(d, left)
  PROVE  /\ \A b \in DOMAIN d : /\ ChildList(d[b].kids) /\ Kids(d)[b] = Names(d[b].kids)
                                /\ Names(d[b].kids) \subseteq DOMAIN d \ {PageBlock}
         /\ IsFiniteSet(DOMAIN d) /\ PageBlock \in DOMAIN d /\ d[PageBlock].flavour = "page"
         /\ BlockRecords(d) /\ DOMAIN Kids(d) = DOMAIN d
<1>1. ASSUME NEW b \in DOMAIN d PROVE Kids(d)[b] = Names(d[b].kids) /\ DOMAIN Kids(d) = DOMAIN d
  BY WhatIsListed DEF Names
<1>2. PageBlock \in DOMAIN d
  BY DEF PageTree, IsPage
<1>3. \A b \in DOMAIN d : Names(d[b].kids) \subseteq DOMAIN d \ {PageBlock}
  BY <1>1 DEF PageTree, HangsTogether
<1> QED
  BY <1>1, <1>2, <1>3 DEF PageTree, IsPage, ChildList, BlockRecords

(* A page as loaded has grown by nothing.                                *)
LEMMA GrownAsLoaded ==
  ASSUME NEW c, NEW d, NEW left, NothingBy(c, d), PageTree(d, left)
  PROVE  Grown(c, d, d, left)
<1>1. ASSUME NEW b \in DOMAIN d PROVE Follows(c, d[b].kids, ListOf(d, b))
  BY TreesHaveLists, EntriesDiffer DEF Follows, ListOf
<1> QED
  BY <1>1 DEF Grown

(* Another step of the same call. *)
LEMMA GrownFurther ==
  ASSUME NEW c, NEW base, NEW d, NEW left, Grown(c, base, d, left),
         NEW r, NEW later, BlockRecords(r), IsFiniteSet(DOMAIN r),
         PageBlock \in DOMAIN r, r[PageBlock].flavour = "page",
         \A b \in DOMAIN r : ChildList(r[b].kids) /\ Follows(c, r[b].kids, ListOf(d, b)),
         HangsTogether(Kids(r), later), \A x, y \in OfFlavour(r, "surface") : x = y
  PROVE  Grown(c, base, r, later)
<1>1. PageTree(r, later)
  BY DEF PageTree, IsPage, BlockRecords, ChildList
<1>2. ASSUME NEW b \in DOMAIN r PROVE Follows(c, r[b].kids, ListOf(base, b))
  <2>1. Follows(c, ListOf(d, b), ListOf(base, b))
    BY NothingFollows DEF Grown, ListOf
  <2>2. \A e \in Range(ListOf(base, b)) : e[2] # c
    <3>1. CASE b \in DOMAIN base
      BY <3>1 DEF Grown, ListOf, NothingBy
    <3>2. CASE b \notin DOMAIN base
      BY <3>2 DEF ListOf, Range
    <3> QED
      BY <3>1, <3>2
  <2> QED
    BY <2>1, <2>2, FollowsTwice
<1> QED
  BY <1>1, <1>2 DEF Grown

(* A new block in a child list. *)
BlockIsNew(d, r, at, b, f, t, c) ==
  /\ DOMAIN r = DOMAIN d \cup {b}
  /\ r[b].flavour = f /\ r[b].type = t /\ r[b].kids = <<>>
  /\ \A x \in DOMAIN d : r[x].flavour = d[x].flavour /\ r[x].type = d[x].type
  /\ \A x \in DOMAIN d \ {at.parent} : r[x] = d[x]
  /\ r[at.parent].kids = InsertAt(d[at.parent].kids, at.pos, Entry(b, c))

(* A block added at a place is there, and nothing else changed.          *)
LEMMA NewBlockThere ==
  ASSUME NEW d, BlockRecords(d), NEW at, at.parent \in DOMAIN d, NEW b, b \notin DOMAIN d, NEW f, NEW t, NEW c
  PROVE  BlockIsNew(d, WithNewBlock(d, at, b, f, t, c), at, b, f, t, c)
<1> DEFINE r == WithNewBlock(d, at, b, f, t, c)
           kids == InsertAt(d[at.parent].kids, at.pos, Entry(b, c))
<1>1. /\ DOMAIN r = DOMAIN d \cup {b} /\ r[b] = Block(f, t, <<>>)
      /\ \A x \in DOMAIN d : x # at.parent => r[x] = d[x]
      /\ r[at.parent] = [d[at.parent] EXCEPT !.kids = kids]
  BY DEF WithNewBlock, MapSet, ListedAt
<1>2. r[at.parent] = Block(d[at.parent].flavour, d[at.parent].type, kids)
  BY <1>1, OtherKids DEF BlockRecords
<1> HIDE DEF r, kids
<1> QED
  BY <1>1, <1>2 DEF Block, BlockIsNew, r, kids

(* A new block listed once keeps the page one tree.                      *)
LEMMA NewBlockGrows ==
  ASSUME NEW c, NEW base, NEW d, NEW left, Grown(c, base, d, left),
         NEW at, at.parent \in DOMAIN d, at.pos \in 1..Len(d[at.parent].kids) + 1,
         NEW b \in MadeBy(c), b \notin DOMAIN d,
         NEW f, NEW t, t # "none" => t \in EditTypes(f),
         f = "surface" => OfFlavour(d, "surface") = {}
  PROVE  Grown(c, base, WithNewBlock(d, at, b, f, t, c), left)
<1> DEFINE r == WithNewBlock(d, at, b, f, t, c)
           p == at.parent
<1>1. /\ \A x \in DOMAIN d : /\ ChildList(d[x].kids) /\ Kids(d)[x] = Names(d[x].kids)
                             /\ Names(d[x].kids) \subseteq DOMAIN d \ {PageBlock}
      /\ IsFiniteSet(DOMAIN d) /\ PageBlock \in DOMAIN d /\ d[PageBlock].flavour = "page"
      /\ BlockRecords(d) /\ DOMAIN Kids(d) = DOMAIN d
  BY TreesHaveLists DEF Grown
<1>2. BlockRecords(r)
  BY <1>1, NewBlockKept DEF Kept
<1>3. /\ DOMAIN r = DOMAIN d \cup {b}
      /\ r[b].flavour = f /\ r[b].kids = <<>>
      /\ \A x \in DOMAIN d : r[x].flavour = d[x].flavour
      /\ \A x \in DOMAIN d \ {p} : r[x] = d[x]
      /\ r[p].kids = InsertAt(d[p].kids, at.pos, Entry(b, c))
  <2>1. BlockIsNew(d, r, at, b, f, t, c)
    BY <1>1, NewBlockThere
  <2> HIDE DEF r
  <2> QED
    BY <2>1 DEF BlockIsNew
<1> HIDE DEF r
<1>4. b \notin Names(d[p].kids)
  BY <1>1
<1>5. /\ ChildList(r[p].kids) /\ Follows(c, r[p].kids, d[p].kids)
      /\ Range(r[p].kids) = Range(d[p].kids) \cup {Entry(b, c)}
  <2>1. PICK s, k : s = d[p].kids /\ k = at.pos
    OBVIOUS
  <2>2. ChildList(s) /\ b \notin Names(s) /\ k \in 1..Len(s) + 1
    BY <1>1, <1>4, <2>1
  <2>3. PutIn(c, s, b, k, InsertAt(s, k, Entry(b, c)))
    BY <2>2, EntryPutIn
  <2> QED
    BY <1>3, <2>1, <2>3 DEF PutIn
<1>6. Names(r[p].kids) = Names(d[p].kids) \cup {b}
  <2>1. Entry(b, c)[1] = b
    BY DEF Entry
  <2> QED
    BY <1>5, <2>1 DEF Names
<1>7. \A x \in DOMAIN r : ChildList(r[x].kids) /\ Follows(c, r[x].kids, ListOf(d, x))
  <2> TAKE x \in DOMAIN r
  <2>1. CASE x = b
    BY <1>3, <2>1, NothingFollows
  <2>2. CASE x = p
    BY <1>5, <2>2 DEF ListOf
  <2>3. CASE x \notin {b, p}
    BY <1>1, <1>3, <2>3, EntriesDiffer DEF ListOf, Follows
  <2> QED
    BY <2>1, <2>2, <2>3
<1>8. HangsTogether(Kids(r), left)
  <2>1. DOMAIN Kids(r) = DOMAIN d \cup {b}
    BY <1>3 DEF Kids
  <2>2. \A x \in DOMAIN r : Kids(r)[x] = Names(r[x].kids)
    BY WhatIsListed DEF Names
  <2>3. Kids(r)[b] = {}
    BY <1>3, <2>2, NothingFollows
  <2>4. Kids(r)[p] = Kids(d)[p] \cup {b}
    BY <1>1, <1>3, <1>6, <2>2
  <2>5. \A x \in DOMAIN Kids(d) \ {p} : Kids(r)[x] = Kids(d)[x]
    BY <1>1, <1>3, <2>2
  <2>6. HangsTogether(Kids(d), left)
    BY DEF Grown, PageTree
  <2>7. PICK K, L : K = Kids(d) /\ L = Kids(r)
    OBVIOUS
  <2>8. /\ HangsTogether(K, left) /\ PageBlock \in DOMAIN K /\ p \in DOMAIN K /\ b \notin DOMAIN K
        /\ DOMAIN L = DOMAIN K \cup {b} /\ L[b] = {} /\ L[p] = K[p] \cup {b}
        /\ \A x \in DOMAIN K \ {p} : L[x] = K[x]
    BY <1>1, <2>1, <2>3, <2>4, <2>5, <2>6, <2>7
  <2>9. HangsTogether(L, left)
    BY <2>8, LeafHangs
  <2> QED
    BY <2>7, <2>9
<1>9. \A x, y \in OfFlavour(r, "surface") : x = y
  <2>1. OfFlavour(r, "surface") \subseteq OfFlavour(d, "surface") \cup (IF f = "surface" THEN {b} ELSE {})
    BY <1>3 DEF OfFlavour
  <2>2. \A x, y \in OfFlavour(d, "surface") : x = y
    BY DEF Grown, PageTree
  <2> QED
    BY <2>1, <2>2
<1>10. IsFiniteSet(DOMAIN r) /\ PageBlock \in DOMAIN r /\ r[PageBlock].flavour = "page"
  BY <1>1, <1>3, FS_AddElement
<1>11. Grown(c, base, r, left)
  BY <1>2, <1>7, <1>8, <1>9, <1>10, GrownFurther
<1> QED
  BY <1>11 DEF r

(* The end of a child list is a place in it.                             *)
LEMMA LastPlace ==
  ASSUME NEW d, NEW left, PageTree(d, left), NEW p \in DOMAIN d
  PROVE  LastIn(d, p).parent = p /\ LastIn(d, p).pos \in 1..Len(d[p].kids) + 1
<1>1. Len(d[p].kids) \in Nat
  BY TreesHaveLists, EntriesDiffer
<1> QED
  BY <1>1 DEF LastIn

(* The ids one call generates are its own and differ.                    *)
LEMMA FreshIds ==
  ASSUME NEW c
  PROVE  /\ \A k \in {"one", "two", "text", "note", "empty", "surface"} : Fresh(c, k) \in MadeBy(c)
         /\ \A k, h : Fresh(c, k) = Fresh(c, h) => k = h
BY DEF MadeBy, Fresh

(* ensureNoteBlock and ensureSurfaceBlock. *)
LEMMA NoteGrows ==
  ASSUME NEW c, NEW base, NEW d, NEW left, Grown(c, base, d, left), MadeBy(c) \cap DOMAIN d = {}
  PROVE  /\ Grown(c, base, ensureNoteBlock(d, c), left)
         /\ DOMAIN ensureNoteBlock(d, c) \subseteq DOMAIN d \cup {Fresh(c, "note"), Fresh(c, "empty")}
         /\ OfFlavour(ensureNoteBlock(d, c), "note") # {}
<1>1. CASE OfFlavour(d, "note") # {}
  BY <1>1 DEF ensureNoteBlock
<1>2. CASE OfFlavour(d, "note") = {}
  <2> DEFINE n == Fresh(c, "note")
             x == Fresh(c, "empty")
             e == WithNewBlock(d, LastIn(d, PageBlock), n, "note", "none", c)
             r == WithNewBlock(e, LastIn(e, n), x, "paragraph", "text", c)
  <2>1. n \in MadeBy(c) /\ x \in MadeBy(c) /\ n # x /\ n \notin DOMAIN d /\ x \notin DOMAIN d
    BY FreshIds
  <2>2. PageTree(d, left) /\ PageBlock \in DOMAIN d /\ BlockRecords(d)
    BY TreesHaveLists DEF Grown
  <2>3. PICK at : /\ at = LastIn(d, PageBlock) /\ at.parent = PageBlock
                  /\ at.pos \in 1..Len(d[PageBlock].kids) + 1
    BY <2>2, LastPlace
  <2>4. Grown(c, base, e, left)
    BY <2>1, <2>2, <2>3, NewBlockGrows
  <2>5. BlockIsNew(d, e, at, n, "note", "none", c)
    BY <2>1, <2>2, <2>3, NewBlockThere
  <2> HIDE DEF e
  <2>6. DOMAIN e = DOMAIN d \cup {n} /\ e[n].flavour = "note"
    BY <2>5 DEF BlockIsNew
  <2>7. PageTree(e, left) /\ BlockRecords(e)
    BY <2>4, TreesHaveLists DEF Grown
  <2>8. PICK bt : /\ bt = LastIn(e, n) /\ bt.parent = n /\ bt.pos \in 1..Len(e[n].kids) + 1
    BY <2>6, <2>7, LastPlace
  <2>9. "text" \in EditTypes("paragraph")
    BY DEF EditTypes
  <2>10. Grown(c, base, r, left)
    BY <2>1, <2>4, <2>6, <2>8, <2>9, NewBlockGrows
  <2>11. BlockIsNew(e, r, bt, x, "paragraph", "text", c)
    BY <2>1, <2>6, <2>7, <2>8, NewBlockThere
  <2> HIDE DEF r
  <2>12. DOMAIN r = DOMAIN d \cup {n, x} /\ r[n].flavour = "note"
    BY <2>6, <2>11 DEF BlockIsNew
  <2>13. r = ensureNoteBlock(d, c)
    BY <1>2 DEF ensureNoteBlock, NewNote, r, e
  <2>14. n \in OfFlavour(r, "note")
    BY <2>12 DEF OfFlavour
  <2> QED
    BY <2>10, <2>12, <2>13, <2>14
<1> QED
  BY <1>1, <1>2

(* ensureSurfaceBlock keeps the tree, adding at most a surface.          *)
LEMMA SurfaceGrows ==
  ASSUME NEW c, NEW base, NEW d, NEW left, Grown(c, base, d, left), MadeBy(c) \cap DOMAIN d = {}
  PROVE  /\ Grown(c, base, ensureSurfaceBlock(d, c), left)
         /\ DOMAIN ensureSurfaceBlock(d, c) \subseteq DOMAIN d \cup {Fresh(c, "surface")}
<1>1. CASE OfFlavour(d, "surface") # {}
  BY <1>1 DEF ensureSurfaceBlock
<1>2. CASE OfFlavour(d, "surface") = {}
  <2> DEFINE x == Fresh(c, "surface")
             r == WithNewBlock(d, LastIn(d, PageBlock), x, "surface", "none", c)
  <2>1. x \in MadeBy(c) /\ x \notin DOMAIN d
    BY FreshIds
  <2>2. PageTree(d, left) /\ PageBlock \in DOMAIN d /\ BlockRecords(d)
    BY TreesHaveLists DEF Grown
  <2>3. PICK at : /\ at = LastIn(d, PageBlock) /\ at.parent = PageBlock
                  /\ at.pos \in 1..Len(d[PageBlock].kids) + 1
    BY <2>2, LastPlace
  <2>4. Grown(c, base, r, left)
    BY <1>2, <2>1, <2>2, <2>3, NewBlockGrows
  <2>5. BlockIsNew(d, r, at, x, "surface", "none", c)
    BY <2>1, <2>2, <2>3, NewBlockThere
  <2>6. r = ensureSurfaceBlock(d, c)
    BY <1>2 DEF ensureSurfaceBlock, NewSurface
  <2> HIDE DEF r
  <2> QED
    BY <2>4, <2>5, <2>6 DEF BlockIsNew
<1> QED
  BY <1>1, <1>2

(* The note, surface or parent a placement needs keeps the tree.         *)
LEMMA ParentGrows ==
  ASSUME NEW c, NEW base, NEW d, NEW left, Grown(c, base, d, left), NEW t, NEW pl,
         ~NamesParent(pl) => MadeBy(c) \cap DOMAIN d = {}
  PROVE  /\ Grown(c, base, WithParent(d, c, t, pl), left)
         /\ DOMAIN WithParent(d, c, t, pl) \subseteq DOMAIN d \cup {Fresh(c, "note"), Fresh(c, "empty"), Fresh(c, "surface")}
         /\ NamesParent(pl) => WithParent(d, c, t, pl) = d
<1>1. NamesParent(pl) => WithParent(d, c, t, pl) = d
  BY DEF WithParent
<1>2. CASE ~NamesParent(pl)
  <2>1. WithParent(d, c, t, pl) \in {ensureSurfaceBlock(d, c), ensureNoteBlock(d, c), d}
    BY <1>2 DEF WithParent, DefaultFlavour
  <2>2. Grown(c, base, ensureNoteBlock(d, c), left) /\ Grown(c, base, ensureSurfaceBlock(d, c), left)
    BY <1>2, NoteGrows, SurfaceGrows
  <2>3. /\ DOMAIN ensureNoteBlock(d, c) \subseteq DOMAIN d \cup {Fresh(c, "note"), Fresh(c, "empty")}
        /\ DOMAIN ensureSurfaceBlock(d, c) \subseteq DOMAIN d \cup {Fresh(c, "surface")}
    BY <1>2, NoteGrows, SurfaceGrows
  <2> QED
    BY <1>2, <2>1, <2>2, <2>3
<1> QED
  BY <1>1, <1>2

-----------------------------------------------------------------------------
(* Where a block goes. *)
IsPlacement(pl) ==
  \/ ~NamesParent(pl) /\ pl.mode = "none"
  \/ ~NamesParent(pl) /\ pl.mode = "index" /\ pl.index \in Nat
  \/ NamesParent(pl) /\ pl.mode \in {"append", "after", "before"}
  \/ NamesParent(pl) /\ pl.mode = "index" /\ pl.index \in Nat

(* Every placement a caller may send is well formed.                     *)
LEMMA PlacementsArePlacements ==
  ASSUME NEW ids
  PROVE  /\ \A pl \in Placements(ids) : IsPlacement(pl)
         /\ IsPlacement(NoPlacement)
         /\ \A x, m : m \in {"append", "after", "before"} =>
              IsPlacement([mode |-> m, ref |-> x]) /\ NamesParent([mode |-> m, ref |-> x])
         /\ \A x, i : i \in Nat =>
              /\ IsPlacement([mode |-> "index", ref |-> x, index |-> i])
              /\ NamesParent([mode |-> "index", ref |-> x, index |-> i])
<1>1. /\ \A x, m : m \in {"append", "after", "before"} =>
              IsPlacement([mode |-> m, ref |-> x]) /\ NamesParent([mode |-> m, ref |-> x])
      /\ \A x, i : i \in Nat =>
              /\ IsPlacement([mode |-> "index", ref |-> x, index |-> i])
              /\ NamesParent([mode |-> "index", ref |-> x, index |-> i])
  BY DEF IsPlacement, NamesParent
<1>2. IsPlacement(NoPlacement)
  BY DEF IsPlacement, NamesParent, NoPlacement
<1>3. ASSUME NEW pl \in Placements(ids) PROVE IsPlacement(pl)
  <2>1. CASE pl \in [mode : {"append", "after", "before"}, ref : ids]
    BY <2>1 DEF IsPlacement, NamesParent
  <2>2. CASE pl \in [mode : {"index"}, ref : ids, index : 0..1]
    BY <2>2 DEF IsPlacement, NamesParent
  <2>3. CASE pl \in [mode : {"index"}, index : 0..1]
    BY <2>3 DEF IsPlacement, NamesParent
  <2> QED
    BY <1>2, <1>3, <2>1, <2>2, <2>3 DEF Placements
<1> QED
  BY <1>1, <1>2, <1>3

(* The place of an entry in its list. *)
LEMMA IndexOfEntry ==
  ASSUME NEW d, NEW p, ChildList(d[p].kids)
  PROVE  /\ \A i \in DOMAIN d[p].kids : indexOfChild(childIdsFrom(d, p), d[p].kids[i][1]) = i
         /\ \A b \in Names(d[p].kids) : \E i \in DOMAIN d[p].kids : b = d[p].kids[i][1]
         /\ Len(childIdsFrom(d, p)) = Len(d[p].kids) /\ Range(childIdsFrom(d, p)) = Names(d[p].kids)
<1> DEFINE kids == d[p].kids
           ids == childIdsFrom(d, p)
<1>1. Len(kids) \in Nat /\ DOMAIN kids = 1..Len(kids)
  BY EntriesDiffer
<1>2. DOMAIN ids = DOMAIN kids /\ \A i \in DOMAIN kids : ids[i] = kids[i][1]
  BY DEF childIdsFrom
<1>3. Len(ids) = Len(kids)
  <2>1. ids \in [1..Len(kids) -> Range(ids)]
    BY <1>1 DEF childIdsFrom, Range
  <2>2. ids \in Seq(Range(ids))
    BY <1>1, <2>1, SeqDef
  <2> HIDE DEF ids, kids
  <2>3. Len(ids) \in Nat /\ DOMAIN ids = 1..Len(ids)
    BY <2>2, LenProperties
  <2> QED
    BY <1>1, <1>2, <2>3
<1>4. \A b \in Names(kids) : \E i \in DOMAIN kids : b = kids[i][1]
  BY DEF Names, Range
<1>5. ASSUME NEW i \in DOMAIN kids PROVE indexOfChild(ids, kids[i][1]) = i
  <2>1. {j \in DOMAIN ids : ids[j] = kids[i][1]} = {i}
    <3>1. \A j \in DOMAIN kids : kids[j][1] = kids[i][1] => j = i
      BY <1>5 DEF ChildList, NamesDiffer
    <3> HIDE DEF ids, kids
    <3> QED
      BY <1>2, <1>5, <3>1
  <2>2. (CHOOSE j \in {i} : \A h \in {i} : j <= h) = i
    BY <1>1, <1>5
  <2> HIDE DEF ids, kids
  <2> QED
    BY <2>1, <2>2 DEF indexOfChild
<1>6. Range(ids) = Names(kids)
  BY <1>2 DEF Range, Names
<1> QED
  BY <1>3, <1>4, <1>5, <1>6

(* What resolveInsertContext finds is a place in a list, and the one asked.*)
PlaceMeans(d, at, pl) ==
  LET kids == d[at.parent].kids IN
  NamesParent(pl) =>
    /\ pl.mode = "append" => at.parent = pl.ref /\ at.pos = Len(kids) + 1
    /\ pl.mode = "index" => at.parent = pl.ref /\ at.pos \in {pl.index + 1, Len(kids) + 1}
    /\ pl.mode \in {"after", "before"} =>
         \E j \in DOMAIN kids : kids[j][1] = pl.ref /\ at.pos = IF pl.mode = "after" THEN j + 1 ELSE j

(* The place resolveInsertContext finds is the one asked for.            *)
LEMMA PlaceFound ==
  ASSUME NEW d, \A b \in DOMAIN d : ChildList(d[b].kids),
         NEW t, NEW pl, IsPlacement(pl), NEW strict, NEW at \in resolveInsertContext(d, t, pl, strict)
  PROVE  /\ at.parent \in DOMAIN d /\ at.pos \in 1..Len(d[at.parent].kids) + 1
         /\ PlaceMeans(d, at, pl)
<1>1. PICK p \in TargetParents(d, t, pl) : \E i \in Positions(d, p, pl, strict) : at = [parent |-> p, pos |-> i]
  BY DEF resolveInsertContext
<1>2. PICK i \in Positions(d, p, pl, strict) : at = [parent |-> p, pos |-> i]
  BY <1>1
<1>3. at.parent = p /\ at.pos = i
  BY <1>2
<1>4. p \in DOMAIN d
  BY DEF TargetParents, OfFlavour
<1> DEFINE kids == d[p].kids
           ids == childIdsFrom(d, p)
<1>5. /\ Len(kids) \in Nat /\ DOMAIN kids = 1..Len(kids) /\ Len(ids) = Len(kids)
      /\ \A j \in DOMAIN kids : indexOfChild(ids, kids[j][1]) = j
      /\ \A b \in Names(kids) : \E j \in DOMAIN kids : b = kids[j][1]
      /\ Range(ids) = Names(kids)
  <2>1. ChildList(kids)
    BY <1>4
  <2>2. Len(kids) \in Nat /\ DOMAIN kids = 1..Len(kids)
    BY <2>1, EntriesDiffer
  <2> QED
    BY <2>1, <2>2, IndexOfEntry
<1>6. CASE ~NamesParent(pl)
  <2>1. Positions(d, p, pl, strict) = {Len(ids) + 1}
    BY <1>6 DEF Positions
  <2> QED
    BY <1>3, <1>4, <1>5, <1>6, <2>1 DEF PlaceMeans
<1>7. CASE NamesParent(pl) /\ pl.mode = "append"
  <2>1. i = Len(ids) + 1 /\ p = pl.ref
    BY <1>7 DEF Positions, TargetParents
  <2>2. pl.mode # "index" /\ pl.mode \notin {"after", "before"}
    BY <1>7
  <2> QED
    BY <1>3, <1>4, <1>5, <1>7, <2>1, <2>2 DEF PlaceMeans
<1>8. CASE NamesParent(pl) /\ pl.mode = "index" /\ pl.index \in Nat
  <2>1. p = pl.ref
    BY <1>8 DEF TargetParents
  <2>2. i = Len(ids) + 1 \/ (i = pl.index + 1 /\ pl.index < Len(ids) + 1)
    BY <1>8 DEF Positions
  <2>3. i \in 1..Len(kids) + 1
    BY <1>5, <1>8, <2>2
  <2>4. pl.mode # "append" /\ pl.mode \notin {"after", "before"}
    BY <1>8
  <2> QED
    BY <1>3, <1>4, <1>5, <1>8, <2>1, <2>2, <2>3, <2>4 DEF PlaceMeans
<1>9. CASE NamesParent(pl) /\ pl.mode \in {"after", "before"}
  <2>1. p \in ParentsOf(d, pl.ref)
    BY <1>4, <1>9 DEF TargetParents
  <2>2. pl.ref \in Names(kids)
    BY <1>5, <2>1 DEF ParentsOf
  <2>3. PICK j \in DOMAIN kids : pl.ref = kids[j][1]
    BY <1>5, <2>2
  <2>4. indexOfChild(ids, pl.ref) = j
    BY <1>5, <2>3
  <2>5. i = IF pl.mode = "after" THEN j + 1 ELSE j
    BY <1>9, <2>4 DEF Positions
  <2>6. i \in 1..Len(kids) + 1
    BY <1>5, <2>3, <2>5
  <2>7. pl.mode # "append" /\ pl.mode # "index"
    BY <1>9
  <2> QED
    BY <1>3, <1>4, <1>9, <2>3, <2>5, <2>6, <2>7 DEF PlaceMeans
<1> QED
  BY <1>6, <1>7, <1>8, <1>9 DEF IsPlacement

(* A page lists something of a call; a block stands where the call asked. *)
Listing(c, d) == \E b \in DOMAIN d : \E e \in Range(d[b].kids) : e[2] = c
Placed(c, d, b, pl) == StandsAt(d, b, pl) /\ Listing(c, d)

(* A block put at that place stands where it was asked to.               *)
LEMMA PutWhereAsked ==
  ASSUME NEW c, NEW d, NEW at, ChildList(d[at.parent].kids), at.pos \in 1..Len(d[at.parent].kids) + 1,
         NEW pl, IsPlacement(pl), PlaceMeans(d, at, pl),
         NEW b, b \notin Names(d[at.parent].kids),
         NEW r, at.parent \in DOMAIN r,
         r[at.parent].kids = InsertAt(d[at.parent].kids, at.pos, Entry(b, c))
  PROVE  Placed(c, r, b, pl)
<1> DEFINE p == at.parent
           s == d[p].kids
           k == at.pos
           u == r[p].kids
<1>1. Len(s) \in Nat /\ DOMAIN s = 1..Len(s)
  BY EntriesDiffer
<1>2. /\ ChildList(u) /\ Range(u) = Range(s) \cup {Entry(b, c)} /\ Len(u) = Len(s) + 1
      /\ \A j \in 1..Len(s) + 1 : u[j] = IF j < k THEN s[j] ELSE IF j = k THEN Entry(b, c) ELSE s[j - 1]
  <2>1. PICK q, i : q = s /\ i = k
    OBVIOUS
  <2>2. ChildList(q) /\ b \notin Names(q) /\ i \in 1..Len(q) + 1
    BY <2>1
  <2>3. PICK v : v = InsertAt(q, i, Entry(b, c))
    OBVIOUS
  <2>4. PutIn(c, q, b, i, v)
    BY <2>2, <2>3, EntryPutIn
  <2>5. /\ ChildList(v) /\ Range(v) = Range(q) \cup {Entry(b, c)} /\ Len(v) = Len(q) + 1
        /\ \A j \in 1..Len(q) + 1 : v[j] = IF j < i THEN q[j] ELSE IF j = i THEN Entry(b, c) ELSE q[j - 1]
    BY <2>4 DEF PutIn
  <2> QED
    BY <2>1, <2>3, <2>5
<1>3. /\ DOMAIN u = 1..Len(s) + 1
      /\ \A i \in DOMAIN u : indexOfChild(childIdsFrom(r, p), u[i][1]) = i
      /\ Range(childIdsFrom(r, p)) = Names(u)
  BY <1>2, EntriesDiffer, IndexOfEntry
<1> HIDE DEF u, s
<1>4. Entry(b, c)[1] = b
  BY DEF Entry
<1>5. indexOfChild(childIdsFrom(r, p), b) = k
  <2>1. k \in DOMAIN u /\ u[k] = Entry(b, c)
    BY <1>1, <1>2, <1>3 DEF s
  <2>2. u[k][1] = b
    BY <1>4, <2>1
  <2> QED
    BY <1>3, <2>1, <2>2
<1>6. p \in ParentsOf(r, b)
  <2>1. b \in Names(u)
    BY <1>2, <1>4 DEF Names
  <2> QED
    BY <1>3, <2>1 DEF ParentsOf
<1>7. ASSUME ~NamesParent(pl) /\ pl.mode \notin {"after", "before", "append"} PROVE StandsAt(r, b, pl)
  BY <1>6, <1>7 DEF StandsAt
<1>8. ASSUME NamesParent(pl) /\ pl.mode = "append" PROVE StandsAt(r, b, pl)
  <2>1. p = pl.ref /\ k = Len(u)
    BY <1>2, <1>8 DEF PlaceMeans, s
  <2>2. pl.mode # "after" /\ pl.mode # "before"
    BY <1>8
  <2> QED
    BY <1>5, <1>6, <1>8, <2>1, <2>2 DEF StandsAt, u
<1>9. ASSUME NamesParent(pl) /\ pl.mode = "index" PROVE StandsAt(r, b, pl)
  <2>1. p = pl.ref /\ (k = Len(u) \/ k = pl.index + 1)
    BY <1>2, <1>9 DEF PlaceMeans, s
  <2>2. pl.mode # "after" /\ pl.mode # "before" /\ pl.mode # "append"
    BY <1>9
  <2> QED
    BY <1>5, <1>6, <1>9, <2>1, <2>2 DEF StandsAt, u
<1>10. ASSUME NamesParent(pl) /\ pl.mode \in {"after", "before"} PROVE StandsAt(r, b, pl)
  <2>1. PICK j \in DOMAIN s : s[j][1] = pl.ref /\ k = IF pl.mode = "after" THEN j + 1 ELSE j
    BY <1>10 DEF PlaceMeans, s
  <2>2. CASE pl.mode = "after"
    <3>1. u[j] = s[j] /\ j \in DOMAIN u /\ j # 0
      BY <1>1, <1>2, <1>3, <2>1, <2>2
    <3>2. indexOfChild(childIdsFrom(r, p), pl.ref) = j
      BY <1>3, <2>1, <3>1
    <3> QED
      BY <1>5, <1>6, <2>1, <2>2, <3>1, <3>2 DEF StandsAt
  <2>3. CASE pl.mode = "before"
    <3>1. u[j + 1] = s[j] /\ j + 1 \in DOMAIN u /\ j + 1 # 0 /\ j = (j + 1) - 1
      BY <1>1, <1>2, <1>3, <2>1, <2>3
    <3>2. indexOfChild(childIdsFrom(r, p), pl.ref) = j + 1
      BY <1>3, <2>1, <3>1
    <3>3. k = j /\ pl.mode # "after"
      BY <2>1, <2>3
    <3>4. /\ indexOfChild(childIdsFrom(r, p), pl.ref) # 0
          /\ indexOfChild(childIdsFrom(r, p), b) = indexOfChild(childIdsFrom(r, p), pl.ref) - 1
      BY <1>5, <3>1, <3>2, <3>3
    <3> QED
      BY <1>6, <2>3, <3>3, <3>4 DEF StandsAt
  <2> QED
    BY <1>10, <2>2, <2>3
<1>11. StandsAt(r, b, pl)
  BY <1>7, <1>8, <1>9, <1>10 DEF IsPlacement
<1>12. Listing(c, r)
  <2>1. Entry(b, c) \in Range(u) /\ Entry(b, c)[2] = c
    BY <1>2 DEF Entry
  <2> QED
    BY <2>1 DEF Listing, u
<1> QED
  BY <1>11, <1>12 DEF Placed

(* insertBlockIntoDoc. *)
LEMMA InsertGrows ==
  ASSUME NEW c, NEW base, NEW d, NEW left, Grown(c, base, d, left),
         NEW k \in {"one", "two"}, Fresh(c, k) \notin DOMAIN d,
         NEW t, NEW hasText, BlockShape(t, hasText).flavour # "surface",
         NEW pl, IsPlacement(pl),
         BlockShape(t, hasText).child \/ ~NamesParent(pl) => MadeBy(c) \cap DOMAIN d = {},
         NEW strict, NEW r \in insertBlockIntoDoc(d, c, k, t, hasText, pl, strict)
  PROVE  /\ Grown(c, base, r, left) /\ Placed(c, r, Fresh(c, k), pl)
         /\ DOMAIN r \subseteq DOMAIN d \cup {Fresh(c, k), Fresh(c, "text"), Fresh(c, "note"), Fresh(c, "empty"), Fresh(c, "surface")}
<1> DEFINE s == BlockShape(t, hasText)
           b == Fresh(c, k)
           x == Fresh(c, "text")
<1>1. PICK e : e = WithParent(d, c, t, pl)
  OBVIOUS
<1>2. PICK at \in resolveInsertContext(e, t, pl, strict) : r = InsertedBlock(e, at, b, s, c)
  BY <1>1 DEF insertBlockIntoDoc
<1>3. /\ Grown(c, base, e, left)
      /\ DOMAIN e \subseteq DOMAIN d \cup {Fresh(c, "note"), Fresh(c, "empty"), Fresh(c, "surface")}
  BY <1>1, ParentGrows
<1>4. PageTree(e, left) /\ BlockRecords(e) /\ \A y \in DOMAIN e : ChildList(e[y].kids) /\ Names(e[y].kids) \subseteq DOMAIN e
  BY <1>3, TreesHaveLists DEF Grown
<1>5. at.parent \in DOMAIN e /\ at.pos \in 1..Len(e[at.parent].kids) + 1 /\ PlaceMeans(e, at, pl)
  BY <1>4, PlaceFound
<1>6. b \in MadeBy(c) /\ x \in MadeBy(c) /\ b # x /\ b \notin DOMAIN e
  BY <1>3, FreshIds
<1>7. s.type # "none" => s.type \in EditTypes(s.flavour)
  BY ShapeFits
<1> HIDE DEF s
<1> DEFINE n == WithNewBlock(e, at, b, s.flavour, s.type, c)
<1>8. Grown(c, base, n, left)
  BY <1>3, <1>5, <1>6, <1>7, NewBlockGrows DEF s
<1>9. BlockIsNew(e, n, at, b, s.flavour, s.type, c)
  BY <1>4, <1>5, <1>6, NewBlockThere
<1> DEFINE m == WithNewBlock(n, LastIn(n, b), x, "paragraph", "text", c)
<1>10. r = IF s.child THEN m ELSE n
  BY <1>2 DEF InsertedBlock
<1> HIDE DEF n
<1>11. DOMAIN n = DOMAIN e \cup {b} /\ n[at.parent].kids = InsertAt(e[at.parent].kids, at.pos, Entry(b, c))
  BY <1>9 DEF BlockIsNew
<1>12. ASSUME NEW u, at.parent \in DOMAIN u, u[at.parent].kids = n[at.parent].kids
       PROVE  Placed(c, u, b, pl)
  BY <1>4, <1>5, <1>6, <1>11, <1>12, PutWhereAsked
<1>13. CASE ~s.child
  <2>1. Placed(c, n, b, pl)
    BY <1>5, <1>11, <1>12
  <2> QED
    BY <1>3, <1>8, <1>10, <1>11, <1>13, <2>1
<1>14. CASE s.child
  <2>1. x \notin DOMAIN n
    <3>1. x \notin {Fresh(c, "note"), Fresh(c, "empty"), Fresh(c, "surface")}
      BY FreshIds
    <3> QED
      BY <1>3, <1>6, <1>11, <1>14, <3>1 DEF s
  <2>2. PageTree(n, left) /\ BlockRecords(n) /\ b \in DOMAIN n
    BY <1>8, <1>11, TreesHaveLists DEF Grown
  <2>3. PICK bt : bt = LastIn(n, b) /\ bt.parent = b /\ bt.pos \in 1..Len(n[b].kids) + 1
    BY <2>2, LastPlace
  <2>4. "text" \in EditTypes("paragraph")
    BY DEF EditTypes
  <2>5. Grown(c, base, m, left)
    BY <1>6, <1>8, <2>1, <2>2, <2>3, <2>4, NewBlockGrows
  <2>6. BlockIsNew(n, m, bt, x, "paragraph", "text", c)
    BY <2>1, <2>2, <2>3, NewBlockThere
  <2> HIDE DEF m
  <2>7. DOMAIN m = DOMAIN n \cup {x} /\ m[at.parent] = n[at.parent]
    BY <1>5, <1>6, <1>11, <2>3, <2>6 DEF BlockIsNew
  <2>8. Placed(c, m, b, pl)
    BY <1>5, <1>11, <1>12, <2>7
  <2> QED
    BY <1>3, <1>10, <1>11, <1>14, <2>5, <2>7, <2>8
<1> QED
  BY <1>13, <1>14

(* Where nothing refers to the surface, no surface is made. *)
LEMMA NoSurfaceMade ==
  ASSUME NEW t, NEW hasText, t \in AppendTypes
  PROVE  BlockShape(t, hasText).flavour # "surface" /\ BlockShape(t, hasText).child \in BOOLEAN
<1>1. CASE t \in {"frame", "edgeless_text", "note"}
  BY <1>1 DEF BlockShape, EdgelessShape
<1>2. CASE t \notin {"frame", "edgeless_text", "note"} /\ t \in MediaTypes \cup EmbedTypes
  BY <1>2 DEF BlockShape, MediaTypes, EmbedTypes
<1>3. CASE t \notin {"frame", "edgeless_text", "note"} /\ t \notin MediaTypes \cup EmbedTypes
  <2>1. BlockShape(t, hasText) = TextShape(t) /\ t # "surface"
    BY <1>3 DEF BlockShape, AppendTypes, MediaTypes, EmbedTypes
  <2> QED
    BY <2>1 DEF TextShape
<1> QED
  BY <1>1, <1>2, <1>3

-----------------------------------------------------------------------------
(* Blocks taken away: what they list goes with them, or is left.           *)
LEMMA TakenGrows ==
  ASSUME NEW c, NEW base, NEW d, NEW left, Grown(c, base, d, left),
         NEW gone, PageBlock \notin gone, NEW later, left \subseteq later,
         \A b \in gone \cap DOMAIN d : Kids(d)[b] \subseteq gone \cup later,
         NEW r, r = [p \in DOMAIN d \ gone |-> [d[p] EXCEPT !.kids = Unlisted(@, gone)]]
  PROVE  Grown(c, base, r, later)
<1>1. /\ \A x \in DOMAIN d : /\ ChildList(d[x].kids) /\ Kids(d)[x] = Names(d[x].kids)
      /\ IsFiniteSet(DOMAIN d) /\ PageBlock \in DOMAIN d /\ d[PageBlock].flavour = "page"
      /\ BlockRecords(d) /\ DOMAIN Kids(d) = DOMAIN d
  BY TreesHaveLists DEF Grown
<1>2. DOMAIN r = DOMAIN d \ gone /\ IsMap(r)
  BY DEF IsMap
<1>3. \A x \in DOMAIN r : r[x] = Block(d[x].flavour, d[x].type, Unlisted(d[x].kids, gone))
  <2> TAKE x \in DOMAIN r
  <2>1. r[x] = [d[x] EXCEPT !.kids = Unlisted(d[x].kids, gone)]
    OBVIOUS
  <2> QED
    BY <1>1, <1>2, <2>1, OtherKids DEF BlockRecords
<1>4. \A x \in DOMAIN r : r[x].flavour = d[x].flavour /\ r[x].type = d[x].type /\ r[x].kids = Unlisted(d[x].kids, gone)
  <2> TAKE x \in DOMAIN r
  <2>1. PICK f, t, kids : f = d[x].flavour /\ t = d[x].type /\ kids = Unlisted(d[x].kids, gone)
    OBVIOUS
  <2>2. PICK y : y = r[x]
    OBVIOUS
  <2>3. y = Block(f, t, kids)
    BY <1>3, <2>1, <2>2
  <2>4. y.flavour = f /\ y.type = t /\ y.kids = kids
    BY <2>3 DEF Block
  <2> QED
    BY <2>1, <2>2, <2>4
<1>5. BlockRecords(r)
  BY <1>1, <1>2, <1>3, <1>4 DEF BlockRecords, TypesFit
<1>6. \A x \in DOMAIN r : /\ ChildList(r[x].kids) /\ Follows(c, r[x].kids, ListOf(d, x))
                          /\ Range(r[x].kids) = {e \in Range(d[x].kids) : e[1] \notin gone}
  BY <1>1, <1>2, <1>4, EntriesTaken DEF ListOf
<1>7. HangsTogether(Kids(r), later)
  <2>1. DOMAIN Kids(r) = DOMAIN d \ gone
    BY <1>2 DEF Kids
  <2>2. \A x \in DOMAIN r : Kids(r)[x] = Kids(d)[x] \ gone
    <3> TAKE x \in DOMAIN r
    <3>1. Kids(r)[x] = Names(r[x].kids) /\ Kids(d)[x] = Names(d[x].kids)
      BY <1>2, WhatIsListed DEF Names
    <3>2. Range(r[x].kids) = {e \in Range(d[x].kids) : e[1] \notin gone}
      BY <1>6
    <3>3. Names(r[x].kids) = Names(d[x].kids) \ gone
      BY <3>2 DEF Names
    <3> QED
      BY <3>1, <3>3
  <2>3. HangsTogether(Kids(d), left)
    BY DEF Grown, PageTree
  <2>4. PICK K, L : K = Kids(d) /\ L = Kids(r)
    OBVIOUS
  <2>5. /\ HangsTogether(K, left) /\ \A b \in gone \cap DOMAIN K : K[b] \subseteq gone \cup later
        /\ DOMAIN L = DOMAIN K \ gone /\ \A b \in DOMAIN L : L[b] = K[b] \ gone
    BY <1>1, <1>2, <2>1, <2>2, <2>3, <2>4
  <2>6. HangsTogether(L, later)
    BY <2>5, RestHangs
  <2> QED
    BY <2>4, <2>6
<1>8. \A x, y \in OfFlavour(r, "surface") : x = y
  BY <1>2, <1>4 DEF OfFlavour, Grown, PageTree
<1>9. IsFiniteSet(DOMAIN r) /\ PageBlock \in DOMAIN r /\ r[PageBlock].flavour = "page"
  <2>1. IsFiniteSet(DOMAIN d \ gone)
    BY <1>1, FS_Subset
  <2> QED
    BY <1>1, <1>2, <1>4, <2>1
<1> HIDE DEF Grown
<1> QED
  BY <1>5, <1>6, <1>7, <1>8, <1>9, GrownFurther

(* The root is below nothing else. *)
LEMMA RootNotBelow ==
  ASSUME NEW d, NEW left, PageTree(d, left), NEW start, PageBlock \notin start
  PROVE  PageBlock \notin Descendants(d, start)
<1> DEFINE S == start \cup (DOMAIN d \ {PageBlock})
<1>1. IsFiniteSet(DOMAIN d) /\ HangsTogether(Kids(d), left) /\ DOMAIN Kids(d) = DOMAIN d
  BY TreesHaveLists DEF PageTree
<1>2. DownClosed(Kids(d), S)
  BY <1>1 DEF DownClosed, HangsTogether
<1> QED
  BY <1>1, <1>2, DescendsNoFurther

(* deleteBlockInDoc. *)
LEMMA DeleteGrows ==
  ASSUME NEW c, NEW base, NEW d, NEW left, Grown(c, base, d, left),
         NEW b \in DOMAIN d, NEW recursive \in BOOLEAN, NEW refuse,
         NEW r \in deleteBlockInDoc(d, b, recursive, refuse)
  PROVE  Grown(c, base, r, IF recursive THEN left ELSE left \cup Range(childIdsFrom(d, b)))
<1> DEFINE gone == IF recursive THEN Descendants(d, {b}) ELSE {b}
           later == IF recursive THEN left ELSE left \cup Range(childIdsFrom(d, b))
<1>1. d[b].flavour # "page" /\ r = [p \in DOMAIN d \ gone |-> [d[p] EXCEPT !.kids = Unlisted(@, gone)]]
  BY DEF deleteBlockInDoc
<1>2. PageTree(d, left) /\ d[PageBlock].flavour = "page" /\ IsFiniteSet(DOMAIN d) /\ DOMAIN Kids(d) = DOMAIN d
  BY TreesHaveLists DEF Grown
<1>3. b # PageBlock
  BY <1>1, <1>2
<1>4. CASE recursive
  <2>1. gone = Descendants(d, {b}) /\ later = left
    BY <1>4
  <2>2. PageBlock \notin gone
    BY <1>2, <1>3, <2>1, RootNotBelow
  <2>3. DownClosed(Kids(d), gone)
    BY <1>2, <2>1, DescendsToTheEnd
  <2>4. PICK g : g = gone
    OBVIOUS
  <2>5. /\ PageBlock \notin g /\ \A x \in g \cap DOMAIN d : Kids(d)[x] \subseteq g \cup left
        /\ r = [p \in DOMAIN d \ g |-> [d[p] EXCEPT !.kids = Unlisted(@, g)]]
    BY <1>1, <1>2, <2>2, <2>3, <2>4 DEF DownClosed
  <2>6. Grown(c, base, r, left)
    BY <2>5, TakenGrows
  <2> QED
    BY <1>4, <2>6
<1>5. CASE ~recursive
  <2>1. gone = {b} /\ later = left \cup Range(childIdsFrom(d, b))
    BY <1>5
  <2>2. Kids(d)[b] = Range(childIdsFrom(d, b))
    BY WhatIsListed
  <2>3. PICK g, l : g = {b} /\ l = left \cup Range(childIdsFrom(d, b))
    OBVIOUS
  <2>4. /\ PageBlock \notin g /\ left \subseteq l /\ \A x \in g \cap DOMAIN d : Kids(d)[x] \subseteq g \cup l
        /\ r = [p \in DOMAIN d \ g |-> [d[p] EXCEPT !.kids = Unlisted(@, g)]]
    BY <1>1, <1>3, <2>1, <2>2, <2>3
  <2>5. Grown(c, base, r, l)
    BY <2>4, TakenGrows
  <2> QED
    BY <1>5, <2>3, <2>5
<1> QED
  BY <1>4, <1>5

(* What is below a note goes, and its list is emptied. *)
LEMMA EmptiedGrows ==
  ASSUME NEW c, NEW base, NEW d, NEW left, Grown(c, base, d, left), MadeBy(c) \cap DOMAIN d = {}
  PROVE  /\ Grown(c, base, Emptied(d, c).doc, left)
         /\ DOMAIN Emptied(d, c).doc \subseteq DOMAIN d \cup {Fresh(c, "note"), Fresh(c, "empty")}
<1>1. PICK e : e = ensureNoteBlock(d, c)
  OBVIOUS
<1>2. /\ Grown(c, base, e, left) /\ DOMAIN e \subseteq DOMAIN d \cup {Fresh(c, "note"), Fresh(c, "empty")}
      /\ OfFlavour(e, "note") # {}
  BY <1>1, NoteGrows
<1>3. PICK n : n = CHOOSE b \in OfFlavour(e, "note") : TRUE
  OBVIOUS
<1>4. n \in DOMAIN e
  BY <1>2, <1>3 DEF OfFlavour
<1>5. PICK gone : gone = Descendants(e, Range(childIdsFrom(e, n)))
  OBVIOUS
<1>6. PICK r : r = [p \in DOMAIN e \ gone |-> IF p = n THEN [e[p] EXCEPT !.kids = <<>>] ELSE e[p]]
  OBVIOUS
<1>7. Emptied(d, c).doc = r
  BY <1>1, <1>3, <1>5, <1>6 DEF Emptied
<1>8. /\ \A x \in DOMAIN e : /\ ChildList(e[x].kids) /\ Kids(e)[x] = Names(e[x].kids)
      /\ IsFiniteSet(DOMAIN e) /\ PageBlock \in DOMAIN e /\ e[PageBlock].flavour = "page"
      /\ BlockRecords(e) /\ DOMAIN Kids(e) = DOMAIN e /\ PageTree(e, left)
  BY <1>2, TreesHaveLists DEF Grown
<1>9. PICK K : K = Kids(e)
  OBVIOUS
<1>10. HangsTogether(K, left) /\ DOMAIN K = DOMAIN e
  BY <1>8, <1>9 DEF PageTree
<1>11. K[n] = Range(childIdsFrom(e, n))
  BY <1>4, <1>9, WhatIsListed
<1>12. DownClosed(K, gone) /\ K[n] \subseteq gone
  BY <1>5, <1>8, <1>9, <1>11, DescendsToTheEnd
<1>13. \A S : DownClosed(K, S) /\ K[n] \subseteq S => gone \subseteq S
  BY <1>5, <1>8, <1>9, <1>11, DescendsNoFurther
<1>14. PageBlock \notin gone
  <2>1. PageBlock \notin Range(childIdsFrom(e, n))
    BY <1>4, <1>10, <1>11 DEF HangsTogether
  <2> QED
    BY <1>5, <1>8, <2>1, RootNotBelow
<1>15. n \notin gone
  BY <1>4, <1>10, <1>13 DEF HangsTogether
<1>16. ASSUME NEW p \in DOMAIN e \ gone, p # n PROVE K[p] \cap gone = {}
  <2> SUFFICES ASSUME NEW y \in K[p] \cap gone PROVE FALSE
    OBVIOUS
  <2>1. \A x \in DOMAIN e : y \in K[x] => x = p
    BY <1>10, <1>16 DEF HangsTogether
  <2>2. DownClosed(K, gone \ {y})
    BY <1>10, <1>12, <1>16, <2>1 DEF DownClosed
  <2>3. K[n] \subseteq gone \ {y}
    BY <1>4, <1>12, <1>16, <2>1
  <2> QED
    BY <1>13, <2>2, <2>3
<1>17. DOMAIN r = DOMAIN e \ gone /\ IsMap(r)
  BY <1>6 DEF IsMap
<1>18. \A x \in DOMAIN r : IF x = n THEN r[x].flavour = e[x].flavour /\ r[x].kids = <<>> ELSE r[x] = e[x]
  <2> TAKE x \in DOMAIN r
  <2>1. x # n => r[x] = e[x]
    BY <1>6, <1>17
  <2>2. ASSUME x = n PROVE r[x].flavour = e[x].flavour /\ r[x].kids = <<>>
    <3>1. r[x] = [e[x] EXCEPT !.kids = <<>>]
      BY <1>6, <1>17, <2>2
    <3>2. PICK y, f, t : y = r[x] /\ f = e[x].flavour /\ t = e[x].type
      OBVIOUS
    <3>3. y = Block(f, t, <<>>)
      BY <1>8, <1>17, <3>1, <3>2, OtherKids DEF BlockRecords
    <3>4. y.flavour = f /\ y.kids = <<>>
      BY <3>3 DEF Block
    <3> QED
      BY <3>2, <3>4
  <2> QED
    BY <2>1, <2>2
<1>19. BlockRecords(r)
  <2>1. \A x \in DOMAIN r : Likewise(c, e, x, r[x])
    BY <1>6, <1>17 DEF Likewise
  <2> QED
    BY <1>8, <1>17, <2>1, BlocksKept DEF Kept
<1>20. \A x \in DOMAIN r : ChildList(r[x].kids) /\ Follows(c, r[x].kids, ListOf(e, x))
  <2> TAKE x \in DOMAIN r
  <2>1. CASE x = n
    BY <1>18, <2>1, NothingFollows
  <2>2. CASE x # n
    BY <1>8, <1>17, <1>18, <2>2, EntriesDiffer DEF ListOf, Follows
  <2> QED
    BY <2>1, <2>2
<1>21. HangsTogether(Kids(r), left)
  <2>1. DOMAIN Kids(r) = DOMAIN K \ gone
    BY <1>10, <1>17 DEF Kids
  <2>2. \A x \in DOMAIN r : Kids(r)[x] = K[x] \ gone
    <3> TAKE x \in DOMAIN r
    <3>1. Kids(r)[x] = Names(r[x].kids)
      BY WhatIsListed DEF Names
    <3>2. CASE x = n
      BY <1>12, <1>18, <3>1, <3>2, NothingFollows
    <3>3. CASE x # n
      BY <1>8, <1>9, <1>16, <1>17, <1>18, <3>1, <3>3
    <3> QED
      BY <3>2, <3>3
  <2>3. PICK L : L = Kids(r)
    OBVIOUS
  <2>4. /\ \A b \in gone \cap DOMAIN K : K[b] \subseteq gone \cup left
        /\ DOMAIN L = DOMAIN K \ gone /\ \A b \in DOMAIN L : L[b] = K[b] \ gone
    BY <1>10, <1>12, <1>17, <2>1, <2>2, <2>3 DEF DownClosed
  <2>5. HangsTogether(L, left)
    BY <1>10, <1>14, <2>4, RestHangs
  <2> QED
    BY <2>3, <2>5
<1>22. \A x, y \in OfFlavour(r, "surface") : x = y
  BY <1>8, <1>17, <1>18 DEF OfFlavour, PageTree
<1>23. IsFiniteSet(DOMAIN r) /\ PageBlock \in DOMAIN r /\ r[PageBlock].flavour = "page"
  <2>1. IsFiniteSet(DOMAIN e \ gone)
    BY <1>8, FS_Subset
  <2> QED
    BY <1>8, <1>14, <1>17, <1>18, <2>1
<1>24. Grown(c, base, r, left)
  BY <1>2, <1>19, <1>20, <1>21, <1>22, <1>23, GrownFurther
<1> QED
  BY <1>2, <1>7, <1>17, <1>24

(* Types of blocks the tools write themselves. *)
LEMMA PlainBlocks ==
  ASSUME NEW t \in {"heading", "list", "paragraph"}
  PROVE  BlockShape(t, FALSE).flavour # "surface" /\ ~BlockShape(t, FALSE).child
<1>1. t \notin {"frame", "edgeless_text", "note"} /\ t \notin MediaTypes \cup EmbedTypes
  BY DEF MediaTypes, EmbedTypes
<1>2. BlockShape(t, FALSE) = TextShape(t)
  BY <1>1 DEF BlockShape
<1>3. TextShape(t).flavour # "surface" /\ TextShape(t).child = FALSE
  BY DEF TextShape
<1> QED
  BY <1>2, <1>3

(* updateBlockHandler. *)
LEMMA UpdateGrows ==
  ASSUME NEW c, NEW d, NEW left, NothingBy(c, d), PageTree(d, left),
         NEW b \in DOMAIN d, NEW t, NEW r \in Updated(d, b, t)
  PROVE  Grown(c, d, r, left)
<1>1. /\ \A x \in DOMAIN d : /\ ChildList(d[x].kids) /\ Kids(d)[x] = Names(d[x].kids)
      /\ IsFiniteSet(DOMAIN d) /\ PageBlock \in DOMAIN d /\ d[PageBlock].flavour = "page"
      /\ BlockRecords(d) /\ DOMAIN Kids(d) = DOMAIN d
  BY TreesHaveLists
<1>2. t \in EditTypes(d[b].flavour) /\ r = [d EXCEPT ![b].type = t]
  BY DEF Updated
<1>3. d = [x \in DOMAIN d |-> d[x]] /\ d[b] = Block(d[b].flavour, d[b].type, d[b].kids)
  BY <1>1 DEF BlockRecords, IsMap
<1>4. /\ IsMap(r) /\ DOMAIN r = DOMAIN d
      /\ r[b] = Block(d[b].flavour, t, d[b].kids)
      /\ \A x \in DOMAIN d \ {b} : r[x] = d[x]
  BY <1>2, <1>3 DEF IsMap, Block
<1>5. r[b].flavour = d[b].flavour /\ r[b].type = t /\ r[b].kids = d[b].kids
  BY <1>4 DEF Block
<1>6. \A x \in DOMAIN d : r[x].flavour = d[x].flavour /\ r[x].kids = d[x].kids
  BY <1>4, <1>5
<1>7. BlockRecords(r)
  BY UpdatedKept, <1>1 DEF Kept
<1>8. Kids(r) = Kids(d)
  BY <1>4, <1>6 DEF Kids, childIdsFrom
<1>9. \A x \in DOMAIN r : ChildList(r[x].kids) /\ Follows(c, r[x].kids, ListOf(d, x))
  BY <1>1, <1>4, <1>6, EntriesDiffer DEF ListOf, Follows
<1>10. \A x, y \in OfFlavour(r, "surface") : x = y
  BY <1>4, <1>6 DEF OfFlavour, PageTree
<1>11. HangsTogether(Kids(r), left)
  BY <1>8 DEF PageTree
<1>12. Grown(c, d, d, left)
  BY GrownAsLoaded
<1>13. IsFiniteSet(DOMAIN r) /\ PageBlock \in DOMAIN r /\ r[PageBlock].flavour = "page"
  BY <1>1, <1>4, <1>6
<1> QED
  BY <1>7, <1>9, <1>10, <1>11, <1>12, <1>13, GrownFurther

(* moveBlockHandler: a block out of its list, and into another.            *)
OutOfList(d, e, b) ==
  /\ DOMAIN e = DOMAIN d
  /\ \A x \in DOMAIN d : /\ e[x].flavour = d[x].flavour /\ e[x].kids = Unlisted(d[x].kids, {b})
                         /\ ChildList(e[x].kids) /\ Names(e[x].kids) = Names(d[x].kids) \ {b}

(* removeBlockFromParents takes the block out of every list.             *)
LEMMA BlockTaken ==
  ASSUME NEW d, NEW left, PageTree(d, left), NEW b
  PROVE  OutOfList(d, removeBlockFromParents(d, b), b)
<1> DEFINE e == removeBlockFromParents(d, b)
<1>1. BlockRecords(d) /\ \A x \in DOMAIN d : ChildList(d[x].kids)
  BY TreesHaveLists
<1>2. DOMAIN e = DOMAIN d
  BY DEF removeBlockFromParents
<1>3. ASSUME NEW x \in DOMAIN d
      PROVE  /\ e[x].flavour = d[x].flavour /\ e[x].kids = Unlisted(d[x].kids, {b})
             /\ ChildList(e[x].kids) /\ Names(e[x].kids) = Names(d[x].kids) \ {b}
  <2>1. e[x] = [d[x] EXCEPT !.kids = Unlisted(d[x].kids, {b})]
    BY DEF removeBlockFromParents
  <2> HIDE DEF e
  <2>2. PICK y, f, t, kids : y = e[x] /\ f = d[x].flavour /\ t = d[x].type /\ kids = Unlisted(d[x].kids, {b})
    OBVIOUS
  <2>3. y = Block(f, t, kids)
    BY <1>1, <2>1, <2>2, OtherKids DEF BlockRecords
  <2>4. y.flavour = f /\ y.kids = kids
    BY <2>3 DEF Block
  <2>5. ChildList(kids) /\ Range(kids) = {i \in Range(d[x].kids) : i[1] \notin {b}}
    BY <1>1, <2>2, EntriesTaken
  <2>6. Names(kids) = Names(d[x].kids) \ {b}
    BY <2>5 DEF Names
  <2> QED
    BY <2>2, <2>4, <2>5, <2>6
<1> HIDE DEF e
<1>4. OutOfList(d, e, b)
  BY <1>2, <1>3 DEF OutOfList
<1> QED
  BY <1>4 DEF e

(* Its new parent is not below it. *)
LEMMA ParentNotBelow ==
  ASSUME NEW d, NEW left, PageTree(d, left), NEW b \in DOMAIN d, NEW e, OutOfList(d, e, b),
         NEW pl, IsPlacement(pl), pl.mode # "none", NamesParent(pl) => pl.ref \notin Descendants(d, {b}),
         NEW p \in WithCurrentParent(d, b, pl), NEW at, at.parent \in DOMAIN e, PlaceMeans(e, at, p)
  PROVE  /\ IsPlacement(p) /\ at.parent \notin Descendants(d, {b})
<1> DEFINE q == at.parent
           B == Descendants(d, {b})
<1>1. /\ IsFiniteSet(DOMAIN d) /\ HangsTogether(Kids(d), left) /\ DOMAIN Kids(d) = DOMAIN d
      /\ \A x \in DOMAIN d : Kids(d)[x] = Names(d[x].kids)
  BY TreesHaveLists DEF PageTree
<1>2. DownClosed(Kids(d), B) /\ b \in B
  BY <1>1, DescendsToTheEnd
<1>3. q \in DOMAIN d
  BY DEF OutOfList
<1> HIDE DEF B
<1>4. CASE NamesParent(pl)
  <2>1. p = pl /\ pl.ref \notin B
    BY <1>4 DEF WithCurrentParent, B
  <2>2. CASE pl.mode \in {"append", "index"}
    BY <1>4, <2>1, <2>2 DEF PlaceMeans, B
  <2>3. CASE pl.mode \in {"after", "before"}
    <3>1. PICK j \in DOMAIN e[q].kids : e[q].kids[j][1] = pl.ref
      BY <1>4, <2>1, <2>3 DEF PlaceMeans
    <3>2. pl.ref \in Names(e[q].kids)
      BY <3>1 DEF Names, Range
    <3>3. pl.ref \in Kids(d)[q]
      BY <1>1, <1>3, <3>2 DEF OutOfList
    <3>4. q \notin B
      BY <1>1, <1>2, <1>3, <2>1, <3>3 DEF DownClosed
    <3> QED
      BY <2>1, <3>4 DEF B
  <2> QED
    BY <1>4, <2>2, <2>3 DEF IsPlacement
<1>5. CASE ~NamesParent(pl)
  <2>1. pl.mode = "index" /\ pl.index \in Nat
    BY <1>5 DEF IsPlacement
  <2>2. PICK h \in ParentsOf(d, b) : p = [mode |-> "index", ref |-> h, index |-> pl.index]
    BY <1>5, <2>1 DEF WithCurrentParent
  <2>3. p.mode = "index" /\ p.ref = h /\ NamesParent(p) /\ IsPlacement(p)
    BY <2>1, <2>2 DEF NamesParent, IsPlacement
  <2>4. q = h
    BY <2>3 DEF PlaceMeans
  <2>5. b \in Kids(d)[h] /\ h \in DOMAIN d
    BY <2>2 DEF ParentsOf, Kids
  <2>6. PICK C : DownClosed(Kids(d), C) /\ Kids(d)[h] \subseteq C /\ h \notin C
    BY <1>1, <2>5 DEF HangsTogether
  <2>7. {b} \subseteq C
    BY <2>5, <2>6
  <2>8. B \subseteq C
    BY <1>1, <2>6, <2>7, DescendsNoFurther DEF B
  <2> QED
    BY <2>3, <2>4, <2>6, <2>8 DEF B
<1> QED
  BY <1>4, <1>5

(* move_block keeps one tree and honours its placement.                  *)
LEMMA MoveGrows ==
  ASSUME NEW c, NEW d, NEW left, NothingBy(c, d), PageTree(d, left),
         NEW b \in DOMAIN d, NEW pl, IsPlacement(pl), NEW r \in Moved(d, c, b, pl)
  PROVE  Grown(c, d, r, left) /\ Placed(c, r, b, pl)
<1> DEFINE B == Descendants(d, {b})
<1>1. /\ \A x \in DOMAIN d : /\ ChildList(d[x].kids) /\ Kids(d)[x] = Names(d[x].kids)
      /\ IsFiniteSet(DOMAIN d) /\ PageBlock \in DOMAIN d /\ d[PageBlock].flavour = "page"
      /\ BlockRecords(d) /\ DOMAIN Kids(d) = DOMAIN d
  BY TreesHaveLists
<1>2. PICK e : e = removeBlockFromParents(d, b)
  OBVIOUS
<1>3. OutOfList(d, e, b)
  BY <1>2, BlockTaken
<1>4. /\ d[b].flavour # "page" /\ pl.mode # "none" /\ (NamesParent(pl) => pl.ref \notin B)
      /\ r \in Relocated(d, c, b, pl)
  BY DEF Moved
<1>5. PICK p \in WithCurrentParent(d, b, pl) :
        r \in {ListedAt(e, at, b, c) : at \in resolveInsertContext(e, moveType(d[b].flavour), p, TRUE)}
  BY <1>2, <1>4 DEF Relocated
<1>6. PICK at \in resolveInsertContext(e, moveType(d[b].flavour), p, TRUE) : r = ListedAt(e, at, b, c)
  BY <1>5
<1>7. \A x \in DOMAIN e : ChildList(e[x].kids)
  BY <1>3 DEF OutOfList
<1>8. IsPlacement(p)
  <2>1. CASE NamesParent(pl)
    BY <2>1 DEF WithCurrentParent
  <2>2. CASE ~NamesParent(pl)
    <3>1. pl.mode = "index" /\ pl.index \in Nat
      BY <1>4, <2>2 DEF IsPlacement
    <3>2. PICK h : p = [mode |-> "index", ref |-> h, index |-> pl.index]
      BY <2>2, <3>1 DEF WithCurrentParent
    <3> QED
      BY <3>1, <3>2, PlacementsArePlacements
  <2> QED
    BY <2>1, <2>2
<1>9. at.parent \in DOMAIN e /\ at.pos \in 1..Len(e[at.parent].kids) + 1 /\ PlaceMeans(e, at, p)
  BY <1>7, <1>8, PlaceFound
<1>10. at.parent \notin B
  BY <1>3, <1>4, <1>9, ParentNotBelow
<1> HIDE DEF B
<1>11. PICK q : q = at.parent
  OBVIOUS
<1>12. q \in DOMAIN d /\ q \in DOMAIN e /\ DOMAIN e = DOMAIN d /\ b # PageBlock
  BY <1>1, <1>3, <1>4, <1>9, <1>11 DEF OutOfList
<1>13. b \notin Names(e[q].kids)
  BY <1>3, <1>12 DEF OutOfList
<1>14. PICK s : s = InsertAt(e[q].kids, at.pos, Entry(b, c))
  OBVIOUS
<1>15. PutIn(c, e[q].kids, b, at.pos, s)
  <2>1. PICK u, k : u = e[q].kids /\ k = at.pos
    OBVIOUS
  <2>2. ChildList(u) /\ b \notin Names(u) /\ k \in 1..Len(u) + 1
    BY <1>7, <1>9, <1>11, <1>12, <1>13, <2>1
  <2>3. PutIn(c, u, b, k, InsertAt(u, k, Entry(b, c)))
    BY <2>2, EntryPutIn
  <2> QED
    BY <1>14, <2>1, <2>3
<1>16. DOMAIN r = DOMAIN d /\ IsMap(r)
  BY <1>6, <1>12 DEF ListedAt, IsMap
<1>17. BlockRecords(r)
  BY <1>1, MovedKept DEF Kept
<1>18. \A x \in DOMAIN d \ {q} : r[x] = e[x]
  BY <1>6, <1>11, <1>12 DEF ListedAt
<1>19. r[q].flavour = e[q].flavour /\ r[q].kids = s
  <2>1. r[q] = [e[q] EXCEPT !.kids = s]
    BY <1>6, <1>11, <1>12, <1>14 DEF ListedAt
  <2>2. BlockRecords(e)
    BY <1>1, <1>2, RemovedKept DEF Kept
  <2>3. PICK f, t, y : f = e[q].flavour /\ t = e[q].type /\ y = r[q]
    OBVIOUS
  <2>4. y = Block(f, t, s)
    BY <1>12, <2>1, <2>2, <2>3, OtherKids DEF BlockRecords
  <2>5. y.flavour = f /\ y.kids = s
    BY <2>4 DEF Block
  <2> QED
    BY <2>3, <2>5
<1>20. \A x \in DOMAIN d : r[x].flavour = d[x].flavour
  BY <1>3, <1>18, <1>19 DEF OutOfList
<1>21. ASSUME NEW x \in DOMAIN d
       PROVE  /\ ChildList(r[x].kids) /\ Follows(c, r[x].kids, d[x].kids)
              /\ Names(r[x].kids) = (Names(d[x].kids) \ {b}) \cup (IF x = q THEN {b} ELSE {})
  <2>1. e[x].kids = Unlisted(d[x].kids, {b}) /\ Names(e[x].kids) = Names(d[x].kids) \ {b}
    BY <1>3 DEF OutOfList
  <2>2. Follows(c, e[x].kids, d[x].kids)
    BY <1>1, <2>1, EntriesTaken
  <2>3. CASE x # q
    BY <1>7, <1>12, <1>18, <2>1, <2>2, <2>3
  <2>4. CASE x = q
    <3>1. \A i \in Range(d[x].kids) : i[2] # c
      BY DEF NothingBy
    <3>2. ChildList(s) /\ Follows(c, s, e[q].kids) /\ Range(s) = Range(e[q].kids) \cup {Entry(b, c)}
      BY <1>15 DEF PutIn
    <3>3. Follows(c, s, d[x].kids)
      <4>1. PICK u, v : u = e[q].kids /\ v = d[x].kids
        OBVIOUS
      <4>2. Follows(c, s, u) /\ Follows(c, u, v) /\ \A i \in Range(v) : i[2] # c
        BY <2>2, <2>4, <3>1, <3>2, <4>1
      <4>3. Follows(c, s, v)
        BY <4>2, FollowsTwice
      <4> QED
        BY <4>1, <4>3
    <3>4. Names(s) = Names(e[q].kids) \cup {b}
      <4>1. Entry(b, c)[1] = b
        BY DEF Entry
      <4> QED
        BY <3>2, <4>1 DEF Names
    <3> QED
      BY <1>19, <2>1, <2>4, <3>2, <3>3, <3>4
  <2> QED
    BY <2>3, <2>4
<1>22. HangsTogether(Kids(r), left)
  <2>1. PICK K, L : K = Kids(d) /\ L = Kids(r)
    OBVIOUS
  <2>2. HangsTogether(K, left) /\ DOMAIN K = DOMAIN d /\ DOMAIN L = DOMAIN K
    BY <1>1, <1>16, <2>1 DEF PageTree, Kids
  <2>3. \A x \in DOMAIN K : L[x] = (K[x] \ {b}) \cup (IF x = q THEN {b} ELSE {})
    <3> TAKE x \in DOMAIN K
    <3>1. L[x] = Names(r[x].kids) /\ K[x] = Names(d[x].kids)
      BY <1>16, <2>1, <2>2, WhatIsListed DEF Names
    <3> QED
      BY <1>21, <2>2, <3>1
  <2>4. DownClosed(K, B) /\ b \in B
    BY <1>1, <2>1, DescendsToTheEnd DEF B
  <2>5. HangsTogether(L, left)
    <3>1. b \in DOMAIN K /\ PageBlock \in DOMAIN K /\ q \in DOMAIN K /\ q \notin B
      BY <1>1, <1>10, <1>11, <1>12, <2>2
    <3> QED
      BY <1>12, <2>2, <2>3, <2>4, <3>1, MovedHangs
  <2> QED
    BY <2>1, <2>5
<1>23. \A x, y \in OfFlavour(r, "surface") : x = y
  BY <1>16, <1>20 DEF OfFlavour, PageTree
<1>24. Grown(c, d, r, left)
  <2>1. PageTree(r, left)
    BY <1>1, <1>16, <1>17, <1>20, <1>21, <1>22, <1>23 DEF PageTree, IsPage, BlockRecords, ChildList
  <2>2. \A x \in DOMAIN r : Follows(c, r[x].kids, ListOf(d, x))
    BY <1>16, <1>21 DEF ListOf
  <2> QED
    BY <2>1, <2>2 DEF Grown
<1>25. Placed(c, r, b, p)
  <2>1. ChildList(e[at.parent].kids) /\ b \notin Names(e[at.parent].kids) /\ at.parent \in DOMAIN r
    BY <1>7, <1>11, <1>12, <1>13, <1>16
  <2>2. r[at.parent].kids = InsertAt(e[at.parent].kids, at.pos, Entry(b, c))
    BY <1>11, <1>14, <1>19
  <2> QED
    BY <1>8, <1>9, <2>1, <2>2, PutWhereAsked
<1>26. Placed(c, r, b, pl)
  <2>1. CASE NamesParent(pl)
    BY <1>25, <2>1 DEF WithCurrentParent
  <2>2. CASE ~NamesParent(pl)
    <3>1. pl.mode = "index"
      BY <1>4, <2>2 DEF IsPlacement
    <3>2. ParentsOf(r, b) # {}
      BY <1>25 DEF Placed, StandsAt
    <3>3. StandsAt(r, b, pl)
      BY <2>2, <3>1, <3>2 DEF StandsAt
    <3> QED
      BY <1>25, <3>3 DEF Placed
  <2> QED
    BY <2>1, <2>2
<1> QED
  BY <1>24, <1>26

(* applyMarkdownOperationsInternal: the second block is after the first.   *)
AfterFirst(c) == [mode |-> "after", ref |-> Fresh(c, "one")]

(* Two blocks of one call, the second after the first.                   *)
LEMMA SecondGrows ==
  ASSUME NEW c, NEW base, NEW d, NEW left, Grown(c, base, d, left), Fresh(c, "one") \notin DOMAIN d,
         Fresh(c, "two") \notin DOMAIN d,
         NEW t \in {"heading", "list", "paragraph"}, NEW u \in {"heading", "list", "paragraph"},
         NEW pl, IsPlacement(pl), ~NamesParent(pl) => MadeBy(c) \cap DOMAIN d = {},
         NEW e \in insertBlockIntoDoc(d, c, "one", t, FALSE, pl, TRUE),
         NEW r \in insertBlockIntoDoc(e, c, "two", u, FALSE, AfterFirst(c), TRUE)
  PROVE  Grown(c, base, r, left) /\ Placed(c, r, Fresh(c, "two"), AfterFirst(c))
<1>1. /\ BlockShape(t, FALSE).flavour # "surface" /\ ~BlockShape(t, FALSE).child
      /\ BlockShape(u, FALSE).flavour # "surface" /\ ~BlockShape(u, FALSE).child
  BY PlainBlocks
<1>2. /\ Grown(c, base, e, left)
      /\ DOMAIN e \subseteq DOMAIN d \cup {Fresh(c, "one"), Fresh(c, "text"), Fresh(c, "note"), Fresh(c, "empty"), Fresh(c, "surface")}
  BY <1>1, InsertGrows
<1>3. Fresh(c, "two") \notin {Fresh(c, "one"), Fresh(c, "text"), Fresh(c, "note"), Fresh(c, "empty"), Fresh(c, "surface")}
  BY FreshIds
<1>4. Fresh(c, "two") \notin DOMAIN e
  BY <1>2, <1>3
<1>5. PICK pm : pm = AfterFirst(c)
  OBVIOUS
<1>6. IsPlacement(pm) /\ NamesParent(pm)
  BY <1>5, PlacementsArePlacements DEF AfterFirst
<1>7. Grown(c, base, r, left) /\ Placed(c, r, Fresh(c, "two"), pm)
  BY <1>1, <1>2, <1>4, <1>5, <1>6, InsertGrows
<1> QED
  BY <1>5, <1>7

(* append_markdown and replace_doc_with_markdown.                        *)
LEMMA MarkdownGrows ==
  ASSUME NEW c, NEW d, NEW left, NothingBy(c, d), PageTree(d, left),
         NEW replaceExisting \in BOOLEAN, NEW pl, IsPlacement(pl),
         NEW r \in applyMarkdownOperations(d, c, replaceExisting, pl)
  PROVE  Grown(c, d, r, left) /\ Placed(c, r, Fresh(c, "two"), AfterFirst(c))
<1>1. PICK start, first :
        /\ start = IF replaceExisting THEN Emptied(d, c).doc ELSE d
        /\ first = IF replaceExisting THEN [mode |-> "append", ref |-> Emptied(d, c).note] ELSE pl
  OBVIOUS
<1>2. PICK e \in insertBlockIntoDoc(start, c, "one", "heading", FALSE, first, TRUE) :
        r \in insertBlockIntoDoc(e, c, "two", "list", FALSE, AfterFirst(c), TRUE)
  BY <1>1 DEF applyMarkdownOperations, AfterFirst
<1>3. Grown(c, d, d, left) /\ MadeBy(c) \cap DOMAIN d = {}
  BY GrownAsLoaded DEF NothingBy
<1>4. Grown(c, d, start, left) /\ DOMAIN start \subseteq DOMAIN d \cup {Fresh(c, "note"), Fresh(c, "empty")}
  <2>1. /\ Grown(c, d, Emptied(d, c).doc, left)
        /\ DOMAIN Emptied(d, c).doc \subseteq DOMAIN d \cup {Fresh(c, "note"), Fresh(c, "empty")}
    BY <1>3, EmptiedGrows
  <2> QED
    BY <1>1, <1>3, <2>1
<1>5. Fresh(c, "one") \notin DOMAIN start /\ Fresh(c, "two") \notin DOMAIN start
  <2>1. \A k \in {"one", "two"} : Fresh(c, k) \notin DOMAIN d /\ Fresh(c, k) \notin {Fresh(c, "note"), Fresh(c, "empty")}
    BY <1>3, FreshIds
  <2> QED
    BY <1>4, <2>1
<1>6. IsPlacement(first) /\ (~NamesParent(first) => MadeBy(c) \cap DOMAIN start = {})
  <2>1. CASE replaceExisting
    <3>1. IsPlacement(first) /\ NamesParent(first)
      BY <1>1, <2>1, PlacementsArePlacements
    <3> QED
      BY <3>1
  <2>2. CASE ~replaceExisting
    BY <1>1, <1>3, <2>2
  <2> QED
    BY <2>1, <2>2
<1> QED
  BY <1>2, <1>4, <1>5, <1>6, SecondGrows

(* appendSemanticSectionInternal. *)
LEMMA SectionGrows ==
  ASSUME NEW c, NEW d, NEW left, NothingBy(c, d), PageTree(d, left),
         NEW title, NEW r \in appendSection(d, c, title)
  PROVE  Grown(c, d, r, left) /\ Placed(c, r, Fresh(c, "two"), AfterFirst(c))
<1> DEFINE e == ensureNoteBlock(d, c)
           n == CHOOSE b \in OfFlavour(e, "note") : TRUE
           at == IF title = "none" THEN {Len(e[n].kids)}
                 ELSE {SectionEnd(e, n, h) : h \in {b \in Range(childIdsFrom(e, n)) \cap DOMAIN e : e[b].type = "heading"}}
           place(i) == [mode |-> "index", ref |-> n, index |-> i]
           next == AfterFirst(c)
<1>1. PICK i \in at :
        r \in UNION {insertBlockIntoDoc(f, c, "two", "paragraph", FALSE, next, TRUE) :
                       f \in insertBlockIntoDoc(e, c, "one", "heading", FALSE, place(i), TRUE)}
  BY DEF appendSection, AfterFirst
<1> HIDE DEF at
<1>2. Grown(c, d, d, left) /\ MadeBy(c) \cap DOMAIN d = {}
  BY GrownAsLoaded DEF NothingBy
<1>3. /\ Grown(c, d, e, left) /\ DOMAIN e \subseteq DOMAIN d \cup {Fresh(c, "note"), Fresh(c, "empty")}
      /\ OfFlavour(e, "note") # {}
  BY <1>2, NoteGrows
<1>4. n \in DOMAIN e
  <2>1. n \in OfFlavour(e, "note")
    BY <1>3
  <2> QED
    BY <2>1 DEF OfFlavour
<1> HIDE DEF e, n, next
<1>7. PICK pl : pl = [mode |-> "index", ref |-> n, index |-> i]
  OBVIOUS
<1>8. PICK f \in insertBlockIntoDoc(e, c, "one", "heading", FALSE, pl, TRUE) :
        r \in insertBlockIntoDoc(f, c, "two", "paragraph", FALSE, AfterFirst(c), TRUE)
  BY <1>1, <1>7 DEF next
<1>9. i \in Nat
  <2>1. ChildList(e[n].kids)
    BY <1>3, <1>4, TreesHaveLists DEF Grown
  <2>2. Len(e[n].kids) \in Nat /\ DOMAIN e[n].kids = 1..Len(e[n].kids)
    BY <2>1, EntriesDiffer
  <2>3. /\ \A j \in DOMAIN e[n].kids : indexOfChild(childIdsFrom(e, n), e[n].kids[j][1]) = j
        /\ \A b \in Names(e[n].kids) : \E j \in DOMAIN e[n].kids : b = e[n].kids[j][1]
        /\ Len(childIdsFrom(e, n)) = Len(e[n].kids) /\ Range(childIdsFrom(e, n)) = Names(e[n].kids)
    BY <2>1, IndexOfEntry
  <2>4. CASE title = "none"
    BY <1>1, <2>2, <2>4 DEF at
  <2>5. CASE title # "none"
    <3>1. PICK h \in Range(childIdsFrom(e, n)) : i = SectionEnd(e, n, h)
      BY <1>1, <2>5 DEF at
    <3>2. PICK j \in DOMAIN e[n].kids : h = e[n].kids[j][1]
      BY <2>3
    <3>3. PICK kids, heads :
            /\ kids = childIdsFrom(e, n)
            /\ heads = {x \in j + 1..Len(childIdsFrom(e, n)) :
                         childIdsFrom(e, n)[x] \in DOMAIN e /\ e[childIdsFrom(e, n)[x]].type = "heading"}
      OBVIOUS
    <3>4. indexOfChild(kids, h) = j /\ j \in Nat /\ Len(kids) \in Nat
      BY <2>2, <2>3, <3>2, <3>3
    <3>5. i = IF heads = {} THEN Len(kids) ELSE (CHOOSE x \in heads : \A y \in heads : x <= y) - 1
      BY <3>1, <3>3, <3>4 DEF SectionEnd
    <3>6. heads \in SUBSET (Nat \ {0})
      BY <3>3, <3>4
    <3>7. CASE heads = {}
      BY <3>4, <3>5, <3>7
    <3>8. CASE heads # {}
      <4>1. heads \in SUBSET Nat
        BY <3>6
      <4>2. \E x \in heads : \A y \in heads : x <= y
        BY <3>8, <4>1, LeastNumber
      <4>3. PICK m : m = CHOOSE x \in heads : \A y \in heads : x <= y
        OBVIOUS
      <4>4. m \in heads
        BY <4>2, <4>3
      <4>5. m \in Nat /\ m # 0 /\ i = m - 1
        BY <3>5, <3>6, <3>8, <4>3, <4>4
      <4> QED
        BY <4>5
    <3> QED
      BY <3>7, <3>8
  <2> QED
    BY <2>4, <2>5
<1>10. IsPlacement(pl) /\ NamesParent(pl)
  BY <1>7, <1>9, PlacementsArePlacements
<1>11. Fresh(c, "one") \notin DOMAIN e /\ Fresh(c, "two") \notin DOMAIN e
  <2>1. \A k \in {"one", "two"} : Fresh(c, k) \notin DOMAIN d /\ Fresh(c, k) \notin {Fresh(c, "note"), Fresh(c, "empty")}
    BY <1>2, FreshIds
  <2> QED
    BY <1>3, <2>1
<1> QED
  BY <1>3, <1>8, <1>10, <1>11, SecondGrows

(* applyPatchOperations. *)
LEMMA PatchGrows ==
  ASSUME NEW c, NEW d, NEW left, NothingBy(c, d), PageTree(d, left),
         NEW p, NEW anchor, NEW b, NEW r \in applyPatchOperations(d, c, p, anchor, b)
  PROVE  Grown(c, d, r, left)
<1>1. PICK e \in PatchInserted(d, c, p, anchor) : b \in DOMAIN e /\ r \in PatchDeleted(e, b)
  BY DEF applyPatchOperations
<1>2. PICK pl : pl = [mode |-> "after", ref |-> anchor]
  OBVIOUS
<1>3. e \in insertBlockIntoDoc(d, c, "one", "paragraph", FALSE, pl, TRUE)
  BY <1>2 DEF PatchInserted
<1>4. IsPlacement(pl) /\ NamesParent(pl)
  BY <1>2, PlacementsArePlacements
<1>5. Grown(c, d, d, left) /\ Fresh(c, "one") \notin DOMAIN d
  BY GrownAsLoaded, FreshIds DEF NothingBy
<1>6. BlockShape("paragraph", FALSE).flavour # "surface" /\ ~BlockShape("paragraph", FALSE).child
  BY PlainBlocks
<1>7. Grown(c, d, e, left)
  BY <1>3, <1>4, <1>5, <1>6, InsertGrows
<1>8. r \in deleteBlockInDoc(e, b, TRUE, TRUE)
  BY <1>1 DEF PatchDeleted
<1>9. Grown(c, d, r, IF TRUE THEN left ELSE left \cup Range(childIdsFrom(e, b)))
  BY <1>1, <1>7, <1>8, DeleteGrows
<1> QED
  BY <1>9

-----------------------------------------------------------------------------
(* Pages on which the blocks both have are of the same flavours. *)
Agree(d, e) == \A b \in DOMAIN d \cap DOMAIN e : d[b].flavour = e[b].flavour

(* An update merged in whatever order brings no type that does not fit.    *)
LEMMA MergedKept ==
  ASSUME NEW now, NEW base, NEW made, BlockRecords(now), BlockRecords(made), Agree(now, made)
  PROVE  /\ BlockRecords(BlockMerge(now, base, made))
         /\ DOMAIN BlockMerge(now, base, made) \subseteq DOMAIN now \cup DOMAIN made
         /\ \A d : Agree(now, d) /\ Agree(made, d) => Agree(BlockMerge(now, base, made), d)
<1> DEFINE gone == DOMAIN base \ DOMAIN made
           new == DOMAIN made \ DOMAIN base
           type(b) == IF made[b].type # base[b].type THEN made[b].type ELSE now[b].type
           kids(b) == MergedList(now[b].kids, base[b].kids, made[b].kids)
           r == BlockMerge(now, base, made)
<1>1. IsMap(r) /\ DOMAIN r = (DOMAIN now \ gone) \cup new
  BY DEF BlockMerge, IsMap
<1>2. \A b \in DOMAIN r :
        IF b \in new THEN r[b] = made[b]
        ELSE IF b \notin DOMAIN base THEN r[b] = now[b]
        ELSE r[b] = Block(now[b].flavour, type(b), kids(b))
  BY DEF BlockMerge
<1> HIDE DEF r, type, kids
<1>3. ASSUME NEW b \in DOMAIN r
      PROVE  /\ r[b] = Block(r[b].flavour, r[b].type, r[b].kids)
             /\ r[b].type # "none" => r[b].type \in EditTypes(r[b].flavour)
             /\ \/ b \in DOMAIN made /\ r[b].flavour = made[b].flavour
                \/ b \in DOMAIN now /\ r[b].flavour = now[b].flavour
  <2>1. CASE b \in new
    BY <1>2, <2>1 DEF BlockRecords, TypesFit
  <2>2. CASE b \notin new /\ b \notin DOMAIN base
    BY <1>1, <1>2, <2>2 DEF BlockRecords, TypesFit
  <2>3. CASE b \notin new /\ b \in DOMAIN base
    <3>1. b \in DOMAIN now /\ b \in DOMAIN made
      BY <1>1, <2>3
    <3>2. r[b] = Block(now[b].flavour, type(b), kids(b))
      BY <1>2, <2>3
    <3>3. r[b].flavour = now[b].flavour /\ r[b].type = type(b) /\ r[b].kids = kids(b)
      <4>1. PICK x, f, t, l : x = r[b] /\ f = now[b].flavour /\ t = type(b) /\ l = kids(b)
        OBVIOUS
      <4>2. x = Block(f, t, l)
        BY <3>2, <4>1
      <4>3. x.flavour = f /\ x.type = t /\ x.kids = l
        BY <4>2 DEF Block
      <4> QED
        BY <4>1, <4>3
    <3>4. type(b) \in {made[b].type, now[b].type} /\ made[b].flavour = now[b].flavour
      BY <3>1 DEF type, Agree
    <3> QED
      BY <3>1, <3>2, <3>3, <3>4 DEF BlockRecords, TypesFit
  <2> QED
    BY <2>1, <2>2, <2>3
<1>4. BlockRecords(r)
  BY <1>1, <1>3 DEF BlockRecords, TypesFit
<1>5. DOMAIN r \subseteq DOMAIN now \cup DOMAIN made
  BY <1>1
<1>6. ASSUME NEW d, Agree(now, d), Agree(made, d) PROVE Agree(r, d)
  BY <1>3, <1>6 DEF Agree
<1> QED
  BY <1>4, <1>5, <1>6 DEF r

(* Merged into the page it was computed from, it gives what was made.      *)
LEMMA BlocksMergeInPlace ==
  ASSUME NEW c, NEW base, NEW made, NEW left, NEW later,
         PageTree(base, left), Grown(c, base, made, later), Agree(base, made)
  PROVE  BlockMerge(base, base, made) = made
<1> DEFINE gone == DOMAIN base \ DOMAIN made
           new == DOMAIN made \ DOMAIN base
           other(b) == Block(base[b].flavour, IF made[b].type # base[b].type THEN made[b].type ELSE base[b].type,
                             MergedList(base[b].kids, base[b].kids, made[b].kids))
           r == BlockMerge(base, base, made)
<1>1. IsMap(r) /\ DOMAIN r = (DOMAIN base \ gone) \cup new
  BY DEF BlockMerge, IsMap
<1>2. \A b \in DOMAIN r :
        IF b \in new THEN r[b] = made[b]
        ELSE IF b \notin DOMAIN base THEN r[b] = base[b]
        ELSE r[b] = other(b)
  BY DEF BlockMerge
<1> HIDE DEF r
<1>3. DOMAIN r = DOMAIN made
  BY <1>1
<1>4. /\ \A b \in DOMAIN base : ChildList(base[b].kids)
      /\ \A b \in DOMAIN made : ChildList(made[b].kids)
      /\ BlockRecords(made)
  BY TreesHaveLists DEF Grown
<1>5. ASSUME NEW b \in DOMAIN made PROVE r[b] = made[b]
  <2>1. CASE b \in new
    BY <1>2, <1>3, <2>1
  <2>2. CASE b \notin new
    <3>1. b \in DOMAIN base /\ r[b] = other(b)
      BY <1>2, <1>3, <2>2
    <3>2. Ordered(made[b].kids, base[b].kids)
      BY <3>1 DEF Grown, Follows, ListOf
    <3>3. MergedList(base[b].kids, base[b].kids, made[b].kids) = made[b].kids
      BY <1>4, <3>1, <3>2, ChildListMerges
    <3>4. base[b].flavour = made[b].flavour
      BY <3>1 DEF Agree
    <3>5. (IF made[b].type # base[b].type THEN made[b].type ELSE base[b].type) = made[b].type
      OBVIOUS
    <3>6. other(b) = Block(made[b].flavour, made[b].type, made[b].kids)
      BY <3>3, <3>4, <3>5
    <3> HIDE DEF other
    <3> QED
      BY <1>4, <3>1, <3>6 DEF BlockRecords
  <2> QED
    BY <2>1, <2>2
<1>6. IsMap(made)
  BY <1>4 DEF BlockRecords
<1>7. r = made
  BY <1>1, <1>3, <1>5, <1>6 DEF IsMap
<1> QED
  BY <1>7 DEF r

(* What was left stays so. *)
LEMMA StillHangs ==
  ASSUME NEW left, NEW more, left \subseteq more
  PROVE  /\ \A d : PageTree(d, left) => PageTree(d, more)
         /\ \A c, d, r : Grown(c, d, r, left) => Grown(c, d, r, more)
<1>1. \A K : HangsTogether(K, left) => HangsTogether(K, more)
  BY DEF HangsTogether
<1>2. \A d : PageTree(d, left) => PageTree(d, more)
  BY <1>1 DEF PageTree
<1> QED
  BY <1>2 DEF Grown

(* The ids of two calls differ, and what one makes has nothing of others.  *)
LEMMA CallsMakeTheirOwn ==
  ASSUME NEW c, NEW k, c # k
  PROVE  /\ MadeBy(c) \cap MadeBy(k) = {}
         /\ \A d, r, left : Grown(c, d, r, left) /\ Kept(c, d, r) /\ NothingBy(k, d) => NothingBy(k, r)
<1>1. MadeBy(c) \cap MadeBy(k) = {}
  BY DEF MadeBy, Fresh
<1>2. ASSUME NEW d, NEW r, NEW left, Grown(c, d, r, left), Kept(c, d, r), NothingBy(k, d) PROVE NothingBy(k, r)
  <2> SUFFICES ASSUME NEW b \in DOMAIN r PROVE b \notin MadeBy(k) /\ \A e \in Range(r[b].kids) : e[2] # k
    BY DEF NothingBy
  <2>1. b \notin MadeBy(k)
    BY <1>1, <1>2 DEF Kept, FlavoursKept, NothingBy
  <2>2. ASSUME NEW e \in Range(r[b].kids) PROVE e[2] # k
    <3>1. CASE e[2] = c
      BY <3>1
    <3>2. CASE e[2] # c
      <4>1. e \in Range(ListOf(d, b))
        BY <1>2, <3>2 DEF Grown, Follows
      <4>2. b \in DOMAIN d /\ e \in Range(d[b].kids)
        BY <4>1 DEF ListOf, Range
      <4> QED
        BY <1>2, <4>2 DEF NothingBy
    <3> QED
      BY <3>1, <3>2
  <2> QED
    BY <2>1, <2>2
<1> QED
  BY <1>1, <1>2

-----------------------------------------------------------------------------
(* As long as every update is merged into the page it was made from, it    *)
(* gives just what was made; in whatever order they are merged, no two     *)
(* pages have a block with two flavours.                                   *)
BlocksLanded == {c \in BlockCalls : bPhase[c] \in {"merged", "late"}}
BlocksAwaited == {c \in BlockCalls : bPhase[c] \in {"sent", "lost"}}
BlockPhases == {"idle", "sent", "merged", "refused", "lost", "late"}

OnlyBy(calls, d) == \A k \in BlockCalls \ calls : NothingBy(k, d)
BlockUpdateFits(c) ==
  /\ OnlyBy(BlocksLanded, bUpdate[c].base)
  /\ Grown(c, bUpdate[c].base, bUpdate[c].made, bLeft)
  /\ OnlyBy(BlocksLanded \cup {c}, bUpdate[c].made)
  /\ \A a \in bUpdate[c].asked : Placed(c, bUpdate[c].made, a.block, a.placement)

OneEditAtWork ==
  \A c \in BlockCalls : \A o \in BlockCalls \ {c} : bPhase[c] = "sent" =>
    bPhase[o] # "sent" /\ (bPhase[o] = "merged" => bUpdate[o].asked = {})

BlocksInOrder ==
  /\ PageTree(bDoc, bLeft) /\ OnlyBy(BlocksLanded, bDoc)
  /\ \A c \in BlocksAwaited : BlockUpdateFits(c)
  /\ \A c \in BlockCalls : bPhase[c] = "merged" =>
       \A a \in bUpdate[c].asked : Placed(c, bDoc, a.block, a.placement)
  /\ \A c \in BlockCalls : \A o \in BlocksAwaited \ {c} :
       bPhase[c] \in {"sent", "merged"} /\ bUpdate[c].asked # {} => NothingBy(c, bUpdate[o].base)

Unmade(c, d) == MadeBy(c) \cap DOMAIN d = {}
BlocksAnyOrder ==
  /\ BlockRecords(bDoc)
  /\ \A o \in BlocksAwaited : BlockRecords(bUpdate[o].made) /\ Agree(bDoc, bUpdate[o].made)
  /\ \A o, k \in BlocksAwaited : Agree(bUpdate[o].made, bUpdate[k].made)
  /\ \A c \in BlockCalls : bPhase[c] = "idle" =>
       Unmade(c, bDoc) /\ \A o \in BlocksAwaited : Unmade(c, bUpdate[o].made)

BlockInv ==
  /\ bPhase \in [BlockCalls -> BlockPhases]
  /\ DOMAIN bUpdate = BlockCalls
  /\ bStale \in BOOLEAN
  /\ OneEditAtWork
  /\ BlocksAnyOrder
  /\ ~bStale => BlocksInOrder

(* The invariant holds of the page the calls start from. *)
LEMMA BlocksStart == BlockInit => BlockInv
<1> SUFFICES ASSUME BlockInit PROVE BlockInv
  OBVIOUS
<1>1. /\ bDoc \in StartPages /\ bLeft = {} /\ bStale = FALSE
      /\ bPhase = [c \in BlockCalls |-> "idle"]
      /\ DOMAIN bUpdate = BlockCalls
  BY DEF BlockInit, BU!UpdatesInit
<1>2. IsPage(bDoc) /\ TypesFit(bDoc) /\ OneTree(bDoc, bLeft) /\ \A c \in BlockCalls : NothingBy(c, bDoc)
  BY <1>1, BlockAssumption
<1>3. PageTree(bDoc, bLeft)
  BY <1>2, OneTreeByClosedSets
<1>4. BlockRecords(bDoc)
  BY <1>3, TreesHaveLists
<1>5. \A c \in BlockCalls : Unmade(c, bDoc)
  BY <1>2 DEF NothingBy, Unmade
<1> QED
  BY <1>1, <1>2, <1>3, <1>4, <1>5 DEF BlockInv, OneEditAtWork, BlocksAnyOrder, BlocksInOrder, BlocksAwaited, BlockPhases, OnlyBy

(* A handler that makes a page fit, or throws, keeps the invariant.        *)
BlockStep(c, r, asked) ==
  /\ BlockRecords(bDoc) => Kept(c, bDoc, r)
  /\ NothingBy(c, bDoc) /\ PageTree(bDoc, bLeft) =>
       /\ Grown(c, bDoc, r, bLeft')
       /\ \A a \in asked : Placed(c, r, a.block, a.placement)

(* A handler's step keeps the invariant.                                 *)
LEMMA BlockHandlerKeeps ==
  ASSUME BlockInv, NEW c \in BlockCalls, NEW results, NEW asked, BU!Handled(c, results, asked),
         bLeft \subseteq bLeft',
         \A made \in results : BlockStep(c, made, asked)
  PROVE  BlockInv'
<1>1. /\ bPhase[c] = "idle" /\ \A o \in BlockCalls : bPhase[o] # "sent"
      /\ bDoc' = bDoc /\ bStale' = bStale
      /\ bPhase \in [BlockCalls -> BlockPhases] /\ DOMAIN bUpdate = BlockCalls /\ bStale \in BOOLEAN
      /\ BlocksAnyOrder
      /\ ~bStale => BlocksInOrder
  BY DEF BU!Handled, BlockInv
<1>0. /\ \A d : PageTree(d, bLeft) => PageTree(d, bLeft')
      /\ \A k, d, r : Grown(k, d, r, bLeft) => Grown(k, d, r, bLeft')
  BY StillHangs
<1>2. CASE bPhase' = [bPhase EXCEPT ![c] = "refused"] /\ bUpdate' = bUpdate
  <2>1. /\ bPhase' \in [BlockCalls -> BlockPhases] /\ DOMAIN bUpdate' = BlockCalls
        /\ \A o \in BlockCalls : bPhase'[o] = IF o = c THEN "refused" ELSE bPhase[o]
    BY <1>1, <1>2 DEF BlockPhases
  <2>2. BlocksLanded' = BlocksLanded /\ BlocksAwaited' = BlocksAwaited
    BY <1>1, <2>1 DEF BlocksLanded, BlocksAwaited
  <2>3. OneEditAtWork'
    BY <1>1, <2>1 DEF OneEditAtWork
  <2>4. BlocksAnyOrder'
    BY <1>1, <1>2, <2>1, <2>2 DEF BlocksAnyOrder
  <2>5. ASSUME ~bStale PROVE BlocksInOrder'
    <3>1. BlocksInOrder
      BY <1>1, <2>5
    <3>2. PageTree(bDoc, bLeft') /\ OnlyBy(BlocksLanded, bDoc)
      BY <1>0, <3>1 DEF BlocksInOrder
    <3>3. ASSUME NEW o \in BlocksAwaited PROVE BlockUpdateFits(o)'
      <4>1. BlockUpdateFits(o)
        BY <3>1 DEF BlocksInOrder
      <4>2. Grown(o, bUpdate[o].base, bUpdate[o].made, bLeft')
        BY <1>0, <4>1 DEF BlockUpdateFits
      <4> QED
        BY <1>2, <2>2, <4>1, <4>2 DEF BlockUpdateFits
    <3>4. \A o \in BlockCalls : bPhase'[o] \in {"sent", "merged"} => bPhase[o] \in {"sent", "merged"}
                                  /\ (bPhase'[o] = "merged" => bPhase[o] = "merged")
      BY <2>1
    <3>5. \A o \in BlockCalls : bPhase'[o] = "merged" => \A a \in bUpdate[o].asked : Placed(o, bDoc, a.block, a.placement)
      BY <3>1, <3>4 DEF BlocksInOrder
    <3>6. \A k \in BlockCalls : \A o \in BlocksAwaited \ {k} :
            bPhase'[k] \in {"sent", "merged"} /\ bUpdate[k].asked # {} => NothingBy(k, bUpdate[o].base)
      BY <3>1, <3>4 DEF BlocksInOrder
    <3> QED
      BY <1>1, <1>2, <2>2, <3>2, <3>3, <3>5, <3>6 DEF BlocksInOrder
  <2> QED
    BY <1>1, <2>1, <2>3, <2>4, <2>5 DEF BlockInv
<1>3. ASSUME NEW r \in results, bPhase' = [bPhase EXCEPT ![c] = "sent"],
             bUpdate' = [o \in BlockCalls |->
                IF o = c THEN [base |-> bDoc, made |-> r, asked |-> asked]
                ELSE IF bPhase[o] = "lost" THEN bUpdate[o] ELSE BU!Nothing]
      PROVE  BlockInv'
  <2>1. /\ bPhase' \in [BlockCalls -> BlockPhases] /\ DOMAIN bUpdate' = BlockCalls
        /\ \A o \in BlockCalls : bPhase'[o] = IF o = c THEN "sent" ELSE bPhase[o]
    BY <1>1, <1>3 DEF BlockPhases
  <2>2. /\ bUpdate'[c].base = bDoc /\ bUpdate'[c].made = r /\ bUpdate'[c].asked = asked
        /\ \A o \in BlockCalls \ {c} : bPhase[o] = "lost" => bUpdate'[o] = bUpdate[o]
        /\ \A o \in BlockCalls \ {c} : bPhase[o] # "lost" => bUpdate'[o].asked = {}
    BY <1>3 DEF BU!Nothing
  <2>3. BlocksLanded' = BlocksLanded /\ BlocksAwaited' = BlocksAwaited \cup {c} /\ c \notin BlocksAwaited \cup BlocksLanded
        /\ \A o \in BlocksAwaited : bPhase[o] = "lost" /\ bUpdate'[o] = bUpdate[o]
    <3>1. BlocksLanded' = BlocksLanded /\ BlocksAwaited' = BlocksAwaited \cup {c} /\ c \notin BlocksAwaited \cup BlocksLanded
          /\ \A o \in BlocksAwaited : bPhase[o] = "lost" /\ o \in BlockCalls \ {c}
      BY <1>1, <2>1 DEF BlocksLanded, BlocksAwaited
    <3> QED
      BY <2>2, <3>1
  <2>4. OneEditAtWork'
    BY <1>1, <2>1, <2>2 DEF OneEditAtWork
  <2>5. BlockStep(c, r, asked) /\ BlockRecords(bDoc) /\ Kept(c, bDoc, r)
    BY <1>1 DEF BlocksAnyOrder, BlockStep
  <2>6. BlocksAnyOrder'
    <3>1. /\ BlockRecords(r) /\ DOMAIN r \subseteq DOMAIN bDoc \cup MadeBy(c)
          /\ \A b \in (DOMAIN r \cap DOMAIN bDoc) \ MadeBy(c) : r[b].flavour = bDoc[b].flavour
      BY <2>5 DEF Kept, FlavoursKept
    <3>2. Unmade(c, bDoc) /\ \A o \in BlocksAwaited : Unmade(c, bUpdate[o].made)
      BY <1>1 DEF BlocksAnyOrder
    <3>3. Agree(bDoc, r) /\ Agree(r, r)
      BY <3>1, <3>2 DEF Agree, Unmade
    <3>4. ASSUME NEW o \in BlocksAwaited
          PROVE  /\ BlockRecords(bUpdate[o].made) /\ Agree(bDoc, bUpdate[o].made)
                 /\ Agree(r, bUpdate[o].made) /\ Agree(bUpdate[o].made, r)
      <4>1. BlockRecords(bUpdate[o].made) /\ Agree(bDoc, bUpdate[o].made)
        BY <1>1 DEF BlocksAnyOrder
      <4>2. PICK m : m = bUpdate[o].made
        OBVIOUS
      <4>3. Agree(bDoc, m) /\ Unmade(c, m)
        BY <3>2, <4>1, <4>2
      <4>4. Agree(r, m) /\ Agree(m, r)
        BY <3>1, <4>3 DEF Agree, Unmade
      <4> QED
        BY <4>1, <4>2, <4>4
    <3>5. ASSUME NEW k \in BlockCalls, bPhase'[k] = "idle"
          PROVE  Unmade(k, bDoc) /\ Unmade(k, r) /\ \A o \in BlocksAwaited : Unmade(k, bUpdate[o].made)
      <4>1. k # c /\ bPhase[k] = "idle"
        BY <1>1, <2>1, <3>5
      <4>2. MadeBy(c) \cap MadeBy(k) = {}
        BY <4>1, CallsMakeTheirOwn
      <4>3. Unmade(k, bDoc) /\ \A o \in BlocksAwaited : Unmade(k, bUpdate[o].made)
        BY <1>1, <4>1 DEF BlocksAnyOrder
      <4> QED
        BY <3>1, <4>2, <4>3 DEF Unmade
    <3>6. \A o \in BlocksAwaited' : BlockRecords(bUpdate'[o].made) /\ Agree(bDoc, bUpdate'[o].made)
      BY <2>2, <2>3, <3>1, <3>3, <3>4
    <3>7. \A o, k \in BlocksAwaited' : Agree(bUpdate'[o].made, bUpdate'[k].made)
      <4>1. \A o, k \in BlocksAwaited : Agree(bUpdate[o].made, bUpdate[k].made)
        BY <1>1 DEF BlocksAnyOrder
      <4> QED
        BY <2>2, <2>3, <3>3, <3>4, <4>1
    <3>8. \A k \in BlockCalls : bPhase'[k] = "idle" =>
            Unmade(k, bDoc) /\ \A o \in BlocksAwaited' : Unmade(k, bUpdate'[o].made)
      BY <2>2, <2>3, <3>5
    <3> QED
      BY <1>1, <2>5, <3>6, <3>7, <3>8 DEF BlocksAnyOrder
  <2>7. ASSUME ~bStale PROVE BlocksInOrder'
    <3>1. BlocksInOrder
      BY <1>1, <2>7
    <3>2. PageTree(bDoc, bLeft) /\ OnlyBy(BlocksLanded, bDoc) /\ NothingBy(c, bDoc)
      BY <2>3, <3>1 DEF BlocksInOrder, OnlyBy
    <3>3. Grown(c, bDoc, r, bLeft') /\ \A a \in asked : Placed(c, r, a.block, a.placement)
      BY <2>5, <3>2 DEF BlockStep
    <3>4. PageTree(bDoc, bLeft')
      BY <1>0, <3>2
    <3>5. BlockUpdateFits(c)'
      <4>1. OnlyBy(BlocksLanded \cup {c}, r)
        <5> SUFFICES ASSUME NEW k \in BlockCalls \ (BlocksLanded \cup {c}) PROVE NothingBy(k, r)
          BY DEF OnlyBy
        <5>1. NothingBy(k, bDoc) /\ k # c
          BY <3>2 DEF OnlyBy
        <5>2. PICK d, l : d = bDoc /\ l = bLeft'
          OBVIOUS
        <5>3. Grown(c, d, r, l) /\ Kept(c, d, r) /\ NothingBy(k, d)
          BY <2>5, <3>3, <5>1, <5>2
        <5> QED
          BY <5>1, <5>3, CallsMakeTheirOwn
      <4> QED
        BY <2>2, <2>3, <3>2, <3>3, <4>1 DEF BlockUpdateFits
    <3>6. ASSUME NEW o \in BlocksAwaited PROVE BlockUpdateFits(o)' /\ NothingBy(c, bUpdate[o].base)
      <4>1. BlockUpdateFits(o)
        BY <3>1 DEF BlocksInOrder
      <4>2. bUpdate'[o] = bUpdate[o]
        BY <2>3
      <4>3. Grown(o, bUpdate[o].base, bUpdate[o].made, bLeft')
        BY <1>0, <4>1 DEF BlockUpdateFits
      <4>4. NothingBy(c, bUpdate[o].base)
        BY <2>3, <4>1 DEF BlockUpdateFits, OnlyBy
      <4> QED
        BY <2>3, <4>1, <4>2, <4>3, <4>4 DEF BlockUpdateFits
    <3>7. \A o \in BlockCalls : bPhase'[o] = "merged" => bUpdate'[o].asked = {}
      BY <2>1, <2>2
    <3>8. ASSUME NEW k \in BlockCalls, NEW o \in BlocksAwaited' \ {k}, bPhase'[k] \in {"sent", "merged"},
                 bUpdate'[k].asked # {}
          PROVE  NothingBy(k, bUpdate'[o].base)
      <4>1. k = c
        BY <1>1, <2>1, <3>7, <3>8
      <4>2. o \in BlocksAwaited
        BY <2>3, <3>8, <4>1
      <4> QED
        BY <2>3, <3>6, <4>1, <4>2
    <3> QED
      BY <1>1, <2>3, <3>2, <3>4, <3>5, <3>6, <3>7, <3>8 DEF BlocksInOrder
  <2> QED
    BY <1>1, <2>1, <2>4, <2>6, <2>7 DEF BlockInv
<1> QED
  BY <1>2, <1>3 DEF BU!Handled

(* Merges and lost acknowledgements keep the invariant. *)
LEMMA BlockMergeKeeps ==
  ASSUME BlockInv, NEW c \in BlockCalls, BU!MergeUpdate(c), UNCHANGED bLeft
  PROVE  BlockInv'
<1>1. /\ c \in BlocksAwaited /\ bPhase[c] \in {"sent", "lost"} /\ bUpdate' = bUpdate /\ bLeft' = bLeft
      /\ bDoc' = BlockMerge(bDoc, bUpdate[c].base, bUpdate[c].made)
      /\ bStale' = (bStale \/ bDoc # bUpdate[c].base)
      /\ bPhase \in [BlockCalls -> BlockPhases] /\ DOMAIN bUpdate = BlockCalls /\ bStale \in BOOLEAN
      /\ OneEditAtWork /\ BlocksAnyOrder
  BY DEF BU!MergeUpdate, BlockInv, BlocksAwaited
<1>2. /\ bPhase' \in [BlockCalls -> BlockPhases]
      /\ \A o \in BlockCalls : bPhase'[o] = IF o # c THEN bPhase[o]
                                              ELSE IF bPhase[c] = "sent" THEN "merged" ELSE "late"
  BY <1>1 DEF BU!MergeUpdate, BlockPhases
<1>3. BlocksLanded' = BlocksLanded \cup {c} /\ BlocksAwaited' = BlocksAwaited \ {c}
  BY <1>1, <1>2 DEF BlocksLanded, BlocksAwaited
<1>4. OneEditAtWork'
  BY <1>1, <1>2 DEF OneEditAtWork
<1>5. bStale' \in BOOLEAN
  BY <1>1
<1>6. BlocksAnyOrder'
  <2>1. PICK now, made : now = bDoc /\ made = bUpdate[c].made
    OBVIOUS
  <2>2. BlockRecords(now) /\ BlockRecords(made) /\ Agree(now, made)
    BY <1>1, <2>1 DEF BlocksAnyOrder
  <2>3. PICK r : r = BlockMerge(now, bUpdate[c].base, made)
    OBVIOUS
  <2>4. /\ BlockRecords(r) /\ DOMAIN r \subseteq DOMAIN now \cup DOMAIN made
        /\ \A d : Agree(now, d) /\ Agree(made, d) => Agree(r, d)
    BY <2>2, <2>3, MergedKept
  <2>5. bDoc' = r
    BY <1>1, <2>1, <2>3
  <2>6. \A o \in BlocksAwaited : BlockRecords(bUpdate[o].made) /\ Agree(r, bUpdate[o].made)
    BY <1>1, <2>1, <2>4 DEF BlocksAnyOrder
  <2>7. \A k \in BlockCalls : bPhase'[k] = "idle" =>
          Unmade(k, r) /\ \A o \in BlocksAwaited : Unmade(k, bUpdate[o].made)
    <3> TAKE k \in BlockCalls
    <3>1. bPhase'[k] = "idle" => bPhase[k] = "idle"
      BY <1>2
    <3>2. bPhase[k] = "idle" => Unmade(k, now) /\ Unmade(k, made) /\ \A o \in BlocksAwaited : Unmade(k, bUpdate[o].made)
      BY <1>1, <2>1 DEF BlocksAnyOrder
    <3> QED
      BY <2>4, <3>1, <3>2 DEF Unmade
  <2>8. \A o, k \in BlocksAwaited : Agree(bUpdate[o].made, bUpdate[k].made)
    BY <1>1 DEF BlocksAnyOrder
  <2> QED
    BY <1>1, <1>3, <2>4, <2>5, <2>6, <2>7, <2>8 DEF BlocksAnyOrder
<1>7. ASSUME ~bStale' PROVE BlocksInOrder'
  <2>1. bDoc = bUpdate[c].base /\ BlocksInOrder
    BY <1>1, <1>7 DEF BlockInv
  <2>2. BlockUpdateFits(c) /\ PageTree(bDoc, bLeft) /\ Agree(bDoc, bUpdate[c].made)
    BY <1>1, <2>1 DEF BlocksInOrder, BlocksAnyOrder
  <2>3. bDoc' = bUpdate[c].made
    <3>1. PICK base, made, left : base = bDoc /\ made = bUpdate[c].made /\ left = bLeft
      OBVIOUS
    <3>2. PageTree(base, left) /\ Grown(c, base, made, left) /\ Agree(base, made)
      BY <2>1, <2>2, <3>1 DEF BlockUpdateFits
    <3>3. BlockMerge(base, base, made) = made
      BY <3>2, BlocksMergeInPlace
    <3> QED
      BY <1>1, <2>1, <3>1, <3>3
  <2>4. ASSUME NEW o \in BlockCalls, bPhase'[o] = "merged", NEW a \in bUpdate[o].asked
        PROVE  Placed(o, bUpdate[c].made, a.block, a.placement)
    <3>1. CASE o = c
      BY <2>2, <2>4, <3>1 DEF BlockUpdateFits
    <3>2. CASE o # c
      <4>1. bPhase[o] = "merged"
        BY <1>2, <2>4, <3>2
      <4>2. Listing(o, bDoc)
        BY <2>1, <2>4, <4>1 DEF BlocksInOrder, Placed
      <4>3. NothingBy(o, bUpdate[c].base)
        BY <1>1, <2>1, <2>4, <3>2, <4>1 DEF BlocksInOrder
      <4> QED
        BY <2>1, <4>2, <4>3 DEF Listing, NothingBy
    <3> QED
      BY <3>1, <3>2
  <2>5. ASSUME NEW o \in BlocksAwaited \ {c} PROVE BlockUpdateFits(o)'
    <3>1. BlockUpdateFits(o)
      BY <2>1 DEF BlocksInOrder
    <3> QED
      BY <1>1, <1>3, <3>1 DEF BlockUpdateFits, OnlyBy
  <2>6. ASSUME NEW k \in BlockCalls, NEW o \in (BlocksAwaited \ {c}) \ {k}, bPhase'[k] \in {"sent", "merged"},
               bUpdate[k].asked # {}
        PROVE  NothingBy(k, bUpdate[o].base)
    <3>1. CASE bPhase[k] \in {"sent", "merged"}
      BY <2>1, <2>6, <3>1 DEF BlocksInOrder
    <3>2. CASE bPhase[k] \notin {"sent", "merged"}
      BY <1>2, <2>6, <3>2
    <3> QED
      BY <3>1, <3>2
  <2>7. PageTree(bDoc', bLeft') /\ OnlyBy(BlocksLanded', bDoc')
    BY <1>1, <1>3, <2>2, <2>3 DEF BlockUpdateFits, Grown
  <2>8. \A o \in BlockCalls : bPhase'[o] = "merged" => \A a \in bUpdate'[o].asked : Placed(o, bDoc', a.block, a.placement)
    BY <1>1, <2>3, <2>4
  <2>9. \A o \in BlocksAwaited' : BlockUpdateFits(o)'
    BY <1>3, <2>5
  <2>10. \A k \in BlockCalls : \A o \in BlocksAwaited' \ {k} :
           bPhase'[k] \in {"sent", "merged"} /\ bUpdate'[k].asked # {} => NothingBy(k, bUpdate'[o].base)
    BY <1>1, <1>3, <2>6
  <2> QED
    BY <2>7, <2>8, <2>9, <2>10 DEF BlocksInOrder
<1> QED
  BY <1>1, <1>2, <1>4, <1>5, <1>6, <1>7 DEF BlockInv

(* A lost acknowledgement keeps it.                                      *)
LEMMA BlockLossKeeps ==
  ASSUME BlockInv, NEW c \in BlockCalls, BU!LoseAck(c), UNCHANGED bLeft
  PROVE  BlockInv'
<1>1. /\ bPhase[c] = "sent" /\ bUpdate' = bUpdate /\ bLeft' = bLeft /\ bDoc' = bDoc /\ bStale' = bStale
      /\ bPhase \in [BlockCalls -> BlockPhases] /\ DOMAIN bUpdate = BlockCalls /\ bStale \in BOOLEAN
      /\ OneEditAtWork /\ BlocksAnyOrder
  BY DEF BU!LoseAck, BlockInv
<1>2. /\ bPhase' \in [BlockCalls -> BlockPhases]
      /\ \A o \in BlockCalls : bPhase'[o] = IF o = c THEN "lost" ELSE bPhase[o]
  BY <1>1 DEF BU!LoseAck, BlockPhases
<1>3. BlocksLanded' = BlocksLanded /\ BlocksAwaited' = BlocksAwaited
  BY <1>1, <1>2 DEF BlocksLanded, BlocksAwaited
<1>4. OneEditAtWork'
  BY <1>1, <1>2 DEF OneEditAtWork
<1>5. BlocksAnyOrder'
  BY <1>1, <1>2, <1>3 DEF BlocksAnyOrder
<1>6. ASSUME ~bStale PROVE BlocksInOrder'
  <2>1. BlocksInOrder
    BY <1>6 DEF BlockInv
  <2>2. \A o \in BlocksAwaited : BlockUpdateFits(o)'
    BY <1>1, <1>3, <2>1 DEF BlocksInOrder, BlockUpdateFits
  <2>3. \A k \in BlockCalls : bPhase'[k] \in {"sent", "merged"} => bPhase[k] \in {"sent", "merged"}
                                /\ (bPhase'[k] = "merged" => bPhase[k] = "merged")
    BY <1>2
  <2>4. \A o \in BlockCalls : bPhase'[o] = "merged" => \A a \in bUpdate[o].asked : Placed(o, bDoc, a.block, a.placement)
    BY <2>1, <2>3 DEF BlocksInOrder
  <2>5. \A k \in BlockCalls : \A o \in BlocksAwaited \ {k} :
          bPhase'[k] \in {"sent", "merged"} /\ bUpdate[k].asked # {} => NothingBy(k, bUpdate[o].base)
    BY <2>1, <2>3 DEF BlocksInOrder
  <2>6. PageTree(bDoc, bLeft) /\ OnlyBy(BlocksLanded, bDoc)
    BY <2>1 DEF BlocksInOrder
  <2> QED
    BY <1>1, <1>3, <2>2, <2>4, <2>5, <2>6 DEF BlocksInOrder
<1> QED
  BY <1>1, <1>2, <1>4, <1>5, <1>6 DEF BlockInv

(* Every step of the calls on a page keeps the invariant. *)
LEMMA BlockNextKeeps == BlockInv /\ [BlockNext]_blockVars => BlockInv'
<1> SUFFICES ASSUME BlockInv, [BlockNext]_blockVars PROVE BlockInv'
  OBVIOUS
<1>1. ASSUME NEW c \in BlockCalls, appendBlock(c) PROVE BlockInv'
  <2>1. bLeft' = bLeft
    BY <1>1 DEF appendBlock
  <2>2. PICK i \in AppendInputs, pl \in Placements(DOMAIN bDoc) :
          BU!Handled(c, IF validateNormalizedAppendBlockInput(i.type, i.fields, i.strict)
                     THEN insertBlockIntoDoc(bDoc, c, "one", i.type, i.text, pl, i.strict) ELSE {},
                  {[block |-> Fresh(c, "one"), placement |-> pl]})
    BY <1>1 DEF appendBlock
  <2>3. IsPlacement(pl) /\ BlockShape(i.type, i.text).flavour # "surface"
    BY PlacementsArePlacements, NoSurfaceMade, BlockAssumption
  <2> DEFINE asked == {[block |-> Fresh(c, "one"), placement |-> pl]}
             results == IF validateNormalizedAppendBlockInput(i.type, i.fields, i.strict)
                        THEN insertBlockIntoDoc(bDoc, c, "one", i.type, i.text, pl, i.strict) ELSE {}
  <2>4. ASSUME NEW r \in results PROVE BlockStep(c, r, asked)
    <3>1. PICK d : d = bDoc
      OBVIOUS
    <3>2. r \in insertBlockIntoDoc(d, c, "one", i.type, i.text, pl, i.strict)
      BY <2>4, <3>1
    <3>3. BlockRecords(d) => Kept(c, d, r)
      BY <3>2, InsertedKept
    <3>4. ASSUME NothingBy(c, d), PageTree(d, bLeft)
          PROVE  Grown(c, d, r, bLeft) /\ Placed(c, r, Fresh(c, "one"), pl)
      <4>1. Grown(c, d, d, bLeft) /\ MadeBy(c) \cap DOMAIN d = {} /\ Fresh(c, "one") \notin DOMAIN d
        BY <3>4, GrownAsLoaded, FreshIds DEF NothingBy
      <4> QED
        BY <2>3, <3>2, <4>1, InsertGrows
    <3> QED
      BY <2>1, <3>1, <3>3, <3>4 DEF BlockStep
  <2> HIDE DEF asked, results
  <2>5. BU!Handled(c, results, asked)
    BY <2>2 DEF asked, results
  <2> QED
    BY <2>1, <2>4, <2>5, BlockHandlerKeeps
<1>2. ASSUME NEW c \in BlockCalls, applyMarkdown(c) PROVE BlockInv'
  <2>1. bLeft' = bLeft
    BY <1>2 DEF applyMarkdown
  <2>2. PICK pl \in {NoPlacement, [mode |-> "after", ref |-> TextBlock]}, replaceExisting \in BOOLEAN :
          BU!Handled(c, applyMarkdownOperations(bDoc, c, replaceExisting, pl),
                  {[block |-> Fresh(c, "two"), placement |-> AfterFirst(c)]})
    BY <1>2 DEF applyMarkdown, AfterFirst
  <2>3. IsPlacement(pl)
    BY PlacementsArePlacements
  <2>4. ASSUME NEW r \in applyMarkdownOperations(bDoc, c, replaceExisting, pl)
        PROVE  BlockStep(c, r, {[block |-> Fresh(c, "two"), placement |-> AfterFirst(c)]})
    <3>1. PICK d : d = bDoc
      OBVIOUS
    <3>2. r \in applyMarkdownOperations(d, c, replaceExisting, pl)
      BY <2>4, <3>1
    <3>3. BlockRecords(d) => Kept(c, d, r)
      BY <3>2, MarkdownKept
    <3>4. NothingBy(c, d) /\ PageTree(d, bLeft) => Grown(c, d, r, bLeft) /\ Placed(c, r, Fresh(c, "two"), AfterFirst(c))
      BY <2>3, <3>2, MarkdownGrows
    <3> QED
      BY <2>1, <3>1, <3>3, <3>4 DEF BlockStep
  <2> QED
    BY <2>1, <2>2, <2>4, BlockHandlerKeeps
<1>3. ASSUME NEW c \in BlockCalls, appendSemanticSection(c) PROVE BlockInv'
  <2>1. bLeft' = bLeft
    BY <1>3 DEF appendSemanticSection
  <2>2. PICK title \in {"none", "heading"} :
          BU!Handled(c, appendSection(bDoc, c, title),
                  {[block |-> Fresh(c, "two"), placement |-> AfterFirst(c)]})
    BY <1>3 DEF appendSemanticSection, AfterFirst
  <2>3. ASSUME NEW r \in appendSection(bDoc, c, title)
        PROVE  BlockStep(c, r, {[block |-> Fresh(c, "two"), placement |-> AfterFirst(c)]})
    <3>1. PICK d : d = bDoc
      OBVIOUS
    <3>2. r \in appendSection(d, c, title)
      BY <2>3, <3>1
    <3>3. BlockRecords(d) => Kept(c, d, r)
      BY <3>2, SectionKept
    <3>4. NothingBy(c, d) /\ PageTree(d, bLeft) => Grown(c, d, r, bLeft) /\ Placed(c, r, Fresh(c, "two"), AfterFirst(c))
      BY <3>2, SectionGrows
    <3> QED
      BY <2>1, <3>1, <3>3, <3>4 DEF BlockStep
  <2> QED
    BY <2>1, <2>2, <2>3, BlockHandlerKeeps
<1>4. ASSUME NEW c \in BlockCalls, updateBlock(c) PROVE BlockInv'
  <2>1. bLeft' = bLeft
    BY <1>4 DEF updateBlock
  <2>2. PICK b \in DOMAIN bDoc, t \in {"heading", "quote", "todo"} : BU!Handled(c, Updated(bDoc, b, t), {})
    BY <1>4 DEF updateBlock
  <2>3. ASSUME NEW r \in Updated(bDoc, b, t) PROVE BlockStep(c, r, {})
    BY <2>1, <2>3, UpdatedKept, UpdateGrows DEF BlockStep
  <2> QED
    BY <2>1, <2>2, <2>3, BlockHandlerKeeps
<1>5. ASSUME NEW c \in BlockCalls, moveBlock(c) PROVE BlockInv'
  <2>1. bLeft' = bLeft
    BY <1>5 DEF moveBlock
  <2>2. PICK b \in DOMAIN bDoc, pl \in Placements(DOMAIN bDoc) :
          BU!Handled(c, Moved(bDoc, c, b, pl), {[block |-> b, placement |-> pl]})
    BY <1>5 DEF moveBlock
  <2>3. IsPlacement(pl)
    BY PlacementsArePlacements
  <2>4. ASSUME NEW r \in Moved(bDoc, c, b, pl) PROVE BlockStep(c, r, {[block |-> b, placement |-> pl]})
    <3>1. PICK d : d = bDoc
      OBVIOUS
    <3>2. r \in Moved(d, c, b, pl) /\ b \in DOMAIN d
      BY <2>4, <3>1
    <3>3. BlockRecords(d) => Kept(c, d, r)
      BY <3>2, MovedKept
    <3>4. NothingBy(c, d) /\ PageTree(d, bLeft) => Grown(c, d, r, bLeft) /\ Placed(c, r, b, pl)
      BY <2>3, <3>2, MoveGrows
    <3> QED
      BY <2>1, <3>1, <3>3, <3>4 DEF BlockStep
  <2> QED
    BY <2>1, <2>2, <2>4, BlockHandlerKeeps
<1>6. ASSUME NEW c \in BlockCalls, deleteBlock(c) PROVE BlockInv'
  <2>1. PICK b \in DOMAIN bDoc, recursive \in BOOLEAN :
          /\ BU!Handled(c, deleteBlockInDoc(bDoc, b, recursive, FALSE), {})
          /\ bLeft' = IF recursive \/ bPhase'[c] = "refused" THEN bLeft ELSE bLeft \cup Range(childIdsFrom(bDoc, b))
    BY <1>6 DEF deleteBlock
  <2>2. ASSUME NEW r \in deleteBlockInDoc(bDoc, b, recursive, FALSE) PROVE BlockStep(c, r, {})
    <3>1. bPhase'[c] = "sent"
      <4>1. bPhase' = [bPhase EXCEPT ![c] = "sent"]
        BY <2>1, <2>2 DEF BU!Handled
      <4> QED
        BY <4>1 DEF BlockInv
    <3>2. bLeft' = IF recursive THEN bLeft ELSE bLeft \cup Range(childIdsFrom(bDoc, b))
      BY <2>1, <3>1
    <3>3. PICK d, l : d = bDoc /\ l = bLeft
      OBVIOUS
    <3>4. r \in deleteBlockInDoc(d, b, recursive, FALSE) /\ b \in DOMAIN d
      BY <2>2, <3>3
    <3>5. BlockRecords(d) => Kept(c, d, r)
      BY <3>4, DeletedKept
    <3>6. NothingBy(c, d) /\ PageTree(d, l) => Grown(c, d, r, IF recursive THEN l ELSE l \cup Range(childIdsFrom(d, b)))
      BY <3>4, GrownAsLoaded, DeleteGrows
    <3> QED
      BY <3>2, <3>3, <3>5, <3>6 DEF BlockStep
  <2>3. bLeft \subseteq bLeft'
    BY <2>1
  <2> QED
    BY <2>1, <2>2, <2>3, BlockHandlerKeeps
<1>7. ASSUME NEW c \in BlockCalls, patchBlocks(c) PROVE BlockInv'
  <2>1. bLeft' = bLeft
    BY <1>7 DEF patchBlocks
  <2>2. PICK p, anchor, b \in DOMAIN bDoc : BU!Handled(c, applyPatchOperations(bDoc, c, p, anchor, b), {})
    BY <1>7 DEF patchBlocks
  <2>3. ASSUME NEW r \in applyPatchOperations(bDoc, c, p, anchor, b) PROVE BlockStep(c, r, {})
    <3>1. PICK d : d = bDoc
      OBVIOUS
    <3>2. r \in applyPatchOperations(d, c, p, anchor, b)
      BY <2>3, <3>1
    <3>3. BlockRecords(d) => Kept(c, d, r)
      BY <3>2, PatchKept
    <3>4. NothingBy(c, d) /\ PageTree(d, bLeft) => Grown(c, d, r, bLeft)
      BY <3>2, PatchGrows
    <3> QED
      BY <2>1, <3>1, <3>3, <3>4 DEF BlockStep
  <2> QED
    BY <2>1, <2>2, <2>3, BlockHandlerKeeps
<1>8. ASSUME NEW c \in BlockCalls, (BU!MergeUpdate(c) \/ BU!LoseAck(c)) /\ UNCHANGED bLeft PROVE BlockInv'
  BY <1>8, BlockMergeKeeps, BlockLossKeeps
<1>9. CASE BU!UpdatesDone /\ UNCHANGED bLeft
  BY <1>9 DEF BU!UpdatesDone, BlockInv, OneEditAtWork, BlocksAnyOrder, BlocksInOrder, BlockUpdateFits, OnlyBy, BlocksLanded, BlocksAwaited
<1>10. CASE UNCHANGED blockVars
  BY <1>10 DEF blockVars, BlockInv, OneEditAtWork, BlocksAnyOrder, BlocksInOrder, BlockUpdateFits, OnlyBy, BlocksLanded, BlocksAwaited
<1> QED
  BY <1>1, <1>2, <1>3, <1>4, <1>5, <1>6, <1>7, <1>8, <1>9, <1>10 DEF BlockNext

(* The invariant of a page's blocks. *)
THEOREM BlockSafety == BlockSpec => []BlockInv
BY BlocksStart, BlockNextKeeps, PTL DEF BlockSpec

(* Whatever its size, the page stays one tree while every update is merged *)
(* into the page it was computed from: each block is listed once, nothing  *)
(* listed is gone, no block is below itself, and only what a deletion left *)
(* is unlisted. In whatever order updates are merged, no block gets a type *)
(* its flavour does not have.                                              *)
THEOREM TreeHolds == BlockSpec => []BlocksFormATree
<1>1. BlockInv => BlocksFormATree
  <2> SUFFICES ASSUME BlockInv PROVE BlocksFormATree
    OBVIOUS
  <2>1. TypesFit(bDoc)
    BY DEF BlockInv, BlocksAnyOrder, BlockRecords
  <2>2. ASSUME ~bStale PROVE OneTree(bDoc, bLeft)
    <3>1. PageTree(bDoc, bLeft)
      BY <2>2 DEF BlockInv, BlocksInOrder
    <3>2. IsPage(bDoc) /\ TypesFit(bDoc)
      BY <3>1 DEF PageTree
    <3> QED
      BY <3>1, <3>2, OneTreeByClosedSets
  <2> QED
    BY <2>1, <2>2 DEF BlocksFormATree
<1> QED
  BY <1>1, BlockSafety, PTL

(* A block that was appended or moved is where the call asked, on a page of*)
(* any size and for any placement, until another update reaches the page.  *)
THEOREM PlacementHolds == BlockSpec => []PlacementHonoured
<1>1. BlockInv => PlacementHonoured
  BY DEF BlockInv, BlocksInOrder, Placed, PlacementHonoured
<1> QED
  BY <1>1, BlockSafety, PTL
=============================================================================
