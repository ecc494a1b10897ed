------------------------------- MODULE Surface -------------------------------
(***************************************************************************)
(* The edgeless canvas of a page: surface elements, the notes, frames and  *)
(* texts that stand on it, and where new ones are put (src/tools/docs.ts,  *)
(* src/edgeless/layout.ts).                                                *)
(*                                                                         *)
(* Bounds are counted in half pixels, so that a coordinate may be one the  *)
(* code rounds. Colours, fonts and labels are left out.                    *)
(***************************************************************************)
EXTENDS Integers, Sequences, FiniteSets, FiniteSetsExt, YjsMerge

CONSTANTS SurfaceCalls,   \* the tool calls
          Canvas,         \* the canvas they start from
          Missing,        \* an id nothing has
          None,           \* no bounds, side or padding
          Spots,          \* bounds a caller may ask for
          BlockSize,      \* the width and height of a new block
          Paddings,       \* paddings a caller may ask for
          LayoutInputs   \* what append_block may be told of where a block goes

VARIABLES
  sDoc,   \* the elements, the edgeless blocks and their bounds
  sPhase, sUpdate, sStale,   \* the calls: see DocUpdates
  sLoose  \* ids whose connectors were left, or that a call named itself,
          \* and connectors that were pruned with what they ended at

surfaceVars == <<sDoc, sPhase, sUpdate, sStale, sLoose>>

Px(n) == 2 * n
FloorPx(n) == Px(n \div 2)
CeilPx(n) == Px((n + 1) \div 2)

-----------------------------------------------------------------------------
(* edgeless/layout.ts.                                                     *)
Bound(x, y, w, h) == [x |-> x, y |-> y, w |-> w, h |-> h]
Right(b) == b.x + b.w
Bottom(b) == b.y + b.h

(* encloseBounds: the bound around children, with a band for the title.    *)
titleBand == Px(60)
encloseBounds(kids, padding) ==
  LET minX == Min({b.x : b \in kids})  maxX == Max({Right(b) : b \in kids})
      minY == Min({b.y : b \in kids})  maxY == Max({Bottom(b) : b \in kids})
  IN  Bound(FloorPx(minX - padding), FloorPx(minY - padding - titleBand),
            CeilPx(Max({Px(1), maxX - minX + 2 * padding})), CeilPx(maxY - minY + 2 * padding + titleBand))

Vertical(direction) == direction \in {"down", "up"}
pickFurthestInDirection(bounds, direction) ==
  LET Reach(b) == CASE direction = "down" -> Bottom(b) [] direction = "up" -> - b.y
                    [] direction = "right" -> Right(b) [] OTHER -> - b.x
  IN  {b \in bounds : \A o \in bounds : Reach(o) <= Reach(b)}

stackRelativeTo(ref, w, h, direction, gap) ==
  CASE direction = "down"  -> Bound(ref.x, Bottom(ref) + gap, w, h)
    [] direction = "up"    -> Bound(ref.x, ref.y - gap - h, w, h)
    [] direction = "right" -> Bound(Right(ref) + gap, ref.y, w, h)
    [] OTHER               -> Bound(ref.x - gap - w, ref.y, w, h)

(* pickConnectorSides: the sides of source and target an arrow joins.      *)
Anchor(b, side) ==      \* in quarter pixels
  CASE side = "top" -> <<2 * b.x + b.w, 2 * b.y>>  [] side = "bottom" -> <<2 * b.x + b.w, 2 * Bottom(b)>>
    [] side = "left" -> <<2 * b.x, 2 * b.y + b.h>> [] OTHER -> <<2 * Right(b), 2 * b.y + b.h>>
Sides == <<"top", "bottom", "left", "right">>
Nearest(src, tgt) ==    \* the first of the nearest pairs
  LET D(i, j) == LET a == Anchor(src, Sides[i])  z == Anchor(tgt, Sides[j])
                 IN  (z[1] - a[1]) * (z[1] - a[1]) + (z[2] - a[2]) * (z[2] - a[2])
      Before(p, q) == \/ D(p[1], p[2]) < D(q[1], q[2])
                      \/ /\ D(p[1], p[2]) = D(q[1], q[2])
                         /\ 4 * p[1] + p[2] <= 4 * q[1] + q[2]
      best == CHOOSE p \in (1..4) \X (1..4) : \A q \in (1..4) \X (1..4) : Before(p, q)
  IN  <<Sides[best[1]], Sides[best[2]]>>
pickConnectorSides(src, tgt) ==
  LET above == Bottom(src) <= tgt.y      below == Bottom(tgt) <= src.y
      leftOf == Right(src) <= tgt.x      rightOf == Right(tgt) <= src.x
      dx == (2 * tgt.x + tgt.w) - (2 * src.x + src.w)
      dy == (2 * tgt.y + tgt.h) - (2 * src.y + src.h)
      Across(forward) == IF forward THEN <<"right", "left">> ELSE <<"left", "right">>
      Along(forward) == IF forward THEN <<"bottom", "top">> ELSE <<"top", "bottom">>
  IN  CASE (above \/ below) /\ ~(leftOf \/ rightOf) -> Along(above)
        [] (leftOf \/ rightOf) /\ ~(above \/ below) -> Across(leftOf)
        [] (leftOf \/ rightOf) /\ (above \/ below) ->
             IF dx * dx >= dy * dy THEN Across(dx >= 0) ELSE Along(dy >= 0)
        [] OTHER -> Nearest(src, tgt)

-----------------------------------------------------------------------------
(* Elements and blocks. A map of owned ids is replaced whole or loses keys.*)
Owned(ids, c) == [map |-> c, ids |-> ids]
Element(type, index, box, ends, owned) ==
  [type |-> type, index |-> index, box |-> box, ends |-> ends, owned |-> owned]
Edgeless(flavour, box, owned) == [flavour |-> flavour, box |-> box, owned |-> owned]

Exists(d, id) == id \in DOMAIN d.elements \cup DOMAIN d.blocks
(* resolveChildBound; connectors and groups have no bound of their own.    *)
BoundsOf(d, ids) ==
  {b \in {IF i \in DOMAIN d.elements THEN d.elements[i].box ELSE d.blocks[i].box :
            i \in {i \in ids : Exists(d, i)}} : b # None}

Box(d, id) == CHOOSE b \in BoundsOf(d, {id}) : TRUE
EndIds(el) == {el.ends[side].id : side \in DOMAIN el.ends}

nextSurfaceElementIndex(d) == 1 + Max({0} \cup {d.elements[e].index : e \in DOMAIN d.elements})

(* buildConnectorElementData, and the sides if both ends have bounds.      *)
Ends(d, from, to) ==
  LET sides == IF BoundsOf(d, {from}) # {} /\ BoundsOf(d, {to}) # {}
               THEN pickConnectorSides(Box(d, from), Box(d, to)) ELSE <<None, None>>
  IN  [source |-> [id |-> from, side |-> sides[1]], target |-> [id |-> to, side |-> sides[2]]]

buildSurfaceElementData(d, c, i) ==
  Element(i.type, nextSurfaceElementIndex(d),
          IF i.type \in {"shape", "text"} THEN i.box ELSE None,
          IF i.type = "connector" THEN Ends(d, i.from, i.to) ELSE <<>>,
          Owned(IF i.type = "group" THEN i.kids ELSE {}, c))

(* FIELD_APPLICABILITY and the fields with a branch of their own.          *)
Applicable ==
  [x |-> {"shape", "text"}, text |-> {"shape", "text", "connector"}, label |-> {"connector"},
   title |-> {"group"}, radius |-> {"shape"}, strokeWidth |-> {"shape", "connector"},
   color |-> {"shape", "text"}, stroke |-> {"connector"},
   index |-> {"shape", "text", "connector", "group"},
   sourceId |-> {"connector"}, targetId |-> {"connector"}, children |-> {"group"}]

(* updateSurfaceElementHandler, for one field: nothing is pushed when no   *)
(* field of the call applies.                                              *)
UpdatedElement(d, c, e, field, v) ==
  LET el == d.elements[e]
  IN  IF el.type \notin Applicable[field] THEN {}
      ELSE {[d EXCEPT !.elements[e] =
               CASE field = "x" -> [el EXCEPT !.box = v]
                 [] field = "index" -> [el EXCEPT !.index = v]
                 [] field = "children" -> [el EXCEPT !.owned = Owned(v, c)]
                 [] field = "sourceId" -> [el EXCEPT !.ends.source = [id |-> v, side |-> None]]
                 [] field = "targetId" -> [el EXCEPT !.ends.target = [id |-> v, side |-> None]]
                 [] OTHER -> el]}

(* Mutant: only the elements' own ids leave the frames. *)
pruneFramesOfOthers(d, ids) ==
  [d EXCEPT !.blocks = [b \in DOMAIN d.blocks |-> [d.blocks[b] EXCEPT !.owned.ids = @ \ (ids \ DOMAIN d.blocks)]]]

pruneFromFrameChildElementIds(d, ids) ==
  [d EXCEPT !.blocks = [b \in DOMAIN d.blocks |-> [d.blocks[b] EXCEPT !.owned.ids = @ \ ids]]]

(* deleteSurfaceElementHandler and delete_block: the connectors that touch *)
(* what goes are removed only when asked, frames always let go.            *)
ConnectorsOf(d, id) ==
  {e \in DOMAIN d.elements : d.elements[e].type = "connector" /\ id \in EndIds(d.elements[e])}
Without(d, id, pruneConnectors) ==
  LET gone == {id} \cup (IF pruneConnectors THEN ConnectorsOf(d, id) ELSE {})
      d2   == pruneFromFrameChildElementIds(d, gone)
  IN  [elements |-> [e \in DOMAIN d.elements \ gone |-> d.elements[e]],
       blocks   |-> [b \in DOMAIN d.blocks \ gone |-> d2.blocks[b]]]

-----------------------------------------------------------------------------
(* resolveEdgelessLayoutHints: the bounds an append may give its block; {} *)
(* when it throws. An input names anchors, children, and any of x, y, w    *)
(* and h that the caller insists on.                                       *)
Given(i, f) == i.want[f] # None
Wholly(i) == \A f \in {"x", "y", "w", "h"} : Given(i, f)
AtLeastPx(n) == IF n < Px(1) THEN Px(1) ELSE FloorPx(n)
Wanted(i) ==            \* the geometry of normalizeAppendBlockInput
  Bound(IF Given(i, "x") THEN FloorPx(i.want.x) ELSE 0, IF Given(i, "y") THEN FloorPx(i.want.y) ELSE 0,
        IF Given(i, "w") THEN AtLeastPx(i.want.w) ELSE BlockSize.w,
        IF Given(i, "h") THEN AtLeastPx(i.want.h) ELSE BlockSize.h)

(* stackAfter: only blocks are anchors, and none at all is an error. On the*)
(* axis of the stack the caller's coordinate is not looked at.             *)
Centred(low, high, extent) == Px((low + high - extent + 2) \div 4)   \* Math.round
StackGap(i) ==
  IF i.gap # None THEN i.gap ELSE IF i.padding # None THEN i.padding
  ELSE IF Vertical(i.direction) THEN Px(40) ELSE Px(80)
Anchors(d, i) == {d.blocks[b].box : b \in i.after \cap DOMAIN d.blocks}
StackedAfter(d, i) ==
  LET anchors == Anchors(d, i)
      at == Wanted(i)
      middleX == Centred(Min({b.x : b \in anchors}), Max({Right(b) : b \in anchors}), at.w)
      middleY == Centred(Min({b.y : b \in anchors}), Max({Bottom(b) : b \in anchors}), at.h)
      Put(ref) == stackRelativeTo(ref, at.w, at.h, i.direction, StackGap(i))
  IN  {IF Vertical(i.direction) THEN [Put(ref) EXCEPT !.x = IF Given(i, "x") THEN at.x ELSE middleX]
       ELSE [Put(ref) EXCEPT !.y = IF Given(i, "y") THEN at.y ELSE middleY] :
         ref \in pickFurthestInDirection(anchors, i.direction)}

PaddingOf(i) == IF i.padding = None THEN Px(40) ELSE i.padding
(* Mutant: any block stands for the lowest one. *)
resolveHintsFirst(d, i) ==
  {stackRelativeTo(d.blocks[b].box, Wanted(i).w, Wanted(i).h, "down", PaddingOf(i)) : b \in DOMAIN d.blocks}

(* A frame closes around its children, but for what the caller gave. *)
Wrapped(i, box, around) ==
  Bound(IF Given(i, "x") THEN box.x ELSE around.x, IF Given(i, "y") THEN box.y ELSE around.y,
        IF Given(i, "w") THEN box.w ELSE around.w, IF Given(i, "h") THEN box.h ELSE around.h)

AutoStacked(d, i) ==
  LET existing == {d.blocks[b].box : b \in DOMAIN d.blocks}
      at == Wanted(i)
  IN  IF Given(i, "y") \/ existing = {} THEN {at}
      ELSE {LET box == stackRelativeTo(ref, at.w, at.h, "down", PaddingOf(i))
            IN  IF Given(i, "x") THEN [box EXCEPT !.x = at.x] ELSE box :
              ref \in pickFurthestInDirection(existing, "down")}

resolveEdgelessLayoutHints(d, i) ==
  LET kids == {k \in i.kids : Exists(d, k)}
      stacked == IF i.after = {} THEN {Wanted(i)} ELSE StackedAfter(d, i)
  IN  IF i.kids # {} /\ kids = {} THEN {}
      ELSE IF BoundsOf(d, kids) # {} /\ ~Wholly(i)
      THEN {Wrapped(i, box, encloseBounds(BoundsOf(d, kids), PaddingOf(i))) : box \in stacked}
      ELSE IF i.after # {} THEN stacked ELSE AutoStacked(d, i)

AppendedEdgeless(d, c, i) ==
  {[d EXCEPT !.blocks = MapSet(@, c, Edgeless(i.flavour, box, Owned({k \in i.kids : Exists(d, k)}, c)))] :
     box \in resolveEdgelessLayoutHints(d, i)}

(* updateFrameChildrenHandler: what is missing is not owned; the frame is  *)
(* fitted around the children that have bounds.                            *)
UpdatedFrame(d, c, f, ids, resizeToFit, padding) ==
  LET owned == {i \in ids : Exists(d, i)}
      kids  == BoundsOf(d, owned)
  IN  {[d EXCEPT !.blocks[f].owned = Owned(owned, c),
                 !.blocks[f].box = IF resizeToFit /\ kids # {} THEN encloseBounds(kids, padding) ELSE @]}

-----------------------------------------------------------------------------
MergedOwned(now, base, made) ==
  IF made.map # base.map THEN made
  ELSE IF now.map # base.map THEN now       \* keys of a map that is no more
  ELSE Owned(MergedSet(now.ids, base.ids, made.ids), now.map)
MergedThing(now, base, made) ==
  [f \in DOMAIN now |-> IF f = "owned" THEN MergedOwned(now[f], base[f], made[f])
                        ELSE IF made[f] # base[f] THEN made[f] ELSE now[f]]
MergedThings(now, base, made) ==
  [i \in (DOMAIN now \ (DOMAIN base \ DOMAIN made)) \cup (DOMAIN made \ DOMAIN base) |->
     IF i \notin DOMAIN base THEN IF i \in DOMAIN made THEN made[i] ELSE now[i]
     ELSE MergedThing(now[i], base[i], made[i])]
SurfaceMerge(now, base, made) ==
  [f \in DOMAIN now |-> MergedThings(now[f], base[f], made[f])]

SU == INSTANCE DocUpdates WITH Calls <- SurfaceCalls, Merge <- SurfaceMerge,
        doc <- sDoc, phase <- sPhase, update <- sUpdate, stale <- sStale

-----------------------------------------------------------------------------
(* A canvas as the program writes it.                                      *)
Bounds == [x : Int, y : Int, w : Nat, h : Nat]
End(e) == e = [id |-> e.id, side |-> e.side]
WholeElement(el) ==
  /\ el = Element(el.type, el.index, el.box, el.ends, el.owned)
  /\ el.index \in Int /\ el.box \in Bounds \cup {None}
  /\ el.owned = Owned(el.owned.ids, el.owned.map)
  /\ IF el.type = "connector"
     THEN /\ el.ends = [source |-> el.ends.source, target |-> el.ends.target]
          /\ End(el.ends.source) /\ End(el.ends.target)
     ELSE el.ends = <<>>
WholeBlock(b) ==
  /\ b = Edgeless(b.flavour, b.box, b.owned)
  /\ b.box \in Bounds /\ b.owned = Owned(b.owned.ids, b.owned.map)
WholeCanvas(d) ==
  /\ d = [elements |-> d.elements, blocks |-> d.blocks]
  /\ d.elements = [e \in DOMAIN d.elements |-> d.elements[e]]
  /\ d.blocks = [b \in DOMAIN d.blocks |-> d.blocks[b]]
  /\ IsFiniteSet(DOMAIN d.elements) /\ IsFiniteSet(DOMAIN d.blocks)
  /\ DOMAIN d.elements \cap DOMAIN d.blocks = {}
  /\ \A e \in DOMAIN d.elements : WholeElement(d.elements[e])
  /\ \A b \in DOMAIN d.blocks : WholeBlock(d.blocks[b])

(* Frames own only what exists, connectors end only at what exists or is   *)
(* loose.                                                                  *)
ReferencesResolve(d, loose) ==
  /\ \A b \in DOMAIN d.blocks : \A i \in d.blocks[b].owned.ids : Exists(d, i)
  /\ \A e \in DOMAIN d.elements : \A i \in EndIds(d.elements[e]) : Exists(d, i) \/ i \in loose

(* The ids of a canvas, and the calls that replaced a block's map of       *)
(* owned ids.                                                              *)
MarksOf(d) ==
  DOMAIN d.elements \cup DOMAIN d.blocks \cup {d.blocks[b].owned.map : b \in DOMAIN d.blocks}

(* The ids of new elements and blocks are fresh, and the canvas is whole.  *)
ASSUME SurfaceAssumption ==
  /\ WholeCanvas(Canvas) /\ ReferencesResolve(Canvas, {})
  /\ MarksOf(Canvas) \cap SurfaceCalls = {}
  /\ Missing \notin SurfaceCalls
  /\ None \notin Bounds /\ None \notin Int
  /\ Spots \subseteq Bounds /\ Paddings \subseteq Nat
  /\ BlockSize.w \in Nat /\ BlockSize.h \in Nat
  /\ \A i \in LayoutInputs :
       /\ i.direction \in {"down", "up", "right", "left"}
       /\ i.gap \in Int \cup {None} /\ i.padding \in Nat \cup {None}
       /\ i.want.x \in Int \cup {None} /\ i.want.y \in Int \cup {None}
       /\ i.want.w \in Nat \cup {None} /\ i.want.h \in Nat \cup {None}

SurfaceInit ==
  /\ sDoc = Canvas
  /\ SU!UpdatesInit
  /\ sLoose = {}

Ids == DOMAIN sDoc.elements \cup DOMAIN sDoc.blocks \cup {Missing}

ElementInputs ==
  [type : {"shape", "text"}, box : Spots]
  \cup [type : {"connector"}, from : Ids, to : Ids]
  \cup [type : {"group"}, kids : {{i} : i \in Ids}]

addSurfaceElement(c) ==
  \E i \in ElementInputs :
    /\ SU!Handled(c, {[sDoc EXCEPT !.elements = MapSet(@, c, buildSurfaceElementData(sDoc, c, i))]},
                  {[kind |-> "element"]})
    /\ sLoose' = IF i.type = "connector" THEN sLoose \cup ({i.from, i.to} \cap {Missing}) ELSE sLoose

updateSurfaceElement(c) ==
  \E e \in DOMAIN sDoc.elements, field \in DOMAIN Applicable :
    \E v \in CASE field = "x" -> Spots [] field = "index" -> {0}
              [] field \in {"sourceId", "targetId"} -> Ids
              [] field = "children" -> {{}, {Missing}} [] OTHER -> {None} :
      /\ SU!Handled(c, UpdatedElement(sDoc, c, e, field, v), {})
      /\ sLoose' = IF field \in {"sourceId", "targetId"} THEN sLoose \cup ({v} \cap {Missing}) ELSE sLoose

(* Deletions of an element or a block; an id that is not there changes     *)
(* nothing.                                                                *)
deleteSurfaceElement(c) ==
  \E e \in DOMAIN sDoc.elements \cup {Missing}, pruneConnectors \in BOOLEAN :
    /\ SU!Handled(c, IF e \in DOMAIN sDoc.elements THEN {Without(sDoc, e, pruneConnectors)} ELSE {}, {})
    /\ sLoose' = sLoose \cup IF pruneConnectors THEN ConnectorsOf(sDoc, e) ELSE {e}

deleteEdgelessBlock(c) ==
  \E b \in DOMAIN sDoc.blocks, pruneConnectors \in BOOLEAN :
    /\ SU!Handled(c, {Without(sDoc, b, pruneConnectors)}, {})
    /\ sLoose' = sLoose \cup IF pruneConnectors THEN ConnectorsOf(sDoc, b) ELSE {b}

(* Children are for frames; other types ignore them. *)
EdgelessInputs ==
  LET Input(i, flavour, kids) ==
        [flavour |-> flavour, after |-> i.after, direction |-> i.direction, gap |-> i.gap,
         padding |-> i.padding, want |-> i.want, kids |-> kids]
  IN  {Input(i, f, {}) : i \in LayoutInputs, f \in {"frame", "note"}}
      \cup {Input(i, "frame", kids) : i \in LayoutInputs, kids \in {Ids} \cup {{k} : k \in Ids}}

(* Only with some padding does the rounded frame hold all of its children. *)
Fitting(padding) == IF padding > 0 THEN "fitted" ELSE "placed"

(* What an answer promises. The caller answers for the coordinates it gave,*)
(* and for a gap below zero.                                               *)
Promise(d, i) ==
  CASE BoundsOf(d, i.kids) # {} /\ ~Wholly(i) ->
         IF \E f \in {"x", "y", "w", "h"} : Given(i, f) THEN "placed" ELSE Fitting(PaddingOf(i))
    [] ~(BoundsOf(d, i.kids) # {} /\ ~Wholly(i)) /\ i.after # {} ->
         IF StackGap(i) >= 0 THEN "stacked" ELSE "placed"
    [] OTHER -> IF Given(i, "y") THEN "placed" ELSE "automatic"

appendEdgelessBlock(c) ==
  /\ \E i \in EdgelessInputs :
       SU!Handled(c, AppendedEdgeless(sDoc, c, i),
         {[kind |-> Promise(sDoc, i), block |-> c, kids |-> i.kids,
           clear |-> IF i.after # {} THEN i.after \cap DOMAIN sDoc.blocks ELSE DOMAIN sDoc.blocks]})
  /\ UNCHANGED sLoose

updateFrameChildren(c) ==
  /\ \E f \in {b \in DOMAIN sDoc.blocks : sDoc.blocks[b].flavour = "frame"},
        ids \in {{}, Ids} \cup {{i} : i \in Ids}, resizeToFit \in BOOLEAN, padding \in Paddings :
       SU!Handled(c, UpdatedFrame(sDoc, c, f, ids, resizeToFit, padding),
            {[kind |-> IF resizeToFit THEN Fitting(padding) ELSE "placed", block |-> f, clear |-> {}, kids |-> ids]})
  /\ UNCHANGED sLoose

updateEdgelessBlock(c) ==
  /\ \E b \in DOMAIN sDoc.blocks, box \in Spots :
       SU!Handled(c, {[sDoc EXCEPT !.blocks[b].box = box]}, {})
  /\ UNCHANGED sLoose

SurfaceNext ==
  \/ \E c \in SurfaceCalls :
       \/ addSurfaceElement(c) \/ updateSurfaceElement(c) \/ deleteSurfaceElement(c)
       \/ deleteEdgelessBlock(c) \/ appendEdgelessBlock(c) \/ updateFrameChildren(c)
       \/ updateEdgelessBlock(c)
       \/ (SU!MergeUpdate(c) \/ SU!LoseAck(c)) /\ UNCHANGED sLoose
  \/ SU!UpdatesDone /\ UNCHANGED sLoose

SurfaceSpec == SurfaceInit /\ [][SurfaceNext]_surfaceVars

-----------------------------------------------------------------------------
(* While every update is merged into the canvas it was computed from,      *)
(* frames own only what exists, and a connector ends only at what exists,  *)
(* unless the caller named a missing id, deleted without pruneConnectors,  *)
(* or it ended at a connector that was pruned itself.                      *)
SurfaceReferencesResolve == ~sStale => ReferencesResolve(sDoc, sLoose)

Overlap(a, b) == a.x < Right(b) /\ b.x < Right(a) /\ a.y < Bottom(b) /\ b.y < Bottom(a)
Encloses(a, b) == a.x <= b.x /\ a.y <= b.y /\ Right(b) <= Right(a) /\ Bottom(b) <= Bottom(a)
(* All of box b lies on that side of box a. *)
Faces(side, a, b) ==
  CASE side = "bottom" -> Bottom(a) <= b.y [] side = "top" -> Bottom(b) <= a.y
    [] side = "right" -> Right(a) <= b.x   [] OTHER -> Right(b) <= a.x

(* What an answered call asked of where its element or block lies.         *)
HintHonoured(d, c, a) ==
  IF a.kind = "element"
  THEN LET el == d.elements[c] IN
       /\ \A e \in DOMAIN d.elements \ {c} : d.elements[e].index < el.index
       /\ el.type = "connector" /\ el.ends.source.side # None =>
            LET from == Box(d, el.ends.source.id)  to == Box(d, el.ends.target.id)
            IN  \/ Overlap(from, to)
                \/ /\ Faces(el.ends.source.side, from, to)
                   /\ Faces(el.ends.target.side, to, from)
  ELSE LET box == d.blocks[a.block].box IN
       /\ a.kind \in {"automatic", "stacked"} =>
            \A b \in BoundsOf(d, a.clear) : ~Overlap(box, b)
       /\ a.kind = "fitted" => \A b \in BoundsOf(d, a.kids) : Encloses(box, b)

(* Where no late update interferes: a block whose y nobody gave is put     *)
(* below every other block and covers none of them; one stacked after      *)
(* blocks covers none of these, whatever coordinates the caller insisted   *)
(* on, unless the gap it asked for is negative; a frame left to fit its    *)
(* children with some padding holds all of them; a new element is on top;  *)
(* and a new connector leaves its source on a side that faces the target   *)
(* and enters the target on a side that faces the source, wherever the two *)
(* do not overlap.                                                         *)
LayoutHintsHonoured ==
  \A c \in SurfaceCalls : sPhase[c] = "merged" /\ ~sStale =>
    \A a \in sUpdate[c].asked : HintHonoured(sDoc, c, a)
=============================================================================
