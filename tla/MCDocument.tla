----------------------------- MODULE MCDocument -----------------------------
(* The structures a page may hold, each with calls of its own tools: a     *)
(* behaviour is one of part. The parts share no state.                     *)
EXTENDS BlockTree, Databases, Tables, Surface, Mindmaps, TLC
CONSTANTS c1, c2, sub, row1, row2, col1, col2, text1, shape1, frame, note, n1, n2, n3
VARIABLE part

MCCalls == {c1, c2}

Input(t, text, fields, strict) == [type |-> t, text |-> text, fields |-> fields, strict |-> strict]
MCInputs == {Input("paragraph", TRUE, {}, TRUE), Input("note", TRUE, {"width"}, TRUE),
             Input("frame", FALSE, {}, TRUE), Input("callout", FALSE, {"level"}, FALSE),
             Input("image", FALSE, {}, TRUE)}
Rich == [createDocSkeleton EXCEPT
          ![TextBlock] = Block("paragraph", "heading", <<Entry(sub, Seeded)>>)] @@
        (sub :> Block("list", "bulleted", <<>>))
Bare == PageBlock :> Block("page", "none", <<>>)
MCPages == {Rich, Bare}

MCLabels == {"todo", "new"}
MCRows == <<row1, row2>>
MCColumns == <<col1, col2>>
MCTexts == {text1, Empty}
MCWidths == {60}

MCCanvas ==
  [elements |-> shape1 :> Element("shape", 1, Bound(1, 3, 21, 19), <<>>, Owned({}, Seeded)),
   blocks   |-> (frame :> Edgeless("frame", Bound(0, Px(200), Px(50), Px(50)), Owned({shape1}, Seeded))) @@
                (note :> Edgeless("note", Bound(Px(100), 0, Px(80), Px(92)), Owned({}, Seeded)))]
MCSpots == {Bound(Px(300), Px(300), 3, 5)}
MCSize == [w |-> Px(100), h |-> Px(60)]
MCPaddings == {Px(1)}
(* Where a block may be asked to go: nowhere in particular, at or partly   *)
(* at a spot, and after blocks, an element or nothing, in each direction.  *)
Want(fields) == [f \in {"x", "y", "w", "h"} |-> IF f \in fields THEN Bound(Px(40) + 1, Px(20), 5, 1)[f] ELSE None]
Hint(after, direction, gap, fields, padding) ==
  [after |-> after, direction |-> direction, gap |-> gap, want |-> Want(fields), padding |-> padding]
MCAppends ==
  {Hint({}, "down", None, {}, None), Hint({}, "down", None, {"x", "h"}, Px(1)),
   Hint({}, "down", None, {"x", "y", "w", "h"}, Px(1)), Hint({shape1}, "down", None, {}, None),
   Hint({note}, "right", None, {"x"}, Px(1)), Hint({note}, "down", -Px(1), {}, None),
   Hint({frame, Missing}, "down", 0, {"x", "y"}, None)}
  \cup {Hint({frame, note}, direction, None, {}, None) : direction \in {"down", "up", "left", "right"}}

MCMap ==
  [shapes |-> [n \in {Root, n1, n2, n3} |-> Sketch(IF n = n1 THEN 3 ELSE 1, 0, 0)],
   maps   |-> TheMap :> Mindmap((Root :> Detail(NoParent, 64)) @@ (n1 :> Detail(Root, 64)) @@
                                (n2 :> Detail(Root, 128)) @@ (n3 :> Detail(n1, 64)), "right", 1),
   group  |-> [kids |-> {}, locked |-> FALSE]]

DocumentInit ==
  /\ part \in {"blocks", "databases", "tables", "surface", "mindmaps"}
  /\ BlockInit /\ (part # "blocks" => bDoc = Bare)
  /\ DatabasesInit /\ (part # "databases" => Cardinality(dDoc[Board].columns) = 2)
  /\ TablesInit /\ (part # "tables" => tDoc = Table("flat"))
  /\ SurfaceInit
  /\ MindmapsInit

DocumentNext ==
  /\ UNCHANGED part
  /\ \/ part = "blocks" /\ BlockNext /\ UNCHANGED <<dbVars, tableVars, surfaceVars, mapVars>>
     \/ part = "databases" /\ DatabasesNext /\ UNCHANGED <<blockVars, tableVars, surfaceVars, mapVars>>
     \/ part = "tables" /\ TablesNext /\ UNCHANGED <<blockVars, dbVars, surfaceVars, mapVars>>
     \/ part = "surface" /\ SurfaceNext /\ UNCHANGED <<blockVars, dbVars, tableVars, mapVars>>
     \/ part = "mindmaps" /\ MindmapsNext /\ UNCHANGED <<blockVars, dbVars, tableVars, surfaceVars>>

documentVars == <<blockVars, dbVars, tableVars, surfaceVars, mapVars, part>>
DocumentSpec == DocumentInit /\ [][DocumentNext]_documentVars
Symmetry == Permutations(MCCalls)
=============================================================================
