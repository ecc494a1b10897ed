------------------------------ MODULE BlockTree ------------------------------
(***************************************************************************)
(* The block tree of a page: append_block, the Markdown and section tools, *)
(* update_block, move_block, delete_block and document patches of          *)
(* src/tools/docs.ts.                                                      *)
(*                                                                         *)
(* The hierarchy is in the child lists: sys:parent is null in the blocks   *)
(* the program and the editor write, database rows excepted.               *)
(***************************************************************************)
EXTENDS Naturals, Sequences, SequencesExt, FiniteSets, YjsMerge

CONSTANTS BlockCalls,   \* the tool calls
          Seeded,       \* author of the list entries the page starts with
          StartPages,   \* pages the calls may start from
          AppendInputs, \* append_block inputs: type, text, other fields, strict
          PageBlock, SurfaceBlock, NoteBlock, TextBlock  \* ids of createDocSkeleton

VARIABLES
  bDoc,      \* the server's page: block id -> its flavour, type and child list
  bPhase, bUpdate, bStale,   \* the calls: see DocUpdates
  bLeft      \* the children of blocks deleted with deleteChildren = false

blockVars == <<bDoc, bPhase, bUpdate, bStale, bLeft>>

(* A child list entry is a Yjs item: <<block id, call that inserted it>>.  *)
Entry(b, c) == <<b, c>>
Fresh(c, k) == <<c, k>>                 \* generateId()
Block(f, t, kids) == [flavour |-> f, type |-> t, kids |-> kids]
childIdsFrom(d, p) == [i \in DOMAIN d[p].kids |-> d[p].kids[i][1]]
ParentsOf(d, b) == {p \in DOMAIN d : b \in Range(childIdsFrom(d, p))}
OfFlavour(d, f) == {b \in DOMAIN d : d[b].flavour = f}

(* indexOfChild, counted from 1; 0 when the block is not in the list.      *)
indexOfChild(ids, b) ==
  LET at == {i \in DOMAIN ids : ids[i] = b}
  IN  IF at = {} THEN 0 ELSE CHOOSE i \in at : \A j \in at : i <= j

(* A child list without the entries of some blocks.                        *)
Unlisted(kids, gone) == WithoutItems(kids, {e \in Range(kids) : e[1] \in gone})

(* collectDescendantBlockIds: the ids reached from a set, listed or gone.  *)
Downward(d, S) == S \cup UNION {Range(childIdsFrom(d, b)) : b \in S \cap DOMAIN d}
Reached(d, start) ==
  LET reach[n \in 0..Cardinality(DOMAIN d)] ==
        IF n = 0 THEN start ELSE Downward(d, reach[n - 1])
  IN  reach
Descendants(d, start) == Reached(d, start)[Cardinality(DOMAIN d)]

-----------------------------------------------------------------------------
(* What createBlock makes of a type: its flavour, its prop:type, and, for  *)
(* those built with a text child, that child.                              *)
TextShape(t) ==
  CASE t = "paragraph" -> [flavour |-> "paragraph", type |-> "text", child |-> FALSE]
    [] t \in {"heading", "quote"} -> [flavour |-> "paragraph", type |-> t, child |-> FALSE]
    [] t = "list" -> [flavour |-> "list", type |-> "bulleted", child |-> FALSE]
    [] t = "callout" -> [flavour |-> "callout", type |-> "none", child |-> TRUE]
    [] OTHER -> [flavour |-> t, type |-> "none", child |-> FALSE]   \* code, divider

MediaTypes == {"latex", "table", "bookmark", "image", "attachment"}
EmbedTypes == {"embed_youtube", "embed_github", "embed_figma", "embed_loom", "embed_html",
               "embed_linked_doc", "embed_synced_doc", "embed_iframe", "surface_ref", "database"}

EdgelessShape(t, hasText) ==
  [flavour |-> t, type |-> "none", child |-> hasText /\ t \in {"edgeless_text", "note"}]

BlockShape(t, hasText) ==
  IF t \in {"frame", "edgeless_text", "note"} THEN EdgelessShape(t, hasText)
  ELSE IF t \in MediaTypes \cup EmbedTypes
       THEN [flavour |-> t, type |-> "none", child |-> FALSE]
       ELSE TextShape(t)

AppendTypes ==
  {"paragraph", "heading", "quote", "list", "code", "divider", "callout", "data_view",
   "frame", "edgeless_text", "note"} \cup MediaTypes \cup EmbedTypes

(* validateNormalizedAppendBlockInput: the fields that go with a type only,*)
(* and the fields a type cannot do without.                                *)
FieldTypes ==
  [level |-> {"heading"}, style |-> {"list"}, checked |-> {"list"}, language |-> {"code"},
   url |-> {"bookmark", "embed_youtube", "embed_github", "embed_figma", "embed_loom", "embed_iframe"},
   sourceId |-> {"image", "attachment"}, latex |-> {"latex"}, html |-> {"embed_html"},
   pageId |-> {"embed_linked_doc", "embed_synced_doc"}, reference |-> {"surface_ref"},
   width |-> {"frame", "edgeless_text", "note"}, background |-> {"frame", "note"},
   rows |-> {"table"}, viewMode |-> {"database", "data_view"}]

AlwaysRequired == {"url", "sourceId", "pageId", "reference"}   \* the others when strict

validateNormalizedAppendBlockInput(t, fields, strict) ==
  /\ \A f \in fields : t \in FieldTypes[f] \/ ~strict
  /\ \A f \in AlwaysRequired : t \in FieldTypes[f] => f \in fields
  /\ strict => \A f \in {"latex", "html"} : t \in FieldTypes[f] => f \in fields

-----------------------------------------------------------------------------
(* A placement: at the end or at an index of a parent, next to a block, or *)
(* none. normalizePlacement refuses the combinations left out here.        *)
NoPlacement == [mode |-> "none"]
Placements(ids) ==
  {NoPlacement} \cup [mode : {"append", "after", "before"}, ref : ids]
                \cup [mode : {"index"}, ref : ids, index : 0..1]
                \cup [mode : {"index"}, index : 0..1]

(* The page with a block put into a parent's child list, and with a new    *)
(* block there.                                                            *)
ListedAt(d, at, b, c) ==
  [p \in DOMAIN d |-> IF p # at.parent THEN d[p]
                      ELSE [d[p] EXCEPT !.kids = InsertAt(@, at.pos, Entry(b, c))]]
WithNewBlock(d, at, b, f, t, c) == MapSet(ListedAt(d, at, b, c), b, Block(f, t, <<>>))
LastIn(d, p) == [parent |-> p, pos |-> Len(d[p].kids) + 1]

(* ensureNoteBlock: the first note, or a new one with an empty paragraph.  *)
NewNote(d, c) ==
  LET n == Fresh(c, "note")
      e == WithNewBlock(d, LastIn(d, PageBlock), n, "note", "none", c)
  IN  WithNewBlock(e, LastIn(e, n), Fresh(c, "empty"), "paragraph", "text", c)
ensureNoteBlock(d, c) == IF OfFlavour(d, "note") # {} THEN d ELSE NewNote(d, c)

(* A new surface, last under the page.                                    *)
NewSurface(d, c) ==
  WithNewBlock(d, LastIn(d, PageBlock), Fresh(c, "surface"), "surface", "none", c)
ensureSurfaceBlock(d, c) ==
  IF OfFlavour(d, "surface") # {} THEN d ELSE NewSurface(d, c)

(* The page resolveInsertContext leaves: a placement that names no parent  *)
(* (an index alone does not) may add the default one.                      *)
NamesParent(pl) == "ref" \in DOMAIN pl
DefaultFlavour(t) ==
  CASE t \in {"frame", "edgeless_text"} -> "surface" [] t = "note" -> "page" [] OTHER -> "note"
WithParent(d, c, t, pl) ==
  IF NamesParent(pl) THEN d
  ELSE CASE DefaultFlavour(t) = "surface" -> ensureSurfaceBlock(d, c)
         [] DefaultFlavour(t) = "note" -> ensureNoteBlock(d, c)
         [] OTHER -> d

TargetParents(d, t, pl) ==
  IF ~NamesParent(pl) THEN OfFlavour(d, DefaultFlavour(t))
  ELSE IF pl.mode \in {"after", "before"} /\ pl.ref \in DOMAIN d
       THEN ParentsOf(d, pl.ref) \cap DOMAIN d
       ELSE {pl.ref} \cap DOMAIN d

(* What strict mode refuses of a type under a flavour.                     *)
StrictAllows(t, f) ==
  /\ f = "page" <=> t = "note"
  /\ f = "surface" <=> t \in {"frame", "edgeless_text"}

(* The position, counted from 1, before which the child goes; {} when the  *)
(* placement is out of range and strict.                                   *)
Positions(d, p, pl, strict) ==
  LET kids == childIdsFrom(d, p)
      end  == Len(kids) + 1
  IN  IF ~NamesParent(pl) \/ pl.mode = "append" THEN {end}
      ELSE CASE pl.mode = "after"  -> {indexOfChild(kids, pl.ref) + 1}
             [] pl.mode = "before" -> {indexOfChild(kids, pl.ref)}
             [] OTHER -> IF pl.index < end THEN {pl.index + 1}
                         ELSE IF strict THEN {} ELSE {end}

(* resolveInsertContext on the page WithParent: where the block may go.    *)
resolveInsertContext(d, t, pl, strict) ==
  UNION {{[parent |-> p, pos |-> i] : i \in Positions(d, p, pl, strict)} :
           p \in {q \in TargetParents(d, t, pl) : strict => StrictAllows(t, d[q].flavour)}}

-----------------------------------------------------------------------------
(* insertBlockIntoDoc: the pages an append may leave, {} when it throws.   *)
InsertedBlock(e, at, b, s, c) ==
  LET n == WithNewBlock(e, at, b, s.flavour, s.type, c)
  IN  IF s.child THEN WithNewBlock(n, LastIn(n, b), Fresh(c, "text"), "paragraph", "text", c) ELSE n
insertBlockIntoDoc(d, c, k, t, hasText, pl, strict) ==
  LET e == WithParent(d, c, t, pl)
  IN  {InsertedBlock(e, at, Fresh(c, k), BlockShape(t, hasText), c) :
         at \in resolveInsertContext(e, t, pl, strict)}

removeBlockFromParents(d, b) ==
  [p \in DOMAIN d |-> [d[p] EXCEPT !.kids = Unlisted(@, {b})]]

moveType(f) == IF f \in {"note", "frame", "edgeless_text"} THEN f ELSE "paragraph"

(* An index without a parent means the block's current one.                *)
WithCurrentParent(d, b, pl) ==
  IF pl.mode = "index" /\ ~NamesParent(pl)
  THEN {[mode |-> "index", ref |-> p, index |-> pl.index] : p \in ParentsOf(d, b)}
  ELSE {pl}

(* Out of every child list, then into the target's. (As a mutant of Moved  *)
(* it forgets the handler's refusals.)                                     *)
Relocated(d, c, b, pl) ==
  LET e == removeBlockFromParents(d, b)
      t == moveType(d[b].flavour)
  IN  UNION {{ListedAt(e, at, b, c) : at \in resolveInsertContext(e, t, p, TRUE)} :
               p \in WithCurrentParent(d, b, pl)}

(* Mutant: the target is resolved before the block leaves its old place. *)
MovedBeforeRemoval(d, c, b, pl) ==
  IF \/ d[b].flavour \in {"page", "surface"}
     \/ pl.mode = "none"
     \/ NamesParent(pl) /\ pl.ref \in Descendants(d, {b})
  THEN {}
  ELSE LET e == removeBlockFromParents(d, b)
           t == moveType(d[b].flavour)
       IN  UNION {{[e EXCEPT ![at.parent].kids =
                      InsertAt(@, IF at.pos > Len(@) THEN Len(@) + 1 ELSE at.pos, Entry(b, c))] :
                      at \in resolveInsertContext(d, t, p, TRUE)} :
                    p \in WithCurrentParent(d, b, pl)}

(* moveBlockHandler: {} when it refuses.                                   *)
Moved(d, c, b, pl) ==
  IF \/ d[b].flavour \in {"page", "surface"}
     \/ pl.mode = "none"
     \/ NamesParent(pl) /\ pl.ref \in Descendants(d, {b})
  THEN {}
  ELSE Relocated(d, c, b, pl)

(* deleteBlockInDoc: the block, with its descendants unless told not to,   *)
(* and every list entry that names one of them. The recursive walk keeps   *)
(* no visited set and does not come back from a cycle.                     *)
OnCycle(d, b) == b \in Descendants(d, Range(childIdsFrom(d, b)))
deleteBlockInDoc(d, b, recursive, refuseSurfaceRoot) ==
  LET gone == IF recursive THEN Descendants(d, {b}) ELSE {b}
  IN  IF \/ d[b].flavour = "page"
         \/ refuseSurfaceRoot /\ d[b].flavour = "surface"
         \/ recursive /\ \E x \in gone \cap DOMAIN d : OnCycle(d, x)
      THEN {}
      ELSE {[p \in DOMAIN d \ gone |-> [d[p] EXCEPT !.kids = Unlisted(@, gone)]]}

(* applyMarkdownOperationsInternal: a block for each operation, each after *)
(* the one before; with replaceExisting what was in the note goes first.   *)
Emptied(d, c) ==
  LET e == ensureNoteBlock(d, c)
      n == CHOOSE b \in OfFlavour(e, "note") : TRUE
      gone == Descendants(e, Range(childIdsFrom(e, n)))
  IN  [doc |-> [p \in DOMAIN e \ gone |-> IF p = n THEN [e[p] EXCEPT !.kids = <<>>] ELSE e[p]],
       note |-> n]
applyMarkdownOperations(d, c, replaceExisting, pl) ==
  LET start == IF replaceExisting THEN Emptied(d, c).doc ELSE d
      first == IF replaceExisting THEN [mode |-> "append", ref |-> Emptied(d, c).note] ELSE pl
      next  == [mode |-> "after", ref |-> Fresh(c, "one")]
  IN  UNION {insertBlockIntoDoc(e, c, "two", "list", FALSE, next, TRUE) :
               e \in insertBlockIntoDoc(start, c, "one", "heading", FALSE, first, TRUE)}

(* appendSemanticSectionInternal: a heading and its paragraph at the end of*)
(* the section a heading of the note opens, or at the end of the note.     *)
SectionEnd(d, n, h) ==
  LET kids == childIdsFrom(d, n)
      from == indexOfChild(kids, h)
      next == {i \in from + 1..Len(kids) :
                 kids[i] \in DOMAIN d /\ d[kids[i]].type = "heading"}
  IN  IF next = {} THEN Len(kids) ELSE (CHOOSE i \in next : \A j \in next : i <= j) - 1
appendSection(d, c, title) ==
  LET e == ensureNoteBlock(d, c)
      n == CHOOSE b \in OfFlavour(e, "note") : TRUE
      headings == {b \in Range(childIdsFrom(e, n)) \cap DOMAIN e : e[b].type = "heading"}
      at == IF title = "none" THEN {Len(e[n].kids)}
            ELSE {SectionEnd(e, n, h) : h \in headings}     \* {}: no such heading
      next == [mode |-> "after", ref |-> Fresh(c, "one")]
  IN  UNION {UNION {insertBlockIntoDoc(f, c, "two", "paragraph", FALSE, next, TRUE) :
               f \in insertBlockIntoDoc(e, c, "one", "heading", FALSE,
                       [mode |-> "index", ref |-> n, index |-> i], TRUE)} : i \in at}

(* updateBlockHandler: a conversion keeps the flavour.                     *)
EditTypes(f) == CASE f = "paragraph" -> {"text", "heading", "quote"}
                  [] f = "list" -> {"bulleted", "todo"}
                  [] OTHER -> {}
Updated(d, b, t) ==
  IF t \in EditTypes(d[b].flavour) THEN {[d EXCEPT ![b].type = t]} ELSE {}

(* applyPatchOperations: all of the operations or none.                    *)
PatchInserted(d, c, p, anchor) ==
  IF /\ p \in DOMAIN d
     /\ d[p].flavour \in {"note", "paragraph", "list"}
     /\ anchor \in Range(childIdsFrom(d, p))
  THEN insertBlockIntoDoc(d, c, "one", "paragraph", FALSE, [mode |-> "after", ref |-> anchor], TRUE)
  ELSE {}
PatchDeleted(d, b) ==
  IF \E x \in Descendants(d, {b}) \cap DOMAIN d : d[x].flavour \in {"page", "surface"}
  THEN {} ELSE deleteBlockInDoc(d, b, TRUE, TRUE)
applyPatchOperations(d, c, p, anchor, b) ==
  UNION {IF b \in DOMAIN e THEN PatchDeleted(e, b) ELSE {} : e \in PatchInserted(d, c, p, anchor)}

-----------------------------------------------------------------------------
(* The pages createDocSkeleton makes.                                      *)
createDocSkeleton ==
  [b \in {PageBlock, SurfaceBlock, NoteBlock, TextBlock} |->
     CASE b = PageBlock -> Block("page", "none", <<Entry(SurfaceBlock, Seeded), Entry(NoteBlock, Seeded)>>)
       [] b = SurfaceBlock -> Block("surface", "none", <<>>)
       [] b = NoteBlock -> Block("note", "none", <<Entry(TextBlock, Seeded)>>)
       [] OTHER -> Block("paragraph", "text", <<>>)]

(* An update to the page: whole blocks, their types and their child lists. *)
BlockMerge(now, base, made) ==
  LET gone == DOMAIN base \ DOMAIN made
      new  == DOMAIN made \ DOMAIN base
  IN  [b \in (DOMAIN now \ gone) \cup new |->
         IF b \in new THEN made[b]
         ELSE IF b \notin DOMAIN base THEN now[b]
         ELSE Block(now[b].flavour, IF made[b].type # base[b].type THEN made[b].type ELSE now[b].type,
                    MergedList(now[b].kids, base[b].kids, made[b].kids))]

BU == INSTANCE DocUpdates WITH Calls <- BlockCalls, Merge <- BlockMerge,
        doc <- bDoc, phase <- bPhase, update <- bUpdate, stale <- bStale

-----------------------------------------------------------------------------
(* A page: blocks, the root among them, with lists of children.            *)
IsPage(d) ==
  /\ IsMap(d) /\ IsFiniteSet(DOMAIN d)
  /\ PageBlock \in DOMAIN d /\ d[PageBlock].flavour = "page"
  /\ \A b \in DOMAIN d : d[b] = Block(d[b].flavour, d[b].type, d[b].kids)
  /\ \A b \in DOMAIN d : d[b].kids \in Seq(Range(d[b].kids))

(* No block has a type its flavour does not have.                          *)
TypesFit(d) == \A b \in DOMAIN d : d[b].type # "none" => d[b].type \in EditTypes(d[b].flavour)

(* Each block is listed once, nothing listed is gone, no block is its own  *)
(* ancestor, there is one surface at most, and all but what was left is    *)
(* below the root.                                                         *)
Entries(d) == UNION {{<<p, i>> : i \in DOMAIN d[p].kids} : p \in DOMAIN d}
OneTree(d, left) ==
  /\ \A e \in Entries(d) : childIdsFrom(d, e[1])[e[2]] \in DOMAIN d \ {PageBlock}
  /\ \A e, f \in Entries(d) : childIdsFrom(d, e[1])[e[2]] = childIdsFrom(d, f[1])[f[2]] => e = f
  /\ \A b \in DOMAIN d : ~OnCycle(d, b)
  /\ \A a, b \in OfFlavour(d, "surface") : a = b
  /\ DOMAIN d \subseteq Descendants(d, {PageBlock} \cup left)

(* The ids and entries a call makes.                                       *)
MadeBy(c) == {Fresh(c, k) : k \in {"one", "two", "text", "note", "empty", "surface"}}
NothingBy(c, d) ==
  \A b \in DOMAIN d : b \notin MadeBy(c) /\ \A e \in Range(d[b].kids) : e[2] # c

(* A page starts as one tree, new ids are fresh, and append_block takes the*)
(* types it names.                                                         *)
ASSUME BlockAssumption ==
  /\ \A d \in StartPages :
       IsPage(d) /\ TypesFit(d) /\ OneTree(d, {}) /\ \A c \in BlockCalls : NothingBy(c, d)
  /\ \A i \in AppendInputs : i.type \in AppendTypes

BlockInit ==
  /\ bDoc \in StartPages
  /\ BU!UpdatesInit
  /\ bLeft = {}

appendBlock(c) ==
  /\ \E i \in AppendInputs, pl \in Placements(DOMAIN bDoc) :
       BU!Handled(c, IF validateNormalizedAppendBlockInput(i.type, i.fields, i.strict)
                  THEN insertBlockIntoDoc(bDoc, c, "one", i.type, i.text, pl, i.strict) ELSE {},
               {[block |-> Fresh(c, "one"), placement |-> pl]})
  /\ UNCHANGED bLeft

applyMarkdown(c) ==
  /\ \E pl \in {NoPlacement, [mode |-> "after", ref |-> TextBlock]}, replaceExisting \in BOOLEAN :
       BU!Handled(c, applyMarkdownOperations(bDoc, c, replaceExisting, pl),
               {[block |-> Fresh(c, "two"), placement |-> [mode |-> "after", ref |-> Fresh(c, "one")]]})
  /\ UNCHANGED bLeft

appendSemanticSection(c) ==
  /\ \E title \in {"none", "heading"} :
       BU!Handled(c, appendSection(bDoc, c, title),
               {[block |-> Fresh(c, "two"), placement |-> [mode |-> "after", ref |-> Fresh(c, "one")]]})
  /\ UNCHANGED bLeft

updateBlock(c) ==
  /\ \E b \in DOMAIN bDoc, t \in {"heading", "quote", "todo"} :
       BU!Handled(c, Updated(bDoc, b, t), {})
  /\ UNCHANGED bLeft

moveBlock(c) ==
  /\ \E b \in DOMAIN bDoc, pl \in Placements(DOMAIN bDoc) :
       BU!Handled(c, Moved(bDoc, c, b, pl), {[block |-> b, placement |-> pl]})
  /\ UNCHANGED bLeft

deleteBlock(c) ==
  \E b \in DOMAIN bDoc, recursive \in BOOLEAN :
    /\ BU!Handled(c, deleteBlockInDoc(bDoc, b, recursive, FALSE), {})
    /\ bLeft' = IF recursive \/ bPhase'[c] = "refused" THEN bLeft ELSE bLeft \cup Range(childIdsFrom(bDoc, b))

patchBlocks(c) ==
  /\ \E p, anchor, b \in DOMAIN bDoc :
       BU!Handled(c, applyPatchOperations(bDoc, c, p, anchor, b), {})
  /\ UNCHANGED bLeft

BlockNext ==
  \/ \E c \in BlockCalls :
       \/ appendBlock(c) \/ applyMarkdown(c) \/ appendSemanticSection(c) \/ updateBlock(c)
       \/ moveBlock(c) \/ deleteBlock(c) \/ patchBlocks(c)
       \/ BU!MergeUpdate(c) /\ UNCHANGED bLeft
       \/ BU!LoseAck(c) /\ UNCHANGED bLeft
  \/ BU!UpdatesDone /\ UNCHANGED bLeft

BlockSpec == BlockInit /\ [][BlockNext]_blockVars

-----------------------------------------------------------------------------
(* While every update is merged onto the page it was computed from, the    *)
(* page is one tree: each block is listed once, nothing listed is gone,    *)
(* there is one surface at most, no block is its own ancestor, and only    *)
(* what a deleteChildren = false left is unlisted. And no merge at all     *)
(* leaves a block with a type its flavour does not have.                   *)
BlocksFormATree == TypesFit(bDoc) /\ (~bStale => OneTree(bDoc, bLeft))

(* A merged append or move of a page no late update has touched put *)
(* the block where the call asked: next to the block, at the index, or     *)
(* last in the parent.                                                     *)
StandsAt(d, b, pl) ==
  LET Pos(p) == indexOfChild(childIdsFrom(d, p), b)
      Ref(p) == indexOfChild(childIdsFrom(d, p), pl.ref)
  IN  \E p \in ParentsOf(d, b) :
        CASE pl.mode = "after"  -> Ref(p) # 0 /\ Pos(p) = Ref(p) + 1
          [] pl.mode = "before" -> Ref(p) # 0 /\ Pos(p) = Ref(p) - 1
          [] pl.mode = "append" -> p = pl.ref /\ Pos(p) = Len(d[p].kids)
          [] pl.mode = "index" /\ NamesParent(pl) ->
               p = pl.ref /\ (Pos(p) = pl.index + 1 \/ Pos(p) = Len(d[p].kids))
          [] OTHER -> TRUE
PlacementHonoured ==
  \A c \in BlockCalls :
    bPhase[c] = "merged" /\ ~bStale =>
      \A a \in bUpdate[c].asked : StandsAt(bDoc, a.block, a.placement)
=============================================================================
