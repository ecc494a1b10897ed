-------------------------------- MODULE Tables --------------------------------
(***************************************************************************)
(* Native tables: update_table_cell and update_table_column_widths of      *)
(* src/tools/docs.ts, over the ways AFFiNE stores a table.                 *)
(*                                                                         *)
(* Rows, columns and cells are nested Y.Maps, plain objects, or flat keys  *)
(* of the block. The cells of an object table are a Y.Map here: a table    *)
(* whose cells are a plain object is read but not written faithfully (see  *)
(* the README) and is left out.                                            *)
(***************************************************************************)
EXTENDS Naturals, Sequences, SequencesExt, YjsMerge

CONSTANTS TableCalls,   \* the tool calls
          Rows,         \* row ids the table starts with, in their order
          Columns,      \* column ids, in their order
          NewRow,       \* a row somebody adds in the editor
          Texts,        \* cell texts; Empty is one
          Empty,
          Widths,       \* column widths
          Automatic     \* a column without an explicit width

VARIABLES
  tDoc,                    \* the table block
  tPhase, tUpdate, tStale  \* the calls: see DocUpdates

tableVars == <<tDoc, tPhase, tUpdate, tStale>>

(* The table of append_block: flat keys; older ones are nested or objects. *)
Table(layout) ==
  [layout |-> layout, order |-> Rows,
   cells |-> <<>>,                                     \* prop:cells
   flat  |-> IF layout = "flat"                        \* prop:cells.{row}:{column}.text
             THEN [k \in Range(Rows) \X Range(Columns) |-> Empty] ELSE <<>>,
   width |-> [c \in Range(Columns) |-> Automatic]]

(* extractTableData: missing cells are empty; flat cells are read only of  *)
(* a table with neither nested rows nor nested columns.                    *)
CellsOf(t) == IF t.layout = "flat" THEN t.flat ELSE t.cells
extractTableData(t) ==
  [k \in Range(t.order) \X Range(Columns) |-> IF k \in DOMAIN CellsOf(t) THEN CellsOf(t)[k] ELSE Empty]

readTableColumnWidth(t, c) == t.width[c]
writeTableColumnWidth(t, c, w) == [t EXCEPT !.width[c] = w]
totalTableColumnWidth(t) ==
  IF \E c \in DOMAIN t.width : t.width[c] = Automatic THEN Automatic
  ELSE FoldFunction(+, 0, t.width)

(* Mutant: an object table is taken for a flat one. *)
writeUnlessNested(t, k, text) ==
  IF t.layout # "map" THEN [t EXCEPT !.flat = MapSet(@, k, text)]
  ELSE [t EXCEPT !.cells = MapSet(@, k, text)]

writeTableCellText(t, k, text) ==
  IF t.layout = "flat" THEN [t EXCEPT !.flat = MapSet(@, k, text)]
  ELSE [t EXCEPT !.cells = MapSet(@, k, text)]

(* What the handlers leave; {} when they throw or find nothing to change.  *)
CellUpdated(t, row, column, text) ==
  IF row >= Len(t.order) \/ column >= Len(Columns) THEN {}
  ELSE LET k == <<t.order[row + 1], Columns[column + 1]>>
       IN  IF extractTableData(t)[k] = text THEN {} ELSE {writeTableCellText(t, k, text)}

WidthsUpdated(t, widths) ==
  LET Write(done, i) == IF readTableColumnWidth(done, Columns[i]) = widths[i] THEN done
                        ELSE writeTableColumnWidth(done, Columns[i], widths[i])
      W[i \in 0..Len(Columns)] == IF i = 0 THEN t ELSE Write(W[i - 1], i)
  IN  IF Len(widths) # Len(Columns) \/ W[Len(Columns)] = t THEN {} ELSE {W[Len(Columns)]}

TableMerge(now, base, made) ==
  [now EXCEPT !.order = MergedList(@, base.order, made.order),
              !.cells = MergedMap(@, base.cells, made.cells),
              !.flat  = MergedMap(@, base.flat, made.flat),
              !.width = MergedMap(@, base.width, made.width)]

TU == INSTANCE DocUpdates WITH Calls <- TableCalls, Merge <- TableMerge,
        doc <- tDoc, phase <- tPhase, update <- tUpdate, stale <- tStale

(* Rows and columns are lists of ids.                                      *)
ASSUME TablesAssumption ==
  /\ Rows \in Seq(Range(Rows)) /\ Columns \in Seq(Range(Columns))
  /\ \A i, j \in DOMAIN Rows : Rows[i] = Rows[j] => i = j

TablesInit ==
  /\ tDoc \in {Table(layout) : layout \in {"map", "object", "flat"}}
  /\ TU!UpdatesInit

updateTableCell(c) ==
  \E row \in 0..Len(Rows), column \in 0..Len(Columns), text \in Texts :
    TU!Handled(c, CellUpdated(tDoc, row, column, text),
      IF row < Len(tDoc.order) /\ column < Len(Columns)
      THEN {[cell |-> <<tDoc.order[row + 1], Columns[column + 1]>>, text |-> text]} ELSE {})

updateTableColumnWidths(c) ==
  \E widths \in [DOMAIN Columns -> Widths \cup {Automatic}] \cup {<<>>} :
    TU!Handled(c, WidthsUpdated(tDoc, widths), {})

(* Somebody adds a row in the editor, first or last.                       *)
EditorAddsRow ==
  /\ NewRow \notin Range(tDoc.order)
  /\ \E at \in {1, Len(tDoc.order) + 1} : tDoc' = [tDoc EXCEPT !.order = InsertAt(@, at, NewRow)]
  /\ UNCHANGED <<tPhase, tUpdate, tStale>>

TablesNext ==
  \/ \E c \in TableCalls : updateTableCell(c) \/ updateTableColumnWidths(c)
                           \/ TU!MergeUpdate(c) \/ TU!LoseAck(c)
  \/ EditorAddsRow
  \/ TU!UpdatesDone

TablesSpec == TablesInit /\ [][TablesNext]_tableVars

-----------------------------------------------------------------------------
(* A cell update, late or not, whatever row was added since its load, sets *)
(* the text of the cell it found at the coordinates and of no other, as a  *)
(* reader of the table sees it, and leaves the widths; an update of the    *)
(* widths leaves every cell.                                               *)
TableEditsHitTheirCells ==
  [][\A c \in TableCalls : tPhase[c] \in {"sent", "lost"} /\ tPhase'[c] \in {"merged", "late"} =>
       LET before == extractTableData(tDoc)
           after  == extractTableData(tDoc')
           asked  == tUpdate[c].asked
       IN  IF asked = {} THEN after = before
           ELSE \A a \in asked :
                  /\ after = [before EXCEPT ![a.cell] = a.text]
                  /\ tDoc'.width = tDoc.width
                  /\ totalTableColumnWidth(tDoc') = totalTableColumnWidth(tDoc)]_tableVars
=============================================================================
