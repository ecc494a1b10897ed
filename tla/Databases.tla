------------------------------ MODULE Databases ------------------------------
(***************************************************************************)
(* Database blocks: their columns, select options, views, rows and cells,  *)
(* and the tools that edit them (src/tools/docs.ts, "database").           *)
(*                                                                         *)
(* A row is a paragraph listed in the block's children and a map of cells; *)
(* a select cell holds the id of an option of its column.                  *)
(***************************************************************************)
EXTENDS Naturals, Sequences, FiniteSets, SequencesExt, YjsMerge

CONSTANTS DbCalls,     \* the tool calls; each may need a second push
          Board,       \* the database the page starts with
          Labels,      \* labels of select options
          NoLabel,     \* an option created without a label in the model
          OwnData      \* the data map a column is created with; the map a call
                       \* gives a column that has none is named by the call

VARIABLES
  dDoc,       \* dDoc[db]: the databases of the page
  dPhase, dUpdate, dStale,   \* the pushes: see DocUpdates
  dComposing  \* the composition between its two pushes, if any

dbVars == <<dDoc, dPhase, dUpdate, dStale, dComposing>>

Fill(c) == <<c, "fill">>               \* the second push of a composition
Pushes == DbCalls \cup {Fill(c) : c \in DbCalls}
NewId(c, k) == <<c, k>>
Column(id, name, type) == [id |-> id, name |-> name, type |-> type]

SelectTypes == {"select", "multi-select"}
readColumnDefs(db) == db.columns
ColumnNamed(db, name) == {col \in readColumnDefs(db) : col.name = name}
IsTitleKey(key) == key = "title"

(* A select column keeps its options in its data map, and only those in    *)
(* the map it has now are read: setting the key anew, or a merge of two    *)
(* updates that both set it, leaves the options of the other map behind.   *)
OptionsOf(db, col) ==
  {o \in db.options : /\ o.column = col.id /\ col.id \in DOMAIN db.data
                      /\ o.map = db.data[col.id]}
getDatabaseRowIds(db) == db.rows

(* createDatabaseColumnDefinition and its entry in every view: a select    *)
(* column has a data map only if it is given options.                      *)
WithColumn(db, col, labels) ==
  LET options == IF col.type \in SelectTypes THEN labels ELSE {}
  IN  [db EXCEPT !.columns = @ \cup {col},
                 !.shown = @ \cup {<<v, col.id>> : v \in db.views},
                 !.data = IF options = {} THEN @ ELSE MapSet(@, col.id, OwnData),
                 !.options = @ \cup {[column |-> col.id, id |-> <<col.id, l>>, label |-> l, map |-> OwnData] :
                                       l \in options}]

(* createPresetBackedDataViewBlock: a board with a title and a status.     *)
EmptyBoard(c) ==
  LET bare == [columns |-> {}, data |-> [k \in {} |-> {}], options |-> {}, views |-> {NewId(c, "view")},
               shown |-> {}, rows |-> {}, blocks |-> {}, cells |-> [k \in {} |-> {}]]
  IN  WithColumn(WithColumn(bare, Column(NewId(c, "Title"), "Title", "title"), {}),
                 Column(NewId(c, "Status"), "Status", "select"), {"todo"})

-----------------------------------------------------------------------------
(* The data map a column has, or is given by the call that finds none.     *)
DataMap(db, c, col) == IF col.id \in DOMAIN db.data THEN db.data[col.id] ELSE c

(* resolveSelectOptionId: the option with the label, or a new one; {} when *)
(* it may not be created. The new option goes into the column as well.     *)
resolveSelectOptionId(db, c, col, label, createOption) ==
  LET known == {o \in OptionsOf(db, col) : o.label = label}
      new   == [column |-> col.id, id |-> NewId(c, <<col.name, label>>), label |-> label,
                map |-> DataMap(db, c, col)]
  IN  IF known # {} THEN {[db |-> db, value |-> o.id] : o \in known}
      ELSE IF createOption
      THEN {[db    |-> [db EXCEPT !.data = MapSet(@, col.id, new.map), !.options = @ \cup {new}],
             value |-> new.id]}
      ELSE {}

(* writeDatabaseCellValue: the databases the write may leave.              *)
(* Mutant: the option is resolved without being stored in the column. *)
writeCellUnstored(db, c, row, col, value, createOption) ==
  IF col.type \in SelectTypes
  THEN {[db EXCEPT !.cells = MapSet(@, <<row, col.id>>, r.value)] :
          r \in resolveSelectOptionId(db, c, col, value, createOption)}
  ELSE {[db EXCEPT !.cells = MapSet(@, <<row, col.id>>, value)]}

writeDatabaseCellValue(db, c, row, col, value, createOption) ==
  IF col.type \in SelectTypes
  THEN {[r.db EXCEPT !.cells = MapSet(@, <<row, col.id>>, r.value)] :
          r \in resolveSelectOptionId(db, c, col, value, createOption)}
  ELSE {[db EXCEPT !.cells = MapSet(@, <<row, col.id>>, value)]}

(* The cells of a call, in order: an unknown column other than the title   *)
(* alias makes the whole call throw.                                       *)
WriteCell(db, c, row, cell, createOption) ==
  IF ColumnNamed(db, cell.key) = {} THEN IF IsTitleKey(cell.key) THEN {db} ELSE {}
  ELSE UNION {writeDatabaseCellValue(db, c, row, col, cell.value, createOption) :
                col \in ColumnNamed(db, cell.key)}
WriteCells(db, c, row, cells, createOption) ==
  LET Written[i \in 0..Len(cells)] ==
        IF i = 0 THEN {db}
        ELSE UNION {WriteCell(d, c, row, cells[i], createOption) : d \in Written[i - 1]}
  IN  Written[Len(cells)]

addDatabaseRowToBlock(db, c, row, cells) ==
  WriteCells([db EXCEPT !.rows = @ \cup {row}, !.blocks = @ \cup {row}], c, row, cells, TRUE)

(* getDatabaseRowBlock: the row's block is there. (Its sys:parent names    *)
(* the database, so it need not be listed.)                                *)
getDatabaseRowBlock(db, row) == row \in db.blocks

CellsIn(cells, rows) == [k \in {k \in DOMAIN cells : k[1] \in rows} |-> cells[k]]
DeletedRow(db, row) ==
  IF getDatabaseRowBlock(db, row) /\ row \in getDatabaseRowIds(db)
  THEN {[db EXCEPT !.rows = @ \ {row}, !.blocks = @ \ {row}, !.cells = CellsIn(@, db.rows \ {row})]}
  ELSE {}

UpdatedRow(db, c, row, cells, createOption) ==
  IF getDatabaseRowBlock(db, row) THEN WriteCells(db, c, row, cells, createOption) ELSE {}

(* addDatabaseColumnHandler: no second column of the name, nor a second    *)
(* title; a select column need not be given options.                       *)
AddedColumn(db, c, name, type, labels) ==
  IF \/ ColumnNamed(db, name) # {}
     \/ type = "title" /\ \E col \in readColumnDefs(db) : col.type = "title"
  THEN {} ELSE {WithColumn(db, Column(NewId(c, name), name, type), labels)}

(* The second push of compose_database_from_intent: the preset's status    *)
(* options, its columns and its starter rows (buildDatabaseIntentPreset).  *)
replaceSelectColumnOptions(db, c, col, labels) ==
  [db EXCEPT !.data = MapSet(@, col.id, DataMap(db, c, col)),
             !.options = (@ \ OptionsOf(db, col)) \cup
               {[column |-> col.id, id |-> NewId(c, <<"preset", l>>), label |-> l,
                 map |-> DataMap(db, c, col)] : l \in labels}]
addDatabaseColumnToBlock(db, c, name, type, labels) ==
  IF ColumnNamed(db, name) # {}
  THEN IF \E col \in ColumnNamed(db, name) : col.type = type THEN {db} ELSE {}
  ELSE {WithColumn(db, Column(NewId(c, name), name, type), labels)}
Filled(db, c) ==
  LET status == CHOOSE col \in ColumnNamed(db, "Status") : TRUE
      typed  == addDatabaseColumnToBlock(
                  replaceSelectColumnOptions(db, c, status, {"todo", "blocked"}),
                  c, "Type", "select", {"Task"})
      starter == <<[key |-> "title", value |-> "scope"], [key |-> "Status", value |-> "blocked"],
                   [key |-> "Type", value |-> "Task"]>>
  IN  UNION {addDatabaseRowToBlock(d, c, NewId(c, "starter"), starter) : d \in typed}

-----------------------------------------------------------------------------
(* The columns, options, views and rows are only added or removed whole; a *)
(* data map is a key of its column's map, a cell one of its row's map,     *)
(* which goes with the row.                                                *)
MergeDatabase(now, base, made) ==
  LET merged == [f \in DOMAIN now |->
                   IF f \in {"data", "cells"} THEN MergedMap(now[f], base[f], made[f])
                   ELSE MergedSet(now[f], base[f], made[f])]
  IN  [merged EXCEPT !.cells = CellsIn(@, merged.rows)]
DbMerge(now, base, made) ==
  [db \in DOMAIN now \cup DOMAIN made |->
     IF db \notin DOMAIN now THEN made[db]
     ELSE IF db \notin DOMAIN base \cap DOMAIN made THEN now[db]
     ELSE MergeDatabase(now[db], base[db], made[db])]

DU == INSTANCE DocUpdates WITH Calls <- Pushes, Merge <- DbMerge,
        doc <- dDoc, phase <- dPhase, update <- dUpdate, stale <- dStale

(* A new element has an id of its own, and so has the map a column is      *)
(* created with; every option has a label.                                 *)
ASSUME DatabasesAssumption ==
  /\ Board \notin Pushes
  /\ \A c \in DbCalls \cup {Board} : Fill(c) \notin DbCalls
  /\ OwnData \notin DbCalls \cup {Board}
  /\ NoLabel \notin Labels \cup {"todo", "blocked", "Task", "scope"}

(* A board with a row, which may have a select column without options.     *)
DatabasesInit ==
  /\ \E board \in {EmptyBoard(Board)} \cup AddedColumn(EmptyBoard(Board), Board, "Owner", "select", {}) :
       \E db \in addDatabaseRowToBlock(board, Board, NewId(Board, "row"),
                                       <<[key |-> "Status", value |-> "todo"]>>) :
         dDoc = [d \in {Board} |-> db]
  /\ DU!UpdatesInit
  /\ dComposing = {}

(* The write queue serves nobody else between the two pushes.              *)
Edit(c, db, results) ==
  /\ dComposing = {}
  /\ db \in DOMAIN dDoc        \* loadDatabaseDocContext
  /\ DU!Handled(c, {[dDoc EXCEPT ![db] = r] : r \in results}, {})
  /\ UNCHANGED dComposing

CellInputs == {<<[key |-> k, value |-> l]>> : k \in {"Status", "Owner", "title"}, l \in Labels}
  \cup {<<[key |-> "Status", value |-> l], [key |-> "Owner", value |-> l]>> : l \in Labels}

addDatabaseRow(c) ==
  \E db \in DOMAIN dDoc, cells \in CellInputs :
    Edit(c, db, addDatabaseRowToBlock(dDoc[db], c, NewId(c, "row"), cells))
deleteDatabaseRow(c) ==
  \E db \in DOMAIN dDoc : \E row \in dDoc[db].blocks \cup {NewId(c, "row")} :
    Edit(c, db, DeletedRow(dDoc[db], row))
updateDatabaseRow(c) ==
  \E db \in DOMAIN dDoc, cells \in CellInputs, createOption \in BOOLEAN :
    \E row \in dDoc[db].blocks :
      Edit(c, db, UpdatedRow(dDoc[db], c, row, cells, createOption))
addDatabaseColumn(c) ==
  \E db \in DOMAIN dDoc, name \in {"Status", "Owner"}, type \in {"select", "title"}, labels \in {{}, {"todo"}} :
    Edit(c, db, AddedColumn(dDoc[db], c, name, type, labels))

composeDatabase(c) ==
  /\ dComposing = {}
  /\ DU!Handled(c, {MapSet(dDoc, c, EmptyBoard(c))}, {})
  /\ dComposing' = {c}
FillDatabase(c) ==
  /\ c \in dComposing
  /\ dPhase[c] = "merged"
  /\ DU!Handled(Fill(c), {[dDoc EXCEPT ![c] = r] : r \in Filled(dDoc[c], c)}, {})
  /\ dComposing' = {}
(* The first push fails, or the database does not load again: the call     *)
(* ends with an error and what is there stays.                             *)
ComposeFails(c) ==
  /\ c \in dComposing
  /\ dPhase[c] # "sent"
  /\ dComposing' = {}
  /\ dPhase' = [dPhase EXCEPT ![Fill(c)] = "refused"]
  /\ UNCHANGED <<dDoc, dUpdate, dStale>>

Over == \A c \in DbCalls : dPhase[c] \in {"merged", "refused", "lost", "late"}
DatabasesNext ==
  \/ \E c \in DbCalls :
       \/ addDatabaseRow(c) \/ deleteDatabaseRow(c) \/ updateDatabaseRow(c)
       \/ addDatabaseColumn(c) \/ composeDatabase(c) \/ FillDatabase(c) \/ ComposeFails(c)
  \/ \E p \in Pushes : (DU!MergeUpdate(p) \/ DU!LoseAck(p)) /\ UNCHANGED dComposing
  \/ Over /\ UNCHANGED dbVars

DatabasesSpec == DatabasesInit /\ [][DatabasesNext]_dbVars

-----------------------------------------------------------------------------
(* read_database_cells: a select value whose option is not found is shown  *)
(* as the bare option id.                                                  *)
decodeDatabaseCellValue(db, col, v) ==
  LET found == {o \in OptionsOf(db, col) : o.id = v}
  IN  IF col.type \notin SelectTypes THEN v
      ELSE IF found = {} THEN NoLabel ELSE (CHOOSE o \in found : TRUE).label

ColumnOf(db, k) == CHOOSE col \in db.columns : col.id = k[2]

(* The option v went into a data map the column was given by a call and    *)
(* has lost since.                                                         *)
LostOption(db, col, v) ==
  /\ col.id \in DOMAIN db.data /\ db.data[col.id] # OwnData
  /\ \E o \in db.options : o.column = col.id /\ o.id = v /\ o.map # db.data[col.id]

(* Whatever is merged late or out of order, a database stays readable:     *)
(* the listed rows are the row blocks, every view shows every column, a    *)
(* cell has its row and its column, and a select cell reads as a label,    *)
(* unless the late update is the second push of a composition, which       *)
(* replaces the status options a row may use by then, or the column was    *)
(* created without options: each of two calls that write a first cell      *)
(* gives it a data map, and once one of them is merged late the column has *)
(* the map of one call and the cell of the other has lost its option. As   *)
(* long as nothing is merged late, names and titles are unique.            *)
DatabasesStayReadable ==
  \A d \in DOMAIN dDoc : LET db == dDoc[d] IN
    /\ db.rows = db.blocks
    /\ db.shown = db.views \X {col.id : col \in db.columns}
    /\ \A k \in DOMAIN db.cells :
         /\ k[1] \in db.rows /\ \E col \in db.columns : col.id = k[2]
         /\ \/ decodeDatabaseCellValue(db, ColumnOf(db, k), db.cells[k]) # NoLabel
            \/ d # Board /\ dPhase[Fill(d)] = "late"
            \/ dStale /\ LostOption(db, ColumnOf(db, k), db.cells[k])
    /\ ~dStale => \A x, y \in db.columns :
                    (x.name = y.name \/ {x.type, y.type} = {"title"}) => x = y
=============================================================================
