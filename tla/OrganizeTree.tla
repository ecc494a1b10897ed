----------------------------- MODULE OrganizeTree -----------------------------
(***************************************************************************)
(* The folders of the sidebar (src/tools/organize.ts): one record per node *)
(* in the document db$workspace$folders. A deleted record keeps its id and *)
(* the mark $$DELETED. Fractional indexes are the integer keys a0, a1, ... *)
(* of generateKeyBetween by number; the random postfix is left out, so two *)
(* nodes may have one key.                                                 *)
(***************************************************************************)
EXTENDS Naturals, FiniteSets, YjsMerge

CONSTANTS TreeCalls,     \* the tool calls; a node has the call that made it for its id
          StartTree,     \* the records at first
          NoNode,        \* no parent: a folder of the root section
          LocaleRank,    \* how localeCompare ranks the keys
          MAX_KEY        \* bounds the keys

VARIABLES oDoc,          \* oDoc[id]: the fields of a record
          oPhase, oUpdate, oStale,   \* see DocUpdates
          oPlanned,      \* calls between the pushes of create_workspace_blueprint
          oHung          \* delete_folder turns in circles; it never awaits again
treeVars == <<oDoc, oPhase, oUpdate, oStale, oPlanned, oHung>>

Child(c) == <<c, "child">>
TreePushes == TreeCalls \cup {Child(c) : c \in TreeCalls}

Node(type, data, parent, index) ==
  [type |-> type, data |-> data, parentId |-> parent, index |-> index]

(* What readOrganizeNodes skips: deleted records and incomplete ones.      *)
Nodes(d) == {n \in DOMAIN d : "deleted" \notin DOMAIN d[n] /\ {"type", "data", "index"} \subseteq DOMAIN d[n]}
Folders(d) == {n \in Nodes(d) : d[n]["type"] = "folder"}
Parent(d, n) == IF "parentId" \in DOMAIN d[n] THEN d[n]["parentId"] ELSE NoNode
ChildrenOf(d, p) == {n \in Nodes(d) : Parent(d, n) = p}

(* The nodes met on the way up from n, n not among them unless it is below *)
(* itself.                                                                 *)
Upward(d, S) == S \cup {Parent(d, x) : x \in S \cap Nodes(d)}
Climbed(d, n) ==
  LET Climb[i \in 0..Cardinality(DOMAIN d) + 1] ==
        IF i = 0 THEN {Parent(d, n)} ELSE Upward(d, Climb[i - 1])
  IN  Climb
Ancestors(d, n) == Climbed(d, n)[Cardinality(DOMAIN d) + 1] \ {NoNode}

(* The parent of a node is a folder that is there, only folders are in the *)
(* root section, and nothing is below itself but a folder in itself.       *)
WholeTree(d) ==
  \A n \in Nodes(d) :
    /\ Parent(d, n) = NoNode => n \in Folders(d)
    /\ Parent(d, n) # NoNode => Parent(d, n) \in Folders(d)
    /\ n \in Ancestors(d, n) => Parent(d, n) = n

(* The ids of new nodes are fresh, and the tree is whole at first.         *)
ASSUME TreeAssumption ==
  /\ IsFiniteSet(TreeCalls) /\ IsFiniteSet(DOMAIN StartTree)
  /\ TreePushes \cap DOMAIN StartTree = {}
  /\ NoNode \notin TreePushes \cup DOMAIN StartTree
  /\ StartTree = [n \in DOMAIN StartTree |-> StartTree[n]]
  /\ \A n \in DOMAIN StartTree : StartTree[n] = [k \in DOMAIN StartTree[n] |-> StartTree[n][k]]
  /\ WholeTree(StartTree)

isAncestor(d, child, node) == child # node /\ node \in Ancestors(d, child)

(* After the sibling that localeCompare puts last.                         *)
nextOrganizeIndex(d, siblings) ==
  IF siblings = {} THEN 0
  ELSE 1 + d[CHOOSE n \in siblings : \A s \in siblings :
               LocaleRank[d[s]["index"]] <= LocaleRank[d[n]["index"]]]["index"]

ensureFolderParent(d, p) == p = NoNode \/ p \in Folders(d)

CreatedNode(d, id, type, p) ==
  MapSet(d, id, Node(type, id, p, nextOrganizeIndex(d, ChildrenOf(d, p))))

deleteRecord(d, S) == [n \in DOMAIN d |-> IF n \in S THEN [deleted |-> TRUE] ELSE d[n]]

(* Mutant: the folder and what it lists go, not what is below.             *)
DeletedShallow(d, f) == deleteRecord(d, {f} \cup ChildrenOf(d, f))

DeletedFolder(d, f) == deleteRecord(d, {f} \cup {n \in Nodes(d) : f \in Ancestors(d, n)})

MovedNode(d, n, p) ==
  LET index == nextOrganizeIndex(d, ChildrenOf(d, p) \ {n})
  IN  [d EXCEPT ![n] = MapSet(MapSet(@, "parentId", p), "index", index)]
MayMove(d, n, p) ==
  /\ n \in Nodes(d)
  /\ ensureFolderParent(d, p)
  /\ p = NoNode => n \in Folders(d)
  /\ p # NoNode /\ n \in Folders(d) => ~isAncestor(d, p, n)

-----------------------------------------------------------------------------
(* The whole document is pushed; what it adds are the fields set since.    *)
TreeMerge(now, base, made) ==
  [n \in DOMAIN now \cup DOMAIN made |->
     IF n \notin DOMAIN now THEN made[n]
     ELSE IF n \notin DOMAIN base \cap DOMAIN made THEN now[n]
     ELSE MergedMap(now[n], base[n], made[n])]

OU == INSTANCE DocUpdates WITH Calls <- TreePushes, Merge <- TreeMerge,
        doc <- oDoc, phase <- oPhase, update <- oUpdate, stale <- oStale

OrganizeInit ==
  /\ oDoc = StartTree
  /\ OU!UpdatesInit
  /\ oPlanned = {}
  /\ oHung = FALSE

KeysFit(d) == \A n \in Nodes(d) : d[n]["index"] <= MAX_KEY
Shape(c, ok, made, placed) ==
  /\ ~oHung /\ oPlanned = {}
  /\ ok => KeysFit(made)
  /\ OU!Handled(c, IF ok THEN {made} ELSE {}, placed)
  /\ UNCHANGED <<oPlanned, oHung>>

Asked == DOMAIN oDoc \cup {NoNode}
createFolder(c) == \E p \in Asked :
  Shape(c, ensureFolderParent(oDoc, p), CreatedNode(oDoc, c, "folder", p), {c})
addOrganizeLink(c) == \E f \in DOMAIN oDoc :
  Shape(c, f \in Folders(oDoc), CreatedNode(oDoc, c, "link", f), {c})
deleteFolder(c) == \E f \in DOMAIN oDoc :
  /\ f \in Folders(oDoc) => f \notin Ancestors(oDoc, f)
  /\ Shape(c, f \in Folders(oDoc), DeletedFolder(oDoc, f), {})
deleteFolderLoops(c) ==
  /\ \E f \in Folders(oDoc) : f \in Ancestors(oDoc, f)
  /\ ~oHung /\ oPlanned = {}
  /\ oPhase[c] = "idle" /\ \A o \in TreePushes : oPhase[o] # "sent"
  /\ oHung' = TRUE
  /\ UNCHANGED <<oDoc, oPhase, oUpdate, oStale, oPlanned>>
moveOrganizeNode(c) == \E n \in DOMAIN oDoc, p \in Asked :
  Shape(c, MayMove(oDoc, n, p), MovedNode(oDoc, n, p), {n})
deleteOrganizeLink(c) == \E n \in DOMAIN oDoc :
  Shape(c, n \in Nodes(oDoc) \ Folders(oDoc), deleteRecord(oDoc, {n}), {})

RenamedFolder(d, f, name) == [d EXCEPT ![f] = MapSet(@, "data", name)]
renameFolder(c) == \E f \in DOMAIN oDoc :
  Shape(c, f \in Folders(oDoc), RenamedFolder(oDoc, f, c), {})

(* A root folder and, in a second push, a folder in it.                    *)
createWorkspaceBlueprint(c) ==
  /\ ~oHung /\ oPlanned = {}
  /\ OU!Handled(c, {CreatedNode(oDoc, c, "folder", NoNode)}, {c})
  /\ oPlanned' = {c}
  /\ UNCHANGED oHung
BlueprintChild(c) ==
  /\ c \in oPlanned
  /\ oPhase[c] = "merged"
  /\ OU!Handled(Child(c), IF c \in Folders(oDoc)
                          THEN {CreatedNode(oDoc, Child(c), "folder", c)} ELSE {}, {Child(c)})
  /\ oPlanned' = {}
  /\ UNCHANGED oHung
(* The call ends with the error of a push; the folders made stay.          *)
BlueprintFails(c) ==
  /\ c \in oPlanned
  /\ oPhase[c] # "sent"
  /\ oPlanned' = {}
  /\ oPhase' = [oPhase EXCEPT ![Child(c)] = "refused"]
  /\ UNCHANGED <<oDoc, oUpdate, oStale, oHung>>

OrganizeNext ==
  \/ \E c \in TreeCalls :
       \/ createFolder(c) \/ addOrganizeLink(c) \/ deleteFolder(c) \/ deleteFolderLoops(c)
       \/ moveOrganizeNode(c) \/ deleteOrganizeLink(c) \/ renameFolder(c)
       \/ createWorkspaceBlueprint(c) \/ BlueprintChild(c) \/ BlueprintFails(c)
  \/ \E p \in TreePushes : (OU!MergeUpdate(p) \/ OU!LoseAck(p)) /\ UNCHANGED <<oPlanned, oHung>>
  \/ /\ oHung \/ \A c \in TreeCalls : oPhase[c] \in {"merged", "refused", "lost", "late"}
     /\ UNCHANGED treeVars

OrganizeSpec == OrganizeInit /\ [][OrganizeNext]_treeVars

-----------------------------------------------------------------------------
(* While updates are merged in order, deletes take what is below with them *)
(* and moves stay in the tree: the parent of a node is a folder that is    *)
(* there, only folders are in the root section, and no folder is below     *)
(* itself but one that was moved into itself, which alone can make         *)
(* delete_folder run on for ever (a late move may take it out again).      *)
TreeStaysWhole ==
  ~oStale =>
    /\ WholeTree(oDoc)
    /\ oHung /\ (\A p \in TreePushes : oPhase[p] # "late") =>
         \E n \in Nodes(oDoc) : Parent(oDoc, n) = n

(* Every folder is shown below the root section: no move puts one below    *)
(* itself (move_organize_node refuses a descendant as the destination).    *)
FoldersHangFromTheRoot ==
  ~oStale => \A n \in Folders(oDoc) : n \notin Ancestors(oDoc, n)
=============================================================================
