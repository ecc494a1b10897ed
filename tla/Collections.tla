----------------------------- MODULE Collections -----------------------------
(***************************************************************************)
(* The collections of the sidebar (src/tools/organize.ts): plain values in *)
(* an array of the workspace root, each replaced as a whole by an update,  *)
(* which deletes the old value and inserts the new one in its place.       *)
(* The array is there, as after the first create_collection; names are     *)
(* left out. A filter is known by the documents it matches.                *)
(***************************************************************************)
EXTENDS Naturals, FiniteSets, Sequences, SequencesExt, YjsMerge

CONSTANTS CollectionCalls,   \* a collection has the call that made it for its id
          TheCollection,     \* the collection there is at first
          WorkspaceDocs,         \* the workspace's documents
          Filters,           \* filters a rule may have
          Matching           \* Matching[f]: the documents f matches

ASSUME CollectionsAssumption == TheCollection \notin CollectionCalls

VARIABLES kDoc,              \* the array
          kPhase, kUpdate, kStale,   \* see DocUpdates
          kDeleted           \* ids whose deletion was pushed (history)
collectionVars == <<kDoc, kPhase, kUpdate, kStale, kDeleted>>

Collection(id, allowList, by) == [id |-> id, allowList |-> allowList, by |-> by]

findCollection(array, id) ==
  LET found == {i \in DOMAIN array : array[i].id = id}
  IN  IF found = {} THEN {} ELSE {CHOOSE i \in found : \A j \in found : i <= j}

(* Without a filter a rule matches nothing.                                *)
matchesCollectionRules(match, filters) ==
  {d \in WorkspaceDocs : /\ filters # {}
                /\ IF match = "any" THEN \E f \in filters : d \in Matching[f]
                   ELSE \A f \in filters : d \in Matching[f]}

(* Mutant: the new value is inserted, the old one is left for a clean-up.  *)
mutateCollectionInserts(array, c, i, allowList) ==
  InsertAt(array, i, Collection(array[i].id, allowList, c))

mutateCollectionEntry(array, c, i, allowList) ==
  InsertAt(RemoveAt(array, i), i, Collection(array[i].id, allowList, c))

KU == INSTANCE DocUpdates WITH Calls <- CollectionCalls, Merge <- MergedList,
        doc <- kDoc, phase <- kPhase, update <- kUpdate, stale <- kStale

CollectionsInit ==
  /\ kDoc = <<Collection(TheCollection, {}, TheCollection)>>
  /\ KU!UpdatesInit
  /\ kDeleted = {}

Known == {TheCollection} \cup CollectionCalls
Request(op, id, docs) == {[op |-> op, id |-> id, docs |-> docs]}

Mutate(c, op, id, docs, Change(_)) ==
  /\ KU!Handled(c, {mutateCollectionEntry(kDoc, c, i, Change(kDoc[i].allowList)) :
                      i \in findCollection(kDoc, id)}, Request(op, id, docs))
  /\ UNCHANGED kDeleted

createCollection(c) ==
  /\ KU!Handled(c, {Append(kDoc, Collection(c, {}, c))}, {})
  /\ UNCHANGED kDeleted
updateCollection(c) == \E id \in Known :
  Mutate(c, "rename", id, {}, LAMBDA allow : allow)
addDocToCollection(c) == \E id \in Known, doc \in WorkspaceDocs :
  Mutate(c, "add", id, {doc}, LAMBDA allow : allow \cup {doc})
removeDocFromCollection(c) == \E id \in Known, doc \in WorkspaceDocs :
  Mutate(c, "remove", id, {doc}, LAMBDA allow : allow \ {doc})
updateCollectionRules(c) == \E id \in Known, match \in {"all", "any"}, filters \in SUBSET Filters :
  LET matched == matchesCollectionRules(match, filters)
  IN  Mutate(c, "rules", id, matched, LAMBDA allow : matched)
deleteCollection(c) == \E id \in Known :
  LET found == findCollection(kDoc, id) IN
  /\ KU!Handled(c, {RemoveAt(kDoc, i) : i \in found}, Request("delete", id, {}))
  /\ kDeleted' = IF found = {} THEN kDeleted ELSE kDeleted \cup {id}

CollectionsNext ==
  \/ \E c \in CollectionCalls :
       \/ createCollection(c) \/ updateCollection(c) \/ updateCollectionRules(c)
       \/ addDocToCollection(c) \/ removeDocFromCollection(c) \/ deleteCollection(c)
       \/ (KU!MergeUpdate(c) \/ KU!LoseAck(c)) /\ UNCHANGED kDeleted
  \/ KU!UpdatesDone /\ UNCHANGED kDeleted

CollectionsSpec == CollectionsInit /\ [][CollectionsNext]_collectionVars

-----------------------------------------------------------------------------
(* Replacing a value is not one step for Yjs, yet no collection is lost by *)
(* an update that is merged late: one that no call deleted is still found. *)
(* While updates are merged in order none is there twice or after it was   *)
(* deleted, and the last call's change is the only one.                    *)
CollectionsAreKept ==
  /\ TheCollection \notin kDeleted => findCollection(kDoc, TheCollection) # {}
  /\ ~kStale =>
       /\ \A i, j \in DOMAIN kDoc : kDoc[i].id = kDoc[j].id => i = j
       /\ \A c \in {x \in CollectionCalls : kPhase[x] = "merged"} : \A a \in kUpdate[c].asked :
            a.op = "delete" => findCollection(kDoc, a.id) = {}
  /\ (\A c \in CollectionCalls : kPhase[c] # "late") =>
       \A c \in {x \in CollectionCalls : kPhase[x] = "merged"} : \A a \in kUpdate[c].asked :
         LET was == kUpdate[c].base
             AllowList(array, id) == array[CHOOSE i \in findCollection(array, id) : TRUE].allowList
         IN  /\ \A i \in DOMAIN was : was[i].id # a.id => was[i] \in Range(kDoc)
             /\ a.op = "rules" => AllowList(kDoc, a.id) = a.docs
             /\ a.op = "add" => AllowList(kDoc, a.id) = AllowList(was, a.id) \cup a.docs
             /\ a.op = "remove" => AllowList(kDoc, a.id) = AllowList(was, a.id) \ a.docs
=============================================================================
