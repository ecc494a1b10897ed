---------------------------- MODULE DocProperties ----------------------------
(***************************************************************************)
(* Custom properties of documents (src/tools/properties.ts): definitions   *)
(* in one document of the workspace database, the values of every page in  *)
(* another. A tool names a property by its id or its name, taken up to     *)
(* case. What is encoded in a value is left out: it is known by the call   *)
(* that set it.                                                            *)
(***************************************************************************)
EXTENDS Naturals, FiniteSets, Sequences, YjsMerge

CONSTANTS PropertyCalls,   \* a property has the call that made it for its id
          ListedPages,     \* the workspace's pages
          UnlistedPage,
          StartDefs,       \* the definitions at first
          StartValues,     \* StartValues[<<page, property>>]: who set it
          PropertyNames

SUPPORTED_TYPES == {"text", "number", "checkbox", "date"}

ASSUME PropertiesAssumption ==
  /\ IsFiniteSet(PropertyCalls) /\ IsFiniteSet(DOMAIN StartDefs)
  /\ PropertyCalls \cap DOMAIN StartDefs = {}
  /\ UnlistedPage \notin ListedPages
  /\ StartDefs = [p \in DOMAIN StartDefs |-> StartDefs[p]]
  /\ \A p \in DOMAIN StartDefs :
       StartDefs[p] \in [name : PropertyNames, type : {StartDefs[p].type}, isDeleted : BOOLEAN]
  /\ StartValues = [k \in DOMAIN StartValues |-> StartValues[k]]
  /\ \A k \in DOMAIN StartValues : k = <<k[1], k[2]>>

VARIABLES vDoc,            \* [defs, values]
          vPhase, vUpdate, vStale   \* see DocUpdates
propertyVars == <<vDoc, vPhase, vUpdate, vStale>>

Definition(name, type) == [name |-> name, type |-> type, isDeleted |-> FALSE]

(* Mutant: a deleted definition is still read.                             *)
readsDeleted(d) == DOMAIN d.defs
readPropertyDefinitions(d) == {p \in DOMAIN d.defs : ~d.defs[p].isDeleted}

(* The properties a caller may mean: one, none, or too many to choose.     *)
resolveDefinition(d, property) ==
  IF property \in readPropertyDefinitions(d) THEN {property}
  ELSE {p \in readPropertyDefinitions(d) : d.defs[p].name = property}

(* The database with a definition set; with a value set, or cleared.       *)
Defined(d, p, definition) == [defs |-> MapSet(d.defs, p, definition), values |-> d.values]
Valued(d, k, by) == [defs |-> d.defs, values |-> MapSet(d.values, k, by)]
Cleared(d, k) == [defs |-> d.defs, values |-> MapDelete(d.values, k)]
PropertiesMerge(now, base, made) ==
  [defs   |-> MergedMap(now.defs, base.defs, made.defs),
   values |-> MergedMap(now.values, base.values, made.values)]

VU == INSTANCE DocUpdates WITH Calls <- PropertyCalls, Merge <- PropertiesMerge,
        doc <- vDoc, phase <- vPhase, update <- vUpdate, stale <- vStale

PropertiesInit ==
  /\ vDoc = [defs |-> StartDefs, values |-> StartValues]
  /\ VU!UpdatesInit

Named == PropertyNames \cup DOMAIN StartDefs \cup PropertyCalls
PropertyRequest(op, page, property) == {[op |-> op, page |-> page, property |-> property]}

createCustomProperty(c) == \E name \in PropertyNames, type \in {"text", "number"} :
  VU!Handled(c, {Defined(vDoc, c, Definition(name, type))},
             PropertyRequest("create", UnlistedPage, c))

deleteCustomProperty(c) == \E property \in Named :
  LET found == resolveDefinition(vDoc, property)
  IN  VU!Handled(c, {Defined(vDoc, p, [vDoc.defs[p] EXCEPT !.isDeleted = TRUE]) :
                       p \in IF Cardinality(found) = 1 THEN found ELSE {}},
                 PropertyRequest("delete", UnlistedPage, property))

setDocProperty(c) == \E page \in ListedPages \cup {UnlistedPage}, property \in Named :
  LET found == resolveDefinition(vDoc, property)
      ok == /\ page \in ListedPages
            /\ Cardinality(found) = 1
            /\ \A p \in found : vDoc.defs[p].type \in SUPPORTED_TYPES
  IN  VU!Handled(c, {Valued(vDoc, <<page, p>>, c) :
                       p \in IF ok THEN found ELSE {}},
                 PropertyRequest("set", page, property))

(* A value left by a deleted definition is cleared by the property's id.   *)
clearDocProperty(c) == \E page \in ListedPages \cup {UnlistedPage}, property \in Named :
  LET found == resolveDefinition(vDoc, property)
      meant == IF found = {} THEN {property} ELSE found
      there == {p \in meant : <<page, p>> \in DOMAIN vDoc.values}
      asked == PropertyRequest("clear", page, property)
  IN  IF Cardinality(found) <= 1 /\ there = {}
      THEN VU!Answered(c, asked)
      ELSE VU!Handled(c, {Cleared(vDoc, <<page, p>>) :
                            p \in IF Cardinality(found) <= 1 THEN there ELSE {}}, asked)

PropertiesNext ==
  \/ \E c \in PropertyCalls :
       \/ createCustomProperty(c) \/ deleteCustomProperty(c)
       \/ setDocProperty(c) \/ clearDocProperty(c)
       \/ VU!MergeUpdate(c) \/ VU!LoseAck(c)
  \/ VU!UpdatesDone

PropertiesSpec == PropertiesInit /\ [][PropertiesNext]_propertyVars

-----------------------------------------------------------------------------
(* What list_doc_properties shows of a page: values under their live       *)
(* definitions, and values that lost theirs. What callers name: an id goes *)
(* before a name.                                                          *)
LiveProperties(d) == {p \in DOMAIN d.defs : ~d.defs[p].isDeleted}
Means(d, property, p) ==
  /\ p \in LiveProperties(d)
  /\ p = property \/ (property \notin LiveProperties(d) /\ d.defs[p].name = property)
orphanValues(d) == {k \in DOMAIN d.values : k[2] \notin LiveProperties(d)}

(* The value a caller names; when there is no such property, what is left  *)
(* under that id.                                                          *)
Meant(d, a, k) ==
  /\ k[1] = a.page
  /\ \/ Means(d, a.property, k[2])
     \/ (k[2] = a.property /\ \A p \in LiveProperties(d) : ~Means(d, a.property, p))

(* A call did what it said, and nothing to values it was not asked about.  *)
RequestKept(was, now, c, a) ==
  /\ \A k \in DOMAIN was.values :
       Meant(was, a, k) \/ (k \in DOMAIN now.values /\ now.values[k] = was.values[k])
  /\ a.op = "set" => \E p \in LiveProperties(now) :
       /\ Means(was, a.property, p)
       /\ <<a.page, p>> \in DOMAIN now.values
       /\ now.values[<<a.page, p>>] = c
  /\ a.op = "clear" => \A k \in DOMAIN now.values : ~Meant(was, a, k)
  /\ a.op = "delete" => \A p \in LiveProperties(was) :
       Means(was, a.property, p) <=> p \notin LiveProperties(now)
  /\ a.op # "delete" => orphanValues(now) \subseteq orphanValues(was)

(* Values keep to the definitions, which are in another document. Whatever *)
(* is merged late, each value has had a definition of a type the tools can *)
(* edit, or was there at first. While updates are merged in order, the     *)
(* last call did what it said, to the property its caller named and to no  *)
(* other value: one that was set is shown under a live definition, none    *)
(* is left where it was cleared, just the property named is deleted, and   *)
(* only a deletion makes orphans.                                          *)
PropertyValuesAreKept ==
  /\ \A k \in DOMAIN vDoc.values \ DOMAIN StartValues :
       k[2] \in DOMAIN vDoc.defs /\ vDoc.defs[k[2]].type \in SUPPORTED_TYPES
  /\ (\A c \in PropertyCalls : vPhase[c] # "late") =>
       \A c \in {x \in PropertyCalls : vPhase[x] = "merged"} : \A a \in vUpdate[c].asked :
         RequestKept(vUpdate[c].base, vDoc, c, a)
=============================================================================
