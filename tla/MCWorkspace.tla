---------------------------- MODULE MCWorkspace ----------------------------
(* What the tools keep outside the pages, each with calls of its own: a    *)
(* behaviour is one of part. The parts share no state.                     *)
EXTENDS Tags, OrganizeTree, Collections, DocProperties, DocMove
CONSTANTS c1, c2, p1, p2, f1, f2, f3, l1, d1, d2, g1, g2, r, a, b, m1, m2, e1, q1, q2, q3, status, owner
VARIABLE part

MCCalls == {c1, c2}
MCPages == {p1, p2}

MCTree == (f1 :> Node("folder", f1, NoNode, 0)) @@ (f2 :> Node("folder", f2, f1, 0)) @@
          (f3 :> Node("folder", f3, f2, 0)) @@ (l1 :> Node("link", l1, f2, 1))
MCRank == [key \in 0..MAX_KEY + 1 |-> key]

MCWorkspaceDocs == {d1, d2}
MCFilters == {g1, g2}
MCMatching == (g1 :> {d1, d2}) @@ (g2 :> {d2})

(* A property to edit, one of a type the tools cannot edit, and one that   *)
(* was deleted and left a value.                                           *)
MCDefs == (q1 :> Definition(status, "text")) @@ (q2 :> Definition(owner, "createdBy")) @@
          (q3 :> [Definition(status, "number") EXCEPT !.isDeleted = TRUE])
MCValues == (<<p1, q1>> :> Initial) @@ (<<p2, q2>> :> Initial) @@ (<<p2, q3>> :> Initial)
MCNames == {status, owner}
MCListed == {p1, p2}

(* A root with two documents, side by side or one under the other.         *)
MCDocs == {r, a, b}
MCMoves == {m1, m2}
MCEdits == {e1}
MCNoEdits == {}
MCTrees == {{<<r, a>>, <<r, b>>}, {<<r, a>>, <<a, b>>}}

WorkspaceInit ==
  /\ part \in {"tags", "folders", "collections", "properties", "moves"}
  /\ TagsInit
  /\ OrganizeInit
  /\ CollectionsInit
  /\ PropertiesInit
  /\ Init

WorkspaceNext ==
  /\ UNCHANGED part
  /\ \/ part = "tags" /\ TagsNext /\ UNCHANGED <<treeVars, collectionVars, propertyVars, vars>>
     \/ part = "folders" /\ OrganizeNext /\ UNCHANGED <<tagVars, collectionVars, propertyVars, vars>>
     \/ part = "collections" /\ CollectionsNext /\ UNCHANGED <<tagVars, treeVars, propertyVars, vars>>
     \/ part = "properties" /\ PropertiesNext /\ UNCHANGED <<tagVars, treeVars, collectionVars, vars>>
     \/ part = "moves" /\ Next /\ UNCHANGED <<tagVars, treeVars, collectionVars, propertyVars>>

workspaceVars == <<tagVars, treeVars, collectionVars, propertyVars, vars, part>>
WorkspaceSpec == WorkspaceInit /\ [][WorkspaceNext]_workspaceVars
=============================================================================
