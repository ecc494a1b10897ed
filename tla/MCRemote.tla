------------------------------ MODULE MCRemote ------------------------------
(* What calls leave on the server when requests fail or come late: one     *)
(* page from edit to deletion, one document from creation to its place,    *)
(* and the sign-in they share. A behaviour is one of part; the parts share *)
(* no state.                                                               *)
EXTENDS PageLifecycle, AuthSession, DocPlacement
CONSTANTS c1, c2, l1, r1, r2, k1, k2, u1, u2, root, note, board, row, frame, link, Elsewhere
VARIABLE part

MCPageCalls == {c1, c2}
MCListings == {l1}
MCRequests == {r1, r2}
MCClientOf == [q \in MCRequests |-> IF q = r1 THEN k1 ELSE k2]
MCResponses == {{100}, {2}, {0, 4, 100}, {0}}

MCTitles == {u1, u2}
Part(children, strings, keys) ==
  [children |-> children, strings |-> strings, keys |-> keys, opaque |-> FALSE]
MCBoard ==
  (root :> Part(<<note, frame>>, {}, {})) @@ (note :> Part(<<board>>, {}, {})) @@
  (board :> Part(<<row>>, {}, {row})) @@ (row :> Part(<<>>, {Elsewhere}, {})) @@
  (frame :> Part(<<>>, {}, {note}))
MCLinks ==
  (root :> Part(<<note>>, {}, {})) @@ (note :> Part(<<link>>, {}, {})) @@
  (link :> Part(<<>>, {TemplateDoc, note, Elsewhere}, {}))
MCTemplates ==
  {[blocks |-> b, tags |-> t] :
     b \in {MCBoard, MCLinks, [MCLinks EXCEPT ![note].opaque = TRUE]}, t \in BOOLEAN}
CreateCall(tool, parent, folder, template, fallback) ==
  [tool |-> tool, parent |-> parent, folder |-> folder, template |-> template,
   allowFallback |-> fallback]
MCCreateCalls ==
  {CreateCall(t, p, f, NoTemplate, FALSE) : t \in {"create_doc", "create_doc_from_markdown"},
                                            p, f \in BOOLEAN} \cup
  {CreateCall("create_semantic_page", p, FALSE, NoTemplate, FALSE) : p \in BOOLEAN} \cup
  {CreateCall("instantiate_template_native", p, FALSE, t, f) : p, f \in BOOLEAN, t \in MCTemplates}
MCAnyCall == CreateCall("create_doc", FALSE, FALSE, NoTemplate, FALSE)

RemoteInit ==
  /\ part \in {"page", "sign-in", "creation"}
  /\ PageInit /\ (part # "page" => pServer.entry = NoEntry /\ pQuirks.retains)
  /\ AuthInit
  /\ PlacementInit /\ (part # "creation" => cCall = MCAnyCall /\ cParent)

RemoteNext ==
  /\ UNCHANGED part
  /\ \/ part = "page" /\ PageNext /\ UNCHANGED <<authVars, vars, placementVars>>
     \/ part = "sign-in" /\ AuthNext /\ UNCHANGED <<pageVars, vars, placementVars>>
     \/ part = "creation" /\ PlacementNext /\ UNCHANGED <<pageVars, authVars>>

remoteVars == <<pageVars, authVars, vars, placementVars, part>>
RemoteSpec == RemoteInit /\ [][RemoteNext]_remoteVars
=============================================================================
