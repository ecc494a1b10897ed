----------------------------- MODULE DocPlacement -----------------------------
(***************************************************************************)
(* The tools that create a document, around the creation of DocCreation:   *)
(* create_doc, create_doc_from_markdown, create_semantic_page and          *)
(* instantiate_template_native of src/tools/docs.ts. Once the document is  *)
(* there it is filled, given its tags, linked from a parent document and   *)
(* put in a folder, each in a push of its own, and the call ends with one  *)
(* answer about all of them.                                               *)
(***************************************************************************)
EXTENDS DocCreation, Sequences

CONSTANTS
  CreateCalls,    \* the calls: [tool, parent, folder, template, allowFallback]
  NoTemplate,
  TemplateDoc, NewDoc   \* the ids of the template and of the new document

VARIABLES
  cCall,    \* the call; one that falls back to Markdown goes on as such a call
  cStep,    \* where it is
  cParent,  \* server: the parent document is there, entry and content
  cServer,  \* server: which of "body", "tags", "link" and "file" are in place
  cLate,    \* pushes that were given up on; any of them may be merged, or none
  cMade,    \* the blocks cloned from the template
  cWarned,  \* what the warnings are about
  cAnswer   \* what the caller is told; "named": the answer has the document's id

NoAnswer == [status |-> "none"]
placementVars == <<cCall, cStep, cParent, cServer, cLate, cMade, cWarned, cAnswer>>
quiet == <<cCall, cServer, cLate, cMade, cWarned, cAnswer>>

Native == cCall.tool = "instantiate_template_native"
Markdown == cCall.tool = "create_doc_from_markdown"
Verifies == cCall.tool \in {"create_doc", "create_doc_from_markdown"}
AtStep(step) == cStep = step
GoesTo(step) == cStep' = step

-----------------------------------------------------------------------------
(* Cloning a template. A block has children, strings that may be ids, and  *)
(* maps keyed by ids (the cells of a database by row, what a frame owns);  *)
(* an opaque one holds a value of a class the scan does not know.          *)
nativeCloneSupported(T) == \A b \in DOMAIN T : ~T[b].opaque

CloneId(b) == <<b, "clone">>
remapTemplateString(T, s) ==
  IF s \in DOMAIN T THEN CloneId(s) ELSE IF s = TemplateDoc THEN NewDoc ELSE s

(* Mutant: only the tree gets the new ids.                                 *)
cloneTreeOnly(T, b) ==
  [T[b] EXCEPT !.children = [i \in DOMAIN @ |-> remapTemplateString(T, @[i])]]

(* Values are remapped, the keys of maps are kept.                         *)
cloneNativeTemplateValue(T, b) ==
  [T[b] EXCEPT !.children = [i \in DOMAIN @ |-> remapTemplateString(T, @[i])],
               !.strings = {remapTemplateString(T, s) : s \in @}]

ClonedBlocks(T) ==
  [n \in {CloneId(b) : b \in DOMAIN T} |-> cloneNativeTemplateValue(T, n[1])]

(* A template is a stored document: children are blocks of it. New ids are *)
(* drawn at random, so they are the ids of nothing else.                   *)
ASSUME PlacementAssumption ==
  \A call \in CreateCalls : call.tool = "instantiate_template_native" =>
    LET T == call.template.blocks IN
    /\ TemplateDoc # NewDoc /\ {TemplateDoc, NewDoc} \cap DOMAIN T = {}
    /\ \A b \in DOMAIN T :
         /\ CloneId(b) \notin DOMAIN T \cup {TemplateDoc}
         /\ T[b].children \in Seq(DOMAIN T)
         /\ T[b] = [children |-> T[b].children, strings |-> T[b].strings,
                    keys |-> T[b].keys, opaque |-> T[b].opaque]

-----------------------------------------------------------------------------
PlacementInit ==
  /\ Init
  /\ cCall \in CreateCalls
  /\ cStep = "checking"
  /\ cParent \in BOOLEAN
  /\ cServer = {} /\ cLate = {} /\ cMade = <<>> /\ cWarned = {}
  /\ cAnswer = NoAnswer

(* An error answer; the steps that name the document throw a               *)
(* DocumentCreationError, the others whatever went wrong.                  *)
EndsInError(named) ==
  /\ GoesTo("done")
  /\ cAnswer' = [status |-> "failed", named |-> named, about |-> cStep]
  /\ UNCHANGED <<cCall, cMade, cWarned, cParent>>

(* A push of what: acknowledged, or given up on.                           *)
Stored(what) == cServer' = cServer \cup {what} /\ UNCHANGED cLate
MaybeStored(what) == cLate' \in {cLate, cLate \cup {what}} /\ UNCHANGED cServer

Lands ==
  /\ \E what \in cLate : cLate' = cLate \ {what} /\ cServer' = cServer \cup {what}
  /\ UNCHANGED <<cCall, cStep, cParent, cMade, cWarned, cAnswer>>

(* Somebody else deletes the parent.                                       *)
ParentDeleted ==
  /\ cParent /\ cParent' = FALSE
  /\ UNCHANGED <<cStep, quiet>>

-----------------------------------------------------------------------------
(* Only Markdown's call looks for the parent before it creates.            *)
assertParentDocumentExistsBeforeCreate == Markdown /\ cCall.parent => cParent

(* Nothing has been sent: the input is refused, or a connection or a load  *)
(* fails.                                                                  *)
ChecksFail ==
  AtStep("checking") /\ EndsInError(FALSE) /\ UNCHANGED <<cServer, cLate>>

ChecksPass ==
  /\ AtStep("checking")
  /\ assertParentDocumentExistsBeforeCreate
  /\ Native => nativeCloneSupported(cCall.template.blocks)
  /\ GoesTo("creating")
  /\ cMade' = IF Native THEN ClonedBlocks(cCall.template.blocks) ELSE cMade
  /\ UNCHANGED <<cCall, cParent, cServer, cLate, cWarned, cAnswer>>

(* Markdown that is lossy, or text that looks like Markdown.               *)
TextWarns ==
  /\ AtStep("checking") /\ Verifies
  /\ cWarned' = cWarned \cup {"text"}
  /\ UNCHANGED <<cCall, cStep, cParent, cServer, cLate, cMade, cAnswer>>

FallsBack ==
  /\ AtStep("checking")
  /\ Native /\ ~nativeCloneSupported(cCall.template.blocks) /\ cCall.allowFallback
  /\ cCall' = [cCall EXCEPT !.tool = "create_doc_from_markdown", !.template = NoTemplate]
  /\ cWarned' = cWarned \cup {"fallback"}
  /\ UNCHANGED <<cStep, cParent, cServer, cLate, cMade, cAnswer>>

Created ==
  /\ AtStep("creating") /\ result = "ok"
  /\ GoesTo(IF Markdown \/ Native THEN "filling" ELSE "linking")
  /\ UNCHANGED <<cParent, quiet>>

CreationReported ==
  /\ AtStep("creating") /\ result \in {"partial", "uncertain"}
  /\ EndsInError(TRUE)
  /\ UNCHANGED <<cServer, cLate>>

-----------------------------------------------------------------------------
(* Markdown whose blocks are applied, all or (if not strict) some of them; *)
(* or the template's blocks in place of the skeleton's.                    *)
NothingToFill ==
  /\ AtStep("filling") /\ Markdown
  /\ GoesTo("linking")
  /\ cServer' = cServer \cup {"body"}
  /\ UNCHANGED <<cCall, cParent, cLate, cMade, cWarned, cAnswer>>

Filled ==
  /\ AtStep("filling")
  /\ Stored("body")
  /\ GoesTo(IF Native /\ cCall.template.tags THEN "tagging" ELSE "linking")
  /\ cWarned' \in {cWarned} \cup IF Markdown THEN {cWarned \cup {"text"}} ELSE {}
  /\ UNCHANGED <<cCall, cParent, cMade, cAnswer>>

(* The load or the push fails, or the page's updatedDate after the push.   *)
FillFails ==
  /\ AtStep("filling")
  /\ EndsInError(TRUE)
  /\ MaybeStored("body") \/ Stored("body")

Tagged ==
  /\ AtStep("tagging")
  /\ Stored("tags")
  /\ GoesTo("linking")
  /\ UNCHANGED <<cCall, cParent, cMade, cWarned, cAnswer>>

TagFails == AtStep("tagging") /\ EndsInError(TRUE) /\ MaybeStored("tags")

-----------------------------------------------------------------------------
NoParent ==
  /\ AtStep("linking") /\ ~cCall.parent
  /\ GoesTo("filing")
  /\ UNCHANGED <<cParent, quiet>>

(* finalizeDocPlacement looks the parent up before it appends the link;    *)
(* the other two tools append it at once.                                  *)
ParentFound ==
  /\ AtStep("linking") /\ cCall.parent
  /\ Verifies => cParent
  /\ GoesTo("appending")
  /\ UNCHANGED <<cParent, quiet>>

Warns(about, next) ==
  /\ GoesTo(next)
  /\ cWarned' = cWarned \cup {about}
  /\ UNCHANGED <<cCall, cParent, cMade, cAnswer>>

(* The root does not load, or does not list the parent.                    *)
ParentNotFound ==
  /\ AtStep("linking") /\ cCall.parent /\ Verifies
  /\ Warns("link", "filing")
  /\ UNCHANGED <<cServer, cLate>>

(* The connection or the load of the root throws: nothing catches it.      *)
LookupThrows ==
  /\ AtStep("linking") /\ cCall.parent /\ Verifies
  /\ EndsInError(FALSE)
  /\ UNCHANGED <<cServer, cLate>>

Linked ==
  /\ AtStep("appending") /\ cParent
  /\ Stored("link")
  /\ GoesTo("linked")
  /\ UNCHANGED <<cCall, cParent, cMade, cWarned, cAnswer>>

(* Mutant: a link that could not be added is not mentioned.                *)
AppendFailsSilently ==
  /\ AtStep("appending")
  /\ GoesTo("filing") /\ MaybeStored("link")
  /\ UNCHANGED <<cCall, cParent, cMade, cWarned, cAnswer>>

AppendFails ==
  /\ AtStep("appending")
  /\ Warns("link", "filing")
  /\ IF cParent THEN MaybeStored("link") ELSE UNCHANGED <<cServer, cLate>>

Dated ==
  /\ AtStep("linked")
  /\ GoesTo("filing")
  /\ UNCHANGED <<cParent, quiet>>

(* parentLinkWarningOrThrow: the link is saved and the parent's            *)
(* updatedDate is not. A template's call takes it for a missing link.      *)
DateThrows ==
  /\ AtStep("linked")
  /\ IF Native THEN Warns("link", "filing") ELSE EndsInError(FALSE)
  /\ UNCHANGED <<cServer, cLate>>

-----------------------------------------------------------------------------
Filed ==
  /\ AtStep("filing") /\ cCall.folder
  /\ Stored("file")
  /\ GoesTo("answering")
  /\ UNCHANGED <<cCall, cParent, cMade, cWarned, cAnswer>>

FilingFails ==
  /\ AtStep("filing") /\ cCall.folder
  /\ Warns("file", "answering")
  /\ MaybeStored("file")

NoFolder ==
  /\ AtStep("filing") /\ ~cCall.folder
  /\ GoesTo("answering")
  /\ UNCHANGED <<cParent, quiet>>

(* linkedToParent and folderLinked are what the steps returned: neither is *)
(* told of a step that warned.                                             *)
requiresManualRepair ==
  IF Markdown THEN cWarned \cap {"link", "file"} # {} ELSE cWarned # {}
Concludes ==
  /\ AtStep("answering")
  /\ GoesTo("done")
  /\ cAnswer' = [status |-> IF cWarned = {} THEN "created" ELSE "created_with_warnings",
                 repair |-> requiresManualRepair,
                 linked |-> cCall.parent /\ "link" \notin cWarned,
                 filed  |-> cCall.folder /\ "file" \notin cWarned]
  /\ UNCHANGED <<cCall, cParent, cServer, cLate, cMade, cWarned>>

-----------------------------------------------------------------------------
PlacementNext ==
  \/ AtStep("creating") /\ ClientStep /\ UNCHANGED placementVars
  \/ ServerApplies /\ UNCHANGED placementVars
  \/ /\ \/ ChecksFail \/ ChecksPass \/ TextWarns \/ FallsBack \/ Created \/ CreationReported
        \/ NothingToFill \/ Filled \/ FillFails \/ Tagged \/ TagFails
        \/ NoParent \/ ParentFound \/ ParentNotFound \/ LookupThrows
        \/ Linked \/ AppendFails \/ Dated \/ DateThrows
        \/ Filed \/ FilingFails \/ NoFolder \/ Concludes
        \/ Lands \/ ParentDeleted
     /\ UNCHANGED vars
  \/ AtStep("done") /\ UNCHANGED <<vars, placementVars>>

PlacementSpec == PlacementInit /\ [][PlacementNext]_<<vars, placementVars>>

-----------------------------------------------------------------------------
Asks(what) == CASE what = "link" -> cCall.parent [] what = "file" -> cCall.folder

(* What a creation tool answers is what the workspace holds. A success:    *)
(* content, page entry, body and tags are there, and so are the parent's   *)
(* link and the folder's unless a warning is about them; without a need    *)
(* for repair, both are. An error whose answer lacks the id of the         *)
(* document was either thrown before anything was sent, or is about the    *)
(* parent, and then the document is complete.                              *)
CreationsAreTold ==
  LET complete == /\ content /\ pages # {}
                  /\ Markdown \/ Native => "body" \in cServer
                  /\ Native /\ cCall.template.tags => "tags" \in cServer
  IN  cAnswer.status # "none" =>
        IF cAnswer.status = "failed"
        THEN ~cAnswer.named =>
               \/ ~content /\ inflight = {} /\ cServer = {} /\ cLate = {}
               \/ cAnswer.about \in {"linking", "linked"} /\ complete
        ELSE /\ complete
             /\ cAnswer.linked => "link" \in cServer
             /\ cAnswer.filed => "file" \in cServer
             /\ cAnswer.status = "created" \/ ~cAnswer.repair =>
                  \A what \in {"link", "file"} : Asks(what) => what \in cServer

Cloned == Native /\ "body" \in cServer
Template == cCall.template.blocks

(* A clone stands for itself: it has the template's tree and nothing in it *)
(* means a block of the template or the template, while what means another *)
(* document still does (instantiate_template_native).                      *)
ClonesStandAlone ==
  Cloned =>
    /\ \A b \in DOMAIN Template :
         LET made == cMade[CloneId(b)] IN
         /\ made.children = [i \in DOMAIN Template[b].children |-> CloneId(Template[b].children[i])]
         /\ TemplateDoc \in Template[b].strings => NewDoc \in made.strings
         /\ \A s \in Template[b].strings \ DOMAIN Template : s = TemplateDoc \/ s \in made.strings
    /\ \A n \in DOMAIN cMade : cMade[n].strings \cap (DOMAIN Template \cup {TemplateDoc}) = {}

(* A clone reads like its template: the cells of a database row and what a *)
(* frame owns are found under the new ids (docs/tool-reference.md on       *)
(* instantiate_template_native: "Higher-fidelity than Markdown-only        *)
(* cloning").                                                              *)
ClonesReadAlike ==
  Cloned => \A b, k \in DOMAIN Template :
              k \in Template[b].keys => CloneId(k) \in cMade[CloneId(b)].keys
=============================================================================
