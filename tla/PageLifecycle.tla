---------------------------- MODULE PageLifecycle ----------------------------
(***************************************************************************)
(* One page from edit to deletion: its content, its entry in the workspace *)
(* root with the mirrored updatedDate and the trash fields (src/ws.ts,     *)
(* src/tools/docs.ts), and the listing that must not show it once it is    *)
(* deleted. Writes are served one at a time; a request that is given up on *)
(* may still be served. Yjs merges the root's updates by key.              *)
(***************************************************************************)
EXTENDS Naturals, FiniteSets, Sequences, YjsMerge

CONSTANTS PageCalls,    \* edit, delete, trash and restore calls
          Listings,     \* list_docs calls
          NoEntry,      \* the root has no entry for the page
          TRASH_READBACK_ATTEMPTS

(* A page of the root, as the tools here read and write it.                *)
Fields == {"updatedDate", "trash", "trashDate", "inTrash"}
Entries(fields) == [fields -> Nat \cup BOOLEAN]

ASSUME PageAssumption == \A fields \in SUBSET Fields : NoEntry \notin Entries(fields)

VARIABLES
  pServer,    \* [entry, content: is it there, kept: deleted but its snapshot still
              \* loads, edits: the calls whose edit is in it]
  pQuirks,    \* how this AFFiNE version deletes: [acks, retains]
  pStep,      \* pStep[c]: where the call is
  pRequest,   \* pRequest[c]: its last request, [status, op, base, made]
  pRead,      \* pRead[c]: what it loaded or was told
  pAnswer,    \* pAnswer[c]: what the caller was told
  acknowledgedDeletedDocs,  \* the tracker remembers the page
  pPruned,    \* the tracker dropped it for age or for room (history)
  pListing    \* pListing[l]: [step, ids: the tracker's copy, due: the page was
              \* reported deleted before it began (history), shown]
pageVars == <<pServer, pQuirks, pStep, pRequest, pRead, pAnswer,
              acknowledgedDeletedDocs, pPruned, pListing>>

NoRequest == [status |-> "none", op |-> "none", base |-> NoEntry, made |-> NoEntry]
With(entry, fields, value) ==
  [k \in DOMAIN entry \cup fields |-> IF k \in fields THEN value ELSE entry[k]]
Active == [k \in {"updatedDate"} |-> 0]
Trashed == With(Active, {"trash", "trashDate"}, TRUE)
Legacy == With(Active, {"inTrash"}, TRUE)

PageInit ==
  /\ pServer \in [entry : {NoEntry, Active, Trashed, Legacy}, content : {TRUE}, kept : {FALSE}, edits : {{}}]
  /\ pQuirks \in {[acks |-> TRUE, retains |-> FALSE], [acks |-> TRUE, retains |-> TRUE],
                  [acks |-> FALSE, retains |-> FALSE]}
  /\ pStep = [c \in PageCalls |-> "idle"]
  /\ pRequest = [c \in PageCalls |-> NoRequest]
  /\ pRead = [c \in PageCalls |-> <<>>]
  /\ pAnswer = [c \in PageCalls |-> "none"]
  /\ acknowledgedDeletedDocs = FALSE
  /\ pPruned = FALSE
  /\ pListing = [l \in Listings |-> [step |-> "idle", ids |-> FALSE, due |-> FALSE, shown |-> FALSE]]

Loads == pServer.content \/ pServer.kept      \* load-doc finds the page
listVars == <<acknowledgedDeletedDocs, pPruned, pListing>>

-----------------------------------------------------------------------------
(* A call is at step s of waiting for its request, or of its own work.     *)
At(c, s) == pStep[c] = s
Goes(c, s) == pStep' = [pStep EXCEPT ![c] = s]
Send(c, s, op, base, made) ==
  /\ Goes(c, s)
  /\ pRequest' = [pRequest EXCEPT ![c] = [status |-> "sent", op |-> op, base |-> base, made |-> made]]
  /\ UNCHANGED <<pServer, pQuirks, pAnswer>>
(* A request that fails may be late; one that was refused never comes.     *)
GivenUp(c) == pRequest' = [pRequest EXCEPT ![c].status = IF @ = "sent" THEN "late" ELSE @]
Answers(c, a) ==
  /\ Goes(c, "done")
  /\ pAnswer' = [pAnswer EXCEPT ![c] = a]
  /\ GivenUp(c)
  /\ UNCHANGED <<pServer, pQuirks, pRead>>
Quiet == pAnswer' = pAnswer /\ UNCHANGED <<pServer, pQuirks, pRequest>>
Begins(c) == At(c, "idle") /\ \A o \in PageCalls : pStep[o] \in {"idle", "done"}

MergeEntry(now, base, made) ==
  IF now = NoEntry \/ made = NoEntry THEN NoEntry ELSE MergedMap(now, base, made)

(* The server serves a request, in time or after the call gave it up.      *)
Serve(c) ==
  LET r == pRequest[c] IN
  /\ r.status \in {"sent", "late"}
  /\ pRequest' = [pRequest EXCEPT ![c].status = IF @ = "sent" THEN "served" ELSE "landed"]
  /\ pServer' =
       CASE r.op = "content" -> [pServer EXCEPT !.content = TRUE, !.edits = @ \cup {c}]
         [] r.op = "root"    -> [pServer EXCEPT !.entry = MergeEntry(@, r.base, r.made)]
         [] r.op = "delete"  -> [pServer EXCEPT !.content = FALSE, !.kept = pQuirks.retains]
  /\ UNCHANGED <<pQuirks, pStep, pRead, pAnswer>>

Acknowledged(c, s) == At(c, s) /\ pRequest[c].status = "served"
(* emitWithAck rejects: an error, a timeout, or a disconnect.              *)
Fails(c, s) ==
  /\ At(c, s)
  /\ pRequest[c].status \in {"sent", "served"}

-----------------------------------------------------------------------------
(* pushPageDocUpdate: the content, then updatedDate in the root.           *)
EditSends(c) ==
  /\ Begins(c) /\ Loads
  /\ Send(c, "pushing", "content", NoEntry, NoEntry)
  /\ UNCHANGED pRead
EditFails(c) == Fails(c, "pushing") /\ Answers(c, "failed")
EditSaved(c) ==
  /\ Acknowledged(c, "pushing")
  /\ Goes(c, "dating")
  /\ pRead' = [pRead EXCEPT ![c] = <<Cardinality(pServer.edits)>>]   \* the timestamp
  /\ Quiet
UpToDate(entry, date) == entry # NoEntry => entry["updatedDate"] >= date
(* updateWorkspacePageUpdatedDate                                          *)
DateUnneeded(c) ==
  /\ At(c, "dating") /\ UpToDate(pServer.entry, pRead[c][1])
  /\ Answers(c, "saved")
DateSends(c) ==
  /\ At(c, "dating") /\ ~UpToDate(pServer.entry, pRead[c][1])
  /\ Send(c, "mirroring", "root", pServer.entry, [pServer.entry EXCEPT !["updatedDate"] = pRead[c][1]])
  /\ UNCHANGED pRead
DateSent(c) == Acknowledged(c, "mirroring") /\ Answers(c, "saved")
DateFails(c) ==
  /\ Fails(c, "mirroring")
  /\ Goes(c, "confirming")
  /\ GivenUp(c)
  /\ UNCHANGED <<pServer, pQuirks, pRead, pAnswer>>

(* workspacePageHasUpdatedDate finds the date after all.                   *)
DateConfirmed(c) ==
  /\ At(c, "confirming")
  /\ pServer.entry # NoEntry /\ UpToDate(pServer.entry, pRead[c][1])
  /\ Answers(c, "saved")

(* Mutant: the error of the mirror is the error of the edit.               *)
DateUnconfirmedRaw(c) == pStep[c] \in {"dating", "confirming"} /\ Answers(c, "failed")

(* Else, and when a load fails, the caller is told that only the date is   *)
(* missing.                                                                *)
DateUnconfirmed(c) == pStep[c] \in {"dating", "confirming"} /\ Answers(c, "undated")

-----------------------------------------------------------------------------
(* deleteDocFromWorkspace: the entry first, then the content.              *)
DeleteLoads(c) ==
  /\ Begins(c)
  /\ Goes(c, "looking")
  /\ pRead' = [pRead EXCEPT ![c] = <<pServer.entry>>]
  /\ Quiet
DeleteAbsent(c) ==
  /\ At(c, "looking") /\ pRead[c][1] = NoEntry /\ ~Loads
  /\ Answers(c, "already_absent")
DeleteUnlists(c) ==
  /\ At(c, "looking") /\ pRead[c][1] # NoEntry
  /\ pRead' = [pRead EXCEPT ![c] = <<@[1], Loads>>]
  /\ Send(c, "unlisting", "root", pRead[c][1], NoEntry)
DeleteUnlistFails(c) == Fails(c, "unlisting") /\ Answers(c, "failed")
DeleteNoContent(c) == Acknowledged(c, "unlisting") /\ ~pRead[c][2] /\ Answers(c, "deleted")
DeleteSends(c) ==
  /\ \/ Acknowledged(c, "unlisting") /\ pRead[c][2]
     \/ At(c, "looking") /\ pRead[c][1] = NoEntry /\ Loads
  /\ Send(c, "removing", "delete", NoEntry, NoEntry)
  /\ UNCHANGED pRead

(* deleteDoc takes what comes first: an acknowledgement that says so, or a *)
(* load that finds nothing; it fails on an error of either, when the       *)
(* socket goes down and at its deadline.                                   *)
DeleteAcknowledged(c) ==
  /\ Acknowledged(c, "removing") /\ pQuirks.acks
  /\ Answers(c, "deleted")
DeleteVerified(c) == At(c, "removing") /\ ~Loads /\ Answers(c, "deleted")
DeleteFails(c) ==
  /\ At(c, "removing")
  /\ Answers(c, IF pRead[c][1] # NoEntry THEN "partial" ELSE "failed")

-----------------------------------------------------------------------------
(* setDocTrashState, for trash_doc (in) and restore_doc.                   *)
Has(entry, k) == k \in DOMAIN entry
Canonical(entry, in) ==
  /\ ~Has(entry, "inTrash") /\ Has(entry, "trash") /\ entry["trash"] = in
  /\ Has(entry, "trashDate") = in
(* An entry without trash is left alone by restore.                        *)
Unchanged(entry, in) ==
  IF in THEN Canonical(entry, TRUE) ELSE \A k \in {"inTrash", "trash", "trashDate"} :
                                           Has(entry, k) => k = "trash" /\ ~entry[k]
TrashState(entry, in) ==
  LET other == [k \in DOMAIN entry \ {"inTrash", "trash", "trashDate"} |-> entry[k]]
  IN  IF in THEN With(other, {"trash", "trashDate"}, TRUE) ELSE With(other, {"trash"}, FALSE)

TrashRefused(c) == Begins(c) /\ pServer.entry = NoEntry /\ Answers(c, "failed")
TrashNothing(c, in) ==
  /\ Begins(c) /\ pServer.entry # NoEntry /\ Unchanged(pServer.entry, in)
  /\ Answers(c, IF in THEN "trashed" ELSE "restored")
TrashSends(c, in) ==
  /\ Begins(c) /\ pServer.entry # NoEntry /\ ~Unchanged(pServer.entry, in)
  /\ pRead' = [pRead EXCEPT ![c] = <<in, 0>>]
  /\ Send(c, "moving", "root", pServer.entry, TrashState(pServer.entry, in))
TrashFails(c) == Fails(c, "moving") /\ Answers(c, "failed")
TrashSent(c) == Acknowledged(c, "moving") /\ Goes(c, "reading") /\ Quiet /\ UNCHANGED pRead
(* waitForWorkspacePageTrashState                                          *)
TrashReads(c) ==
  /\ At(c, "reading")
  /\ LET in == pRead[c][1] IN
     IF pServer.entry # NoEntry /\ Canonical(pServer.entry, in)
     THEN Answers(c, IF in THEN "trashed" ELSE "restored")
     ELSE IF pRead[c][2] + 1 = TRASH_READBACK_ATTEMPTS THEN Answers(c, "failed")
     ELSE /\ pRead' = [pRead EXCEPT ![c] = <<in, @[2] + 1>>]
          /\ Goes(c, "reading") /\ Quiet
TrashReadFails(c) == At(c, "reading") /\ Answers(c, "failed")
-----------------------------------------------------------------------------
(* Mutant: only a deletion of this call is remembered.                     *)
RemembersDeleted(c) == pAnswer'[c] = "deleted"

(* delete_doc has the tracker remember what it reports gone.               *)
Remembers(c) == pAnswer'[c] # pAnswer[c] /\ pAnswer'[c] \in {"deleted", "already_absent"}

(* The entry is dropped for its age (ttlMs) or for room (maxEntries).      *)
Prune ==
  /\ acknowledgedDeletedDocs
  /\ acknowledgedDeletedDocs' = FALSE /\ pPruned' = TRUE
  /\ UNCHANGED <<pServer, pQuirks, pStep, pRequest, pRead, pAnswer, pListing>>

Gone == \E c \in PageCalls : pAnswer[c] \in {"deleted", "already_absent"}
callVars == <<pServer, pQuirks, pStep, pRequest, pRead, pAnswer>>
(* The GraphQL listing has been answered and shows the page; its index may *)
(* be behind. The tracker is copied before the root is loaded.             *)
ListBegins(l) ==
  /\ pListing[l].step = "idle"
  /\ pListing' = [pListing EXCEPT ![l] = [step |-> "loading", ids |-> acknowledgedDeletedDocs,
                                         due |-> Gone /\ ~pPruned, shown |-> FALSE]]
  /\ UNCHANGED <<callVars, acknowledgedDeletedDocs, pPruned>>
ListEnds(l, shown) ==
  /\ pListing[l].step = "loading"
  /\ pListing' = [pListing EXCEPT ![l].step = "done", ![l].shown = shown]
  /\ UNCHANGED <<callVars, pPruned>>
ListUnloaded(l) == ListEnds(l, ~pListing[l].ids) /\ UNCHANGED acknowledgedDeletedDocs
(* A page of the root is forgotten by the tracker; one the root does not   *)
(* have is looked up, and is not shown if it does not load.                *)
ListLoaded(l) ==
  IF pServer.entry # NoEntry
  THEN /\ ListEnds(l, TRUE)
       /\ acknowledgedDeletedDocs' = (acknowledgedDeletedDocs /\ ~pListing[l].ids)
  ELSE ListEnds(l, Loads /\ ~pListing[l].ids) /\ UNCHANGED acknowledgedDeletedDocs
(* Without the right to the GraphQL listing the root is what is shown.     *)
ListFromRoot(l) ==
  /\ ListEnds(l, pServer.entry # NoEntry /\ ~pListing[l].ids)
  /\ acknowledgedDeletedDocs' = (acknowledgedDeletedDocs /\ (pServer.entry = NoEntry \/ ~pListing[l].ids))

PageNext ==
  \/ \E c \in PageCalls :
       \/ /\ \/ Serve(c)
             \/ EditSends(c) \/ EditFails(c) \/ EditSaved(c) \/ DateUnneeded(c) \/ DateSends(c)
             \/ DateSent(c) \/ DateFails(c) \/ DateConfirmed(c) \/ DateUnconfirmed(c)
             \/ TrashRefused(c) \/ TrashFails(c) \/ TrashSent(c) \/ TrashReads(c) \/ TrashReadFails(c)
             \/ \E in \in BOOLEAN : TrashNothing(c, in) \/ TrashSends(c, in)
          /\ UNCHANGED listVars
       \/ /\ \/ DeleteLoads(c) \/ DeleteAbsent(c) \/ DeleteUnlists(c) \/ DeleteUnlistFails(c)
             \/ DeleteNoContent(c) \/ DeleteSends(c) \/ DeleteAcknowledged(c) \/ DeleteVerified(c)
             \/ DeleteFails(c)
          /\ acknowledgedDeletedDocs' = (acknowledgedDeletedDocs \/ Remembers(c))
          /\ pPruned' = (pPruned /\ ~Remembers(c))
          /\ UNCHANGED pListing
  \/ \E l \in Listings : ListBegins(l) \/ ListUnloaded(l) \/ ListLoaded(l) \/ ListFromRoot(l)
  \/ Prune
  \/ (\A c \in PageCalls : At(c, "done")) /\ UNCHANGED pageVars

PageSpec == PageInit /\ [][PageNext]_pageVars

-----------------------------------------------------------------------------
(* What callers are told is true when they are told, if no request given   *)
(* up on has landed meanwhile: a document reported deleted or absent has   *)
(* neither entry nor content, a partial deletion took the entry, an edit   *)
(* that is saved is in the content and its date in the root, and once the  *)
(* content was acknowledged the edit is never reported as failed, which    *)
(* would have it done again: only its date may be missing.                 *)
PageReportsAreTrue ==
  [][(\A o \in PageCalls : pRequest[o].status # "landed") =>
       \A c \in PageCalls : pAnswer'[c] # pAnswer[c] =>
         LET told == pAnswer'[c] IN
         /\ told \in {"deleted", "already_absent"} => pServer.entry = NoEntry /\ ~pServer.content
         /\ told = "partial" => pServer.entry = NoEntry
         /\ told \in {"saved", "undated"} => c \in pServer.edits
         /\ told = "saved" => UpToDate(pServer.entry, pRead[c][1])
         /\ told = "failed" => pStep[c] \notin {"dating", "mirroring", "confirming"}
         /\ told = "restored" => \A k \in {"inTrash", "trash"} :
                                  Has(pServer.entry, k) => ~pServer.entry[k]]_pageVars

(* list_docs does not show a document that was reported deleted before it  *)
(* began, however far the server's index is behind, whether its snapshot   *)
(* is retained and whether the root loads, until the tracker drops it.     *)
DeletedPagesAreNotListed ==
  \A l \in Listings : pListing[l].due => ~pListing[l].shown
=============================================================================
