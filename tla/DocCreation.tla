------------------------------ MODULE DocCreation ------------------------------
(***************************************************************************)
(* Creating a document: commitNewDocument and reconcileDocumentCreation in *)
(* src/tools/docs.ts, with the verdicts of src/util/mutationSafety.ts.     *)
(*                                                                         *)
(* A creation pushes the content, then an entry of the workspace root's    *)
(* page list.  Any push can be refused, lost, or applied after the caller  *)
(* stopped waiting; any load can fail.  One creation is modelled: its id   *)
(* is fresh, so no other writer touches what it looks at.                  *)
(***************************************************************************)
EXTENDS Naturals, FiniteSets

CONSTANTS Titles   \* rebuilding the page entry gives an entry of its own

Unknown == "unknown"       \* a probe that could not be made (null)
Verdicts == {"yes", "no", Unknown}
Verdict(found) == {IF found THEN "yes" ELSE "no", Unknown}
Content == "content"       \* the content update; retries send the same bytes
NoUpdate == "none"         \* no metadata update has been built
Updates == {Content} \cup Titles

ASSUME TitlesAssumption == Content \notin Titles /\ NoUpdate \notin Titles

VARIABLES
  pc,        \* position in commitNewDocument / reconcileDocumentCreation
  stage,     \* input.stage: what failed first
  attempted, \* reconciliation steps taken: "retry" and "repair"
  built,     \* metadataUpdateBase64, or NoUpdate
  sending,   \* the update whose push is awaited
  probe,     \* the last probe: [content, metadata]
  tries,     \* tries[u]: pushes of update u
  inflight,  \* pushes on their way: pairs of an update and its try
  content,   \* server: the document exists
  pages,     \* server: page entries of this document in the workspace root
  result     \* "none", "ok", "partial" or "uncertain"

client == <<stage, attempted, built, sending, probe, tries, result>>
server == <<inflight, content, pages>>
vars == <<pc, client, server>>

Init ==
  /\ pc = "sendContent"
  /\ stage = "content" /\ attempted = {} /\ built = NoUpdate /\ sending = NoUpdate
  /\ probe = [content |-> Unknown, metadata |-> Unknown]
  /\ tries = [u \in Updates |-> 0]
  /\ inflight = {}
  /\ content = FALSE
  /\ pages = {}
  /\ result = "none"

Goto(from, to) == pc = from /\ pc' = to

-----------------------------------------------------------------------------
(* pushForDocumentCreation: send an update and wait for its acknowledgement. *)
Push(u, from, to) ==
  /\ Goto(from, to)
  /\ sending' = u
  /\ tries' = [tries EXCEPT ![u] = @ + 1]
  /\ inflight' = inflight \cup {<<u, tries[u] + 1>>}
  /\ UNCHANGED <<stage, built, probe, result, content, pages>>

Current == <<sending, tries[sending]>>

(* Where a failed push leads: into reconciliation, or to its next probe. *)
AfterFailure(at) ==
  /\ pc' = "probeContent"
  /\ stage' = IF pc \in {"awaitContent", "awaitMetadata"} THEN at ELSE stage

(* ... and a confirmed one. *)
AfterSuccess ==
  CASE pc = "awaitContent" -> pc' = "build" /\ UNCHANGED result
    [] pc = "awaitMetadata" -> pc' = "end" /\ result' = "ok"
    [] pc \in {"awaitRetry", "awaitRepair"} -> pc' = "probeContent" /\ UNCHANGED result

Awaiting == pc \in {"awaitContent", "awaitMetadata", "awaitRetry", "awaitRepair"}
FirstFailure == IF pc = "awaitContent" THEN "content" ELSE "metadata"

PushAcknowledged ==
  /\ Awaiting
  /\ Current \notin inflight
  /\ AfterSuccess
  /\ UNCHANGED <<stage, attempted, built, sending, probe, tries, server>>

(* The server answers with an error and drops the update. *)
PushRefused ==
  /\ Awaiting
  /\ Current \in inflight
  /\ inflight' = inflight \ {Current}
  /\ AfterFailure(FirstFailure)
  /\ UNCHANGED <<attempted, built, sending, probe, tries, result, content, pages>>

(* No acknowledgement in time: the update may be applied, lost, or late. *)
PushTimesOut ==
  /\ Awaiting
  /\ AfterFailure(FirstFailure)
  /\ UNCHANGED <<attempted, built, sending, probe, tries, result, server>>

(* The server merges an update; merging the same bytes again is a no-op.   *)
ServerApplies ==
  /\ \E p \in inflight :
       /\ inflight' = inflight \ {p}
       /\ content' = (content \/ p[1] = Content)
       /\ pages' = pages \cup ({p[1]} \cap Titles)
  /\ UNCHANGED <<pc, client>>

-----------------------------------------------------------------------------
(* buildWorkspacePageMetadataUpdate: a listed document needs no update,    *)
(* which cannot happen in commitNewDocument: the id is fresh.              *)
BuildUpdate(u) ==
  /\ pages = {}
  /\ tries[u] = 0
  /\ built' = u

BuildMetadata ==
  /\ Goto("build", "sendMetadata")
  /\ \E u \in Titles : BuildUpdate(u)
  /\ UNCHANGED <<stage, attempted, sending, probe, tries, result, server>>

BuildFails ==
  /\ Goto("build", "probeContent")
  /\ stage' = "metadata"
  /\ UNCHANGED <<attempted, built, sending, probe, tries, result, server>>

-----------------------------------------------------------------------------
(* probeDocumentCreation: two loads, each of which may fail. *)
ProbeContent ==
  /\ Goto("probeContent", "probeMetadata")
  /\ \E v \in Verdict(content) : probe' = [probe EXCEPT !.content = v]
  /\ UNCHANGED <<stage, attempted, built, sending, tries, result, server>>

ProbeMetadata ==
  /\ Goto("probeMetadata", "decide")
  /\ \E v \in Verdict(pages # {}) : probe' = [probe EXCEPT !.metadata = v]
  /\ UNCHANGED <<stage, attempted, built, sending, tries, result, server>>

Complete == probe.content = "yes" /\ probe.metadata = "yes"
RetryContent == stage = "content" /\ probe.content = "no" /\ attempted = {}
Repairs == probe.content = "yes" /\ probe.metadata = "no" /\ "repair" \notin attempted

Reconciled ==
  /\ Complete
  /\ Goto("decide", "end")
  /\ result' = "ok"
  /\ UNCHANGED <<stage, attempted, built, sending, probe, tries, server>>

ContentRetried ==
  /\ RetryContent
  /\ Push(Content, "decide", "awaitRetry")
  /\ attempted' = attempted \cup {"retry"}

RepairStarts ==
  /\ Repairs
  /\ Goto("decide", "ensure")
  /\ attempted' = attempted \cup {"repair"}
  /\ UNCHANGED <<stage, built, sending, probe, tries, result, server>>

(* Mutant: a missing page entry is enough to report stored content. *)
CreationFailsHalfChecked ==
  /\ ~Complete /\ ~RetryContent /\ ~Repairs
  /\ Goto("decide", "end")
  /\ result' = IF probe.metadata = "no" THEN "partial" ELSE "uncertain"
  /\ UNCHANGED <<stage, attempted, built, sending, probe, tries, server>>

(* DocumentCreationError: "partial" only for content without an entry.     *)
CreationFails ==
  /\ ~Complete /\ ~RetryContent /\ ~Repairs
  /\ Goto("decide", "end")
  /\ result' = IF probe.content = "yes" /\ probe.metadata = "no"
               THEN "partial" ELSE "uncertain"
  /\ UNCHANGED <<stage, attempted, built, sending, probe, tries, server>>

(* ensureWorkspacePageMetadata: look again, then send the update that was  *)
(* built before, if any, or a new one.                                     *)
EnsureFindsOrFails ==
  /\ Goto("ensure", "probeContent")
  /\ UNCHANGED <<stage, attempted, built, sending, probe, tries, result, server>>

(* Mutant: the repair builds a fresh entry although one was sent before. *)
EnsureBuildsAfresh ==
  /\ pages = {}
  /\ Goto("ensure", "repair")
  /\ \E u \in Titles : BuildUpdate(u)
  /\ UNCHANGED <<stage, attempted, sending, probe, tries, result, server>>

EnsureBuilds ==
  /\ pages = {}
  /\ Goto("ensure", "repair")
  /\ IF built # NoUpdate THEN UNCHANGED built
     ELSE \E u \in Titles : BuildUpdate(u)
  /\ UNCHANGED <<stage, attempted, sending, probe, tries, result, server>>

SendContent  == Push(Content, "sendContent", "awaitContent") /\ UNCHANGED attempted
SendMetadata == Push(built, "sendMetadata", "awaitMetadata") /\ UNCHANGED attempted
SendRepair   == Push(built, "repair", "awaitRepair") /\ UNCHANGED attempted

Reported == pc = "end" /\ inflight = {} /\ UNCHANGED vars

ClientStep ==
  \/ SendContent \/ SendMetadata \/ SendRepair
  \/ PushAcknowledged \/ PushRefused \/ PushTimesOut
  \/ BuildMetadata \/ BuildFails
  \/ ProbeContent \/ ProbeMetadata
  \/ Reconciled \/ ContentRetried \/ RepairStarts \/ CreationFails
  \/ EnsureFindsOrFails \/ EnsureBuilds

Next == ClientStep \/ ServerApplies \/ Reported

Spec == Init /\ [][Next]_vars

-----------------------------------------------------------------------------
TypeOK ==
  /\ pc \in {"sendContent", "awaitContent", "build", "sendMetadata", "awaitMetadata",
             "probeContent", "probeMetadata", "decide", "awaitRetry", "ensure",
             "repair", "awaitRepair", "end"}
  /\ stage \in {"content", "metadata"}
  /\ attempted \subseteq {"retry", "repair"}
  /\ built \in Titles \cup {NoUpdate}
  /\ sending \in Updates \cup {NoUpdate}
  /\ probe \in [content : Verdicts, metadata : Verdicts]
  /\ tries \in [Updates -> Nat]
  /\ inflight \subseteq Updates \X Nat
  /\ content \in BOOLEAN
  /\ pages \subseteq Titles
  /\ result \in {"none", "ok", "partial", "uncertain"}

(* What is reported is true, whichever acknowledgements were lost on the   *)
(* way: "ok" means that content and page entry are both on the server, and *)
(* "partial" that the content is.                                          *)
ReportsAreTrue ==
  /\ result = "ok" => content /\ pages # {}
  /\ result = "partial" => content

(* The sidebar never lists a document that has no content: the entry goes  *)
(* out only when the content is known to be stored.                        *)
ContentBeforeEntry == pages # {} => content

(* "an ACK lost after the write cannot create a duplicate page entry", and *)
(* neither can a push applied after the report.                            *)
NoDuplicateEntry == Cardinality(pages) <= 1

(* What the sidebar lists of a creation, at any time: one entry, and its   *)
(* content is there.                                                       *)
EntriesAreSound == ContentBeforeEntry /\ NoDuplicateEntry

(* At most one identical content retry and one metadata retry are sent.    *)
RetriesBounded ==
  /\ tries[Content] <= 2
  /\ \A u \in Titles : tries[u] <= 2
=============================================================================
