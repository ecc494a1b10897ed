# affine-mcp-server: models and proofs

TLA+ models of the parts of affine-mcp-server whose correctness depends on the
order of events: what happens between two `await`s, after a lost
acknowledgement, or when two clients meet; and of the structures its tools edit,
which must survive long sequences of edits and merges that come late. TLC checks the models on small
instances; TLAPS proves theorems about most of them for every instance.

`PROJECT.json` lists the components, the runs, the mutants that show each
property can fail, the source lines behind every definition (`map`), the hazards
of the code, and the theorems. Source paths below are relative to the server's
own `src/` directory.

To repeat a check: `tlc -config MCWriteOrder.cfg MCWriteOrder`, or
`tlapm M.tla` for the proofs of a module `M` whose name ends in `Proofs`.

## 1. The system

The server exposes about a hundred MCP tools over AFFiNE, a collaborative
editor. Documents are Yjs (CRDT) documents kept by an AFFiNE server. A writing
tool opens a Socket.IO connection, loads a document, changes its local copy,
computes the delta and pushes it with an acknowledgement timeout
(`ws.ts`). Nothing is persisted by this process; its state is in memory.

```
 stdio client --> stdioHttpProxy --HTTP--> sse.ts (sessions) --> one McpServer per session
                                                                     |
        index.ts: one process-wide  WriteCoordinator, DocPatchService, AuthSession
                                                                     |
     tool call --> toolCoordination (queue, revision) --> handler (tools/*.ts)
                                                             |            |
                                                         ws.ts        graphqlClient
                                                             |            |
                                                          AFFiNE server (Yjs, GraphQL)
```

### Inventory

| Component | State | Operations | Hard behaviour | What makes it correct |
|---|---|---|---|---|
| **Write queue** `util/writeCoordinator.ts` | per scope: active flag, FIFO of waiters with timer and abort listener | `run`, hand-over, abort, wait timeout | hand-over racing abort and timeout; operations that hang | mutual exclusion per workspace, FIFO, nobody stranded, no scope leaks, decisions are final |
| **Tool coordination** `toolCoordination.ts`, `util/documentRevision.ts` | none of its own; the revision tokens clients hold | wrap a handler: queue, compare `expectedRevision`, run, add the new revision | check-then-act across two loads, native editors outside the queue, late pushes | a guarded edit is based on what its author read |
| **Document patches** `docPatches.ts` | map of prepared updates: status, expiry, base version, credential | `prepare`, `apply`, `discard`, cleanup | expiry and discard during apply, unconfirmed pushes, capacity across `await` | published at most once, on the reviewed base; true answers; bounded store |
| **HTTP sessions** `sse.ts` | session table, pending reservations, per-session request count, timers, shutdown promise | initialize, request, stream, DELETE, legacy SSE and messages, sweep, shutdown | every handler awaits between check and registration | capacity, no leaked slot or transport, sessions with a POST or DELETE in progress spared, idle ones reclaimed |
| **Document creation** `tools/docs.ts`, `util/mutationSafety.ts` | local: what was pushed and probed; then body, tags, parent link, folder | push content, push page entry, probe, retry, repair; fill, clone, tag, link, file, answer | lost and late acknowledgements, failing probes; five later pushes of which any may fail | at most one page entry, never before its content; one true answer about every step |
| **Document move** `tools/docs.ts`, `util/mutationSafety.ts` | local: walk of the cycle check, outcome | check, add link, remove link | two documents written one after the other, other writers between loads | no cycle, no orphan, true reports |
| **Stdio bridge** `stdioHttpProxy.ts` | session id, saved initialize, promise queue, closing flag | forward, recover session, close | replay after a lost session, half-finished recovery, timeouts | no call runs twice; answers true, in order, one each |
| **Authentication** `authSession.ts`, `auth.ts`, `graphqlClient.ts` | pending sign-in, cookie, refresh time, last failure | `ready`, `resolveAuth` | clients sharing one sign-in while it fails or expires | live cookies only, cooldown after failures |
| **Page index, deletion, trash** `ws.ts`, `tools/docs.ts` | (remote) entry, content, date, trash fields; local tracker of deleted pages | push and mirror `updatedDate`; delete with verification; trash, restore with read-back; list | second push fails after the first succeeded; acknowledgement racing verification; index behind | saved edits are never reported as failed; nothing left is reported deleted; nothing deleted is listed |
| **Block tree** `tools/docs.ts` | (remote) blocks with child lists | append, Markdown and section writes, update, move, delete, patch | hand-edited child lists; indices around a removal | one tree; a block stands where it was asked for |
| **Databases** `tools/docs.ts` | (remote) columns, options, views, rows, cells | rows and columns: add, update, delete; compose | several structures per change; two pushes of a composition; data maps made on first use | what is stored can be read |
| **Tables** `tools/docs.ts` | (remote) rows, columns, cells in three layouts | update cell, update widths | a cell is named by its place | the cell named is the cell set |
| **Surface** `tools/docs.ts`, `edgeless/layout.ts` | (remote) elements, frames, notes | add, update, delete, own, place, stack, connect | references across three structures; rounding; hints that exclude each other | no dangling end; hints are honoured |
| **Mind maps** `tools/mindmap.ts` | (remote) map, shapes, locks | create, add, relabel, collapse, reparent, style, layout, lock | other tools take a node's shape | readable by the next tool; no overlap |
| **Tags** `tools/docs.ts` | (remote) options, entries of pages | create, add, remove, delete, copy from a template | two places per tag, two notations | no dangling id, no tag twice |
| **Folders, collections** `tools/organize.ts` | (remote) node records; an array of values | create, rename, move, delete with cascade, links, blueprint; collection tools | cycles, cascades; values replaced whole | a forest; no collection lost |
| **Properties** `tools/properties.ts` | (remote) definitions; values | create, delete, set, clear | two documents, names and ids | values under live definitions |
| **Templates** `tools/docs.ts` | none | clone, render, fall back to Markdown | ids in strings, lists and keys | a clone stands for itself |
| Markdown, diff | none | convert | text conversions, out of reach | |
| Blobs, icons, comments, history, notifications, workspaces, users | none | one request each | none here | |
| Config, CLI, tool surface, schemas, URL and OAuth policy | read once | parse, validate | none here | stateless |

The last three rows are text or have no interleaving and little state of their
own; they are listed as `not_modelled` in `PROJECT.json`, each with its reason.

## 2. What is modelled, and how

A synchronous stretch of JavaScript, from one `await` (or callback) to the next,
is **one action**. Whatever another request, a timer or a socket event may do
falls between two actions.

| Module | Models | Abstracts |
|---|---|---|
| `WriteCoordinator` | the class: `RunInvalid`, `RunAborted`, `RunNow`, `RunFull`, `RunQueued` are the branches of `run`; `Return` is the settling of the operation and `Release` the `finally` of `execute`, a turn later; `WaitExpires` and `Abort` are the two callbacks | scope strings |
| `SerialWrites` | what the queue promises: accepted writes of a scope run one at a time in the order accepted | |
| `WriteOrder` | `WriteCoordinator` with a history of acceptances and the refinement mapping to `SerialWrites` | |
| `ToolCoordination` | a wrapped tool call on top of `SerialWrites`: registry load, document load, comparison, handler's own load, push, acknowledgement | handlers are four shapes: append, replace, delete, read; a document is its sets of added and deleted items |
| `DocPatches` | the patch service on top of `SerialWrites`, with its clock and store | document content is a version number; the place of a prepare in the queue |
| `HttpSessions` | the handlers of `/mcp`, `/sse`, `/messages`, the sweep and shutdown | routing, CORS, authentication, body contents |
| `DocCreation` | `commitNewDocument` and `reconcileDocumentCreation` | the content; the random id is fresh |
| `DocPlacement` | the four tools that create a document, around `DocCreation`: checks before it; body or clone, tags, parent link, folder after it; the answer | what the body says; sections; titles |
| `DocMove` | `executeSafeDocumentMove` with its five dependencies | order of the walk; waiting in the queue; trees of links only |
| `StdioProxy` | `StdioHttpProxy` and its shutdown | message bodies; notifications, which get no answer |
| `AuthSession` | `AuthSession.ready` and `GraphQLClient.resolveAuth`: joining a sign-in, refusal in the cooldown, refresh before expiry | other schemes, whose credentials do not change |
| `PageLifecycle` | `pushPageDocUpdate`, `deleteDoc` and the tools around it, trash and restore, `list_docs` with the tracker of deleted pages | several pages; the content but for whose edits are in it |
| `DocUpdates` | the life every tool call on one document shares: load, edit, push; merged, refused, lost, late | |
| `YjsMerge` | what sets, maps and arrays of a Yjs document become when an update is merged (external) | conflicts on one key: last merged wins |
| `BlockTree` | `append_block` with its types and placements, Markdown and sections, `update_block`, `move_block`, `delete_block`, patches | text and other properties |
| `Databases` | the database tools with columns, their data maps, options, views and cells, and the two pushes of a composition | cell values but select options |
| `Tables` | the two table tools over nested, object and flat storage | formatting |
| `Surface` | the canvas tools, `edgeless/layout.ts`, placement and frame ownership | colours, fonts, labels |
| `Mindmaps` | `mutateNativeMindmap`, its reader, styles, layout and locks; the surface tools that touch a node | label text but its number of lines |
| `Tags` | the tag tools | case and spelling |
| `OrganizeTree`, `Collections` | the tools of `tools/organize.ts` | names; what a filter says but the documents it matches |
| `DocProperties` | the property tools | how a value is encoded |

**The environment.** In every module the AFFiNE server or HTTP listener is
external. A push has four fates: merged and acknowledged, merged and not
acknowledged, merged *after* its caller gave up (`emitWithAck`, `ws.ts:36`,
stops waiting but cannot recall the packet), or lost. Loads may fail. The native
editor writes outside the queue, at any time in `ToolCoordination`, `DocPatches`
and `DocMove`; in the modules of structures it adds a table row (`Tables`) or
locks a map (`Mindmaps`), and what else it may change under a call is covered by
the late merges of another call.

**How modules compose.** `ToolCoordination` and `DocPatches` extend
`SerialWrites`, the abstract queue, and not the queue's implementation;
`ServesInArrivalOrder` says that the implementation keeps the promise they
rely on. Their proofs start in the same way from what is proved of the promise. `DocPlacement` extends `DocCreation`: its calls wait for the end of a
creation and go on from its result. The nine modules of structures take their
load, edit and push from one instance each of `DocUpdates`
(`INSTANCE DocUpdates WITH Calls <- ..., Merge <- ...`), which assumes of the
queue what `MutualExclusion` says, and nothing of the server: an update may be
merged after any number of later calls. `DocMove` relies on `MutualExclusion`
only.

Three modules bring independent components into one run: `MCDocument` (the
structures of a page), `MCWorkspace` (what the tools keep outside the pages) and
`MCRemote` (what requests leave on the server). A variable `part`, chosen at the
start, says which component moves; the parts share no state, so a run of the
three is the union of their runs.

**Late merges.** Many properties have the form "while updates are merged in
order" (`stale = FALSE`): the tools promise nothing for an update computed from
a document that has changed since, and Yjs cannot keep a structure whole that
spans several records. Each property says separately what holds then too.

## 3. Runs

| Run | Instance | Properties |
|---|---|---|
| `write_queue` | 4 calls (2 with a signal), 2 scopes, 2 places | `MutualExclusion`, `NoStrandedWaiter`; refinement `ServesInArrivalOrder`; liveness `WaiterLeavesQueue` |
| `tool_coordination` | 3 calls, 1 document, 1 outside edit | `GuardedEditKeepsItsBase`, `ReadFollowsQueueOrder`, `DeletionRetiresTokens` |
| `doc_patches` | 2 patches in 2 workspaces, 2 apply calls, 2 credentials, store of 1, 3 clock values, 3 versions | `PublishedAtMostOnce`, `PublishedOnReviewedBase`, `AnswersAreTrue` |
| `http_sessions` | 3 requests, 2 slots | `SessionsAreAccounted`, `SweepSparesBusySessions`; liveness `SessionsAreReclaimed` |
| `stdio_proxy` | 3 requests, a listener that opens 3 sessions | `DispatchedAtMostOnce`, `AnswersAreTrue`; liveness `EveryRequestIsSettled` |
| `document` | 2 calls on a page of 5 blocks or of one; on a database; on a table of 2 by 2; on a canvas of 3 things; on a map of 4 nodes | `BlocksFormATree`, `PlacementHonoured`, `DatabasesStayReadable`, `TableEditsHitTheirCells`, `SurfaceReferencesResolve`, `LayoutHintsHonoured`, `MindmapsStayReadable`, `MindmapsAreLaidOut` |
| `workspace` | 2 calls on 2 pages and a tag; on 3 nested folders and a link; on a collection over 2 documents and 2 filters; on 3 properties and their values; 2 moves of 3 documents and 1 outside link | `TagsStayWhole`, `TagRequestsAreKept`, `TreeStaysWhole`, `CollectionsAreKept`, `PropertyValuesAreKept`, `MovesMakeNoCycle`, `OnlyLateRemovalsOrphan`, `MoveReportsAreTrue` |
| `remote` | 2 calls and a listing on one page, under 3 ways AFFiNE deletes; 2 clients and 4 sign-in answers; one creation by any of 4 tools, 3 templates | `PageReportsAreTrue`, `DeletedPagesAreNotListed`, `CredentialsAreLive`, `CooldownRespected`, `ReportsAreTrue`, `EntriesAreSound`, `CreationsAreTold`, `ClonesStandAlone` |
| `http_shutdown` | as `http_sessions` | expected violation of `ShutdownClosesTransports` |
| `move_orphan` | as `workspace`, no outside link | expected violation of `FailedMoveKeepsLink` |
| `folder_cycle` | as `workspace` | expected violation of `FoldersHangFromTheRoot` |
| `template_clone` | as `remote` | expected violation of `ClonesReadAlike` |

Type invariants (`TypeOK`) and the invariants that are proved and say little more
(`NoScopeLeak`, `DecisionIsFinal`, `RetriesBounded`) are in no run.

### Why the bounds are enough

* *Queue.* Four calls in one scope are a holder, two waiters and one turned away
  at the limit; the second scope shows that scopes do not disturb each other.
  The theorems remove the bounds.
* *Tools.* The hazards involve a guarded call, a rival in the queue, and an
  unconfirmed call whose push is still on its way: three. The outside edit is
  the fourth writer.
* *Patches.* A second apply of the same patch, a second patch for the same place
  in the store, a second credential that must not see it. The clock needs one
  tick to expire a patch and one more to be late.
* *Sessions.* Three requests are a session, a request on it and a rival
  handshake, or two handshakes for the last slot.
* *Moves.* Three documents allow a parent, a child and a place to move it; a
  cycle through an intermediate document; and the move back. Two moves are
  needed for a late push of the first to meet the second.
* *Structures.* Two calls are what every property about one call needs: the call
  and one before it, answered or late. The second also meets what the first
  made (a block under a new note, a row in a composed database, a folder in a
  new folder). The starts hold the cases that matter: a list under a text and a
  page without a note; a database with and without a select column that has no
  options; a table in each storage layout; an owned element and a
  free note; a tall node between small ones, with a child; a tag by label;
  a folder two below another, with a link; a deleted property that left a value
  and shares its name. Placements are listed in `MCAppends`: after blocks in the
  four directions, after a surface element and after a missing id (both refused or
  skipped), with coordinates, paddings and gaps given and not. Bounds of the canvas are counted in half pixels, where
  rounding matters.
* *Pages.* Two writes and one listing: a deletion against an edit, a trash, a
  restore, a second deletion, each late or refused, with a listing that began
  before, between or after.
* *Sign-in.* A step of the clock is half a minute; lifetimes of 0, 2, 4 and no
  end stand for dead, shorter than the refresh margin allows, longer, endless.
* *Creations.* All combinations of tool, parent, folder, template tags and
  fallback; templates with a database and a frame, with links, and with a value
  the scan does not support.
* *Bridge.* A client initialize, a call rejected for a lost session, and a call
  after a failed recovery. A listener that opens three sessions can forget two.
  Four requests were checked too, with the same result (305 000 states).

`MaxTime`, `MaxVersion` (`DocPatches`), `Lines` and `MaxOpened` (`StdioProxy`),
`MAX_TIME` (`AuthSession`) and `MAX_KEY` (`OrganizeTree`) are the only bounds on
counters; each is a constant and stands in a guard. `MAX_NODES`, `MAX_DEPTH`,
`MAX_LIFETIME`, `RETRY_DELAY` and `TRASH_READBACK_ATTEMPTS` are constants of the
code, made smaller.
`MaxOpened` is not artificial: a listener at its capacity refuses.

The finite sets of calls run out, so behaviours end; `Quiescent`, `Idle`,
`AllOver`, `Reported`, `Done`, `Exited` and `UpdatesDone` name the only states in
which they may, and deadlock is checked in all other states.

### Fairness

Safety needs none. For liveness:

* `WaiterLeavesQueue`: the event loop runs due timers and promise continuations
  (`LoopFairness`). Nothing is assumed of the operation that holds the scope:
  it may hang for ever, and the waiters leave by their timers.
* `SessionsAreReclaimed`: the sweep interval and idle time pass
  (`TimerFairness`), and Streamable HTTP handlers other than open streams return
  (`HandlerFairness`). A client is free never to come back.
* `EveryRequestIsSettled`: the proxy's continuations run and each exchange ends
  by its deadline (`fetchResponseBody` aborts it, body included). The
  listener may do nothing at all.

## 4. What the checks show

*The queue does its work.* In every interleaving one call of a workspace is
inside, and the ones in line are served in order or leave it with one answer.

*`expectedRevision` protects content, within its stated limits.* A guarded edit is
built on the revision its author read, and the only other content between
comparison and merge comes from writers the queue cannot order: the native
editor, other processes, and earlier calls of this process that were
reported unconfirmed. `GuardedEditKeepsItsBase` states exactly that exception,
which the tool's own description announces ("requires all writers to share one
MCP server"); it adds that a timed-out call of the same server counts as an
outsider.

*A patch is published at most once,* also when its push is not acknowledged: the
status `unknown` is terminal.

*The idle sweep spares work, not listeners.* A session is swept only when none of
its POST or DELETE requests is in progress. A GET stream sets `lastActivityAt`
when it is opened and closed and is not counted as an active request (`sse.ts:297`,
`325-326`), so a session whose client only listens goes when its idle time is over;
`SweepSparesBusySessions` exempts exactly that.

*A creation never lists a document twice,* because the repair sends the bytes that
were built first, and never before the content is known to be stored.

*A move keeps the document tree a tree* as far as it can see it. Its report is
true when it is made, except for what a late removal of an earlier partial move
takes away at that moment.

*The bridge replays only what was never run.* A call that the listener rejected
with "session not found" is sent again; one that failed in any other way is not,
and after a half-finished recovery the handshake starts over. The model includes
an answer that is an empty body (a stream the listener ended early): the
bridge then writes nothing for that request, so a client must have a timeout of
its own. `EveryRequestIsSettled` means that the bridge is done with the request.

*A creation tool tells the truth about five pushes* (`CreationsAreTold`), with one
gap that the property names: when the parent's lookup fails (`tools/docs.ts:4490`)
or its date is not saved (404-409), the error of the Markdown and semantic tools
lacks the new document's id, although the document is complete; a retry makes a
second one. The comment at `tools/docs.ts:285` and `docs/tool-reference.md:174`
speak of every creation error. `instantiate_template_native` instead warns in
the second case that the parent could not be linked although it is.

*Edits and deletions of a page are reported truthfully,* up to what a request
given up on does later: a late push can revive the content of a deleted page
without its entry, a late mirror can set an older date.

*The structures of a page survive every sequence of calls* as long as updates
are merged in order; tables do in any case. Databases do but for two cases that
`DatabasesStayReadable` names: a late second push of a composition, and a select
column created without options (`tools/docs.ts:9134`). Such a column has no data
map; the first call that writes a cell makes it (8435-8440). When two calls make
one each and one of them is merged late, Yjs keeps one map, and the cell of the
other call shows a bare option id. What the tools do not promise, and the
properties leave out by name: `append_block` ignores a placement of `index`
alone; a frame fitted with padding 0 may cut fractional children
(`edgeless/layout.ts:101`); coordinates and negative gaps are the caller's own; a
mind map node at least as tall as the column of its children may overlap a
neighbour (`Overhangs`), if its branch is unfolded; a surface tool that deletes or
groups a node's shape leaves a map the mind map tools refuse; deleting a surface
element leaves its id in groups.

*Tags, folders, collections and properties stay together* in the same sense.
`add_tag_to_doc` given a tag's id makes a new tag of that name and unseats the
tag; `delete_tag` leaves bare labels of other clients. After a late merge a
node may be below a deleted folder, two collections may have one id, two tags
one name.

### Disagreements found

1. **Shutdown can miss a session** (`http_shutdown`). An initialize request past
   the shutdown check registers its session after `performShutdown` has closed
   the others. `docs/configuration-and-deployment.md:253-254` says that shutdown
   closes MCP transports. The window is one handshake; the process then exits.
2. **A failed move can orphan a document** (`move_orphan`), contrary to the
   comment at `tools/docs.ts:6446-6447` and `CHANGELOG.md:312`. The removal of
   the old link times out and the move reports `partial`. The user moves the
   document back: the old link is still seen, so none is added, and the new one
   is removed. Then the late removal is merged. `OnlyLateRemovalsOrphan` shows
   that this is the only way: it takes a late removal *and* a second move.
3. **A folder can be moved into itself** (`folder_cycle`). `isAncestor`
   (`tools/organize.ts:550`) answers false for the folder itself, so the check
   "Cannot move a folder into its descendant." (1378) lets it pass. The folder
   vanishes from the sidebar, and `delete_folder` (1312-1328) of it never ends.
   `TreeStaysWhole` shows that nothing else makes a cycle while updates are
   merged in order.
4. **A cloned template loses cells and frame contents** (`template_clone`).
   `cloneNativeTemplateValue` (`tools/docs.ts:4079`) renames ids in values but not
   in the keys of maps, and a database's cells and a frame's members are keyed by
   block ids. `ClonesStandAlone` shows that every other reference is renamed.

## 5. What is proved

Every theorem holds for all values of the constants that meet the named
assumption of the model's module; TLC evaluates each assumption on the run's
values. The safety properties of the runs that a theorem states:

| Module | Theorem | Property | For every |
|---|---|---|---|
| `WriteCoordinatorProofs` | `ScopesAreExclusive` | `MutualExclusion` | set of calls and scopes, queue limit |
| | `NobodyIsStranded` | `NoStrandedWaiter` | |
| | `ServedInOrder` | `ServesInArrivalOrder` (refinement) | |
| `ToolCoordinationProofs` | `GuardedEditsAreOnBase` | `GuardedEditKeepsItsBase` | set of calls, documents, workspaces, outside edits |
| | `ReadsAreInOrder` | `ReadFollowsQueueOrder` | |
| | `DeletionsRetire` | `DeletionRetiresTokens` | |
| `DocPatchesProofs` | `PatchesArePublishedOnce` | `PublishedAtMostOnce` | set of patches, apply calls, credentials; store size, lifetime |
| | `PatchesMeetTheirBase` | `PublishedOnReviewedBase` | |
| | `ApplyAnswersAreTrue` | `AnswersAreTrue` | |
| `TransportProofs` | `AccountsAreTrue` | `SessionsAreAccounted` | set of requests, capacity |
| | `SweepIsSafe` | `SweepSparesBusySessions` | |
| | `RequestsRunAtMostOnce` | `DispatchedAtMostOnce` | number of lines and of sessions the listener opens |
| | `ProxyAnswersAreTrue` | `AnswersAreTrue` | |
| `RemoteProofs` | `TrueReports`, `SoundEntries` | `ReportsAreTrue`, `EntriesAreSound` | set of entries a rebuild may give |
| | `AnswersTellWhatIsThere`, `ClonesAreIndependent` | `CreationsAreTold`, `ClonesStandAlone` | creation calls and templates |
| | `GivenCredentialsAreLive`, `NoLoginStorm` | `CredentialsAreLive`, `CooldownRespected` | set of clients, answers, lifetimes; retry delay |
| | `DeletionsStayOutOfListings`, `PageAnswersAreTrue` | `DeletedPagesAreNotListed`, `PageReportsAreTrue` | set of calls and listings |
| `WorkspaceProofs` | `MovesNeverMakeACycle` | `MovesMakeNoCycle` | set of documents, moves, outside edits; acyclic start |
| | `MoveReports`, `OrphansNeedLateRemovals` | `MoveReportsAreTrue`, `OnlyLateRemovalsOrphan` | |
| | `PropertiesAreKept` | `PropertyValuesAreKept` | set of calls, pages, definitions, values |
| | `TreeIsKeptWhole` | `TreeStaysWhole` | tree, of any size and depth, set of calls |
| | `CollectionsStay` | `CollectionsAreKept` | set of calls, documents, filters |
| | `TagsAreKeptWhole`, `TagRequestsAreDone` | `TagsStayWhole`, `TagRequestsAreKept` | set of calls, pages |
| `DocumentProofs` | `ReferencesHold`, `LayoutHintsHold` | `SurfaceReferencesResolve`, `LayoutHintsHonoured` | canvas, set of calls, positions, placements, paddings |
| | `TableEditsHit` | `TableEditsHitTheirCells` | table of any size, set of calls, texts |
| | `MapsStayReadable` | `MindmapsStayReadable` | mind maps of any shape, set of calls |
| | `DatabasesReadable` | `DatabasesStayReadable` | set of calls, values |
| | `TreeHolds`, `PlacementHolds` | `BlocksFormATree`, `PlacementHonoured` | page of any size, set of calls, placements |

Each of these modules first proves, as a theorem `...Safety`, that an inductive
invariant always holds. `RemoteProofs`, `WorkspaceProofs` and `DocumentProofs`
speak of the specification of one component (`Spec`, `PlacementSpec`, `AuthSpec`,
`PageSpec`, `PropertiesSpec`, `OrganizeSpec`, `CollectionsSpec`, `TagsSpec`,
`SurfaceSpec`, `TablesSpec`, `MindmapsSpec`, `DatabasesSpec`, `BlockSpec`): the runs `remote`,
`workspace` and `document` choose one component at the start and let only that one
move, so each of their behaviours is one of these.

### The arguments

*Queue* (`CoordinatorAssumption`: the limit is positive, signalled calls are
calls, `NoScope` is no scope). None of the invariants is inductive alone. That a
hand-over starts a call that waits in *this* scope needs the link between queue
and phases (`NoStrandedWaiter`); that the scope has no second holder needs the
link between the map and the holder (`NoScopeLeak`); that a timer finds its call
in the queue needs `WaitBookkeeping`; and all need that a call past `run` has
named a scope (`ScopeNamed`). `IInv` is their conjunction. Lemmas about sequences
without repetitions (`JoiningTheLine`, `LeavingInFront`, `LeavingAnywhere`) are
cited by one lemma per kind of step. `AnswersAreFinal` and `StartedCallsFinish`
are action properties that follow from `IInv` in the state before the step.

*The queue implements its promise.* `ServedInOrder` shows that each step of
`WriteOrder` is a step of `SerialWrites` or a stutter. Two facts join `IInv`: each
queue is in the order of the arrivals (`QueueFollowsArrivals`) and holds only
calls that have arrived. Without them a hand-over might start a call that is not
the `Successor` the abstract `Complete` allows. An aborted or timed-out waiter
maps to `Refuse`, a hand-over to `Complete`, and the settling of an operation, a
turn before it, to a stutter.

*Tool calls and patches* start from `SerialSafety`: one writer in a scope, waiters
only behind a writer, nobody overtakes. `ToolInv` says what a call leaves behind:
what was acknowledged is on the server (`ConfirmedIsApplied`), what is on the
server or on its way comes from a call that has been let in (`MarksAreServed`),
and a call behind a confirmed deletion has seen it (`DeletionsAreSeen`). The last
of these is what makes an old token useless (`TokensAreRetired`); it holds in
handlers that have not begun, which is why the property alone is not inductive.
`ToolAssumption` says that calls and outside edits leave different marks.

In `DocPatches` the record of a patch is a lock on it. A call that works on a
patch finds it `applying` (`WorkIsBusy`), nobody drops such a record, and once an
update was sent the record never becomes `prepared` again (`SentIsSpent`); when
the record has been evicted, no call finds the patch at all.
`PushesMeetTheBase` carries the reviewed base from the comparison to the merge.

*HTTP sessions.* `SessionsAreAccounted` counts; what a handler may do next is in
its stage, which the table does not show. `RequestInStep` adds which requests
hold a slot, which are counted, which own an open transport, and that nobody can
be counted on a session before its opening request has registered it. The
cardinalities are then moved by one at a time, by lemmas about the table after a
request begins, ends, or takes the session away.

*Bridge.* What an awaited exchange stands for: while a post has no response, it is
the only one of its request; a response "unknown session" takes it off the wire
without running it, so that what is sent again has not been sent before
(`AwaitedPost`). A post that timed out may still be served, but its request never
becomes the head of the queue again (`LaterAreUnsent`). From these, `SentOnce`.

*Creation* (`TitlesAssumption`: no entry is the content update or `NoUpdate`). A
late push may store an entry at any time, so nothing can be said of the stored
entries without saying it of those on their way. `OneEntry` says that both are
the entry kept in `built`; `ContentKnown` that whoever may send an entry has seen
the content; `AwaitedIsSent` that an awaited update no longer on its way has been
merged, which is what makes an acknowledgement evidence. Around it, `StepsBehind`
says what is in place by the step a tool has reached; since the server only gains
(`ServerGrows`), it stays. `PlacementAssumption` says that a template is a
document: its child lists name its blocks, and the ids of clones are fresh.

*Sign-in* (`AuthAssumption`: durations are natural numbers). A cookie is refreshed
no later than its end (`LivesLongEnough`); the last failure is remembered as long
as it matters (`RemembersFailure`); waiting clients have a sign-in to wait for.

*Page* (`PageAssumption`: an entry is not `NoEntry`). What a call knows of the
server is of two kinds. Some stays true whatever is served late, since an entry
that is gone is never put back and an edit is never taken out (`KnownForGood`);
the listings rest on that, and on a tracker that remembers what was deleted
(`TrackerKnows`). The rest is true until a request that was given up on is
served (`KnownUntilLanding`).

*Moves* (`MoveAssumption`: the workspace starts without a cycle). The check reads
document by document while links come and go. `Walked` says what its end proves
even so: the documents visited are closed under the links it could see, hold the
document and not the new parent. A set of links stays without a cycle when a link
is added from outside such a set into it (`OneMoreLink`): of the documents of a
supposed cycle that were *not* visited, one hangs under none of the others. That
a document has a link somewhere is not inductive; `PartialsHold` and `Arrived` say
where the link of a partial, and of the present, move is, or which other move may
take it from there.

*Structures.* A tool that edits a document loads it, computes an update and pushes
it; the update may be merged after others. The invariants below speak of the
document *and* of each update that may still be merged. Two facts about merging
are used throughout. While nothing is merged late, the document is what the update
was computed from, and a merge gives just what was made (`MergesInPlace` for sets
and maps, `MergesListInPlace` for lists). And whatever the order, a merge loses
nothing that the update did not take out: for a list, `MergedItems` says which
items are there. Lists and climbs are recursive functions, where induction over
data is out of reach; the lemmas about them are proved by *least counterexample*:
of the steps at which the claim fails, if any, take the first (`LeastNumber`).

*Properties* (`PropertiesAssumption`: finitely many definitions and calls, the ids
of calls are fresh, the start is well formed). No update takes a definition away
or changes its type, which is why a value merged late still has its definition.
What a call changes and leaves is then read off its update, an id coming before a
name when a property is looked up.

*Folders* (`TreeAssumption`: finitely many nodes, fresh ids, the start is whole).
`Ancestors` climbs one step more than there are records; that it then has found
everything above a node is a pigeonhole argument: until a step adds nothing, each
adds a node (`ClimbsToTheTop`). So a node is not below itself exactly when some set
of nodes, closed upwards, holds its parent and not the node, and a document is a
tree when there is such a set for every node but those put into themselves
(`TreeByClosedSets`); for each tool the proof gives these sets. The
attempt to prove this found that the property had to say "while nothing is late"
of a deletion that never returns too: a late move may take the folder it goes round
in out of itself again, while the deletion goes on.

*Collections* (`CollectionsAssumption`: the first collection is none of the calls).
A tool replaces an item by a new one, with the writer's mark, so an update takes
out one item and puts in at most one. When it is merged late, the item it takes
out may be gone already and its own comes to stand beside another of the same id;
but an id leaves the array only when its deletion was pushed (`NothingLost`).

*Tags* (`TagsAssumption`: the first tag is none of the calls). `TagsWhole` is
inductive for documents in order: ids and names of the options differ, every id a
page lists is an option's, and no page lists a tag twice, whether by id or by name.
`OthersStay` relates labels before and after an update: a rename changes what all
pages show of one tag, so what "the others" are is said of labels and not of
entries.

*Surface* (`SurfaceAssumption`: the ids of the canvas are not those of calls, the
canvas is whole). A call gives its element or block its own id and marks the map of
owned ids it replaces; `MarkedBy` says that every id of a call in the canvas belongs
to a call whose update was merged, so that what a tool makes is new. While nothing
is late, `OneCanvasAtWork` says that nobody else is between load and merge, and
`CanvasUpdateFits` that the pending update was computed from the present canvas; a
merge then gives what the tool made, and each tool keeps the references
(`CanvasInOrder`). The layout hints are facts about the extremes of finite sets of
boxes; that a connector enters on a side that faces the source follows, as for the
side it leaves, from which of the four separations of the boxes hold. Only blocks
are anchors (`resolveBlockBoundAsBound`), and a call none of whose anchors is one
makes nothing. The attempt to prove them showed two things. Deleting with `pruneConnectors`
is not transitive (`tools/docs.ts:9979-9996`, `10678-10692`): a connector that ended
at a pruned connector is left hanging, so the property names those ends among the
loose ones. And a frame fitted with padding 0 need not enclose its children, so the
claim is made for positive paddings.

*Tables* (`TablesAssumption`: rows differ). `TableUpdateFits` says of a pending
update that it differs from its base in one cell, or in widths only; since merging
a map in which one key was set sets that key, whatever else was set
(`MergedKey`), the property needs no order of merges at all.

*Mind maps* (`MindmapsAssumption`: the maps of the page are readable, their ids not
those of new nodes). A node may be in no two maps, and what one tool does to its
map could touch another's. `MapsReadable` of the page a tool makes carries that
disjointness along: that a changed map is a readable tree is what the tool
checks, and that the others stay so follows from their nodes being elsewhere.

*Databases* (`DatabasesAssumption`: a composition's second push is no other call, an
option has a label, the data map a column is created with is no call's). This
invariant holds for arbitrary late merges. `Maker` names the push that made a
column; a value refers to a column that a merged push made, and columns are never
removed. An option is in a data map and is read only while its column has that map
(`OptionsOf`). A column that was given options at its creation keeps the map of its
creation (`OwnersKept`); another one has the map of a call, which a late merge
may replace by that of another (`DataKept` says that no tool does), and then every
option in the lost map is a `LostOption`, the exception of the property. Options are removed by one push only, the second of a
composition (`Fill`), which the queue lets nobody precede (`FillsWait`);
`OptionsKept` says of a database whether that one may still come late, which is the
exception the property names.

*Block tree* (`BlockAssumption`: a page starts as one tree, the ids of calls are
fresh, `append_block` takes the types it names). `Descendants` goes down one level
at a time, as often as there are blocks; that it then has found everything below is
the pigeonhole argument of the folders, turned round. So `OneTree` can be said with
closed sets alone (`PageTree`, `OneTreeByClosedSets`), and each tool is shown to
make one tree of one: what it adds is new and listed once, what it moves is taken
out of every list and put where it is not below itself (`Grown`). Child lists are
lists with one entry for each id; `Grown` also says that those a call makes follow
those it loaded, so that a merge in place gives exactly what the call made. A block
stands where it was asked to be while the page lists an entry by that call
(`Placed`): since the pages that other pending updates were computed from list none
(`BlocksInOrder`), none of these can be merged in order over it. Types are held to
more: of any two pages, merged or pending, no block has two flavours (`Agree`), so
a type written for one flavour fits whatever is merged late (`BlocksAnyOrder`).
The attempt to prove this showed that the `CASE` arms for placements overlapped;
the code decides by whether a parent was named (`tools/docs.ts:2438`), and so does
the model now.

## 6. What is only model-checked

* All liveness: fairness and `ENABLED` are out of the prover's reach.
* The geometry of mind maps (`MindmapsAreLaidOut`): node positions are computed by
  recursion over the map, and what that gives for every map would need induction
  over data.
* How two lists written at the same time interleave (`MergedList`): proved is which
  items the merge holds, and the order when nothing was late.
* The properties of the `violation` runs, which are false of the code.

## 7. What is not modelled

The components marked `not_modelled` in `PROJECT.json`, and inside the modelled
ones:

* what a diff, a block, a cell or a document *says*; error texts beyond their
  kind; HTTP routing and authentication of requests;
* tables whose cells are a plain object: `writeTableCellText`
  (`tools/docs.ts:3724`) then writes a key that `extractTableData` does not read;
* select columns whose options are a plain array: `resolveSelectOptionId`
  (8441-8445) puts a new list in their place; rows the editor made and left without
  a map of cells: `ensureDatabaseRowCells` (8320) makes one, and the second of two
  that two calls make replaces the first;
* which of two concurrent values of one key Yjs keeps: it is decided by client ids,
  and the models keep the one merged last;
* a page without a `tags` array and a workspace without a `collections` array:
  the tool that comes first creates it, and one created concurrently is lost;
* sibling keys beyond `MAX_KEY`, where `localeCompare` (`tools/organize.ts:577`)
  and the order of the generated keys part: from the thirty-seventh sibling on, a
  node "appended after last" may not be last;
* `list_doc_properties` and other listings of structures, which change nothing;
  the one listing with state of its own, `list_docs`, is in `PageLifecycle`.

## 8. Plan

The queue, the tools around it, sessions, bridge, sign-in, page life and all the
structures are modelled. What is left, most important first. Twelve runs and forty
properties are the budget the project sets itself; a run is shared by modules
that ask related questions.

1. Done: theorems for every safety property of the queue, tools, patches,
   sessions, bridge, creations, sign-in, pages and moves.
2. Done: theorems for every safety property of the structures, but for the
   geometry of mind maps (section 6).
3. Composition of `StdioProxy` with `HttpSessions`: a sweep or a shutdown as the
   reason a session is forgotten.
4. Workspace creation (`tools/workspaces.ts`), the one operation of several steps
   among the single requests.
