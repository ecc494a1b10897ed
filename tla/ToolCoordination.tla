--------------------------- MODULE ToolCoordination ---------------------------
(***************************************************************************)
(* Whole tool calls under the write queue: src/toolCoordination.ts wraps   *)
(* every writing tool, and read_doc, so that its handler runs inside       *)
(* writeCoordinator.run, after an optional comparison of the document with *)
(* the revision the client read.  The queue is used through its promise,   *)
(* SerialWrites.                                                           *)
(*                                                                         *)
(* A document is its Yjs state: the items ever added and those deleted.    *)
(* Updates only add to both sets, so the server merges them in any order.  *)
(* The AFFiNE server, the native editor and the network are the            *)
(* environment: a push may be applied late, after its caller gave up, or   *)
(* never.                                                                  *)
(***************************************************************************)
EXTENDS SerialWrites, FiniteSets

CONSTANTS
  Docs,        \* documents
  HomeOf,      \* HomeOf[d]: the workspace (queue scope) of document d
  Edits,       \* items the native editor or another process may add
  FirstItem,   \* the content every document starts with
  NoToken      \* a call without expectedRevision

Kinds == {"append", "replace", "delete", "read"}
Items == Calls \cup Edits \cup {FirstItem}

ASSUME ToolAssumption ==
  /\ HomeOf \in [Docs -> Scopes]
  /\ FirstItem \notin Calls \cup Edits
  /\ Calls \cap Edits = {}

Revision == [reg : BOOLEAN, add : SUBSET Items, del : SUBSET Items]
FirstState == [reg |-> TRUE, add |-> {FirstItem}, del |-> {}]

VARIABLES
  server,    \* server[d]: registration in the workspace root, and content
  issued,    \* issued[d]: revisions clients have been given
  job,       \* job[c]: arguments of call c, or NoToken before the call
  step,      \* step[c]: position in the coordinated callback
  view,      \* view[c]: what c loaded last
  inflight,  \* pushes the server has neither applied nor lost
  reply      \* reply[c]: "none", "ok", "stale", "error" or "unconfirmed"

tool  == <<job, step, view, reply>>
world == <<server, issued, inflight>>
toolVars == <<vars, tool, world>>

ToolInit ==
  /\ Init
  /\ server = [d \in Docs |-> FirstState]
  /\ issued = [d \in Docs |-> {FirstState}]
  /\ job = [c \in Calls |-> NoToken]
  /\ step = [c \in Calls |-> "start"]
  /\ view = [c \in Calls |-> FirstState]
  /\ inflight = {}
  /\ reply = [c \in Calls |-> "none"]

-----------------------------------------------------------------------------
(* Mutant: the token covers the content only. *)
documentRevisionOfContent(content, registered) ==
  [reg |-> TRUE, add |-> content.add, del |-> content.del]

(* documentRevision: the token covers registration, additions and deletions. *)
documentRevision(content, registered) ==
  [reg |-> registered, add |-> content.add, del |-> content.del]

(* A tool is called: its callback enters the queue of its workspace. *)
Invoke(c) ==
  \E d \in Docs, k \in Kinds :
    \E e \in (IF k = "read" THEN {} ELSE issued[d]) \cup {NoToken} :
      /\ Accept(c, HomeOf[d])
      /\ job' = [job EXCEPT ![c] = [doc |-> d, kind |-> k, expected |-> e]]
      /\ UNCHANGED <<step, view, reply, world>>

(* The queue is full, the wait too long, or the request aborted. *)
QueueRefuses(c) ==
  /\ Refuse(c)
  /\ reply' = [reply EXCEPT ![c] = "error"]
  /\ UNCHANGED <<job, step, view, world>>

(* Mutant: the callback runs without waiting for its turn. *)
InsideUnqueued(c) == state[c] \in {"waiting", "writing"}

(* The code of c runs: its callback has been started by the queue. *)
Inside(c) == state[c] = "writing"

Doc(c) == job[c].doc
Guarded(c) == job[c] # NoToken /\ job[c].expected # NoToken

Goto(c, from, to) == step[c] = from /\ step' = [step EXCEPT ![c] = to]

Answer(c, r) ==
  /\ Complete(c)
  /\ reply' = [reply EXCEPT ![c] = r]

(* currentDocumentRevision and read_doc: first the workspace root ... *)
LoadRegistry(c) ==
  /\ Inside(c)
  /\ Guarded(c) \/ job[c].kind = "read"
  /\ Goto(c, "start", "registry")
  /\ view' = [view EXCEPT ![c].reg = server[Doc(c)].reg]
  /\ UNCHANGED <<vars, job, reply, world>>

(* ... then the document itself, compared with the expected revision.  *)
CheckRevision(c) ==
  LET current == documentRevision(server[Doc(c)], view[c].reg) IN
  /\ Inside(c)
  /\ Guarded(c)
  /\ IF current = job[c].expected
     THEN /\ Goto(c, "registry", "handler")
          /\ UNCHANGED <<vars, reply>>
     ELSE /\ Goto(c, "registry", "end")
          /\ Answer(c, "stale")
  /\ UNCHANGED <<job, view, world>>

(* read_doc hands out the revision of what it loaded. *)
FinishRead(c) ==
  LET current == documentRevision(server[Doc(c)], view[c].reg) IN
  /\ Inside(c)
  /\ job[c].kind = "read"
  /\ Goto(c, "registry", "end")
  /\ view' = [view EXCEPT ![c] = current]
  /\ issued' = [issued EXCEPT ![Doc(c)] = @ \cup {current}]
  /\ Answer(c, "ok")
  /\ UNCHANGED <<job, server, inflight>>

(* A write without expectedRevision goes straight to its handler. *)
SkipCheck(c) ==
  /\ Inside(c)
  /\ ~Guarded(c) /\ job[c].kind # "read"
  /\ Goto(c, "start", "handler")
  /\ UNCHANGED <<vars, job, view, reply, world>>

(* The handler loads the document again and computes its update from it. *)
HandlerLoads(c) ==
  /\ Inside(c)
  /\ Goto(c, "handler", "loaded")
  /\ view' = [view EXCEPT ![c] = server[Doc(c)]]
  /\ UNCHANGED <<vars, job, reply, world>>

HandlerPushes(c) ==
  /\ Inside(c)
  /\ Goto(c, "loaded", "pushed")
  /\ inflight' = inflight \cup {c}
  /\ UNCHANGED <<vars, job, view, reply, server, issued>>

(* Any load may fail, and the handler may refuse its arguments. *)
Fails(c) ==
  /\ Inside(c)
  /\ step[c] \in {"start", "registry", "handler", "loaded"}
  /\ step' = [step EXCEPT ![c] = "end"]
  /\ Answer(c, "error")
  /\ UNCHANGED <<job, view, world>>

(* Mutant: the push is sent but its acknowledgement is not awaited. *)
AcknowledgedUnapplied(c) ==
  /\ Inside(c)
  /\ Goto(c, "pushed", "end")
  /\ Answer(c, "ok")
  /\ UNCHANGED <<job, view, world>>

(* emitWithAck: the acknowledgement of an applied push arrives in time ... *)
Acknowledged(c) ==
  /\ Inside(c)
  /\ Goto(c, "pushed", "end")
  /\ c \notin inflight
  /\ Answer(c, "ok")
  /\ UNCHANGED <<job, view, world>>

(* ... or the caller gives up, whatever became of the push. *)
AckTimeout(c) ==
  /\ Inside(c)
  /\ Goto(c, "pushed", "end")
  /\ Answer(c, "unconfirmed")
  /\ UNCHANGED <<job, view, world>>

-----------------------------------------------------------------------------
(* What c's update deletes: all it saw when it replaces the content. *)
Erases(c) == IF job[c].kind = "replace" THEN view[c].add \ view[c].del ELSE {}

(* The document d with c's update merged into it. *)
Merged(d, c) ==
  IF job[c].kind = "delete" THEN [d EXCEPT !.reg = FALSE]
  ELSE [d EXCEPT !.add = @ \cup {c}, !.del = @ \cup Erases(c)]

(* The server merges a push, before or after the caller stopped waiting. *)
ServerApplies(c) ==
  /\ c \in inflight
  /\ inflight' = inflight \ {c}
  /\ server' = [server EXCEPT ![Doc(c)] = Merged(@, c)]
  /\ UNCHANGED <<vars, tool, issued>>

(* A push that never arrives is never acknowledged. *)
PushLost(c) ==
  /\ c \in inflight
  /\ Goto(c, "pushed", "end")
  /\ inflight' = inflight \ {c}
  /\ Answer(c, "unconfirmed")
  /\ UNCHANGED <<job, view, server, issued>>

(* The native editor, or another process: outside the queue. *)
OutsideEdit(d) ==
  /\ \E e \in Edits : /\ \A x \in Docs : e \notin server[x].add
                      /\ server' = [server EXCEPT ![d].add = @ \cup {e}]
  /\ UNCHANGED <<vars, tool, issued, inflight>>

ToolStep(c) ==
  \/ Invoke(c) \/ QueueRefuses(c)
  \/ LoadRegistry(c) \/ CheckRevision(c) \/ FinishRead(c) \/ SkipCheck(c)
  \/ HandlerLoads(c) \/ HandlerPushes(c) \/ Fails(c)
  \/ Acknowledged(c) \/ AckTimeout(c)
  \/ ServerApplies(c) \/ PushLost(c)

Idle ==
  /\ \A c \in Calls : state[c] \in {"done", "refused"}
  /\ UNCHANGED toolVars

ToolNext == (\E c \in Calls : ToolStep(c)) \/ (\E d \in Docs : OutsideEdit(d)) \/ Idle

ToolSpec == ToolInit /\ [][ToolNext]_toolVars

-----------------------------------------------------------------------------
ToolTypeOK ==
  /\ server \in [Docs -> Revision]
  /\ issued \in [Docs -> SUBSET Revision]
  /\ job \in [Calls -> [doc : Docs, kind : Kinds, expected : Revision \cup {NoToken}]
                       \cup {NoToken}]
  /\ step \in [Calls -> {"start", "registry", "handler", "loaded", "pushed", "end"}]
  /\ view \in [Calls -> Revision]
  /\ inflight \subseteq Calls
  /\ reply \in [Calls -> {"none", "ok", "stale", "error", "unconfirmed"}]

(* Writers the queue does not order: other processes, and pushes whose     *)
(* caller gave up before the server applied them.                          *)
Outsiders == Edits \cup {c \in Calls : reply[c] = "unconfirmed"}

(* An edit made with expectedRevision works on the document its author     *)
(* read: from the comparison until the server applies its push, the only   *)
(* content that can appear or vanish is an outsider's.  So a guarded       *)
(* replacement erases nothing its author had not seen.                     *)
GuardedEditKeepsItsBase ==
  \A c \in Calls :
    Guarded(c) /\ Inside(c) /\ step[c] \in {"handler", "loaded", "pushed"}
    => LET now == server[Doc(c)]
           base == job[c].expected
       IN /\ now.add \ base.add \subseteq Outsiders \cup {c}
          /\ base.add \subseteq now.add
          /\ now.del # base.del =>
               \/ c \in now.add
               \/ \E w \in now.add \cap Outsiders : w \in Calls

(* read_doc follows the queue: the revision it returns contains every      *)
(* earlier write of the document that was acknowledged, and no later one.  *)
ReadFollowsQueueOrder ==
  \A c, w \in Calls :
    /\ state[c] = "done" /\ reply[c] = "ok" /\ job[c].kind = "read"
    /\ w # c /\ job[w] # NoToken /\ Doc(w) = Doc(c)
    => /\ Before(w, c) /\ reply[w] = "ok" =>
            IF job[w].kind = "delete" THEN ~view[c].reg
            ELSE job[w].kind = "read" \/ w \in view[c].add
       /\ Before(c, w) => w \notin view[c].add

(* Deleting a document retires the tokens issued before: no later guarded  *)
(* edit of a deleted document is pushed, although the server keeps its     *)
(* content.                                                                *)
DeletionRetiresTokens ==
  \A w, c \in Calls :
    /\ job[w] # NoToken /\ Guarded(c)
    /\ Doc(w) = Doc(c) /\ job[w].kind = "delete" /\ reply[w] = "ok"
    /\ Before(w, c) /\ job[c].expected.reg
    => step[c] # "pushed" /\ c \notin inflight

=============================================================================
