------------------------------ MODULE DocPatches ------------------------------
(***************************************************************************)
(* Reviewed document patches: src/docPatches.ts with its backend in        *)
(* src/tools/docs.ts.  prepare computes an update against the document it  *)
(* loads and stores it; apply publishes the stored bytes if the document   *)
(* still is the reviewed one.  Both run under the write queue of the       *)
(* document's workspace; discard runs under the queue of the default       *)
(* workspace, so at any moment of the two.  The place a prepare takes in   *)
(* the line is abstracted: it runs when nobody is inside.                  *)
(*                                                                         *)
(* Each workspace has one document to patch.  A document's canonical state *)
(* is abstracted to its version: every merged update makes a new one, and  *)
(* equal hashes are equal versions.                                        *)
(***************************************************************************)
EXTENDS SerialWrites, FiniteSets, Functions

CONSTANTS
  Patches,      \* patch identities (randomId)
  HomeOf,       \* HomeOf[p]: the workspace of the patched document
  Creds,        \* credential scopes: hashes of endpoint, cookie and bearer
  MaxRecords,   \* maxRecords
  TtlMs,        \* ttlMs, in clock ticks
  MaxTime,      \* bound: the last clock tick
  MaxVersion    \* bound: the last document version

ASSUME PatchAssumption ==
  /\ MaxRecords \in Nat \ {0} /\ TtlMs \in Nat \ {0}
  /\ MaxTime \in Nat /\ MaxVersion \in Nat \ {0}
  /\ HomeOf \in [Patches -> Scopes]

Absent == 0            \* no version: loadCurrent returned null, or nothing yet
Versions == 0 .. MaxVersion
Statuses == {"prepared", "applying", "consumed", "discarded", "unknown", "expired"}
Record == [cred : Creds, base : Versions \ {Absent}, expiresAt : Nat, status : Statuses,
           reason : {"none", "user", "stale"}]

VARIABLES
  now,        \* the clock
  version,    \* version[w]: of the document's content on the server
  registered, \* registered[w]: whether the workspace root lists it
  records,    \* the process-wide store: a function from patch ids to records
  draft,      \* draft[p]: the load a prepare call works from
  target,     \* target[c]: patch and credential of the apply call c
  step,       \* step[c]: position inside applyPrepared
  seen,       \* seen[c]: the version c compared before it pushed
  inflight,   \* apply calls whose push the server has not merged
  landed,     \* landed[c]: the version c's push was merged into
  disturbed,  \* history: calls whose push met a change outside the queue
  reply       \* reply[c]: the answer of apply, or an error code

store  == <<records, draft>>
server == <<version, registered, inflight, landed, disturbed>>
call   == <<target, step, seen, reply>>
patchVars == <<vars, now, store, server, call>>

PatchInit ==
  /\ Init
  /\ now = 0
  /\ version = [w \in Scopes |-> 1]
  /\ registered = [w \in Scopes |-> TRUE]
  /\ records = <<>>
  /\ draft = [p \in Patches |-> [state |-> "new"]]
  /\ target = [c \in Calls |-> [patch |-> "none"]]
  /\ step = [c \in Calls |-> "new"]
  /\ seen = [c \in Calls |-> Absent]
  /\ inflight = {}
  /\ landed = [c \in Calls |-> Absent]
  /\ disturbed = {}
  /\ reply = [c \in Calls |-> "none"]

-----------------------------------------------------------------------------
Expired(r) == now >= r.expiresAt

(* cleanup: drops expired records, except the preserved one and any that is *)
(* being applied.                                                           *)
cleanup(store0, preserved) ==
  Restrict(store0, {p \in DOMAIN store0 :
    \/ p \in preserved
    \/ store0[p].status = "applying"
    \/ ~Expired(store0[p])})

Owned(p, cred) == p \in DOMAIN records /\ records[p].cred = cred

(* addressed: the store after a call that names p; the caller finds p in it *)
(* only under the credential that prepared it.                              *)
addressed(p, cred) ==
  cleanup(IF Owned(p, cred) /\ records[p].status = "prepared" /\ Expired(records[p])
          THEN [records EXCEPT ![p].status = "expired"]
          ELSE records,
          {p})

(* terminalError *)
terminalError(r) ==
  CASE r.status = "consumed" -> "PATCH_CONSUMED"
    [] r.status = "discarded" /\ r.reason = "stale" -> "PATCH_STALE"
    [] r.status = "discarded" /\ r.reason # "stale" -> "PATCH_DISCARDED"
    [] r.status = "unknown" -> "PATCH_APPLY_UNKNOWN"
    [] r.status = "expired" -> "PATCH_EXPIRED"
    [] r.status = "applying" -> "PATCH_BUSY"

-----------------------------------------------------------------------------
(* The steps of w's queue: nobody else is between a load and what follows. *)
Preparing(w) == \E p \in Patches : HomeOf[p] = w /\ draft[p].state = "loaded"
Applying(w) == \E c \in Calls : step[c] \in {"applying", "pushed"} /\ where[c] = w
Idle(w) == ~Preparing(w) /\ ~Applying(w)

(* loadCurrentDocBytes: null unless the workspace root lists the document. *)
loadCurrent(w) == IF registered[w] THEN version[w] ELSE Absent

(* prepare, up to its load; a document that is gone, or operations that do *)
(* not apply to it, end it there.                                          *)
PrepareLoads(p, cred) ==
  /\ draft[p].state = "new"
  /\ Idle(HomeOf[p])
  /\ records' = cleanup(records, {})
  /\ \/ /\ loadCurrent(HomeOf[p]) # Absent
        /\ draft' = [draft EXCEPT ![p] = [state |-> "loaded", cred |-> cred,
                                          base |-> loadCurrent(HomeOf[p])]]
     \/ draft' = [draft EXCEPT ![p] = [state |-> "refused"]]
  /\ UNCHANGED <<vars, now, call, server>>

(* prepare after the load: the rest is synchronous, so the capacity check  *)
(* and the insertion are one step.                                         *)
PrepareStores(p) ==
  /\ draft[p].state = "loaded"
  /\ LET kept == cleanup(records, {})
         record == [cred |-> draft[p].cred, base |-> draft[p].base,
                    expiresAt |-> now + TtlMs, status |-> "prepared", reason |-> "none"]
         full == Cardinality(DOMAIN kept) >= MaxRecords
     IN /\ records' = IF full THEN kept
                      ELSE [q \in DOMAIN kept \cup {p} |-> IF q = p THEN record ELSE kept[q]]
        /\ draft' = [draft EXCEPT ![p].state = IF full THEN "refused" ELSE "stored"]
  /\ UNCHANGED <<vars, now, call, server>>

(* discard: synchronous; a patch that is being applied is busy. *)
Discard(p, cred) ==
  /\ draft[p].state = "stored"
  /\ LET found == addressed(p, cred) IN
     records' = IF Owned(p, cred) /\ found[p].status = "prepared"
                THEN [found EXCEPT ![p].status = "discarded", ![p].reason = "user"]
                ELSE found
  /\ UNCHANGED <<vars, now, draft, call, server>>

-----------------------------------------------------------------------------
(* apply: look the patch up, then wait in the queue of its workspace. *)
ApplyEnqueues(c, p, cred) ==
  /\ step[c] = "new"
  /\ draft[p].state = "stored"
  /\ records' = addressed(p, cred)
  /\ target' = [target EXCEPT ![c] = [patch |-> p, cred |-> cred]]
  /\ IF Owned(p, cred)
     THEN \/ /\ Accept(c, HomeOf[p])
             /\ step' = [step EXCEPT ![c] = "queued"]
             /\ UNCHANGED reply
          \/ /\ Refuse(c)                       \* full, or already aborted
             /\ step' = [step EXCEPT ![c] = "end"]
             /\ reply' = [reply EXCEPT ![c] = "QUEUE"]
     ELSE /\ Refuse(c)
          /\ step' = [step EXCEPT ![c] = "end"]
          /\ reply' = [reply EXCEPT ![c] = "PATCH_NOT_FOUND"]
  /\ UNCHANGED <<now, draft, seen, server>>

(* The call waits too long, or is aborted while it waits. *)
QueueRefuses(c) ==
  /\ step[c] = "queued"
  /\ Refuse(c)
  /\ step' = [step EXCEPT ![c] = "end"]
  /\ reply' = [reply EXCEPT ![c] = "QUEUE"]
  /\ UNCHANGED <<now, target, seen, store, server>>

Patch(c) == target[c].patch
Home(c) == HomeOf[Patch(c)]
Turn(c) == state[c] = "writing" /\ ~Preparing(Home(c))

Finish(c, code) ==
  /\ Complete(c)
  /\ step' = [step EXCEPT ![c] = "end"]
  /\ reply' = [reply EXCEPT ![c] = code]

(* applyPrepared, when its turn comes: the patch is looked up again and    *)
(* must still be prepared.                                                 *)
ApplyBegins(c) ==
  LET p == Patch(c)
      found == addressed(p, target[c].cred)
  IN /\ Turn(c) /\ step[c] = "queued"
     /\ IF ~Owned(p, target[c].cred)
        THEN Finish(c, "PATCH_NOT_FOUND") /\ records' = found
        ELSE IF found[p].status # "prepared"
        THEN Finish(c, terminalError(found[p])) /\ records' = found
        ELSE /\ records' = [found EXCEPT ![p].status = "applying"]
             /\ step' = [step EXCEPT ![c] = "applying"]
             /\ UNCHANGED <<vars, reply>>
     /\ UNCHANGED <<now, target, seen, draft, server>>

SetStatus(p, st) == records' = [records EXCEPT ![p].status = st]

(* loadCurrent fails: nothing was sent, the patch can be applied again. *)
ApplyLoadFails(c) ==
  /\ Turn(c) /\ step[c] = "applying"
  /\ SetStatus(Patch(c), IF Expired(records[Patch(c)]) THEN "expired" ELSE "prepared")
  /\ Finish(c, "LOAD_FAILED")
  /\ UNCHANGED <<now, target, seen, draft, server>>

(* The document is gone, or not the reviewed one. *)
ApplyStale(c) ==
  /\ Turn(c) /\ step[c] = "applying"
  /\ loadCurrent(Home(c)) # records[Patch(c)].base
  /\ records' = [records EXCEPT ![Patch(c)].status = "discarded",
                                ![Patch(c)].reason = "stale"]
  /\ Finish(c, "PATCH_STALE")
  /\ UNCHANGED <<now, target, seen, draft, server>>

ApplyTooLate(c) ==
  /\ Turn(c) /\ step[c] = "applying"
  /\ loadCurrent(Home(c)) = records[Patch(c)].base
  /\ Expired(records[Patch(c)])
  /\ SetStatus(Patch(c), "expired")
  /\ Finish(c, "PATCH_EXPIRED")
  /\ UNCHANGED <<now, target, seen, draft, server>>

(* Mutant: any document that is still there will do. *)
ApplyPushesAnyBase(c) ==
  /\ Turn(c) /\ step[c] = "applying"
  /\ loadCurrent(Home(c)) # Absent
  /\ ~Expired(records[Patch(c)])
  /\ seen' = [seen EXCEPT ![c] = version[Home(c)]]
  /\ step' = [step EXCEPT ![c] = "pushed"]
  /\ inflight' = inflight \cup {c}
  /\ UNCHANGED <<vars, now, target, reply, store, version, registered, landed, disturbed>>

(* The loaded document is the reviewed one: the push goes out. *)
ApplyPushes(c) ==
  /\ Turn(c) /\ step[c] = "applying"
  /\ loadCurrent(Home(c)) = records[Patch(c)].base
  /\ ~Expired(records[Patch(c)])
  /\ seen' = [seen EXCEPT ![c] = version[Home(c)]]
  /\ step' = [step EXCEPT ![c] = "pushed"]
  /\ inflight' = inflight \cup {c}
  /\ UNCHANGED <<vars, now, target, reply, store, version, registered, landed, disturbed>>

(* Mutant: the push is taken for confirmed as soon as it is sent. *)
ApplyConfirmedUnseen(c) ==
  /\ Turn(c) /\ step[c] = "pushed"
  /\ SetStatus(Patch(c), "consumed")
  /\ Finish(c, "consumed")
  /\ UNCHANGED <<now, target, seen, draft, server>>

(* The push and the mirrored updatedDate are confirmed. *)
ApplyConfirmed(c) ==
  /\ Turn(c) /\ step[c] = "pushed" /\ c \notin inflight
  /\ records' = IF Expired(records[Patch(c)])
                THEN Restrict(records, DOMAIN records \ {Patch(c)})
                ELSE [records EXCEPT ![Patch(c)].status = "consumed"]
  /\ Finish(c, "consumed")
  /\ UNCHANGED <<now, target, seen, draft, server>>

(* Mutant: an unconfirmed patch may be applied again. *)
ApplyUnconfirmedRetryable(c) ==
  /\ Turn(c) /\ step[c] = "pushed"
  /\ SetStatus(Patch(c), "prepared")
  /\ Finish(c, "PATCH_APPLY_UNKNOWN")
  /\ UNCHANGED <<now, target, seen, draft, server>>

(* Acknowledgement lost or late, or the date could not be mirrored. *)
ApplyUnconfirmed(c) ==
  /\ Turn(c) /\ step[c] = "pushed"
  /\ SetStatus(Patch(c), "unknown")
  /\ Finish(c, "PATCH_APPLY_UNKNOWN")
  /\ UNCHANGED <<now, target, seen, draft, server>>

-----------------------------------------------------------------------------
Merge(w) ==
  /\ version[w] < MaxVersion
  /\ version' = [version EXCEPT ![w] = @ + 1]

Pushing(w) == {c \in Calls : step[c] = "pushed" /\ c \in inflight /\ Home(c) = w}

(* The AFFiNE server merges a push, possibly after its caller gave up: then *)
(* it is itself an outsider for the call whose turn it is.                  *)
ServerApplies(c) ==
  /\ c \in inflight
  /\ inflight' = inflight \ {c}
  /\ landed' = [landed EXCEPT ![c] = version[Home(c)]]
  /\ disturbed' = IF c \in Pushing(Home(c)) THEN disturbed
                  ELSE disturbed \cup {c} \cup Pushing(Home(c))
  /\ Merge(Home(c))
  /\ UNCHANGED <<vars, now, call, store, registered>>

(* A push that never arrives is never acknowledged. *)
PushLost(c) ==
  /\ step[c] = "pushed" /\ c \in inflight
  /\ inflight' = inflight \ {c}
  /\ SetStatus(Patch(c), "unknown")
  /\ Finish(c, "PATCH_APPLY_UNKNOWN")
  /\ UNCHANGED <<now, target, seen, draft, version, registered, landed, disturbed>>

(* Another tool edits the document, deletes it or restores it, in its turn. *)
CoordinatedWrite(w) ==
  /\ Idle(w)
  /\ \/ Merge(w) /\ UNCHANGED registered
     \/ registered' = [registered EXCEPT ![w] = ~@] /\ UNCHANGED version
  /\ UNCHANGED <<vars, now, call, store, inflight, landed, disturbed>>

(* The native editor or another process edits it at any moment. *)
OutsideEdit(w) ==
  /\ Merge(w)
  /\ disturbed' = disturbed \cup Pushing(w)
  /\ UNCHANGED <<vars, now, call, store, registered, inflight, landed>>

Tick == /\ now < MaxTime
        /\ now' = now + 1
        /\ UNCHANGED <<vars, call, store, server>>

ApplyStep(c) ==
  \/ \E p \in Patches, cred \in Creds : ApplyEnqueues(c, p, cred)
  \/ QueueRefuses(c) \/ ApplyBegins(c) \/ ApplyLoadFails(c) \/ ApplyStale(c)
  \/ ApplyTooLate(c) \/ ApplyPushes(c) \/ ApplyConfirmed(c) \/ ApplyUnconfirmed(c)
  \/ ServerApplies(c) \/ PushLost(c)

PatchNext ==
  \/ \E p \in Patches : PrepareStores(p)
  \/ \E p \in Patches, cred \in Creds : PrepareLoads(p, cred) \/ Discard(p, cred)
  \/ \E c \in Calls : ApplyStep(c)
  \/ \E w \in Scopes : CoordinatedWrite(w) \/ OutsideEdit(w)
  \/ Tick

PatchSpec == PatchInit /\ [][PatchNext]_patchVars

-----------------------------------------------------------------------------
Replies == {"none", "consumed", "QUEUE", "LOAD_FAILED", "PATCH_NOT_FOUND", "PATCH_CONSUMED",
            "PATCH_STALE", "PATCH_DISCARDED", "PATCH_APPLY_UNKNOWN", "PATCH_EXPIRED",
            "PATCH_BUSY"}

PatchTypeOK ==
  /\ now \in 0 .. MaxTime
  /\ version \in [Scopes -> Versions \ {Absent}]
  /\ registered \in [Scopes -> BOOLEAN]
  /\ DOMAIN records \subseteq Patches
  /\ \A p \in DOMAIN records : records[p] \in Record
  /\ \A p \in Patches : draft[p].state \in {"new", "loaded", "stored", "refused"}
  /\ step \in [Calls -> {"new", "queued", "applying", "pushed", "end"}]
  /\ seen \in [Calls -> Versions]
  /\ landed \in [Calls -> Versions]
  /\ inflight \subseteq Calls
  /\ disturbed \subseteq Calls
  /\ reply \in [Calls -> Replies]

Sent(c) == seen[c] # Absent

(* A patch is published at most once, whatever is retried after a failed   *)
(* load, applied twice, or left without an acknowledgement.                *)
PublishedAtMostOnce ==
  \A c, d \in Calls : Sent(c) /\ Sent(d) /\ Patch(c) = Patch(d) => c = d

(* The stored bytes are merged into the very version that was reviewed,    *)
(* unless something outside the queue changed the document under the push. *)
PublishedOnReviewedBase ==
  \A c \in Calls : landed[c] # Absent =>
    landed[c] = draft[Patch(c)].base \/ c \in disturbed

(* The answer of apply tells the truth about the update: "consumed" means  *)
(* it was merged, and every error but PATCH_APPLY_UNKNOWN that this call   *)
(* has not published anything and never will.                              *)
AnswersAreTrue ==
  \A c \in Calls :
    /\ reply[c] = "consumed" => landed[c] # Absent
    /\ reply[c] \notin {"none", "consumed", "PATCH_APPLY_UNKNOWN"} =>
         landed[c] = Absent /\ c \notin inflight

=============================================================================
