------------------------------- MODULE DocMove -------------------------------
(***************************************************************************)
(* move_doc: executeSafeDocumentMove of src/util/mutationSafety.ts with    *)
(* the operations src/tools/docs.ts gives it.                              *)
(*                                                                         *)
(* A document hangs under a parent by a link block in the parent.  A move  *)
(* checks for cycles document by document, adds the link to the new        *)
(* parent, then removes the links of the old one.  The write queue lets    *)
(* one move in at a time; where the others wait is left out.               *)
(*                                                                         *)
(* The environment: any load can fail; a push can be refused, lost, or     *)
(* merged after its caller gave up; the native editor adds links.          *)
(***************************************************************************)
EXTENDS FiniteSets

CONSTANTS
  Docs,      \* documents of the workspace
  Moves,     \* move_doc calls
  Edits,     \* link blocks the native editor may add
  Initial,   \* what made the links the workspace starts with
  Trees,     \* the sets of <<parent, child>> it may start with
  Nobody     \* no move, no document

(* The arguments of a move. *)
Job == [doc : Docs, to : Docs, from : Docs \cup {Nobody}]

(* The workspace starts without a cycle: every set of documents has one    *)
(* that hangs under none of the others.                                    *)
ASSUME MoveAssumption ==
  /\ Nobody \notin Docs \cup Moves \cup Job
  /\ Initial \notin Moves \cup Edits /\ Moves \cap Edits = {}
  /\ \A t \in Trees :
       /\ t \subseteq Docs \X Docs
       /\ \A S \in SUBSET Docs \ {{}} : \E d \in S : \A e \in t : e[2] = d => e[1] \notin S

(* embed: an affine:embed-linked-doc block; ref: a reference in text, or a *)
(* synced-doc block.  by identifies the block.                             *)
Link == [by : Moves \cup Edits \cup {Initial}, parent : Docs, child : Docs,
         kind : {"embed", "ref"}]
Push == [by : Moves, add : SUBSET Link, remove : SUBSET Link]

VARIABLES
  job,       \* job[m]: the arguments [doc, to, from] of a move, from optional
  inside,    \* the move the write queue has let in, or Nobody
  pc,        \* its position in executeSafeDocumentMove
  pending, visited,   \* wouldCreateDocumentCycle
  reply,     \* reply[m]: status of the result; "refused" or "failed" if it threw
  links,     \* server: link blocks
  wire       \* pushes the server may still merge

call == <<job, inside, pc, pending, visited, reply>>
vars == <<call, links, wire>>

Init ==
  /\ job = [m \in Moves |-> Nobody]
  /\ inside = Nobody /\ pc = "idle" /\ pending = {} /\ visited = {}
  /\ reply = [m \in Moves |-> "none"]
  /\ \E t \in Trees :
       links = {[by |-> Initial, parent |-> e[1], child |-> e[2], kind |-> "embed"] : e \in t}
  /\ wire = {}

Here == job[inside]
Goto(from, to) == pc = from /\ pc' = to

Finish(status) ==
  /\ reply' = [reply EXCEPT ![inside] = status]
  /\ inside' = Nobody /\ pc' = "idle" /\ pending' = {} /\ visited' = {}

(* collectLinkedChildIds, collectEmbeddedLinkedDocIds *)
Children(d) == {l.child : l \in {k \in links : k.parent = d}}
Embeds(parent, child) ==
  {l \in links : l.parent = parent /\ l.child = child /\ l.kind = "embed"}

-----------------------------------------------------------------------------
Begin(m) ==
  /\ inside = Nobody /\ job[m] = Nobody
  /\ \E d, to \in Docs, from \in Docs \cup {Nobody} :
       /\ job' = [job EXCEPT ![m] = [doc |-> d, to |-> to, from |-> from]]
       /\ IF d = to
          THEN /\ reply' = [reply EXCEPT ![m] = "refused"]
               /\ UNCHANGED <<inside, pc>>
          ELSE /\ inside' = m /\ pc' = "resources"
               /\ UNCHANGED reply
  /\ UNCHANGED <<pending, visited, links, wire>>

(* assertResourcesExist, and where from and to part ways. *)
ResourcesExist ==
  /\ pc = "resources"
  /\ pc' = (IF Here.from = Here.to THEN "same" ELSE "walk")
  /\ pending' = {Here.doc}
  /\ UNCHANGED <<job, inside, visited, reply, links, wire>>

SameParent ==
  /\ pc = "same"
  /\ Finish(IF Embeds(Here.to, Here.doc) # {} THEN "unchanged" ELSE "inconsistent")
  /\ UNCHANGED <<job, links, wire>>

(* A document is missing, a load fails, or the walk is too long: nothing   *)
(* has been written.                                                       *)
Refused ==
  /\ pc \in {"resources", "same", "walk", "check", "add"}
  /\ Finish("refused")
  /\ UNCHANGED <<job, links, wire>>

(* Mutant: only the children of the document itself are looked at. *)
VisitShallow(d) ==
  /\ pc = "walk" /\ d \in pending
  /\ Here.to \notin Children(d)
  /\ visited' = visited \cup {d}
  /\ pending' = pending \ {d}
  /\ UNCHANGED <<job, inside, pc, reply, links, wire>>

(* One document of the walk is loaded. *)
Visit(d) ==
  /\ pc = "walk" /\ d \in pending
  /\ Here.to \notin Children(d)
  /\ visited' = visited \cup {d}
  /\ pending' = (pending \cup Children(d)) \ visited'
  /\ UNCHANGED <<job, inside, pc, reply, links, wire>>

FindsCycle(d) ==
  /\ pc = "walk" /\ d \in pending
  /\ Here.to \in Children(d)
  /\ Finish("refused")
  /\ UNCHANGED <<job, links, wire>>

WalkDone ==
  /\ Goto("walk", "check") /\ pending = {}
  /\ UNCHANGED <<job, inside, pending, visited, reply, links, wire>>

-----------------------------------------------------------------------------
(* Where the move goes once the new parent has the link. *)
Linked ==
  IF Here.from = Nobody
  THEN Finish("linked")
  ELSE pc' = "remove" /\ UNCHANGED <<inside, pending, visited, reply>>

Send(add, remove) == wire' = wire \cup {[by |-> inside, add |-> add, remove |-> remove]}
InFlight == \E p \in wire : p.by = inside

AlreadyLinked ==
  /\ pc = "check" /\ Embeds(Here.to, Here.doc) # {}
  /\ Linked
  /\ UNCHANGED <<job, links, wire>>

NotLinkedYet ==
  /\ Goto("check", "add") /\ Embeds(Here.to, Here.doc) = {}
  /\ UNCHANGED <<job, inside, pending, visited, reply, links, wire>>

(* addToNewParent: appendBlockInternal. *)
AddToNewParent ==
  /\ Goto("add", "adding")
  /\ Send({[by |-> inside, parent |-> Here.to, child |-> Here.doc, kind |-> "embed"]}, {})
  /\ UNCHANGED <<job, inside, pending, visited, reply, links>>

AddAcknowledged ==
  /\ pc = "adding" /\ ~InFlight
  /\ Linked
  /\ UNCHANGED <<job, links, wire>>

(* Mutant: a link that was not confirmed is taken as added. *)
AddFailsSilently ==
  /\ pc = "adding"
  /\ Linked
  /\ UNCHANGED <<job, links, wire>>

(* Not acknowledged, or the workspace page could not be updated after it   *)
(* was: the move is abandoned.                                             *)
AddFails ==
  /\ pc = "adding"
  /\ Finish("failed")
  /\ UNCHANGED <<job, links, wire>>

-----------------------------------------------------------------------------
(* removeFromOldParent: load, then remove every embed of the document. *)
RemoveLoadFails ==
  /\ pc = "remove"
  /\ Finish("partial")
  /\ UNCHANGED <<job, links, wire>>

NoSourceLink ==
  /\ pc = "remove" /\ Embeds(Here.from, Here.doc) = {}
  /\ Finish("partial")
  /\ UNCHANGED <<job, links, wire>>

(* Mutant: one of the links is removed. *)
RemoveOneFromOldParent ==
  /\ Goto("remove", "removing")
  /\ \E l \in Embeds(Here.from, Here.doc) : Send({}, {l})
  /\ UNCHANGED <<job, inside, pending, visited, reply, links>>

RemoveFromOldParent ==
  /\ Goto("remove", "removing") /\ Embeds(Here.from, Here.doc) # {}
  /\ Send({}, Embeds(Here.from, Here.doc))
  /\ UNCHANGED <<job, inside, pending, visited, reply, links>>

RemoveAcknowledged ==
  /\ pc = "removing" /\ ~InFlight
  /\ Finish("moved")
  /\ UNCHANGED <<job, links, wire>>

RemoveFails ==
  /\ pc = "removing"
  /\ Finish("partial")
  /\ UNCHANGED <<job, links, wire>>

-----------------------------------------------------------------------------
ServerApplies ==
  /\ \E p \in wire :
       /\ wire' = wire \ {p}
       /\ links' = (links \cup p.add) \ p.remove
  /\ UNCHANGED call

(* A push that never arrives is never acknowledged. *)
PushLost ==
  /\ \E p \in wire :
       /\ wire' = wire \ {p}
       /\ \/ p.by # inside /\ UNCHANGED call
          \/ p.by = inside /\ pc = "adding" /\ Finish("failed") /\ UNCHANGED job
          \/ p.by = inside /\ pc = "removing" /\ Finish("partial") /\ UNCHANGED job
  /\ UNCHANGED links

(* The native editor links a document, without asking for cycles. *)
OutsideEdit ==
  /\ \E e \in Edits, d, to \in Docs, k \in {"embed", "ref"} :
       /\ d # to
       /\ \A l \in links : l.by # e
       /\ \A p \in wire : \A l \in p.remove : l.by # e
       /\ links' = links \cup {[by |-> e, parent |-> to, child |-> d, kind |-> k]}
  /\ UNCHANGED <<call, wire>>

MoveStep ==
  \/ ResourcesExist \/ SameParent \/ Refused
  \/ (\E d \in Docs : Visit(d) \/ FindsCycle(d)) \/ WalkDone
  \/ AlreadyLinked \/ NotLinkedYet \/ AddToNewParent \/ AddAcknowledged \/ AddFails
  \/ RemoveLoadFails \/ NoSourceLink \/ RemoveFromOldParent
  \/ RemoveAcknowledged \/ RemoveFails

Done == inside = Nobody /\ (\A m \in Moves : job[m] # Nobody) /\ UNCHANGED vars

Next ==
  \/ \E m \in Moves : Begin(m)
  \/ MoveStep \/ ServerApplies \/ PushLost \/ OutsideEdit \/ Done

Spec == Init /\ [][Next]_vars

-----------------------------------------------------------------------------
TypeOK ==
  /\ job \in [Moves -> Job \cup {Nobody}]
  /\ inside \in Moves \cup {Nobody}
  /\ pc \in {"idle", "resources", "same", "walk", "check", "add", "adding", "remove", "removing"}
  /\ pending \subseteq Docs /\ visited \subseteq Docs
  /\ reply \in [Moves -> {"none", "refused", "failed", "unchanged", "inconsistent",
                          "linked", "partial", "moved"}]
  /\ links \subseteq Link
  /\ wire \subseteq Push

Parents(d) == {l.parent : l \in {k \in links : k.child = d}}

(* In every set of documents one hangs under none of the others. *)
Acyclic(L) ==
  \A S \in SUBSET Docs \ {{}} : \E d \in S : \A l \in L : l.child = d => l.parent \notin S

(* Moves make no cycle: one can only be closed by a link the cycle check   *)
(* could not see, of the native editor or of a move reported as failed     *)
(* that is merged late.                                                    *)
MovesMakeNoCycle ==
  Acyclic({l \in links : l.by \notin Edits \cup {m \in Moves : reply[m] = "failed"}})

(* A document loses its last link only to a removal that was reported as   *)
(* partial and merged late, after a second move had relied on, or undone,  *)
(* what the first one did.                                                 *)
OnlyLateRemovalsOrphan ==
  [][\A d \in Docs : Parents(d) # {} /\ Parents(d)' = {} =>
       \E m, n \in {k \in Moves : job[k] # Nobody} :
         /\ m # n /\ job[m].doc = d /\ job[n].doc = d
         /\ reply[m] = "partial" /\ job[n].from = job[m].to]_vars

(* What move_doc reports is true when it is reported: the new parent has   *)
(* the link, unless an earlier partial move takes it away just then; after *)
(* "moved" the old parent has none but later ones of the native editor or  *)
(* of moves that failed.                                                   *)
MoveReportsAreTrue ==
  [][\A m \in Moves : reply'[m] # reply[m] =>
       LET j == job'[m] IN
       /\ reply'[m] \in {"moved", "linked", "partial", "unchanged"} =>
            \/ Embeds(j.to, j.doc) # {}
            \/ \E n \in Moves \ {m} :
                 reply[n] = "partial" /\ job[n].doc = j.doc /\ job[n].from = j.to
       /\ reply'[m] = "moved" =>
            \A l \in Embeds(j.from, j.doc) :
              l.by \in Edits \/ l.by \in {n \in Moves : reply[n] = "failed"}]_vars

(* "Add the destination link before removing the source link so a failed   *)
(* move cannot orphan the document from both parents."                     *)
FailedMoveKeepsLink ==
  \A m \in Moves : reply[m] \in {"partial", "moved"} => Parents(job[m].doc) # {}
=============================================================================
