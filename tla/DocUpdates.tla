------------------------------ MODULE DocUpdates ------------------------------
(***************************************************************************)
(* The life of a tool call that edits one Yjs document: it loads the       *)
(* document, edits its copy and pushes the difference (ws.ts). The write   *)
(* queue lets the next call start when this one is answered, but a push    *)
(* whose acknowledgement does not come in time may be merged after that.   *)
(***************************************************************************)
EXTENDS Naturals

CONSTANTS Calls,           \* the tool calls
          Merge(_, _, _)   \* how the document merges an update

VARIABLES
  doc,     \* the server's document
  phase,   \* phase[c]: "idle", "sent", "merged", "refused" or, when the push
           \* fails before it is merged, "lost" and then "late" if it is merged
  update,  \* update[c]: the document c loaded, what it made of it, what it asked
  stale    \* some update was merged into a document it was not computed from

Nothing == [base |-> <<>>, made |-> <<>>, asked |-> {}]

UpdatesInit ==
  /\ phase = [c \in Calls |-> "idle"]
  /\ update = [c \in Calls |-> Nothing]
  /\ stale = FALSE

(* A handler throws before it pushes, or pushes one of its results.        *)
Handled(c, results, asked) ==
  /\ phase[c] = "idle"
  /\ \A o \in Calls : phase[o] # "sent"
  /\ \/ /\ results = {}
        /\ phase' = [phase EXCEPT ![c] = "refused"]
        /\ UNCHANGED update
     \/ \E r \in results :
          /\ phase' = [phase EXCEPT ![c] = "sent"]
          /\ update' = [o \in Calls |->
                IF o = c THEN [base |-> doc, made |-> r, asked |-> asked]
                ELSE IF phase[o] = "lost" THEN update[o] ELSE Nothing]
  /\ UNCHANGED <<doc, stale>>

(* A handler that finds nothing to change answers without a push.          *)
Answered(c, asked) ==
  /\ phase[c] = "idle"
  /\ \A o \in Calls : phase[o] # "sent"
  /\ phase' = [phase EXCEPT ![c] = "merged"]
  /\ update' = [o \in Calls |->
        IF o = c THEN [base |-> doc, made |-> doc, asked |-> asked]
        ELSE IF phase[o] = "lost" THEN update[o] ELSE Nothing]
  /\ UNCHANGED <<doc, stale>>

MergeUpdate(c) ==
  /\ phase[c] \in {"sent", "lost"}
  /\ phase' = [phase EXCEPT ![c] = IF @ = "sent" THEN "merged" ELSE "late"]
  /\ doc' = Merge(doc, update[c].base, update[c].made)
  /\ stale' = (stale \/ doc # update[c].base)
  /\ UNCHANGED update

(* The acknowledgement does not come and the server has not merged it yet. *)
(* (One that is lost after the merge leaves the document as if it came.)   *)
LoseAck(c) ==
  /\ phase[c] = "sent"
  /\ phase' = [phase EXCEPT ![c] = "lost"]
  /\ UNCHANGED <<doc, update, stale>>

UpdatesDone ==
  /\ \A c \in Calls : phase[c] \in {"merged", "refused", "lost", "late"}
  /\ UNCHANGED <<doc, phase, update, stale>>
=============================================================================
