------------------------ MODULE ToolCoordinationProofs ------------------------
(***************************************************************************)
(* Guarded edits, reads and deletions under the write queue, for any       *)
(* number of calls, documents and workspaces and any edits from outside.   *)
(*                                                                         *)
(* The three properties speak of the server's document at the time a call  *)
(* is inside the queue.  Their proofs rest on SerialInv, the promise of    *)
(* the queue, and on what a call leaves behind: whose push is applied or   *)
(* on its way, whose acknowledgement is true, and what a call that is      *)
(* inside has seen of the calls before it.                                 *)
(***************************************************************************)
EXTENDS ToolCoordination, SerialWritesProofs

Jobs == [doc : Docs, kind : Kinds, expected : Revision \cup {NoToken}]

CallInStep(c) ==
  /\ state[c] \in {"waiting", "writing", "done"} => job[c] \in Jobs /\ where[c] = HomeOf[Doc(c)]
  /\ state[c] \in {"waiting", "writing", "done"} /\ job[c].kind = "read" =>
       job[c].expected = NoToken /\ step[c] \in {"start", "registry", "end"}
  /\ state[c] \in {"new", "waiting", "refused"} => step[c] = "start"
  /\ state[c] = "done" <=> step[c] = "end"
  /\ state[c] \in {"new", "waiting", "writing"} <=> reply[c] = "none"
  /\ state[c] = "refused" => reply[c] = "error"
  /\ c \in inflight => step[c] = "pushed" \/ reply[c] = "unconfirmed"

CallsInStep == \A c \in Calls : CallInStep(c)

Applied(c) ==
  IF job[c].kind = "delete" THEN ~server[Doc(c)].reg ELSE c \in server[Doc(c)].add

ConfirmedIsApplied ==
  \A c \in Calls :
    \/ step[c] = "pushed" /\ c \notin inflight
    \/ reply[c] = "ok" /\ job[c].kind # "read"
    => Applied(c)

MarksAreServed ==
  \A c \in Calls : c \in inflight \/ (\E d \in Docs : c \in server[d].add)
                   => state[c] \in {"writing", "done"}

ReadsAreFromServer ==
  \A c \in Calls : reply[c] = "ok" /\ job[c].kind = "read" => view[c].add \subseteq server[Doc(c)].add

Deleted(w, c) ==
  /\ job[w] \in Jobs /\ job[c] \in Jobs
  /\ Doc(w) = Doc(c) /\ job[w].kind = "delete" /\ reply[w] = "ok" /\ Before(w, c)

DeletionsAreSeen == \A w, c \in Calls : Deleted(w, c) /\ step[c] = "registry" => ~view[c].reg

TokensAreRetired ==
  \A w, c \in Calls :
    Deleted(w, c) /\ Guarded(c) /\ job[c].expected.reg =>
      step[c] \notin {"handler", "loaded", "pushed"} /\ c \notin inflight

ToolInv ==
  /\ SerialInv
  /\ ToolTypeOK
  /\ CallsInStep
  /\ ConfirmedIsApplied
  /\ MarksAreServed
  /\ ReadsAreFromServer
  /\ DeletionsAreSeen
  /\ TokensAreRetired
  /\ GuardedEditKeepsItsBase
  /\ ReadFollowsQueueOrder

-----------------------------------------------------------------------------
(* Before the first call. *)
LEMMA InitTool == ToolInit => ToolInv
<1> SUFFICES ASSUME ToolInit PROVE ToolInv
  OBVIOUS
<1>1. SerialInv
  BY InitSerial DEF ToolInit
<1>2. FirstState \in Revision
  BY DEF FirstState, Revision, Items
<1>3. ToolTypeOK
  BY <1>2 DEF ToolInit, ToolTypeOK
<1>4. CallsInStep
  BY ToolAssumption DEF ToolInit, Init, CallsInStep, CallInStep, Jobs
<1>5. MarksAreServed
  BY ToolAssumption DEF ToolInit, MarksAreServed, FirstState
<1>6. /\ ConfirmedIsApplied /\ ReadsAreFromServer /\ DeletionsAreSeen /\ TokensAreRetired
      /\ GuardedEditKeepsItsBase /\ ReadFollowsQueueOrder
  BY DEF ToolInit, ConfirmedIsApplied, ReadsAreFromServer, DeletionsAreSeen, TokensAreRetired,
         Deleted, GuardedEditKeepsItsBase, ReadFollowsQueueOrder
<1> QED
  BY <1>1, <1>3, <1>4, <1>5, <1>6 DEF ToolInv

(* Whatever a tool call does, the queue sees one of its own steps. *)
LEMMA ToolStepsAreSerial == [ToolNext]_toolVars => [Next]_vars
<1> SUFFICES ASSUME [ToolNext]_toolVars PROVE [Next]_vars
  OBVIOUS
<1>1. ASSUME NEW c \in Calls, Invoke(c) PROVE Next
  <2>1. PICK d \in Docs : Accept(c, HomeOf[d])
    BY <1>1 DEF Invoke
  <2> QED
    BY <2>1, ToolAssumption DEF Next
<1>2. ASSUME NEW c \in Calls, ToolStep(c) PROVE [Next]_vars
  BY <1>1, <1>2 DEF ToolStep, QueueRefuses, LoadRegistry, CheckRevision, FinishRead, SkipCheck,
     HandlerLoads, HandlerPushes, Fails, Acknowledged, AckTimeout, ServerApplies, PushLost,
     Answer, Next
<1> QED
  BY <1>2 DEF ToolNext, OutsideEdit, Idle, toolVars

(* The calls beside the one that moves stand still, but for the one that   *)
(* the queue starts.                                                       *)
LEMMA OthersStand ==
  ASSUME ToolInv, NEW c \in Calls, ToolStep(c), NEW d \in Calls, d # c
  PROVE  /\ job'[d] = job[d] /\ step'[d] = step[d] /\ view'[d] = view[d] /\ reply'[d] = reply[d]
         /\ where'[d] = where[d]
         /\ state'[d] = state[d] \/ (state[d] = "waiting" /\ state'[d] = "writing")
         /\ d \in inflight' <=> d \in inflight
<1>0. WriteTypeOK /\ ToolTypeOK
  BY DEF ToolInv, SerialInv
<1>1. /\ job'[d] = job[d] /\ step'[d] = step[d] /\ view'[d] = view[d] /\ reply'[d] = reply[d]
      /\ d \in inflight' <=> d \in inflight
  BY <1>0 DEF ToolTypeOK, ToolStep, Invoke, QueueRefuses, LoadRegistry, CheckRevision, FinishRead,
     SkipCheck, HandlerLoads, HandlerPushes, Fails, Acknowledged, AckTimeout, ServerApplies,
     PushLost, Answer, Goto, tool, world
<1>2. \/ vars' = vars
      \/ \E s \in Scopes : Accept(c, s)
      \/ Refuse(c)
      \/ Complete(c)
  BY ToolAssumption DEF ToolStep, Invoke, QueueRefuses, LoadRegistry, CheckRevision, FinishRead,
     SkipCheck, HandlerLoads, HandlerPushes, Fails, Acknowledged, AckTimeout, ServerApplies,
     PushLost, Answer
<1>3. /\ where'[d] = where[d]
      /\ state'[d] = state[d] \/ (state[d] = "waiting" /\ state'[d] = "writing")
  <2>1. CASE vars' = vars
    BY <2>1 DEF vars
  <2>2. CASE \E s \in Scopes : Accept(c, s)
    BY <1>0, <2>2 DEF Accept, WriteTypeOK
  <2>3. CASE Refuse(c)
    BY <1>0, <2>3 DEF Refuse, WriteTypeOK
  <2>4. CASE Complete(c)
    BY <1>0, <2>4 DEF Complete, Successor, Of, WriteTypeOK
  <2> QED
    BY <1>2, <2>1, <2>2, <2>3, <2>4
<1> QED
  BY <1>1, <1>3

(* Documents only grow, and only by what is on its way or from outside.    *)
LEMMA ServerGrows ==
  ASSUME ToolInv, [ToolNext]_toolVars, NEW d \in Docs
  PROVE  /\ server[d].add \subseteq server'[d].add
         /\ ~server[d].reg => ~server'[d].reg
         /\ \A x \in Calls : x \in server'[d].add => x \in server[d].add \/ x \in inflight
<1>0. ToolTypeOK
  BY DEF ToolInv
<1>1. CASE server' = server
  BY <1>1
<1>2. ASSUME NEW c \in Calls, ServerApplies(c)
      PROVE  /\ server[d].add \subseteq server'[d].add
             /\ ~server[d].reg => ~server'[d].reg
             /\ \A x \in Calls : x \in server'[d].add => x \in server[d].add \/ x \in inflight
  <2>1. CASE d # Doc(c)
    BY <1>0, <1>2, <2>1 DEF ServerApplies, ToolTypeOK
  <2>2. CASE d = Doc(c)
    <3>1. server[d] \in Revision
      BY <1>0 DEF ToolTypeOK
    <3>2. server'[d] = Merged(server[d], c)
      BY <1>0, <1>2, <2>2 DEF ServerApplies, ToolTypeOK
    <3> QED
      BY <1>2, <3>1, <3>2 DEF ServerApplies, Merged, Revision
  <2> QED
    BY <2>1, <2>2
<1>3. ASSUME NEW x \in Docs, OutsideEdit(x)
      PROVE  /\ server[d].add \subseteq server'[d].add
             /\ ~server[d].reg => ~server'[d].reg
             /\ \A y \in Calls : y \in server'[d].add => y \in server[d].add \/ y \in inflight
  BY <1>0, <1>3, ToolAssumption DEF OutsideEdit, ToolTypeOK, Revision
<1>4. \/ server' = server
      \/ \E c \in Calls : ServerApplies(c)
      \/ \E x \in Docs : OutsideEdit(x)
  BY DEF ToolNext, ToolStep, Invoke, QueueRefuses, LoadRegistry, CheckRevision, FinishRead,
     SkipCheck, HandlerLoads, HandlerPushes, Fails, Acknowledged, AckTimeout,
     PushLost, Idle, toolVars, world
<1> QED
  BY <1>1, <1>2, <1>3, <1>4

(* Types. *)
LEMMA ToolTypesKept == ToolInv /\ [ToolNext]_toolVars => ToolTypeOK'
<1> SUFFICES ASSUME ToolInv, [ToolNext]_toolVars PROVE ToolTypeOK'
  OBVIOUS
<1>0. ToolTypeOK
  BY DEF ToolInv
<1> USE <1>0 DEF ToolTypeOK
<1>1. CASE UNCHANGED toolVars
  BY <1>1 DEF toolVars, tool, world
<1>2. ASSUME NEW c \in Calls, Invoke(c) PROVE ToolTypeOK'
  <2>1. PICK d \in Docs, k \in Kinds, e \in Revision \cup {NoToken} :
          job' = [job EXCEPT ![c] = [doc |-> d, kind |-> k, expected |-> e]]
    BY <1>2 DEF Invoke
  <2> QED
    BY <1>2, <2>1 DEF Invoke, world
<1>3. ASSUME NEW c \in Calls, QueueRefuses(c) PROVE ToolTypeOK'
  BY <1>3 DEF QueueRefuses, world
<1>4. ASSUME NEW c \in Calls, state[c] = "writing" PROVE Doc(c) \in Docs /\ job[c] \in Jobs
  BY <1>4 DEF ToolInv, CallsInStep, CallInStep, Jobs, Doc
<1>5. ASSUME NEW c \in Calls, LoadRegistry(c) PROVE ToolTypeOK'
  BY <1>4, <1>5 DEF LoadRegistry, Inside, Goto, world, Revision
<1>6. ASSUME NEW c \in Calls, CheckRevision(c) PROVE ToolTypeOK'
  BY <1>6 DEF CheckRevision, Goto, Answer, world
<1>7. ASSUME NEW c \in Calls, FinishRead(c) PROVE ToolTypeOK'
  <2>1. documentRevision(server[Doc(c)], view[c].reg) \in Revision /\ Doc(c) \in Docs
    BY <1>4, <1>7 DEF FinishRead, Inside, documentRevision, Revision
  <2> QED
    BY <1>7, <2>1 DEF FinishRead, Goto, Answer
<1>8. ASSUME NEW c \in Calls, SkipCheck(c) PROVE ToolTypeOK'
  BY <1>8 DEF SkipCheck, Goto, world
<1>9. ASSUME NEW c \in Calls, HandlerLoads(c) PROVE ToolTypeOK'
  BY <1>4, <1>9 DEF HandlerLoads, Inside, Goto, world
<1>10. ASSUME NEW c \in Calls, HandlerPushes(c) PROVE ToolTypeOK'
  BY <1>10 DEF HandlerPushes, Goto
<1>11. ASSUME NEW c \in Calls, Fails(c) \/ Acknowledged(c) \/ AckTimeout(c) PROVE ToolTypeOK'
  BY <1>11 DEF Fails, Acknowledged, AckTimeout, Answer, Goto, world
<1>12. ASSUME NEW c \in Calls, ServerApplies(c) PROVE ToolTypeOK'
  <2>1. Erases(c) \subseteq Items
    BY DEF Erases, Revision
  <2>2. ASSUME NEW r \in Revision PROVE Merged(r, c) \in Revision
    BY <2>1 DEF Merged, Revision, Items
  <2>3. server' \in [Docs -> Revision]
    BY <1>12, <2>2 DEF ServerApplies
  <2> QED
    BY <1>12, <2>3 DEF ServerApplies, tool
<1>13. ASSUME NEW c \in Calls, PushLost(c) PROVE ToolTypeOK'
  BY <1>13 DEF PushLost, Goto, Answer
<1>14. ASSUME NEW d \in Docs, OutsideEdit(d) PROVE ToolTypeOK'
  <2>1. server' \in [Docs -> Revision]
    BY <1>14 DEF OutsideEdit, Revision, Items
  <2> QED
    BY <1>14, <2>1 DEF OutsideEdit, tool
<1> QED
  BY <1>1, <1>2, <1>3, <1>5, <1>6, <1>7, <1>8, <1>9, <1>10, <1>11, <1>12, <1>13, <1>14
     DEF ToolNext, ToolStep, Idle

-----------------------------------------------------------------------------
(* The call that moves takes its own next step. *)
LEMMA OwnStep ==
  ASSUME ToolInv, NEW c \in Calls, ToolStep(c)
  PROVE  CallInStep(c)'
<1>0. ToolTypeOK /\ WriteTypeOK /\ CallInStep(c)
  BY DEF ToolInv, SerialInv, CallsInStep
<1> USE DEF CallInStep, Doc, Guarded, Inside
<1>1. CASE Invoke(c)
  <2>0. PICK d \in Docs, k \in Kinds :
          \E e \in (IF k = "read" THEN {} ELSE issued[d]) \cup {NoToken} :
            /\ Accept(c, HomeOf[d])
            /\ job' = [job EXCEPT ![c] = [doc |-> d, kind |-> k, expected |-> e]]
    BY <1>1 DEF Invoke
  <2>1. PICK e \in Revision \cup {NoToken} :
          /\ k = "read" => e = NoToken
          /\ Accept(c, HomeOf[d])
          /\ job' = [job EXCEPT ![c] = [doc |-> d, kind |-> k, expected |-> e]]
    BY <1>0, <2>0 DEF ToolTypeOK
  <2>2. /\ job'[c] = [doc |-> d, kind |-> k, expected |-> e] /\ job'[c] \in Jobs
        /\ UNCHANGED <<step, reply, inflight>>
    BY <1>0, <1>1, <2>1 DEF Invoke, ToolTypeOK, Jobs, world
  <2>3. state[c] = "new" /\ state'[c] \in {"waiting", "writing"} /\ where'[c] = HomeOf[d]
    BY <1>0, <2>1 DEF Accept, WriteTypeOK
  <2> QED
    BY <1>0, <2>1, <2>2, <2>3
<1>2. CASE QueueRefuses(c)
  BY <1>0, <1>2 DEF QueueRefuses, Refuse, ToolTypeOK, WriteTypeOK, world
<1>3. CASE LoadRegistry(c) \/ SkipCheck(c) \/ HandlerLoads(c)
  BY <1>0, <1>3 DEF LoadRegistry, SkipCheck, HandlerLoads, Goto, vars, world, ToolTypeOK
<1>4. CASE HandlerPushes(c)
  BY <1>0, <1>4 DEF HandlerPushes, Goto, vars, ToolTypeOK
<1>5. ASSUME Complete(c)
      PROVE  state[c] = "writing" /\ state'[c] = "done" /\ where' = where
  BY <1>0, <1>5 DEF Complete, Successor, Of, WriteTypeOK
<1>6. CASE CheckRevision(c)
  <2>1. CASE UNCHANGED <<vars, reply>> /\ Goto(c, "registry", "handler")
    BY <1>0, <1>6, <2>1 DEF CheckRevision, Goto, vars, world, ToolTypeOK
  <2>2. CASE Goto(c, "registry", "end") /\ Answer(c, "stale")
    BY <1>0, <1>5, <1>6, <2>2 DEF CheckRevision, Goto, Answer, world, ToolTypeOK
  <2> QED
    BY <1>6, <2>1, <2>2 DEF CheckRevision
<1>7. CASE FinishRead(c)
  BY <1>0, <1>5, <1>7 DEF FinishRead, Goto, Answer, ToolTypeOK
<1>8. CASE Fails(c)
  BY <1>0, <1>5, <1>8 DEF Fails, Answer, world, ToolTypeOK
<1>9. CASE Acknowledged(c) \/ AckTimeout(c)
  BY <1>0, <1>5, <1>9 DEF Acknowledged, AckTimeout, Goto, Answer, world, ToolTypeOK
<1>10. CASE PushLost(c)
  BY <1>0, <1>5, <1>10 DEF PushLost, Goto, Answer, ToolTypeOK
<1>11. CASE ServerApplies(c)
  BY <1>0, <1>11 DEF ServerApplies, tool, vars
<1> QED
  BY <1>1, <1>2, <1>3, <1>4, <1>6, <1>7, <1>8, <1>9, <1>10, <1>11 DEF ToolStep

(* Queue, arguments, step and answer of every call go together. *)
LEMMA CallsStayInStep == ToolInv /\ [ToolNext]_toolVars => CallsInStep'
<1> SUFFICES ASSUME ToolInv, [ToolNext]_toolVars PROVE CallsInStep'
  OBVIOUS
<1>0. \A d \in Calls : CallInStep(d)
  BY DEF ToolInv, CallsInStep
<1>1. CASE UNCHANGED <<vars, tool, inflight>>
  BY <1>0, <1>1 DEF CallsInStep, CallInStep, Doc, vars, tool
<1>2. ASSUME NEW c \in Calls, ToolStep(c), NEW d \in Calls PROVE CallInStep(d)'
  <2>1. CASE d = c
    BY <1>2, <2>1, OwnStep
  <2>2. CASE d # c
    BY <1>0, <1>2, <2>2, OthersStand DEF CallInStep, Doc
  <2> QED
    BY <2>1, <2>2
<1> QED
  BY <1>1, <1>2 DEF ToolNext, OutsideEdit, Idle, toolVars, world, CallsInStep

(* A call that is out of the queue is left alone. *)
LEMMA FinishedStand ==
  ASSUME ToolInv, [ToolNext]_toolVars, NEW d \in Calls, state[d] \in {"done", "refused"}
  PROVE  /\ job'[d] = job[d] /\ step'[d] = step[d] /\ view'[d] = view[d] /\ reply'[d] = reply[d]
         /\ state'[d] = state[d] /\ where'[d] = where[d]
<1>0. ToolTypeOK /\ WriteTypeOK
  BY DEF ToolInv, SerialInv
<1>1. CASE UNCHANGED <<vars, tool>>
  BY <1>1 DEF vars, tool
<1>2. ASSUME NEW c \in Calls, ToolStep(c), d # c PROVE UNCHANGED <<job[d], step[d], view[d], reply[d]>>
  BY <1>2, OthersStand
<1>3. ASSUME ToolStep(d) PROVE UNCHANGED <<vars, tool>>
  BY <1>3 DEF ToolStep, Invoke, QueueRefuses, LoadRegistry, CheckRevision, FinishRead, SkipCheck,
     HandlerLoads, HandlerPushes, Fails, Acknowledged, AckTimeout, ServerApplies, PushLost,
     Answer, Inside, Accept, Refuse, Complete
<1>4. UNCHANGED <<job[d], step[d], view[d], reply[d]>>
  BY <1>1, <1>2, <1>3 DEF ToolNext, OutsideEdit, Idle, toolVars, tool
<1>5. state'[d] = state[d] /\ where'[d] = where[d]
  BY <1>0, ToolStepsAreSerial, CallsMoveOn DEF ToolInv, StateMoves
<1> QED
  BY <1>4, <1>5

(* The arguments of a call are fixed when it is made. *)
LEMMA JobsStand ==
  ASSUME ToolInv, [ToolNext]_toolVars, NEW d \in Calls, state[d] # "new"
  PROVE  job'[d] = job[d]
<1>1. ASSUME NEW c \in Calls, ToolStep(c), d # c PROVE job'[d] = job[d]
  BY <1>1, OthersStand
<1>2. ASSUME ToolStep(d) PROVE job'[d] = job[d]
  BY <1>2 DEF ToolStep, Invoke, QueueRefuses, LoadRegistry, CheckRevision, FinishRead, SkipCheck,
     HandlerLoads, HandlerPushes, Fails, Acknowledged, AckTimeout, ServerApplies, PushLost,
     Accept, tool
<1> QED
  BY <1>1, <1>2 DEF ToolNext, OutsideEdit, Idle, toolVars, tool

(* Whoever is served after w finds w answered for good. *)
LEMMA EarlierAreAnswered ==
  ASSUME ToolInv, [ToolNext]_toolVars, NEW w \in Calls, NEW c \in Calls,
         state[c] \in {"writing", "done"}, job'[w] \in Jobs, Doc(w)' = Doc(c), Before(w, c)'
  PROVE  /\ Before(w, c) /\ job'[w] = job[w] /\ reply'[w] = reply[w]
         /\ state[w] \in {"done", "refused"}
<1>0. SerialInv /\ CallsInStep /\ WriteTypeOK
  BY DEF ToolInv, SerialInv
<1>1. Before(w, c)
  BY <1>0, ToolStepsAreSerial, OrderStands
<1>2. state[w] # "new" /\ job'[w] = job[w]
  BY <1>0, <1>1, ArrivedAreKnown, JobsStand
<1>3. CASE state[w] = "refused"
  BY <1>1, <1>2, <1>3, FinishedStand
<1>4. CASE state[w] # "refused"
  <2>1. where[w] = where[c]
    BY <1>0, <1>2, <1>4 DEF CallsInStep, CallInStep, Doc, WriteTypeOK
  <2>2. state[w] \in {"done", "refused"}
    BY <1>0, <1>1, <2>1 DEF SerialInv, NobodyOvertakes
  <2> QED
    BY <1>1, <1>2, <2>2, FinishedStand
<1> QED
  BY <1>3, <1>4

(* A deletion that counts for a call inside counted when it came inside.   *)
LEMMA DeletedStands ==
  ASSUME ToolInv, [ToolNext]_toolVars, NEW w \in Calls, NEW c \in Calls,
         state[c] \in {"writing", "done"}, Deleted(w, c)'
  PROVE  Deleted(w, c) /\ ~server[Doc(c)].reg
<1>1. job'[c] = job[c]
  BY JobsStand
<1>2. job'[w] \in Jobs /\ Doc(w)' = Doc(c) /\ Before(w, c)' /\ reply'[w] = "ok" /\ job'[w].kind = "delete"
  BY <1>1 DEF Deleted, Doc
<1>3. Before(w, c) /\ job'[w] = job[w] /\ reply'[w] = reply[w]
  BY <1>2, EarlierAreAnswered
<1>4. Deleted(w, c)
  BY <1>1, <1>2, <1>3 DEF Deleted, Doc
<1>5. ~server[Doc(w)].reg
  BY <1>4 DEF Deleted, ToolInv, ConfirmedIsApplied, Applied
<1> QED
  BY <1>4, <1>5 DEF Deleted

-----------------------------------------------------------------------------
(* What the server has merged stays merged. *)
LEMMA AppliedStands ==
  ASSUME ToolInv, [ToolNext]_toolVars, NEW c \in Calls, job[c] \in Jobs, state[c] # "new", Applied(c)
  PROVE  Applied(c)'
<1>1. job'[c] = job[c] /\ Doc(c) \in Docs
  BY JobsStand DEF Doc, Jobs
<1> QED
  BY <1>1, ServerGrows DEF Applied, Doc

(* Applying c's push, or taking it for acknowledged. *)
LEMMA OwnPushApplied ==
  ASSUME ToolInv, NEW c \in Calls, ToolStep(c),
         \/ step'[c] = "pushed" /\ c \notin inflight'
         \/ reply'[c] = "ok" /\ job'[c].kind # "read"
  PROVE  Applied(c)'
<1>0. ToolTypeOK /\ WriteTypeOK /\ CallInStep(c) /\ [ToolNext]_toolVars
  BY DEF ToolInv, SerialInv, CallsInStep, ToolNext
<1>1. CASE ServerApplies(c)
  <2>1. step[c] = "pushed" \/ reply[c] = "ok"
    BY <1>1 DEF ServerApplies, tool
  <2>2. job[c] \in Jobs /\ Doc(c) \in Docs
    BY <1>0, <2>1 DEF CallInStep, WriteTypeOK, Doc, Jobs
  <2>3. job' = job /\ server'[Doc(c)] = Merged(server[Doc(c)], c) /\ server[Doc(c)] \in Revision
    BY <1>0, <1>1, <2>2 DEF ServerApplies, tool, ToolTypeOK
  <2> QED
    BY <2>3 DEF Applied, Doc, Merged, Revision
<1>2. CASE ~ServerApplies(c)
  <2>1. /\ job' = job /\ server' = server
        /\ \/ step[c] = "pushed" /\ c \notin inflight
           \/ reply[c] = "ok" /\ job[c].kind # "read"
    BY <1>0, <1>2 DEF CallInStep, WriteTypeOK, ToolTypeOK, ToolStep, Invoke, QueueRefuses, LoadRegistry, CheckRevision,
       FinishRead, SkipCheck, HandlerLoads, HandlerPushes, Fails, Acknowledged, AckTimeout, PushLost,
       Answer, Goto, Accept, Inside, world
  <2> QED
    BY <2>1 DEF ToolInv, ConfirmedIsApplied, Applied, Doc
<1> QED
  BY <1>1, <1>2

(* An acknowledged push is applied, and one that left the wire too. *)
LEMMA ConfirmationsStayTrue == ToolInv /\ [ToolNext]_toolVars => ConfirmedIsApplied'
<1> SUFFICES ASSUME ToolInv, [ToolNext]_toolVars, NEW d \in Calls,
                    \/ step'[d] = "pushed" /\ d \notin inflight'
                    \/ reply'[d] = "ok" /\ job'[d].kind # "read"
             PROVE  Applied(d)'
  BY DEF ConfirmedIsApplied
<1>1. ASSUME UNCHANGED <<step, inflight, reply, job>> \/ \E c \in Calls : c # d /\ ToolStep(c)
      PROVE  Applied(d)'
  <2>1. /\ job'[d] = job[d]
        /\ \/ step[d] = "pushed" /\ d \notin inflight
           \/ reply[d] = "ok" /\ job[d].kind # "read"
    BY <1>1, OthersStand
  <2>2. Applied(d)
    BY <2>1 DEF ToolInv, ConfirmedIsApplied
  <2>3. job[d] \in Jobs /\ state[d] # "new"
    BY <2>1 DEF ToolInv, SerialInv, WriteTypeOK, CallsInStep, CallInStep
  <2> QED
    BY <2>2, <2>3, AppliedStands
<1> QED
  BY <1>1, OwnPushApplied DEF ToolNext, OutsideEdit, Idle, toolVars, tool, world

(* Only calls that were served leave their mark on a document. *)
LEMMA MarksStayServed == ToolInv /\ [ToolNext]_toolVars => MarksAreServed'
<1> SUFFICES ASSUME ToolInv, [ToolNext]_toolVars, NEW d \in Calls,
                    d \in inflight' \/ \E x \in Docs : d \in server'[x].add
             PROVE  state'[d] \in {"writing", "done"}
  BY DEF MarksAreServed
<1>1. ASSUME state[d] \in {"writing", "done"} PROVE state'[d] \in {"writing", "done"}
  BY <1>1, ToolStepsAreSerial, CallsMoveOn DEF ToolInv, StateMoves
<1>2. CASE d \in inflight \/ \E x \in Docs : d \in server[x].add
  BY <1>1, <1>2 DEF ToolInv, MarksAreServed
<1>3. CASE d \notin inflight /\ \A x \in Docs : d \notin server[x].add
  <2>1. d \in inflight'
    BY <1>3, ServerGrows
  <2>2. HandlerPushes(d)
    BY <1>3, <2>1 DEF ToolNext, ToolStep, Invoke, QueueRefuses, LoadRegistry, CheckRevision,
       FinishRead, SkipCheck, HandlerPushes, HandlerLoads, Fails, Acknowledged, AckTimeout, ServerApplies, PushLost,
       OutsideEdit, Idle, toolVars, world
  <2> QED
    BY <1>1, <2>2 DEF HandlerPushes, Inside
<1> QED
  BY <1>2, <1>3

(* The revision of a finished read was on the server. *)
LEMMA ReadsStayFromServer == ToolInv /\ [ToolNext]_toolVars => ReadsAreFromServer'
<1> SUFFICES ASSUME ToolInv, [ToolNext]_toolVars, NEW d \in Calls,
                    reply'[d] = "ok", job'[d].kind = "read"
             PROVE  view'[d].add \subseteq (server[Doc(d)].add)'
  BY DEF ReadsAreFromServer
<1>0. ToolTypeOK /\ WriteTypeOK /\ CallInStep(d)
  BY DEF ToolInv, SerialInv, CallsInStep
<1>1. CASE reply[d] = "ok"
  <2>1. state[d] = "done" /\ job[d] \in Jobs
    BY <1>0, <1>1 DEF CallInStep, WriteTypeOK
  <2>2. job'[d] = job[d] /\ view'[d] = view[d] /\ Doc(d) \in Docs
    BY <2>1, FinishedStand DEF Doc, Jobs
  <2>3. view[d].add \subseteq server[Doc(d)].add
    BY <1>1, <2>2 DEF ToolInv, ReadsAreFromServer
  <2> QED
    BY <2>2, <2>3, ServerGrows DEF Doc
<1>2. CASE reply[d] # "ok"
  <2>1. ToolStep(d)
    BY <1>2, OthersStand DEF ToolNext, OutsideEdit, Idle, toolVars, tool
  <2>2. FinishRead(d)
    BY <1>0, <1>2, <2>1 DEF ToolTypeOK, CallInStep, WriteTypeOK, ToolStep, Invoke, QueueRefuses, LoadRegistry, CheckRevision,
       SkipCheck, HandlerLoads, HandlerPushes, Fails, Acknowledged, AckTimeout, ServerApplies, PushLost,
       Answer, Goto, Inside, tool
  <2>3. /\ view'[d] = documentRevision(server[Doc(d)], view[d].reg)
        /\ job' = job /\ server' = server
    BY <1>0, <2>2 DEF FinishRead, ToolTypeOK
  <2> QED
    BY <2>3 DEF documentRevision, Doc
<1> QED
  BY <1>1, <1>2

(* Whoever has loaded the registry has seen the deletions before it. *)
LEMMA DeletionsStaySeen == ToolInv /\ [ToolNext]_toolVars => DeletionsAreSeen'
<1> SUFFICES ASSUME ToolInv, [ToolNext]_toolVars, NEW w \in Calls, NEW c \in Calls,
                    Deleted(w, c)', step'[c] = "registry"
             PROVE  ~view'[c].reg
  BY DEF DeletionsAreSeen
<1>0. ToolTypeOK /\ WriteTypeOK /\ CallInStep(c)
  BY DEF ToolInv, SerialInv, CallsInStep
<1>1. CASE step[c] = "registry"
  <2>1. state[c] \in {"writing", "done"}
    BY <1>0, <1>1 DEF CallInStep, WriteTypeOK
  <2>2. ~view[c].reg
    BY <1>1, <2>1, DeletedStands DEF ToolInv, DeletionsAreSeen
  <2>3. ASSUME ToolStep(c) PROVE view'[c] = view[c]
    BY <1>0, <1>1, <2>3 DEF ToolTypeOK, ToolStep, Invoke, QueueRefuses, LoadRegistry, CheckRevision,
       FinishRead, SkipCheck, HandlerLoads, HandlerPushes, Fails, Acknowledged, AckTimeout,
       ServerApplies, PushLost, Goto, tool
  <2>4. view'[c] = view[c]
    BY <2>3, OthersStand DEF ToolNext, OutsideEdit, Idle, toolVars, tool
  <2> QED
    BY <2>2, <2>4
<1>2. CASE step[c] # "registry"
  <2>1. ToolStep(c)
    BY <1>2, OthersStand DEF ToolNext, OutsideEdit, Idle, toolVars, tool
  <2>2. LoadRegistry(c)
    BY <1>0, <1>2, <2>1 DEF ToolTypeOK, ToolStep, Invoke, QueueRefuses, CheckRevision, FinishRead,
       SkipCheck, HandlerLoads, HandlerPushes, Fails, Acknowledged, AckTimeout, ServerApplies, PushLost,
       Goto, tool
  <2>3. ~server[Doc(c)].reg
    BY <2>2, DeletedStands DEF LoadRegistry, Inside
  <2>4. view'[c].reg = server[Doc(c)].reg
    BY <1>0, <2>2 DEF LoadRegistry, ToolTypeOK, Revision
  <2> QED
    BY <2>3, <2>4
<1> QED
  BY <1>1, <1>2

(* No guarded edit gets past its check with a token from before a deletion. *)
LEMMA TokensStayRetired == ToolInv /\ [ToolNext]_toolVars => TokensAreRetired'
<1> SUFFICES ASSUME ToolInv, [ToolNext]_toolVars, NEW w \in Calls, NEW c \in Calls,
                    Deleted(w, c)', Guarded(c)', job'[c].expected.reg,
                    step'[c] \in {"handler", "loaded", "pushed"} \/ c \in inflight'
             PROVE  FALSE
  BY DEF TokensAreRetired
<1>0. ToolTypeOK /\ WriteTypeOK /\ CallInStep(c)
  BY DEF ToolInv, SerialInv, CallsInStep
<1>1. CASE step[c] \in {"handler", "loaded", "pushed"} \/ c \in inflight
  <2>1. state[c] \in {"writing", "done"}
    BY <1>0, <1>1 DEF CallInStep, WriteTypeOK
  <2>2. job'[c] = job[c]
    BY <2>1, JobsStand
  <2> QED
    BY <1>1, <2>1, <2>2, DeletedStands DEF Guarded, ToolInv, TokensAreRetired
<1>2. CASE step[c] \notin {"handler", "loaded", "pushed"} /\ c \notin inflight
  <2>1. ToolStep(c)
    BY <1>2, OthersStand DEF ToolNext, OutsideEdit, Idle, toolVars, tool, world
  <2>2. CheckRevision(c) \/ SkipCheck(c)
    BY <1>0, <1>2, <2>1 DEF ToolTypeOK, ToolStep, Invoke, QueueRefuses, LoadRegistry, FinishRead,
       HandlerLoads, HandlerPushes, Fails, Acknowledged, AckTimeout, ServerApplies, PushLost,
       Goto, tool, world
  <2>3. job' = job /\ state[c] = "writing"
    BY <2>2 DEF CheckRevision, SkipCheck, Inside
  <2>4. CASE CheckRevision(c)
    <3>1. step[c] = "registry"
      BY <2>4 DEF CheckRevision, Goto
    <3>2. ~view[c].reg
      BY <2>3, <3>1, DeletedStands DEF ToolInv, DeletionsAreSeen
    <3>3. documentRevision(server[Doc(c)], view[c].reg) # job[c].expected
      BY <2>3, <3>2 DEF documentRevision
    <3>4. step'[c] = "end" /\ inflight' = inflight
      BY <1>0, <2>4, <3>3 DEF CheckRevision, Goto, ToolTypeOK, world
    <3> QED
      BY <1>2, <3>4
  <2>5. CASE SkipCheck(c)
    BY <1>0, <2>3, <2>5 DEF SkipCheck, Guarded, ToolTypeOK
  <2> QED
    BY <2>2, <2>4, <2>5
<1> QED
  BY <1>1, <1>2

-----------------------------------------------------------------------------
(* An outsider stays one. *)
LEMMA OutsidersStand == ToolInv /\ [ToolNext]_toolVars => Outsiders \subseteq Outsiders'
<1> SUFFICES ASSUME ToolInv, [ToolNext]_toolVars, NEW w \in Calls, reply[w] = "unconfirmed"
             PROVE  reply'[w] = "unconfirmed"
  BY DEF Outsiders
<1>1. state[w] = "done"
  BY DEF ToolInv, SerialInv, WriteTypeOK, CallsInStep, CallInStep
<1> QED
  BY <1>1, FinishedStand

(* What the server may do to the document under a guarded edit. *)
BaseKept(c) ==
  LET now == server[Doc(c)]
      base == job[c].expected
  IN /\ now.add \ base.add \subseteq Outsiders \cup {c}
     /\ base.add \subseteq now.add
     /\ now.del # base.del =>
          \/ c \in now.add
          \/ \E w \in now.add \cap Outsiders : w \in Calls

(* Between check and push only outsiders touch the document: whoever else  *)
(* writes to it is in the queue of the same workspace.                     *)
LEMMA BaseStays ==
  ASSUME ToolInv, [ToolNext]_toolVars, NEW c \in Calls, state[c] = "writing", BaseKept(c)
  PROVE  BaseKept(c)'
<1>0. /\ ToolTypeOK /\ job[c] \in Jobs /\ job'[c] = job[c] /\ Doc(c) \in Docs
      /\ where[c] = HomeOf[Doc(c)] /\ Outsiders \subseteq Outsiders'
  BY JobsStand, OutsidersStand DEF ToolInv, CallsInStep, CallInStep, Doc, Jobs
<1>1. Doc(c)' = Doc(c)
  BY <1>0 DEF Doc
<1> DEFINE now == server[Doc(c)]
           new == server'[Doc(c)]
           base == job[c].expected
<1>2. now \in Revision
  BY <1>0 DEF ToolTypeOK
<1>3. CASE server' = server
  BY <1>0, <1>1, <1>3 DEF BaseKept
<1>4. ASSUME NEW x \in Docs, OutsideEdit(x) PROVE BaseKept(c)'
  <2>1. new.del = now.del /\ now.add \subseteq new.add /\ new.add \ now.add \subseteq Edits
    BY <1>0, <1>2, <1>4 DEF OutsideEdit, ToolTypeOK, Revision
  <2>2. Edits \subseteq Outsiders'
    BY DEF Outsiders
  <2> HIDE DEF now, new, base
  <2>3. BaseKept(c)' = (/\ new.add \ base.add \subseteq Outsiders' \cup {c}
                        /\ base.add \subseteq new.add
                        /\ new.del # base.del =>
                             \/ c \in new.add
                             \/ \E w \in new.add \cap Outsiders' : w \in Calls)
    BY <1>0, <1>1 DEF BaseKept, new, base
  <2>4. /\ now.add \ base.add \subseteq Outsiders \cup {c}
        /\ base.add \subseteq now.add
        /\ now.del # base.del =>
             \/ c \in now.add
             \/ \E w \in now.add \cap Outsiders : w \in Calls
    BY DEF BaseKept, now, base
  <2> QED
    BY <1>0, <2>1, <2>2, <2>3, <2>4
<1>5. ASSUME NEW w \in Calls, ServerApplies(w), Doc(w) = Doc(c) PROVE BaseKept(c)'
  <2>1. w = c \/ w \in Outsiders
    <3>1. CASE step[w] = "pushed"
      <4>1. state[w] = "writing"
        BY <3>1 DEF ToolInv, SerialInv, WriteTypeOK, CallsInStep, CallInStep
      <4>2. where[w] = where[c]
        BY <1>0, <1>5, <4>1 DEF ToolInv, CallsInStep, CallInStep
      <4> QED
        BY <4>1, <4>2 DEF ToolInv, SerialInv, OneWriter
    <3>2. CASE reply[w] = "unconfirmed"
      BY <3>2 DEF Outsiders
    <3> QED
      BY <1>5, <3>1, <3>2 DEF ServerApplies, ToolInv, CallsInStep, CallInStep
  <2>2. new = Merged(now, w)
    BY <1>0, <1>5 DEF ServerApplies, ToolTypeOK
  <2>3. /\ now.add \subseteq new.add /\ new.add \subseteq now.add \cup {w}
        /\ new.del # now.del => w \in new.add
    BY <1>2, <2>2 DEF Merged, Revision
  <2> HIDE DEF now, new, base
  <2>4. BaseKept(c)' = (/\ new.add \ base.add \subseteq Outsiders' \cup {c}
                        /\ base.add \subseteq new.add
                        /\ new.del # base.del =>
                             \/ c \in new.add
                             \/ \E v \in new.add \cap Outsiders' : v \in Calls)
    BY <1>0, <1>1 DEF BaseKept, new, base
  <2>5. /\ now.add \ base.add \subseteq Outsiders \cup {c}
        /\ base.add \subseteq now.add
        /\ now.del # base.del =>
             \/ c \in now.add
             \/ \E v \in now.add \cap Outsiders : v \in Calls
    BY DEF BaseKept, now, base
  <2> QED
    BY <1>0, <2>1, <2>3, <2>4, <2>5
<1>6. ASSUME NEW w \in Calls, ServerApplies(w), Doc(w) # Doc(c) PROVE BaseKept(c)'
  <2>1. new = now
    BY <1>0, <1>6 DEF ServerApplies, ToolTypeOK
  <2> QED
    BY <1>0, <1>1, <2>1 DEF BaseKept
<1>7. \/ server' = server
      \/ \E w \in Calls : ServerApplies(w)
      \/ \E x \in Docs : OutsideEdit(x)
  BY DEF ToolNext, ToolStep, Invoke, QueueRefuses, LoadRegistry, CheckRevision, FinishRead,
     SkipCheck, HandlerLoads, HandlerPushes, Fails, Acknowledged, AckTimeout,
     PushLost, Idle, toolVars, world
<1> QED
  BY <1>3, <1>4, <1>5, <1>6, <1>7

(* Guarded edits keep their base from the comparison to the push. *)
LEMMA GuardedStaysOnBase == ToolInv /\ [ToolNext]_toolVars => GuardedEditKeepsItsBase'
<1> SUFFICES ASSUME ToolInv, [ToolNext]_toolVars, NEW c \in Calls, Guarded(c)', Inside(c)',
                    step'[c] \in {"handler", "loaded", "pushed"}
             PROVE  BaseKept(c)'
  BY DEF GuardedEditKeepsItsBase, BaseKept
<1>0. ToolTypeOK /\ WriteTypeOK /\ CallInStep(c)
  BY DEF ToolInv, SerialInv, CallsInStep
<1>1. CASE step[c] \in {"handler", "loaded", "pushed"}
  <2>1. state[c] = "writing"
    BY <1>0, <1>1 DEF CallInStep, WriteTypeOK
  <2>2. Guarded(c)
    BY <2>1, JobsStand DEF Guarded
  <2>3. BaseKept(c)
    BY <1>1, <2>1, <2>2 DEF ToolInv, GuardedEditKeepsItsBase, BaseKept, Inside
  <2> QED
    BY <2>1, <2>3, BaseStays
<1>2. CASE step[c] \notin {"handler", "loaded", "pushed"}
  <2>1. ToolStep(c)
    BY <1>2, OthersStand DEF ToolNext, OutsideEdit, Idle, toolVars, tool
  <2>2. CheckRevision(c) \/ SkipCheck(c)
    BY <1>0, <1>2, <2>1 DEF ToolTypeOK, ToolStep, Invoke, QueueRefuses, LoadRegistry, FinishRead,
       HandlerLoads, HandlerPushes, Fails, Acknowledged, AckTimeout, ServerApplies, PushLost,
       Goto, tool
  <2>3. CheckRevision(c)
    BY <2>2 DEF SkipCheck, Guarded
  <2>4. documentRevision(server[Doc(c)], view[c].reg) = job[c].expected
    BY <1>0, <1>2, <2>3 DEF CheckRevision, Goto, ToolTypeOK
  <2>5. job' = job /\ server' = server
    BY <2>3 DEF CheckRevision, world
  <2> QED
    BY <2>4, <2>5 DEF BaseKept, documentRevision, Doc
<1> QED
  BY <1>1, <1>2

(* Reads follow the order of the queue. *)
LEMMA ReadsStayInOrder == ToolInv /\ [ToolNext]_toolVars => ReadFollowsQueueOrder'
<1> SUFFICES ASSUME ToolInv, [ToolNext]_toolVars, NEW c \in Calls, NEW w \in Calls,
                    state'[c] = "done", reply'[c] = "ok", job'[c].kind = "read",
                    w # c, job'[w] # NoToken, Doc(w)' = Doc(c)'
             PROVE  /\ Before(w, c)' /\ reply'[w] = "ok" =>
                         IF job'[w].kind = "delete" THEN ~view'[c].reg
                         ELSE job'[w].kind = "read" \/ w \in view'[c].add
                    /\ Before(c, w)' => w \notin view'[c].add
  BY DEF ReadFollowsQueueOrder
<1>0. /\ ToolTypeOK /\ WriteTypeOK /\ CallInStep(c) /\ CallInStep(w) /\ SerialInv
      /\ ToolTypeOK'
  BY ToolTypesKept DEF ToolInv, SerialInv, CallsInStep
<1>1. job'[w] \in Jobs
  BY <1>0 DEF ToolTypeOK, Jobs
<1>2. CASE state[c] = "done"
  <2>1. job'[c] = job[c] /\ view'[c] = view[c] /\ reply'[c] = reply[c]
    BY <1>2, FinishedStand
  <2>2. ASSUME Before(w, c)', reply'[w] = "ok"
        PROVE  IF job'[w].kind = "delete" THEN ~view'[c].reg
               ELSE job'[w].kind = "read" \/ w \in view'[c].add
    <3>1. Before(w, c) /\ job'[w] = job[w] /\ reply'[w] = reply[w]
      BY <1>1, <1>2, <2>1, <2>2, EarlierAreAnswered DEF Doc
    <3> QED
      BY <1>2, <2>1, <2>2, <3>1 DEF ToolInv, ReadFollowsQueueOrder, Doc
  <2>3. ASSUME Before(c, w)' PROVE w \notin view'[c].add
    <3>1. CASE Before(c, w)
      <4>1. job'[w] = job[w]
        BY <1>0, <3>1, ArrivedAreKnown, JobsStand
      <4> QED
        BY <1>2, <2>1, <3>1, <4>1 DEF ToolInv, ReadFollowsQueueOrder, Doc
    <3>2. CASE ~Before(c, w)
      <4>1. state[w] = "new"
        BY <1>0, <2>3, <3>2, ToolStepsAreSerial, OrderStands
      <4>2. Doc(c) \in Docs
        BY <1>0, <1>2 DEF CallInStep, Doc, Jobs
      <4>3. w \notin server[Doc(c)].add
        BY <4>1, <4>2 DEF ToolInv, MarksAreServed
      <4>4. view[c].add \subseteq server[Doc(c)].add
        BY <2>1 DEF ToolInv, ReadsAreFromServer
      <4> QED
        BY <2>1, <4>3, <4>4
    <3> QED
      BY <3>1, <3>2
  <2> QED
    BY <2>2, <2>3
<1>3. CASE state[c] # "done"
  <2>1. ToolStep(c)
    BY <1>3, OthersStand DEF ToolNext, OutsideEdit, Idle, toolVars, vars
  <2>2. FinishRead(c)
    BY <1>0, <1>3, <2>1 DEF ToolTypeOK, CallInStep, WriteTypeOK, ToolStep, Invoke, QueueRefuses, LoadRegistry, CheckRevision,
       SkipCheck, HandlerLoads, HandlerPushes, Fails, Acknowledged, AckTimeout, ServerApplies, PushLost,
       Answer, Goto, Inside, Accept, Refuse, tool, vars
  <2>3. /\ state[c] = "writing" /\ step[c] = "registry" /\ job' = job /\ job[c] \in Jobs
        /\ view'[c] = documentRevision(server[Doc(c)], view[c].reg)
        /\ where[c] = HomeOf[Doc(c)] /\ Doc(c) \in Docs
    BY <1>0, <2>2 DEF FinishRead, Inside, Goto, ToolTypeOK, CallInStep, Doc, Jobs
  <2>4. view'[c].add = server[Doc(c)].add /\ view'[c].reg = view[c].reg
    BY <2>3 DEF documentRevision
  <2>5. ASSUME Before(w, c)', reply'[w] = "ok"
        PROVE  IF job'[w].kind = "delete" THEN ~view'[c].reg
               ELSE job'[w].kind = "read" \/ w \in view'[c].add
    <3>1. Before(w, c) /\ reply[w] = "ok"
      BY <1>1, <2>3, <2>5, EarlierAreAnswered DEF Doc
    <3>2. CASE job[w].kind = "delete"
      <4>1. Deleted(w, c)
        BY <1>1, <2>3, <3>1, <3>2 DEF Deleted, Doc
      <4> QED
        BY <2>3, <2>4, <3>2, <4>1 DEF ToolInv, DeletionsAreSeen
    <3>3. CASE job[w].kind # "delete" /\ job[w].kind # "read"
      BY <2>3, <2>4, <3>1, <3>3 DEF ToolInv, ConfirmedIsApplied, Applied, Doc
    <3> QED
      BY <2>3, <3>2, <3>3
  <2>6. ASSUME Before(c, w)', w \in server[Doc(c)].add PROVE FALSE
    <3>1. state[w] \in {"writing", "done"}
      BY <2>3, <2>6 DEF ToolInv, MarksAreServed
    <3>2. Before(c, w)
      BY <1>0, <2>6, <3>1, ToolStepsAreSerial, OrderStands
    <3>3. where[w] = where[c]
      BY <1>0, <2>3, <3>1 DEF CallInStep, Doc
    <3> QED
      BY <1>0, <2>3, <3>1, <3>2, <3>3 DEF SerialInv, NobodyOvertakes
  <2> QED
    BY <2>4, <2>5, <2>6
<1> QED
  BY <1>2, <1>3

-----------------------------------------------------------------------------
(* Every step keeps the invariant. *)
LEMMA NextKeepsTool == ToolInv /\ [ToolNext]_toolVars => ToolInv'
<1> SUFFICES ASSUME ToolInv, [ToolNext]_toolVars PROVE ToolInv'
  OBVIOUS
<1>1. SerialInv'
  BY ToolStepsAreSerial, NextKeepsSerial DEF ToolInv
<1> QED
  BY <1>1, ToolTypesKept, CallsStayInStep, ConfirmationsStayTrue, MarksStayServed,
     ReadsStayFromServer, DeletionsStaySeen, TokensStayRetired, GuardedStaysOnBase,
     ReadsStayInOrder DEF ToolInv

(* The invariant of coordinated tool calls holds in every reachable state. *)
THEOREM ToolSafety == ToolSpec => []ToolInv
BY InitTool, NextKeepsTool, PTL DEF ToolSpec

(* An edit made with expectedRevision is applied to the document its       *)
(* author read, whatever calls, timeouts and late pushes surround it.      *)
THEOREM GuardedEditsAreOnBase == ToolSpec => []GuardedEditKeepsItsBase
<1>1. ToolInv => GuardedEditKeepsItsBase
  BY DEF ToolInv
<1> QED
  BY <1>1, ToolSafety, PTL

(* read_doc returns the acknowledged writes before it and no later ones.   *)
THEOREM ReadsAreInOrder == ToolSpec => []ReadFollowsQueueOrder
<1>1. ToolInv => ReadFollowsQueueOrder
  BY DEF ToolInv
<1> QED
  BY <1>1, ToolSafety, PTL

(* A deletion retires the revisions handed out before it.                  *)
THEOREM DeletionsRetire == ToolSpec => []DeletionRetiresTokens
<1>1. ToolInv => DeletionRetiresTokens
  <2> SUFFICES ASSUME ToolInv, NEW w \in Calls, NEW c \in Calls, job[w] # NoToken, Guarded(c),
                      Doc(w) = Doc(c), job[w].kind = "delete", reply[w] = "ok", Before(w, c),
                      job[c].expected.reg
               PROVE  step[c] # "pushed" /\ c \notin inflight
    BY DEF DeletionRetiresTokens
  <2>1. Deleted(w, c)
    BY DEF Deleted, Jobs, Guarded, ToolInv, ToolTypeOK
  <2> QED
    BY <2>1 DEF ToolInv, TokensAreRetired
<1> QED
  BY <1>1, ToolSafety, PTL

=============================================================================
