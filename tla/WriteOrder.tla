------------------------------ MODULE WriteOrder ------------------------------
(***************************************************************************)
(* WriteCoordinator with a history of the calls it accepted, so that its   *)
(* order of service can be compared with the order of arrival: the queue   *)
(* implements SerialWrites.                                                *)
(***************************************************************************)
EXTENDS WriteCoordinator

VARIABLE arrivals   \* history: calls that run() started or queued, oldest first

orderVars == <<vars, arrivals>>

Accepted(c) == phase[c] = "idle" /\ phase'[c] \in {"running", "waiting"}

OrderInit == Init /\ arrivals = <<>>

Record(c) == arrivals' = IF Accepted(c) THEN Append(arrivals, c) ELSE arrivals

OrderNext ==
  \/ \E c \in Calls : Step(c) /\ Record(c)
  \/ Quiescent /\ UNCHANGED arrivals

OrderSpec ==
  /\ OrderInit
  /\ [][OrderNext]_orderVars
  /\ \A c \in Calls : /\ WF_orderVars(Release(c) /\ Record(c))
                      /\ WF_orderVars(WaitExpires(c) /\ Record(c))

-----------------------------------------------------------------------------
(* The refinement mapping. *)
AbstractStateOf(c) ==
  CASE phase[c] = "idle" -> "new"
    [] phase[c] = "waiting" -> "waiting"
    [] phase[c] \in {"running", "returned"} -> "writing"
    [] phase[c] = "settled" -> IF outcome[c] \in Results THEN "done" ELSE "refused"

AbstractState == [c \in Calls |-> AbstractStateOf(c)]

AbstractWhere ==
  [c \in Calls |-> IF AbstractState[c] \in {"waiting", "writing", "done"}
                   THEN scopeOf[c] ELSE NoScope]

Promise == INSTANCE SerialWrites WITH state <- AbstractState, where <- AbstractWhere

(* The coordinator implements SerialWrites: whatever aborts, timeouts and  *)
(* full queues remove calls from the middle of the line, the calls that    *)
(* remain are served one at a time and in arrival order.                   *)
ServesInArrivalOrder == Promise!Spec
=============================================================================
