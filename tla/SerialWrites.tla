----------------------------- MODULE SerialWrites -----------------------------
(***************************************************************************)
(* What the write queue promises its callers, without queues or timers:    *)
(* per scope, accepted writes run one at a time and in the order they were *)
(* accepted; a write may be refused, but only before it starts.            *)
(***************************************************************************)
EXTENDS Naturals, Sequences

CONSTANTS Calls, Scopes, NoScope

VARIABLES
  arrivals,   \* the accepted calls, oldest first
  where,      \* where[c]: the scope of an accepted call
  state       \* state[c]: "new", "waiting", "writing", "done" or "refused"

vars == <<arrivals, where, state>>

Init ==
  /\ arrivals = <<>>
  /\ where = [c \in Calls |-> NoScope]
  /\ state = [c \in Calls |-> "new"]

Of(s, st) == {c \in Calls : where[c] = s /\ state[c] = st}

Accept(c, s) ==
  /\ state[c] = "new"
  /\ arrivals' = Append(arrivals, c)
  /\ where' = [where EXCEPT ![c] = s]
  /\ state' = [state EXCEPT ![c] = IF Of(s, "writing") = {} THEN "writing" ELSE "waiting"]

Refuse(c) ==
  /\ state[c] \in {"new", "waiting"}
  /\ state' = [state EXCEPT ![c] = "refused"]
  /\ where' = [where EXCEPT ![c] = NoScope]
  /\ UNCHANGED arrivals

(* d waits on the same scope as c and nobody who waits there came before d. *)
Successor(c, d) ==
  /\ d \in Of(where[c], "waiting")
  /\ \A i, j \in DOMAIN arrivals :
       arrivals[i] \in Of(where[c], "waiting") /\ arrivals[j] = d => j <= i

Complete(c) ==
  /\ state[c] = "writing"
  /\ \/ /\ Of(where[c], "waiting") = {}
        /\ state' = [state EXCEPT ![c] = "done"]
     \/ \E d \in Calls :
          /\ Successor(c, d)
          /\ state' = [state EXCEPT ![c] = "done", ![d] = "writing"]
  /\ UNCHANGED <<arrivals, where>>

Next == \E c \in Calls : Refuse(c) \/ Complete(c) \/ \E s \in Scopes : Accept(c, s)

Spec == Init /\ [][Next]_vars

(* c was accepted before d. *)
Before(c, d) ==
  \E i, j \in DOMAIN arrivals : i < j /\ arrivals[i] = c /\ arrivals[j] = d
=============================================================================
