--------------------------- MODULE WriteCoordinator ---------------------------
(***************************************************************************)
(* The per-workspace write queue of src/util/writeCoordinator.ts.          *)
(*                                                                         *)
(* A call of run(scope, operation, signal) starts its operation at once    *)
(* when nothing of its scope is active, and otherwise waits in a bounded   *)
(* FIFO queue until it is started, aborted, or has waited too long.        *)
(*                                                                         *)
(* Every synchronous stretch of JavaScript is one action: the only points  *)
(* where another call, an abort or a timer can get in are the event-loop   *)
(* turns between Run, Return and Release.                                  *)
(***************************************************************************)
EXTENDS Naturals, Sequences, SequencesExt

CONSTANTS Calls,       \* identities of run() calls, one per call
          Scopes,      \* non-blank scope strings
          Signalled,   \* the calls made with an AbortSignal
          NoScope,     \* a call that has not named a valid scope
          MaxPending   \* maxPendingPerScope, a positive safe integer

ASSUME CoordinatorAssumption ==
  /\ MaxPending \in Nat \ {0}
  /\ Signalled \subseteq Calls
  /\ NoScope \notin Scopes

Refusals == {"ABORTED", "TIMEOUT", "FULL", "INVALID"}
Results  == {"value", "error"}            \* how an operation's promise settles
Phases   == {"idle", "waiting", "running", "returned", "settled"}

VARIABLES
  known,      \* keys of the scopes Map
  active,     \* active[s]: ScopeState.active
  queue,      \* queue[s]: ScopeState.queue, the calls by arrival
  timers,     \* calls whose maximum-wait timer is armed
  listeners,  \* calls whose abort listener is registered
  signal,     \* signal[c]: the caller's AbortSignal: "none", "live" or "aborted"
  scopeOf,    \* scopeOf[c]: the scope argument of the call
  phase,      \* phase[c]: where the call is; "settled" once its promise is
  outcome     \* outcome[c]: what its promise (or its operation's) settled with

coordinator == <<known, active, queue, timers, listeners>>
calls       == <<signal, scopeOf, phase, outcome>>
vars        == <<known, active, queue, timers, listeners,
                 signal, scopeOf, phase, outcome>>

Init ==
  /\ known = {}
  /\ active = [s \in Scopes |-> FALSE]
  /\ queue = [s \in Scopes |-> <<>>]
  /\ timers = {}
  /\ listeners = {}
  /\ signal = [c \in Calls |-> IF c \in Signalled THEN "live" ELSE "none"]
  /\ scopeOf = [c \in Calls |-> NoScope]
  /\ phase = [c \in Calls |-> "idle"]
  /\ outcome = [c \in Calls |-> "none"]

-----------------------------------------------------------------------------
(* queueError / Promise.reject: the call's promise rejects with a code.    *)
Reject(c, code) ==
  /\ phase' = [phase EXCEPT ![c] = "settled"]
  /\ outcome' = [outcome EXCEPT ![c] = code]

(* run() refuses a call before it touches the scopes Map. *)
RunInvalid(c) ==
  /\ phase[c] = "idle"
  /\ Reject(c, "INVALID")
  /\ UNCHANGED <<coordinator, signal, scopeOf>>

RunAborted(c, s) ==
  /\ phase[c] = "idle"
  /\ signal[c] = "aborted"
  /\ scopeOf' = [scopeOf EXCEPT ![c] = s]
  /\ Reject(c, "ABORTED")
  /\ UNCHANGED <<coordinator, signal>>

(* Mutant: an empty queue is taken for an idle scope. *)
RunNowQueueEmpty(c, s) ==
  /\ phase[c] = "idle"
  /\ signal[c] # "aborted"
  /\ queue[s] = <<>>
  /\ known' = known \cup {s}
  /\ active' = [active EXCEPT ![s] = TRUE]
  /\ scopeOf' = [scopeOf EXCEPT ![c] = s]
  /\ phase' = [phase EXCEPT ![c] = "running"]
  /\ UNCHANGED <<queue, timers, listeners, signal, outcome>>

(* run() finds or creates the scope's state; nothing active: execute. *)
RunNow(c, s) ==
  /\ phase[c] = "idle"
  /\ signal[c] # "aborted"
  /\ ~active[s]
  /\ known' = known \cup {s}
  /\ active' = [active EXCEPT ![s] = TRUE]
  /\ scopeOf' = [scopeOf EXCEPT ![c] = s]
  /\ phase' = [phase EXCEPT ![c] = "running"]
  /\ UNCHANGED <<queue, timers, listeners, signal, outcome>>

RunFull(c, s) ==
  /\ phase[c] = "idle"
  /\ signal[c] # "aborted"
  /\ active[s]
  /\ Len(queue[s]) >= MaxPending
  /\ scopeOf' = [scopeOf EXCEPT ![c] = s]
  /\ Reject(c, "FULL")
  /\ UNCHANGED <<coordinator, signal>>

(* Mutant: no maximum-wait timer is armed. *)
RunQueuedUntimed(c, s) ==
  /\ phase[c] = "idle"
  /\ signal[c] # "aborted"
  /\ active[s]
  /\ Len(queue[s]) < MaxPending
  /\ queue' = [queue EXCEPT ![s] = Append(@, c)]
  /\ listeners' = IF signal[c] = "live" THEN listeners \cup {c} ELSE listeners
  /\ scopeOf' = [scopeOf EXCEPT ![c] = s]
  /\ phase' = [phase EXCEPT ![c] = "waiting"]
  /\ UNCHANGED <<known, active, timers, signal, outcome>>

RunQueued(c, s) ==
  /\ phase[c] = "idle"
  /\ signal[c] # "aborted"
  /\ active[s]
  /\ Len(queue[s]) < MaxPending
  /\ queue' = [queue EXCEPT ![s] = Append(@, c)]
  /\ timers' = timers \cup {c}
  /\ listeners' = IF signal[c] = "live" THEN listeners \cup {c} ELSE listeners
  /\ scopeOf' = [scopeOf EXCEPT ![c] = s]
  /\ phase' = [phase EXCEPT ![c] = "waiting"]
  /\ UNCHANGED <<known, active, signal, outcome>>

(* The operation's promise settles; the finally block has not run yet. *)
Return(c) ==
  /\ phase[c] = "running"
  /\ \E r \in Results : outcome' = [outcome EXCEPT ![c] = r]
  /\ phase' = [phase EXCEPT ![c] = "returned"]
  /\ UNCHANGED <<coordinator, signal, scopeOf>>

-----------------------------------------------------------------------------
(* clearWait: disarm the timer, remove the listener. *)
ClearWait(c) ==
  /\ timers' = timers \ {c}
  /\ listeners' = listeners \ {c}

(* Mutant: the scope's state is dropped although calls still wait. *)
StartNextDrops(c, s) ==
  /\ active' = [active EXCEPT ![s] = FALSE]
  /\ known' = known \ {s}
  /\ phase' = [phase EXCEPT ![c] = "settled"]
  /\ UNCHANGED <<queue, timers, listeners>>

(* Mutant: the newest waiter is served first (pop instead of shift). *)
StartNextPops(c, s) ==
  IF queue[s] # <<>>
  THEN LET entry == Last(queue[s]) IN
       /\ queue' = [queue EXCEPT ![s] = Front(@)]
       /\ ClearWait(entry)
       /\ phase' = [phase EXCEPT ![c] = "settled", ![entry] = "running"]
       /\ UNCHANGED <<known, active>>
  ELSE StartNextDrops(c, s)

(* startNext after c: the head of the queue takes over, or the state is dropped. *)
StartNext(c, s) ==
  IF queue[s] # <<>>
  THEN LET entry == Head(queue[s]) IN
       /\ queue' = [queue EXCEPT ![s] = Tail(@)]
       /\ ClearWait(entry)
       /\ phase' = [phase EXCEPT ![c] = "settled", ![entry] = "running"]
       /\ UNCHANGED <<known, active>>
  ELSE /\ active' = [active EXCEPT ![s] = FALSE]
       /\ known' = known \ {s}
       /\ phase' = [phase EXCEPT ![c] = "settled"]
       /\ UNCHANGED <<queue, timers, listeners>>

(* The finally block of execute and of executeQueued. *)
Release(c) ==
  /\ phase[c] = "returned"
  /\ StartNext(c, scopeOf[c])
  /\ UNCHANGED <<signal, scopeOf, outcome>>

(* removeQueued: only an entry that is still queued is taken out and rejected. *)
RemoveQueued(c, code) ==
  LET s == scopeOf[c] IN
  IF s \in Scopes /\ Contains(queue[s], c)
  THEN /\ \E i \in DOMAIN queue[s] :
            /\ queue[s][i] = c
            /\ queue' = [queue EXCEPT ![s] = RemoveAt(@, i)]
       /\ ClearWait(c)
       /\ Reject(c, code)
       /\ UNCHANGED <<known, active, scopeOf>>
  ELSE UNCHANGED <<coordinator, scopeOf, phase, outcome>>

(* The maximum-wait timer of c fires. *)
WaitExpires(c) ==
  /\ c \in timers
  /\ RemoveQueued(c, "TIMEOUT")
  /\ UNCHANGED signal

(* The caller aborts, at any moment; only a registered listener hears of it. *)
Abort(c) ==
  /\ signal[c] = "live"
  /\ signal' = [signal EXCEPT ![c] = "aborted"]
  /\ IF c \in listeners
     THEN RemoveQueued(c, "ABORTED")
     ELSE UNCHANGED <<coordinator, scopeOf, phase, outcome>>

Run(c) ==
  \/ RunInvalid(c)
  \/ \E s \in Scopes : RunAborted(c, s)
  \/ \E s \in Scopes : RunNow(c, s)
  \/ \E s \in Scopes : RunFull(c, s)
  \/ \E s \in Scopes : RunQueued(c, s)

Step(c) == Run(c) \/ Return(c) \/ Release(c) \/ WaitExpires(c) \/ Abort(c)

(* The finite set of calls is used up: the only state the model stops in. *)
Quiescent == (\A c \in Calls : phase[c] = "settled") /\ UNCHANGED vars

Next == (\E c \in Calls : Step(c)) \/ Quiescent

Spec == Init /\ [][Next]_vars

(* The event loop runs continuations and due timers; it promises nothing   *)
(* about an operation that awaits the network.                             *)
LoopFairness ==
  \A c \in Calls : WF_vars(Release(c)) /\ WF_vars(WaitExpires(c))

FairSpec == Spec /\ LoopFairness

-----------------------------------------------------------------------------
TypeOK ==
  /\ known \subseteq Scopes
  /\ active \in [Scopes -> BOOLEAN]
  /\ queue \in [Scopes -> Seq(Calls)]
  /\ timers \subseteq Calls
  /\ listeners \subseteq Calls
  /\ signal \in [Calls -> {"none", "live", "aborted"}]
  /\ scopeOf \in [Calls -> Scopes \cup {NoScope}]
  /\ phase \in [Calls -> Phases]
  /\ outcome \in [Calls -> Refusals \cup Results \cup {"none"}]

Holding(c, s) == phase[c] \in {"running", "returned"} /\ scopeOf[c] = s

(* At most one call of a scope is between the start of its operation and   *)
(* the release of the scope: the read/validate/mutate/push sequences of    *)
(* one workspace never overlap, whatever aborts and timers do.             *)
MutualExclusion ==
  \A s \in Scopes : \A c, d \in Calls :
    Holding(c, s) /\ Holding(d, s) => c = d

(* A call waits only behind a holder that will hand over: no interleaving  *)
(* of abort, timeout and startNext strands the queue of an idle scope, and *)
(* the queue holds exactly the calls that wait, each once.                 *)
NoStrandedWaiter ==
  \A s \in Scopes :
    /\ queue[s] # <<>> => \E c \in Calls : Holding(c, s)
    /\ \A c \in Calls :
         (phase[c] = "waiting" /\ scopeOf[c] = s) <=> Contains(queue[s], c)
    /\ IsInjective(queue[s])

(* The Map keeps a state exactly for the scopes with a holder, whose state *)
(* is active: nothing leaks, and no second state is made for a busy scope. *)
NoScopeLeak ==
  \A s \in Scopes :
    /\ s \in known <=> \E c \in Calls : Holding(c, s)
    /\ active[s] <=> s \in known

(* Timers and abort listeners belong to waiting calls only: a call that    *)
(* has started or settled is out of reach of both.                         *)
WaitBookkeeping ==
  /\ timers = {c \in Calls : phase[c] = "waiting"}
  /\ listeners = {c \in timers : signal[c] = "live"}

(* The queue never outgrows maxPendingPerScope. *)
BoundedQueue == \A s \in Scopes : Len(queue[s]) <= MaxPending

(* A caller told that its write was refused is never contradicted: the     *)
(* operation does not run afterwards and the answer does not change.       *)
DecisionIsFinal ==
  [][\A c \in Calls : phase[c] = "settled" =>
       phase'[c] = "settled" /\ outcome'[c] = outcome[c]]_vars

(* Once started an operation ends with its own result: no abort or timer   *)
(* that races its start turns it into a queue error.                       *)
StartedRunsToItsEnd ==
  [][\A c \in Calls : phase[c] \in {"running", "returned"} =>
       \/ phase'[c] = phase[c]
       \/ outcome'[c] \in Results]_vars

(* However long the holder hangs, a waiting call leaves the queue: its     *)
(* maximum-wait timer bounds the wait.                                     *)
WaiterLeavesQueue ==
  \A c \in Calls : phase[c] = "waiting" ~> phase[c] # "waiting"
=============================================================================
