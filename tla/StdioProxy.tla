------------------------------ MODULE StdioProxy ------------------------------
(***************************************************************************)
(* The stdio bridge, src/stdioHttpProxy.ts: JSON-RPC requests of one local *)
(* client, forwarded one after the other to an HTTP listener.  When the    *)
(* listener no longer knows the session, the proxy opens a new one and     *)
(* sends the rejected message again.                                       *)
(*                                                                         *)
(* The listener and the network are the environment: an exchange may be    *)
(* served after the proxy gave up on it, or never, and sessions vanish     *)
(* (idle sweep, restart) at any time.                                      *)
(***************************************************************************)
EXTENDS Naturals, Sequences

CONSTANTS
  Lines,      \* bound: how many requests the client writes
  MaxOpened   \* bound: how many sessions the listener opens before it refuses

ASSUME ProxyAssumption == Lines \in Nat /\ MaxOpened \in Nat

Requests == 1 .. Lines        \* in the order of their lines on stdin
NoSession == 0                \* undefined
Reply(status, session) == [status |-> status, session |-> session]
Nothing == Reply("none", NoSession)   \* no response yet

VARIABLES
  kind,        \* kind[m]: the method of a request, chosen when it is read
  sessionId, initializeMessage, closing,   \* fields of the proxy
  queue,       \* requests chained on the promise queue; the head is in forwardOne
  pc,          \* the exchange awaited: "post", "reinit", "reinited", "delete"
  recover,     \* forwardOne's parameter, for the head
  response,    \* what came back of the awaited exchange
  answers,     \* what the client has been told, in the order written
  wire,        \* exchanges the listener may still serve
  opened,      \* opened[s]: the exchange that opened session s
  live,        \* sessions the listener knows
  ready,       \* ... and that have been sent notifications/initialized
  dispatched   \* dispatched[m]: how often the listener ran m

client == <<kind, answers>>
proxy == <<sessionId, initializeMessage, closing, queue, pc, recover>>
listener == <<opened, live, ready, dispatched>>
vars == <<client, proxy, response, wire, listener>>

Init ==
  /\ kind = <<>> /\ answers = <<>>
  /\ sessionId = NoSession /\ initializeMessage = FALSE /\ closing = FALSE
  /\ queue = <<>> /\ pc = "idle" /\ recover = TRUE
  /\ response = Nothing /\ wire = {}
  /\ opened = <<>> /\ live = {} /\ ready = {}
  /\ dispatched = [m \in Requests |-> 0]

Answer(m, said) == answers' = Append(answers, [request |-> m, said |-> said])

(* fetchWithTimeout: what = the place the exchange is awaited at. *)
Exchange(what, session) ==
  /\ pc' = what
  /\ response' = Nothing
  /\ wire' = wire \cup
       {[what |-> what, session |-> session,
         request |-> IF queue = <<>> THEN 0 ELSE Head(queue)]}

-----------------------------------------------------------------------------
(* forward(): a line of stdin. *)
Forward ==
  /\ pc # "exited" /\ Len(kind) < Lines
  /\ \E k \in {"initialize", "call"} : kind' = Append(kind, k)
  /\ IF closing
     THEN Answer(Len(kind'), "closing") /\ UNCHANGED queue
     ELSE queue' = Append(queue, Len(kind')) /\ UNCHANGED answers
  /\ UNCHANGED <<sessionId, initializeMessage, closing, pc, recover, response, wire, listener>>

IsInitialize == kind[Head(queue)] = "initialize"

(* forwardOne is over for the head: the next message may start. *)
Done(said) ==
  /\ Answer(Head(queue), said)
  /\ queue' = Tail(queue)
  /\ pc' = "idle"
  /\ response' = Nothing

Starting == pc = "idle" /\ queue # <<>>

AlreadyInitialized ==
  /\ Starting /\ IsInitialize /\ sessionId # NoSession
  /\ Done("refused")
  /\ UNCHANGED <<kind, sessionId, initializeMessage, closing, recover, wire, listener>>

ForwardOne ==
  /\ Starting /\ (IsInitialize <=> sessionId = NoSession)
  /\ Exchange("post", sessionId)
  /\ recover' = TRUE
  /\ UNCHANGED <<client, sessionId, initializeMessage, closing, queue, listener>>

(* restoreSession(): forget the session, initialize again, or give up. *)
RestoreSession ==
  /\ sessionId' = NoSession
  /\ IF initializeMessage
     THEN Exchange("reinit", NoSession) /\ UNCHANGED <<answers, queue>>
     ELSE Done("refused") /\ UNCHANGED wire
  /\ UNCHANGED <<kind, initializeMessage, closing, listener>>

ForwardWithoutSession ==
  /\ Starting /\ ~IsInitialize /\ sessionId = NoSession
  /\ RestoreSession
  /\ recover' = TRUE

-----------------------------------------------------------------------------
SessionMissing == pc = "post" /\ response.status = "unknown" /\ ~IsInitialize

(* Mutant: a failed exchange is repeated like a rejected one. *)
RecoverAnyFailure ==
  /\ pc = "post" /\ response.status \in {"unknown", "failed"} /\ ~IsInitialize /\ recover
  /\ RestoreSession
  /\ recover' = FALSE

Recover ==
  /\ SessionMissing /\ recover
  /\ RestoreSession
  /\ recover' = FALSE

(* Any other status is an error.  A second rejection says that the message *)
(* was not run; the rest says nothing about it.                            *)
PostFails ==
  /\ pc = "post"
  /\ \/ response.status = "failed" /\ Done("ambiguous")
     \/ response.status = "unknown" /\ (IsInitialize \/ ~recover) /\ Done("refused")
  /\ UNCHANGED <<kind, sessionId, initializeMessage, closing, recover, wire, listener>>

(* The response body holds the answer, or nothing: a stream the listener   *)
(* closed early is an empty list of messages.                              *)
PostSucceeds ==
  /\ pc = "post" /\ response.status \in {"ok", "empty"} /\ ~IsInitialize
  /\ Done(response.status)
  /\ UNCHANGED <<kind, sessionId, initializeMessage, closing, recover, wire, listener>>

Initialized ==
  /\ pc \in {"post", "reinit"} /\ response.status = "opened"
  /\ sessionId' = response.session
  /\ initializeMessage' = TRUE

ClientInitialized ==
  /\ pc = "post" /\ Initialized
  /\ Done("ok")
  /\ UNCHANGED <<kind, closing, recover, wire, listener>>

(* Recovery goes on with notifications/initialized, ... *)
Reinitialized ==
  /\ pc = "reinit" /\ Initialized
  /\ Exchange("reinited", response.session)
  /\ UNCHANGED <<client, closing, queue, recover, listener>>

(* ... then with the message itself, in the new session. *)
Restored ==
  /\ pc = "reinited" /\ response.status = "ok"
  /\ Exchange("post", sessionId)
  /\ UNCHANGED <<client, sessionId, initializeMessage, closing, queue, recover, listener>>

RestoreFails ==
  /\ pc \in {"reinit", "reinited"} /\ response.status \in {"failed", "unknown"}
  /\ sessionId' = NoSession
  /\ Done("refused")
  /\ UNCHANGED <<kind, initializeMessage, closing, recover, wire, listener>>

(* Mutant: only the message itself has a deadline. *)
PostFailsOnly ==
  /\ pc = "post" /\ response = Nothing
  /\ response' = Reply("failed", NoSession)
  /\ UNCHANGED <<client, proxy, wire, listener>>

(* A network error or the deadline, whatever the listener has done or will *)
(* still do with the exchange.                                             *)
ExchangeFails ==
  /\ pc \in {"post", "reinit", "reinited", "delete"} /\ response = Nothing
  /\ response' = Reply("failed", NoSession)
  /\ UNCHANGED <<client, proxy, wire, listener>>

-----------------------------------------------------------------------------
(* close(): no more lines; the queue drains, then the session is deleted.  *)
Close ==
  /\ ~closing
  /\ closing' = TRUE
  /\ UNCHANGED <<client, sessionId, initializeMessage, queue, pc, recover, response, wire, listener>>

DeleteSession ==
  /\ closing /\ pc = "idle" /\ queue = <<>>
  /\ sessionId' = NoSession
  /\ IF sessionId = NoSession
     THEN pc' = "exited" /\ UNCHANGED <<response, wire>>
     ELSE Exchange("delete", sessionId)
  /\ UNCHANGED <<client, initializeMessage, closing, queue, recover, listener>>

Deleted ==
  /\ pc = "delete" /\ response # Nothing
  /\ pc' = "exited"
  /\ UNCHANGED <<client, sessionId, initializeMessage, closing, queue, recover, response, wire, listener>>

(* A signal gives close() five seconds. *)
ShutdownDeadline ==
  /\ closing /\ pc # "exited"
  /\ pc' = "exited"
  /\ UNCHANGED <<client, sessionId, initializeMessage, closing, queue, recover, response, wire, listener>>

-----------------------------------------------------------------------------
(* The listener serves exchange x; only the awaited one is answered. *)
Awaited(x) ==
  /\ pc = x.what /\ response = Nothing
  /\ queue # <<>> => Head(queue) = x.request

Serve(x, replies, granted) ==
  /\ wire' = wire \ {x}
  /\ IF Awaited(x) THEN \E r \in replies : response' = Reply(r, granted) ELSE UNCHANGED response
  /\ UNCHANGED <<client, proxy>>

Refuse(x) == Serve(x, {"failed"}, NoSession) /\ UNCHANGED listener

Unknown(x) ==
  /\ x.session \notin live \cup {NoSession}
  /\ Serve(x, {"unknown"}, NoSession)
  /\ UNCHANGED listener

Opens(x) ==
  \/ x.what = "reinit"
  \/ x.what = "post" /\ kind[x.request] = "initialize"

OpenSession(x) ==
  /\ Opens(x) /\ Len(opened) < MaxOpened
  /\ opened' = Append(opened, x.what)
  /\ live' = live \cup {Len(opened')}
  /\ Serve(x, {"opened"}, Len(opened'))
  /\ UNCHANGED <<ready, dispatched>>

Dispatch(x) ==
  /\ x.what = "post" /\ ~Opens(x) /\ x.session \in live
  /\ dispatched' = [dispatched EXCEPT ![x.request] = @ + 1]
  /\ Serve(x, {"ok", "empty", "failed"}, NoSession)
  /\ UNCHANGED <<opened, live, ready>>

Notice(x) ==
  /\ x.what = "reinited" /\ x.session \in live
  /\ ready' = ready \cup {x.session}
  /\ Serve(x, {"ok"}, NoSession)
  /\ UNCHANGED <<opened, live, dispatched>>

Delete(x) ==
  /\ x.what = "delete" /\ x.session \in live
  /\ live' = live \ {x.session}
  /\ Serve(x, {"ok"}, NoSession)
  /\ UNCHANGED <<opened, ready, dispatched>>

SessionExpires ==
  /\ \E s \in live : live' = live \ {s}
  /\ UNCHANGED <<client, proxy, response, wire, opened, ready, dispatched>>

ListenerServes(x) ==
  Refuse(x) \/ Unknown(x) \/ OpenSession(x) \/ Dispatch(x) \/ Notice(x) \/ Delete(x)

ProxyRuns ==
  \/ AlreadyInitialized \/ ForwardOne \/ ForwardWithoutSession \/ Recover
  \/ PostFails \/ PostSucceeds \/ ClientInitialized \/ Reinitialized
  \/ Restored \/ RestoreFails \/ DeleteSession \/ Deleted

Exited == pc = "exited" /\ wire = {} /\ live = {} /\ UNCHANGED vars

Next ==
  \/ Forward \/ ProxyRuns \/ ExchangeFails \/ Close \/ ShutdownDeadline
  \/ \E x \in wire : ListenerServes(x)
  \/ SessionExpires \/ Exited

Spec == Init /\ [][Next]_vars

(* The event loop runs the proxy, and its timer ends every exchange: nothing *)
(* is assumed of the listener.                                               *)
FairSpec == Spec /\ WF_vars(ProxyRuns) /\ WF_vars(ExchangeFails)

-----------------------------------------------------------------------------
Said(m, what) == \E i \in DOMAIN answers : answers[i].request = m /\ answers[i].said \in what
IsCall(m) == kind[m] = "call"

(* "Only that explicit rejection is safe to replay, including for writes": *)
(* no request runs twice, even when it is served after the proxy gave up   *)
(* on it, or in a session the proxy has replaced.                          *)
DispatchedAtMostOnce == \A m \in Requests : dispatched[m] <= 1

Answered(m) == \E i \in DOMAIN answers : answers[i].request = m
Queued(m) == \E i \in DOMAIN queue : queue[i] = m
InLine(i) == answers[i].said # "closing"

(* Every line read is answered or queued, and answered once; the queue is  *)
(* in the order of the lines, and so are the answers that came through it. *)
AnsweredInOrder ==
  /\ \A m \in DOMAIN kind : Answered(m) <=> ~Queued(m)
  /\ \A i, j \in DOMAIN answers : answers[i].request = answers[j].request => i = j
  /\ \A i, j \in DOMAIN answers :
       i < j /\ InLine(i) /\ InLine(j) => answers[i].request < answers[j].request
  /\ \A i \in DOMAIN answers, j \in DOMAIN queue : InLine(i) => answers[i].request < queue[j]
  /\ \A i, j \in DOMAIN queue : i < j => queue[i] < queue[j]

(* What the client is told of a call is true for good: a call said to be   *)
(* refused, also for a recovery that failed half-way, never runs, and one  *)
(* said to be done has run. Requests are answered once and in the order of *)
(* their lines, but those turned away because of closing.                  *)
AnswersAreTrue ==
  /\ \A m \in DOMAIN kind : IsCall(m) =>
       /\ Said(m, {"refused", "closing"}) => dispatched[m] = 0
       /\ Said(m, {"ok", "empty"}) => dispatched[m] > 0
  /\ AnsweredInOrder

(* Whatever the listener does, a request is disposed of, and so are the    *)
(* ones behind it: the queue stays usable after a timeout.                 *)
EveryRequestIsSettled ==
  \A m \in Requests : m \in DOMAIN kind ~> (Said(m, {"ok", "empty", "ambiguous", "refused", "closing"})
                                            \/ pc = "exited")
=============================================================================
