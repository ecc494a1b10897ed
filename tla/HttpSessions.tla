----------------------------- MODULE HttpSessions -----------------------------
(***************************************************************************)
(* The session table of the HTTP listener, src/sse.ts: Streamable HTTP     *)
(* sessions on /mcp, legacy sessions on /sse and /messages, their shared   *)
(* capacity, the idle sweep, and shutdown.                                 *)
(*                                                                         *)
(* A request is a process that runs to its next await in one step.  A      *)
(* session is named after the request that opened it (randomUUID).         *)
(***************************************************************************)
EXTENDS Naturals, FiniteSets, Functions

CONSTANTS Reqs,         \* HTTP requests, one each
          MaxSessions   \* AFFINE_MCP_HTTP_MAX_SESSIONS

ASSUME SessionAssumption == MaxSessions \in Nat \ {0}

Kinds == {"streamable", "legacy-sse"}
Methods == {"GET", "POST", "DELETE"}
Stages == {"new", "parsing", "creating", "handling", "responding", "stream",
           "message", "end"}

VARIABLES
  sessions,   \* the Map: open session -> [active, idle, kind]
  pending,    \* pendingSessionCount
  reserved,   \* requests whose reservation closure has not been released
  transport,  \* transport[r]: "none", "open" or "closed", of the session r opened
  stage,      \* stage[r]: which await the handler of r is in
  target,     \* target[r]: the session r begins or belongs to
  method,     \* method[r]: its HTTP method
  tracked,    \* requests holding an endSessionRequest closure
  lifecycle   \* "up", "closing" (shutdownPromise is set) or "stopped"

sessionVars == <<sessions, pending, reserved, transport, stage, target, method, tracked, lifecycle>>

SessionsInit ==
  /\ sessions = <<>>
  /\ pending = 0
  /\ reserved = {}
  /\ transport = [r \in Reqs |-> "none"]
  /\ stage = [r \in Reqs |-> "new"]
  /\ target = [r \in Reqs |-> r]
  /\ method = [r \in Reqs |-> "POST"]
  /\ tracked = {}
  /\ lifecycle = "up"

Open == DOMAIN sessions
ShuttingDown == lifecycle # "up"

-----------------------------------------------------------------------------
Goto(r, from, to) == stage[r] = from /\ stage' = [stage EXCEPT ![r] = to]

hasSessionCapacity == Cardinality(Open) + pending < MaxSessions

(* registerSession, and the effect of beginSessionRequest on its entry. *)
registerSession(s, kind, active) ==
  [x \in Open \cup {s} |->
     IF x = s THEN [active |-> active, idle |-> FALSE, kind |-> kind] ELSE sessions[x]]

Without(s) == Restrict(sessions, Open \ {s})

(* The release closure of reserveSessionSlot: effective once. *)
Released(r) ==
  IF r \in reserved
  THEN /\ reserved' = reserved \ {r}
       /\ pending' = IF pending = 0 THEN 0 ELSE pending - 1
  ELSE UNCHANGED <<reserved, pending>>

(* beginSessionRequest(s, m) and the closure it returns. *)
begun(s, m) ==
  [sessions EXCEPT ![s].idle = FALSE, ![s].active = @ + IF m = "GET" THEN 0 ELSE 1]

(* Mutant: the end of a request is not counted. *)
endedNever(r) == sessions

ended(r) ==
  LET s == target[r] IN
  IF r \in tracked /\ s \in Open
  THEN [sessions EXCEPT ![s].idle = FALSE,
          ![s].active = IF method[r] = "GET" \/ @ = 0 THEN @ ELSE @ - 1]
  ELSE sessions

(* shutdownPromise is set: 503 before anything else. *)
Unavailable(r) ==
  /\ ShuttingDown
  /\ Goto(r, "new", "end")
  /\ UNCHANGED <<sessions, pending, reserved, transport, target, method, tracked, lifecycle>>

-----------------------------------------------------------------------------
(* POST /mcp without a session id: the body is read first. *)
InitArrives(r) ==
  /\ ~ShuttingDown
  /\ Goto(r, "new", "parsing")
  /\ UNCHANGED <<sessions, pending, reserved, transport, target, method, tracked, lifecycle>>

(* Not an initialize request, or the table is full. *)
InitRefused(r) ==
  /\ target[r] = r
  /\ Goto(r, "parsing", "end")
  /\ UNCHANGED <<sessions, pending, reserved, transport, target, method, tracked, lifecycle>>

InitReserves(r) ==
  /\ target[r] = r
  /\ hasSessionCapacity
  /\ Goto(r, "parsing", "creating")
  /\ pending' = pending + 1
  /\ reserved' = reserved \cup {r}
  /\ transport' = [transport EXCEPT ![r] = "open"]
  /\ UNCHANGED <<sessions, target, method, tracked, lifecycle>>

(* createMcpServer and connect. *)
InitConnects(r) ==
  /\ r \in reserved
  /\ Goto(r, "creating", "handling")
  /\ UNCHANGED <<sessions, pending, reserved, transport, target, method, tracked, lifecycle>>

(* onsessioninitialized: release, register and begin without an await. *)
InitRegisters(r) ==
  /\ r \in reserved
  /\ Goto(r, "handling", "responding")
  /\ Released(r)
  /\ sessions' = registerSession(r, "streamable", 1)
  /\ tracked' = tracked \cup {r}
  /\ UNCHANGED <<transport, target, method, lifecycle>>

(* Mutant: the slot of a failed initialization is kept. *)
InitFailsKeepsSlot(r) ==
  /\ r \in reserved
  /\ stage[r] \in {"creating", "handling"}
  /\ stage' = [stage EXCEPT ![r] = "end"]
  /\ transport' = [transport EXCEPT ![r] = "closed"]
  /\ UNCHANGED <<sessions, pending, reserved, target, method, tracked, lifecycle>>

(* createMcpServer, connect or the handshake fails: release and close. *)
InitFails(r) ==
  /\ r \in reserved
  /\ stage[r] \in {"creating", "handling"}
  /\ stage' = [stage EXCEPT ![r] = "end"]
  /\ Released(r)
  /\ transport' = [transport EXCEPT ![r] = "closed"]
  /\ UNCHANGED <<sessions, target, method, tracked, lifecycle>>

-----------------------------------------------------------------------------
(* A request for a session the table holds: begin before any await. *)
SessionRequest(r) ==
  \E s \in Reqs \ {r}, m \in Methods :
    /\ ~ShuttingDown
    /\ s \in Open /\ sessions[s].kind = "streamable"
    /\ Goto(r, "new", "responding")
    /\ target' = [target EXCEPT ![r] = s]
    /\ method' = [method EXCEPT ![r] = m]
    /\ sessions' = begun(s, m)
    /\ tracked' = tracked \cup {r}
    /\ UNCHANGED <<pending, reserved, transport, lifecycle>>

(* 404 for an unknown session, 400 for one of the other transport. *)
SessionNotFound(r) ==
  /\ ~ShuttingDown
  /\ Goto(r, "new", "end")
  /\ \E s \in Reqs \ {r} : ~(s \in Open /\ sessions[s].kind = "streamable")
  /\ UNCHANGED <<sessions, pending, reserved, transport, target, method, tracked, lifecycle>>

(* DELETE: the transport closes, and its onclose removes the session. *)
SessionDeletes(r) ==
  /\ stage[r] = "responding" /\ method[r] = "DELETE"
  /\ target[r] \in Open
  /\ sessions' = Without(target[r])
  /\ transport' = [transport EXCEPT ![target[r]] = "closed"]
  /\ UNCHANGED <<pending, reserved, stage, target, method, tracked, lifecycle>>

(* The finally block of /mcp and /messages. *)
RequestEnds(r) ==
  /\ stage[r] \in {"responding", "message"}
  /\ stage' = [stage EXCEPT ![r] = "end"]
  /\ sessions' = ended(r)
  /\ tracked' = tracked \ {r}
  /\ Released(r)
  /\ UNCHANGED <<transport, target, method, lifecycle>>

-----------------------------------------------------------------------------
(* GET /sse: capacity check and registration without an await. *)
SseOpens(r) ==
  /\ ~ShuttingDown
  /\ hasSessionCapacity
  /\ Goto(r, "new", "creating")
  /\ sessions' = registerSession(r, "legacy-sse", 0)
  /\ transport' = [transport EXCEPT ![r] = "open"]
  /\ method' = [method EXCEPT ![r] = "GET"]
  /\ UNCHANGED <<pending, reserved, target, tracked, lifecycle>>

SseRefused(r) ==
  /\ ~ShuttingDown
  /\ ~hasSessionCapacity
  /\ Goto(r, "new", "end")
  /\ UNCHANGED <<sessions, pending, reserved, transport, target, method, tracked, lifecycle>>

SseConnects(r) ==
  /\ method[r] = "GET"
  /\ Goto(r, "creating", "stream")
  /\ UNCHANGED <<sessions, pending, reserved, transport, target, method, tracked, lifecycle>>

(* The response closes, or createMcpServer or connect fails. *)
SseCloses(r) ==
  /\ method[r] = "GET" /\ target[r] = r
  /\ stage[r] \in {"creating", "stream"}
  /\ stage' = [stage EXCEPT ![r] = "end"]
  /\ sessions' = Without(r)
  /\ transport' = [transport EXCEPT ![r] = "closed"]
  /\ UNCHANGED <<pending, reserved, target, method, tracked, lifecycle>>

(* POST /messages: here the session is looked up after the body is read. *)
MessageArrives(r) ==
  /\ ~ShuttingDown
  /\ Goto(r, "new", "parsing")
  /\ \E s \in Reqs \ {r} : target' = [target EXCEPT ![r] = s]
  /\ UNCHANGED <<sessions, pending, reserved, transport, method, tracked, lifecycle>>

MessageBegins(r) ==
  LET s == target[r] IN
  /\ s # r
  /\ IF s \in Open /\ sessions[s].kind = "legacy-sse"
     THEN /\ Goto(r, "parsing", "message")
          /\ sessions' = begun(s, "POST")
          /\ tracked' = tracked \cup {r}
     ELSE /\ Goto(r, "parsing", "end")
          /\ UNCHANGED <<sessions, tracked>>
  /\ UNCHANGED <<pending, reserved, transport, target, method, lifecycle>>

-----------------------------------------------------------------------------
(* The idle deadline of a session passes. *)
Ages(s) ==
  /\ s \in Open /\ ~sessions[s].idle
  /\ sessions' = [sessions EXCEPT ![s].idle = TRUE]
  /\ UNCHANGED <<pending, reserved, transport, stage, target, method, tracked, lifecycle>>

(* Mutant: the sweep does not look at activeRequests. *)
ExpiredIdle == {s \in Open : sessions[s].idle}

(* The sessions idle past the deadline with no POST or DELETE in progress; *)
(* those whose only requests are GET streams are among them.               *)
Expired == {s \in Open : sessions[s].idle /\ sessions[s].active = 0}

(* closeSession deletes the entry and closes the transport, for a whole set *)
(* before the first await.                                                  *)
CloseAll(S) ==
  /\ sessions' = Restrict(sessions, Open \ S)
  /\ transport' = [r \in Reqs |-> IF r \in S THEN "closed" ELSE transport[r]]

sweepIdleSessions ==
  /\ ~ShuttingDown                      \* performShutdown clears the timer
  /\ Expired # {}
  /\ CloseAll(Expired)
  /\ UNCHANGED <<pending, reserved, stage, target, method, tracked, lifecycle>>

(* performShutdown, up to its wait. *)
Shutdown ==
  /\ lifecycle = "up"
  /\ lifecycle' = "closing"
  /\ pending' = 0
  /\ CloseAll(Open)
  /\ UNCHANGED <<reserved, stage, target, method, tracked>>

Quiet == \A r \in Reqs : stage[r] \in {"new", "end"}

(* closeHttpServer resolves when the last response has ended. *)
ShutdownCompletes ==
  /\ lifecycle = "closing"
  /\ Quiet
  /\ lifecycle' = "stopped"
  /\ UNCHANGED <<sessions, pending, reserved, transport, stage, target, method, tracked>>

(* The deadline: closeAllConnections cuts the streams; handlers go on.  *)
ShutdownForces ==
  /\ lifecycle = "closing"
  /\ ~Quiet
  /\ lifecycle' = "stopped"
  /\ UNCHANGED <<sessions, pending, reserved, transport, stage, target, method, tracked>>

-----------------------------------------------------------------------------
Arrives(r) ==
  \/ Unavailable(r) \/ InitArrives(r) \/ SessionRequest(r) \/ SessionNotFound(r)
  \/ SseOpens(r) \/ SseRefused(r) \/ MessageArrives(r)

Continues(r) ==
  \/ InitRefused(r) \/ InitReserves(r) \/ InitConnects(r) \/ InitRegisters(r)
  \/ InitFails(r) \/ SessionDeletes(r) \/ RequestEnds(r)
  \/ SseConnects(r) \/ SseCloses(r) \/ MessageBegins(r)

Housekeeping ==
  \/ \E s \in Reqs : Ages(s)
  \/ sweepIdleSessions \/ Shutdown \/ ShutdownCompletes \/ ShutdownForces

AllOver == lifecycle = "stopped" /\ Quiet /\ UNCHANGED sessionVars

SessionsNext == (\E r \in Reqs : Arrives(r) \/ Continues(r)) \/ Housekeeping \/ AllOver

SessionsSpec == SessionsInit /\ [][SessionsNext]_sessionVars

(* Only the process's own timers are fair: the sweep interval, the passing *)
(* of idle time, and the shutdown deadline.                                *)
TimerFairness ==
  /\ \A s \in Reqs : WF_sessionVars(Ages(s))
  /\ WF_sessionVars(sweepIdleSessions)
  /\ WF_sessionVars(ShutdownForces)
  /\ WF_sessionVars(ShutdownCompletes)

(* Handlers of Streamable HTTP requests end; a stream may stay open.  *)
HandlerFairness ==
  \A r \in Reqs :
    /\ WF_sessionVars(InitRefused(r) \/ InitReserves(r))
    /\ WF_sessionVars(InitConnects(r) \/ InitFails(r))
    /\ WF_sessionVars(InitRegisters(r) \/ InitFails(r))
    /\ WF_sessionVars(RequestEnds(r) /\ method[r] # "GET")
    /\ WF_sessionVars(MessageBegins(r))

FairSessionsSpec == SessionsSpec /\ TimerFairness /\ HandlerFairness

-----------------------------------------------------------------------------
TypeOK ==
  /\ Open \subseteq Reqs
  /\ \A s \in Open : sessions[s] \in [active : Nat, idle : BOOLEAN, kind : Kinds]
  /\ pending \in Nat
  /\ reserved \subseteq Reqs
  /\ transport \in [Reqs -> {"none", "open", "closed"}]
  /\ stage \in [Reqs -> Stages]
  /\ target \in [Reqs -> Reqs]
  /\ method \in [Reqs -> Methods]
  /\ tracked \subseteq Reqs
  /\ lifecycle \in {"up", "closing", "stopped"}

(* What the table says is true on every path of the /mcp handler: each     *)
(* slot is given back, activeRequests counts exactly the POST and DELETE   *)
(* requests in progress, and a transport whose opening request is over is  *)
(* in the table or closed, so that sweep and shutdown can reach it. Until  *)
(* shutdown, established sessions and initializations in progress together *)
(* stay within the configured capacity, however initializations overlap,   *)
(* and the counter is the number of unreleased reservations.               *)
SessionsAreAccounted ==
  /\ ~ShuttingDown => /\ pending = Cardinality(reserved)
                      /\ Cardinality(Open) + pending <= MaxSessions
  /\ \A r \in reserved : stage[r] \in {"creating", "handling"}
  /\ \A s \in Open :
       sessions[s].active =
         Cardinality({r \in tracked : target[r] = s /\ (method[r] # "GET" \/ r = s)})
  /\ \A r \in Reqs : transport[r] = "open" /\ stage[r] = "end" => r \in Open

(* Nothing but DELETE, the client hanging up, or shutdown takes a session  *)
(* away while one of its POST or DELETE requests is in progress, the one   *)
(* that opened it included. An open GET stream protects nothing, neither a *)
(* stream of a streamable session nor the one of a legacy session:         *)
(* beginSessionRequest does not count GET as work in flight, and the sweep *)
(* closes an idle session with it.                                         *)
SweepSparesBusySessions ==
  [][\A s \in Open : s \notin Open' =>
       \/ lifecycle' # lifecycle
       \/ \E r \in tracked : target[r] = s /\ method[r] = "DELETE"
       \/ sessions[s].kind = "legacy-sse" /\ stage'[s] = "end" /\ stage[s] # "end"
       \/ \A r \in tracked : target[r] = s => method[r] = "GET" /\ r # s]_sessionVars

(* Abandoned sessions do not accumulate: once its requests are over, a     *)
(* session that nobody closes is swept, as long as the server runs.        *)
SessionsAreReclaimed == \A s \in Reqs : s \in Open ~> (s \notin Open \/ ShuttingDown)

(* docs/configuration-and-deployment.md: "the server stops accepting       *)
(* connections and closes MCP transports".                                 *)
ShutdownClosesTransports ==
  lifecycle = "stopped" /\ Quiet => \A r \in Reqs : transport[r] # "open"
=============================================================================
