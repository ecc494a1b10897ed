--------------------------- MODULE TransportProofs ---------------------------
(***************************************************************************)
(* Proofs about the two ends of the HTTP transport: the session table of   *)
(* the listener, and the stdio bridge that talks to it.                    *)
(***************************************************************************)
EXTENDS HttpSessions, StdioProxy, FiniteSetTheorems, SequenceTheorems, TLAPS

-----------------------------------------------------------------------------
(***************************************************************************)
(* The session table of the HTTP listener, for any number of requests and  *)
(* any capacity.                                                           *)
(*                                                                         *)
(* SessionsAreAccounted is not inductive: what a handler may do next is in *)
(* its stage, and the table does not show it.  RequestInStep adds which    *)
(* requests hold a slot, which are counted, and which still own an open    *)
(* transport; in particular that nobody can be counted on a session before *)
(* its opening request has registered it.                                  *)
(***************************************************************************)

Users(s) == {r \in tracked : target[r] = s /\ (method[r] # "GET" \/ r = s)}

RequestInStep(r) ==
  /\ stage[r] \in {"new", "parsing"} => transport[r] = "none" /\ method[r] = "POST"
  /\ stage[r] = "new" => target[r] = r
  /\ r \in tracked <=> stage[r] \in {"responding", "message"}
  /\ r \in tracked => /\ transport[target[r]] # "none" /\ target[r] \notin reserved
                      /\ target[r] = r => method[r] = "POST"
  /\ r \in reserved => /\ stage[r] \in {"creating", "handling"} /\ target[r] = r
                       /\ method[r] = "POST" /\ transport[r] = "open"
  /\ r \in Open => /\ transport[r] = "open" /\ r \notin reserved
                   /\ method[r] = "GET" => sessions[r].kind = "legacy-sse"
  /\ transport[r] = "open" => r \in Open \/ r \in reserved

RequestsInStep == \A r \in Reqs : RequestInStep(r)

ActiveIsCounted == \A s \in Open : sessions[s].active = Cardinality(Users(s))

SlotsAreCounted ==
  ~ShuttingDown => /\ pending = Cardinality(reserved)
                   /\ Cardinality(Open) + pending <= MaxSessions

FinitelyMany == IsFiniteSet(reserved) /\ IsFiniteSet(tracked) /\ IsFiniteSet(Open)

SessionInv ==
  /\ TypeOK
  /\ FinitelyMany
  /\ RequestsInStep
  /\ ActiveIsCounted
  /\ SlotsAreCounted

-----------------------------------------------------------------------------
(* The table after a request begins, ... *)
LEMMA BegunTable ==
  ASSUME TypeOK, NEW s \in Open, NEW m \in Methods
  PROVE  LET t == begun(s, m) IN
         /\ DOMAIN t = Open
         /\ t[s] = [active |-> sessions[s].active + (IF m = "GET" THEN 0 ELSE 1),
                    idle |-> FALSE, kind |-> sessions[s].kind]
         /\ \A x \in Open : x # s => t[x] = sessions[x]
<1>1. sessions[s] \in [active : Nat, idle : BOOLEAN, kind : Kinds]
  BY DEF TypeOK
<1> QED
  BY <1>1 DEF begun, Open

(* ... after it ends, ... *)
LEMMA EndedTable ==
  ASSUME TypeOK, NEW r \in Reqs
  PROVE  LET t == ended(r) IN
         /\ DOMAIN t = Open
         /\ \A x \in Open : x # target[r] \/ r \notin tracked => t[x] = sessions[x]
         /\ target[r] \in Open /\ r \in tracked =>
              t[target[r]] = [active |-> IF method[r] = "GET" \/ sessions[target[r]].active = 0
                                         THEN sessions[target[r]].active
                                         ELSE sessions[target[r]].active - 1,
                              idle |-> FALSE, kind |-> sessions[target[r]].kind]
<1>1. \A s \in Open : sessions[s] \in [active : Nat, idle : BOOLEAN, kind : Kinds]
  BY DEF TypeOK
<1> QED
  BY <1>1 DEF ended, Open

(* ... and after some sessions are taken away. *)
LEMMA RestrictedTable ==
  ASSUME NEW S
  PROVE  LET t == Restrict(sessions, Open \ S) IN
         DOMAIN t = Open \ S /\ \A x \in Open \ S : t[x] = sessions[x]
BY DEF Restrict

(* The kinds of things a step may do to the table. *)
TableMoves ==
  \/ sessions' = sessions
  \/ \E r \in Reqs : InitRegisters(r) \/ SessionRequest(r) \/ RequestEnds(r) \/ SseOpens(r)
                     \/ MessageBegins(r) \/ Ages(r)
  \/ \E S \in SUBSET Open : sessions' = Restrict(sessions, Open \ S)

(* Every step is one of them. *)
LEMMA TablesMove == ASSUME TypeOK, [SessionsNext]_sessionVars PROVE TableMoves
<1>1. ASSUME NEW r \in Reqs, SessionDeletes(r) PROVE \E S \in SUBSET Open : sessions' = Restrict(sessions, Open \ S)
  BY <1>1 DEF SessionDeletes, Without
<1>2. ASSUME NEW r \in Reqs, SseCloses(r) PROVE \E S \in SUBSET Open : sessions' = Restrict(sessions, Open \ S)
  <2>1. Open \ {r} = Open \ (Open \cap {r})
    OBVIOUS
  <2> QED
    BY <1>2, <2>1 DEF SseCloses, Without
<1>3. CASE sweepIdleSessions \/ Shutdown
  BY <1>3 DEF sweepIdleSessions, Shutdown, CloseAll, Expired, TableMoves
<1> QED
  BY <1>1, <1>2, <1>3 DEF TableMoves, SessionsNext, Arrives, Continues, Housekeeping, AllOver, Unavailable,
     InitArrives, SessionNotFound, SseRefused, MessageArrives, InitRefused, InitReserves,
     InitConnects, InitFails, SseConnects, ShutdownCompletes, ShutdownForces, sessionVars

(* Before the first request. *)
LEMMA InitSession == SessionsInit => SessionInv
<1> SUFFICES ASSUME SessionsInit PROVE SessionInv
  OBVIOUS
<1>1. Open = {}
  BY DEF SessionsInit, Open
<1>2. TypeOK
  BY <1>1 DEF SessionsInit, TypeOK, Stages, Methods
<1>3. FinitelyMany
  BY <1>1, FS_EmptySet DEF SessionsInit, FinitelyMany
<1>4. RequestsInStep /\ ActiveIsCounted
  BY <1>1 DEF SessionsInit, RequestsInStep, RequestInStep, ActiveIsCounted
<1>5. SlotsAreCounted
  BY <1>1, FS_EmptySet, SessionAssumption DEF SessionsInit, SlotsAreCounted
<1> QED
  BY <1>2, <1>3, <1>4, <1>5 DEF SessionInv

(* Types. *)
LEMMA SessionTypesKept == TypeOK /\ [SessionsNext]_sessionVars => TypeOK'
<1> SUFFICES ASSUME TypeOK, [SessionsNext]_sessionVars PROVE TypeOK'
  OBVIOUS
<1>1. Open' \subseteq Reqs /\ \A s \in Open' : sessions'[s] \in [active : Nat, idle : BOOLEAN, kind : Kinds]
  <2> DEFINE Entry == [active : Nat, idle : BOOLEAN, kind : Kinds]
             Good(t) == DOMAIN t \subseteq Reqs /\ \A s \in DOMAIN t : t[s] \in Entry
  <2>0. Good(sessions)
    BY DEF TypeOK, Open
  <2>1. ASSUME NEW r \in Reqs, NEW sort \in Kinds, NEW active \in Nat
        PROVE  Good(registerSession(r, sort, active))
    <3>1. [active |-> active, idle |-> FALSE, kind |-> sort] \in Entry
      OBVIOUS
    <3> DEFINE t == registerSession(r, sort, active)
    <3>2. /\ DOMAIN t = Open \cup {r}
          /\ t[r] = [active |-> active, idle |-> FALSE, kind |-> sort]
          /\ \A x \in Open : x # r => t[x] = sessions[x]
      BY DEF registerSession
    <3> HIDE DEF Entry, t
    <3>3. Good(t)
      BY <2>0, <3>1, <3>2 DEF Open
    <3> QED
      BY <3>3 DEF t
  <2>2. ASSUME NEW s \in Open, NEW m \in Methods PROVE Good(begun(s, m))
    <3>1. sessions[s].active \in Nat /\ sessions[s].kind \in Kinds
      BY <2>0 DEF Open
    <3>2. [active |-> sessions[s].active + (IF m = "GET" THEN 0 ELSE 1),
           idle |-> FALSE, kind |-> sessions[s].kind] \in Entry
      BY <3>1
    <3> HIDE DEF Entry
    <3> QED
      BY <2>0, <3>2, BegunTable DEF Open
  <2>3. ASSUME NEW r \in Reqs PROVE Good(ended(r))
    <3> DEFINE s == target[r]
               n == IF method[r] = "GET" \/ sessions[s].active = 0 THEN sessions[s].active
                    ELSE sessions[s].active - 1
    <3>1. ASSUME s \in Open PROVE [active |-> n, idle |-> FALSE, kind |-> sessions[s].kind] \in Entry
      <4>1. sessions[s].active \in Nat /\ sessions[s].kind \in Kinds
        BY <2>0, <3>1 DEF Open
      <4>2. n \in Nat
        BY <4>1
      <4> QED
        BY <4>1, <4>2
    <3>2. /\ DOMAIN ended(r) = Open
          /\ \A x \in Open : x # s \/ r \notin tracked => ended(r)[x] = sessions[x]
          /\ s \in Open /\ r \in tracked =>
               ended(r)[s] = [active |-> n, idle |-> FALSE, kind |-> sessions[s].kind]
      BY EndedTable
    <3> HIDE DEF Entry, n, s
    <3> QED
      BY <2>0, <3>1, <3>2 DEF Open
  <2>4. ASSUME NEW s \in Open PROVE Good([sessions EXCEPT ![s].idle = TRUE])
    BY <2>0 DEF Open
  <2>5. ASSUME NEW S PROVE Good(Restrict(sessions, Open \ S))
    <3> DEFINE t == Restrict(sessions, Open \ S)
    <3>1. DOMAIN t = Open \ S /\ \A x \in Open \ S : t[x] = sessions[x]
      BY RestrictedTable
    <3> HIDE DEF Entry, t
    <3>2. Good(t)
      BY <2>0, <3>1 DEF Open
    <3> QED
      BY <3>2 DEF t
  <2>6. \/ sessions' = sessions
        \/ \E r \in Reqs, sort \in Kinds, active \in Nat : sessions' = registerSession(r, sort, active)
        \/ \E s \in Open, m \in Methods : sessions' = begun(s, m)
        \/ \E r \in Reqs : sessions' = ended(r)
        \/ \E s \in Open : sessions' = [sessions EXCEPT ![s].idle = TRUE]
        \/ \E S : sessions' = Restrict(sessions, Open \ S)
    BY TablesMove DEF TableMoves, InitRegisters, SessionRequest, RequestEnds, SseOpens, MessageBegins,
       Ages, Kinds, Methods
  <2> HIDE DEF Good
  <2>7. Good(sessions')
    BY <2>0, <2>1, <2>2, <2>3, <2>4, <2>5, <2>6
  <2> QED
    BY <2>7 DEF Good, Open
<1>2. pending' \in Nat /\ reserved' \subseteq Reqs
  <2>1. \/ UNCHANGED <<pending, reserved>>
        \/ \E r \in Reqs : Released(r)
        \/ \E r \in Reqs : pending' = pending + 1 /\ reserved' = reserved \cup {r}
        \/ pending' = 0 /\ reserved' = reserved
    BY DEF SessionsNext, Arrives, Continues, Housekeeping, AllOver, Unavailable,
     InitArrives, SessionRequest, SessionNotFound, SseOpens, SseRefused, MessageArrives,
     InitRefused, InitReserves, InitConnects, InitRegisters, InitFails, SessionDeletes,
     RequestEnds, SseConnects, SseCloses, MessageBegins, Ages, sweepIdleSessions, Shutdown,
     ShutdownCompletes, ShutdownForces, sessionVars
  <2> QED
    BY <2>1 DEF TypeOK, Released
<1>3. tracked' \subseteq Reqs /\ lifecycle' \in {"up", "closing", "stopped"}
  BY DEF TypeOK, SessionsNext, Arrives, Continues, Housekeeping, AllOver, Unavailable,
     InitArrives, SessionRequest, SessionNotFound, SseOpens, SseRefused, MessageArrives,
     InitRefused, InitReserves, InitConnects, InitRegisters, InitFails, SessionDeletes,
     RequestEnds, SseConnects, SseCloses, MessageBegins, Ages, sweepIdleSessions, Shutdown,
     ShutdownCompletes, ShutdownForces, sessionVars
<1>4. target' \in [Reqs -> Reqs] /\ method' \in [Reqs -> Methods]
  BY DEF TypeOK, Methods, SessionsNext, Arrives, Continues, Housekeeping, AllOver, Unavailable,
     InitArrives, SessionRequest, SessionNotFound, SseOpens, SseRefused, MessageArrives,
     InitRefused, InitReserves, InitConnects, InitRegisters, InitFails, SessionDeletes,
     RequestEnds, SseConnects, SseCloses, MessageBegins, Ages, sweepIdleSessions, Shutdown,
     ShutdownCompletes, ShutdownForces, sessionVars
<1>5. transport' \in [Reqs -> {"none", "open", "closed"}]
  BY DEF TypeOK, SessionsNext, Arrives, Continues, Housekeeping, AllOver, Unavailable,
     InitArrives, SessionRequest, SessionNotFound, SseOpens, SseRefused, MessageArrives,
     InitRefused, InitReserves, InitConnects, InitRegisters, InitFails, SessionDeletes,
     RequestEnds, SseConnects, SseCloses, MessageBegins, Ages, sweepIdleSessions, Shutdown,
     ShutdownCompletes, ShutdownForces, sessionVars, CloseAll
<1>6. stage' \in [Reqs -> Stages]
  <2>1. stage' = stage \/ \E r \in Reqs, st \in Stages : stage' = [stage EXCEPT ![r] = st]
    BY DEF Stages, Goto, SessionsNext, Arrives, Continues, Housekeeping, AllOver, Unavailable,
     InitArrives, SessionRequest, SessionNotFound, SseOpens, SseRefused, MessageArrives,
     InitRefused, InitReserves, InitConnects, InitRegisters, InitFails, SessionDeletes,
     RequestEnds, SseConnects, SseCloses, MessageBegins, Ages, sweepIdleSessions, Shutdown,
     ShutdownCompletes, ShutdownForces, sessionVars, CloseAll
  <2> QED
    BY <2>1 DEF TypeOK
<1> QED
  BY <1>1, <1>2, <1>3, <1>4, <1>5, <1>6 DEF TypeOK

-----------------------------------------------------------------------------
(* A step that leaves the table's sessions alone. *)
SameOpen == Open' = Open /\ \A s \in Open : sessions'[s].kind = sessions[s].kind

(* Requests beginning, ending and ageing are such steps. *)
LEMMA CountingKeepsOpen ==
  ASSUME TypeOK,
         \/ sessions' = sessions
         \/ \E s \in Open, m \in Methods : sessions' = begun(s, m)
         \/ \E r \in Reqs : sessions' = ended(r)
         \/ \E s \in Reqs : Ages(s)
  PROVE  SameOpen
<1>1. CASE sessions' = sessions
  BY <1>1 DEF SameOpen, Open
<1>2. ASSUME NEW s \in Open, NEW m \in Methods, sessions' = begun(s, m) PROVE SameOpen
  <2> DEFINE t == begun(s, m)
  <2>0. /\ DOMAIN t = Open
        /\ t[s] = [active |-> sessions[s].active + (IF m = "GET" THEN 0 ELSE 1),
                   idle |-> FALSE, kind |-> sessions[s].kind]
        /\ \A x \in Open : x # s => t[x] = sessions[x]
    BY BegunTable
  <2> HIDE DEF t
  <2>1. DOMAIN t = Open /\ \A x \in Open : t[x].kind = sessions[x].kind
    BY <2>0
  <2>2. sessions' = t
    BY <1>2 DEF t
  <2> QED
    BY <2>1, <2>2 DEF SameOpen, Open
<1>3. ASSUME NEW r \in Reqs, sessions' = ended(r) PROVE SameOpen
  <2> DEFINE t == ended(r)
  <2>0. /\ DOMAIN t = Open
        /\ \A x \in Open : x # target[r] \/ r \notin tracked => t[x] = sessions[x]
        /\ target[r] \in Open /\ r \in tracked =>
             t[target[r]] = [active |-> IF method[r] = "GET" \/ sessions[target[r]].active = 0
                                        THEN sessions[target[r]].active
                                        ELSE sessions[target[r]].active - 1,
                             idle |-> FALSE, kind |-> sessions[target[r]].kind]
    BY EndedTable
  <2> HIDE DEF t
  <2>1. DOMAIN t = Open /\ \A x \in Open : t[x].kind = sessions[x].kind
    BY <2>0
  <2>2. sessions' = t
    BY <1>3 DEF t
  <2> QED
    BY <2>1, <2>2 DEF SameOpen, Open
<1>4. ASSUME NEW s \in Reqs, Ages(s) PROVE SameOpen
  <2>1. sessions[s] \in [active : Nat, idle : BOOLEAN, kind : Kinds]
    BY <1>4 DEF Ages, TypeOK
  <2> QED
    BY <1>4, <2>1 DEF Ages, SameOpen, Open
<1> QED
  BY <1>1, <1>2, <1>3, <1>4

(* Where each request stands, and what it still owns. *)
LEMMA RequestsKeepInStep == TypeOK /\ RequestsInStep /\ [SessionsNext]_sessionVars => RequestsInStep'
<1> SUFFICES ASSUME TypeOK, RequestsInStep, [SessionsNext]_sessionVars, NEW d \in Reqs PROVE RequestInStep(d)'
  BY DEF RequestsInStep
<1>0. \A r \in Reqs : RequestInStep(r)
  BY DEF RequestsInStep
<1>1. CASE UNCHANGED sessionVars
  BY <1>0, <1>1 DEF sessionVars, RequestInStep, Open
<1>2. ASSUME NEW r \in Reqs,
             \/ Unavailable(r) \/ InitArrives(r) \/ SessionNotFound(r) \/ SseRefused(r)
             \/ MessageArrives(r) \/ InitRefused(r) \/ InitConnects(r) \/ SseConnects(r)
      PROVE  RequestInStep(d)'
  <2>1. Open' = Open /\ sessions' = sessions /\ transport' = transport /\ reserved' = reserved
        /\ tracked' = tracked /\ method' = method
    BY <1>2 DEF Unavailable, InitArrives, SessionNotFound, SseRefused, MessageArrives, InitRefused,
       InitConnects, SseConnects, Open
  <2> QED
    BY <1>0, <1>2, <2>1 DEF Unavailable, InitArrives, SessionNotFound, SseRefused, MessageArrives,
       InitRefused, InitConnects, SseConnects, RequestInStep, TypeOK, Goto
<1>3. ASSUME NEW r \in Reqs, InitReserves(r) PROVE RequestInStep(d)'
  <2>1. Open' = Open /\ r \notin Open /\ \A x \in tracked : target[x] # r
    BY <1>0, <1>3 DEF InitReserves, Open, Goto, RequestInStep, TypeOK
  <2> QED
    BY <1>0, <1>3, <2>1 DEF InitReserves, Goto, RequestInStep, TypeOK
<1>4. ASSUME NEW r \in Reqs, InitRegisters(r) PROVE RequestInStep(d)'
  <2>1. /\ Open' = Open \cup {r} /\ \A x \in Open : x # r => sessions'[x] = sessions[x]
        /\ reserved' = reserved \ {r} /\ tracked' = tracked \cup {r}
        /\ stage' = [stage EXCEPT ![r] = "responding"]
        /\ UNCHANGED <<transport, target, method>> /\ r \in reserved
    BY <1>4 DEF registerSession, InitRegisters, Open, Released, Goto
  <2> QED
    BY <1>0, <2>1 DEF RequestInStep, TypeOK
<1>5. ASSUME NEW r \in Reqs, InitFails(r) PROVE RequestInStep(d)'
  <2>1. /\ Open' = Open /\ sessions' = sessions /\ reserved' = reserved \ {r} /\ tracked' = tracked
        /\ stage' = [stage EXCEPT ![r] = "end"] /\ transport' = [transport EXCEPT ![r] = "closed"]
        /\ UNCHANGED <<target, method>> /\ r \in reserved
    BY <1>5 DEF InitFails, Open, Released
  <2> QED
    BY <1>0, <2>1 DEF RequestInStep, TypeOK
<1>6. ASSUME NEW r \in Reqs, SessionRequest(r) PROVE RequestInStep(d)'
  <2>1. SameOpen
    BY <1>6, CountingKeepsOpen DEF SessionRequest
  <2>2. PICK s \in Reqs \ {r}, m \in Methods :
          /\ s \in Open
          /\ target' = [target EXCEPT ![r] = s] /\ method' = [method EXCEPT ![r] = m]
    BY <1>6 DEF SessionRequest
  <2>3. /\ stage[r] = "new" /\ stage' = [stage EXCEPT ![r] = "responding"]
        /\ tracked' = tracked \cup {r} /\ UNCHANGED <<reserved, transport>>
    BY <1>6 DEF SessionRequest, Goto
  <2>4. r \notin Open /\ transport[r] = "none" /\ r \notin reserved
    BY <1>0, <2>3 DEF RequestInStep
  <2>5. transport[s] = "open" /\ s \notin reserved
    BY <1>0, <2>2 DEF RequestInStep
  <2>6. CASE d = r
    BY <2>1, <2>2, <2>3, <2>4, <2>5, <2>6 DEF RequestInStep, TypeOK, SameOpen
  <2>7. CASE d # r
    BY <1>0, <2>1, <2>2, <2>3, <2>4, <2>7 DEF RequestInStep, TypeOK, SameOpen
  <2> QED
    BY <2>6, <2>7
<1>7. ASSUME NEW r \in Reqs, NEW S \in SUBSET Open, sessions' = Restrict(sessions, Open \ S),
             \A x \in Reqs : transport'[x] = IF x \in S THEN "closed" ELSE transport[x],
             UNCHANGED <<reserved, stage, target, method, tracked>>
      PROVE  RequestInStep(d)'
  <2>1. Open' = Open \ S /\ \A x \in Open \ S : sessions'[x] = sessions[x]
    BY <1>7, RestrictedTable DEF Open
  <2>2. S \subseteq Reqs /\ \A x \in S : transport[x] = "open"
    BY <1>0 DEF RequestInStep, TypeOK
  <2>3. target[d] \in Reqs
    BY DEF TypeOK
  <2>4. /\ transport'[d] = (IF d \in S THEN "closed" ELSE transport[d])
        /\ transport'[target[d]] = (IF target[d] \in S THEN "closed" ELSE transport[target[d]])
    BY <1>7, <2>3
  <2>5. stage' = stage /\ target' = target /\ method' = method /\ tracked' = tracked /\ reserved' = reserved
    BY <1>7
  <2>6. d \in S => transport[d] = "open" /\ d \in Open /\ d \notin reserved
    BY <1>0, <2>2 DEF RequestInStep
  <2>7. d \in Open' <=> d \in Open /\ d \notin S
    BY <2>1
  <2>8. d \in Open' => sessions'[d] = sessions[d]
    BY <2>1
  <2> QED
    BY <1>0, <2>4, <2>5, <2>6, <2>7, <2>8 DEF RequestInStep
<1>8. ASSUME NEW r \in Reqs, SessionDeletes(r) PROVE RequestInStep(d)'
  <2>1. /\ {target[r]} \in SUBSET Open /\ sessions' = Restrict(sessions, Open \ {target[r]})
        /\ \A x \in Reqs : transport'[x] = IF x \in {target[r]} THEN "closed" ELSE transport[x]
        /\ UNCHANGED <<reserved, stage, target, method, tracked>>
    BY <1>8 DEF SessionDeletes, Without, TypeOK
  <2> QED
    BY <1>7, <2>1
<1>9. ASSUME NEW r \in Reqs, RequestEnds(r) PROVE RequestInStep(d)'
  <2>1. SameOpen
    BY <1>9, CountingKeepsOpen DEF RequestEnds
  <2>2. /\ stage[r] \in {"responding", "message"} /\ stage' = [stage EXCEPT ![r] = "end"]
        /\ tracked' = tracked \ {r} /\ UNCHANGED <<transport, target, method>>
        /\ reserved' = reserved
    BY <1>0, <1>9 DEF RequestEnds, Released, RequestInStep
  <2> QED
    BY <1>0, <2>1, <2>2 DEF RequestInStep, TypeOK, SameOpen
<1>10. ASSUME NEW r \in Reqs, SseOpens(r) PROVE RequestInStep(d)'
  <2>1. /\ Open' = Open \cup {r} /\ \A x \in Open : x # r => sessions'[x] = sessions[x]
        /\ sessions'[r].kind = "legacy-sse"
    BY <1>10 DEF registerSession, SseOpens, Open
  <2>2. /\ stage[r] = "new" /\ stage' = [stage EXCEPT ![r] = "creating"]
        /\ transport' = [transport EXCEPT ![r] = "open"] /\ method' = [method EXCEPT ![r] = "GET"]
        /\ UNCHANGED <<reserved, target, tracked>>
    BY <1>10 DEF SseOpens, Goto
  <2>3. r \notin reserved /\ r \notin tracked
    BY <1>0, <2>2 DEF RequestInStep
  <2>4. CASE d = r
    BY <2>1, <2>2, <2>3, <2>4 DEF RequestInStep, TypeOK
  <2>5. CASE d # r
    BY <1>0, <2>1, <2>2, <2>5 DEF RequestInStep, TypeOK
  <2> QED
    BY <2>4, <2>5
<1>11. ASSUME NEW r \in Reqs, SseCloses(r) PROVE RequestInStep(d)'
  <2>1. Open' = Open \ {r} /\ \A x \in Open \ {r} : sessions'[x] = sessions[x]
    BY <1>11, RestrictedTable DEF SseCloses, Without, Open
  <2>2. /\ stage[r] \in {"creating", "stream"} /\ stage' = [stage EXCEPT ![r] = "end"]
        /\ transport' = [transport EXCEPT ![r] = "closed"] /\ method[r] = "GET"
        /\ UNCHANGED <<reserved, target, method, tracked>>
    BY <1>11 DEF SseCloses
  <2>3. r \notin reserved /\ r \notin tracked
    BY <1>0, <2>2 DEF RequestInStep
  <2>4. CASE d = r
    BY <1>0, <2>1, <2>2, <2>3, <2>4 DEF RequestInStep, TypeOK
  <2>5. CASE d # r
    BY <1>0, <2>1, <2>2, <2>5 DEF RequestInStep, TypeOK
  <2> QED
    BY <2>4, <2>5
<1>12. ASSUME NEW r \in Reqs, MessageBegins(r) PROVE RequestInStep(d)'
  <2>1. SameOpen
    <3>1. sessions' = sessions \/ (target[r] \in Open /\ sessions' = begun(target[r], "POST"))
      BY <1>12 DEF MessageBegins
    <3> QED
      BY <3>1, CountingKeepsOpen DEF Methods
  <2>2. /\ target[r] # r /\ stage[r] = "parsing"
        /\ \/ /\ target[r] \in Open /\ stage' = [stage EXCEPT ![r] = "message"]
              /\ tracked' = tracked \cup {r}
           \/ stage' = [stage EXCEPT ![r] = "end"] /\ tracked' = tracked
        /\ UNCHANGED <<reserved, transport, target, method>>
    BY <1>12 DEF MessageBegins, Goto
  <2>3. CASE d = r
    <3>1. target[r] \in Open => transport[target[r]] = "open" /\ target[r] \notin reserved
      BY <1>0 DEF RequestInStep, TypeOK
    <3>2. transport[r] = "none" /\ method[r] = "POST" /\ r \notin reserved /\ r \notin Open
          /\ r \notin tracked
      BY <1>0, <2>2 DEF RequestInStep
    <3> QED
      BY <2>1, <2>2, <2>3, <3>1, <3>2 DEF RequestInStep, TypeOK, SameOpen
  <2>4. CASE d # r
    BY <1>0, <2>1, <2>2, <2>4 DEF RequestInStep, TypeOK, SameOpen
  <2> QED
    BY <2>3, <2>4
<1>13. ASSUME NEW s \in Reqs, Ages(s) PROVE RequestInStep(d)'
  <2>1. SameOpen
    BY <1>13, CountingKeepsOpen
  <2> QED
    BY <1>0, <1>13, <2>1 DEF Ages, SameOpen, RequestInStep
<1>14. CASE sweepIdleSessions \/ Shutdown
  <2>1. \E S \in SUBSET Open :
          /\ sessions' = Restrict(sessions, Open \ S)
          /\ \A x \in Reqs : transport'[x] = IF x \in S THEN "closed" ELSE transport[x]
          /\ UNCHANGED <<reserved, stage, target, method, tracked>>
    <3>1. CASE sweepIdleSessions
      <4>1. Expired \in SUBSET Open
        BY DEF Expired
      <4> QED
        BY <3>1, <4>1 DEF sweepIdleSessions, CloseAll
    <3>2. CASE Shutdown
      BY <3>2 DEF Shutdown, CloseAll
    <3> QED
      BY <1>14, <3>1, <3>2
  <2> QED
    BY <1>7, <2>1
<1>15. CASE ShutdownCompletes \/ ShutdownForces
  BY <1>0, <1>15 DEF ShutdownCompletes, ShutdownForces, RequestInStep, Open
<1> QED
  BY <1>1, <1>2, <1>3, <1>4, <1>5, <1>6, <1>8, <1>9, <1>10, <1>11, <1>12, <1>13, <1>14, <1>15
     DEF SessionsNext, Arrives, Continues, Housekeeping, AllOver

-----------------------------------------------------------------------------
(* Nobody else's requests are counted on a session that is not registered. *)
LEMMA UnregisteredHasNoUsers ==
  ASSUME TypeOK, RequestsInStep, NEW r \in Reqs, transport[r] = "none" \/ r \in reserved,
         NEW q \in tracked
  PROVE  target[q] # r
BY DEF TypeOK, RequestsInStep, RequestInStep

(* The requests that are counted are finitely many. *)
LEMMA UsersAreFinite ==
  ASSUME FinitelyMany, NEW s
  PROVE  IsFiniteSet(Users(s)) /\ Cardinality(Users(s)) \in Nat
BY FS_Subset, FS_CardinalityType DEF FinitelyMany, Users

(* The sets that are counted stay finite. *)
LEMMA FinitelyManyKept == TypeOK /\ FinitelyMany /\ [SessionsNext]_sessionVars => FinitelyMany'
<1> SUFFICES ASSUME TypeOK, FinitelyMany, [SessionsNext]_sessionVars PROVE FinitelyMany'
  OBVIOUS
<1>1. /\ IsFiniteSet(reserved) /\ IsFiniteSet(tracked) /\ IsFiniteSet(Open)
  BY DEF FinitelyMany
<1>2. IsFiniteSet(Open')
  <2>1. CASE SameOpen
    BY <1>1, <2>1 DEF SameOpen
  <2>2. ASSUME NEW r \in Reqs, InitRegisters(r) \/ SseOpens(r) PROVE IsFiniteSet(Open')
    <3>1. Open' = Open \cup {r}
      BY <2>2 DEF registerSession, InitRegisters, SseOpens, Open
    <3> QED
      BY <1>1, <3>1, FS_AddElement
  <2>3. ASSUME NEW S, sessions' = Restrict(sessions, Open \ S) PROVE IsFiniteSet(Open')
    <3>1. Open' \subseteq Open
      BY <2>3, RestrictedTable DEF Open
    <3> QED
      BY <1>1, <3>1, FS_Subset
  <2>4. ASSUME NEW r \in Reqs, SessionRequest(r) \/ RequestEnds(r) \/ MessageBegins(r) \/ Ages(r)
        PROVE  SameOpen
    BY <2>4, CountingKeepsOpen DEF SessionRequest, RequestEnds, MessageBegins, Methods
  <2>5. sessions' = sessions => SameOpen
    BY CountingKeepsOpen
  <2> QED
    BY <2>1, <2>2, <2>3, <2>4, <2>5, TablesMove DEF TableMoves
<1>3. IsFiniteSet(tracked')
  <2>1. tracked' = tracked \/ \E r \in Reqs : tracked' = tracked \cup {r} \/ tracked' = tracked \ {r}
    BY DEF SessionsNext, Arrives, Continues, Housekeeping, AllOver, Unavailable,
     InitArrives, SessionRequest, SessionNotFound, SseOpens, SseRefused, MessageArrives,
     InitRefused, InitReserves, InitConnects, InitRegisters, InitFails, SessionDeletes,
     RequestEnds, SseConnects, SseCloses, MessageBegins, Ages, sweepIdleSessions, Shutdown,
     ShutdownCompletes, ShutdownForces, sessionVars
  <2> QED
    BY <1>1, <2>1, FS_AddElement, FS_RemoveElement
<1>4. IsFiniteSet(reserved')
  <2>1. reserved' = reserved
        \/ \E r \in Reqs : reserved' = reserved \cup {r} \/ reserved' = reserved \ {r}
    BY DEF Released, SessionsNext, Arrives, Continues, Housekeeping, AllOver, Unavailable,
     InitArrives, SessionRequest, SessionNotFound, SseOpens, SseRefused, MessageArrives,
     InitRefused, InitReserves, InitConnects, InitRegisters, InitFails, SessionDeletes,
     RequestEnds, SseConnects, SseCloses, MessageBegins, Ages, sweepIdleSessions, Shutdown,
     ShutdownCompletes, ShutdownForces, sessionVars
  <2> QED
    BY <1>1, <2>1, FS_AddElement, FS_RemoveElement
<1> QED
  BY <1>2, <1>3, <1>4 DEF FinitelyMany

(* activeRequests stays the number of requests in progress. *)
LEMMA ActiveStaysCounted == SessionInv /\ [SessionsNext]_sessionVars => ActiveIsCounted'
<1> SUFFICES ASSUME SessionInv, [SessionsNext]_sessionVars, NEW s \in Open'
             PROVE  sessions'[s].active = Cardinality(Users(s)')
  BY DEF ActiveIsCounted
<1>0. /\ TypeOK /\ FinitelyMany /\ RequestsInStep
      /\ \A r \in Reqs : RequestInStep(r)
      /\ \A x \in Open : sessions[x].active = Cardinality(Users(x))
  BY DEF SessionInv, RequestsInStep, ActiveIsCounted
<1>1. ASSUME s \in Open, sessions'[s].active = sessions[s].active, tracked' = tracked,
             \A q \in tracked : target'[q] = target[q] /\ method'[q] = method[q]
      PROVE  sessions'[s].active = Cardinality(Users(s)')
  <2>1. Users(s)' = Users(s)
    BY <1>1 DEF Users
  <2> QED
    BY <1>0, <1>1, <2>1
<1>2. ASSUME NEW r \in Reqs, InitRegisters(r)
      PROVE  sessions'[s].active = Cardinality(Users(s)')
  <2>1. /\ Open' = Open \cup {r} /\ \A x \in Open : x # r => sessions'[x] = sessions[x]
        /\ sessions'[r].active = 1
        /\ tracked' = tracked \cup {r} /\ target' = target /\ method' = method /\ r \in reserved
    BY <1>2 DEF InitRegisters, registerSession, Open
  <2>2. target[r] = r /\ \A q \in tracked : target[q] # r
    BY <1>0, <2>1, UnregisteredHasNoUsers DEF RequestInStep
  <2>3. CASE s = r
    <3>1. Users(s)' = {r}
      BY <2>1, <2>2, <2>3 DEF Users
    <3> QED
      BY <2>1, <2>3, <3>1, FS_Singleton
  <2>4. CASE s # r
    <3>1. Users(s)' = Users(s)
      BY <2>1, <2>2, <2>4 DEF Users
    <3> QED
      BY <1>0, <2>1, <2>4, <3>1
  <2> QED
    BY <2>3, <2>4
<1>3. ASSUME NEW r \in Reqs, NEW t \in Open, NEW m \in Methods, t # r, r \notin tracked,
             sessions' = begun(t, m), tracked' = tracked \cup {r},
             target'[r] = t, method'[r] = m,
             \A q \in tracked : target'[q] = target[q] /\ method'[q] = method[q]
      PROVE  sessions'[s].active = Cardinality(Users(s)')
  <2> DEFINE f == begun(t, m)
  <2>1. /\ DOMAIN f = Open
        /\ f[t] = [active |-> sessions[t].active + (IF m = "GET" THEN 0 ELSE 1),
                   idle |-> FALSE, kind |-> sessions[t].kind]
        /\ \A x \in Open : x # t => f[x] = sessions[x]
    BY <1>0, BegunTable
  <2> HIDE DEF f
  <2>2. sessions' = f /\ s \in Open
    BY <1>3, <2>1 DEF f, Open
  <2>3. CASE s # t
    <3>1. Users(s)' = Users(s)
      BY <1>3, <2>3 DEF Users
    <3> QED
      BY <1>0, <2>1, <2>2, <2>3, <3>1
  <2>4. CASE s = t /\ m = "GET"
    <3>1. Users(s)' = Users(s)
      BY <1>3, <2>4 DEF Users
    <3>2. sessions'[s].active = sessions[s].active + 0
      BY <2>1, <2>2, <2>4
    <3>3. sessions[s].active \in Nat
      BY <1>0, <2>2, UsersAreFinite
    <3> QED
      BY <1>0, <2>2, <3>1, <3>2, <3>3
  <2>5. CASE s = t /\ m # "GET"
    <3>1. Users(s)' = Users(s) \cup {r} /\ r \notin Users(s)
      BY <1>3, <2>5 DEF Users
    <3>2. sessions'[s].active = sessions[s].active + 1
      BY <2>1, <2>2, <2>5
    <3> QED
      BY <1>0, <2>2, <3>1, <3>2, UsersAreFinite, FS_AddElement
  <2> QED
    BY <2>3, <2>4, <2>5
<1>4. ASSUME NEW r \in Reqs, SessionRequest(r)
      PROVE  sessions'[s].active = Cardinality(Users(s)')
  <2>1. PICK t \in Reqs \ {r}, m \in Methods :
          /\ t \in Open /\ sessions' = begun(t, m)
          /\ target' = [target EXCEPT ![r] = t] /\ method' = [method EXCEPT ![r] = m]
          /\ tracked' = tracked \cup {r} /\ stage[r] = "new"
    BY <1>4 DEF SessionRequest, Goto
  <2>2. r \notin tracked
    BY <1>0, <2>1 DEF RequestInStep
  <2>3. target'[r] = t /\ method'[r] = m
        /\ \A q \in tracked : target'[q] = target[q] /\ method'[q] = method[q]
    BY <1>0, <2>1, <2>2 DEF TypeOK
  <2> QED
    BY <1>3, <2>1, <2>2, <2>3
<1>5. ASSUME NEW r \in Reqs, MessageBegins(r)
      PROVE  sessions'[s].active = Cardinality(Users(s)')
  <2>1. stage[r] = "parsing" /\ target[r] # r /\ target' = target /\ method' = method
    BY <1>5 DEF MessageBegins, Goto
  <2>2. r \notin tracked /\ method[r] = "POST"
    BY <1>0, <2>1 DEF RequestInStep
  <2>3. CASE sessions' = sessions /\ tracked' = tracked
    BY <1>1, <2>1, <2>3 DEF Open
  <2>4. CASE target[r] \in Open /\ sessions' = begun(target[r], "POST")
             /\ tracked' = tracked \cup {r}
    BY <1>3, <2>1, <2>2, <2>4 DEF Methods
  <2> QED
    BY <1>5, <2>3, <2>4 DEF MessageBegins
<1>6. ASSUME NEW r \in Reqs, RequestEnds(r)
      PROVE  sessions'[s].active = Cardinality(Users(s)')
  <2> DEFINE f == ended(r)
             t == target[r]
             n == sessions[t].active
  <2>1. /\ DOMAIN f = Open
        /\ \A x \in Open : x # t \/ r \notin tracked => f[x] = sessions[x]
        /\ t \in Open /\ r \in tracked =>
             f[t] = [active |-> IF method[r] = "GET" \/ n = 0 THEN n ELSE n - 1,
                     idle |-> FALSE, kind |-> sessions[t].kind]
    BY <1>0, EndedTable
  <2>2. /\ sessions' = f /\ s \in Open /\ tracked' = tracked \ {r}
        /\ target' = target /\ method' = method
    BY <1>6, <2>1 DEF RequestEnds, Open
  <2>3. r \in tracked /\ (t = r => method[r] = "POST")
    BY <1>0, <1>6 DEF RequestEnds, RequestInStep
  <2> HIDE DEF f
  <2>4. CASE s # t
    <3>1. Users(s)' = Users(s)
      BY <2>2, <2>4 DEF Users
    <3> QED
      BY <1>0, <2>1, <2>2, <2>4, <3>1
  <2>5. CASE s = t /\ method[r] = "GET"
    <3>1. Users(s)' = Users(s)
      BY <2>2, <2>3, <2>5 DEF Users
    <3>2. sessions'[s].active = sessions[s].active
      BY <2>1, <2>2, <2>3, <2>5
    <3> QED
      BY <1>0, <2>2, <3>1, <3>2
  <2>6. CASE s = t /\ method[r] # "GET"
    <3>1. Users(s)' = Users(s) \ {r} /\ r \in Users(s)
      BY <2>2, <2>3, <2>6 DEF Users
    <3>2. n = Cardinality(Users(s)) /\ n # 0 /\ n \in Nat
      BY <1>0, <2>2, <2>6, <3>1, UsersAreFinite, FS_EmptySet
    <3>3. sessions'[s].active = n - 1
      BY <2>1, <2>2, <2>3, <2>6, <3>2
    <3> HIDE DEF n
    <3> QED
      BY <3>1, <3>2, <3>3, UsersAreFinite, <1>0, FS_RemoveElement
  <2> QED
    BY <2>4, <2>5, <2>6
<1>7. ASSUME NEW r \in Reqs, SseOpens(r)
      PROVE  sessions'[s].active = Cardinality(Users(s)')
  <2>1. /\ Open' = Open \cup {r} /\ \A x \in Open : x # r => sessions'[x] = sessions[x]
        /\ sessions'[r].active = 0
        /\ tracked' = tracked /\ target' = target /\ method' = [method EXCEPT ![r] = "GET"]
        /\ stage[r] = "new"
    BY <1>7 DEF SseOpens, registerSession, Open, Goto
  <2>2. r \notin tracked /\ transport[r] = "none"
    BY <1>0, <2>1 DEF RequestInStep
  <2>3. \A q \in tracked : target[q] # r
    BY <1>0, <2>2, UnregisteredHasNoUsers
  <2>4. CASE s = r
    <3>1. Users(s)' = {}
      BY <2>1, <2>3, <2>4 DEF Users
    <3> QED
      BY <2>1, <2>4, <3>1, FS_EmptySet
  <2>5. CASE s # r
    <3>1. \A q \in tracked : method'[q] = method[q]
      BY <1>0, <2>1, <2>2 DEF TypeOK
    <3> QED
      BY <1>1, <2>1, <2>5, <3>1
  <2> QED
    BY <2>4, <2>5
<1>8. ASSUME NEW x \in Reqs, Ages(x)
      PROVE  sessions'[s].active = Cardinality(Users(s)')
  <2>1. sessions[x] \in [active : Nat, idle : BOOLEAN, kind : Kinds]
    BY <1>0, <1>8 DEF Ages, TypeOK
  <2> QED
    BY <1>1, <1>8, <2>1 DEF Ages, Open
<1>9. ASSUME NEW S \in SUBSET Open, sessions' = Restrict(sessions, Open \ S), tracked' = tracked,
             target' = target, method' = method
      PROVE  sessions'[s].active = Cardinality(Users(s)')
  <2>1. s \in Open /\ sessions'[s] = sessions[s]
    BY <1>9, RestrictedTable DEF Open
  <2> QED
    BY <1>1, <1>9, <2>1
<1>10. CASE sessions' = sessions /\ tracked' = tracked
            /\ \A q \in tracked : target'[q] = target[q] /\ method'[q] = method[q]
  BY <1>1, <1>10 DEF Open
<1>11. ASSUME NEW r \in Reqs, MessageArrives(r)
       PROVE  sessions'[s].active = Cardinality(Users(s)')
  <2>1. r \notin tracked
    BY <1>0, <1>11 DEF MessageArrives, Goto, RequestInStep
  <2> QED
    BY <1>0, <1>10, <1>11, <2>1 DEF MessageArrives, TypeOK
<1>12. ASSUME NEW r \in Reqs, SessionDeletes(r) \/ SseCloses(r)
       PROVE  sessions'[s].active = Cardinality(Users(s)')
  <2>1. Open \ {r} = Open \ (Open \cap {r}) /\ Open \ {target[r]} = Open \ (Open \cap {target[r]})
    OBVIOUS
  <2> QED
    BY <1>9, <1>12, <2>1 DEF SessionDeletes, SseCloses, Without
<1>13. CASE sweepIdleSessions \/ Shutdown
  BY <1>9, <1>13 DEF sweepIdleSessions, Shutdown, CloseAll, Expired
<1> QED
  BY <1>2, <1>4, <1>5, <1>6, <1>7, <1>8, <1>10, <1>11, <1>12, <1>13
     DEF SessionsNext, Arrives, Continues, Housekeeping, AllOver, Unavailable,
     InitArrives, SessionNotFound, SseRefused, InitRefused, InitReserves, InitConnects,
     InitFails, SseConnects, ShutdownCompletes, ShutdownForces, sessionVars

(* No slot is lost, none is given twice, and the capacity is kept. *)
LEMMA SlotsStayCounted == SessionInv /\ [SessionsNext]_sessionVars => SlotsAreCounted'
<1> SUFFICES ASSUME SessionInv, [SessionsNext]_sessionVars, ~ShuttingDown'
             PROVE  pending' = Cardinality(reserved') /\ Cardinality(Open') + pending' <= MaxSessions
  BY DEF SlotsAreCounted
<1>0. /\ TypeOK /\ FinitelyMany /\ RequestsInStep /\ \A r \in Reqs : RequestInStep(r)
  BY DEF SessionInv, RequestsInStep
<1>1. /\ ~ShuttingDown
      /\ pending = Cardinality(reserved) /\ Cardinality(Open) + pending <= MaxSessions
  <2>1. ~ShuttingDown
    BY <1>0 DEF ShuttingDown, SessionsNext, Arrives, Continues, Housekeeping, AllOver, Unavailable,
     InitArrives, SessionRequest, SessionNotFound, SseOpens, SseRefused, MessageArrives,
     InitRefused, InitReserves, InitConnects, InitRegisters, InitFails, SessionDeletes,
     RequestEnds, SseConnects, SseCloses, MessageBegins, Ages, sweepIdleSessions, Shutdown,
     ShutdownCompletes, ShutdownForces, sessionVars
  <2> QED
    BY <2>1 DEF SessionInv, SlotsAreCounted
<1>2. IsFiniteSet(reserved) /\ IsFiniteSet(Open) /\ MaxSessions \in Nat
      /\ pending \in Nat /\ Cardinality(reserved) \in Nat /\ Cardinality(Open) \in Nat
  BY <1>0, FS_CardinalityType, SessionAssumption DEF FinitelyMany, TypeOK
<1>3. CASE Open' \subseteq Open /\ pending' = pending /\ reserved' = reserved
  <2>1. Cardinality(Open') <= Cardinality(Open) /\ Cardinality(Open') \in Nat
    BY <1>2, <1>3, FS_Subset, FS_CardinalityType
  <2> QED
    BY <1>1, <1>2, <1>3, <2>1
<1>4. ASSUME NEW r \in Reqs, InitReserves(r)
      PROVE  pending' = Cardinality(reserved') /\ Cardinality(Open') + pending' <= MaxSessions
  <2>1. /\ Open' = Open /\ pending' = pending + 1 /\ reserved' = reserved \cup {r}
        /\ Cardinality(Open) + pending < MaxSessions
    BY <1>4 DEF InitReserves, Open, hasSessionCapacity
  <2>2. r \notin reserved
    BY <1>0, <1>4 DEF InitReserves, Goto, RequestInStep
  <2>3. Cardinality(reserved') = Cardinality(reserved) + 1
    BY <1>2, <2>1, <2>2, FS_AddElement
  <2> QED
    BY <1>1, <1>2, <2>1, <2>3
<1>5. ASSUME NEW r \in reserved, reserved' = reserved \ {r},
             pending' = IF pending = 0 THEN 0 ELSE pending - 1
      PROVE  pending' = Cardinality(reserved') /\ pending = pending' + 1 /\ pending' \in Nat
  <2>1. Cardinality(reserved') = Cardinality(reserved) - 1 /\ Cardinality(reserved) # 0
    BY <1>2, <1>5, FS_RemoveElement, FS_EmptySet
  <2> QED
    BY <1>1, <1>2, <1>5, <2>1
<1>6. ASSUME NEW r \in Reqs, InitRegisters(r)
      PROVE  pending' = Cardinality(reserved') /\ Cardinality(Open') + pending' <= MaxSessions
  <2>1. /\ r \in reserved /\ reserved' = reserved \ {r}
        /\ pending' = IF pending = 0 THEN 0 ELSE pending - 1
        /\ Open' = Open \cup {r}
    BY <1>6 DEF InitRegisters, Released, registerSession, Open
  <2>2. Cardinality(Open') <= Cardinality(Open) + 1 /\ Cardinality(Open') \in Nat
    <3> DEFINE S == Open
    <3>1. IsFiniteSet(S \cup {r}) /\ Cardinality(S \cup {r}) \in Nat
          /\ Cardinality(S \cup {r}) = IF r \in S THEN Cardinality(S) ELSE Cardinality(S) + 1
      BY <1>2, FS_AddElement, FS_CardinalityType
    <3> HIDE DEF S
    <3>2. Open' = S \cup {r} /\ Cardinality(Open) = Cardinality(S)
      BY <2>1 DEF S
    <3> QED
      BY <1>2, <3>1, <3>2
  <2>3. pending' = Cardinality(reserved') /\ pending = pending' + 1 /\ pending' \in Nat
    BY <1>5, <2>1
  <2> QED
    BY <1>1, <1>2, <2>2, <2>3
<1>7. ASSUME NEW r \in Reqs, InitFails(r)
      PROVE  pending' = Cardinality(reserved') /\ Cardinality(Open') + pending' <= MaxSessions
  <2>1. /\ r \in reserved /\ reserved' = reserved \ {r}
        /\ pending' = IF pending = 0 THEN 0 ELSE pending - 1
        /\ Open' = Open
    BY <1>7 DEF InitFails, Released, Open
  <2>2. pending' = Cardinality(reserved') /\ pending = pending' + 1 /\ pending' \in Nat
    BY <1>5, <2>1
  <2> QED
    BY <1>1, <1>2, <2>1, <2>2
<1>8. ASSUME NEW r \in Reqs, SseOpens(r)
      PROVE  pending' = Cardinality(reserved') /\ Cardinality(Open') + pending' <= MaxSessions
  <2>1. /\ Open' = Open \cup {r} /\ pending' = pending /\ reserved' = reserved
        /\ Cardinality(Open) + pending < MaxSessions
    BY <1>8 DEF SseOpens, Open, hasSessionCapacity, registerSession
  <2>2. Cardinality(Open') <= Cardinality(Open) + 1 /\ Cardinality(Open') \in Nat
    <3> DEFINE S == Open
    <3>1. IsFiniteSet(S \cup {r}) /\ Cardinality(S \cup {r}) \in Nat
          /\ Cardinality(S \cup {r}) = IF r \in S THEN Cardinality(S) ELSE Cardinality(S) + 1
      BY <1>2, FS_AddElement, FS_CardinalityType
    <3> HIDE DEF S
    <3>2. Open' = S \cup {r} /\ Cardinality(Open) = Cardinality(S)
      BY <2>1 DEF S
    <3> QED
      BY <1>2, <3>1, <3>2
  <2> QED
    BY <1>1, <1>2, <2>1, <2>2
<1>9. ASSUME NEW r \in Reqs,
             SessionRequest(r) \/ MessageBegins(r) \/ Ages(r) \/ SessionDeletes(r) \/ SseCloses(r)
      PROVE  Open' \subseteq Open /\ pending' = pending /\ reserved' = reserved
  <2>1. CASE SessionRequest(r) \/ MessageBegins(r) \/ Ages(r)
    <3>1. SameOpen
      BY <1>0, <2>1, CountingKeepsOpen DEF SessionRequest, MessageBegins, Methods
    <3> QED
      BY <2>1, <3>1 DEF SameOpen, SessionRequest, MessageBegins, Ages
  <2>2. CASE SessionDeletes(r) \/ SseCloses(r)
    BY <2>2 DEF SessionDeletes, SseCloses, Without, Restrict, Open
  <2> QED
    BY <1>9, <2>1, <2>2
<1>10. ASSUME NEW r \in Reqs, RequestEnds(r)
       PROVE  Open' \subseteq Open /\ pending' = pending /\ reserved' = reserved
  <2>1. SameOpen
    BY <1>0, <1>10, CountingKeepsOpen DEF RequestEnds
  <2>2. r \notin reserved
    BY <1>0, <1>10 DEF RequestEnds, RequestInStep
  <2> QED
    BY <1>10, <2>1, <2>2 DEF RequestEnds, Released, SameOpen
<1>11. CASE sweepIdleSessions
  BY <1>3, <1>11 DEF sweepIdleSessions, CloseAll, Restrict, Open
<1>12. ~Shutdown
  BY DEF Shutdown, ShuttingDown
<1>13. CASE sessions' = sessions /\ pending' = pending /\ reserved' = reserved
  BY <1>3, <1>13 DEF Open
<1> QED
  BY <1>3, <1>4, <1>6, <1>7, <1>8, <1>9, <1>10, <1>11, <1>12, <1>13
     DEF SessionsNext, Arrives, Continues, Housekeeping, AllOver, Unavailable,
     InitArrives, SessionNotFound, SseRefused, MessageArrives, InitRefused, InitConnects,
     SseConnects, ShutdownCompletes, ShutdownForces, sessionVars

-----------------------------------------------------------------------------
(* The inductive invariant holds in every reachable state. *)
THEOREM SessionSafety == SessionsSpec => []SessionInv
<1>1. SessionInv /\ [SessionsNext]_sessionVars => SessionInv'
  BY SessionTypesKept, FinitelyManyKept, RequestsKeepInStep, ActiveStaysCounted, SlotsStayCounted
     DEF SessionInv
<1> QED
  BY InitSession, <1>1, PTL DEF SessionsSpec

(* Slots, active requests and transports are accounted for on every path   *)
(* of the handlers, however initializations and requests overlap.          *)
THEOREM AccountsAreTrue == SessionsSpec => []SessionsAreAccounted
<1>1. SessionInv => SessionsAreAccounted
  <2> SUFFICES ASSUME SessionInv PROVE SessionsAreAccounted
    OBVIOUS
  <2>1. /\ TypeOK /\ ActiveIsCounted /\ SlotsAreCounted /\ \A r \in Reqs : RequestInStep(r)
    BY DEF SessionInv, RequestsInStep
  <2>2. \A s \in Open : sessions[s].active =
          Cardinality({r \in tracked : target[r] = s /\ (method[r] # "GET" \/ r = s)})
    BY <2>1 DEF ActiveIsCounted, Users
  <2> QED
    BY <2>1, <2>2 DEF SessionsAreAccounted, SlotsAreCounted, RequestInStep, TypeOK
<1> QED
  BY SessionSafety, <1>1, PTL

(* A session with a POST or DELETE request in progress goes only by a      *)
(* DELETE, the client hanging up, or shutdown. What the sweep takes has    *)
(* no request in progress but GET streams, which it does close.            *)
THEOREM SweepIsSafe == SessionsSpec => SweepSparesBusySessions
<1>1. SessionInv /\ [SessionsNext]_sessionVars =>
        [\A s \in Open : s \notin Open' =>
           \/ lifecycle' # lifecycle
           \/ \E r \in tracked : target[r] = s /\ method[r] = "DELETE"
           \/ sessions[s].kind = "legacy-sse" /\ stage'[s] = "end" /\ stage[s] # "end"
           \/ \A r \in tracked : target[r] = s => method[r] = "GET" /\ r # s]_sessionVars
  <2> SUFFICES ASSUME SessionInv, [SessionsNext]_sessionVars, NEW s \in Open, s \notin Open'
               PROVE  \/ lifecycle' # lifecycle
                      \/ \E r \in tracked : target[r] = s /\ method[r] = "DELETE"
                      \/ sessions[s].kind = "legacy-sse" /\ stage'[s] = "end" /\ stage[s] # "end"
                      \/ \A r \in tracked : target[r] = s => method[r] = "GET" /\ r # s
    OBVIOUS
  <2>0. /\ TypeOK /\ FinitelyMany /\ \A r \in Reqs : RequestInStep(r)
        /\ s \in Reqs /\ sessions[s].active = Cardinality(Users(s))
    BY DEF SessionInv, RequestsInStep, ActiveIsCounted, TypeOK
  <2>1. ~SameOpen
    BY DEF SameOpen
  <2>2. ASSUME NEW r \in Reqs PROVE ~InitRegisters(r) /\ ~SseOpens(r)
    BY DEF InitRegisters, SseOpens, registerSession, Open
  <2>3. ASSUME NEW r \in Reqs, SessionDeletes(r)
        PROVE  \E q \in tracked : target[q] = s /\ method[q] = "DELETE"
    <3>1. method[r] = "DELETE" /\ r \in tracked
      BY <2>0, <2>3 DEF SessionDeletes, RequestInStep
    <3>2. s = target[r]
      BY <2>3 DEF SessionDeletes, Without, Restrict, Open
    <3> QED
      BY <3>1, <3>2
  <2>4. ASSUME NEW r \in Reqs, SseCloses(r)
        PROVE  sessions[s].kind = "legacy-sse" /\ stage'[s] = "end" /\ stage[s] # "end"
    <3>1. s = r
      BY <2>4, RestrictedTable DEF SseCloses, Without, Open
    <3> QED
      BY <2>0, <2>4, <3>1 DEF SseCloses, RequestInStep, TypeOK
  <2>5. ASSUME sweepIdleSessions
        PROVE  \A r \in tracked : target[r] = s => method[r] = "GET" /\ r # s
    <3>1. s \in Expired
      BY <2>5, RestrictedTable DEF sweepIdleSessions, CloseAll, Open
    <3>2. Cardinality(Users(s)) = 0
      BY <2>0, <3>1 DEF Expired
    <3>3. Users(s) = {}
      BY <2>0, <3>2, UsersAreFinite, FS_EmptySet
    <3> QED
      BY <3>3 DEF Users
  <2>6. CASE Shutdown
    BY <2>6 DEF Shutdown
  <2>7. ASSUME NEW r \in Reqs, SessionRequest(r) \/ RequestEnds(r) \/ MessageBegins(r) \/ Ages(r)
        PROVE  SameOpen
    BY <2>0, <2>7, CountingKeepsOpen DEF SessionRequest, RequestEnds, MessageBegins, Methods
  <2>8. sessions' = sessions => SameOpen
    BY <2>0, CountingKeepsOpen
  <2> QED
    BY <2>1, <2>2, <2>3, <2>4, <2>5, <2>6, <2>7, <2>8
       DEF SessionsNext, Arrives, Continues, Housekeeping, AllOver, Unavailable,
       InitArrives, SessionNotFound, SseRefused, MessageArrives, InitRefused, InitReserves,
       InitConnects, InitFails, SseConnects, ShutdownCompletes, ShutdownForces, sessionVars
<1> QED
  BY SessionSafety, <1>1, PTL DEF SessionsSpec, SweepSparesBusySessions

-----------------------------------------------------------------------------
(***************************************************************************)
(* The stdio bridge, for any number of lines, any listener, and exchanges  *)
(* that are served late, out of turn or not at all.                        *)
(*                                                                         *)
(* The heart of the argument is what an awaited exchange stands for: while *)
(* a post has no response, it is the only one of its request; a response   *)
(* "unknown session" takes it off the wire without running it, so what is  *)
(* sent again has not been sent before.  A post that timed out may still   *)
(* be served, but then its request never becomes the head of the queue     *)
(* again.                                                                  *)
(***************************************************************************)

Words == {"closing", "refused", "ambiguous", "ok", "empty"}
Statuses == {"none", "failed", "unknown", "opened", "ok", "empty"}

Exchanges == [what : {"post", "reinit", "reinited", "delete"}, session : Nat, request : Nat]

ProxyTypeOK ==
  /\ kind \in Seq({"initialize", "call"}) /\ Len(kind) <= Lines
  /\ queue \in Seq(DOMAIN kind)
  /\ answers \in Seq([request : DOMAIN kind, said : Words])
  /\ pc \in {"idle", "post", "reinit", "reinited", "delete", "exited"}
  /\ initializeMessage \in BOOLEAN /\ closing \in BOOLEAN /\ recover \in BOOLEAN
  /\ wire \subseteq Exchanges
  /\ sessionId \in Nat
  /\ response \in [status : Statuses, session : Nat]
  /\ opened \in Seq({"post", "reinit"}) /\ live \subseteq Nat
  /\ dispatched \in [Requests -> Nat]

Posts(m) == {x \in wire : x.what = "post" /\ x.request = m}

Unsent(m) == Posts(m) = {} /\ dispatched[m] = 0

SentOnce(m) ==
  \/ Posts(m) = {} /\ dispatched[m] <= 1
  \/ dispatched[m] = 0 /\ \E x : Posts(m) = {x}

PostsAreOfReadRequests == \A x \in wire : x.what = "post" => x.request \in DOMAIN kind

AwaitedPost(m) ==
  /\ response = Nothing =>
       /\ dispatched[m] = 0
       /\ Posts(m) \subseteq {[what |-> "post", session |-> sessionId, request |-> m]}
  /\ response.status = "unknown" /\ IsCall(m) => Unsent(m)
  /\ response.status \in {"ok", "empty"} /\ IsCall(m) => dispatched[m] > 0
  /\ response.status = "opened" => ~IsCall(m)

HeadInStep ==
  /\ pc \in {"post", "reinit", "reinited"} => queue # <<>>
  /\ pc = "delete" => queue = <<>> /\ closing
  /\ pc \in {"idle", "reinit", "reinited"} /\ queue # <<>> => Unsent(Head(queue))
  /\ pc = "post" => AwaitedPost(Head(queue))

LaterAreUnsent ==
  /\ \A i \in DOMAIN queue : i > 1 => Unsent(queue[i])
  /\ \A m \in Requests : m \notin DOMAIN kind => Unsent(m)

AnswersHold ==
  \A m \in DOMAIN kind : IsCall(m) =>
    /\ Said(m, {"refused", "closing"}) => Unsent(m)
    /\ Said(m, {"ok", "empty"}) => dispatched[m] > 0

ProxyInv ==
  /\ ProxyTypeOK
  /\ AnsweredInOrder
  /\ PostsAreOfReadRequests
  /\ HeadInStep
  /\ LaterAreUnsent
  /\ AnswersHold
  /\ \A m \in Requests : SentOnce(m)

-----------------------------------------------------------------------------
(* Before the first line. *)
LEMMA InitProxy == Init => ProxyInv
<1> SUFFICES ASSUME Init PROVE ProxyInv
  OBVIOUS
<1>1. /\ kind = <<>> /\ answers = <<>> /\ queue = <<>> /\ opened = <<>>
      /\ DOMAIN kind = {} /\ DOMAIN answers = {} /\ DOMAIN queue = {} /\ Len(kind) = 0
  BY EmptySeq DEF Init
<1>2. ProxyTypeOK
  <2>1. /\ kind \in Seq({"initialize", "call"}) /\ queue \in Seq(DOMAIN kind)
        /\ answers \in Seq([request : DOMAIN kind, said : Words])
        /\ opened \in Seq({"post", "reinit"})
    BY <1>1, EmptySeq
  <2>2. response \in [status : Statuses, session : Nat]
    BY DEF Init, NoSession, Nothing, Reply, Statuses
  <2>3. Len(kind) <= Lines
    BY <1>1, ProxyAssumption
  <2> QED
    BY <2>1, <2>2, <2>3 DEF Init, ProxyTypeOK, NoSession
<1>3. AnsweredInOrder
  BY <1>1 DEF AnsweredInOrder
<1>4. \A m \in Requests : Unsent(m)
  BY DEF Init, Unsent, Posts
<1>5. PostsAreOfReadRequests /\ HeadInStep /\ LaterAreUnsent /\ AnswersHold
  BY <1>1, <1>4 DEF Init, PostsAreOfReadRequests, HeadInStep, LaterAreUnsent, AnswersHold
<1>6. \A m \in Requests : SentOnce(m)
  BY <1>4 DEF SentOnce, Unsent
<1> QED
  BY <1>2, <1>3, <1>5, <1>6 DEF ProxyInv

(* The queue and its tail. *)
LEMMA Tails ==
  ASSUME NEW S, NEW q \in Seq(S), q # <<>>
  PROVE  /\ Len(q) \in Nat /\ Len(q) > 0 /\ DOMAIN q = 1 .. Len(q) /\ Head(q) = q[1]
         /\ Tail(q) \in Seq(S) /\ DOMAIN Tail(q) = 1 .. (Len(q) - 1)
         /\ \A i \in 1 .. (Len(q) - 1) : Tail(q)[i] = q[i + 1]
BY HeadTailProperties, LenProperties, EmptySeq

(* A longer sequence. *)
LEMMA Longer ==
  ASSUME NEW S, NEW q \in Seq(S), NEW x \in S
  PROVE  /\ Append(q, x) \in Seq(S) /\ Len(q) \in Nat /\ DOMAIN q = 1 .. Len(q)
         /\ Append(q, x) # <<>> /\ Len(Append(q, x)) = Len(q) + 1
         /\ DOMAIN Append(q, x) = 1 .. (Len(q) + 1)
         /\ \A i \in 1 .. Len(q) : Append(q, x)[i] = q[i]
         /\ Append(q, x)[Len(q) + 1] = x
BY AppendProperties, LenProperties

(* A sequence stays one when its elements are looked at more widely. *)
LEMMA Wider ==
  ASSUME NEW S, NEW T, S \subseteq T, NEW q \in Seq(S)
  PROVE  q \in Seq(T)
BY SeqDef

(* A longer sequence, whatever is appended. *)
LEMMA AppendedLast ==
  ASSUME NEW S, NEW q \in Seq(S), NEW x
  PROVE  /\ DOMAIN Append(q, x) = 1 .. (Len(q) + 1)
         /\ \A i \in 1 .. Len(q) : Append(q, x)[i] = q[i]
         /\ Append(q, x)[Len(q) + 1] = x
<1> DEFINE T == S \cup {x}
<1>1. q \in Seq(T) /\ x \in T
  BY Wider
<1> HIDE DEF T
<1> QED
  BY <1>1, Longer

-----------------------------------------------------------------------------
(* What the client sees of a step: a line is read, the head is done with,  *)
(* or nothing.                                                             *)
LEMMA ClientView ==
  ASSUME [Next]_vars, HeadInStep
  PROVE  \/ UNCHANGED <<kind, answers, queue>>
         \/ Forward
         \/ \E said \in Words : Done(said) /\ kind' = kind /\ queue # <<>>
BY DEF HeadInStep, Starting, SessionMissing, Initialized, Words, vars, client, proxy, Next, Forward, ProxyRuns, ExchangeFails, Close, ShutdownDeadline,
   SessionExpires, Exited, AlreadyInitialized, ForwardOne, ForwardWithoutSession, RestoreSession,
   Recover, PostFails, PostSucceeds, ClientInitialized, Reinitialized, Restored, RestoreFails,
   DeleteSession, Deleted, Exchange, ListenerServes, Refuse, Unknown, OpenSession, Dispatch, Notice,
   Delete, Serve

(* What the listener sees of a step: nothing, an exchange sent, or one     *)
(* taken off the wire.                                                     *)
LEMMA WireView ==
  ASSUME [Next]_vars
  PROVE  \/ UNCHANGED <<wire, dispatched>>
         \/ /\ dispatched' = dispatched
            /\ \/ ForwardOne \/ Restored
               \/ \E what \in {"reinit", "reinited", "delete"} : \E s : Exchange(what, s)
         \/ \E x \in wire : ListenerServes(x)
BY DEF vars, client, proxy, listener, Next, Forward, ProxyRuns, ExchangeFails, Close, ShutdownDeadline,
   SessionExpires, Exited, AlreadyInitialized, ForwardOne, ForwardWithoutSession, RestoreSession,
   Recover, PostFails, PostSucceeds, ClientInitialized, Reinitialized, Restored, RestoreFails,
   DeleteSession, Deleted, Exchange

(* Types: what the client wrote, was told, and waits for. *)
LEMMA ClientTypesKept ==
  ASSUME ProxyTypeOK, HeadInStep, [Next]_vars
  PROVE  /\ kind' \in Seq({"initialize", "call"}) /\ Len(kind') <= Lines
         /\ queue' \in Seq(DOMAIN kind')
         /\ answers' \in Seq([request : DOMAIN kind', said : Words])
         /\ DOMAIN kind \subseteq DOMAIN kind'
         /\ \A m \in DOMAIN kind : kind'[m] = kind[m]
<1> DEFINE Rs == [request : DOMAIN kind, said : Words]
<1>0. /\ kind \in Seq({"initialize", "call"}) /\ Len(kind) <= Lines
      /\ queue \in Seq(DOMAIN kind) /\ answers \in Seq(Rs)
  BY DEF ProxyTypeOK
<1>1. CASE UNCHANGED <<kind, answers, queue>>
  BY <1>0, <1>1
<1>2. CASE Forward
  <2>1. PICK k \in {"initialize", "call"} : kind' = Append(kind, k)
    BY <1>2 DEF Forward
  <2> DEFINE n == Len(kind) + 1
             Rs2 == [request : DOMAIN kind', said : Words]
  <2>2. /\ kind' \in Seq({"initialize", "call"}) /\ Len(kind) \in Nat /\ Len(kind') = n
        /\ DOMAIN kind = 1 .. Len(kind) /\ DOMAIN kind' = 1 .. n
        /\ \A i \in 1 .. Len(kind) : kind'[i] = kind[i]
    BY <1>0, <2>1, Longer
  <2>3. Len(kind') <= Lines
    BY <1>0, <1>2, <2>2, ProxyAssumption DEF Forward
  <2>4. DOMAIN kind \subseteq DOMAIN kind' /\ n \in DOMAIN kind'
    BY <2>2
  <2>5. queue \in Seq(DOMAIN kind') /\ answers \in Seq(Rs2)
    <3>1. Rs \subseteq Rs2
      BY <2>4
    <3> HIDE DEF Rs, Rs2
    <3> QED
      BY <1>0, <2>4, <3>1, Wider
  <2>6. queue' = queue \/ queue' = Append(queue, n)
    BY <1>2, <2>2 DEF Forward
  <2>7. answers' = answers \/ answers' = Append(answers, [request |-> n, said |-> "closing"])
    BY <1>2, <2>2 DEF Forward, Answer
  <2>8. [request |-> n, said |-> "closing"] \in Rs2
    BY <2>4 DEF Words
  <2> HIDE DEF n, Rs, Rs2
  <2>9. queue' \in Seq(DOMAIN kind')
    <3>1. Append(queue, n) \in Seq(DOMAIN kind')
      BY <2>4, <2>5, Longer
    <3> QED
      BY <2>5, <2>6, <3>1
  <2>10. answers' \in Seq(Rs2)
    <3>1. Append(answers, [request |-> n, said |-> "closing"]) \in Seq(Rs2)
      BY <2>5, <2>8, Longer
    <3> QED
      BY <2>5, <2>7, <3>1
  <2> QED
    BY <2>2, <2>3, <2>4, <2>9, <2>10 DEF Rs2
<1>3. ASSUME NEW said \in Words, Done(said), kind' = kind, queue # <<>>
      PROVE  queue' \in Seq(DOMAIN kind) /\ answers' \in Seq(Rs)
  <2>1. Head(queue) \in DOMAIN kind /\ Tail(queue) \in Seq(DOMAIN kind)
    BY <1>0, <1>3, HeadTailProperties
  <2>2. answers' = Append(answers, [request |-> Head(queue), said |-> said]) /\ queue' = Tail(queue)
    BY <1>3 DEF Done, Answer
  <2>3. [request |-> Head(queue), said |-> said] \in Rs
    BY <2>1
  <2> HIDE DEF Rs
  <2> QED
    BY <1>0, <2>1, <2>2, <2>3, Longer
<1> QED
  BY <1>0, <1>1, <1>2, <1>3, ClientView

(* Types. *)
LEMMA ProxyTypesKept == ProxyTypeOK /\ PostsAreOfReadRequests /\ HeadInStep /\ [Next]_vars => ProxyTypeOK'
<1> SUFFICES ASSUME ProxyTypeOK, PostsAreOfReadRequests, HeadInStep, [Next]_vars
             PROVE  ProxyTypeOK'
  OBVIOUS
<1>0. ProxyTypeOK
  OBVIOUS
<1>1. /\ kind' \in Seq({"initialize", "call"}) /\ Len(kind') <= Lines
      /\ queue' \in Seq(DOMAIN kind')
      /\ answers' \in Seq([request : DOMAIN kind', said : Words])
  BY ClientTypesKept
<1>2. /\ pc' \in {"idle", "post", "reinit", "reinited", "delete", "exited"}
      /\ initializeMessage' \in BOOLEAN /\ closing' \in BOOLEAN /\ recover' \in BOOLEAN
  BY DEF ProxyTypeOK, vars, client, proxy, Next, Forward, ProxyRuns, ExchangeFails, Close,
   ShutdownDeadline, SessionExpires, Exited, AlreadyInitialized, ForwardOne, ForwardWithoutSession,
   RestoreSession, Initialized,
   Recover, PostFails, PostSucceeds, ClientInitialized, Reinitialized, Restored, RestoreFails,
   DeleteSession, Deleted, Exchange, Done, ListenerServes, Refuse, Unknown, OpenSession, Dispatch,
   Notice, Delete, Serve
<1>3. sessionId' \in Nat
  BY DEF ProxyTypeOK, NoSession, vars, client, proxy, Next, Forward, ProxyRuns, ExchangeFails, Close,
   ShutdownDeadline, SessionExpires, Exited, AlreadyInitialized, ForwardOne, ForwardWithoutSession,
   RestoreSession, Initialized,
   Recover, PostFails, PostSucceeds, ClientInitialized, Reinitialized, Restored, RestoreFails,
   DeleteSession, Deleted, ListenerServes, Refuse, Unknown, OpenSession, Dispatch,
   Notice, Delete, Serve
<1>4. Nothing \in [status : Statuses, session : Nat]
  BY DEF Nothing, Reply, Statuses, NoSession
<1>5. queue # <<>> => Head(queue) \in DOMAIN kind /\ Head(queue) \in Nat
  BY Tails, LenProperties DEF ProxyTypeOK
<1>6. ASSUME NEW what \in {"post", "reinit", "reinited", "delete"}, NEW s \in Nat, Exchange(what, s)
      PROVE  wire' \subseteq Exchanges
  BY <1>5, <1>6 DEF Exchange, Exchanges, ProxyTypeOK
<1>7. ASSUME NEW x, NEW replies \in SUBSET Statuses, NEW granted \in Nat, Serve(x, replies, granted)
      PROVE  wire' \subseteq Exchanges /\ response' \in [status : Statuses, session : Nat]
  <2>1. \A r \in replies : Reply(r, granted) \in [status : Statuses, session : Nat]
    BY DEF Reply
  <2> QED
    BY <1>7, <2>1 DEF Serve, ProxyTypeOK
<1>8. /\ opened' \in Seq({"post", "reinit"}) /\ live' \subseteq Nat
      /\ dispatched' \in [Requests -> Nat]
      /\ wire' \subseteq Exchanges /\ response' \in [status : Statuses, session : Nat]
  <2>1. ASSUME NEW x \in wire, ListenerServes(x)
        PROVE  /\ opened' \in Seq({"post", "reinit"}) /\ live' \subseteq Nat
               /\ dispatched' \in [Requests -> Nat]
               /\ wire' \subseteq Exchanges /\ response' \in [status : Statuses, session : Nat]
    <3>1. CASE OpenSession(x)
      <4>1. x.what \in {"post", "reinit"}
        BY <3>1 DEF OpenSession, Opens
      <4>2. opened' \in Seq({"post", "reinit"}) /\ Len(opened') \in Nat
        BY <3>1, <4>1, Longer, LenProperties DEF OpenSession, ProxyTypeOK
      <4> QED
        BY <1>7, <3>1, <4>2 DEF OpenSession, Statuses, ProxyTypeOK
    <3>2. CASE Dispatch(x)
      <4>1. x.request \in Requests
        BY <2>1, <3>2, LenProperties, ProxyAssumption DEF Dispatch, PostsAreOfReadRequests, ProxyTypeOK, Requests
      <4>2. dispatched' \in [Requests -> Nat]
        BY <3>2, <4>1 DEF Dispatch, ProxyTypeOK
      <4> QED
        BY <1>7, <3>2, <4>2 DEF Dispatch, Statuses, ProxyTypeOK, NoSession
    <3>3. CASE Refuse(x) \/ Unknown(x) \/ Notice(x) \/ Delete(x)
      BY <1>7, <3>3 DEF Refuse, Unknown, Notice, Delete, listener, Statuses, ProxyTypeOK, NoSession
    <3> QED
      BY <2>1, <3>1, <3>2, <3>3 DEF ListenerServes
  <2>2. CASE ~\E x \in wire : ListenerServes(x)
    <3>1. opened' = opened /\ live' \subseteq live /\ dispatched' = dispatched
      BY <2>2 DEF vars, client, proxy, listener, Next, Forward, ProxyRuns, ExchangeFails, Close,
        ShutdownDeadline, SessionExpires, Exited, AlreadyInitialized, ForwardOne,
        ForwardWithoutSession, RestoreSession, Recover, PostFails, PostSucceeds, ClientInitialized,
        Reinitialized, Restored, RestoreFails, DeleteSession, Deleted
    <3>2. wire' = wire \/ \E what \in {"post", "reinit", "reinited", "delete"}, s \in Nat : Exchange(what, s)
      BY <1>0, <2>2 DEF ProxyTypeOK, NoSession, Initialized, vars, client, proxy, listener, Next, Forward, ProxyRuns, ExchangeFails, Close,
        ShutdownDeadline, SessionExpires, Exited, AlreadyInitialized, ForwardOne,
        ForwardWithoutSession, RestoreSession, Recover, PostFails, PostSucceeds, ClientInitialized,
        Reinitialized, Restored, RestoreFails, DeleteSession, Deleted
    <3>3. response' \in [status : Statuses, session : Nat]
      <4>1. response' = response \/ response' = Nothing \/ response' = Reply("failed", NoSession)
        BY <2>2 DEF vars, client, proxy, listener, Next, Forward, ProxyRuns, ExchangeFails, Close,
          ShutdownDeadline, SessionExpires, Exited, AlreadyInitialized, ForwardOne,
          ForwardWithoutSession, RestoreSession, Recover, PostFails, PostSucceeds, ClientInitialized,
          Reinitialized, Restored, RestoreFails, DeleteSession, Deleted, Exchange, Done
      <4> QED
        BY <1>4, <4>1 DEF ProxyTypeOK, Reply, NoSession, Statuses
    <3> QED
      BY <1>6, <3>1, <3>2, <3>3 DEF ProxyTypeOK
  <2> QED
    BY <2>1, <2>2
<1> QED
  BY <1>1, <1>2, <1>3, <1>8 DEF ProxyTypeOK

-----------------------------------------------------------------------------
(* Lines are answered once and in their order. *)
LEMMA OrderIsKept == ProxyTypeOK /\ AnsweredInOrder /\ HeadInStep /\ [Next]_vars => AnsweredInOrder'
<1> SUFFICES ASSUME ProxyTypeOK, AnsweredInOrder, HeadInStep, [Next]_vars PROVE AnsweredInOrder'
  OBVIOUS
<1> DEFINE Rs == [request : DOMAIN kind, said : Words]
<1>0. /\ kind \in Seq({"initialize", "call"}) /\ queue \in Seq(DOMAIN kind) /\ answers \in Seq(Rs)
  BY DEF ProxyTypeOK
<1>1. PICK a, q, n \in Nat :
      /\ a = Len(answers) /\ q = Len(queue) /\ n = Len(kind)
      /\ DOMAIN answers = 1 .. a /\ DOMAIN queue = 1 .. q /\ DOMAIN kind = 1 .. n
  BY <1>0, LenProperties
<1>2. /\ \A i \in 1 .. a : answers[i] \in Rs /\ answers[i].request \in 1 .. n
      /\ \A i \in 1 .. q : queue[i] \in 1 .. n
  <2>1. /\ \A i \in 1 .. a : answers[i] \in Rs
        /\ \A i \in 1 .. q : queue[i] \in DOMAIN kind
    BY <1>0, <1>1, ElementOfSeq
  <2> QED
    BY <1>1, <2>1 DEF Rs
<1> HIDE DEF Rs
<1>3. /\ \A m \in 1 .. n : Answered(m) <=> ~Queued(m)
      /\ \A i, j \in 1 .. a : answers[i].request = answers[j].request => i = j
      /\ \A i, j \in 1 .. a :
           i < j /\ InLine(i) /\ InLine(j) => answers[i].request < answers[j].request
      /\ \A i \in 1 .. a, j \in 1 .. q : InLine(i) => answers[i].request < queue[j]
      /\ \A i, j \in 1 .. q : i < j => queue[i] < queue[j]
  BY <1>1 DEF AnsweredInOrder
<1>4. CASE UNCHANGED <<kind, answers, queue>>
  BY <1>4 DEF AnsweredInOrder, Answered, Queued, InLine
<1>5. CASE Forward
  <2>1. PICK k \in {"initialize", "call"} : kind' = Append(kind, k)
    BY <1>5 DEF Forward
  <2>2. Len(kind') = n + 1 /\ DOMAIN kind' = 1 .. (n + 1)
    BY <1>0, <1>1, <2>1, Longer
  <2>3. CASE answers' = Append(answers, [request |-> n + 1, said |-> "closing"]) /\ queue' = queue
    <3>1. /\ DOMAIN answers' = 1 .. (a + 1)
          /\ \A i \in 1 .. a : answers'[i] = answers[i]
          /\ answers'[a + 1] = [request |-> n + 1, said |-> "closing"]
      BY <1>0, <1>1, <2>3, AppendedLast
    <3>2. answers'[a + 1].request = n + 1 /\ answers'[a + 1].said = "closing"
      BY <3>1
    <3>3. \A m \in 1 .. (n + 1) : Answered(m)' <=> ~Queued(m)'
      <4>1. \A m \in 1 .. n : (Answered(m)' <=> Answered(m)) /\ (Queued(m)' <=> Queued(m))
        BY <1>1, <1>2, <2>3, <3>1, <3>2 DEF Answered, Queued
      <4>2. Answered(n + 1)' /\ ~Queued(n + 1)'
        BY <1>1, <1>2, <2>3, <3>1, <3>2 DEF Answered, Queued
      <4> QED
        BY <1>1, <1>3, <4>1, <4>2
    <3>4. \A i, j \in 1 .. (a + 1) : answers'[i].request = answers'[j].request => i = j
      BY <1>1, <1>2, <1>3, <3>1, <3>2
    <3>5. \A i \in 1 .. (a + 1) : InLine(i)' => i \in 1 .. a /\ InLine(i)
      BY <1>1, <3>1, <3>2 DEF InLine
    <3>6. \A i, j \in 1 .. (a + 1) :
            i < j /\ InLine(i)' /\ InLine(j)' => answers'[i].request < answers'[j].request
      BY <1>3, <3>1, <3>5
    <3>7. \A i \in 1 .. (a + 1), j \in 1 .. q : InLine(i)' => answers'[i].request < queue'[j]
      BY <1>3, <2>3, <3>1, <3>5
    <3> QED
      BY <1>1, <1>3, <2>2, <2>3, <3>1, <3>3, <3>4, <3>6, <3>7 DEF AnsweredInOrder
  <2>4. CASE queue' = Append(queue, n + 1) /\ answers' = answers
    <3>1. /\ DOMAIN queue' = 1 .. (q + 1)
          /\ \A i \in 1 .. q : queue'[i] = queue[i]
          /\ queue'[q + 1] = n + 1
      BY <1>0, <1>1, <2>4, AppendedLast
    <3>2. \A m \in 1 .. (n + 1) : Answered(m)' <=> ~Queued(m)'
      <4>1. \A m \in 1 .. n : (Answered(m)' <=> Answered(m)) /\ (Queued(m)' <=> Queued(m))
        BY <1>1, <1>2, <2>4, <3>1 DEF Answered, Queued
      <4>2. Queued(n + 1)' /\ ~Answered(n + 1)'
        BY <1>1, <1>2, <2>4, <3>1 DEF Answered, Queued
      <4> QED
        BY <1>1, <1>3, <4>1, <4>2
    <3>3. \A i \in 1 .. a, j \in 1 .. (q + 1) : InLine(i) => answers[i].request < queue'[j]
      BY <1>1, <1>2, <1>3, <3>1
    <3>4. \A i, j \in 1 .. (q + 1) : i < j => queue'[i] < queue'[j]
      <4> SUFFICES ASSUME NEW i \in 1 .. (q + 1), NEW j \in 1 .. (q + 1), i < j
                   PROVE  queue'[i] < queue'[j]
        OBVIOUS
      <4>1. i \in 1 .. q /\ (j = q + 1 \/ j \in 1 .. q)
        BY <1>1
      <4>2. queue'[i] = queue[i] /\ queue[i] \in 1 .. n
        BY <1>2, <3>1, <4>1
      <4>3. CASE j = q + 1
        BY <1>1, <3>1, <4>2, <4>3
      <4>4. CASE j \in 1 .. q
        BY <1>3, <3>1, <4>1, <4>2, <4>4
      <4> QED
        BY <4>1, <4>3, <4>4
    <3> QED
      BY <1>1, <1>3, <2>2, <2>4, <3>1, <3>2, <3>3, <3>4 DEF AnsweredInOrder, InLine
  <2> QED
    BY <1>5, <2>2, <2>3, <2>4 DEF Forward, Answer
<1>6. ASSUME NEW said \in Words, Done(said), kind' = kind, queue # <<>>
      PROVE  AnsweredInOrder'
  <2>1. /\ q > 0 /\ DOMAIN queue' = 1 .. (q - 1) /\ Head(queue) = queue[1]
        /\ \A i \in 1 .. (q - 1) : queue'[i] = queue[i + 1]
    BY <1>0, <1>1, <1>6, Tails DEF Done
  <2>a. PICK h : h = queue[1]
    OBVIOUS
  <2>2. /\ DOMAIN answers' = 1 .. (a + 1)
        /\ \A i \in 1 .. a : answers'[i] = answers[i]
        /\ answers'[a + 1] = [request |-> h, said |-> said]
    <3>1. answers' = Append(answers, [request |-> h, said |-> said])
      BY <1>6, <2>1, <2>a DEF Done, Answer
    <3> QED
      BY <1>0, <1>1, <3>1, AppendedLast
  <2>3. answers'[a + 1].request = h
    BY <2>2
  <2>4. /\ h \in 1 .. n /\ \A i \in 1 .. (q - 1) : h < queue'[i]
        /\ \A i \in 1 .. a : answers[i].request # h
        /\ \A i \in 1 .. a : InLine(i) => answers[i].request < h
    <3>1. 1 \in 1 .. q /\ h \in 1 .. n
      BY <1>1, <1>2, <2>1, <2>a
    <3>2. ~Answered(h)
      <4>1. Queued(h)
        BY <1>1, <2>a, <3>1 DEF Queued
      <4> QED
        BY <1>3, <3>1, <4>1
    <3>3. \A i \in 1 .. (q - 1) : h < queue'[i]
      <4> SUFFICES ASSUME NEW i \in 1 .. (q - 1) PROVE h < queue'[i]
        OBVIOUS
      <4>1. i + 1 \in 1 .. q /\ 1 < i + 1
        BY <1>1
      <4> QED
        BY <1>3, <2>1, <2>a, <3>1, <4>1
    <3>4. \A i \in 1 .. a : answers[i].request # h
      BY <1>1, <3>2 DEF Answered
    <3>5. \A i \in 1 .. a : InLine(i) => answers[i].request < h
      BY <1>3, <2>a, <3>1
    <3> QED
      BY <3>1, <3>3, <3>4, <3>5
  <2>5. \A m \in 1 .. n : m # h => (Queued(m)' <=> Queued(m))
    <3> SUFFICES ASSUME NEW m \in 1 .. n, m # h PROVE Queued(m)' <=> Queued(m)
      OBVIOUS
    <3>1. ASSUME Queued(m) PROVE Queued(m)'
      <4>1. PICK i \in 1 .. q : queue[i] = m
        BY <1>1, <3>1 DEF Queued
      <4>2. i # 1 /\ i - 1 \in 1 .. (q - 1) /\ (i - 1) + 1 = i
        BY <1>1, <2>a, <4>1
      <4>3. queue'[i - 1] = m
        BY <2>1, <4>1, <4>2
      <4> QED
        BY <2>1, <4>2, <4>3 DEF Queued
    <3>2. ASSUME Queued(m)' PROVE Queued(m)
      <4>1. PICK i \in 1 .. (q - 1) : queue'[i] = m
        BY <2>1, <3>2 DEF Queued
      <4>2. i + 1 \in 1 .. q /\ queue[i + 1] = m
        BY <1>1, <2>1, <4>1
      <4> QED
        BY <1>1, <4>2 DEF Queued
    <3> QED
      BY <3>1, <3>2
  <2>6. \A m \in 1 .. n : Answered(m)' <=> (Answered(m) \/ m = h)
    BY <1>1, <2>2, <2>3 DEF Answered
  <2>7. ~Queued(h)'
    BY <2>1, <2>4 DEF Queued
  <2>8. \A m \in 1 .. n : Answered(m)' <=> ~Queued(m)'
    BY <1>3, <2>5, <2>6, <2>7
  <2>9. \A i, j \in 1 .. (a + 1) : answers'[i].request = answers'[j].request => i = j
    BY <1>1, <1>3, <2>2, <2>3, <2>4
  <2>10. \A i \in 1 .. a : InLine(i)' <=> InLine(i)
    BY <2>2 DEF InLine
  <2>11. \A i, j \in 1 .. (a + 1) :
          i < j /\ InLine(i)' /\ InLine(j)' => answers'[i].request < answers'[j].request
    BY <1>1, <1>2, <1>3, <2>2, <2>3, <2>4, <2>10
  <2>12. \A i \in 1 .. (a + 1), j \in 1 .. (q - 1) : InLine(i)' => answers'[i].request < queue'[j]
    <3> SUFFICES ASSUME NEW i \in 1 .. (a + 1), NEW j \in 1 .. (q - 1), InLine(i)'
                 PROVE  answers'[i].request < queue'[j]
      OBVIOUS
    <3>1. j + 1 \in 1 .. q /\ queue'[j] = queue[j + 1]
      BY <1>1, <2>1
    <3>2. CASE i = a + 1
      BY <2>3, <2>4, <3>2
    <3>3. CASE i \in 1 .. a
      BY <1>3, <2>2, <2>10, <3>1, <3>3
    <3> QED
      BY <1>1, <3>2, <3>3
  <2>13. \A i, j \in 1 .. (q - 1) : i < j => queue'[i] < queue'[j]
    BY <1>1, <1>3, <2>1
  <2> QED
    BY <1>1, <1>6, <2>1, <2>2, <2>8, <2>9, <2>11, <2>12, <2>13 DEF AnsweredInOrder
<1> QED
  BY <1>4, <1>5, <1>6, ClientView

-----------------------------------------------------------------------------
(* The post that stands for a request, sent from where the proxy is. *)
PostOf(m) == [what |-> "post", session |-> sessionId, request |-> m]

(* What a step does to one request: nothing, it sends its post, or it      *)
(* takes one off the wire and runs it once or not at all.                  *)
LEMMA RequestView ==
  ASSUME ProxyTypeOK, HeadInStep, [Next]_vars, NEW m \in Requests
  PROVE  \/ Posts(m)' = Posts(m) /\ dispatched'[m] = dispatched[m]
         \/ /\ ForwardOne \/ Restored
            /\ queue # <<>> /\ m = Head(queue) /\ pc \in {"idle", "reinited"}
            /\ dispatched'[m] = dispatched[m] /\ Posts(m)' = Posts(m) \cup {PostOf(m)}
         \/ \E x \in Posts(m) :
              /\ ListenerServes(x) /\ Posts(m)' = Posts(m) \ {x}
              /\ dispatched'[m] = dispatched[m] \/ dispatched'[m] = dispatched[m] + 1
<1>1. CASE UNCHANGED <<wire, dispatched>>
  BY <1>1 DEF Posts
<1>2. ASSUME ForwardOne \/ Restored, dispatched' = dispatched
      PROVE  \/ Posts(m)' = Posts(m)
             \/ /\ queue # <<>> /\ m = Head(queue) /\ pc \in {"idle", "reinited"}
                /\ Posts(m)' = Posts(m) \cup {PostOf(m)}
  <2>1. queue # <<>> /\ pc \in {"idle", "reinited"}
    BY <1>2 DEF HeadInStep, ForwardOne, Restored, Starting
  <2>2. wire' = wire \cup {PostOf(Head(queue))}
    BY <1>2, <2>1 DEF ForwardOne, Restored, Exchange, PostOf
  <2> QED
    BY <2>1, <2>2 DEF Posts, PostOf
<1>3. ASSUME NEW what \in {"reinit", "reinited", "delete"}, NEW s, Exchange(what, s)
      PROVE  Posts(m)' = Posts(m)
  BY <1>3 DEF Exchange, Posts
<1>4. ASSUME NEW x \in wire, ListenerServes(x)
      PROVE  \/ Posts(m)' = Posts(m) /\ dispatched'[m] = dispatched[m]
             \/ /\ x \in Posts(m) /\ Posts(m)' = Posts(m) \ {x}
                /\ dispatched'[m] = dispatched[m] \/ dispatched'[m] = dispatched[m] + 1
  <2>1. wire' = wire \ {x}
    BY <1>4 DEF ListenerServes, Refuse, Unknown, OpenSession, Dispatch, Notice, Delete, Serve
  <2>2. Posts(m)' = Posts(m) \ {x}
    BY <2>1 DEF Posts
  <2>3. \/ dispatched' = dispatched
        \/ x.what = "post" /\ dispatched' = [dispatched EXCEPT ![x.request] = @ + 1]
    BY <1>4 DEF ListenerServes, Refuse, Unknown, OpenSession, Dispatch, Notice, Delete, listener
  <2>4. /\ dispatched'[m] = dispatched[m] \/ dispatched'[m] = dispatched[m] + 1
        /\ x \in Posts(m) \/ dispatched'[m] = dispatched[m]
    BY <1>4, <2>3 DEF ProxyTypeOK, Posts
  <2> QED
    BY <2>2, <2>4
<1> QED
  BY <1>1, <1>2, <1>3, <1>4, WireView

(* A request that was never sent stays so until it is its turn. *)
LEMMA UnsentStands ==
  ASSUME ProxyTypeOK, HeadInStep, [Next]_vars, NEW m \in Requests, Unsent(m),
         (ForwardOne \/ Restored) /\ queue # <<>> => m # Head(queue)
  PROVE  Unsent(m)'
BY RequestView DEF Unsent

(* What has run has run. *)
LEMMA RunStands ==
  ASSUME ProxyTypeOK, HeadInStep, [Next]_vars, NEW m \in Requests, dispatched[m] > 0
  PROVE  dispatched'[m] > 0
<1>1. dispatched[m] \in Nat
  BY DEF ProxyTypeOK
<1> QED
  BY <1>1, RequestView

(* A request is posted once, so it runs at most once. *)
LEMMA SentOnceIsKept ==
  ASSUME ProxyTypeOK, HeadInStep, [Next]_vars, NEW m \in Requests, SentOnce(m)
  PROVE  SentOnce(m)'
<1>1. dispatched[m] \in Nat
  BY DEF ProxyTypeOK
<1>2. CASE Posts(m)' = Posts(m) /\ dispatched'[m] = dispatched[m]
  BY <1>2 DEF SentOnce
<1>3. CASE /\ queue # <<>> /\ m = Head(queue) /\ pc \in {"idle", "reinited"}
           /\ dispatched'[m] = dispatched[m] /\ Posts(m)' = Posts(m) \cup {PostOf(m)}
  <2>1. Unsent(m)
    BY <1>3 DEF HeadInStep
  <2> QED
    BY <1>3, <2>1 DEF Unsent, SentOnce
<1>4. ASSUME NEW x \in Posts(m), Posts(m)' = Posts(m) \ {x},
             dispatched'[m] = dispatched[m] \/ dispatched'[m] = dispatched[m] + 1
      PROVE  SentOnce(m)'
  <2>1. dispatched[m] = 0 /\ Posts(m) = {x}
    BY <1>4 DEF SentOnce
  <2>2. Posts(m)' = {} /\ dispatched'[m] <= 1
    BY <1>4, <2>1
  <2> QED
    BY <2>2 DEF SentOnce
<1> QED
  BY <1>2, <1>3, <1>4, RequestView

(* Only requests that were read are posted. *)
LEMMA PostsStayOfReadRequests ==
  ASSUME ProxyTypeOK, HeadInStep, PostsAreOfReadRequests, [Next]_vars
  PROVE  PostsAreOfReadRequests'
<1>1. DOMAIN kind \subseteq DOMAIN kind'
  BY ClientTypesKept
<1>2. queue # <<>> => Head(queue) \in DOMAIN kind
  BY Tails DEF ProxyTypeOK
<1>3. CASE UNCHANGED <<wire, dispatched>>
  BY <1>1, <1>3 DEF PostsAreOfReadRequests
<1>4. CASE ForwardOne \/ Restored
  <2>1. queue # <<>>
    BY <1>4 DEF HeadInStep, ForwardOne, Restored, Starting
  <2>2. wire' = wire \cup {PostOf(Head(queue))}
    BY <1>4, <2>1 DEF ForwardOne, Restored, Exchange, PostOf
  <2> QED
    BY <1>1, <1>2, <2>1, <2>2 DEF PostsAreOfReadRequests, PostOf
<1>5. ASSUME NEW what \in {"reinit", "reinited", "delete"}, NEW s, Exchange(what, s)
      PROVE  PostsAreOfReadRequests'
  BY <1>1, <1>5 DEF PostsAreOfReadRequests, Exchange
<1>6. ASSUME NEW x \in wire, ListenerServes(x) PROVE PostsAreOfReadRequests'
  <2>1. wire' = wire \ {x}
    BY <1>6 DEF ListenerServes, Refuse, Unknown, OpenSession, Dispatch, Notice, Delete, Serve
  <2> QED
    BY <1>1, <2>1 DEF PostsAreOfReadRequests
<1> QED
  BY <1>3, <1>4, <1>5, <1>6, WireView

-----------------------------------------------------------------------------
(* When forwardOne is over for a call, what it tells the client is so.     *)
LEMMA DoneView ==
  ASSUME ProxyTypeOK, HeadInStep, [Next]_vars
  PROVE  \/ UNCHANGED <<kind, answers, queue>>
         \/ Forward
         \/ \E said \in Words :
              /\ Done(said) /\ kind' = kind /\ queue # <<>>
              /\ UNCHANGED <<wire, dispatched>>
              /\ IsCall(Head(queue)) =>
                   /\ said # "closing"
                   /\ said = "refused" => Unsent(Head(queue))
                   /\ said \in {"ok", "empty"} => dispatched[Head(queue)] > 0
<1> DEFINE h == Head(queue)
           True(said) == /\ said # "closing"
                         /\ said = "refused" => Unsent(h)
                         /\ said \in {"ok", "empty"} => dispatched[h] > 0
           DoneWith(said) == /\ Done(said) /\ kind' = kind /\ queue # <<>>
                             /\ UNCHANGED <<wire, dispatched>>
                             /\ IsCall(h) => True(said)
<1>1. IsInitialize => ~IsCall(h)
  BY DEF IsInitialize, IsCall
<1>2. queue # <<>> /\ ~IsInitialize => IsCall(h)
  BY Tails, ElementOfSeq DEF ProxyTypeOK, IsInitialize, IsCall
<1>3. ASSUME AlreadyInitialized PROVE DoneWith("refused")
  BY <1>1, <1>3 DEF AlreadyInitialized, Starting, listener
<1>4. ASSUME ForwardWithoutSession, Done("refused") PROVE DoneWith("refused")
  BY <1>4 DEF ForwardWithoutSession, Starting, HeadInStep, RestoreSession, Done, Exchange, listener
<1>5. ASSUME Recover, Done("refused") PROVE DoneWith("refused")
  BY <1>2, <1>5 DEF Recover, SessionMissing, HeadInStep, AwaitedPost, RestoreSession, Done, Exchange, listener
<1>6. ASSUME PostFails PROVE DoneWith("ambiguous") \/ DoneWith("refused")
  BY <1>6 DEF PostFails, HeadInStep, AwaitedPost, listener
<1>7. ASSUME PostSucceeds PROVE DoneWith(response.status) /\ response.status \in Words
  BY <1>2, <1>7 DEF PostSucceeds, HeadInStep, AwaitedPost, Words, listener
<1>8. ASSUME ClientInitialized PROVE DoneWith("ok")
  BY <1>8 DEF ClientInitialized, Initialized, HeadInStep, AwaitedPost, listener
<1>9. ASSUME RestoreFails PROVE DoneWith("refused")
  BY <1>9 DEF RestoreFails, HeadInStep, listener
<1>10. \/ UNCHANGED <<kind, answers, queue>>
       \/ Forward \/ AlreadyInitialized \/ PostFails \/ PostSucceeds \/ ClientInitialized \/ RestoreFails
       \/ ForwardWithoutSession /\ Done("refused")
       \/ Recover /\ Done("refused")
  BY DEF vars, client, proxy, Next, ProxyRuns, ExchangeFails, Close, ShutdownDeadline,
     SessionExpires, Exited, ForwardOne, ForwardWithoutSession, RestoreSession,
     Recover, Reinitialized, Restored, DeleteSession, Deleted, Exchange, ListenerServes, Refuse,
     Unknown, OpenSession, Dispatch, Notice, Delete, Serve
<1>11. {"refused", "ambiguous", "ok"} \subseteq Words
  BY DEF Words
<1> HIDE DEF DoneWith
<1>12. UNCHANGED <<kind, answers, queue>> \/ Forward \/ \E said \in Words : DoneWith(said)
  BY <1>3, <1>4, <1>5, <1>6, <1>7, <1>8, <1>9, <1>10, <1>11
<1> QED
  BY <1>12 DEF DoneWith

(* A line read is a new request; nothing else happens. *)
LEMMA ForwardView ==
  ASSUME ProxyTypeOK, LaterAreUnsent, Forward
  PROVE  \E n \in Requests :
           /\ n \notin DOMAIN kind /\ DOMAIN kind' = DOMAIN kind \cup {n}
           /\ Unsent(n) /\ UNCHANGED <<wire, dispatched, response, sessionId, pc, closing>>
           /\ \A m \in DOMAIN kind : kind'[m] = kind[m]
           /\ \/ closing /\ queue' = queue /\ Answer(n, "closing")
              \/ ~closing /\ queue' = Append(queue, n) /\ answers' = answers
<1>1. PICK k \in {"initialize", "call"} : kind' = Append(kind, k)
  BY DEF Forward
<1>2. PICK n \in Nat : n = Len(kind) + 1 /\ n = Len(kind') /\ n > 0
  BY <1>1, LenProperties, Longer DEF ProxyTypeOK
<1>3. /\ DOMAIN kind = 1 .. (n - 1) /\ DOMAIN kind' = 1 .. n
      /\ \A m \in DOMAIN kind : kind'[m] = kind[m]
  BY <1>1, <1>2, LenProperties, Longer DEF ProxyTypeOK
<1>4. n \in Requests /\ n \notin DOMAIN kind /\ DOMAIN kind' = DOMAIN kind \cup {n}
  BY <1>2, <1>3, ProxyAssumption, LenProperties DEF Requests, Forward, ProxyTypeOK
<1>5. Unsent(n)
  BY <1>4 DEF LaterAreUnsent
<1> QED
  BY <1>2, <1>3, <1>4, <1>5 DEF Forward, listener

-----------------------------------------------------------------------------
(* Requests that are queued are read, and are requests. *)
LEMMA QueuedAreRequests ==
  ASSUME ProxyTypeOK
  PROVE  /\ DOMAIN kind \subseteq Requests
         /\ \A i \in DOMAIN queue : queue[i] \in DOMAIN kind
         /\ queue # <<>> => Head(queue) = queue[1] /\ 1 \in DOMAIN queue
<1>1. kind \in Seq({"initialize", "call"}) /\ Len(kind) <= Lines /\ queue \in Seq(DOMAIN kind)
  BY DEF ProxyTypeOK
<1>2. DOMAIN kind \subseteq Requests
  BY <1>1, LenProperties, ProxyAssumption DEF Requests
<1>3. \A i \in DOMAIN queue : queue[i] \in DOMAIN kind
  BY <1>1, ElementOfSeq, LenProperties
<1>4. queue # <<>> => Head(queue) = queue[1] /\ 1 \in DOMAIN queue
  BY <1>1, Tails
<1> QED
  BY <1>2, <1>3, <1>4

(* What is not the head of the queue, or not to be read yet, stays unsent. *)
LEMMA LaterStayUnsent ==
  ASSUME ProxyTypeOK, AnsweredInOrder, HeadInStep, LaterAreUnsent, [Next]_vars
  PROVE  LaterAreUnsent'
<1>1. /\ DOMAIN kind \subseteq Requests
      /\ \A i \in DOMAIN queue : queue[i] \in Requests /\ queue[i] \in DOMAIN kind
      /\ queue # <<>> => Head(queue) = queue[1] /\ 1 \in DOMAIN queue
  BY QueuedAreRequests
<1>2. DOMAIN queue = 1 .. Len(queue) /\ Len(queue) \in Nat
  BY LenProperties DEF ProxyTypeOK
<1>3. \A i \in DOMAIN queue : i > 1 => Unsent(queue[i]) /\ (queue # <<>> => queue[i] # Head(queue))
  <2>1. \A i, j \in DOMAIN queue : i < j => queue[i] < queue[j]
    BY DEF AnsweredInOrder
  <2>2. \A i \in DOMAIN queue : queue[i] \in Nat
    BY <1>1 DEF Requests
  <2> QED
    BY <1>1, <1>2, <2>1, <2>2 DEF LaterAreUnsent
<1>4. \A i \in DOMAIN queue : i > 1 /\ queue'[i] = queue[i] => Unsent(queue[i])'
  <2> SUFFICES ASSUME NEW i \in DOMAIN queue, i > 1, queue'[i] = queue[i]
               PROVE  Unsent(queue[i])'
    OBVIOUS
  <2>1. PICK m \in Requests : m = queue[i]
    BY <1>1
  <2>2. Unsent(m)'
    BY <1>3, <2>1, UnsentStands
  <2> QED
    BY <2>1, <2>2 DEF Unsent, Posts
<1>5. \A m \in Requests : m \notin DOMAIN kind => Unsent(m)'
  <2> SUFFICES ASSUME NEW m \in Requests, m \notin DOMAIN kind PROVE Unsent(m)'
    OBVIOUS
  <2>1. Unsent(m) /\ (queue # <<>> => m # Head(queue))
    BY <1>1 DEF LaterAreUnsent
  <2> QED
    BY <2>1, UnsentStands
<1>6. \A m \in Requests : m \notin DOMAIN kind' => Unsent(m)'
  BY <1>5, ClientTypesKept
<1>7. ASSUME queue' = queue PROVE LaterAreUnsent'
  BY <1>4, <1>6, <1>7 DEF LaterAreUnsent
<1>8. ASSUME NEW n \in Requests, n \notin DOMAIN kind, queue' = Append(queue, n)
      PROVE  LaterAreUnsent'
  <2>1. /\ DOMAIN queue' = 1 .. (Len(queue) + 1)
        /\ \A i \in 1 .. Len(queue) : queue'[i] = queue[i]
        /\ queue'[Len(queue) + 1] = n
    BY <1>8, AppendedLast DEF ProxyTypeOK
  <2>2. Unsent(n)'
    BY <1>5, <1>8
  <2>3. \A i \in DOMAIN queue' : i \in DOMAIN queue \/ queue'[i] = n
    BY <1>2, <2>1
  <2>4. \A i \in DOMAIN queue' : i > 1 => Unsent(queue[i])'
    <3> SUFFICES ASSUME NEW i \in DOMAIN queue', i > 1 PROVE Unsent(queue[i])'
      OBVIOUS
    <3>1. CASE i \in DOMAIN queue
      BY <1>2, <1>4, <2>1, <3>1
    <3>2. CASE queue'[i] = n
      BY <2>2, <3>2 DEF Unsent, Posts
    <3> QED
      BY <2>3, <3>1, <3>2
  <2> QED
    BY <1>6, <2>4 DEF LaterAreUnsent
<1>9. ASSUME queue # <<>>, queue' = Tail(queue)
      PROVE  LaterAreUnsent'
  <2>1. /\ DOMAIN queue' = 1 .. (Len(queue) - 1)
        /\ \A i \in 1 .. (Len(queue) - 1) : queue'[i] = queue[i + 1]
    BY <1>9, Tails DEF ProxyTypeOK
  <2>2. ASSUME NEW i \in DOMAIN queue', i > 1 PROVE Unsent(queue[i])'
    <3>1. i + 1 \in DOMAIN queue /\ i + 1 > 1 /\ queue'[i] = queue[i + 1]
      BY <1>2, <2>1, <2>2
    <3>2. PICK m \in Requests : m = queue[i + 1]
      BY <1>1, <3>1
    <3>3. Unsent(m)'
      BY <1>3, <3>1, <3>2, UnsentStands
    <3> QED
      BY <3>1, <3>2, <3>3 DEF Unsent, Posts
  <2> QED
    BY <1>6, <2>2 DEF LaterAreUnsent
<1>10. CASE Forward
  BY <1>7, <1>8, <1>10, ForwardView
<1> QED
  BY <1>7, <1>9, <1>10, ClientView DEF Done

-----------------------------------------------------------------------------
(* The awaited post while the listener serves. *)
LEMMA AwaitedPostStands ==
  ASSUME ProxyTypeOK, HeadInStep, [Next]_vars, NEW h \in Requests, AwaitedPost(h),
         pc = "post", queue # <<>>, h = Head(queue), NEW x \in wire, ListenerServes(x)
  PROVE  AwaitedPost(h)'
<1>1. /\ Posts(h)' = Posts(h) \ {x} /\ UNCHANGED <<kind, sessionId>>
      /\ dispatched[h] \in Nat
      /\ x \notin Posts(h) => dispatched'[h] = dispatched[h]
  <2>1. wire' = wire \ {x} /\ UNCHANGED <<kind, sessionId>>
    BY DEF ListenerServes, Refuse, Unknown, OpenSession, Dispatch, Notice, Delete, Serve, client, proxy
  <2>2. Posts(h)' = Posts(h) \ {x}
    BY <2>1 DEF Posts
  <2>3. x \notin Posts(h) => dispatched'[h] = dispatched[h]
    BY DEF Posts, ListenerServes, Refuse, Unknown, OpenSession, Dispatch, Notice, Delete, listener, ProxyTypeOK
  <2> QED
    BY <2>1, <2>2, <2>3 DEF ProxyTypeOK
<1>2. IsCall(h)' <=> IsCall(h)
  BY <1>1 DEF IsCall
<1>3. CASE ~Awaited(x)
  <2>1. response' = response
    BY <1>3 DEF ListenerServes, Refuse, Unknown, OpenSession, Dispatch, Notice, Delete, Serve
  <2>2. response = Nothing => x \notin Posts(h)
    BY <1>3 DEF Awaited, Posts
  <2>3. Unsent(h) => Unsent(h)'
    BY <1>1 DEF Unsent
  <2>4. dispatched[h] > 0 => dispatched'[h] > 0
    BY RunStands
  <2> QED
    BY <1>1, <1>2, <2>1, <2>2, <2>3, <2>4 DEF AwaitedPost
<1>4. CASE Awaited(x)
  <2>1. /\ response = Nothing /\ x.what = "post" /\ x.request = h /\ dispatched[h] = 0
        /\ Posts(h)' = {}
    <3>1. response = Nothing /\ x.what = "post" /\ x.request = h
      BY <1>4 DEF Awaited
    <3>2. Posts(h) \subseteq {[what |-> "post", session |-> sessionId, request |-> h]} /\ dispatched[h] = 0
      BY <3>1 DEF AwaitedPost
    <3>3. x \in Posts(h)
      BY <3>1 DEF Posts
    <3> QED
      BY <1>1, <3>1, <3>2, <3>3
  <2>2. response' # Nothing
    BY <1>4 DEF ListenerServes, Refuse, Unknown, OpenSession, Dispatch, Notice, Delete, Serve,
       Nothing, Reply
  <2>3. response'.status = "unknown" => dispatched'[h] = 0
    BY <1>4, <2>1 DEF ListenerServes, Refuse, Unknown, OpenSession, Dispatch, Notice, Delete, Serve,
       Reply, listener
  <2>4. response'.status \in {"ok", "empty"} => dispatched'[h] > 0
    BY <1>1, <1>4, <2>1 DEF ListenerServes, Refuse, Unknown, OpenSession, Dispatch, Notice, Delete,
       Serve, Reply, listener, ProxyTypeOK
  <2>5. response'.status = "opened" => ~IsCall(h)
    BY <1>4, <2>1 DEF ListenerServes, Refuse, Unknown, OpenSession, Dispatch, Notice, Delete, Serve,
       Reply, Opens, IsCall
  <2> QED
    BY <1>2, <2>1, <2>2, <2>3, <2>4, <2>5 DEF AwaitedPost, Unsent
<1> QED
  BY <1>3, <1>4

(* The head of the queue is where the proxy stands. *)
LEMMA HeadStaysInStep ==
  ASSUME ProxyTypeOK, AnsweredInOrder, HeadInStep, LaterAreUnsent, [Next]_vars
  PROVE  HeadInStep'
<1>1. /\ DOMAIN kind \subseteq Requests
      /\ \A i \in DOMAIN queue : queue[i] \in Requests /\ queue[i] \in DOMAIN kind
      /\ queue # <<>> => Head(queue) = queue[1] /\ 1 \in DOMAIN queue
  BY QueuedAreRequests
<1>2. ASSUME NEW m \in Requests, UNCHANGED <<wire, dispatched>>
      PROVE  Unsent(m)' <=> Unsent(m)
  BY <1>2 DEF Unsent, Posts
<1>3. ASSUME UNCHANGED <<queue, pc, wire, dispatched, response, sessionId>>,
             closing => closing', \A m \in DOMAIN kind : kind'[m] = kind[m]
      PROVE  HeadInStep'
  <2>1. CASE queue = <<>>
    BY <1>3, <2>1 DEF HeadInStep
  <2>2. CASE queue # <<>>
    <3>1. PICK h \in Requests : h = Head(queue) /\ h \in DOMAIN kind
      BY <1>1, <2>2
    <3>2. Unsent(h)' <=> Unsent(h)
      BY <1>2, <1>3
    <3>3. AwaitedPost(h)' <=> AwaitedPost(h)
      BY <1>3, <3>1, <3>2 DEF AwaitedPost, IsCall, Posts
    <3>4. HeadInStep' <=> HeadInStep
      BY <1>3, <2>2, <3>1, <3>2, <3>3 DEF HeadInStep, Unsent, Posts, AwaitedPost, IsCall
    <3> QED
      BY <3>4
  <2> QED
    BY <2>1, <2>2
<1>4. CASE Forward
  <2>1. PICK n \in Requests :
          /\ n \notin DOMAIN kind /\ Unsent(n)
          /\ UNCHANGED <<wire, dispatched, response, sessionId, pc, closing>>
          /\ \A m \in DOMAIN kind : kind'[m] = kind[m]
          /\ \/ closing /\ queue' = queue
             \/ ~closing /\ queue' = Append(queue, n)
    BY <1>4, ForwardView
  <2>2. CASE queue' = queue
    BY <1>3, <2>1, <2>2
  <2>3. CASE ~closing /\ queue' = Append(queue, n)
    <3>1. /\ DOMAIN queue' = 1 .. (Len(queue) + 1) /\ Len(queue) \in Nat /\ DOMAIN queue = 1 .. Len(queue)
          /\ \A i \in 1 .. Len(queue) : queue'[i] = queue[i]
          /\ queue'[Len(queue) + 1] = n
      BY <2>3, AppendedLast, LenProperties DEF ProxyTypeOK
    <3>2. queue' # <<>> /\ Head(queue') = queue'[1]
      <4>1. queue' \in Seq(DOMAIN kind') /\ queue' # <<>>
        BY <3>1, ClientTypesKept, EmptySeq
      <4> QED
        BY <4>1, Tails
    <3>3. CASE queue = <<>>
      <4>1. Head(queue') = n
        BY <3>1, <3>2, <3>3
      <4>2. pc' \notin {"post", "reinit", "reinited", "delete"}
        BY <2>1, <2>3, <3>3 DEF HeadInStep
      <4>3. Unsent(n)'
        BY <1>2, <2>1
      <4> QED
        BY <4>1, <4>2, <4>3 DEF HeadInStep, Unsent, Posts
    <3>4. CASE queue # <<>>
      <4>1. PICK h \in Requests : h = Head(queue) /\ h \in DOMAIN kind /\ h = Head(queue')
        BY <1>1, <3>1, <3>2, <3>4
      <4>2. Unsent(h)' <=> Unsent(h)
        BY <1>2, <2>1
      <4>3. AwaitedPost(h)' <=> AwaitedPost(h)
        BY <2>1, <4>1, <4>2 DEF AwaitedPost, IsCall, Posts
      <4>4. pc' # "delete"
        BY <2>1, <2>3 DEF HeadInStep
      <4>5. /\ pc' \in {"idle", "reinit", "reinited"} => Unsent(h)'
            /\ pc' = "post" => AwaitedPost(h)'
        BY <2>1, <3>4, <4>1, <4>2, <4>3 DEF HeadInStep
      <4> QED
        BY <3>2, <4>1, <4>4, <4>5 DEF HeadInStep, Unsent, Posts, AwaitedPost, IsCall
    <3> QED
      BY <3>3, <3>4
  <2> QED
    BY <2>1, <2>2, <2>3
<1>5. ASSUME NEW said \in Words, Done(said), queue # <<>>, UNCHANGED <<wire, dispatched>>
      PROVE  HeadInStep'
  <2>1. pc' = "idle" /\ queue' = Tail(queue)
    BY <1>5 DEF Done
  <2>2. CASE queue' = <<>>
    BY <2>1, <2>2 DEF HeadInStep
  <2>3. CASE queue' # <<>>
    <3>1. /\ DOMAIN queue' = 1 .. (Len(queue) - 1) /\ Len(queue) \in Nat /\ DOMAIN queue = 1 .. Len(queue)
          /\ \A i \in 1 .. (Len(queue) - 1) : queue'[i] = queue[i + 1]
          /\ queue' \in Seq(DOMAIN kind)
      BY <1>5, <2>1, Tails, LenProperties DEF ProxyTypeOK
    <3>2. 1 \in DOMAIN queue' /\ Head(queue') = queue'[1]
      BY <2>3, <3>1, Tails
    <3>3. 2 \in DOMAIN queue /\ queue'[1] = queue[2]
      BY <3>1, <3>2
    <3>4. PICK h \in Requests : h = queue[2]
      BY <1>1, <3>3
    <3>5. Unsent(h)'
      BY <1>2, <1>5, <3>3, <3>4 DEF LaterAreUnsent
    <3> QED
      BY <2>1, <3>2, <3>3, <3>4, <3>5 DEF HeadInStep, Unsent, Posts
  <2> QED
    BY <2>2, <2>3
<1>6. CASE ForwardOne \/ Restored
  <2>1. queue # <<>> /\ pc \in {"idle", "reinited"}
    BY <1>6 DEF HeadInStep, ForwardOne, Restored, Starting
  <2>2. PICK h \in Requests : h = Head(queue)
    BY <1>1, <2>1
  <2>3. Unsent(h)
    BY <2>1, <2>2 DEF HeadInStep
  <2>4. /\ wire' = wire \cup {PostOf(h)} /\ pc' = "post" /\ response' = Nothing
        /\ UNCHANGED <<kind, sessionId, queue, dispatched>>
    BY <1>6, <2>1, <2>2 DEF ForwardOne, Restored, Exchange, PostOf, client, listener
  <2>5. Posts(h)' \subseteq {[what |-> "post", session |-> sessionId, request |-> h]}
    BY <2>3, <2>4 DEF Unsent, Posts, PostOf
  <2>6. AwaitedPost(h)'
    BY <2>3, <2>4, <2>5 DEF AwaitedPost, Unsent, Nothing, Reply
  <2> QED
    BY <2>1, <2>2, <2>4, <2>6 DEF HeadInStep, AwaitedPost, IsCall, Posts, Unsent
<1>7. ASSUME NEW what \in {"reinit", "reinited"}, NEW s, Exchange(what, s),
             queue # <<>>, Unsent(Head(queue)), UNCHANGED <<queue, dispatched>>
      PROVE  HeadInStep'
  <2>1. pc' = what /\ pc' \notin {"post", "delete"}
    BY <1>7 DEF Exchange
  <2>2. \A m : Posts(m)' = Posts(m)
    BY <1>7 DEF Exchange, Posts
  <2>3. Unsent(Head(queue))'
    BY <1>7, <2>2 DEF Unsent
  <2> QED
    BY <1>7, <2>1, <2>3 DEF HeadInStep
<1>8. CASE DeleteSession \/ Deleted \/ ShutdownDeadline
  BY <1>8 DEF DeleteSession, Deleted, ShutdownDeadline, Exchange, HeadInStep
<1>9. CASE ExchangeFails
  <2>1. /\ UNCHANGED <<queue, pc, wire, dispatched, kind, sessionId, closing>>
        /\ response' = Reply("failed", NoSession)
    BY <1>9 DEF ExchangeFails, client, proxy, listener
  <2>2. AwaitedPost(Head(queue))'
    BY <2>1 DEF AwaitedPost, Nothing, Reply
  <2>3. \A m : Unsent(m)' <=> Unsent(m)
    BY <2>1 DEF Unsent, Posts
  <2> QED
    BY <2>1, <2>2, <2>3 DEF HeadInStep, Unsent, Posts
<1>10. ASSUME NEW x \in wire, ListenerServes(x) PROVE HeadInStep'
  <2>1. UNCHANGED <<queue, pc, kind, sessionId, closing>>
    BY <1>10 DEF ListenerServes, Refuse, Unknown, OpenSession, Dispatch, Notice, Delete, Serve,
       client, proxy
  <2>2. CASE queue = <<>>
    BY <2>1, <2>2 DEF HeadInStep
  <2>3. CASE queue # <<>>
    <3>1. PICK h \in Requests : h = Head(queue)
      BY <1>1, <2>3
    <3>2. (~ForwardOne /\ ~Restored) \/ pc' = "post"
      BY DEF ForwardOne, Restored, Exchange
    <3>3. pc \in {"idle", "reinit", "reinited"} => Unsent(h)'
      BY <2>1, <2>3, <3>1, <3>2, UnsentStands DEF HeadInStep
    <3>4. pc = "post" => AwaitedPost(h)'
      BY <1>10, <2>3, <3>1, AwaitedPostStands DEF HeadInStep
    <3> QED
      BY <2>1, <2>3, <3>1, <3>3, <3>4 DEF HeadInStep, Unsent, Posts, AwaitedPost, IsCall
  <2> QED
    BY <2>2, <2>3
<1>11. ASSUME NEW what \in {"reinit", "reinited"}, NEW s, Exchange(what, s),
              ForwardWithoutSession \/ Recover \/ Reinitialized
       PROVE  HeadInStep'
  <2>1. queue # <<>> /\ UNCHANGED <<queue, dispatched>>
    BY <1>11 DEF ForwardWithoutSession, Recover, Reinitialized, SessionMissing, RestoreSession,
       Starting, HeadInStep, Exchange, Done, Initialized, listener
  <2>2. ~IsInitialize => IsCall(Head(queue))
    BY <1>1, <2>1, ElementOfSeq, LenProperties DEF IsInitialize, IsCall, ProxyTypeOK
  <2>3. Unsent(Head(queue))
    BY <1>11, <2>1, <2>2 DEF ForwardWithoutSession, Recover, Reinitialized, SessionMissing,
       Starting, HeadInStep, AwaitedPost, Initialized, Exchange
  <2> QED
    BY <1>7, <1>11, <2>1, <2>3
<1>12. \/ UNCHANGED <<queue, pc, wire, dispatched, response, sessionId, kind>> /\ (closing => closing')
       \/ Forward \/ ForwardOne \/ Restored \/ DeleteSession \/ Deleted \/ ShutdownDeadline
       \/ ExchangeFails
       \/ \E x \in wire : ListenerServes(x)
       \/ \E said \in Words : Done(said) /\ queue # <<>> /\ UNCHANGED <<wire, dispatched>>
       \/ /\ ForwardWithoutSession \/ Recover \/ Reinitialized
          /\ \E what \in {"reinit", "reinited"} : \E s : Exchange(what, s)
  BY DEF vars, client, proxy, listener, Next, ProxyRuns, Close, SessionExpires, Exited,
     AlreadyInitialized, ForwardWithoutSession, RestoreSession, Recover, PostFails, PostSucceeds,
     ClientInitialized, Reinitialized, RestoreFails, SessionMissing, Initialized, Starting, HeadInStep,
     Words
<1> QED
  BY <1>3, <1>4, <1>5, <1>6, <1>8, <1>9, <1>10, <1>11, <1>12

-----------------------------------------------------------------------------
(* What the client was told of a call stays true. *)
LEMMA AnswersStillHold ==
  ASSUME ProxyTypeOK, AnsweredInOrder, HeadInStep, LaterAreUnsent, AnswersHold, [Next]_vars
  PROVE  AnswersHold'
<1>1. /\ DOMAIN kind \subseteq Requests
      /\ \A i \in DOMAIN queue : queue[i] \in DOMAIN kind
      /\ queue # <<>> => Head(queue) = queue[1] /\ 1 \in DOMAIN queue
  BY QueuedAreRequests
<1>2. queue # <<>> => ~Answered(Head(queue))
  BY <1>1 DEF AnsweredInOrder, Queued
<1>3. ASSUME NEW m \in DOMAIN kind, IsCall(m), Said(m, {"refused", "closing"})
      PROVE  Unsent(m)'
  <2>1. Unsent(m) /\ Answered(m)
    BY <1>3 DEF AnswersHold, Said, Answered
  <2> QED
    BY <1>1, <1>2, <2>1, UnsentStands
<1>4. ASSUME NEW m \in DOMAIN kind, IsCall(m), Said(m, {"ok", "empty"})
      PROVE  dispatched'[m] > 0
  BY <1>1, <1>4, RunStands DEF AnswersHold
<1>5. CASE UNCHANGED <<kind, answers, queue>>
  BY <1>3, <1>4, <1>5 DEF AnswersHold, Said, IsCall
<1>6. ASSUME NEW m, NEW word, Answer(m, word)
      PROVE  \A l, W : Said(l, W)' => Said(l, W) \/ (l = m /\ word \in W)
  <2>1. answers \in Seq([request : DOMAIN kind, said : Words]) /\ answers' = Append(answers, [request |-> m, said |-> word])
    BY <1>6 DEF ProxyTypeOK, Answer
  <2>2. PICK a \in Nat : a = Len(answers) /\ DOMAIN answers = 1 .. a
    BY <2>1, LenProperties
  <2>3. /\ DOMAIN answers' = 1 .. (a + 1)
        /\ \A i \in 1 .. a : answers'[i] = answers[i]
        /\ answers'[a + 1] = [request |-> m, said |-> word]
    BY <2>1, <2>2, AppendedLast
  <2>4. \A i \in DOMAIN answers' : i \in DOMAIN answers \/ i = a + 1
    BY <2>2, <2>3
  <2> QED
    BY <2>2, <2>3, <2>4 DEF Said
<1>7. CASE Forward
  <2>1. PICK n \in Requests :
          /\ n \notin DOMAIN kind /\ DOMAIN kind' = DOMAIN kind \cup {n}
          /\ Unsent(n) /\ UNCHANGED <<wire, dispatched>>
          /\ \A m \in DOMAIN kind : kind'[m] = kind[m]
          /\ answers' = answers \/ Answer(n, "closing")
    BY <1>7, ForwardView
  <2>2. \A W : ~Said(n, W)
    <3>1. \A i \in DOMAIN answers : answers[i] \in [request : DOMAIN kind, said : Words]
      BY ElementOfSeq, LenProperties DEF ProxyTypeOK
    <3> QED
      BY <2>1, <3>1 DEF Said
  <2>3. \A m, W : Said(m, W)' => Said(m, W) \/ (m = n /\ "closing" \in W)
    BY <1>6, <2>1 DEF Said
  <2>4. Unsent(n)'
    BY <2>1 DEF Unsent, Posts
  <2>5. ASSUME NEW m \in DOMAIN kind', IsCall(m)'
        PROVE  /\ Said(m, {"refused", "closing"})' => Unsent(m)'
               /\ Said(m, {"ok", "empty"})' => dispatched'[m] > 0
    <3>1. CASE m = n
      BY <2>2, <2>3, <2>4, <3>1
    <3>2. CASE m # n
      <4>1. m \in DOMAIN kind /\ IsCall(m)
        BY <2>1, <2>5, <3>2 DEF IsCall
      <4> QED
        BY <1>3, <1>4, <2>3, <3>2, <4>1
    <3> QED
      BY <3>1, <3>2
  <2> QED
    BY <2>5 DEF AnswersHold
<1>8. ASSUME NEW said \in Words, NEW h, h = Head(queue), Done(said), kind' = kind, queue # <<>>,
             UNCHANGED <<wire, dispatched>>,
             IsCall(h) =>
               /\ said # "closing"
               /\ said = "refused" => Unsent(h)
               /\ said \in {"ok", "empty"} => dispatched[h] > 0
      PROVE  AnswersHold'
  <2>1. \A m, W : Said(m, W)' => Said(m, W) \/ (m = h /\ said \in W)
    BY <1>6, <1>8 DEF Done
  <2>2. \A W : ~Said(h, W)
    BY <1>2, <1>8 DEF Said, Answered
  <2>3. Unsent(h) => Unsent(h)'
    BY <1>8 DEF Unsent, Posts
  <2>4. ASSUME NEW m \in DOMAIN kind', IsCall(m)'
        PROVE  /\ Said(m, {"refused", "closing"})' => Unsent(m)'
               /\ Said(m, {"ok", "empty"})' => dispatched'[m] > 0
    <3>1. m \in DOMAIN kind /\ IsCall(m)
      BY <1>8, <2>4 DEF IsCall
    <3>2. CASE m = h
      BY <1>8, <2>1, <2>2, <2>3, <3>1, <3>2
    <3>3. CASE m # h
      BY <1>3, <1>4, <2>1, <3>1, <3>3
    <3> QED
      BY <3>2, <3>3
  <2> QED
    BY <2>4 DEF AnswersHold
<1> QED
  BY <1>5, <1>7, <1>8, DoneView

(* The invariant is inductive. *)
LEMMA ProxyStep == ProxyInv /\ [Next]_vars => ProxyInv'
<1> SUFFICES ASSUME ProxyInv, [Next]_vars PROVE ProxyInv'
  OBVIOUS
<1>1. /\ ProxyTypeOK /\ AnsweredInOrder /\ PostsAreOfReadRequests
      /\ HeadInStep /\ LaterAreUnsent /\ AnswersHold
      /\ \A m \in Requests : SentOnce(m)
  BY DEF ProxyInv
<1>2. ProxyTypeOK' /\ AnsweredInOrder' /\ PostsAreOfReadRequests'
  BY <1>1, ProxyTypesKept, OrderIsKept, PostsStayOfReadRequests
<1>3. HeadInStep' /\ LaterAreUnsent' /\ AnswersHold'
  BY <1>1, HeadStaysInStep, LaterStayUnsent, AnswersStillHold
<1>4. \A m \in Requests : SentOnce(m)'
  BY <1>1, SentOnceIsKept
<1> QED
  BY <1>2, <1>3, <1>4 DEF ProxyInv, Requests

-----------------------------------------------------------------------------
(* The proxy's invariant, for any number of lines and sessions. *)
THEOREM ProxySafety == Spec => []ProxyInv
<1>1. Init => ProxyInv
  BY InitProxy
<1>2. ProxyInv /\ [Next]_vars => ProxyInv'
  BY ProxyStep
<1> QED
  BY <1>1, <1>2, PTL DEF Spec

(* "Only that explicit rejection is safe to replay, including for writes"  *)
(* (stdioHttpProxy.ts): no request runs twice, whether it is served late,  *)
(* in a session the proxy has replaced, or after a recovery.               *)
THEOREM RequestsRunAtMostOnce == Spec => []DispatchedAtMostOnce
<1>1. ProxyInv => DispatchedAtMostOnce
  BY DEF ProxyInv, SentOnce, DispatchedAtMostOnce
<1> QED
  BY <1>1, ProxySafety, PTL

(* What forwardOne and fail() tell the client of a call is true for good,  *)
(* and requests are answered once, in the order of their lines.            *)
THEOREM ProxyAnswersAreTrue == Spec => []AnswersAreTrue
<1>1. ProxyInv => AnswersAreTrue
  BY DEF ProxyInv, AnswersHold, Unsent, AnswersAreTrue
<1> QED
  BY <1>1, ProxySafety, PTL
=============================================================================
