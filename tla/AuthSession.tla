----------------------------- MODULE AuthSession -----------------------------
(***************************************************************************)
(* Email and password sign-in shared by every transport session            *)
(* (src/authSession.ts, src/auth.ts) and the GraphQL clients that ask for  *)
(* credentials (src/graphqlClient.ts), one per transport. Configured       *)
(* bearers and cookies are given out as they are and are left out. Time is *)
(* counted in steps of half a minute.                                      *)
(***************************************************************************)
EXTENDS Integers, FiniteSets, FiniteSetsExt

CONSTANTS Requests,        \* those who ask for credentials
          ClientOf,        \* ClientOf[r]: the GraphQL client r uses
          NoCookie,
          Responses,       \* sign-in answers: sets of cookie lifetimes
          Endless,         \* a cookie without Max-Age and Expires
          RETRY_DELAY,     \* retryDelayMs
          MAX_LIFETIME,    \* 12 hours, shortened
          MAX_TIME         \* bounds the clock

(* A cookie that is over when it comes has the lifetime 0.                 *)
ASSUME AuthAssumption ==
  /\ RETRY_DELAY \in Nat /\ MAX_LIFETIME \in Nat /\ MAX_TIME \in Nat
  /\ \A lifetimes \in Responses : lifetimes \subseteq Nat \cup {Endless}

VARIABLES
  aNow,        \* the clock
  immediate,   \* the cookie given out, [since, deadline: when the server drops it]
  pending,     \* a sign-in is under way
  failedAt, lastError, refreshAt,
  authResolution,   \* clients that wait for the provider
  aAsked,      \* aAsked[r]: "idle", "waiting", "done"
  aGiven,      \* aGiven[r]: the cookie r was given or NoCookie for an error, and when
  aFailed      \* when a sign-in last failed (history)
authVars == <<aNow, immediate, pending, failedAt, lastError, refreshAt,
              authResolution, aAsked, aGiven, aFailed>>

AuthInit ==
  /\ aNow = 0
  /\ immediate = NoCookie
  /\ pending = FALSE
  /\ failedAt = 0 /\ lastError = FALSE /\ refreshAt = MAX_TIME + 1
  /\ authResolution = {}
  /\ aAsked = [r \in Requests |-> "idle"]
  /\ aGiven = [r \in Requests |-> [cookie |-> NoCookie, at |-> 0]]
  /\ aFailed = 0 - RETRY_DELAY

(* A cleared cookie does not expire another of the same sign-in.           *)
cookieExpiresAt(lifetimes) ==
  LET active == {l \in lifetimes : l = Endless \/ l > 0}
      finite == (IF active # {} THEN active ELSE lifetimes) \ {Endless}
  IN  IF finite = {} THEN Endless ELSE aNow + Min(finite)

Lesser(x, y) == IF x < y THEN x ELSE y

(* Mutant: the margin is one minute however short the lifetime is.         *)
refreshTimeLate(expiresAt) ==
  aNow + Lesser(MAX_LIFETIME, IF expiresAt = Endless THEN MAX_LIFETIME ELSE expiresAt - aNow + 2)

(* One minute before the end, or at half of a short lifetime.              *)
refreshTime(expiresAt) ==
  LET lifetime == IF expiresAt = Endless THEN MAX_LIFETIME
                  ELSE IF expiresAt > aNow THEN expiresAt - aNow ELSE 0
  IN  aNow + Lesser(MAX_LIFETIME, lifetime - Lesser(2, lifetime \div 2))

Give(R, cookie) ==
  /\ aAsked' = [r \in Requests |-> IF r \in R THEN "done" ELSE aAsked[r]]
  /\ aGiven' = [r \in Requests |-> IF r \in R THEN [cookie |-> cookie, at |-> aNow] ELSE aGiven[r]]

Wait(r) ==
  /\ aAsked' = [aAsked EXCEPT ![r] = "waiting"]
  /\ authResolution' = authResolution \cup {ClientOf[r]}
  /\ UNCHANGED aGiven

Fresh == immediate # NoCookie /\ aNow < refreshAt
CoolingDown == lastError /\ aNow - failedAt < RETRY_DELAY

(* getConnectionAuth: a client that is waiting waits for all who ask it;   *)
(* the session answers, refuses while it cools down after a failure, or    *)
(* has all wait for one sign-in.                                           *)
AskJoins(r) ==
  /\ aAsked[r] = "idle" /\ (ClientOf[r] \in authResolution \/ pending)
  /\ Wait(r)
  /\ UNCHANGED <<aNow, aFailed, immediate, pending, failedAt, lastError, refreshAt>>
AskAnswered(r) ==
  /\ aAsked[r] = "idle" /\ ClientOf[r] \notin authResolution /\ ~pending /\ Fresh
  /\ Give({r}, immediate)
  /\ UNCHANGED <<aNow, aFailed, immediate, pending, failedAt, lastError, refreshAt, authResolution>>
AskRefused(r) ==
  /\ aAsked[r] = "idle" /\ ClientOf[r] \notin authResolution /\ ~pending /\ ~Fresh /\ CoolingDown
  /\ immediate' = NoCookie
  /\ Give({r}, NoCookie)
  /\ UNCHANGED <<aNow, aFailed, pending, failedAt, lastError, refreshAt, authResolution>>
AskSignsIn(r) ==
  /\ aAsked[r] = "idle" /\ ClientOf[r] \notin authResolution /\ ~pending /\ ~Fresh /\ ~CoolingDown
  /\ immediate' = NoCookie
  /\ pending' = TRUE
  /\ Wait(r)
  /\ UNCHANGED <<aNow, aFailed, failedAt, lastError, refreshAt>>

Waiting == {r \in Requests : aAsked[r] = "waiting"}
SignedIn(lifetimes) ==
  LET expiresAt == cookieExpiresAt(lifetimes)
      cookie == [since |-> aNow, deadline |-> expiresAt]
  IN  /\ pending
      /\ pending' = FALSE /\ lastError' = FALSE
      /\ immediate' = cookie
      /\ refreshAt' = refreshTime(expiresAt)
      /\ authResolution' = {}
      /\ Give(Waiting, cookie)
      /\ UNCHANGED <<aNow, aFailed, failedAt>>

(* Mutant: the time of the first failure stands.                           *)
SignInFailsTimeless ==
  /\ pending
  /\ pending' = FALSE /\ lastError' = TRUE
  /\ authResolution' = {} /\ aFailed' = aNow
  /\ Give(Waiting, NoCookie)
  /\ UNCHANGED <<aNow, immediate, failedAt, refreshAt>>

SignInFails ==
  /\ pending
  /\ pending' = FALSE /\ lastError' = TRUE /\ failedAt' = aNow
  /\ authResolution' = {} /\ aFailed' = aNow
  /\ Give(Waiting, NoCookie)
  /\ UNCHANGED <<aNow, immediate, refreshAt>>

Tick ==
  /\ aNow < MAX_TIME
  /\ aNow' = aNow + 1
  /\ UNCHANGED <<aFailed, immediate, pending, failedAt, lastError, refreshAt, authResolution, aAsked, aGiven>>
(* The caller asks again.                                                  *)
AskAgain(r) ==
  /\ aAsked[r] = "done"
  /\ aAsked' = [aAsked EXCEPT ![r] = "idle"]
  /\ UNCHANGED <<aNow, aFailed, immediate, pending, failedAt, lastError, refreshAt, authResolution, aGiven>>

AuthNext ==
  \/ \E r \in Requests :
       AskJoins(r) \/ AskAnswered(r) \/ AskRefused(r) \/ AskSignsIn(r) \/ AskAgain(r)
  \/ \E lifetimes \in Responses : SignedIn(lifetimes)
  \/ SignInFails \/ Tick

AuthSpec == AuthInit /\ [][AuthNext]_authVars

-----------------------------------------------------------------------------
(* No request is given a cookie the server has dropped by then, however    *)
(* short its life and whoever signed in, unless it came dead from the      *)
(* sign-in the request waited for; and none waits for a sign-in that is    *)
(* not there any more.                                                     *)
CredentialsAreLive ==
  /\ \A r \in Requests : LET given == aGiven[r] IN
       given.cookie # NoCookie =>
         \/ given.cookie.deadline = Endless
         \/ given.at < given.cookie.deadline
         \/ given.at = given.cookie.since
  /\ Waiting # {} => pending

(* However many ask through however many clients, no sign-in begins within *)
(* the delay after one that failed (a test: "no login storm during         *)
(* cooldown").                                                             *)
CooldownRespected == [][pending' /\ ~pending => aNow - aFailed >= RETRY_DELAY]_authVars
=============================================================================
