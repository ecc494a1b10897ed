------------------------ MODULE WriteCoordinatorProofs ------------------------
(***************************************************************************)
(* Safety of the write queue for any number of calls and scopes and any    *)
(* queue bound.                                                            *)
(*                                                                         *)
(* No invariant of WriteCoordinator is inductive alone: that startNext     *)
(* finds a waiting call needs the queue to hold exactly the waiting calls, *)
(* that RunNow finds no holder needs `active' to agree with the holders,   *)
(* and that a timer finds its entry queued needs the bookkeeping of waits. *)
(* Their conjunction is inductive once a scope is known for every call     *)
(* that entered one.                                                       *)
(***************************************************************************)
EXTENDS WriteOrder, SequenceTheorems, TLAPS

ScopeNamed ==
  \A c \in Calls : phase[c] \in {"waiting", "running", "returned"} => scopeOf[c] \in Scopes

IInv ==
  /\ TypeOK
  /\ ScopeNamed
  /\ MutualExclusion
  /\ NoStrandedWaiter
  /\ NoScopeLeak
  /\ WaitBookkeeping
  /\ BoundedQueue

(* x comes before y in the line q. *)
Precedes(q, x, y) == \E k, l \in DOMAIN q : k < l /\ q[k] = x /\ q[l] = y

-----------------------------------------------------------------------------
(* A call that joins the end of a line it is not in. *)
LEMMA JoiningTheLine ==
  ASSUME NEW S, NEW q \in Seq(S), NEW x \in S, IsInjective(q), ~Contains(q, x)
  PROVE  /\ Append(q, x) \in Seq(S)
         /\ Append(q, x) # <<>>
         /\ Len(Append(q, x)) = Len(q) + 1
         /\ IsInjective(Append(q, x))
         /\ \A y : Contains(Append(q, x), y) <=> Contains(q, y) \/ y = x
         /\ \A y, z : Precedes(Append(q, x), y, z)
                       <=> Precedes(q, y, z) \/ (Contains(q, y) /\ z = x)
<1> DEFINE r == Append(q, x)
<1>1. /\ r \in Seq(S) /\ r # <<>> /\ Len(r) = Len(q) + 1
      /\ \A i \in 1 .. Len(q) : r[i] = q[i]
      /\ r[Len(q) + 1] = x
  BY AppendProperties
<1>2. Len(q) \in Nat /\ DOMAIN q = 1 .. Len(q) /\ DOMAIN r = 1 .. Len(q) + 1
  BY <1>1, LenProperties
<1> HIDE DEF r
<1>3. IsInjective(r)
  BY <1>1, <1>2 DEF IsInjective, Contains
<1>4. ASSUME NEW y PROVE Contains(r, y) <=> Contains(q, y) \/ y = x
  BY <1>1, <1>2 DEF Contains
<1>5. ASSUME NEW y, NEW z
      PROVE  Precedes(r, y, z) <=> Precedes(q, y, z) \/ (Contains(q, y) /\ z = x)
  BY <1>1, <1>2 DEF Contains, Precedes
<1> QED
  BY <1>1, <1>3, <1>4, <1>5 DEF r

(* The head of a line leaves it. *)
LEMMA LeavingInFront ==
  ASSUME NEW S, NEW q \in Seq(S), q # <<>>, IsInjective(q)
  PROVE  /\ Head(q) \in S /\ Contains(q, Head(q))
         /\ Tail(q) \in Seq(S)
         /\ Len(Tail(q)) = Len(q) - 1
         /\ IsInjective(Tail(q))
         /\ \A y : Contains(Tail(q), y) <=> Contains(q, y) /\ y # Head(q)
         /\ \A y : Contains(Tail(q), y) => Precedes(q, Head(q), y)
         /\ \A y, z : Precedes(Tail(q), y, z) => Precedes(q, y, z)
<1> DEFINE r == Tail(q)
           h == Head(q)
<1>1. /\ h \in S /\ r \in Seq(S) /\ Len(r) = Len(q) - 1
      /\ \A i \in 1 .. Len(r) : r[i] = q[i + 1]
  BY HeadTailProperties
<1>2. Len(q) \in Nat \ {0} /\ DOMAIN q = 1 .. Len(q) /\ DOMAIN r = 1 .. Len(q) - 1 /\ h = q[1]
  BY <1>1, LenProperties, EmptySeq
<1> HIDE DEF r, h
<1>3. IsInjective(r)
  <2> SUFFICES ASSUME NEW a \in DOMAIN r, NEW b \in DOMAIN r, r[a] = r[b] PROVE a = b
    BY DEF IsInjective
  <2>1. a + 1 \in DOMAIN q /\ b + 1 \in DOMAIN q /\ q[a + 1] = q[b + 1] /\ a \in Int /\ b \in Int
    BY <1>1, <1>2
  <2>2. a + 1 = b + 1
    BY <2>1 DEF IsInjective
  <2> QED
    BY <2>1, <2>2
<1>4. ASSUME NEW y PROVE Contains(r, y) <=> Contains(q, y) /\ y # h
  <2>1. ASSUME Contains(r, y) PROVE Contains(q, y) /\ y # h
    BY <1>1, <1>2, <2>1 DEF Contains, IsInjective
  <2>2. ASSUME Contains(q, y), y # h PROVE Contains(r, y)
    <3>1. PICK i \in 1 .. Len(q) : q[i] = y
      BY <2>2 DEF Contains
    <3>2. i - 1 \in 1 .. Len(r) /\ r[i - 1] = y
      BY <1>1, <1>2, <2>2, <3>1
    <3> QED
      BY <3>2 DEF Contains
  <2> QED
    BY <2>1, <2>2
<1>5. Contains(q, h)
  BY <1>2 DEF Contains
<1>6. ASSUME NEW y, Contains(r, y) PROVE Precedes(q, h, y)
  <2>1. PICK i \in 1 .. Len(q) - 1 : r[i] = y
    BY <1>2, <1>6 DEF Contains
  <2>2. 1 \in DOMAIN q /\ i + 1 \in DOMAIN q /\ 1 < i + 1 /\ q[1] = h /\ q[i + 1] = y
    BY <1>1, <1>2, <2>1
  <2> QED
    BY <2>2 DEF Precedes
<1>7. ASSUME NEW y, NEW z, Precedes(r, y, z) PROVE Precedes(q, y, z)
  <2>1. PICK k, l \in 1 .. Len(q) - 1 : k < l /\ r[k] = y /\ r[l] = z
    BY <1>2, <1>7 DEF Precedes
  <2>2. k + 1 \in DOMAIN q /\ l + 1 \in DOMAIN q /\ k + 1 < l + 1 /\ q[k + 1] = y /\ q[l + 1] = z
    BY <1>1, <1>2, <2>1
  <2> QED
    BY <2>2 DEF Precedes
<1> QED
  BY <1>1, <1>3, <1>4, <1>5, <1>6, <1>7 DEF r, h

(* A call leaves the line from any place. *)
LEMMA LeavingAnywhere ==
  ASSUME NEW S, NEW q \in Seq(S), NEW i \in 1 .. Len(q), IsInjective(q)
  PROVE  /\ RemoveAt(q, i) \in Seq(S)
         /\ Len(RemoveAt(q, i)) = Len(q) - 1
         /\ IsInjective(RemoveAt(q, i))
         /\ \A y : Contains(RemoveAt(q, i), y) <=> Contains(q, y) /\ y # q[i]
         /\ \A y, z : Precedes(RemoveAt(q, i), y, z) => Precedes(q, y, z)
<1> DEFINE n == Len(q)
           front == SubSeq(q, 1, i - 1)
           back == SubSeq(q, i + 1, n)
           r == RemoveAt(q, i)
<1>1. n \in Nat /\ n = Len(q) /\ i \in 1 .. n /\ DOMAIN q = 1 .. n /\ \A j \in 1 .. n : q[j] \in S
  BY LenProperties, ElementOfSeq
<1>2. /\ front \in Seq(S) /\ Len(front) = i - 1
      /\ \A j \in 1 .. i - 1 : front[j] = q[j]
  <2>1. 1 \in Int /\ i - 1 \in Int /\ \A j \in 1 .. i - 1 : q[j] \in S
    BY <1>1
  <2>2. /\ front \in Seq(S) /\ Len(front) = IF 1 <= i - 1 THEN i - 1 - 1 + 1 ELSE 0
        /\ \A j \in 1 .. i - 1 - 1 + 1 : front[j] = q[1 + j - 1]
    BY <2>1, SubSeqProperties
  <2> QED
    BY <1>1, <2>2
<1>3. /\ back \in Seq(S) /\ Len(back) = n - i
      /\ \A j \in 1 .. n - i : back[j] = q[i + j]
  <2>1. i + 1 \in Int /\ n \in Int /\ \A j \in i + 1 .. n : q[j] \in S
    BY <1>1
  <2>2. /\ back \in Seq(S) /\ Len(back) = IF i + 1 <= n THEN n - (i + 1) + 1 ELSE 0
        /\ \A j \in 1 .. n - (i + 1) + 1 : back[j] = q[(i + 1) + j - 1]
    BY <2>1, SubSeqProperties
  <2> HIDE DEF back, n
  <2>3. i \in Int /\ i <= n /\ n - (i + 1) + 1 = n - i
    BY <1>1
  <2>4. \A j \in 1 .. n - i : (i + 1) + j - 1 = i + j
    BY <2>3
  <2>5. Len(back) = n - i
    BY <1>1, <2>2, <2>3
  <2> QED
    BY <2>2, <2>3, <2>4, <2>5
<1>4. r = front \o back
  BY DEF RemoveAt
<1> HIDE DEF r, front, back, n
<1>5. /\ r \in Seq(S) /\ Len(r) = n - 1 /\ DOMAIN r = 1 .. n - 1
      /\ \A j \in 1 .. n - 1 : r[j] = IF j < i THEN q[j] ELSE q[j + 1]
  <2>1. /\ r \in Seq(S) /\ Len(r) = Len(front) + Len(back)
        /\ \A j \in 1 .. Len(front) + Len(back) :
             r[j] = IF j <= Len(front) THEN front[j] ELSE back[j - Len(front)]
    BY <1>2, <1>3, <1>4, ConcatProperties
  <2>2. Len(r) = n - 1
    BY <1>1, <1>2, <1>3, <2>1
  <2>3. ASSUME NEW j \in 1 .. n - 1 PROVE r[j] = IF j < i THEN q[j] ELSE q[j + 1]
    <3>1. CASE j < i
      <4>1. j \in 1 .. i - 1 /\ j \in 1 .. Len(front) + Len(back)
        BY <1>1, <1>2, <1>3, <3>1
      <4>2. r[j] = front[j]
        BY <1>1, <1>2, <2>1, <4>1
      <4> QED
        BY <1>2, <3>1, <4>1, <4>2
    <3>2. CASE ~(j < i)
      <4>1. j \in Int /\ i \in Int /\ j \in 1 .. Len(front) + Len(back)
        BY <1>1, <1>2, <1>3
      <4>3. j - (i - 1) \in 1 .. n - i /\ ~(j <= i - 1)
        BY <1>1, <3>2, <4>1
      <4>4. r[j] = back[j - (i - 1)]
        BY <1>2, <2>1, <4>1, <4>3
      <4>2. i + (j - (i - 1)) = j + 1
        BY <1>1
      <4> QED
        BY <1>3, <3>2, <4>2, <4>3, <4>4
    <3> QED
      BY <3>1, <3>2
  <2> QED
    BY <2>1, <2>2, <2>3, LenProperties
<1>6. IsInjective(r)
  BY <1>1, <1>5 DEF IsInjective
<1>7. ASSUME NEW y PROVE Contains(r, y) <=> Contains(q, y) /\ y # q[i]
  <2>1. ASSUME Contains(r, y) PROVE Contains(q, y) /\ y # q[i]
    <3>1. PICK j \in 1 .. n - 1 : r[j] = y
      BY <1>5, <2>1 DEF Contains
    <3> QED
      BY <1>1, <1>5, <3>1 DEF Contains, IsInjective
  <2>2. ASSUME Contains(q, y), y # q[i] PROVE Contains(r, y)
    <3>1. PICK j \in 1 .. n : q[j] = y
      BY <1>1, <2>2 DEF Contains
    <3>2. CASE j < i
      BY <1>1, <1>5, <3>1, <3>2 DEF Contains
    <3>3. CASE j > i
      <4>1. j - 1 \in 1 .. n - 1 /\ r[j - 1] = y
        BY <1>1, <1>5, <3>1, <3>3
      <4> QED
        BY <1>5, <4>1 DEF Contains
    <3> QED
      BY <2>2, <3>1, <3>2, <3>3
  <2> QED
    BY <2>1, <2>2
<1>8. ASSUME NEW y, NEW z, Precedes(r, y, z) PROVE Precedes(q, y, z)
  <2> DEFINE was(j) == IF j < i THEN j ELSE j + 1
  <2>1. PICK k, l \in 1 .. n - 1 : k < l /\ r[k] = y /\ r[l] = z
    BY <1>5, <1>8 DEF Precedes
  <2>2. \A j \in 1 .. n - 1 : was(j) \in DOMAIN q /\ q[was(j)] = r[j]
    BY <1>1, <1>5
  <2>3. was(k) < was(l)
    BY <1>1, <2>1
  <2> HIDE DEF was
  <2> QED
    BY <2>1, <2>2, <2>3 DEF Precedes
<1> QED
  BY <1>5, <1>6, <1>7, <1>8 DEF r, n

-----------------------------------------------------------------------------
(* Before any call the queue is empty and nothing waits. *)
LEMMA InitIInv == Init => IInv
<1> SUFFICES ASSUME Init PROVE IInv
  OBVIOUS
<1> USE CoordinatorAssumption DEF Init, Holding
<1>1. TypeOK
  BY EmptySeq DEF TypeOK, Phases, Results, Refusals
<1>2. \A s \in Scopes : queue[s] = <<>> /\ Len(queue[s]) = 0 /\ DOMAIN queue[s] = {}
  BY EmptySeq
<1>3. ScopeNamed /\ MutualExclusion /\ NoScopeLeak /\ WaitBookkeeping
  BY DEF ScopeNamed, MutualExclusion, NoScopeLeak, WaitBookkeeping
<1>4. NoStrandedWaiter
  BY <1>2 DEF NoStrandedWaiter, Contains, IsInjective
<1>5. BoundedQueue
  BY <1>2 DEF BoundedQueue
<1> QED
  BY <1>1, <1>3, <1>4, <1>5 DEF IInv

(* A call that is refused before it enters a scope changes nothing but its *)
(* own answer.                                                             *)
LEMMA RefusedEarly ==
  ASSUME IInv, NEW c \in Calls, phase[c] = "idle",
         NEW code \in Refusals, Reject(c, code),
         UNCHANGED <<coordinator, signal>>,
         \/ scopeOf' = scopeOf
         \/ \E s \in Scopes : scopeOf' = [scopeOf EXCEPT ![c] = s]
  PROVE  IInv'
<1> USE DEF Reject, coordinator
<1>1. TypeOK'
  BY DEF IInv, TypeOK, Phases
<1>2. \A d \in Calls : d # c => phase'[d] = phase[d] /\ scopeOf'[d] = scopeOf[d]
  BY DEF IInv, TypeOK
<1>3. phase'[c] = "settled" /\ phase[c] = "idle"
  BY DEF IInv, TypeOK
<1>4. \A d \in Calls, s \in Scopes : Holding(d, s)' <=> Holding(d, s)
  BY <1>2, <1>3 DEF Holding
<1>5. ScopeNamed'
  BY <1>2, <1>3 DEF IInv, ScopeNamed
<1>6. MutualExclusion' /\ NoScopeLeak'
  BY <1>4 DEF IInv, MutualExclusion, NoScopeLeak
<1>7. NoStrandedWaiter'
  BY <1>2, <1>3, <1>4 DEF IInv, NoStrandedWaiter
<1>8. WaitBookkeeping'
  BY <1>2, <1>3 DEF IInv, WaitBookkeeping
<1>9. BoundedQueue'
  BY DEF IInv, BoundedQueue
<1> QED
  BY <1>1, <1>5, <1>6, <1>7, <1>8, <1>9 DEF IInv

(* A call that finds nothing active is the only holder of its scope. *)
LEMMA StartsAtOnce ==
  ASSUME IInv, NEW c \in Calls, NEW s \in Scopes, RunNow(c, s)
  PROVE  IInv'
<1> USE DEF RunNow
<1>1. TypeOK'
  BY DEF IInv, TypeOK, Phases
<1>2. \A d \in Calls : d # c => phase'[d] = phase[d] /\ scopeOf'[d] = scopeOf[d]
  BY DEF IInv, TypeOK
<1>3. phase'[c] = "running" /\ phase[c] = "idle" /\ scopeOf'[c] = s
  BY DEF IInv, TypeOK
<1>4. \A d \in Calls : ~Holding(d, s)
  BY DEF IInv, NoScopeLeak
<1>5. \A d \in Calls, t \in Scopes : Holding(d, t)' <=> Holding(d, t) \/ (d = c /\ t = s)
  BY <1>2, <1>3 DEF Holding
<1>6. ScopeNamed'
  BY <1>2, <1>3 DEF IInv, ScopeNamed
<1>7. MutualExclusion'
  BY <1>4, <1>5 DEF IInv, MutualExclusion
<1>8. NoScopeLeak'
  BY <1>4, <1>5 DEF IInv, TypeOK, NoScopeLeak
<1>9. NoStrandedWaiter'
  BY <1>2, <1>3, <1>4, <1>5 DEF IInv, NoStrandedWaiter
<1>10. WaitBookkeeping'
  BY <1>2, <1>3 DEF IInv, WaitBookkeeping
<1>11. BoundedQueue'
  BY DEF IInv, BoundedQueue
<1> QED
  BY <1>1, <1>6, <1>7, <1>8, <1>9, <1>10, <1>11 DEF IInv

(* A call that finds its scope active and room in its queue waits there. *)
LEMMA JoinsQueue ==
  ASSUME IInv, NEW c \in Calls, NEW s \in Scopes, RunQueued(c, s)
  PROVE  IInv'
<1> USE DEF RunQueued
<1>1. \A d \in Calls : d # c => phase'[d] = phase[d] /\ scopeOf'[d] = scopeOf[d]
  BY DEF IInv, TypeOK
<1>2. phase'[c] = "waiting" /\ phase[c] = "idle" /\ scopeOf'[c] = s
  BY DEF IInv, TypeOK
<1>3. queue[s] \in Seq(Calls) /\ IsInjective(queue[s]) /\ ~Contains(queue[s], c)
  BY <1>2 DEF IInv, TypeOK, NoStrandedWaiter
<1>4. /\ queue'[s] \in Seq(Calls) /\ queue'[s] # <<>>
      /\ Len(queue'[s]) = Len(queue[s]) + 1 /\ IsInjective(queue'[s])
      /\ \A y : Contains(queue'[s], y) <=> Contains(queue[s], y) \/ y = c
      /\ \A t \in Scopes : t # s => queue'[t] = queue[t]
  <2>1. queue'[s] = Append(queue[s], c) /\ \A t \in Scopes : t # s => queue'[t] = queue[t]
    BY DEF IInv, TypeOK
  <2> QED
    BY <1>3, <2>1, JoiningTheLine
<1>5. TypeOK'
  <2>1. queue' \in [Scopes -> Seq(Calls)]
    BY <1>4 DEF IInv, TypeOK
  <2>2. timers' \subseteq Calls /\ listeners' \subseteq Calls
    BY DEF IInv, TypeOK
  <2> QED
    BY <2>1, <2>2 DEF IInv, TypeOK, Phases
<1>6. \A d \in Calls, t \in Scopes : Holding(d, t)' <=> Holding(d, t)
  BY <1>1, <1>2 DEF Holding
<1>7. ScopeNamed'
  BY <1>1, <1>2 DEF IInv, ScopeNamed
<1>8. MutualExclusion' /\ NoScopeLeak'
  BY <1>6 DEF IInv, MutualExclusion, NoScopeLeak
<1>9. NoStrandedWaiter'
  <2>1. \E d \in Calls : Holding(d, s)
    BY DEF IInv, NoScopeLeak
  <2>2. \A t \in Scopes : queue'[t] # <<>> => \E d \in Calls : Holding(d, t)'
    BY <1>4, <1>6, <2>1 DEF IInv, NoStrandedWaiter
  <2>3. \A t \in Scopes, d \in Calls :
          (phase'[d] = "waiting" /\ scopeOf'[d] = t) <=> Contains(queue'[t], d)
    BY <1>1, <1>2, <1>4 DEF IInv, NoStrandedWaiter
  <2>4. \A t \in Scopes : IsInjective(queue'[t])
    BY <1>4 DEF IInv, NoStrandedWaiter
  <2> QED
    BY <2>2, <2>3, <2>4 DEF NoStrandedWaiter
<1>10. WaitBookkeeping'
  BY <1>1, <1>2 DEF IInv, TypeOK, WaitBookkeeping
<1>11. BoundedQueue'
  <2>1. Len(queue[s]) \in Nat /\ MaxPending \in Nat
    BY <1>3, LenProperties, CoordinatorAssumption
  <2> QED
    BY <1>4, <2>1 DEF IInv, BoundedQueue
<1> QED
  BY <1>5, <1>7, <1>8, <1>9, <1>10, <1>11 DEF IInv


(* An operation settles: its call holds the scope until the finally block. *)
LEMMA OperationReturns ==
  ASSUME IInv, NEW c \in Calls, Return(c)
  PROVE  IInv'
<1> USE DEF Return, coordinator
<1>1. TypeOK'
  BY DEF IInv, TypeOK, Phases
<1>2. \A d \in Calls : d # c => phase'[d] = phase[d]
  BY DEF IInv, TypeOK
<1>3. phase'[c] = "returned" /\ phase[c] = "running"
  BY DEF IInv, TypeOK
<1>4. \A d \in Calls, s \in Scopes : Holding(d, s)' <=> Holding(d, s)
  BY <1>2, <1>3 DEF Holding
<1>5. ScopeNamed'
  BY <1>2, <1>3 DEF IInv, ScopeNamed
<1>6. MutualExclusion' /\ NoScopeLeak'
  BY <1>4 DEF IInv, MutualExclusion, NoScopeLeak
<1>7. NoStrandedWaiter'
  BY <1>2, <1>3, <1>4 DEF IInv, NoStrandedWaiter
<1>8. WaitBookkeeping'
  BY <1>2, <1>3 DEF IInv, WaitBookkeeping
<1>9. BoundedQueue'
  BY DEF IInv, BoundedQueue
<1> QED
  BY <1>1, <1>5, <1>6, <1>7, <1>8, <1>9 DEF IInv

(* The finally block hands the scope to the head of its queue. *)
LEMMA HandsOver ==
  ASSUME IInv, NEW c \in Calls, Release(c), queue[scopeOf[c]] # <<>>
  PROVE  IInv'
<1> DEFINE s == scopeOf[c]
           e == Head(queue[s])
<1>1. s \in Scopes /\ phase[c] = "returned" /\ Holding(c, s)
  BY DEF IInv, ScopeNamed, Release, Holding
<1>2. queue[s] \in Seq(Calls) /\ IsInjective(queue[s]) /\ queue[s] # <<>>
  BY <1>1 DEF IInv, TypeOK, NoStrandedWaiter
<1>3. /\ e \in Calls /\ Contains(queue[s], e)
      /\ Tail(queue[s]) \in Seq(Calls)
      /\ Len(Tail(queue[s])) = Len(queue[s]) - 1
      /\ IsInjective(Tail(queue[s]))
      /\ \A y : Contains(Tail(queue[s]), y) <=> Contains(queue[s], y) /\ y # e
  BY <1>2, LeavingInFront
<1>4. phase[e] = "waiting" /\ scopeOf[e] = s /\ e # c
  BY <1>1, <1>3 DEF IInv, NoStrandedWaiter
<1>5. /\ queue' = [queue EXCEPT ![s] = Tail(@)]
      /\ timers' = timers \ {e} /\ listeners' = listeners \ {e}
      /\ phase' = [phase EXCEPT ![c] = "settled", ![e] = "running"]
      /\ UNCHANGED <<known, active, signal, scopeOf, outcome>>
  BY DEF Release, StartNext, ClearWait
<1> HIDE DEF s, e
<1>6. /\ queue'[s] = Tail(queue[s])
      /\ \A t \in Scopes : t # s => queue'[t] = queue[t]
      /\ \A d \in Calls : d # c /\ d # e => phase'[d] = phase[d]
      /\ phase'[c] = "settled" /\ phase'[e] = "running"
  BY <1>1, <1>3, <1>4, <1>5 DEF IInv, TypeOK
<1>7. TypeOK'
  <2>1. queue' \in [Scopes -> Seq(Calls)] /\ phase' \in [Calls -> Phases]
    BY <1>1, <1>3, <1>5, <1>6 DEF IInv, TypeOK, Phases
  <2> QED
    BY <1>5, <2>1 DEF IInv, TypeOK
<1>8. \A d \in Calls : ~(Holding(d, s) /\ d # c)
  BY <1>1 DEF IInv, MutualExclusion
<1>9. \A d \in Calls, t \in Scopes :
        Holding(d, t)' <=> (d = e /\ t = s) \/ (Holding(d, t) /\ t # s)
  BY <1>1, <1>3, <1>4, <1>5, <1>6, <1>8 DEF Holding
<1>10. ScopeNamed'
  BY <1>1, <1>4, <1>5, <1>6 DEF IInv, ScopeNamed
<1>11. MutualExclusion'
  BY <1>9 DEF IInv, MutualExclusion
<1>12. NoScopeLeak'
  BY <1>1, <1>3, <1>5, <1>9 DEF IInv, NoScopeLeak
<1>13. NoStrandedWaiter'
  <2>1. \A t \in Scopes : queue'[t] # <<>> => \E d \in Calls : Holding(d, t)'
    BY <1>3, <1>6, <1>9 DEF IInv, NoStrandedWaiter
  <2>2. \A t \in Scopes, d \in Calls :
          (phase'[d] = "waiting" /\ scopeOf'[d] = t) <=> Contains(queue'[t], d)
    <3> SUFFICES ASSUME NEW t \in Scopes, NEW d \in Calls
                 PROVE (phase'[d] = "waiting" /\ scopeOf'[d] = t) <=> Contains(queue'[t], d)
      OBVIOUS
    <3>1. (phase[d] = "waiting" /\ scopeOf[d] = t) <=> Contains(queue[t], d)
      BY DEF IInv, NoStrandedWaiter
    <3>2. CASE t = s
      BY <1>1, <1>3, <1>4, <1>5, <1>6, <3>1, <3>2
    <3>3. CASE t # s
      BY <1>1, <1>4, <1>5, <1>6, <3>1, <3>3 DEF s
    <3> QED
      BY <3>2, <3>3
  <2>3. \A t \in Scopes : IsInjective(queue'[t])
    BY <1>3, <1>6 DEF IInv, NoStrandedWaiter
  <2> QED
    BY <2>1, <2>2, <2>3 DEF NoStrandedWaiter
<1>14. WaitBookkeeping'
  BY <1>1, <1>3, <1>4, <1>5, <1>6 DEF IInv, WaitBookkeeping
<1>15. BoundedQueue'
  <2>1. Len(queue[s]) \in Nat /\ MaxPending \in Nat
    BY <1>2, LenProperties, CoordinatorAssumption
  <2>2. \A t \in Scopes : Len(queue[t]) <= MaxPending
    BY DEF IInv, BoundedQueue
  <2>3. Len(queue'[s]) <= MaxPending
    BY <1>1, <1>3, <1>6, <2>1, <2>2
  <2> QED
    BY <1>6, <2>2, <2>3 DEF BoundedQueue
<1> QED
  BY <1>7, <1>10, <1>11, <1>12, <1>13, <1>14, <1>15 DEF IInv

(* The finally block drops the state of a scope nobody waits for. *)
LEMMA GoesIdle ==
  ASSUME IInv, NEW c \in Calls, Release(c), queue[scopeOf[c]] = <<>>
  PROVE  IInv'
<1> DEFINE s == scopeOf[c]
<1>1. s \in Scopes /\ phase[c] = "returned" /\ Holding(c, s)
  BY DEF IInv, ScopeNamed, Release, Holding
<1>2. /\ active' = [active EXCEPT ![s] = FALSE]
      /\ known' = known \ {s}
      /\ phase' = [phase EXCEPT ![c] = "settled"]
      /\ UNCHANGED <<queue, timers, listeners, signal, scopeOf, outcome>>
  BY DEF Release, StartNext
<1>3. queue[s] = <<>>
  OBVIOUS
<1> HIDE DEF s
<1>4. TypeOK'
  BY <1>1, <1>2 DEF IInv, TypeOK, Phases
<1>5. /\ \A d \in Calls : d # c => phase'[d] = phase[d]
      /\ phase'[c] = "settled"
  BY <1>2 DEF IInv, TypeOK
<1>6. \A d \in Calls, t \in Scopes : Holding(d, t)' <=> Holding(d, t) /\ t # s
  BY <1>1, <1>2, <1>5 DEF IInv, MutualExclusion, Holding
<1>7. ScopeNamed'
  BY <1>2, <1>5 DEF IInv, ScopeNamed
<1>8. MutualExclusion'
  BY <1>6 DEF IInv, MutualExclusion
<1>9. NoScopeLeak'
  BY <1>1, <1>2, <1>6 DEF IInv, TypeOK, NoScopeLeak
<1>10. NoStrandedWaiter'
  BY <1>1, <1>2, <1>3, <1>5, <1>6 DEF IInv, NoStrandedWaiter
<1>11. WaitBookkeeping'
  BY <1>1, <1>2, <1>5 DEF IInv, WaitBookkeeping
<1>12. BoundedQueue'
  BY <1>2 DEF IInv, BoundedQueue
<1> QED
  BY <1>4, <1>7, <1>8, <1>9, <1>10, <1>11, <1>12 DEF IInv

(* A waiting call is taken out of the middle of its queue. *)
LEMMA GivesUp ==
  ASSUME IInv, NEW c \in timers, NEW code \in Refusals, RemoveQueued(c, code),
         \/ signal' = signal
         \/ signal' = [signal EXCEPT ![c] = "aborted"]
  PROVE  IInv'
<1> DEFINE s == scopeOf[c]
<1>1. c \in Calls /\ phase[c] = "waiting" /\ s \in Scopes /\ Contains(queue[s], c)
  BY DEF IInv, TypeOK, WaitBookkeeping, ScopeNamed, NoStrandedWaiter
<1>2. /\ timers' = timers \ {c} /\ listeners' = listeners \ {c}
      /\ phase' = [phase EXCEPT ![c] = "settled"]
      /\ outcome' = [outcome EXCEPT ![c] = code]
      /\ UNCHANGED <<known, active, scopeOf>>
  BY <1>1 DEF RemoveQueued, ClearWait, Reject
<1>3. PICK i \in DOMAIN queue[s] :
        queue[s][i] = c /\ queue' = [queue EXCEPT ![s] = RemoveAt(@, i)]
  BY <1>1 DEF RemoveQueued
<1>4. queue[s] \in Seq(Calls) /\ IsInjective(queue[s])
  BY <1>1 DEF IInv, TypeOK, NoStrandedWaiter
<1>5. i \in 1 .. Len(queue[s]) /\ Len(queue[s]) \in Nat
  BY <1>3, <1>4, LenProperties
<1>6. /\ RemoveAt(queue[s], i) \in Seq(Calls)
      /\ Len(RemoveAt(queue[s], i)) = Len(queue[s]) - 1
      /\ IsInjective(RemoveAt(queue[s], i))
      /\ \A y : Contains(RemoveAt(queue[s], i), y) <=> Contains(queue[s], y) /\ y # c
  <2>1. \A y : Contains(RemoveAt(queue[s], i), y) <=> Contains(queue[s], y) /\ y # queue[s][i]
    BY <1>4, <1>5, LeavingAnywhere
  <2>2. /\ RemoveAt(queue[s], i) \in Seq(Calls)
        /\ Len(RemoveAt(queue[s], i)) = Len(queue[s]) - 1
        /\ IsInjective(RemoveAt(queue[s], i))
    BY <1>4, <1>5, LeavingAnywhere
  <2> QED
    BY <1>3, <2>1, <2>2
<1> HIDE DEF s
<1>7. /\ queue'[s] = RemoveAt(queue[s], i)
      /\ \A t \in Scopes : t # s => queue'[t] = queue[t]
      /\ \A d \in Calls : d # c => phase'[d] = phase[d] /\ signal'[d] = signal[d]
      /\ phase'[c] = "settled"
  BY <1>1, <1>2, <1>3 DEF IInv, TypeOK
<1>8. TypeOK'
  <2>1. queue' \in [Scopes -> Seq(Calls)]
    BY <1>3, <1>6, <1>7 DEF IInv, TypeOK
  <2> QED
    BY <1>1, <1>2, <2>1 DEF IInv, TypeOK, Phases
<1>9. \A d \in Calls, t \in Scopes : Holding(d, t)' <=> Holding(d, t)
  BY <1>1, <1>2, <1>7 DEF Holding
<1>10. ScopeNamed'
  BY <1>2, <1>7 DEF IInv, ScopeNamed
<1>11. MutualExclusion' /\ NoScopeLeak'
  BY <1>2, <1>9 DEF IInv, MutualExclusion, NoScopeLeak
<1>12. NoStrandedWaiter'
  <2>1. queue[s] # <<>>
    BY <1>4, <1>5, EmptySeq
  <2>2. \A t \in Scopes : queue'[t] # <<>> => \E d \in Calls : Holding(d, t)'
    BY <1>1, <1>7, <1>9, <2>1 DEF IInv, NoStrandedWaiter
  <2>3. \A t \in Scopes, d \in Calls :
          (phase'[d] = "waiting" /\ scopeOf'[d] = t) <=> Contains(queue'[t], d)
    BY <1>1, <1>2, <1>6, <1>7 DEF IInv, NoStrandedWaiter, s
  <2>4. \A t \in Scopes : IsInjective(queue'[t])
    BY <1>6, <1>7 DEF IInv, NoStrandedWaiter
  <2> QED
    BY <2>2, <2>3, <2>4 DEF NoStrandedWaiter
<1>13. WaitBookkeeping'
  BY <1>1, <1>2, <1>7 DEF IInv, WaitBookkeeping
<1>14. BoundedQueue'
  <2>1. MaxPending \in Nat
    BY CoordinatorAssumption
  <2> QED
    BY <1>1, <1>5, <1>6, <1>7, <2>1 DEF IInv, BoundedQueue
<1> QED
  BY <1>8, <1>10, <1>11, <1>12, <1>13, <1>14 DEF IInv

(* An abort that finds no listener, because the call is not waiting. *)
LEMMA AbortsUnheard ==
  ASSUME IInv, NEW c \in Calls, c \notin listeners, signal[c] = "live",
         signal' = [signal EXCEPT ![c] = "aborted"],
         UNCHANGED <<coordinator, scopeOf, phase, outcome>>
  PROVE  IInv'
<1> USE DEF coordinator
<1>1. TypeOK'
  BY DEF IInv, TypeOK
<1>2. c \notin timers
  BY DEF IInv, WaitBookkeeping
<1>3. \A d \in Calls : d # c => signal'[d] = signal[d]
  BY DEF IInv, TypeOK
<1>4. WaitBookkeeping'
  BY <1>2, <1>3 DEF IInv, WaitBookkeeping
<1>5. ScopeNamed' /\ MutualExclusion' /\ NoScopeLeak' /\ NoStrandedWaiter' /\ BoundedQueue'
  BY DEF IInv, ScopeNamed, MutualExclusion, NoScopeLeak, NoStrandedWaiter, BoundedQueue, Holding
<1> QED
  BY <1>1, <1>4, <1>5 DEF IInv


(* Every action keeps the inductive invariant: one lemma above per kind of *)
(* step.                                                                   *)
LEMMA NextKeepsIInv == IInv /\ [Next]_vars => IInv'
<1> SUFFICES ASSUME IInv, [Next]_vars PROVE IInv'
  OBVIOUS
<1>1. CASE UNCHANGED vars
  BY <1>1 DEF vars, IInv, TypeOK, ScopeNamed, MutualExclusion, NoStrandedWaiter,
              NoScopeLeak, WaitBookkeeping, BoundedQueue, Holding
<1>2. ASSUME NEW c \in Calls, RunInvalid(c) PROVE IInv'
  BY <1>2, RefusedEarly DEF RunInvalid, Refusals, coordinator
<1>3. ASSUME NEW c \in Calls, NEW s \in Scopes, RunAborted(c, s) PROVE IInv'
  BY <1>3, RefusedEarly DEF RunAborted, Refusals, coordinator
<1>4. ASSUME NEW c \in Calls, NEW s \in Scopes, RunNow(c, s) PROVE IInv'
  BY <1>4, StartsAtOnce
<1>5. ASSUME NEW c \in Calls, NEW s \in Scopes, RunFull(c, s) PROVE IInv'
  BY <1>5, RefusedEarly DEF RunFull, Refusals, coordinator
<1>6. ASSUME NEW c \in Calls, NEW s \in Scopes, RunQueued(c, s) PROVE IInv'
  BY <1>6, JoinsQueue
<1>7. ASSUME NEW c \in Calls, Return(c) PROVE IInv'
  BY <1>7, OperationReturns
<1>8. ASSUME NEW c \in Calls, Release(c) PROVE IInv'
  BY <1>8, HandsOver, GoesIdle
<1>9. ASSUME NEW c \in Calls, WaitExpires(c) PROVE IInv'
  BY <1>9, GivesUp DEF WaitExpires, Refusals
<1>10. ASSUME NEW c \in Calls, Abort(c) PROVE IInv'
  <2>1. CASE c \in listeners
    <3>1. c \in timers
      BY <2>1 DEF IInv, WaitBookkeeping
    <3> QED
      BY <1>10, <2>1, <3>1, GivesUp DEF Abort, Refusals
  <2>2. CASE c \notin listeners
    BY <1>10, <2>2, AbortsUnheard DEF Abort
  <2> QED
    BY <2>1, <2>2
<1> QED
  BY <1>1, <1>2, <1>3, <1>4, <1>5, <1>6, <1>7, <1>8, <1>9, <1>10
     DEF Next, Step, Run, Quiescent

(* The inductive invariant holds in every reachable state, for any number  *)
(* of calls, scopes and places in the queue.                               *)
THEOREM Safety == Spec => []IInv
<1> QED
  BY InitIInv, NextKeepsIInv, PTL DEF Spec

(* Every reachable state is well typed. *)
THEOREM TypeCorrect == Spec => []TypeOK
<1>1. IInv => TypeOK
  BY DEF IInv
<1> QED
  BY <1>1, Safety, PTL

(* At most one call of a workspace is inside its operation: the coordinated *)
(* sequences of src/util/writeCoordinator.ts never overlap.                 *)
THEOREM ScopesAreExclusive == Spec => []MutualExclusion
<1>1. IInv => MutualExclusion
  BY DEF IInv
<1> QED
  BY <1>1, Safety, PTL

(* Whoever waits, waits in the queue behind a holder, and the queue holds   *)
(* nobody else: startNext and removeQueued always find what they look for.  *)
THEOREM NobodyIsStranded == Spec => []NoStrandedWaiter
<1>1. IInv => NoStrandedWaiter
  BY DEF IInv
<1> QED
  BY <1>1, Safety, PTL

(* The scopes Map holds exactly the scopes in use. *)
THEOREM ScopesAreDropped == Spec => []NoScopeLeak
<1>1. IInv => NoScopeLeak
  BY DEF IInv
<1> QED
  BY <1>1, Safety, PTL

(* Timers and abort listeners belong to waiting calls only. *)
THEOREM WaitsAreCleared == Spec => []WaitBookkeeping
<1>1. IInv => WaitBookkeeping
  BY DEF IInv
<1> QED
  BY <1>1, Safety, PTL

(* maxPendingPerScope bounds every queue. *)
THEOREM QueueStaysBounded == Spec => []BoundedQueue
<1>1. IInv => BoundedQueue
  BY DEF IInv
<1> QED
  BY <1>1, Safety, PTL

-----------------------------------------------------------------------------
(* Whoever startNext takes from the queue is a waiting call of the scope. *)
LEMMA HeadWaits ==
  ASSUME IInv, NEW s \in Scopes, queue[s] # <<>>
  PROVE  LET e == Head(queue[s]) IN e \in Calls /\ phase[e] = "waiting" /\ scopeOf[e] = s
<1>1. queue[s] \in Seq(Calls) /\ IsInjective(queue[s])
  BY DEF IInv, TypeOK, NoStrandedWaiter
<1>2. Head(queue[s]) \in Calls /\ Contains(queue[s], Head(queue[s]))
  BY <1>1, LeavingInFront
<1> QED
  BY <1>2 DEF IInv, NoStrandedWaiter

Moves(c) ==
  \/ phase'[c] = phase[c] /\ outcome'[c] = outcome[c]
  \/ phase[c] = "running" /\ phase'[c] = "returned" /\ outcome'[c] \in Results
  \/ phase[c] = "returned" /\ phase'[c] = "settled" /\ outcome'[c] = outcome[c]

(* Once a call has started or settled only its own operation moves it. *)
LEMMA OwnMoves ==
  ASSUME IInv, [Next]_vars, NEW c \in Calls, phase[c] \in {"running", "returned", "settled"}
  PROVE  Moves(c)
<1> USE DEF Moves
<1>0. /\ phase \in [Calls -> Phases]
      /\ outcome \in [Calls -> Refusals \cup Results \cup {"none"}]
  BY DEF IInv, TypeOK
<1>1. CASE UNCHANGED vars
  BY <1>1 DEF vars
<1>2. ASSUME NEW d \in Calls, Run(d) PROVE Moves(c)
  <2>1. d # c /\ phase'[c] = phase[c] /\ outcome'[c] = outcome[c]
    BY <1>0, <1>2 DEF Run, RunInvalid, RunAborted, RunNow, RunFull, RunQueued, Reject
  <2> QED
    BY <2>1
<1>3. ASSUME NEW d \in Calls, Return(d) PROVE Moves(c)
  BY <1>0, <1>3 DEF Return
<1>4. ASSUME NEW d \in Calls, Release(d) PROVE Moves(c)
  <2>1. scopeOf[d] \in Scopes /\ phase[d] = "returned" /\ outcome' = outcome
    BY <1>4 DEF IInv, ScopeNamed, Release
  <2>2. CASE queue[scopeOf[d]] # <<>>
    <3> DEFINE e == Head(queue[scopeOf[d]])
    <3>1. e \in Calls /\ phase[e] = "waiting"
      BY <2>1, <2>2, HeadWaits
    <3>2. phase' = [phase EXCEPT ![d] = "settled", ![e] = "running"]
      BY <1>4, <2>2 DEF Release, StartNext
    <3> QED
      BY <1>0, <2>1, <3>1, <3>2
  <2>3. CASE queue[scopeOf[d]] = <<>>
    <3>1. phase' = [phase EXCEPT ![d] = "settled"]
      BY <1>4, <2>3 DEF Release, StartNext
    <3> QED
      BY <1>0, <2>1, <3>1
  <2> QED
    BY <2>2, <2>3
<1>5. ASSUME NEW d \in Calls, NEW code, d \in timers, RemoveQueued(d, code) PROVE Moves(c)
  <2>1. phase[d] = "waiting"
    BY <1>5 DEF IInv, WaitBookkeeping
  <2>2. d # c
    BY <2>1
  <2> QED
    BY <1>0, <1>5, <2>2 DEF RemoveQueued, Reject
<1>6. ASSUME NEW d \in Calls, WaitExpires(d) PROVE Moves(c)
  BY <1>5, <1>6 DEF WaitExpires
<1>7. ASSUME NEW d \in Calls, Abort(d) PROVE Moves(c)
  <2>1. CASE d \in listeners
    BY <1>5, <1>7, <2>1 DEF Abort, IInv, WaitBookkeeping
  <2>2. CASE d \notin listeners
    BY <1>7, <2>2 DEF Abort
  <2> QED
    BY <2>1, <2>2
<1> QED
  BY <1>1, <1>2, <1>3, <1>4, <1>6, <1>7 DEF Next, Step, Quiescent

(* Nothing but its operation's return makes a call "returned". *)
LEMMA ReturnsFromRunning ==
  ASSUME IInv, [Next]_vars, NEW c \in Calls, phase'[c] = "returned"
  PROVE  phase[c] \in {"running", "returned"}
<1>0. phase \in [Calls -> Phases]
  BY DEF IInv, TypeOK
<1>1. CASE UNCHANGED vars
  BY <1>1 DEF vars
<1>2. ASSUME NEW d \in Calls, Run(d) PROVE phase[c] = "returned"
  BY <1>0, <1>2 DEF Run, RunInvalid, RunAborted, RunNow, RunFull, RunQueued, Reject
<1>3. ASSUME NEW d \in Calls, Return(d) PROVE phase[c] \in {"running", "returned"}
  BY <1>0, <1>3 DEF Return
<1>4. ASSUME NEW d \in Calls, Release(d) PROVE phase[c] = "returned"
  BY <1>0, <1>4 DEF Release, StartNext
<1>5. ASSUME NEW d \in Calls, WaitExpires(d) PROVE phase[c] = "returned"
  BY <1>0, <1>5 DEF WaitExpires, RemoveQueued, Reject
<1>6. ASSUME NEW d \in Calls, Abort(d) PROVE phase[c] = "returned"
  BY <1>0, <1>6 DEF Abort, RemoveQueued, Reject
<1> QED
  BY <1>1, <1>2, <1>3, <1>4, <1>5, <1>6 DEF Next, Step, Quiescent

(* A caller that has its answer keeps it: run() never answers twice. *)
THEOREM AnswersAreFinal == Spec => DecisionIsFinal
<1>1. IInv /\ [Next]_vars =>
        [\A c \in Calls : phase[c] = "settled" =>
           phase'[c] = "settled" /\ outcome'[c] = outcome[c]]_vars
  BY OwnMoves DEF Moves
<1> QED
  BY <1>1, Safety, PTL DEF Spec, DecisionIsFinal

ReturnedHasResult == \A c \in Calls : phase[c] = "returned" => outcome[c] \in Results

(* An operation that has returned keeps its result until its release. *)
LEMMA ResultIsKept == IInv /\ [Next]_vars /\ ReturnedHasResult => ReturnedHasResult'
<1> SUFFICES ASSUME IInv, [Next]_vars, ReturnedHasResult,
                    NEW c \in Calls, phase'[c] = "returned"
             PROVE  outcome'[c] \in Results
  BY DEF ReturnedHasResult
<1>1. phase[c] \in {"running", "returned", "settled"}
  BY ReturnsFromRunning
<1> QED
  BY <1>1, OwnMoves DEF Moves, ReturnedHasResult

(* A started call is answered with the result of its operation, never with  *)
(* a queue error: aborts and wait timers come too late for it.              *)
THEOREM StartedCallsFinish == Spec => StartedRunsToItsEnd
<1>1. Init => ReturnedHasResult
  BY DEF Init, ReturnedHasResult
<1>2. IInv /\ [Next]_vars /\ ReturnedHasResult => ReturnedHasResult'
  BY ResultIsKept
<1>3. IInv /\ [Next]_vars /\ ReturnedHasResult =>
        [\A c \in Calls : phase[c] \in {"running", "returned"} =>
           \/ phase'[c] = phase[c]
           \/ outcome'[c] \in Results]_vars
  BY OwnMoves DEF Moves, ReturnedHasResult
<1> QED
  BY <1>1, <1>2, <1>3, Safety, PTL DEF Spec, StartedRunsToItsEnd

-----------------------------------------------------------------------------
(* The order of service: WriteOrder implements SerialWrites.  The mapping   *)
(* needs, beside IInv, that every queue lists its calls in the order of     *)
(* their arrival, each call arriving once.                                  *)
ArrivalsAreCalls ==
  /\ arrivals \in Seq(Calls)
  /\ IsInjective(arrivals)
  /\ \A c \in Calls : Contains(arrivals, c) => phase[c] # "idle"

QueueFollowsArrivals ==
  \A s \in Scopes, x, y \in Calls : Precedes(queue[s], x, y) => Precedes(arrivals, x, y)

QueuedHaveArrived ==
  \A s \in Scopes, x \in Calls : Contains(queue[s], x) => Contains(arrivals, x)

OrderIInv ==
  /\ IInv
  /\ ReturnedHasResult
  /\ ArrivalsAreCalls
  /\ QueueFollowsArrivals
  /\ QueuedHaveArrived

(* Nobody has arrived in the beginning. *)
LEMMA InitOrder == OrderInit => OrderIInv
<1> SUFFICES ASSUME OrderInit PROVE OrderIInv
  OBVIOUS
<1>1. IInv
  BY InitIInv DEF OrderInit
<1>2. ReturnedHasResult
  BY DEF OrderInit, Init, ReturnedHasResult
<1>3. ArrivalsAreCalls
  BY EmptySeq DEF OrderInit, ArrivalsAreCalls, IsInjective, Contains
<1>4. QueueFollowsArrivals /\ QueuedHaveArrived
  BY EmptySeq DEF OrderInit, Init, QueueFollowsArrivals, QueuedHaveArrived, Contains, Precedes
<1> QED
  BY <1>1, <1>2, <1>3, <1>4 DEF OrderIInv

(* A step of the line is a step of the queue. *)
LEMMA OrderStepsAreSteps == [OrderNext]_orderVars => [Next]_vars
BY DEF OrderNext, orderVars, Next

(* Nobody becomes new again. *)
LEMMA NeverIdleAgain ==
  ASSUME IInv, [Next]_vars, NEW c \in Calls, phase[c] # "idle"
  PROVE  phase'[c] # "idle"
<1>0. phase \in [Calls -> Phases]
  BY DEF IInv, TypeOK
<1>1. CASE UNCHANGED vars
  BY <1>1 DEF vars
<1>2. ASSUME NEW d \in Calls, Run(d) PROVE phase'[c] # "idle"
  BY <1>0, <1>2 DEF Run, RunInvalid, RunAborted, RunNow, RunFull, RunQueued, Reject
<1>3. ASSUME NEW d \in Calls, Return(d) PROVE phase'[c] # "idle"
  BY <1>0, <1>3 DEF Return
<1>4. ASSUME NEW d \in Calls, Release(d) PROVE phase'[c] # "idle"
  BY <1>0, <1>4 DEF Release, StartNext
<1>5. ASSUME NEW d \in Calls, WaitExpires(d) PROVE phase'[c] # "idle"
  BY <1>0, <1>5 DEF WaitExpires, RemoveQueued, Reject
<1>6. ASSUME NEW d \in Calls, Abort(d) PROVE phase'[c] # "idle"
  BY <1>0, <1>6 DEF Abort, RemoveQueued, Reject
<1> QED
  BY <1>1, <1>2, <1>3, <1>4, <1>5, <1>6 DEF Next, Step, Quiescent

(* What a step may do to the queues: add the call that arrives at the end  *)
(* of one, or take a call out of one.                                       *)
QueueMoves(c) ==
  \/ queue' = queue
  \/ /\ Accepted(c)
     /\ \E s \in Scopes : queue' = [queue EXCEPT ![s] = Append(@, c)]
  \/ /\ ~Accepted(c)
     /\ \E s \in Scopes : /\ queue[s] # <<>>
                          /\ queue' = [queue EXCEPT ![s] = Tail(@)]
  \/ /\ ~Accepted(c)
     /\ \E s \in Scopes : \E i \in DOMAIN queue[s] :
          queue' = [queue EXCEPT ![s] = RemoveAt(@, i)]

(* Every step of a call moves the queues in one of these ways. *)
LEMMA StepsMoveQueues ==
  ASSUME IInv, NEW c \in Calls, Step(c)
  PROVE  QueueMoves(c)
<1>0. phase \in [Calls -> Phases]
  BY DEF IInv, TypeOK
<1>1. CASE Run(c)
  BY <1>0, <1>1 DEF Run, RunInvalid, RunAborted, RunNow, RunFull, RunQueued, coordinator,
                    QueueMoves, Accepted
<1>2. CASE Return(c)
  BY <1>2 DEF Return, coordinator, QueueMoves
<1>3. CASE Release(c)
  <2>1. scopeOf[c] \in Scopes /\ ~Accepted(c)
    BY <1>3 DEF IInv, ScopeNamed, Release, Accepted
  <2> QED
    BY <1>3, <2>1 DEF Release, StartNext, QueueMoves
<1>4. ASSUME NEW code, RemoveQueued(c, code) PROVE QueueMoves(c)
  <2>1. CASE scopeOf[c] \in Scopes /\ Contains(queue[scopeOf[c]], c)
    <3>1. phase[c] = "waiting"
      BY <2>1 DEF IInv, NoStrandedWaiter
    <3>2. ~Accepted(c)
      BY <3>1 DEF Accepted
    <3> QED
      BY <1>4, <2>1, <3>2 DEF RemoveQueued, QueueMoves
  <2>2. CASE ~(scopeOf[c] \in Scopes /\ Contains(queue[scopeOf[c]], c))
    BY <1>4, <2>2 DEF RemoveQueued, coordinator, QueueMoves
  <2> QED
    BY <2>1, <2>2
<1>5. CASE WaitExpires(c)
  BY <1>4, <1>5 DEF WaitExpires
<1>6. CASE Abort(c)
  BY <1>4, <1>6 DEF Abort, coordinator, QueueMoves
<1> QED
  BY <1>1, <1>2, <1>3, <1>5, <1>6 DEF Step

(* The history follows the queues whatever leaves their middle. *)
LEMMA NextKeepsOrder == OrderIInv /\ [OrderNext]_orderVars => OrderIInv'
<1> SUFFICES ASSUME OrderIInv, [OrderNext]_orderVars PROVE OrderIInv'
  OBVIOUS
<1>0. IInv /\ [Next]_vars /\ phase \in [Calls -> Phases] /\ queue \in [Scopes -> Seq(Calls)]
  BY OrderStepsAreSteps DEF OrderIInv, IInv, TypeOK
<1>1. IInv' /\ ReturnedHasResult'
  BY <1>0, NextKeepsIInv, ResultIsKept DEF OrderIInv
<1>2. CASE UNCHANGED <<queue, arrivals>>
  <2>1. ArrivalsAreCalls'
    BY <1>0, <1>2, NeverIdleAgain DEF OrderIInv, ArrivalsAreCalls
  <2>2. QueueFollowsArrivals' /\ QueuedHaveArrived'
    BY <1>2 DEF OrderIInv, QueueFollowsArrivals, QueuedHaveArrived
  <2> QED
    BY <1>1, <2>1, <2>2 DEF OrderIInv
<1>3. ASSUME NEW c \in Calls, Step(c), Record(c) PROVE OrderIInv'
  <2>0. QueueMoves(c)
    BY <1>0, <1>3, StepsMoveQueues
  <2>1. CASE Accepted(c)
    <3>1. arrivals \in Seq(Calls) /\ IsInjective(arrivals) /\ ~Contains(arrivals, c)
      BY <2>1 DEF OrderIInv, ArrivalsAreCalls, Accepted
    <3>2. /\ arrivals' \in Seq(Calls) /\ IsInjective(arrivals')
          /\ \A y : Contains(arrivals', y) <=> Contains(arrivals, y) \/ y = c
          /\ \A y, z : Precedes(arrivals', y, z)
                        <=> Precedes(arrivals, y, z) \/ (Contains(arrivals, y) /\ z = c)
      <4>1. arrivals' = Append(arrivals, c)
        BY <1>3, <2>1 DEF Record
      <4> QED
        BY <3>1, <4>1, JoiningTheLine
    <3>3. ArrivalsAreCalls'
      BY <1>0, <2>1, <3>2, NeverIdleAgain DEF OrderIInv, ArrivalsAreCalls, Accepted
    <3>4. CASE queue' = queue
      BY <1>1, <3>2, <3>3, <3>4 DEF OrderIInv, QueueFollowsArrivals, QueuedHaveArrived
    <3>5. ASSUME NEW s \in Scopes, queue' = [queue EXCEPT ![s] = Append(@, c)] PROVE OrderIInv'
      <4>1. ~Contains(queue[s], c)
        BY <3>1 DEF OrderIInv, QueuedHaveArrived
      <4>2. /\ \A y : Contains(queue'[s], y) <=> Contains(queue[s], y) \/ y = c
            /\ \A y, z : Precedes(queue'[s], y, z)
                          <=> Precedes(queue[s], y, z) \/ (Contains(queue[s], y) /\ z = c)
        <5>1. queue[s] \in Seq(Calls) /\ IsInjective(queue[s])
          BY <1>0 DEF IInv, NoStrandedWaiter
        <5>2. queue'[s] = Append(queue[s], c)
          BY <1>0, <3>5
        <5> QED
          BY <4>1, <5>1, <5>2, JoiningTheLine
      <4>3. \A t \in Scopes : t # s => queue'[t] = queue[t]
        BY <1>0, <3>5
      <4>4. QueuedHaveArrived'
        BY <3>2, <4>2, <4>3 DEF OrderIInv, QueuedHaveArrived
      <4>5. QueueFollowsArrivals'
        BY <3>2, <4>2, <4>3 DEF OrderIInv, QueueFollowsArrivals, QueuedHaveArrived
      <4> QED
        BY <1>1, <3>3, <4>4, <4>5 DEF OrderIInv
    <3> QED
      BY <2>0, <2>1, <3>4, <3>5 DEF QueueMoves
  <2>2. CASE ~Accepted(c)
    <3>1. arrivals' = arrivals
      BY <1>3, <2>2 DEF Record
    <3>2. CASE queue' = queue
      BY <1>2, <3>1, <3>2
    <3>3. ASSUME NEW s \in Scopes, NEW r, queue' = [queue EXCEPT ![s] = r],
                 \A y : Contains(r, y) => Contains(queue[s], y),
                 \A y, z : Precedes(r, y, z) => Precedes(queue[s], y, z)
          PROVE  OrderIInv'
      <4>1. queue'[s] = r /\ \A t \in Scopes : t # s => queue'[t] = queue[t]
        BY <1>0, <3>3
      <4>2. ArrivalsAreCalls'
        BY <1>0, <3>1, NeverIdleAgain DEF OrderIInv, ArrivalsAreCalls
      <4>3. QueuedHaveArrived' /\ QueueFollowsArrivals'
        BY <3>1, <3>3, <4>1 DEF OrderIInv, QueuedHaveArrived, QueueFollowsArrivals
      <4> QED
        BY <1>1, <4>2, <4>3 DEF OrderIInv
    <3>4. ASSUME NEW s \in Scopes, queue[s] # <<>>, queue' = [queue EXCEPT ![s] = Tail(@)]
          PROVE  OrderIInv'
      <4>1. queue[s] \in Seq(Calls) /\ IsInjective(queue[s])
        BY <1>0 DEF IInv, NoStrandedWaiter
      <4>2. /\ \A y : Contains(Tail(queue[s]), y) => Contains(queue[s], y)
            /\ \A y, z : Precedes(Tail(queue[s]), y, z) => Precedes(queue[s], y, z)
        BY <3>4, <4>1, LeavingInFront
      <4> QED
        BY <3>3, <3>4, <4>2
    <3>5. ASSUME NEW s \in Scopes, NEW i \in DOMAIN queue[s],
                 queue' = [queue EXCEPT ![s] = RemoveAt(@, i)]
          PROVE  OrderIInv'
      <4>1. queue[s] \in Seq(Calls) /\ IsInjective(queue[s]) /\ i \in 1 .. Len(queue[s])
        BY <1>0, LenProperties DEF IInv, NoStrandedWaiter
      <4>2. /\ \A y : Contains(RemoveAt(queue[s], i), y) => Contains(queue[s], y)
            /\ \A y, z : Precedes(RemoveAt(queue[s], i), y, z) => Precedes(queue[s], y, z)
        BY <4>1, LeavingAnywhere
      <4> QED
        BY <3>3, <3>5, <4>2
    <3> QED
      BY <2>0, <2>2, <3>2, <3>4, <3>5 DEF QueueMoves
  <2> QED
    BY <2>1, <2>2
<1> QED
  BY <1>2, <1>3 DEF OrderNext, orderVars, vars, Quiescent

(* How the mapping reads a call. *)
Reads(a, w, p, o, s) ==
  /\ p = "idle" => a = "new" /\ w = NoScope
  /\ p = "waiting" => a = "waiting" /\ w = s
  /\ p \in {"running", "returned"} => a = "writing" /\ w = s
  /\ p = "settled" /\ o \in Results => a = "done" /\ w = s
  /\ p = "settled" /\ o \notin Results => a = "refused" /\ w = NoScope

(* The mapping by the phase of a call. *)
LEMMA Mapping ==
  ASSUME TypeOK, NEW c \in Calls
  PROVE  Reads(AbstractState[c], AbstractWhere[c], phase[c], outcome[c], scopeOf[c])
BY DEF Reads, AbstractState, AbstractStateOf, AbstractWhere, TypeOK, Phases

(* The same, of the state after a step. *)
LEMMA MappingAfter ==
  ASSUME TypeOK', NEW c \in Calls
  PROVE  Reads(AbstractState'[c], AbstractWhere'[c], phase'[c], outcome'[c], scopeOf'[c])
BY DEF Reads, AbstractState, AbstractStateOf, AbstractWhere, TypeOK, Phases

(* The abstract variables are functions on the calls. *)
LEMMA MappingDomains ==
  /\ AbstractState = [c \in Calls |-> AbstractState[c]]
  /\ AbstractWhere = [c \in Calls |-> AbstractWhere[c]]
  /\ AbstractState' = [c \in Calls |-> AbstractState'[c]]
  /\ AbstractWhere' = [c \in Calls |-> AbstractWhere'[c]]
<1>1. AbstractState = [c \in Calls |-> AbstractState[c]]
  BY DEF AbstractState
<1>2. AbstractWhere = [c \in Calls |-> AbstractWhere[c]]
  BY DEF AbstractWhere
<1>3. AbstractState' = [c \in Calls |-> AbstractState'[c]]
  BY DEF AbstractState
<1>4. AbstractWhere' = [c \in Calls |-> AbstractWhere'[c]]
  BY DEF AbstractWhere
<1> QED
  BY <1>1, <1>2, <1>3, <1>4

(* Whoever writes is a holder, whoever waits is in the queue. *)
LEMMA MappingOf ==
  ASSUME IInv, NEW s \in Scopes
  PROVE  /\ \A d \in Calls : d \in Promise!Of(s, "writing") <=> Holding(d, s)
         /\ \A d \in Calls : d \in Promise!Of(s, "waiting") <=> Contains(queue[s], d)
         /\ Promise!Of(s, "writing") \subseteq Calls /\ Promise!Of(s, "waiting") \subseteq Calls
<1>1. \A d \in Calls :
        /\ Reads(AbstractState[d], AbstractWhere[d], phase[d], outcome[d], scopeOf[d])
        /\ phase[d] \in Phases
  BY Mapping DEF IInv, TypeOK
<1>2. s # NoScope
  BY CoordinatorAssumption
<1>3. ASSUME NEW d \in Calls PROVE d \in Promise!Of(s, "writing") <=> Holding(d, s)
  BY <1>1, <1>2 DEF Reads, Promise!Of, Holding, Phases
<1>4. ASSUME NEW d \in Calls PROVE d \in Promise!Of(s, "waiting") <=> Contains(queue[s], d)
  <2>1. Contains(queue[s], d) <=> phase[d] = "waiting" /\ scopeOf[d] = s
    BY DEF IInv, NoStrandedWaiter
  <2> QED
    BY <1>1, <1>2, <2>1 DEF Reads, Promise!Of, Phases
<1> QED
  BY <1>3, <1>4 DEF Promise!Of

(* Starting at once and joining the line: the write is accepted. *)
LEMMA AcceptanceIsAccept ==
  ASSUME IInv, IInv', NEW c \in Calls, NEW s \in Scopes, RunNow(c, s) \/ RunQueued(c, s), Record(c)
  PROVE  Promise!Accept(c, s)
<1>0. TypeOK /\ TypeOK'
  BY DEF IInv
<1>1. phase[c] = "idle" /\ outcome' = outcome /\ scopeOf' = [scopeOf EXCEPT ![c] = s]
  BY DEF RunNow, RunQueued
<1>2. /\ scopeOf'[c] = s
      /\ \A d \in Calls : d # c => /\ phase'[d] = phase[d] /\ scopeOf'[d] = scopeOf[d]
                                 /\ outcome'[d] = outcome[d]
  BY <1>0, <1>1 DEF RunNow, RunQueued, TypeOK
<1>3. phase'[c] = IF active[s] THEN "waiting" ELSE "running"
  BY <1>0 DEF RunNow, RunQueued, TypeOK
<1>4. active[s] <=> Promise!Of(s, "writing") # {}
  BY MappingOf DEF IInv, NoScopeLeak
<1>5. arrivals' = Append(arrivals, c)
  BY <1>1, <1>3 DEF Record, Accepted
<1>6. \A d \in Calls :
        /\ AbstractState'[d] = IF d = c THEN IF Promise!Of(s, "writing") = {} THEN "writing"
                                             ELSE "waiting"
                               ELSE AbstractState[d]
        /\ AbstractWhere'[d] = IF d = c THEN s ELSE AbstractWhere[d]
  <2> SUFFICES ASSUME NEW d \in Calls
               PROVE /\ AbstractState'[d] = IF d = c THEN IF Promise!Of(s, "writing") = {}
                                                         THEN "writing" ELSE "waiting"
                                            ELSE AbstractState[d]
                     /\ AbstractWhere'[d] = IF d = c THEN s ELSE AbstractWhere[d]
    OBVIOUS
  <2>1. /\ Reads(AbstractState[d], AbstractWhere[d], phase[d], outcome[d], scopeOf[d])
        /\ Reads(AbstractState'[d], AbstractWhere'[d], phase'[d], outcome'[d], scopeOf'[d])
        /\ phase[d] \in Phases
    BY <1>0, Mapping, MappingAfter DEF TypeOK
  <2> QED
    BY <1>2, <1>3, <1>4, <2>1 DEF Reads, Phases
<1>7. AbstractState[c] = "new"
  BY <1>0, <1>1, Mapping DEF Reads
<1> QED
  BY <1>5, <1>6, <1>7, MappingDomains DEF Promise!Accept

(* A queue error, at once or while waiting: the write is refused. *)
LEMMA RejectionIsRefuse ==
  ASSUME IInv, IInv', NEW c \in Calls, phase[c] \in {"idle", "waiting"},
         NEW code \in Refusals, Reject(c, code),
         \A d \in Calls : d # c => scopeOf'[d] = scopeOf[d], arrivals' = arrivals
  PROVE  Promise!Refuse(c)
<1>0. TypeOK /\ TypeOK'
  BY DEF IInv
<1>1. /\ phase'[c] = "settled" /\ outcome'[c] \notin Results
      /\ \A d \in Calls : d # c => phase'[d] = phase[d] /\ outcome'[d] = outcome[d]
  BY <1>0 DEF Reject, TypeOK, Refusals, Results
<1>2. ASSUME NEW d \in Calls
      PROVE /\ AbstractState'[d] = IF d = c THEN "refused" ELSE AbstractState[d]
            /\ AbstractWhere'[d] = IF d = c THEN NoScope ELSE AbstractWhere[d]
  <2>1. /\ Reads(AbstractState[d], AbstractWhere[d], phase[d], outcome[d], scopeOf[d])
        /\ Reads(AbstractState'[d], AbstractWhere'[d], phase'[d], outcome'[d], scopeOf'[d])
        /\ phase[d] \in Phases
    BY <1>0, Mapping, MappingAfter DEF TypeOK
  <2> QED
    BY <1>1, <2>1 DEF Reads, Phases
<1>3. AbstractState[c] \in {"new", "waiting"}
  BY <1>0, Mapping DEF Reads
<1> QED
  BY <1>2, <1>3, MappingDomains DEF Promise!Refuse

(* Steps that the callers do not see. *)
LEMMA UnseenSteps ==
  ASSUME IInv, IInv', arrivals' = arrivals, scopeOf' = scopeOf,
         \A d \in Calls : \/ (phase'[d] = phase[d] /\ outcome'[d] = outcome[d])
                         \/ (phase[d] = "running" /\ phase'[d] = "returned")
  PROVE  UNCHANGED <<arrivals, AbstractWhere, AbstractState>>
<1>1. ASSUME NEW d \in Calls
      PROVE  AbstractState'[d] = AbstractState[d] /\ AbstractWhere'[d] = AbstractWhere[d]
  <2>1. /\ Reads(AbstractState[d], AbstractWhere[d], phase[d], outcome[d], scopeOf[d])
        /\ Reads(AbstractState'[d], AbstractWhere'[d], phase'[d], outcome'[d], scopeOf'[d])
        /\ phase[d] \in Phases
    BY Mapping, MappingAfter DEF IInv, TypeOK
  <2> QED
    BY <2>1 DEF Reads, Phases
<1> QED
  BY <1>1, MappingDomains

(* The release: the write is complete, and the longest waiter writes.      *)
LEMMA ReleaseIsComplete ==
  ASSUME OrderIInv, IInv', NEW c \in Calls, Release(c), Record(c)
  PROVE  Promise!Complete(c)
<1> DEFINE s == scopeOf[c]
<1>0. IInv /\ TypeOK /\ TypeOK'
  BY DEF OrderIInv, IInv
<1>1. /\ phase[c] = "returned" /\ outcome[c] \in Results /\ s \in Scopes
      /\ scopeOf' = scopeOf /\ outcome' = outcome
  BY DEF OrderIInv, IInv, ReturnedHasResult, ScopeNamed, Release
<1>2. arrivals' = arrivals
  BY <1>1 DEF Record, Accepted
<1>3. AbstractState[c] = "writing" /\ AbstractWhere[c] = s
  BY <1>0, <1>1, Mapping DEF Reads
<1>4. \A d \in Calls :
        /\ Reads(AbstractState[d], AbstractWhere[d], phase[d], outcome[d], scopeOf[d])
        /\ Reads(AbstractState'[d], AbstractWhere'[d], phase'[d], outcome[d], scopeOf[d])
        /\ phase[d] \in Phases
  BY <1>0, <1>1, Mapping, MappingAfter DEF TypeOK
<1>5. queue[s] \in Seq(Calls) /\ IsInjective(queue[s])
  BY <1>0, <1>1 DEF IInv, TypeOK, NoStrandedWaiter
<1>6. CASE queue[s] = <<>>
  <2>1. phase' = [phase EXCEPT ![c] = "settled"]
    BY <1>6 DEF Release, StartNext
  <2>2. Promise!Of(s, "waiting") = {}
    <3>1. \A d : ~Contains(queue[s], d)
      BY <1>6, EmptySeq DEF Contains
    <3> QED
      BY <1>0, <1>1, <3>1, MappingOf
  <2>3. ASSUME NEW d \in Calls
        PROVE  /\ AbstractState'[d] = IF d = c THEN "done" ELSE AbstractState[d]
               /\ AbstractWhere'[d] = AbstractWhere[d]
    <3>1. phase'[d] = IF d = c THEN "settled" ELSE phase[d]
      BY <1>0, <2>1 DEF TypeOK
    <3> QED
      BY <1>1, <1>4, <3>1 DEF Reads, Phases
  <2> QED
    BY <1>2, <1>3, <2>2, <2>3, MappingDomains DEF Promise!Complete
<1>7. CASE queue[s] # <<>>
  <2> DEFINE e == Head(queue[s])
  <2>0. phase' = [phase EXCEPT ![c] = "settled", ![e] = "running"]
    BY <1>7 DEF Release, StartNext
  <2>1. e \in Calls /\ phase[e] = "waiting" /\ scopeOf[e] = s /\ e # c
    BY <1>0, <1>1, <1>7, HeadWaits
  <2>2. /\ \A y : Contains(queue[s], y) => y = e \/ Precedes(queue[s], e, y)
        /\ Contains(queue[s], e)
    BY <1>5, <1>7, LeavingInFront
  <2> HIDE DEF e
  <2>3. Promise!Successor(c, e)
    <3>1. e \in Promise!Of(s, "waiting")
      BY <1>0, <1>1, <2>1, <2>2, MappingOf
    <3>2. ASSUME NEW i \in DOMAIN arrivals, NEW j \in DOMAIN arrivals,
                 arrivals[i] \in Promise!Of(s, "waiting"), arrivals[j] = e
          PROVE  j <= i
      <4>1. DOMAIN arrivals = 1 .. Len(arrivals) /\ Len(arrivals) \in Nat /\ IsInjective(arrivals)
        BY LenProperties DEF OrderIInv, ArrivalsAreCalls
      <4>2. arrivals[i] \in Calls /\ Contains(queue[s], arrivals[i])
        BY <1>0, <1>1, <3>2, MappingOf
      <4>3. CASE arrivals[i] = e
        BY <3>2, <4>1, <4>3 DEF IsInjective
      <4>4. CASE Precedes(arrivals, e, arrivals[i])
        <5>1. PICK k, l \in DOMAIN arrivals : k < l /\ arrivals[k] = e /\ arrivals[l] = arrivals[i]
          BY <4>4 DEF Precedes
        <5>2. k = j /\ l = i
          BY <3>2, <4>1, <5>1 DEF IsInjective
        <5> QED
          BY <4>1, <5>1, <5>2
      <4> QED
        BY <1>1, <2>1, <2>2, <4>2, <4>3, <4>4 DEF OrderIInv, QueueFollowsArrivals
    <3> QED
      BY <1>3, <3>1, <3>2 DEF Promise!Successor
  <2>4. ASSUME NEW d \in Calls
        PROVE  /\ AbstractState'[d] = IF d = e THEN "writing" ELSE
                                      IF d = c THEN "done" ELSE AbstractState[d]
               /\ AbstractWhere'[d] = AbstractWhere[d]
    <3>1. phase'[d] = IF d = e THEN "running" ELSE IF d = c THEN "settled" ELSE phase[d]
      BY <1>0, <2>0, <2>1 DEF TypeOK
    <3> QED
      BY <1>1, <1>4, <2>1, <3>1 DEF Reads, Phases
  <2>5. /\ AbstractState' = [AbstractState EXCEPT ![c] = "done", ![e] = "writing"]
        /\ AbstractWhere' = AbstractWhere
    BY <2>1, <2>4, MappingDomains
  <2> QED
    BY <1>2, <1>3, <2>1, <2>3, <2>5 DEF Promise!Complete
<1> QED
  BY <1>6, <1>7

(* Every step of the line is a step of the promise, or unseen. *)
LEMMA StepsSimulate ==
  ASSUME OrderIInv, [OrderNext]_orderVars
  PROVE  [Promise!Next]_(Promise!vars)
<1>0. OrderIInv' /\ IInv /\ IInv'
  BY NextKeepsOrder DEF OrderIInv
<1> USE DEF Promise!vars
<1>1. CASE UNCHANGED orderVars
  BY <1>0, <1>1, UnseenSteps DEF orderVars, vars
<1>2. ASSUME NEW c \in Calls, Record(c), NEW code \in Refusals,
             phase[c] \in {"idle", "waiting"}, Reject(c, code),
             \A d \in Calls : d # c => scopeOf'[d] = scopeOf[d]
      PROVE  Promise!Refuse(c)
  <2>1. arrivals' = arrivals
    BY <1>0, <1>2 DEF Record, Accepted, Reject, IInv, TypeOK
  <2> QED
    BY <1>0, <1>2, <2>1, RejectionIsRefuse
<1>3. ASSUME NEW c \in Calls, Record(c), Run(c) PROVE Promise!Next
  <2>0. scopeOf \in [Calls -> Scopes \cup {NoScope}]
    BY <1>0 DEF IInv, TypeOK
  <2>1. CASE RunInvalid(c)
    BY <1>2, <1>3, <2>1 DEF RunInvalid, Refusals, Promise!Next
  <2>2. ASSUME NEW s \in Scopes, RunAborted(c, s) \/ RunFull(c, s) PROVE Promise!Next
    <3>1. \A d \in Calls : d # c => scopeOf'[d] = scopeOf[d]
      BY <2>0, <2>2 DEF RunAborted, RunFull
    <3> QED
      BY <1>2, <1>3, <2>2, <3>1 DEF RunAborted, RunFull, Refusals, Promise!Next
  <2>3. ASSUME NEW s \in Scopes, RunNow(c, s) \/ RunQueued(c, s) PROVE Promise!Next
    BY <1>0, <1>3, <2>3, AcceptanceIsAccept DEF Promise!Next
  <2> QED
    BY <1>3, <2>1, <2>2, <2>3 DEF Run
<1>4. ASSUME NEW c \in Calls, Record(c), Return(c)
      PROVE  UNCHANGED <<arrivals, AbstractWhere, AbstractState>>
  <2>1. /\ arrivals' = arrivals /\ scopeOf' = scopeOf
        /\ \A d \in Calls : \/ (phase'[d] = phase[d] /\ outcome'[d] = outcome[d])
                           \/ (phase[d] = "running" /\ phase'[d] = "returned")
    BY <1>0, <1>4 DEF Record, Accepted, Return, IInv, TypeOK
  <2> QED
    BY <1>0, <2>1, UnseenSteps
<1>5. ASSUME NEW c \in Calls, Record(c), Release(c) PROVE Promise!Next
  BY <1>0, <1>5, ReleaseIsComplete DEF Promise!Next
<1>6. ASSUME NEW c \in timers, Record(c), NEW code \in Refusals, RemoveQueued(c, code)
      PROVE  Promise!Next
  <2>1. c \in Calls /\ phase[c] = "waiting" /\ scopeOf[c] \in Scopes /\ Contains(queue[scopeOf[c]], c)
    BY <1>0 DEF IInv, TypeOK, WaitBookkeeping, ScopeNamed, NoStrandedWaiter
  <2>2. Reject(c, code) /\ scopeOf' = scopeOf
    BY <1>6, <2>1 DEF RemoveQueued
  <2> QED
    BY <1>2, <1>6, <2>1, <2>2 DEF Promise!Next
<1>7. ASSUME NEW c \in Calls, Record(c), WaitExpires(c) PROVE Promise!Next
  BY <1>6, <1>7 DEF WaitExpires, Refusals
<1>8. ASSUME NEW c \in Calls, Record(c), Abort(c)
      PROVE  Promise!Next \/ UNCHANGED <<arrivals, AbstractWhere, AbstractState>>
  <2>1. CASE c \in listeners
    <3>1. c \in timers
      BY <1>0, <2>1 DEF IInv, WaitBookkeeping
    <3> QED
      BY <1>6, <1>8, <2>1, <3>1 DEF Abort, Refusals
  <2>2. CASE c \notin listeners
    <3>1. UNCHANGED <<scopeOf, phase, outcome, arrivals>>
      BY <1>8, <2>2 DEF Abort, Record, Accepted
    <3> QED
      BY <1>0, <3>1, UnseenSteps
  <2> QED
    BY <2>1, <2>2
<1> QED
  BY <1>1, <1>3, <1>4, <1>5, <1>7, <1>8 DEF OrderNext, Step, Quiescent, orderVars

(* WriteOrder implements SerialWrites: whatever aborts, timeouts and full   *)
(* queues take out of a line, for any number of calls and scopes, the       *)
(* writes of a workspace are served one at a time and in arrival order.     *)
THEOREM ServedInOrder == OrderSpec => ServesInArrivalOrder
<1>1. OrderInit => Promise!Init
  BY DEF OrderInit, Init, Promise!Init, AbstractState, AbstractStateOf, AbstractWhere
<1>2. OrderIInv /\ [OrderNext]_orderVars => [Promise!Next]_(Promise!vars)
  BY StepsSimulate
<1>3. OrderSpec => OrderInit /\ [][OrderNext]_orderVars
  BY PTL DEF OrderSpec
<1> QED
  BY <1>1, <1>2, <1>3, InitOrder, NextKeepsOrder, PTL DEF ServesInArrivalOrder, Promise!Spec

=============================================================================
