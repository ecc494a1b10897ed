-------------------------- MODULE SerialWritesProofs --------------------------
(***************************************************************************)
(* What the promise of the write queue gives to those who rely on it, for  *)
(* any number of calls and scopes: one writer per scope, and service in    *)
(* the order of arrival.                                                   *)
(*                                                                         *)
(* That nobody overtakes is inductive only together with the facts that a  *)
(* scope has one writer, that calls wait only behind a writer, and that    *)
(* nobody arrives twice.                                                   *)
(***************************************************************************)
EXTENDS SerialWrites, SequenceTheorems, TLAPS

WriteTypeOK ==
  /\ arrivals \in Seq(Calls)
  /\ where \in [Calls -> Scopes \cup {NoScope}]
  /\ state \in [Calls -> {"new", "waiting", "writing", "done", "refused"}]

ArrivedOnce ==
  /\ \A i, j \in DOMAIN arrivals : arrivals[i] = arrivals[j] => i = j
  /\ \A i \in DOMAIN arrivals : state[arrivals[i]] # "new"

OneWriter ==
  \A c, d \in Calls :
    state[c] = "writing" /\ state[d] = "writing" /\ where[c] = where[d] => c = d

WaitersHaveAWriter ==
  \A c \in Calls : state[c] = "waiting" =>
    \E d \in Calls : state[d] = "writing" /\ where[d] = where[c]

NobodyOvertakes ==
  \A c, d \in Calls :
    Before(c, d) /\ where[c] = where[d] /\ state[d] \in {"writing", "done"}
    => state[c] \in {"done", "refused"}

SerialInv ==
  /\ WriteTypeOK
  /\ ArrivedOnce
  /\ OneWriter
  /\ WaitersHaveAWriter
  /\ NobodyOvertakes

-----------------------------------------------------------------------------
(* Nobody has been accepted yet. *)
LEMMA InitSerial == Init => SerialInv
<1> SUFFICES ASSUME Init PROVE SerialInv
  OBVIOUS
<1>1. WriteTypeOK
  BY EmptySeq DEF Init, WriteTypeOK
<1>2. ArrivedOnce /\ NobodyOvertakes
  BY EmptySeq DEF Init, ArrivedOnce, NobodyOvertakes, Before
<1>3. OneWriter /\ WaitersHaveAWriter
  BY DEF Init, OneWriter, WaitersHaveAWriter
<1> QED
  BY <1>1, <1>2, <1>3 DEF SerialInv

(* An accepted call is the last in the line, and the rest stays. *)
LEMMA LastInLine ==
  ASSUME WriteTypeOK, ArrivedOnce, NEW c \in Calls, state[c] = "new",
         arrivals' = Append(arrivals, c)
  PROVE  /\ arrivals' \in Seq(Calls)
         /\ \A i, j \in DOMAIN arrivals' : arrivals'[i] = arrivals'[j] => i = j
         /\ \A i \in DOMAIN arrivals' :
              arrivals'[i] = c \/ \E j \in DOMAIN arrivals : arrivals[j] = arrivals'[i]
         /\ \A x, y : Before(x, y) => Before(x, y)'
         /\ \A x, y : Before(x, y)' => \/ Before(x, y)
                                       \/ y = c /\ x # c
         /\ \A x : ~Before(c, x)'
<1> DEFINE n == Len(arrivals)
           r == arrivals'
<1>1. /\ r \in Seq(Calls) /\ n \in Nat
      /\ DOMAIN arrivals = 1 .. n /\ DOMAIN r = 1 .. n + 1
      /\ \A i \in 1 .. n : r[i] = arrivals[i]
      /\ r[n + 1] = c
  BY AppendProperties, LenProperties DEF WriteTypeOK
<1>2. \A i \in 1 .. n : arrivals[i] # c
  BY <1>1 DEF ArrivedOnce
<1> HIDE DEF n, r
<1>3. \A i, j \in DOMAIN r : r[i] = r[j] => i = j
  BY <1>1, <1>2 DEF ArrivedOnce
<1>4. \A i \in DOMAIN r : r[i] = c \/ \E j \in DOMAIN arrivals : arrivals[j] = r[i]
  BY <1>1
<1>5. ASSUME NEW x, NEW y, Before(x, y) PROVE Before(x, y)'
  BY <1>1, <1>5 DEF Before, r
<1>6. ASSUME NEW x, NEW y, Before(x, y)' PROVE Before(x, y) \/ (y = c /\ x # c)
  <2>1. PICK i, j \in 1 .. n + 1 : i < j /\ r[i] = x /\ r[j] = y
    BY <1>1, <1>6 DEF Before, r
  <2>2. i \in 1 .. n /\ arrivals[i] = x /\ x # c
    BY <1>1, <1>2, <2>1
  <2>3. CASE j \in 1 .. n
    BY <1>1, <2>1, <2>2, <2>3 DEF Before
  <2>4. CASE j = n + 1
    BY <1>1, <2>1, <2>2, <2>4
  <2> QED
    BY <1>1, <2>1, <2>3, <2>4
<1>7. ASSUME NEW x, Before(c, x)' PROVE FALSE
  <2>1. PICK i, j \in 1 .. n + 1 : i < j /\ r[i] = c /\ r[j] = x
    BY <1>1, <1>7 DEF Before, r
  <2> QED
    BY <1>1, <1>2, <2>1
<1> QED
  BY <1>1, <1>3, <1>4, <1>5, <1>6, <1>7 DEF r

(* A write is accepted. *)
LEMMA AcceptKeepsSerial ==
  ASSUME SerialInv, NEW c \in Calls, NEW s \in Scopes, Accept(c, s)
  PROVE  SerialInv'
<1>0. WriteTypeOK /\ ArrivedOnce
  BY DEF SerialInv
<1>1. /\ where'[c] = s
      /\ state'[c] = IF Of(s, "writing") = {} THEN "writing" ELSE "waiting"
      /\ \A d \in Calls : d # c => state'[d] = state[d] /\ where'[d] = where[d]
  BY <1>0 DEF Accept, WriteTypeOK
<1>2. state[c] = "new" /\ arrivals' = Append(arrivals, c)
  BY DEF Accept
<1>3. WriteTypeOK'
  BY <1>0, <1>2, LastInLine DEF Accept, WriteTypeOK
<1>4. ArrivedOnce'
  <2>1. \A i, j \in DOMAIN arrivals' : arrivals'[i] = arrivals'[j] => i = j
    BY <1>0, <1>2, LastInLine
  <2>2. ASSUME NEW i \in DOMAIN arrivals' PROVE state'[arrivals'[i]] # "new"
    <3>1. arrivals'[i] \in Calls
      BY <1>3, ElementOfSeq, LenProperties DEF WriteTypeOK
    <3>2. arrivals'[i] = c \/ \E j \in DOMAIN arrivals : arrivals[j] = arrivals'[i]
      BY <1>0, <1>2, LastInLine
    <3> QED
      BY <1>0, <1>1, <3>1, <3>2 DEF ArrivedOnce
  <2> QED
    BY <2>1, <2>2 DEF ArrivedOnce
<1>5. OneWriter'
  BY <1>1 DEF SerialInv, OneWriter, Of
<1>6. WaitersHaveAWriter'
  BY <1>1, <1>2 DEF SerialInv, WaitersHaveAWriter, Of
<1>7. NobodyOvertakes'
  <2> SUFFICES ASSUME NEW x \in Calls, NEW y \in Calls, Before(x, y)', where'[x] = where'[y],
                      state'[y] \in {"writing", "done"}
               PROVE  state'[x] \in {"done", "refused"}
    BY DEF NobodyOvertakes
  <2>1. x # c /\ (Before(x, y) \/ y = c)
    BY <1>0, <1>2, LastInLine
  <2>2. CASE y # c
    BY <1>1, <2>1, <2>2 DEF SerialInv, NobodyOvertakes
  <2>3. CASE y = c
    <3>1. where[x] = s /\ Of(s, "writing") = {}
      BY <1>1, <2>1, <2>3
    <3>2. state[x] \notin {"writing", "waiting"}
      BY <2>1, <3>1 DEF SerialInv, WaitersHaveAWriter, Of
    <3>3. state[x] # "new"
      <4>1. \E i \in DOMAIN arrivals' : arrivals'[i] = x
        BY <2>1 DEF Before
      <4>2. \E i \in DOMAIN arrivals : arrivals[i] = x
        BY <1>0, <1>2, <2>1, <4>1, LastInLine
      <4> QED
        BY <1>0, <4>2 DEF ArrivedOnce
    <3> QED
      BY <1>0, <1>1, <2>1, <3>2, <3>3 DEF WriteTypeOK
  <2> QED
    BY <2>2, <2>3
<1> QED
  BY <1>3, <1>4, <1>5, <1>6, <1>7 DEF SerialInv

(* A write is refused before it started. *)
LEMMA RefuseKeepsSerial ==
  ASSUME SerialInv, NEW c \in Calls, Refuse(c)
  PROVE  SerialInv'
<1>0. WriteTypeOK /\ ArrivedOnce
  BY DEF SerialInv
<1>1. /\ state'[c] = "refused" /\ state[c] \in {"new", "waiting"}
      /\ \A d \in Calls : d # c => state'[d] = state[d] /\ where'[d] = where[d]
      /\ arrivals' = arrivals
  BY <1>0 DEF Refuse, WriteTypeOK
<1>2. WriteTypeOK'
  BY <1>0 DEF Refuse, WriteTypeOK
<1>3. ArrivedOnce'
  <2>1. \A i \in DOMAIN arrivals : arrivals[i] \in Calls
    BY <1>0, ElementOfSeq, LenProperties DEF WriteTypeOK
  <2> QED
    BY <1>0, <1>1, <2>1 DEF ArrivedOnce
<1>4. OneWriter'
  BY <1>1 DEF SerialInv, OneWriter
<1>5. WaitersHaveAWriter'
  BY <1>1 DEF SerialInv, WaitersHaveAWriter
<1>6. NobodyOvertakes'
  BY <1>1 DEF SerialInv, NobodyOvertakes, Before
<1> QED
  BY <1>2, <1>3, <1>4, <1>5, <1>6 DEF SerialInv

(* A write is complete, and the next in line writes. *)
LEMMA CompleteKeepsSerial ==
  ASSUME SerialInv, NEW c \in Calls, Complete(c)
  PROVE  SerialInv'
<1>0. WriteTypeOK /\ ArrivedOnce
  BY DEF SerialInv
<1>1. state[c] = "writing" /\ arrivals' = arrivals /\ where' = where
  BY DEF Complete
<1>2. \A i \in DOMAIN arrivals : arrivals[i] \in Calls
  BY <1>0, ElementOfSeq, LenProperties DEF WriteTypeOK
<1>3. CASE Of(where[c], "waiting") = {} /\ state' = [state EXCEPT ![c] = "done"]
  <2>1. state'[c] = "done" /\ \A d \in Calls : d # c => state'[d] = state[d]
    BY <1>0, <1>3 DEF WriteTypeOK
  <2>2. WriteTypeOK' /\ ArrivedOnce'
    BY <1>0, <1>1, <1>2, <1>3, <2>1 DEF WriteTypeOK, ArrivedOnce
  <2>3. OneWriter' /\ NobodyOvertakes'
    BY <1>1, <2>1 DEF SerialInv, OneWriter, NobodyOvertakes, Before
  <2>4. WaitersHaveAWriter'
    BY <1>1, <1>3, <2>1 DEF SerialInv, WaitersHaveAWriter, Of
  <2> QED
    BY <2>2, <2>3, <2>4 DEF SerialInv
<1>4. ASSUME NEW e \in Calls, Successor(c, e),
             state' = [state EXCEPT ![c] = "done", ![e] = "writing"]
      PROVE  SerialInv'
  <2>0. state[e] = "waiting" /\ where[e] = where[c] /\ e # c
    BY <1>1, <1>4 DEF Successor, Of
  <2>1. /\ state'[c] = "done" /\ state'[e] = "writing"
        /\ \A d \in Calls : d # c /\ d # e => state'[d] = state[d]
    BY <1>0, <1>4, <2>0 DEF WriteTypeOK
  <2>2. WriteTypeOK' /\ ArrivedOnce'
    <3>1. WriteTypeOK'
      BY <1>0, <1>1, <1>4 DEF WriteTypeOK
    <3> QED
      BY <1>0, <1>1, <1>2, <2>1, <3>1 DEF ArrivedOnce
  <2>3. OneWriter'
    BY <1>1, <2>0, <2>1 DEF SerialInv, OneWriter
  <2>4. WaitersHaveAWriter'
    BY <1>1, <2>0, <2>1 DEF SerialInv, WaitersHaveAWriter, OneWriter
  <2>5. NobodyOvertakes'
    <3> SUFFICES ASSUME NEW x \in Calls, NEW y \in Calls, Before(x, y), where[x] = where[y],
                        state'[y] \in {"writing", "done"}
                 PROVE  state'[x] \in {"done", "refused"}
      BY <1>1 DEF NobodyOvertakes, Before
    <3>1. CASE y # e
      <4>1. state[y] \in {"writing", "done"}
        BY <1>1, <2>1, <3>1
      <4>2. state[x] \in {"done", "refused"}
        BY <4>1 DEF SerialInv, NobodyOvertakes
      <4> QED
        BY <1>1, <2>0, <2>1, <4>2
    <3>2. CASE y = e
      <4>1. state[x] # "new"
        BY <1>0 DEF Before, ArrivedOnce
      <4>2. state[x] # "waiting"
        <5>1. PICK i, j \in DOMAIN arrivals : i < j /\ arrivals[i] = x /\ arrivals[j] = e
          BY <3>2 DEF Before
        <5>2. ASSUME state[x] = "waiting" PROVE j <= i
          BY <1>4, <2>0, <3>2, <5>1, <5>2 DEF Successor, Of
        <5>3. i \in Nat /\ j \in Nat
          BY <1>0, LenProperties DEF WriteTypeOK
        <5> QED
          BY <5>1, <5>2, <5>3
      <4>3. CASE state[x] = "writing"
        BY <1>1, <2>0, <2>1, <3>2, <4>3 DEF SerialInv, OneWriter
      <4>4. CASE state[x] \in {"done", "refused"}
        BY <1>1, <2>0, <2>1, <4>4
      <4> QED
        BY <1>0, <4>1, <4>2, <4>3, <4>4 DEF WriteTypeOK
    <3> QED
      BY <3>1, <3>2
  <2> QED
    BY <2>2, <2>3, <2>4, <2>5 DEF SerialInv
<1> QED
  BY <1>3, <1>4 DEF Complete

(* Every step keeps the invariant. *)
LEMMA NextKeepsSerial == SerialInv /\ [Next]_vars => SerialInv'
<1> SUFFICES ASSUME SerialInv, [Next]_vars PROVE SerialInv'
  OBVIOUS
<1>1. CASE UNCHANGED vars
  BY <1>1 DEF vars, SerialInv, WriteTypeOK, ArrivedOnce, OneWriter, WaitersHaveAWriter,
              NobodyOvertakes, Before
<1> QED
  BY <1>1, AcceptKeepsSerial, RefuseKeepsSerial, CompleteKeepsSerial DEF Next

(* The promise itself: one writer per scope, service by arrival. *)
THEOREM SerialSafety == Spec => []SerialInv
BY InitSerial, NextKeepsSerial, PTL DEF Spec

-----------------------------------------------------------------------------
(* How one step may move a call. *)
StateMoves(c) ==
  \/ state'[c] = state[c] /\ where'[c] = where[c]
  \/ state[c] = "new" /\ state'[c] \in {"waiting", "writing"}
  \/ state[c] = "waiting" /\ state'[c] = "writing" /\ where'[c] = where[c]
  \/ state[c] \in {"new", "waiting"} /\ state'[c] = "refused"
  \/ state[c] = "writing" /\ state'[c] = "done" /\ where'[c] = where[c]

(* A call moves on and never back, and its scope stays. *)
LEMMA CallsMoveOn ==
  ASSUME SerialInv, [Next]_vars, NEW c \in Calls
  PROVE  StateMoves(c)
<1>0. WriteTypeOK
  BY DEF SerialInv
<1> USE DEF StateMoves
<1>1. CASE UNCHANGED vars
  BY <1>1 DEF vars
<1>2. ASSUME NEW d \in Calls, NEW s \in Scopes, Accept(d, s) PROVE StateMoves(c)
  BY <1>0, <1>2 DEF Accept, WriteTypeOK
<1>3. ASSUME NEW d \in Calls, Refuse(d) PROVE StateMoves(c)
  BY <1>0, <1>3 DEF Refuse, WriteTypeOK
<1>4. ASSUME NEW d \in Calls, Complete(d) PROVE StateMoves(c)
  <2>1. CASE state' = [state EXCEPT ![d] = "done"]
    BY <1>0, <1>4, <2>1 DEF Complete, WriteTypeOK
  <2>2. ASSUME NEW e \in Calls, Successor(d, e),
               state' = [state EXCEPT ![d] = "done", ![e] = "writing"]
        PROVE  StateMoves(c)
    BY <1>0, <1>4, <2>2 DEF Complete, Successor, Of, WriteTypeOK
  <2> QED
    BY <1>4, <2>1, <2>2 DEF Complete
<1> QED
  BY <1>1, <1>2, <1>3, <1>4 DEF Next

(* The order of arrival is never revised: only a new call comes to stand   *)
(* behind others.                                                          *)
LEMMA OrderStands ==
  ASSUME SerialInv, [Next]_vars, NEW x \in Calls, NEW y \in Calls
  PROVE  /\ Before(x, y) => Before(x, y)'
         /\ Before(x, y)' => \/ Before(x, y)
                             \/ state[y] = "new" /\ state'[y] \in {"waiting", "writing"} /\ x # y
<1>0. WriteTypeOK /\ ArrivedOnce
  BY DEF SerialInv
<1>1. CASE arrivals' = arrivals
  BY <1>1 DEF Before
<1>2. ASSUME NEW d \in Calls, NEW s \in Scopes, Accept(d, s)
      PROVE  /\ Before(x, y) => Before(x, y)'
             /\ Before(x, y)' => Before(x, y) \/ (y = d /\ x # d)
  BY <1>0, <1>2, LastInLine DEF Accept
<1>3. ASSUME NEW d \in Calls, NEW s \in Scopes, Accept(d, s)
      PROVE  state[d] = "new" /\ state'[d] \in {"waiting", "writing"}
  BY <1>0, <1>3 DEF Accept, WriteTypeOK
<1> QED
  BY <1>1, <1>2, <1>3 DEF Next, Refuse, Complete, vars

(* Whoever comes before another is not new. *)
LEMMA ArrivedAreKnown ==
  ASSUME SerialInv, NEW x \in Calls, NEW y \in Calls, Before(x, y)
  PROVE  state[x] # "new" /\ state[y] # "new" /\ x # y /\ ~Before(y, x)
<1>1. PICK i, j \in DOMAIN arrivals : i < j /\ arrivals[i] = x /\ arrivals[j] = y
  BY DEF Before
<1>2. i \in Nat /\ j \in Nat /\ DOMAIN arrivals \subseteq Nat
  BY LenProperties DEF SerialInv, WriteTypeOK
<1>3. ArrivedOnce
  BY DEF SerialInv
<1>4. ~Before(y, x)
  <2> SUFFICES ASSUME NEW k \in DOMAIN arrivals, NEW l \in DOMAIN arrivals, k < l,
                      arrivals[k] = y, arrivals[l] = x
               PROVE  FALSE
    BY DEF Before
  <2>1. k = j /\ l = i
    BY <1>1, <1>3 DEF ArrivedOnce
  <2> QED
    BY <1>1, <1>2, <2>1
<1> QED
  BY <1>1, <1>2, <1>3, <1>4 DEF ArrivedOnce

=============================================================================
