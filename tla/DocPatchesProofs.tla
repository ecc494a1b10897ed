--------------------------- MODULE DocPatchesProofs ---------------------------
(***************************************************************************)
(* Reviewed patches, for any number of patches, apply calls, credentials   *)
(* and workspaces, any store size and lifetime, and any edits around them: *)
(* a patch is published at most once, on the version that was reviewed,    *)
(* and the answers of apply are true.                                      *)
(*                                                                         *)
(* Two facts carry the argument.  The record of a patch is a lock on it: a *)
(* call that works on a patch finds it "applying", nobody drops such a     *)
(* record, and after a push it never becomes "prepared" again.  And while  *)
(* the record is away, no call can find the patch at all.  The queue gives *)
(* the rest: two calls never work in one workspace (SerialInv).            *)
(***************************************************************************)
EXTENDS DocPatches, SerialWritesProofs

Drafts == [state : {"new", "refused"}]
          \cup [state : {"loaded", "stored", "refused"}, cred : Creds, base : Versions \ {Absent}]

Targets == [patch : {"none"}] \cup [patch : Patches, cred : Creds]

CallInStep(c) ==
  /\ state[c] = "new" <=> step[c] = "new"
  /\ state[c] = "waiting" => step[c] = "queued"
  /\ state[c] = "writing" => step[c] \in {"queued", "applying", "pushed"}
  /\ state[c] \in {"done", "refused"} <=> step[c] = "end"
  /\ step[c] \in {"queued", "applying", "pushed"} =>
       /\ target[c].patch \in Patches /\ where[c] = Home(c)
       /\ draft[Patch(c)].state = "stored"
  /\ reply[c] = "none" <=> step[c] # "end"

CallsInStep ==
  /\ draft \in [Patches -> Drafts]
  /\ target \in [Calls -> Targets]
  /\ \A c \in Calls : CallInStep(c)

PushIsAccounted(c) ==
  /\ landed[c] # Absent \/ c \in inflight => Sent(c)
  /\ Sent(c) => /\ step[c] = "pushed" \/ reply[c] \in {"consumed", "PATCH_APPLY_UNKNOWN"}
                /\ target[c].patch \in Patches /\ draft[Patch(c)].state = "stored"
  /\ step[c] = "pushed" => Sent(c)
  /\ step[c] = "pushed" /\ c \notin inflight => landed[c] # Absent
  /\ reply[c] = "consumed" => landed[c] # Absent

PushesAreAccounted == \A c \in Calls : PushIsAccounted(c)

RecordsAreDrafted ==
  \A p \in DOMAIN records : draft[p].state = "stored" /\ records[p].base = draft[p].base

Busy(c) ==
  step[c] \in {"applying", "pushed"} =>
    Patch(c) \in DOMAIN records /\ records[Patch(c)].status = "applying"

WorkIsBusy == \A c \in Calls : Busy(c)

Spent(c) ==
  Sent(c) /\ step[c] # "pushed" /\ Patch(c) \in DOMAIN records =>
    records[Patch(c)].status \in {"consumed", "unknown"}

SentIsSpent == \A c \in Calls : Spent(c)

PushesMeetTheBase ==
  \A c \in Calls :
    step[c] = "pushed" /\ c \in inflight /\ c \notin disturbed =>
      version[Home(c)] = draft[Patch(c)].base

PatchInv ==
  /\ SerialInv
  /\ PatchTypeOK
  /\ CallsInStep
  /\ PushesAreAccounted
  /\ RecordsAreDrafted
  /\ WorkIsBusy
  /\ SentIsSpent
  /\ PublishedAtMostOnce
  /\ PushesMeetTheBase
  /\ PublishedOnReviewedBase

-----------------------------------------------------------------------------
(* Before the first patch. *)
LEMMA InitPatch == PatchInit => PatchInv
<1> SUFFICES ASSUME PatchInit PROVE PatchInv
  OBVIOUS
<1>1. SerialInv
  BY InitSerial DEF PatchInit
<1>2. PatchTypeOK
  BY PatchAssumption DEF PatchInit, PatchTypeOK, Versions, Absent, Replies
<1>3. CallsInStep
  BY DEF PatchInit, Init, CallsInStep, CallInStep, Drafts, Targets
<1>4. /\ PushesAreAccounted /\ RecordsAreDrafted /\ WorkIsBusy /\ SentIsSpent
      /\ PublishedAtMostOnce /\ PushesMeetTheBase /\ PublishedOnReviewedBase
  BY DEF PatchInit, PushesAreAccounted, PushIsAccounted, RecordsAreDrafted, WorkIsBusy, Busy,
         SentIsSpent, Spent, PublishedAtMostOnce, PushesMeetTheBase, PublishedOnReviewedBase, Sent,
         Absent
<1> QED
  BY <1>1, <1>2, <1>3, <1>4 DEF PatchInv

(* Whatever apply does, the queue sees one of its own steps. *)
LEMMA PatchStepsAreSerial == [PatchNext]_patchVars => [Next]_vars
<1> SUFFICES ASSUME [PatchNext]_patchVars PROVE [Next]_vars
  OBVIOUS
<1>1. ASSUME NEW c \in Calls, NEW p \in Patches, NEW cred \in Creds, ApplyEnqueues(c, p, cred)
      PROVE  Next
  BY <1>1, PatchAssumption DEF ApplyEnqueues, Next
<1>2. ASSUME NEW c \in Calls, ApplyStep(c) PROVE [Next]_vars
  BY <1>1, <1>2 DEF ApplyStep, QueueRefuses, ApplyBegins, ApplyLoadFails, ApplyStale, ApplyTooLate,
     ApplyPushes, ApplyConfirmed, ApplyUnconfirmed, ServerApplies, PushLost, Finish, Next
<1> QED
  BY <1>2 DEF PatchNext, PrepareStores, PrepareLoads, Discard, CoordinatedWrite, OutsideEdit, Tick,
     patchVars

(* The calls beside the one that moves stand still, but for the one that   *)
(* the queue starts.                                                       *)
LEMMA OthersStand ==
  ASSUME PatchInv, NEW c \in Calls, ApplyStep(c), NEW d \in Calls, d # c
  PROVE  /\ target'[d] = target[d] /\ step'[d] = step[d] /\ reply'[d] = reply[d]
         /\ seen'[d] = seen[d] /\ landed'[d] = landed[d]
         /\ d \in inflight' <=> d \in inflight
         /\ where'[d] = where[d]
         /\ state'[d] = state[d] \/ (state[d] = "waiting" /\ state'[d] = "writing")
<1>0. WriteTypeOK /\ PatchTypeOK
  BY DEF PatchInv, SerialInv
<1>1. /\ target'[d] = target[d] /\ step'[d] = step[d] /\ reply'[d] = reply[d]
      /\ seen'[d] = seen[d] /\ landed'[d] = landed[d]
      /\ d \in inflight' <=> d \in inflight
  BY <1>0 DEF PatchTypeOK, PatchInv, CallsInStep, ApplyStep, ApplyEnqueues, QueueRefuses,
     ApplyBegins, ApplyLoadFails, ApplyStale, ApplyTooLate, ApplyPushes, ApplyConfirmed,
     ApplyUnconfirmed, ServerApplies, PushLost, Finish, call, server
<1>2. \/ vars' = vars
      \/ \E s \in Scopes : Accept(c, s)
      \/ Refuse(c)
      \/ Complete(c)
  BY PatchAssumption DEF ApplyStep, ApplyEnqueues, QueueRefuses,
     ApplyBegins, ApplyLoadFails, ApplyStale, ApplyTooLate, ApplyPushes, ApplyConfirmed,
     ApplyUnconfirmed, ServerApplies, PushLost, Finish
<1>3. /\ where'[d] = where[d]
      /\ state'[d] = state[d] \/ (state[d] = "waiting" /\ state'[d] = "writing")
  <2>1. CASE vars' = vars
    BY <2>1 DEF vars
  <2>2. CASE \E s \in Scopes : Accept(c, s)
    BY <1>0, <2>2 DEF Accept, WriteTypeOK
  <2>3. CASE Refuse(c)
    BY <1>0, <2>3 DEF Refuse, WriteTypeOK
  <2>4. CASE Complete(c)
    BY <1>0, <2>4 DEF Complete, Successor, Of, WriteTypeOK
  <2> QED
    BY <1>2, <2>1, <2>2, <2>3, <2>4
<1> QED
  BY <1>1, <1>3

(* What happens around the calls leaves them where they are. *)
LEMMA CallsStand ==
  ASSUME PatchInv, [PatchNext]_patchVars, ~\E c \in Calls : ApplyStep(c)
  PROVE  /\ UNCHANGED <<vars, call, inflight, landed>>
         /\ disturbed \subseteq disturbed'
BY DEF PatchInv, PatchTypeOK, PatchNext, PrepareStores, PrepareLoads, Discard, CoordinatedWrite,
   OutsideEdit, Tick, patchVars, server, call, Pushing

(* A stored draft is final. *)
LEMMA DraftsStand ==
  ASSUME PatchInv, [PatchNext]_patchVars
  PROVE  /\ draft' \in [Patches -> Drafts]
         /\ \A p \in Patches : draft[p].state = "stored" => draft'[p] = draft[p]
<1>0. draft \in [Patches -> Drafts] /\ PatchTypeOK
  BY DEF PatchInv, CallsInStep
<1>1. CASE draft' = draft
  BY <1>0, <1>1
<1>2. ASSUME NEW p \in Patches, NEW cred \in Creds, PrepareLoads(p, cred)
      PROVE  /\ draft' \in [Patches -> Drafts]
             /\ \A q \in Patches : draft[q].state = "stored" => draft'[q] = draft[q]
  <2>1. HomeOf[p] \in Scopes /\ loadCurrent(HomeOf[p]) \in Versions
    BY <1>0, PatchAssumption DEF PatchTypeOK, loadCurrent, Versions, Absent
  <2>2. \/ draft' = [draft EXCEPT ![p] = [state |-> "refused"]]
        \/ /\ draft' = [draft EXCEPT ![p] = [state |-> "loaded", cred |-> cred,
                                             base |-> loadCurrent(HomeOf[p])]]
           /\ loadCurrent(HomeOf[p]) # Absent
    BY <1>2 DEF PrepareLoads
  <2>3. draft[p].state = "new"
    BY <1>2 DEF PrepareLoads
  <2> QED
    BY <1>0, <2>1, <2>2, <2>3 DEF Drafts
<1>3. ASSUME NEW p \in Patches, PrepareStores(p)
      PROVE  /\ draft' \in [Patches -> Drafts]
             /\ \A q \in Patches : draft[q].state = "stored" => draft'[q] = draft[q]
  <2>1. PICK st \in {"refused", "stored"} : draft' = [draft EXCEPT ![p].state = st]
    BY <1>3 DEF PrepareStores
  <2>2. draft[p].state = "loaded"
    BY <1>3 DEF PrepareStores
  <2>3. draft[p] \in [state : {"loaded", "stored", "refused"}, cred : Creds,
                      base : Versions \ {Absent}]
    BY <1>0, <2>2 DEF Drafts
  <2>4. [draft[p] EXCEPT !.state = st] \in Drafts
    BY <2>3 DEF Drafts
  <2> QED
    BY <1>0, <2>1, <2>2, <2>4
<1>4. draft' = draft \/ (\E p \in Patches : PrepareStores(p))
      \/ \E p \in Patches, cred \in Creds : PrepareLoads(p, cred)
  BY DEF PatchNext, ApplyStep, ApplyEnqueues, QueueRefuses, ApplyBegins, ApplyLoadFails,
     ApplyStale, ApplyTooLate, ApplyPushes, ApplyConfirmed, ApplyUnconfirmed, ServerApplies,
     PushLost, Discard, CoordinatedWrite, OutsideEdit, Tick, patchVars, store
<1> QED
  BY <1>1, <1>2, <1>3, <1>4

-----------------------------------------------------------------------------
(* cleanup never drops a record that is being applied, nor changes one. *)
LEMMA CleanupKeeps ==
  ASSUME NEW r, NEW preserved, NEW f, f = cleanup(r, preserved)
  PROVE  /\ DOMAIN f \subseteq DOMAIN r
         /\ \A q \in DOMAIN f : f[q] = r[q]
         /\ \A q \in DOMAIN r : q \in preserved \/ r[q].status = "applying" => q \in DOMAIN f
BY DEF cleanup, Restrict

(* A call that names p leaves the other records, and p's unless it was     *)
(* prepared and has expired.                                               *)
LEMMA AddressedKeeps ==
  ASSUME PatchTypeOK, NEW p \in Patches, NEW cred, NEW f, f = addressed(p, cred)
  PROVE  /\ DOMAIN f \subseteq DOMAIN records
         /\ \A q \in DOMAIN f : q # p => f[q] = records[q]
         /\ \A q \in DOMAIN records : q = p \/ records[q].status = "applying" => q \in DOMAIN f
         /\ p \in DOMAIN records =>
              \/ f[p] = records[p]
              \/ /\ records[p].status = "prepared"
                 /\ f[p] = [records[p] EXCEPT !.status = "expired"]
<1>1. CASE Owned(p, cred) /\ records[p].status = "prepared" /\ Expired(records[p])
  <2> DEFINE r == [records EXCEPT ![p].status = "expired"]
  <2>1. f = cleanup(r, {p}) /\ p \in DOMAIN records
    BY <1>1 DEF addressed, Owned
  <2>2. /\ DOMAIN r = DOMAIN records
        /\ \A q \in DOMAIN records : q # p => r[q] = records[q]
        /\ r[p] = [records[p] EXCEPT !.status = "expired"]
    BY <2>1
  <2> HIDE DEF r
  <2>3. /\ DOMAIN f \subseteq DOMAIN r
        /\ \A q \in DOMAIN f : f[q] = r[q]
        /\ \A q \in DOMAIN r : q \in {p} \/ r[q].status = "applying" => q \in DOMAIN f
    BY <2>1, CleanupKeeps
  <2> QED
    BY <1>1, <2>1, <2>2, <2>3
<1>2. CASE ~(Owned(p, cred) /\ records[p].status = "prepared" /\ Expired(records[p]))
  <2>1. f = cleanup(records, {p})
    BY <1>2 DEF addressed
  <2> QED
    BY <2>1, CleanupKeeps
<1> QED
  BY <1>1, <1>2

(* How one step may treat the record of q. *)
Stands(q) ==
  /\ q \in DOMAIN records' => q \in DOMAIN records /\ records'[q] = records[q]
  /\ q \in DOMAIN records /\ records[q].status = "applying" => q \in DOMAIN records'

Turns(q) ==
  /\ q \in DOMAIN records /\ q \in DOMAIN records'
  /\ records[q].status = "prepared" /\ records'[q].base = records[q].base

Appears(q) ==
  /\ q \notin DOMAIN records /\ q \in DOMAIN records'
  /\ draft[q].state = "loaded" /\ draft'[q].state = "stored"
  /\ records'[q].base = draft'[q].base

WorkedOn(q) ==
  /\ q \in DOMAIN records
  /\ q \in DOMAIN records' => records'[q].base = records[q].base
  /\ \E c \in Calls : step[c] \in {"applying", "pushed"} /\ Patch(c) = q /\ ApplyStep(c)

RecordMoves(q) == Stands(q) \/ Turns(q) \/ Appears(q) \/ WorkedOn(q)

(* A call that names a patch takes no record away that is in use. *)
LEMMA AddressingMoves ==
  ASSUME PatchInv, NEW p \in Patches, NEW cred, records' = addressed(p, cred), NEW q \in Patches
  PROVE  RecordMoves(q)
<1>1. PatchTypeOK
  BY DEF PatchInv
<1>2. /\ DOMAIN records' \subseteq DOMAIN records
      /\ \A x \in DOMAIN records' : x # p => records'[x] = records[x]
      /\ \A x \in DOMAIN records : x = p \/ records[x].status = "applying" => x \in DOMAIN records'
      /\ p \in DOMAIN records =>
           \/ records'[p] = records[p]
           \/ /\ records[p].status = "prepared"
              /\ records'[p] = [records[p] EXCEPT !.status = "expired"]
  BY <1>1, AddressedKeeps
<1>3. p \in DOMAIN records => records[p] \in Record
  BY <1>1 DEF PatchTypeOK
<1> QED
  BY <1>2, <1>3 DEF RecordMoves, Stands, Turns, Record

(* A call turns the status of a patch that it found. *)
LEMMA TurningMoves ==
  ASSUME PatchInv, NEW p \in Patches, NEW cred, p \in DOMAIN records,
         addressed(p, cred)[p].status = "prepared",
         \/ \E st : records' = [addressed(p, cred) EXCEPT ![p].status = st]
         \/ \E st, why : records' = [addressed(p, cred) EXCEPT ![p].status = st, ![p].reason = why],
         NEW q \in Patches
  PROVE  RecordMoves(q)
<1> DEFINE f == addressed(p, cred)
<1>1. PatchTypeOK
  BY DEF PatchInv
<1>2. /\ DOMAIN f \subseteq DOMAIN records
      /\ \A x \in DOMAIN f : x # p => f[x] = records[x]
      /\ \A x \in DOMAIN records : x = p \/ records[x].status = "applying" => x \in DOMAIN f
      /\ \/ f[p] = records[p]
         \/ /\ records[p].status = "prepared"
            /\ f[p] = [records[p] EXCEPT !.status = "expired"]
  BY <1>1, AddressedKeeps
<1>3. records[p] \in Record
  BY <1>1 DEF PatchTypeOK
<1>4. f[p].status = "prepared" /\ p \in DOMAIN f
  BY <1>2
<1> HIDE DEF f
<1>5. f[p] = records[p]
  BY <1>2, <1>3, <1>4 DEF Record
<1>6. DOMAIN records' = DOMAIN f /\ \A x \in DOMAIN f : x # p => records'[x] = f[x]
  BY DEF f
<1>7. records'[p].base = records[p].base
  <2>0. f[p] \in Record
    BY <1>3, <1>5
  <2>1. ASSUME NEW st, records' = [f EXCEPT ![p].status = st] PROVE records'[p].base = f[p].base
    BY <1>4, <2>0, <2>1 DEF Record
  <2>2. ASSUME NEW st, NEW why,
               records' = [f EXCEPT ![p].status = st, ![p].reason = why]
        PROVE  records'[p].base = f[p].base
    BY <1>4, <2>0, <2>2 DEF Record
  <2> QED
    BY <1>5, <2>1, <2>2 DEF f
<1> QED
  BY <1>2, <1>4, <1>5, <1>6, <1>7 DEF RecordMoves, Stands, Turns

(* Every step. *)
LEMMA RecordsMove ==
  ASSUME PatchInv, [PatchNext]_patchVars, NEW q \in Patches
  PROVE  RecordMoves(q)
<1>0. /\ PatchTypeOK /\ draft \in [Patches -> Drafts] /\ CallsInStep /\ WorkIsBusy
      /\ RecordsAreDrafted
  BY DEF PatchInv, CallsInStep
<1>1. CASE records' = records
  BY <1>1 DEF RecordMoves, Stands
<1>2. ASSUME NEW p \in Patches, NEW cred \in Creds, PrepareLoads(p, cred) PROVE RecordMoves(q)
  <2>1. records' = cleanup(records, {})
    BY <1>2 DEF PrepareLoads
  <2> QED
    BY <2>1, CleanupKeeps DEF RecordMoves, Stands
<1>3. ASSUME NEW p \in Patches, PrepareStores(p) PROVE RecordMoves(q)
  <2> DEFINE kept == cleanup(records, {})
             full == Cardinality(DOMAIN kept) >= MaxRecords
             record == [cred |-> draft[p].cred, base |-> draft[p].base,
                        expiresAt |-> now + TtlMs, status |-> "prepared", reason |-> "none"]
  <2>1. /\ DOMAIN kept \subseteq DOMAIN records
        /\ \A x \in DOMAIN kept : kept[x] = records[x]
        /\ \A x \in DOMAIN records : records[x].status = "applying" => x \in DOMAIN kept
    BY CleanupKeeps
  <2>2. /\ records' = IF full THEN kept
                      ELSE [x \in DOMAIN kept \cup {p} |-> IF x = p THEN record ELSE kept[x]]
        /\ draft' = [draft EXCEPT ![p].state = IF full THEN "refused" ELSE "stored"]
        /\ draft[p].state = "loaded"
    BY <1>3 DEF PrepareStores
  <2>3. p \notin DOMAIN records
    BY <1>0, <2>2 DEF RecordsAreDrafted
  <2>4. record.base = draft[p].base
    OBVIOUS
  <2>5. draft[p] \in [state : {"loaded", "stored", "refused"}, cred : Creds,
                      base : Versions \ {Absent}]
    BY <1>0, <2>2 DEF Drafts
  <2> HIDE DEF kept, full, record
  <2>6. CASE full
    BY <2>1, <2>2, <2>6 DEF RecordMoves, Stands
  <2>7. CASE ~full
    <3>1. /\ DOMAIN records' = DOMAIN kept \cup {p}
          /\ records'[p] = record
          /\ \A x \in DOMAIN kept : x # p => records'[x] = kept[x]
      BY <2>2, <2>7
    <3>2. draft'[p].state = "stored" /\ draft'[p].base = draft[p].base
      BY <1>0, <2>2, <2>5, <2>7
    <3> QED
      BY <2>1, <2>2, <2>3, <2>4, <3>1, <3>2 DEF RecordMoves, Stands, Appears
  <2> QED
    BY <2>6, <2>7
<1>4. ASSUME NEW p \in Patches, NEW cred \in Creds, Discard(p, cred) PROVE RecordMoves(q)
  <2>1. CASE Owned(p, cred) /\ addressed(p, cred)[p].status = "prepared"
    <3>1. records' = [addressed(p, cred) EXCEPT ![p].status = "discarded", ![p].reason = "user"]
      BY <1>4, <2>1 DEF Discard
    <3> QED
      BY <2>1, <3>1, TurningMoves DEF Owned
  <2>2. CASE ~(Owned(p, cred) /\ addressed(p, cred)[p].status = "prepared")
    <3>1. records' = addressed(p, cred)
      BY <1>4, <2>2 DEF Discard
    <3> QED
      BY <3>1, AddressingMoves
  <2> QED
    BY <2>1, <2>2
<1>5. ASSUME NEW c \in Calls, NEW p \in Patches, NEW cred \in Creds, ApplyEnqueues(c, p, cred)
      PROVE  RecordMoves(q)
  BY <1>5, AddressingMoves DEF ApplyEnqueues
<1>6. ASSUME NEW c \in Calls, ApplyBegins(c) PROVE RecordMoves(q)
  <2> DEFINE p == Patch(c)
             cred == target[c].cred
  <2>1. p \in Patches
    BY <1>0, <1>6 DEF ApplyBegins, CallsInStep, CallInStep, Patch
  <2>2. CASE Owned(p, cred) /\ addressed(p, cred)[p].status = "prepared"
    <3>1. records' = [addressed(p, cred) EXCEPT ![p].status = "applying"]
      BY <1>6, <2>2 DEF ApplyBegins
    <3> QED
      BY <2>1, <2>2, <3>1, TurningMoves DEF Owned
  <2>3. CASE ~(Owned(p, cred) /\ addressed(p, cred)[p].status = "prepared")
    <3>1. records' = addressed(p, cred)
      BY <1>6, <2>3 DEF ApplyBegins
    <3> QED
      BY <2>1, <3>1, AddressingMoves
  <2> QED
    BY <2>2, <2>3
<1>7. ASSUME NEW c \in Calls, step[c] \in {"applying", "pushed"}, ApplyStep(c),
             \/ \E st : SetStatus(Patch(c), st)
             \/ ApplyStale(c)
             \/ records' = Restrict(records, DOMAIN records \ {Patch(c)})
      PROVE  RecordMoves(q)
  <2>1. Patch(c) \in DOMAIN records /\ records[Patch(c)] \in Record
    BY <1>0, <1>7 DEF WorkIsBusy, Busy, PatchTypeOK
  <2>2. \/ \E st : records' = [records EXCEPT ![Patch(c)].status = st]
        \/ records' = [records EXCEPT ![Patch(c)].status = "discarded", ![Patch(c)].reason = "stale"]
        \/ records' = Restrict(records, DOMAIN records \ {Patch(c)})
    BY <1>7 DEF SetStatus, ApplyStale
  <2>3. /\ DOMAIN records' \subseteq DOMAIN records
        /\ \A x \in DOMAIN records : x # Patch(c) => x \in DOMAIN records' /\ records'[x] = records[x]
        /\ Patch(c) \in DOMAIN records' => records'[Patch(c)].base = records[Patch(c)].base
    BY <2>1, <2>2 DEF Record, Restrict
  <2> QED
    BY <1>7, <2>1, <2>3 DEF RecordMoves, Stands, WorkedOn
<1>8. ASSUME NEW c \in Calls, ApplyStep(c) PROVE RecordMoves(q)
  <2>1. \/ records' = records
        \/ \E p \in Patches, cred \in Creds : ApplyEnqueues(c, p, cred)
        \/ ApplyBegins(c)
        \/ /\ step[c] \in {"applying", "pushed"}
           /\ \/ \E st : SetStatus(Patch(c), st)
              \/ ApplyStale(c)
              \/ records' = Restrict(records, DOMAIN records \ {Patch(c)})
    BY <1>8 DEF ApplyStep, QueueRefuses, ApplyLoadFails, ApplyTooLate, ApplyPushes,
       ApplyConfirmed, ApplyUnconfirmed, ServerApplies, PushLost, SetStatus, ApplyStale, store
  <2> QED
    BY <1>1, <1>5, <1>6, <1>7, <1>8, <2>1
<1> QED
  BY <1>1, <1>2, <1>3, <1>4, <1>8 DEF PatchNext, CoordinatedWrite, OutsideEdit, Tick,
     patchVars, store

-----------------------------------------------------------------------------
(* Two calls never work on one patch, and what a prepared record names has *)
(* not been sent.                                                          *)
LEMMA AloneOnThePatch ==
  ASSUME PatchInv, NEW c \in Calls, NEW d \in Calls, d # c, Patch(d) = Patch(c),
         step[c] \in {"applying", "pushed"}
  PROVE  step[d] \notin {"applying", "pushed"} /\ ~Sent(d)
<1>0. /\ OneWriter /\ CallInStep(c) /\ CallInStep(d) /\ PushIsAccounted(d) /\ Busy(c) /\ Spent(d)
      /\ WriteTypeOK /\ PatchTypeOK
  BY DEF PatchInv, SerialInv, CallsInStep, PushesAreAccounted, WorkIsBusy, SentIsSpent
<1>1. state[c] = "writing" /\ where[c] = Home(c)
  BY <1>0 DEF CallInStep, WriteTypeOK
<1>2. step[d] \notin {"applying", "pushed"}
  <2>1. SUFFICES ASSUME step[d] \in {"applying", "pushed"} PROVE FALSE
    OBVIOUS
  <2>2. state[d] = "writing" /\ where[d] = Home(d) /\ Home(d) = Home(c)
    BY <1>0, <2>1 DEF CallInStep, WriteTypeOK, Home
  <2> QED
    BY <1>0, <1>1, <2>2 DEF OneWriter
<1> QED
  BY <1>0, <1>2 DEF Busy, Spent

(* A prepared patch has not been sent by anybody. *)
LEMMA PreparedIsUnsent ==
  ASSUME PatchInv, NEW d \in Calls, Patch(d) \in DOMAIN records,
         records[Patch(d)].status = "prepared"
  PROVE  step[d] \notin {"applying", "pushed"} /\ ~Sent(d)
BY DEF PatchInv, PushesAreAccounted, PushIsAccounted, WorkIsBusy, Busy, SentIsSpent, Spent

(* The scopes of the patches and the versions of their documents. *)
LEMMA HomesHaveVersions ==
  ASSUME PatchInv, NEW p \in Patches
  PROVE  /\ HomeOf[p] \in Scopes /\ version[HomeOf[p]] \in Versions \ {Absent}
         /\ version[HomeOf[p]] \in Nat /\ version[HomeOf[p]] # Absent
BY PatchAssumption DEF PatchInv, PatchTypeOK, Versions, Absent

(* Types: the answers. *)
LEMMA ErrorsAreReplies ==
  ASSUME NEW r, r.status \in Statuses \ {"prepared"}
  PROVE  terminalError(r) \in Replies \ {"none", "consumed"}
BY DEF terminalError, Statuses, Replies

(* Types: the records. *)
LEMMA RecordsAreRecords ==
  ASSUME PatchInv, [PatchNext]_patchVars
  PROVE  DOMAIN records' \subseteq Patches /\ \A p \in DOMAIN records' : records'[p] \in Record
<1> DEFINE Good(r) == DOMAIN r \subseteq Patches /\ \A p \in DOMAIN r : r[p] \in Record
<1>0. /\ PatchTypeOK /\ Good(records) /\ draft \in [Patches -> Drafts] /\ CallsInStep /\ WorkIsBusy
  BY DEF PatchInv, PatchTypeOK, CallsInStep
<1>1. ASSUME NEW preserved PROVE Good(cleanup(records, preserved))
  <2> DEFINE f == cleanup(records, preserved)
  <2>1. DOMAIN f \subseteq DOMAIN records /\ \A q \in DOMAIN f : f[q] = records[q]
    BY CleanupKeeps
  <2> QED
    BY <1>0, <2>1
<1>2. ASSUME NEW p \in Patches, NEW cred PROVE Good(addressed(p, cred))
  <2> DEFINE f == addressed(p, cred)
  <2>1. /\ DOMAIN f \subseteq DOMAIN records
        /\ \A q \in DOMAIN f : q # p => f[q] = records[q]
        /\ p \in DOMAIN records =>
             \/ f[p] = records[p]
             \/ f[p] = [records[p] EXCEPT !.status = "expired"]
    BY <1>0, AddressedKeeps
  <2>2. p \in DOMAIN records => f[p] \in Record
    BY <1>0, <2>1 DEF Record, Statuses
  <2> QED
    BY <1>0, <2>1, <2>2
<1>3. ASSUME NEW f, Good(f), NEW p \in DOMAIN f, NEW st \in Statuses, NEW g,
             \/ g = [f EXCEPT ![p].status = st]
             \/ g = [f EXCEPT ![p].status = st, ![p].reason = "user"]
             \/ g = [f EXCEPT ![p].status = st, ![p].reason = "stale"]
      PROVE  Good(g)
  <2>0. f[p] \in Record
    BY <1>3
  <2>1. CASE g = [f EXCEPT ![p].status = st]
    BY <1>3, <2>0, <2>1 DEF Record
  <2>2. CASE g = [f EXCEPT ![p].status = st, ![p].reason = "user"]
    BY <1>3, <2>0, <2>2 DEF Record
  <2>3. CASE g = [f EXCEPT ![p].status = st, ![p].reason = "stale"]
    BY <1>3, <2>0, <2>3 DEF Record
  <2> QED
    BY <1>3, <2>1, <2>2, <2>3
<1>4. ASSUME NEW p \in Patches, PrepareStores(p) PROVE Good(records')
  <2> DEFINE kept == cleanup(records, {})
             full == Cardinality(DOMAIN kept) >= MaxRecords
             record == [cred |-> draft[p].cred, base |-> draft[p].base,
                        expiresAt |-> now + TtlMs, status |-> "prepared", reason |-> "none"]
  <2>1. Good(kept)
    BY <1>1
  <2>2. record \in Record
    <3>1. draft[p] \in [state : {"loaded", "stored", "refused"}, cred : Creds,
                        base : Versions \ {Absent}]
      BY <1>0, <1>4 DEF PrepareStores, Drafts
    <3>2. now + TtlMs \in Nat
      BY <1>0, PatchAssumption DEF PatchTypeOK
    <3> QED
      BY <3>1, <3>2 DEF Record, Statuses
  <2>3. records' = IF full THEN kept
                   ELSE [x \in DOMAIN kept \cup {p} |-> IF x = p THEN record ELSE kept[x]]
    BY <1>4 DEF PrepareStores
  <2> HIDE DEF kept, full, record
  <2> QED
    BY <2>1, <2>2, <2>3
<1>5. ASSUME NEW p \in Patches, NEW cred \in Creds, Discard(p, cred) PROVE Good(records')
  <2>1. CASE Owned(p, cred) /\ addressed(p, cred)[p].status = "prepared"
    <3>1. records' = [addressed(p, cred) EXCEPT ![p].status = "discarded", ![p].reason = "user"]
      BY <1>5, <2>1 DEF Discard
    <3>2. p \in DOMAIN addressed(p, cred)
      BY <1>0, <2>1, AddressedKeeps DEF Owned
    <3> HIDE DEF Good
    <3> QED
      BY <1>2, <1>3, <3>1, <3>2 DEF Statuses
  <2>2. CASE ~(Owned(p, cred) /\ addressed(p, cred)[p].status = "prepared")
    <3>1. records' = addressed(p, cred)
      BY <1>5, <2>2 DEF Discard
    <3> QED
      BY <1>2, <3>1
  <2> QED
    BY <2>1, <2>2
<1>6. ASSUME NEW c \in Calls, ApplyBegins(c) PROVE Good(records')
  <2> DEFINE p == Patch(c)
             cred == target[c].cred
  <2>1. p \in Patches
    BY <1>0, <1>6 DEF ApplyBegins, CallsInStep, CallInStep, Patch
  <2>2. CASE Owned(p, cred) /\ addressed(p, cred)[p].status = "prepared"
    <3>1. records' = [addressed(p, cred) EXCEPT ![p].status = "applying"]
      BY <1>6, <2>2 DEF ApplyBegins
    <3>2. p \in DOMAIN addressed(p, cred)
      BY <1>0, <2>1, <2>2, AddressedKeeps DEF Owned
    <3>3. Good(addressed(p, cred))
      BY <1>2, <2>1
    <3> HIDE DEF Good, p, cred
    <3> QED
      BY <1>3, <3>1, <3>2, <3>3 DEF Statuses
  <2>3. CASE ~(Owned(p, cred) /\ addressed(p, cred)[p].status = "prepared")
    <3>1. records' = addressed(p, cred)
      BY <1>6, <2>3 DEF ApplyBegins
    <3> QED
      BY <1>2, <2>1, <3>1
  <2> QED
    BY <2>2, <2>3
<1>7. ASSUME NEW c \in Calls, step[c] \in {"applying", "pushed"},
             \/ \E st \in Statuses : SetStatus(Patch(c), st)
             \/ ApplyStale(c)
             \/ records' = Restrict(records, DOMAIN records \ {Patch(c)})
      PROVE  Good(records')
  <2>1. Patch(c) \in DOMAIN records
    BY <1>0, <1>7 DEF WorkIsBusy, Busy
  <2>2. CASE records' = Restrict(records, DOMAIN records \ {Patch(c)})
    BY <1>0, <2>2 DEF Restrict
  <2>3. CASE \E st \in Statuses : SetStatus(Patch(c), st)
    <3> HIDE DEF Good
    <3> QED
      BY <1>0, <1>3, <2>1, <2>3 DEF SetStatus
  <2>4. CASE ApplyStale(c)
    <3>1. records' = [records EXCEPT ![Patch(c)].status = "discarded",
                                     ![Patch(c)].reason = "stale"]
      BY <2>4 DEF ApplyStale
    <3> HIDE DEF Good
    <3> QED
      BY <1>0, <1>3, <2>1, <3>1 DEF Statuses
  <2> QED
    BY <1>7, <2>2, <2>3, <2>4
<1>8. records' = records => Good(records')
  BY <1>0
<1>9. ASSUME NEW c \in Calls, ApplyStep(c) PROVE Good(records')
  <2>1. \/ records' = records
        \/ \E p \in Patches, cred \in Creds : records' = addressed(p, cred)
        \/ ApplyBegins(c)
        \/ /\ step[c] \in {"applying", "pushed"}
           /\ \/ \E st \in Statuses : SetStatus(Patch(c), st)
              \/ ApplyStale(c)
              \/ records' = Restrict(records, DOMAIN records \ {Patch(c)})
    BY <1>9 DEF ApplyStep, ApplyEnqueues, QueueRefuses, ApplyLoadFails, ApplyTooLate, ApplyPushes,
       ApplyConfirmed, ApplyUnconfirmed, ServerApplies, PushLost, SetStatus, ApplyStale, store,
       Statuses
  <2> HIDE DEF Good
  <2> QED
    BY <1>2, <1>6, <1>7, <1>8, <2>1
<1>10. \/ records' = records
       \/ records' = cleanup(records, {})
       \/ \E p \in Patches : PrepareStores(p)
       \/ \E p \in Patches, cred \in Creds : Discard(p, cred)
       \/ \E c \in Calls : ApplyStep(c)
  BY DEF PatchNext, PrepareLoads, CoordinatedWrite, OutsideEdit, Tick, patchVars, store
<1>11. records' = cleanup(records, {}) => Good(records')
  BY <1>1
<1>12. Good(records')
  <2> HIDE DEF Good
  <2> QED
    BY <1>4, <1>5, <1>8, <1>9, <1>10, <1>11
<1> QED
  BY <1>12

(* Types. *)
LEMMA PatchTypesKept == PatchInv /\ [PatchNext]_patchVars => PatchTypeOK'
<1> SUFFICES ASSUME PatchInv, [PatchNext]_patchVars PROVE PatchTypeOK'
  OBVIOUS
<1>0. PatchTypeOK /\ CallsInStep
  BY DEF PatchInv
<1>1. DOMAIN records' \subseteq Patches /\ \A p \in DOMAIN records' : records'[p] \in Record
  BY RecordsAreRecords
<1>2. \A p \in Patches : draft'[p].state \in {"new", "loaded", "stored", "refused"}
  BY DraftsStand DEF Drafts
<1>3. now' \in 0 .. MaxTime
  <2>1. now' = now \/ Tick
    BY DEF PatchNext, PrepareStores, PrepareLoads, Discard,
       CoordinatedWrite, OutsideEdit, patchVars, ApplyStep, ApplyEnqueues, QueueRefuses,
       ApplyBegins, ApplyLoadFails, ApplyStale, ApplyTooLate, ApplyPushes, ApplyConfirmed,
       ApplyUnconfirmed, ServerApplies, PushLost
  <2> QED
    BY <1>0, <2>1, PatchAssumption DEF PatchTypeOK, Tick
<1>4. ASSUME NEW w \in Scopes, Merge(w) PROVE version' \in [Scopes -> Versions \ {Absent}]
  BY <1>0, <1>4, PatchAssumption DEF Merge, PatchTypeOK, Versions, Absent
<1>5. CASE ~\E c \in Calls : ApplyStep(c)
  <2>1. UNCHANGED <<call, inflight, landed>>
    BY <1>5, CallsStand
  <2>2. disturbed' \subseteq Calls
    BY <1>0, <1>5 DEF PatchTypeOK, PatchNext, PrepareStores, PrepareLoads, Discard,
       CoordinatedWrite, OutsideEdit, Tick, patchVars, server, Pushing
  <2>3. version' \in [Scopes -> Versions \ {Absent}]
    <3>1. version' = version \/ \E w \in Scopes : Merge(w)
      BY <1>5 DEF PatchNext, PrepareStores, PrepareLoads, Discard,
         CoordinatedWrite, OutsideEdit, Tick, patchVars, server
    <3> QED
      BY <1>0, <1>4, <3>1 DEF PatchTypeOK
  <2>4. registered' \in [Scopes -> BOOLEAN]
    BY <1>0, <1>5 DEF PatchTypeOK, PatchNext, PrepareStores, PrepareLoads, Discard,
       CoordinatedWrite, OutsideEdit, Tick, patchVars, server
  <2> QED
    BY <1>0, <1>1, <1>2, <1>3, <2>1, <2>2, <2>3, <2>4 DEF PatchTypeOK, call
<1>6. ASSUME NEW c \in Calls, ApplyStep(c) PROVE PatchTypeOK'
  <2>0. CallInStep(c) /\ target[c] \in Targets /\ step[c] \in {"queued", "applying", "pushed"}
        => Home(c) \in Scopes /\ version[Home(c)] \in Versions \ {Absent}
    BY HomesHaveVersions DEF CallInStep, Home, Patch
  <2>1. c \in inflight => Home(c) \in Scopes /\ version[Home(c)] \in Versions \ {Absent}
    BY HomesHaveVersions DEF PatchInv, PushesAreAccounted, PushIsAccounted, Home, Patch
  <2>2. reply' \in [Calls -> Replies]
    <3>1. ASSUME ApplyBegins(c) PROVE reply' \in [Calls -> Replies]
      <4> DEFINE p == Patch(c)
                 found == addressed(p, target[c].cred)
      <4>1. p \in Patches
        BY <1>0, <3>1 DEF ApplyBegins, CallsInStep, CallInStep, Patch
      <4>2. \/ reply' = reply \/ reply' = [reply EXCEPT ![c] = "PATCH_NOT_FOUND"]
            \/ /\ p \in DOMAIN records /\ found[p].status # "prepared"
               /\ reply' = [reply EXCEPT ![c] = terminalError(found[p])]
        BY <3>1 DEF ApplyBegins, Finish, Owned
      <4>3. p \in DOMAIN records => found[p].status \in Statuses
        <5> SUFFICES ASSUME p \in DOMAIN records PROVE found[p].status \in Statuses
          OBVIOUS
        <5>1. found[p] = records[p] \/ found[p] = [records[p] EXCEPT !.status = "expired"]
          BY <1>0, <4>1, AddressedKeeps
        <5>2. records[p] \in Record
          BY <1>0 DEF PatchTypeOK
        <5> QED
          BY <5>1, <5>2 DEF Record, Statuses
      <4> HIDE DEF p, found
      <4>4. p \in DOMAIN records /\ found[p].status # "prepared"
            => terminalError(found[p]) \in Replies
        BY <4>3, ErrorsAreReplies
      <4> QED
        BY <1>0, <4>2, <4>4 DEF PatchTypeOK, Replies
    <3> QED
      BY <1>0, <1>6, <3>1 DEF PatchTypeOK, ApplyStep, ApplyEnqueues, QueueRefuses, ApplyLoadFails,
         ApplyStale, ApplyTooLate, ApplyPushes, ApplyConfirmed, ApplyUnconfirmed, ServerApplies,
         PushLost, Finish, Replies, call
  <2>3. /\ step' \in [Calls -> {"new", "queued", "applying", "pushed", "end"}]
        /\ inflight' \subseteq Calls /\ disturbed' \subseteq Calls
        /\ registered' \in [Scopes -> BOOLEAN]
    BY <1>0, <1>6 DEF PatchTypeOK, ApplyStep, ApplyEnqueues, QueueRefuses, ApplyBegins,
       ApplyLoadFails, ApplyStale, ApplyTooLate, ApplyPushes, ApplyConfirmed, ApplyUnconfirmed,
       ServerApplies, PushLost, Finish, call, server, Pushing
  <2>4. seen' \in [Calls -> Versions]
    <3>1. seen' = seen \/ (step[c] = "applying" /\ seen' = [seen EXCEPT ![c] = version[Home(c)]])
      BY <1>6 DEF ApplyStep, ApplyEnqueues, QueueRefuses, ApplyBegins,
         ApplyLoadFails, ApplyStale, ApplyTooLate, ApplyPushes, ApplyConfirmed, ApplyUnconfirmed,
         ServerApplies, PushLost, call
    <3> QED
      BY <1>0, <2>0, <3>1 DEF PatchTypeOK, CallsInStep
  <2>5. landed' \in [Calls -> Versions] /\ version' \in [Scopes -> Versions \ {Absent}]
    <3>1. ASSUME ServerApplies(c)
          PROVE  landed' \in [Calls -> Versions] /\ version' \in [Scopes -> Versions \ {Absent}]
      BY <1>0, <1>4, <2>1, <3>1 DEF PatchTypeOK, ServerApplies
    <3> QED
      BY <1>0, <1>6, <3>1 DEF PatchTypeOK, ApplyStep, ApplyEnqueues, QueueRefuses, ApplyBegins,
       ApplyLoadFails, ApplyStale, ApplyTooLate, ApplyPushes, ApplyConfirmed, ApplyUnconfirmed,
       PushLost, server
  <2> QED
    BY <1>1, <1>2, <1>3, <2>2, <2>3, <2>4, <2>5 DEF PatchTypeOK
<1> QED
  BY <1>5, <1>6

-----------------------------------------------------------------------------
(* A call is where its place in the queue says. *)
LEMMA CallsKeepInStep == PatchInv /\ [PatchNext]_patchVars => CallsInStep'
<1> SUFFICES ASSUME PatchInv, [PatchNext]_patchVars PROVE CallsInStep'
  OBVIOUS
<1>0. PatchTypeOK /\ CallsInStep /\ WriteTypeOK /\ target \in [Calls -> Targets]
  BY DEF PatchInv, SerialInv, CallsInStep
<1>1. /\ draft' \in [Patches -> Drafts]
      /\ \A p \in Patches : draft[p].state = "stored" => draft'[p] = draft[p]
  BY DraftsStand
<1>2. target' \in [Calls -> Targets]
  <2>1. \/ target' = target
        \/ \E c \in Calls, p \in Patches, cred \in Creds :
             target' = [target EXCEPT ![c] = [patch |-> p, cred |-> cred]]
    BY DEF PatchNext, ApplyStep, ApplyEnqueues, QueueRefuses, ApplyBegins, ApplyLoadFails,
       ApplyStale, ApplyTooLate, ApplyPushes, ApplyConfirmed, ApplyUnconfirmed, ServerApplies,
       PushLost, PrepareStores, PrepareLoads, Discard, CoordinatedWrite, OutsideEdit, Tick,
       patchVars, call
  <2> QED
    BY <1>0, <2>1 DEF Targets
<1>3. CASE ~\E c \in Calls : ApplyStep(c)
  <2>1. UNCHANGED <<vars, call>>
    BY <1>3, CallsStand
  <2>2. ASSUME NEW d \in Calls PROVE CallInStep(d)'
    BY <1>0, <1>1, <2>1 DEF CallsInStep, CallInStep, vars, call, Patch, Home
  <2> QED
    BY <1>1, <1>2, <2>2 DEF CallsInStep
<1>4. ASSUME NEW c \in Calls, ApplyStep(c) PROVE CallsInStep'
  <2>1. ASSUME NEW d \in Calls, d # c PROVE CallInStep(d)'
    <3>1. CallInStep(d)
      BY <1>0 DEF CallsInStep
    <3>2. /\ target'[d] = target[d] /\ step'[d] = step[d] /\ reply'[d] = reply[d]
          /\ where'[d] = where[d]
          /\ state'[d] = state[d] \/ (state[d] = "waiting" /\ state'[d] = "writing")
      BY <1>4, <2>1, OthersStand
    <3> QED
      BY <1>1, <3>1, <3>2 DEF CallInStep, Patch, Home
  <2>2. CallInStep(c)'
    <3>0. CallInStep(c)
      BY <1>0 DEF CallsInStep
    <3>1. draft' = draft
      BY <1>4 DEF ApplyStep, ApplyEnqueues, QueueRefuses, ApplyBegins, ApplyLoadFails,
         ApplyStale, ApplyTooLate, ApplyPushes, ApplyConfirmed, ApplyUnconfirmed, ServerApplies,
         PushLost, store
    <3>2. ASSUME NEW p \in Patches, NEW cred \in Creds, ApplyEnqueues(c, p, cred)
          PROVE  CallInStep(c)'
      BY <1>0, <3>0, <3>1, <3>2 DEF ApplyEnqueues, Accept, Refuse, CallInStep, Patch, Home,
         WriteTypeOK, PatchTypeOK
    <3>3. CASE QueueRefuses(c)
      BY <1>0, <3>0, <3>1, <3>3 DEF QueueRefuses, Refuse, CallInStep, WriteTypeOK, PatchTypeOK
    <3>4. ASSUME NEW code, code # "none", Finish(c, code), target' = target PROVE CallInStep(c)'
      <4>1. state'[c] = "done"
        BY <1>0, <3>4 DEF Finish, Complete, Successor, Of, WriteTypeOK
      <4>2. step'[c] = "end" /\ reply'[c] = code
        BY <1>0, <3>4 DEF Finish, PatchTypeOK
      <4> QED
        BY <3>4, <4>1, <4>2 DEF CallInStep
    <3>5. CASE ApplyBegins(c)
      <4> DEFINE p == Patch(c)
                 found == addressed(p, target[c].cred)
      <4>1. p \in Patches
        BY <3>0, <3>5 DEF ApplyBegins, CallInStep, Patch
      <4>2. ASSUME p \in DOMAIN records, found[p].status # "prepared"
            PROVE  terminalError(found[p]) # "none"
        <5>1. found[p] = records[p] \/ found[p] = [records[p] EXCEPT !.status = "expired"]
          BY <1>0, <4>1, <4>2, AddressedKeeps
        <5>2. records[p] \in Record
          BY <1>0, <4>2 DEF PatchTypeOK
        <5>3. found[p].status \in Statuses \ {"prepared"}
          BY <4>2, <5>1, <5>2 DEF Record, Statuses
        <5> QED
          BY <5>3, ErrorsAreReplies
      <4>3. \/ Finish(c, "PATCH_NOT_FOUND")
            \/ p \in DOMAIN records /\ found[p].status # "prepared" /\ Finish(c, terminalError(found[p]))
            \/ step' = [step EXCEPT ![c] = "applying"] /\ UNCHANGED <<vars, reply>>
        BY <3>5 DEF ApplyBegins, Owned
      <4>4. target' = target /\ step[c] = "queued" /\ state[c] = "writing"
        BY <3>5 DEF ApplyBegins, Turn
      <4>5. CASE step' = [step EXCEPT ![c] = "applying"] /\ UNCHANGED <<vars, reply>>
        <5>1. step'[c] = "applying" /\ state' = state /\ where' = where /\ reply' = reply
          BY <1>0, <4>5 DEF PatchTypeOK, vars
        <5> QED
          BY <3>0, <3>1, <4>4, <5>1 DEF CallInStep, Patch, Home
      <4> HIDE DEF p, found
      <4> QED
        BY <3>4, <4>2, <4>3, <4>4, <4>5
    <3>6. CASE ApplyPushes(c)
      BY <1>0, <3>0, <3>1, <3>6 DEF ApplyPushes, Turn, CallInStep, vars, Patch, Home, PatchTypeOK
    <3>7. CASE ServerApplies(c)
      BY <3>0, <3>1, <3>7 DEF ServerApplies, CallInStep, vars, call, Patch, Home
    <3>8. \/ \E p \in Patches, cred \in Creds : ApplyEnqueues(c, p, cred)
          \/ QueueRefuses(c) \/ ApplyBegins(c) \/ ApplyPushes(c) \/ ServerApplies(c)
          \/ \E code : code # "none" /\ Finish(c, code) /\ target' = target
      BY <1>4 DEF ApplyStep, ApplyLoadFails, ApplyStale, ApplyTooLate,
         ApplyConfirmed, ApplyUnconfirmed, PushLost
    <3> QED
      BY <3>2, <3>3, <3>4, <3>5, <3>6, <3>7, <3>8
  <2> QED
    BY <1>1, <1>2, <2>1, <2>2 DEF CallsInStep
<1> QED
  BY <1>3, <1>4

(* What becomes of a push: only ApplyPushes sends, only the server merges, *)
(* and the answers say which.                                              *)
LEMMA PushesKeepAccounted == PatchInv /\ [PatchNext]_patchVars => PushesAreAccounted'
<1> SUFFICES ASSUME PatchInv, [PatchNext]_patchVars, NEW d \in Calls PROVE PushIsAccounted(d)'
  BY DEF PushesAreAccounted
<1>0. /\ PatchTypeOK /\ PushIsAccounted(d) /\ CallInStep(d)
      /\ \A p \in Patches : draft[p].state = "stored" => draft'[p] = draft[p]
  BY DraftsStand DEF PatchInv, PushesAreAccounted, CallsInStep
<1>1. CASE ~\E c \in Calls : ApplyStep(c)
  <2>1. UNCHANGED <<call, inflight, landed>>
    BY <1>1, CallsStand
  <2> QED
    BY <1>0, <2>1 DEF call, PushIsAccounted, Sent, Patch
<1>2. ASSUME NEW c \in Calls, ApplyStep(c), c # d PROVE PushIsAccounted(d)'
  <2>1. /\ target'[d] = target[d] /\ step'[d] = step[d] /\ reply'[d] = reply[d]
        /\ seen'[d] = seen[d] /\ landed'[d] = landed[d]
        /\ d \in inflight' <=> d \in inflight
    BY <1>2, OthersStand
  <2> QED
    BY <1>0, <2>1 DEF PushIsAccounted, Sent, Patch
<1>3. CASE ApplyStep(d)
  <2>0. draft' = draft
    BY <1>3 DEF ApplyStep, ApplyEnqueues, QueueRefuses, ApplyBegins, ApplyLoadFails,
       ApplyStale, ApplyTooLate, ApplyPushes, ApplyConfirmed, ApplyUnconfirmed, ServerApplies,
       PushLost, store
  <2>1. ASSUME NEW p \in Patches, NEW cred \in Creds, ApplyEnqueues(d, p, cred)
        PROVE  PushIsAccounted(d)'
    <3>1. step[d] = "new" /\ reply[d] = "none"
      BY <1>0, <2>1 DEF ApplyEnqueues, CallInStep
    <3>2. landed[d] = Absent /\ d \notin inflight /\ seen[d] = Absent
      BY <1>0, <3>1 DEF PushIsAccounted, Sent
    <3>3. /\ landed' = landed /\ inflight' = inflight /\ seen' = seen
          /\ step'[d] # "pushed" /\ reply'[d] # "consumed"
      BY <1>0, <2>1, <3>1 DEF ApplyEnqueues, server, PatchTypeOK
    <3> QED
      BY <3>2, <3>3 DEF PushIsAccounted, Sent
  <2>2. CASE step[d] \in {"queued", "applying"} /\ d \notin inflight /\ ~ApplyPushes(d)
    <3>1. reply[d] = "none" /\ landed[d] = Absent /\ seen[d] = Absent
      BY <1>0, <2>2 DEF CallInStep, PushIsAccounted, Sent
    <3>2. /\ landed' = landed /\ inflight' = inflight /\ seen' = seen
          /\ step'[d] # "pushed"
      BY <1>0, <1>3, <2>2 DEF ApplyStep, ApplyEnqueues, QueueRefuses, ApplyBegins, ApplyLoadFails,
         ApplyStale, ApplyTooLate, ApplyConfirmed, ApplyUnconfirmed, ServerApplies,
         PushLost, server, PatchTypeOK, Finish
    <3>3. reply'[d] # "consumed"
      <4>1. ASSUME ApplyBegins(d) PROVE reply'[d] # "consumed"
        <5> DEFINE p == Patch(d)
                   found == addressed(p, target[d].cred)
        <5>1. p \in Patches
          BY <1>0, <2>2 DEF CallInStep, Patch
        <5>2. ASSUME p \in DOMAIN records, found[p].status # "prepared"
              PROVE  terminalError(found[p]) # "consumed"
          <6>1. found[p] = records[p] \/ found[p] = [records[p] EXCEPT !.status = "expired"]
            BY <1>0, <5>1, <5>2, AddressedKeeps
          <6>2. records[p] \in Record
            BY <1>0, <5>2 DEF PatchTypeOK
          <6>3. found[p].status \in Statuses \ {"prepared"}
            BY <5>2, <6>1, <6>2 DEF Record, Statuses
          <6> QED
            BY <6>3, ErrorsAreReplies
        <5>3. \/ reply' = reply
              \/ reply' = [reply EXCEPT ![d] = "PATCH_NOT_FOUND"]
              \/ /\ p \in DOMAIN records /\ found[p].status # "prepared"
                 /\ reply' = [reply EXCEPT ![d] = terminalError(found[p])]
          BY <4>1 DEF ApplyBegins, Finish, Owned
        <5> HIDE DEF p, found
        <5> QED
          BY <1>0, <3>1, <5>2, <5>3 DEF PatchTypeOK
      <4> QED
        BY <1>0, <1>3, <2>2, <3>1, <4>1 DEF ApplyStep, ApplyEnqueues, QueueRefuses, ApplyLoadFails,
           ApplyStale, ApplyTooLate, ApplyConfirmed, ApplyUnconfirmed, ServerApplies,
           PushLost, PatchTypeOK, Finish
    <3> QED
      BY <2>2, <3>1, <3>2, <3>3 DEF PushIsAccounted, Sent
  <2>3. CASE ApplyPushes(d)
    <3>1. Patch(d) \in Patches /\ draft[Patch(d)].state = "stored"
      BY <1>0, <2>3 DEF ApplyPushes, CallInStep, Patch
    <3>2. version[Home(d)] # Absent
      BY <3>1, HomesHaveVersions DEF Home
    <3> QED
      BY <1>0, <2>0, <2>3, <3>1, <3>2 DEF ApplyPushes, PushIsAccounted, Sent, Patch, PatchTypeOK,
         CallInStep
  <2>4. CASE ServerApplies(d)
    <3>1. Patch(d) \in Patches
      BY <1>0, <2>4 DEF ServerApplies, PushIsAccounted, Patch
    <3>2. version[Home(d)] # Absent
      BY <3>1, HomesHaveVersions DEF Home
    <3> QED
      BY <1>0, <2>0, <2>4, <3>2 DEF ServerApplies, PushIsAccounted, Sent, Patch, call, PatchTypeOK
  <2>5. CASE ApplyConfirmed(d) \/ ApplyUnconfirmed(d) \/ PushLost(d)
    BY <1>0, <2>0, <2>5 DEF ApplyConfirmed, ApplyUnconfirmed, PushLost, Finish, PushIsAccounted,
       Sent, Patch, PatchTypeOK, server
  <2>6. step[d] \in {"queued", "applying"} => d \notin inflight
    BY <1>0 DEF PushIsAccounted, CallInStep
  <2> QED
    BY <1>3, <2>1, <2>2, <2>3, <2>4, <2>5, <2>6 DEF ApplyStep, QueueRefuses, ApplyBegins,
       ApplyLoadFails, ApplyStale, ApplyTooLate
<1> QED
  BY <1>1, <1>2, <1>3

(* The records are those of stored drafts. *)
LEMMA RecordsKeepDrafted == PatchInv /\ [PatchNext]_patchVars => RecordsAreDrafted'
<1> SUFFICES ASSUME PatchInv, [PatchNext]_patchVars, NEW p \in DOMAIN records'
             PROVE  draft'[p].state = "stored" /\ records'[p].base = draft'[p].base
  BY DEF RecordsAreDrafted
<1>1. p \in Patches
  BY RecordsAreRecords
<1>2. RecordMoves(p)
  BY <1>1, RecordsMove
<1>3. draft[p].state = "stored" => draft'[p] = draft[p]
  BY <1>1, DraftsStand
<1>4. p \in DOMAIN records => draft[p].state = "stored" /\ records[p].base = draft[p].base
  BY DEF PatchInv, RecordsAreDrafted
<1> QED
  BY <1>2, <1>3, <1>4 DEF RecordMoves, Stands, Turns, Appears, WorkedOn

(* A call beside the one that moves keeps its record busy or spent. *)
LEMMA BesideStands ==
  ASSUME PatchInv, [PatchNext]_patchVars, NEW d \in Calls, ~ApplyStep(d)
  PROVE  Busy(d)' /\ Spent(d)'
<1>1. target'[d] = target[d] /\ step'[d] = step[d] /\ seen'[d] = seen[d]
  BY OthersStand, CallsStand DEF call
<1>2. Busy(d) /\ Spent(d) /\ PushIsAccounted(d) /\ CallInStep(d)
  BY DEF PatchInv, WorkIsBusy, SentIsSpent, PushesAreAccounted, CallsInStep
<1> SUFFICES ASSUME step[d] \in {"applying", "pushed"} \/ Sent(d)
             PROVE  Busy(d)' /\ Spent(d)'
  BY <1>1 DEF Busy, Spent, Sent
<1>3. Patch(d) \in Patches /\ draft[Patch(d)].state = "stored"
  BY <1>2 DEF PushIsAccounted, CallInStep, Patch
<1>4. RecordMoves(Patch(d))
  BY <1>3, RecordsMove
<1>5. ~Appears(Patch(d))
  BY <1>3 DEF Appears
<1>6. ~Turns(Patch(d))
  BY PreparedIsUnsent DEF Turns
<1>7. ~WorkedOn(Patch(d))
  <2>1. SUFFICES ASSUME NEW c \in Calls, step[c] \in {"applying", "pushed"}, Patch(c) = Patch(d),
                        ApplyStep(c)
                 PROVE  FALSE
    BY DEF WorkedOn
  <2> QED
    BY <2>1, AloneOnThePatch
<1> QED
  BY <1>1, <1>2, <1>4, <1>5, <1>6, <1>7 DEF RecordMoves, Stands, Busy, Spent, Patch, Sent

(* A call that works on a patch holds its record. *)
LEMMA WorkKeepsBusy == PatchInv /\ [PatchNext]_patchVars => WorkIsBusy'
<1> SUFFICES ASSUME PatchInv, [PatchNext]_patchVars, NEW d \in Calls, ApplyStep(d) PROVE Busy(d)'
  BY BesideStands DEF WorkIsBusy
<1>0. PatchTypeOK /\ Busy(d) /\ CallInStep(d)
  BY DEF PatchInv, WorkIsBusy, CallsInStep
<1>1. CASE step'[d] \notin {"applying", "pushed"}
  BY <1>1 DEF Busy
<1>2. CASE ApplyBegins(d)
  <2> DEFINE p == Patch(d)
             found == addressed(p, target[d].cred)
  <2>1. CASE step'[d] = "applying"
    <3>1. p \in Patches
      BY <1>0, <1>2 DEF ApplyBegins, CallInStep, Patch
    <3>2. p \in DOMAIN records /\ records' = [found EXCEPT ![p].status = "applying"]
      BY <1>0, <1>2, <2>1 DEF ApplyBegins, Finish, Owned, PatchTypeOK
    <3>3. p \in DOMAIN found
      BY <1>0, <3>1, <3>2, AddressedKeeps
    <3>4. found[p] \in Record
      <4>1. found[p] = records[p] \/ found[p] = [records[p] EXCEPT !.status = "expired"]
        BY <1>0, <3>1, <3>2, AddressedKeeps
      <4>2. records[p] \in Record
        BY <1>0, <3>2 DEF PatchTypeOK
      <4> QED
        BY <4>1, <4>2 DEF Record, Statuses
    <3>5. target' = target
      BY <1>2 DEF ApplyBegins
    <3> HIDE DEF found
    <3>6. p \in DOMAIN records' /\ records'[p].status = "applying"
      BY <3>2, <3>3, <3>4 DEF Record
    <3> QED
      BY <3>5, <3>6 DEF Busy, Patch
  <2>2. step'[d] \in {"applying", "end"}
    BY <1>0, <1>2 DEF ApplyBegins, Finish, PatchTypeOK
  <2> QED
    BY <1>1, <2>1, <2>2
<1>3. CASE ApplyPushes(d) \/ ServerApplies(d)
  BY <1>0, <1>3 DEF ApplyPushes, ServerApplies, store, call, Busy, Patch, PatchTypeOK
<1> QED
  BY <1>0, <1>1, <1>2, <1>3 DEF ApplyStep, ApplyEnqueues, QueueRefuses, ApplyLoadFails, ApplyStale,
     ApplyTooLate, ApplyConfirmed, ApplyUnconfirmed, PushLost, Finish, PatchTypeOK

(* A patch whose push is over is consumed or unknown, or forgotten. *)
LEMMA SentKeepsSpent == PatchInv /\ [PatchNext]_patchVars => SentIsSpent'
<1> SUFFICES ASSUME PatchInv, [PatchNext]_patchVars, NEW d \in Calls, ApplyStep(d) PROVE Spent(d)'
  BY BesideStands DEF SentIsSpent
<1>0. PatchTypeOK /\ Busy(d) /\ Spent(d) /\ CallInStep(d) /\ PushIsAccounted(d)
  BY DEF PatchInv, WorkIsBusy, SentIsSpent, CallsInStep, PushesAreAccounted
<1>1. CASE step[d] \in {"new", "queued", "applying"} /\ ~ApplyPushes(d)
  <2>1. ~Sent(d) /\ d \notin inflight
    BY <1>0, <1>1 DEF PushIsAccounted, CallInStep
  <2>2. seen' = seen
    BY <1>1, <2>1 DEF ApplyStep, ApplyEnqueues, QueueRefuses, ApplyBegins, ApplyLoadFails,
       ApplyStale, ApplyTooLate, ApplyConfirmed, ApplyUnconfirmed, ServerApplies, PushLost
  <2> QED
    BY <2>1, <2>2 DEF Spent, Sent
<1>2. CASE ApplyPushes(d)
  BY <1>0, <1>2 DEF ApplyPushes, Spent, PatchTypeOK
<1>3. CASE ServerApplies(d)
  BY <1>0, <1>3 DEF ServerApplies, store, call, Spent, Sent, Patch
<1>4. CASE ApplyConfirmed(d) \/ ApplyUnconfirmed(d) \/ PushLost(d)
  <2>1. target' = target /\ Patch(d) \in DOMAIN records /\ records[Patch(d)] \in Record
    BY <1>0, <1>4 DEF ApplyConfirmed, ApplyUnconfirmed, PushLost, Busy, PatchTypeOK
  <2>2. \/ records' = Restrict(records, DOMAIN records \ {Patch(d)})
        \/ records' = [records EXCEPT ![Patch(d)].status = "consumed"]
        \/ records' = [records EXCEPT ![Patch(d)].status = "unknown"]
    BY <1>4 DEF ApplyConfirmed, ApplyUnconfirmed, PushLost, SetStatus
  <2> QED
    BY <2>1, <2>2 DEF Spent, Patch, Record, Restrict
<1> QED
  BY <1>0, <1>1, <1>2, <1>3, <1>4 DEF ApplyStep, ApplyEnqueues, QueueRefuses, ApplyBegins,
     ApplyLoadFails, ApplyStale, ApplyTooLate

(* At most one call sends a patch. *)
LEMMA PublishingStaysUnique == PatchInv /\ [PatchNext]_patchVars => PublishedAtMostOnce'
<1> SUFFICES ASSUME PatchInv, [PatchNext]_patchVars, NEW c \in Calls, NEW d \in Calls,
                    Sent(c)', Sent(d)', Patch(c)' = Patch(d)', c # d
             PROVE  FALSE
  BY DEF PublishedAtMostOnce
<1>0. PatchTypeOK /\ PublishedAtMostOnce
  BY DEF PatchInv
<1>1. ASSUME NEW x \in Calls, NEW y \in Calls, x # y, ApplyPushes(x), Sent(y)', Patch(x)' = Patch(y)'
      PROVE  FALSE
  <2>1. target' = target /\ Sent(y) /\ step[x] = "applying"
    BY <1>0, <1>1 DEF ApplyPushes, Sent, PatchTypeOK
  <2> QED
    BY <1>1, <2>1, AloneOnThePatch DEF Patch
<1>2. CASE (\E x \in Calls : ApplyPushes(x)) /\ seen' # seen
  <2>1. PICK x \in Calls : ApplyPushes(x)
    BY <1>2
  <2>2. CASE x \in {c, d}
    BY <1>1, <2>1, <2>2
  <2>3. CASE x \notin {c, d}
    <3>1. Sent(c) /\ Sent(d) /\ target' = target
      BY <1>0, <2>1, <2>3 DEF ApplyPushes, Sent, PatchTypeOK
    <3> QED
      BY <1>0, <3>1 DEF PublishedAtMostOnce, Patch
  <2> QED
    BY <2>2, <2>3
<1>3. CASE seen' = seen
  <2>1. Sent(c) /\ Sent(d)
    BY <1>3 DEF Sent
  <2>2. ASSUME NEW x \in Calls, Sent(x) PROVE target'[x] = target[x]
    <3>1. step[x] # "new"
      BY <2>2 DEF PatchInv, PushesAreAccounted, PushIsAccounted, CallsInStep, CallInStep
    <3>2. \/ target' = target
          \/ \E y \in Calls, p \in Patches, cred \in Creds :
               step[y] = "new" /\ target' = [target EXCEPT ![y] = [patch |-> p, cred |-> cred]]
      BY DEF PatchNext, ApplyStep, ApplyEnqueues, QueueRefuses, ApplyBegins, ApplyLoadFails,
         ApplyStale, ApplyTooLate, ApplyPushes, ApplyConfirmed, ApplyUnconfirmed, ServerApplies,
         PushLost, PrepareStores, PrepareLoads, Discard, CoordinatedWrite, OutsideEdit, Tick,
         patchVars, call
    <3> QED
      BY <2>2, <3>1, <3>2 DEF PatchInv, CallsInStep
  <2> QED
    BY <1>0, <2>1, <2>2 DEF PublishedAtMostOnce, Patch
<1>4. seen' = seen \/ \E x \in Calls : ApplyPushes(x)
  BY DEF PatchNext, ApplyStep, ApplyEnqueues, QueueRefuses, ApplyBegins, ApplyLoadFails,
     ApplyStale, ApplyTooLate, ApplyConfirmed, ApplyUnconfirmed, ServerApplies,
     PushLost, PrepareStores, PrepareLoads, Discard, CoordinatedWrite, OutsideEdit, Tick,
     patchVars, call
<1> QED
  BY <1>2, <1>3, <1>4

(* While an undisturbed push is on its way, the document stays the one     *)
(* that was reviewed: whatever makes a new version has to pass through the *)
(* queue, or counts as a disturbance.                                      *)
LEMMA PushesKeepTheBase == PatchInv /\ [PatchNext]_patchVars => PushesMeetTheBase'
<1> SUFFICES ASSUME PatchInv, [PatchNext]_patchVars, NEW d \in Calls,
                    step'[d] = "pushed", d \in inflight', d \notin disturbed'
             PROVE  version'[Home(d)'] = draft'[Patch(d)'].base
  BY DEF PushesMeetTheBase, Home
<1>0. /\ PatchTypeOK /\ CallInStep(d) /\ PushIsAccounted(d) /\ Busy(d) /\ WriteTypeOK /\ OneWriter
      /\ step[d] = "pushed" /\ d \in inflight /\ d \notin disturbed =>
           version[Home(d)] = draft[Patch(d)].base
      /\ RecordsAreDrafted
  BY DEF PatchInv, SerialInv, CallsInStep, PushesAreAccounted, WorkIsBusy, PushesMeetTheBase
<1>1. CASE ApplyPushes(d)
  <2>1. Patch(d) \in Patches /\ records[Patch(d)].base = draft[Patch(d)].base
    BY <1>0, <1>1 DEF ApplyPushes, CallInStep, Patch, Busy, RecordsAreDrafted
  <2>2. records[Patch(d)].base \in Versions \ {Absent}
    BY <1>0, <1>1 DEF ApplyPushes, Busy, PatchTypeOK, Record
  <2>3. version[Home(d)] = records[Patch(d)].base
    BY <1>1, <2>2 DEF ApplyPushes, loadCurrent
  <2> QED
    BY <1>1, <2>1, <2>3 DEF ApplyPushes, store, Home, Patch
<1>2. CASE ~ApplyPushes(d)
  <2>1. step[d] = "pushed" /\ d \in inflight /\ target'[d] = target[d]
    <3>1. CASE ApplyStep(d)
      BY <1>0, <1>2, <3>1 DEF ApplyStep, ApplyEnqueues, QueueRefuses, ApplyBegins, ApplyLoadFails,
         ApplyStale, ApplyTooLate, ApplyConfirmed, ApplyUnconfirmed, ServerApplies,
         PushLost, Finish, PatchTypeOK
    <3>2. CASE ~ApplyStep(d)
      BY <3>2, OthersStand, CallsStand DEF call
    <3> QED
      BY <3>1, <3>2
  <2>2. /\ Patch(d) \in Patches /\ draft'[Patch(d)] = draft[Patch(d)] /\ Home(d) \in Scopes
        /\ state[d] = "writing" /\ where[d] = Home(d)
    BY <1>0, <2>1, DraftsStand, HomesHaveVersions DEF CallInStep, Patch, Home, WriteTypeOK
  <2>3. Home(d)' = Home(d) /\ Patch(d)' = Patch(d)
    BY <2>1 DEF Home, Patch
  <2>4. d \in Pushing(Home(d))
    BY <2>1 DEF Pushing
  <2>5. d \notin disturbed
    BY DEF PatchNext, ApplyStep, ApplyEnqueues, QueueRefuses, ApplyBegins, ApplyLoadFails,
       ApplyStale, ApplyTooLate, ApplyPushes, ApplyConfirmed, ApplyUnconfirmed, ServerApplies,
       PushLost, PrepareStores, PrepareLoads, Discard, CoordinatedWrite, OutsideEdit, Tick,
       patchVars, server
  <2>6. version'[Home(d)] = version[Home(d)]
    <3>1. CASE version' = version
      BY <3>1
    <3>2. ASSUME NEW c \in Calls, ServerApplies(c) PROVE version'[Home(d)] = version[Home(d)]
      <4>0. c # d
        BY <1>0, <3>2 DEF ServerApplies, PatchTypeOK
      <4>1. CASE Home(c) # Home(d)
        BY <1>0, <2>2, <3>2, <4>1 DEF ServerApplies, Merge, PatchTypeOK
      <4>2. CASE Home(c) = Home(d)
        <5>1. c \notin Pushing(Home(c))
          <6>1. SUFFICES ASSUME step[c] = "pushed" PROVE FALSE
            BY DEF Pushing
          <6>2. state[c] = "writing" /\ where[c] = Home(c)
            BY <6>1 DEF PatchInv, CallsInStep, CallInStep, SerialInv, WriteTypeOK
          <6> QED
            BY <1>0, <2>2, <4>0, <4>2, <6>2 DEF OneWriter
        <5>2. d \in disturbed'
          BY <2>4, <3>2, <4>2, <5>1 DEF ServerApplies
        <5> QED
          BY <5>2
      <4> QED
        BY <4>1, <4>2
    <3>3. ASSUME NEW w \in Scopes, CoordinatedWrite(w) PROVE version'[Home(d)] = version[Home(d)]
      <4>1. w # Home(d)
        BY <2>1, <2>2, <3>3 DEF CoordinatedWrite, Idle, Applying
      <4> QED
        BY <1>0, <2>2, <3>3, <4>1 DEF CoordinatedWrite, Merge, PatchTypeOK
    <3>4. ASSUME NEW w \in Scopes, OutsideEdit(w) PROVE version'[Home(d)] = version[Home(d)]
      <4>1. w # Home(d)
        BY <2>4, <3>4 DEF OutsideEdit
      <4> QED
        BY <1>0, <2>2, <3>4, <4>1 DEF OutsideEdit, Merge, PatchTypeOK
    <3> QED
      BY <3>1, <3>2, <3>3, <3>4 DEF PatchNext, ApplyStep, ApplyEnqueues, QueueRefuses,
         ApplyBegins, ApplyLoadFails, ApplyStale, ApplyTooLate, ApplyPushes, ApplyConfirmed,
         ApplyUnconfirmed, PushLost, PrepareStores, PrepareLoads, Discard, Tick, patchVars, server
  <2> QED
    BY <1>0, <2>1, <2>2, <2>3, <2>5, <2>6
<1> QED
  BY <1>1, <1>2

(* So what lands undisturbed lands on the reviewed version. *)
LEMMA LandingsKeepTheBase == PatchInv /\ [PatchNext]_patchVars => PublishedOnReviewedBase'
<1> SUFFICES ASSUME PatchInv, [PatchNext]_patchVars, NEW d \in Calls, landed'[d] # Absent,
                    d \notin disturbed'
             PROVE  landed'[d] = draft'[Patch(d)'].base
  BY DEF PublishedOnReviewedBase
<1>0. /\ PatchTypeOK /\ PushIsAccounted(d) /\ PublishedOnReviewedBase /\ PushesMeetTheBase
  BY DEF PatchInv, PushesAreAccounted
<1>1. CASE ServerApplies(d)
  <2>1. /\ landed'[d] = version[Home(d)] /\ d \in inflight /\ d \in Pushing(Home(d))
        /\ d \notin disturbed /\ draft' = draft /\ target' = target
    BY <1>0, <1>1 DEF ServerApplies, PatchTypeOK, store, call
  <2> QED
    BY <1>0, <2>1 DEF PushesMeetTheBase, Pushing, Patch
<1>2. CASE ~ServerApplies(d)
  <2>1. landed'[d] = landed[d] /\ d \notin disturbed
    <3>1. CASE ApplyStep(d)
      BY <1>2, <3>1 DEF ApplyStep, ApplyEnqueues, QueueRefuses, ApplyBegins, ApplyLoadFails,
         ApplyStale, ApplyTooLate, ApplyPushes, ApplyConfirmed, ApplyUnconfirmed, PushLost, server
    <3>2. CASE ~ApplyStep(d)
      <4>1. landed'[d] = landed[d]
        BY <3>2, OthersStand, CallsStand
      <4>2. disturbed \subseteq disturbed'
        BY CallsStand DEF ApplyStep, ApplyEnqueues, QueueRefuses, ApplyBegins, ApplyLoadFails,
           ApplyStale, ApplyTooLate, ApplyPushes, ApplyConfirmed, ApplyUnconfirmed,
           ServerApplies, PushLost, server
      <4> QED
        BY <4>1, <4>2
    <3> QED
      BY <3>1, <3>2
  <2>2. Patch(d) \in Patches /\ draft'[Patch(d)] = draft[Patch(d)]
    BY <1>0, <2>1, DraftsStand DEF PushIsAccounted, Patch
  <2>3. target'[d] = target[d]
    <3>1. step[d] # "new"
      BY <1>0, <2>1 DEF PushIsAccounted, PatchInv, CallsInStep, CallInStep
    <3> QED
      BY <3>1, OthersStand, CallsStand DEF call, ApplyStep, ApplyEnqueues, QueueRefuses,
         ApplyBegins, ApplyLoadFails, ApplyStale, ApplyTooLate, ApplyPushes, ApplyConfirmed,
         ApplyUnconfirmed, ServerApplies, PushLost
  <2> QED
    BY <1>0, <2>1, <2>2, <2>3 DEF PublishedOnReviewedBase, Patch
<1> QED
  BY <1>1, <1>2

-----------------------------------------------------------------------------
(* The inductive invariant holds in every reachable state. *)
THEOREM PatchSafety == PatchSpec => []PatchInv
<1>1. PatchInv /\ [PatchNext]_patchVars => PatchInv'
  <2> SUFFICES ASSUME PatchInv, [PatchNext]_patchVars PROVE PatchInv'
    OBVIOUS
  <2>1. SerialInv'
    BY PatchStepsAreSerial, NextKeepsSerial DEF PatchInv
  <2>2. PatchTypeOK' /\ CallsInStep' /\ PushesAreAccounted'
    BY PatchTypesKept, CallsKeepInStep, PushesKeepAccounted
  <2>3. RecordsAreDrafted' /\ WorkIsBusy' /\ SentIsSpent'
    BY RecordsKeepDrafted, WorkKeepsBusy, SentKeepsSpent
  <2>4. PublishedAtMostOnce' /\ PushesMeetTheBase' /\ PublishedOnReviewedBase'
    BY PublishingStaysUnique, PushesKeepTheBase, LandingsKeepTheBase
  <2> QED
    BY <2>1, <2>2, <2>3, <2>4 DEF PatchInv
<1> QED
  BY InitPatch, <1>1, PTL DEF PatchSpec

(* A patch is published at most once, whatever is retried after a failed   *)
(* load, applied twice, or left without an acknowledgement.                *)
THEOREM PatchesArePublishedOnce == PatchSpec => []PublishedAtMostOnce
<1>1. PatchInv => PublishedAtMostOnce
  BY DEF PatchInv
<1> QED
  BY PatchSafety, <1>1, PTL

(* The stored bytes are merged into the reviewed version, unless an        *)
(* outsider changed the document while the push was under way.             *)
THEOREM PatchesMeetTheirBase == PatchSpec => []PublishedOnReviewedBase
<1>1. PatchInv => PublishedOnReviewedBase
  BY DEF PatchInv
<1> QED
  BY PatchSafety, <1>1, PTL

(* apply answers "consumed" only for what was merged, and an error other   *)
(* than PATCH_APPLY_UNKNOWN only if it published nothing.                  *)
THEOREM ApplyAnswersAreTrue == PatchSpec => []AnswersAreTrue
<1>1. PatchInv => AnswersAreTrue
  BY DEF PatchInv, PushesAreAccounted, PushIsAccounted, CallsInStep, CallInStep, AnswersAreTrue
<1> QED
  BY PatchSafety, <1>1, PTL

=============================================================================
