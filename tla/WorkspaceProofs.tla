--------------------------- MODULE WorkspaceProofs ---------------------------
(***************************************************************************)
(* What the tools keep outside the pages, each component for any instance: *)
(* moves of documents (DocMove), for any number of documents, moves and    *)
(* edits of the native editor; custom properties (DocProperties), for any  *)
(* number of calls, pages, definitions and values; the folders of the      *)
(* sidebar (OrganizeTree), for any tree of them and any number of calls;   *)
(* collections (Collections) and tags (Tags), for any number of calls.     *)
(*                                                                         *)
(* The cycle check of a move is enough although it reads document by       *)
(* document while the links change (Walked, OneMoreLink); what move_doc    *)
(* reports is true, and only removals merged late orphan a document        *)
(* (Arrived, PartialsHold).                                                *)
(*                                                                         *)
(* The property tools rest on two facts. No update takes a definition away *)
(* or changes its type, so a value merged late still finds the one it was  *)
(* given under (UpdatesFit). And as long as nothing is merged late, an     *)
(* update is merged into the database it was made from, which is the one   *)
(* case in which a merge gives just what the tool made (MergesInPlace).    *)
(*                                                                         *)
(* What is above a folder is found by climbing as many steps as there are  *)
(* nodes (ClimbsToTheTop) and is the least set of its kind that is closed  *)
(* under parents (ClimbsNoHigher). A tool that keeps, for every node, some *)
(* closed set without it keeps the tree (TreeByClosedSets).                *)
(*                                                                         *)
(* A merged list has what was there but for what the update took out, and  *)
(* what it put in (MergedItems); merged into the list it was made from it  *)
(* is just what was made (MergesListInPlace). An update that takes out a   *)
(* collection that was not to be deleted puts it in again by an item of    *)
(* its own (ItemEdited), which nobody else can have taken out. Each tag    *)
(* tool leaves the labels of all other tags on all pages (OthersStay).     *)
(***************************************************************************)
EXTENDS DocMove, DocProperties, OrganizeTree, Collections, Tags, FiniteSetTheorems, SequenceTheorems,
        WellFoundedInduction, TLAPS

-----------------------------------------------------------------------------
(* The links a cycle check could have seen: those of the native editor and *)
(* of moves that failed are left out.                                      *)
Failed == {m \in Moves : reply[m] = "failed"}
Seen(l) == l.by \notin Edits \cup Failed

(* The move the queue has let in, and what its position says of it. *)
InsideFits ==
  /\ inside = Nobody <=> pc = "idle"
  /\ inside # Nobody => /\ job[inside] \in Job /\ Here.doc # Here.to
                        /\ reply[inside] = "none"
  /\ pc \in {"walk", "check", "add", "adding", "remove", "removing"} => Here.from # Here.to
  /\ pc \in {"remove", "removing"} => Here.from # Nobody
  /\ pc \in {"idle", "resources"} => visited = {}

JobsFit ==
  \A m \in Moves :
    /\ job[m] = Nobody => reply[m] = "none"
    /\ reply[m] = "partial" => job[m].from # job[m].to

(* A push that has not been served yet adds the link of its move or takes  *)
(* away links to its document from the old parent. Its move waits for it,  *)
(* or has been reported as failed or partial.                              *)
LinkOf(m) == [by |-> m, parent |-> job[m].to, child |-> job[m].doc, kind |-> "embed"]
Adds(p) ==
  /\ p.add = {LinkOf(p.by)} /\ p.remove = {}
  /\ (p.by = inside /\ pc = "adding") \/ reply[p.by] = "failed"
Removes(p) ==
  /\ p.add = {}
  /\ \A l \in p.remove : l.parent = job[p.by].from /\ l.child = job[p.by].doc
  /\ (p.by = inside /\ pc = "removing") \/ reply[p.by] = "partial"
WireFits == \A p \in wire : job[p.by] \in Job /\ (Adds(p) \/ Removes(p))

(* The cycle check. What it has visited is closed under the links it could *)
(* see but for what is still to be visited, holds the document and never   *)
(* the new parent.                                                         *)
Walked ==
  /\ pc \in {"resources", "walk", "check", "add", "adding"} =>
       \A l \in links : Seen(l) /\ l.parent \in visited => l.child \in visited \cup pending
  /\ pc \in {"walk", "check", "add", "adding"} =>
       Here.doc \in visited \cup pending /\ Here.to \notin visited \cup pending
  /\ pc \in {"check", "add", "adding"} => pending = {}

(* A partial move may yet take away the link the new parent needs. *)
TakenBack(m) ==
  \E n \in Moves \ {m} : reply[n] = "partial" /\ job[n].doc = job[m].doc /\ job[n].from = job[m].to

(* The new parent has the link once it was confirmed. *)
Arrived ==
  /\ pc = "adding" => InFlight \/ Embeds(Here.to, Here.doc) # {} \/ TakenBack(inside)
  /\ pc \in {"remove", "removing"} => Embeds(Here.to, Here.doc) # {} \/ TakenBack(inside)

(* The old parent has no link but what is being removed. *)
Leaving ==
  pc = "removing" =>
    \A l \in Embeds(Here.from, Here.doc) :
      ~Seen(l) \/ \E p \in wire : p.by = inside /\ l \in p.remove

(* After a partial move the new parent has the link, or another move has   *)
(* taken the document from there.                                          *)
PartialHolds(m) ==
  reply[m] = "partial" =>
    \/ Embeds(job[m].to, job[m].doc) # {}
    \/ \E n \in Moves \ {m} : job[n] \in Job /\ job[n].doc = job[m].doc /\ job[n].from = job[m].to
PartialsHold == \A m \in Moves : PartialHolds(m)

MoveInv ==
  /\ TypeOK
  /\ InsideFits
  /\ JobsFit
  /\ WireFits
  /\ Walked
  /\ Arrived
  /\ Leaving
  /\ PartialsHold
  /\ MovesMakeNoCycle

-----------------------------------------------------------------------------
(* A set of links without a cycle has none when links are taken away. *)
LEMMA FewerLinks ==
  ASSUME NEW L, NEW K \in SUBSET L, Acyclic(L)
  PROVE  Acyclic(K)
BY DEF Acyclic

(* What the cycle check finds is enough: one more link makes no cycle when *)
(* the documents visited hold its child, not its parent, and everything    *)
(* that hangs under one of them. For, of the documents of a set that were  *)
(* not visited, one hangs under none of the others, nor under a visited    *)
(* one; and it is not the child of the new link.                           *)
LEMMA OneMoreLink ==
  ASSUME NEW L, NEW l, Acyclic(L), NEW V,
         \A k \in L : k.parent \in V => k.child \in V,
         l.child \in V, l.parent \notin V
  PROVE  Acyclic(L \cup {l})
<1> SUFFICES ASSUME NEW S \in SUBSET Docs \ {{}}
             PROVE  \E d \in S : \A k \in L \cup {l} : k.child = d => k.parent \notin S
  BY DEF Acyclic
<1>1. CASE l.parent \in S
  <2>1. S \ V \in SUBSET Docs \ {{}}
    BY <1>1
  <2>2. PICK d \in S \ V : \A k \in L : k.child = d => k.parent \notin S \ V
    BY <2>1 DEF Acyclic
  <2> QED
    BY <2>2
<1>2. CASE l.parent \notin S
  BY <1>2 DEF Acyclic
<1> QED
  BY <1>1, <1>2

(* A move that has been called keeps its arguments. *)
LEMMA JobsAreJobs ==
  ASSUME TypeOK, JobsFit, NEW m \in Moves, job[m] # Nobody \/ reply[m] # "none"
  PROVE  job[m] \in Job
BY DEF TypeOK, JobsFit

(* A workspace starts without moves and without a cycle. *)
LEMMA InitMove == Init => MoveInv
<1> SUFFICES ASSUME Init PROVE MoveInv
  OBVIOUS
<1>1. PICK t \in Trees :
        links = {[by |-> Initial, parent |-> e[1], child |-> e[2], kind |-> "embed"] : e \in t}
  BY DEF Init
<1>2. /\ t \subseteq Docs \X Docs
      /\ \A S \in SUBSET Docs \ {{}} : \E d \in S : \A e \in t : e[2] = d => e[1] \notin S
  BY MoveAssumption
<1>3. TypeOK
  BY <1>1, <1>2 DEF Init, TypeOK, Link
<1>4. Acyclic(links)
  BY <1>1, <1>2 DEF Acyclic
<1>5. MovesMakeNoCycle
  BY <1>4, FewerLinks DEF MovesMakeNoCycle
<1>6. \A m \in Moves : job[m] = Nobody /\ reply[m] = "none"
  BY DEF Init
<1> QED
  BY <1>3, <1>5, <1>6 DEF Init, MoveInv, InsideFits, JobsFit, WireFits, Walked, Arrived, Leaving,
     PartialsHold, PartialHolds

(* The links that count stay without a cycle when the links are the same   *)
(* or fewer.                                                               *)
LEMMA NoNewLinks ==
  ASSUME MovesMakeNoCycle, \A l \in links' : ~Seen(l)' \/ (l \in links /\ Seen(l))
  PROVE  MovesMakeNoCycle'
<1> DEFINE K == {l \in links : l.by \notin Edits \cup {m \in Moves : reply[m] = "failed"}}
           L == {l \in links' : l.by \notin Edits \cup {m \in Moves : reply'[m] = "failed"}}
<1>1. L \subseteq K /\ Acyclic(K)
  BY DEF Seen, Failed, MovesMakeNoCycle
<1> HIDE DEF K, L
<1>2. Acyclic(L)
  BY <1>1, FewerLinks
<1> QED
  BY <1>2 DEF MovesMakeNoCycle, L, Acyclic

(* The call of a move. *)
LEMMA BeginKeeps ==
  ASSUME MoveInv, NEW m \in Moves, Begin(m)
  PROVE  MoveInv'
<1>1. /\ TypeOK /\ InsideFits /\ JobsFit /\ WireFits /\ Walked /\ Arrived /\ Leaving /\ PartialsHold
      /\ MovesMakeNoCycle
  BY DEF MoveInv
<1>2. inside = Nobody /\ job[m] = Nobody /\ reply[m] = "none" /\ pc = "idle"
  BY <1>1 DEF Begin, InsideFits, JobsFit
<1>3. PICK j \in Job :
        /\ job' = [job EXCEPT ![m] = j]
        /\ IF j.doc = j.to THEN reply' = [reply EXCEPT ![m] = "refused"] /\ UNCHANGED <<inside, pc>>
                           ELSE inside' = m /\ pc' = "resources" /\ UNCHANGED reply
        /\ UNCHANGED <<pending, visited, links, wire>>
  <2>1. PICK d \in Docs, to \in Docs, from \in Docs \cup {Nobody} :
          /\ job' = [job EXCEPT ![m] = [doc |-> d, to |-> to, from |-> from]]
          /\ IF d = to THEN reply' = [reply EXCEPT ![m] = "refused"] /\ UNCHANGED <<inside, pc>>
                       ELSE inside' = m /\ pc' = "resources" /\ UNCHANGED reply
    BY DEF Begin
  <2>2. [doc |-> d, to |-> to, from |-> from] \in Job
    BY DEF Job
  <2> QED
    BY <2>1, <2>2 DEF Begin
<1>4. /\ \A n \in Moves : job'[n] = IF n = m THEN j ELSE job[n]
      /\ \A n \in Moves : n # m => reply'[n] = reply[n]
      /\ reply'[m] \in {"none", "refused"}
  BY <1>1, <1>2, <1>3 DEF TypeOK
<1>5. TypeOK'
  BY <1>1, <1>3 DEF TypeOK
<1>6. Nobody \notin Moves /\ j # Nobody
  BY MoveAssumption
<1>7. InsideFits'
  BY <1>1, <1>2, <1>3, <1>4, <1>6 DEF InsideFits, Here
<1>8. JobsFit'
  BY <1>1, <1>4, <1>6 DEF JobsFit
<1>9. \A l : Seen(l)' <=> Seen(l)
  BY <1>2, <1>4 DEF Seen, Failed
<1>10. WireFits'
  <2> SUFFICES ASSUME NEW p \in wire PROVE job'[p.by] \in Job /\ (Adds(p)' \/ Removes(p)')
    BY <1>3 DEF WireFits
  <2>1. p.by \in Moves /\ job[p.by] \in Job /\ (Adds(p) \/ Removes(p))
    BY <1>1 DEF WireFits, TypeOK, Push
  <2>2. p.by # m
    BY <1>2, <2>1, MoveAssumption
  <2> QED
    BY <1>2, <1>4, <1>6, <2>1, <2>2 DEF Adds, Removes, LinkOf
<1>11. Walked' /\ Arrived' /\ Leaving'
  BY <1>1, <1>2, <1>3, <1>7 DEF Walked, Arrived, Leaving, InsideFits
<1>12. PartialsHold'
  <2> SUFFICES ASSUME NEW n \in Moves PROVE PartialHolds(n)'
    BY DEF PartialsHold
  <2>1. CASE n # m
    <3>1. reply'[n] = reply[n] /\ job'[n] = job[n]
      BY <1>4, <2>1
    <3>2. \A k \in Moves : job[k] \in Job => job'[k] = job[k]
      BY <1>2, <1>4, MoveAssumption
    <3>3. PartialHolds(n)
      BY <1>1 DEF PartialsHold
    <3> QED
      BY <1>3, <3>1, <3>2, <3>3 DEF PartialHolds, Embeds
  <2>2. CASE n = m
    BY <1>4, <2>2 DEF PartialHolds
  <2> QED
    BY <2>1, <2>2
<1>13. MovesMakeNoCycle'
  BY <1>1, <1>3, <1>9, NoNewLinks
<1> QED
  BY <1>5, <1>7, <1>8, <1>10, <1>11, <1>12, <1>13 DEF MoveInv

(* A move goes on: nobody else notices. *)
LEMMA GoesOn ==
  ASSUME MoveInv, UNCHANGED <<job, inside, reply, links>>, TypeOK', InsideFits', WireFits',
         Walked', Arrived', Leaving'
  PROVE  MoveInv'
<1>1. JobsFit' /\ PartialsHold'
  BY DEF MoveInv, JobsFit, PartialsHold, PartialHolds, Embeds
<1>2. MovesMakeNoCycle'
  <2>1. \A l : Seen(l)' <=> Seen(l)
    BY DEF Seen, Failed
  <2> QED
    BY <2>1, NoNewLinks DEF MoveInv
<1> QED
  BY <1>1, <1>2 DEF MoveInv

(* The same, when what is on its way stays too. *)
LEMMA GoesOnReading ==
  ASSUME MoveInv, UNCHANGED <<job, inside, reply, links, wire>>, TypeOK', InsideFits',
         pc \notin {"adding", "removing"} \/ ~InFlight,
         Walked', Arrived', Leaving'
  PROVE  MoveInv'
<1>1. WireFits'
  <2> SUFFICES ASSUME NEW p \in wire PROVE job[p.by] \in Job /\ (Adds(p)' \/ Removes(p)')
    BY DEF WireFits
  <2>1. job[p.by] \in Job /\ (Adds(p) \/ Removes(p))
    BY DEF MoveInv, WireFits
  <2> QED
    BY <2>1 DEF Adds, Removes, LinkOf, InFlight
<1> QED
  BY <1>1, GoesOn

(* The cycle check and what comes before and after it. *)
LEMMA CheckKeeps ==
  ASSUME MoveInv,
         \/ ResourcesExist \/ (\E d \in Docs : Visit(d)) \/ WalkDone \/ NotLinkedYet
  PROVE  MoveInv'
<1>1. /\ TypeOK /\ InsideFits /\ WireFits /\ Walked /\ Arrived /\ Leaving
  BY DEF MoveInv
<1>2. inside # Nobody /\ job[inside] \in Job /\ Here.doc \in Docs
  BY <1>1 DEF InsideFits, TypeOK, Here, Job, ResourcesExist, Visit, WalkDone, NotLinkedYet, Goto
<1>3. CASE ResourcesExist
  <2>1. /\ pc = "resources" /\ pc' = (IF Here.from = Here.to THEN "same" ELSE "walk")
        /\ pending' = {Here.doc}
        /\ UNCHANGED <<job, inside, visited, reply, links, wire>>
    BY <1>3 DEF ResourcesExist
  <2>2. TypeOK'
    BY <1>1, <1>2, <2>1 DEF TypeOK
  <2>3. InsideFits'
    BY <1>1, <1>2, <2>1 DEF InsideFits, Here
  <2>4. Walked'
    BY <1>1, <1>2, <2>1 DEF Walked, InsideFits, Here
  <2>5. Arrived' /\ Leaving'
    BY <2>1 DEF Arrived, Leaving
  <2> QED
    BY <2>1, <2>2, <2>3, <2>4, <2>5, GoesOnReading
<1>4. ASSUME NEW d \in Docs, Visit(d) PROVE MoveInv'
  <2>1. /\ pc = "walk" /\ d \in pending /\ Here.to \notin Children(d)
        /\ visited' = visited \cup {d} /\ pending' = (pending \cup Children(d)) \ visited'
        /\ UNCHANGED <<job, inside, pc, reply, links, wire>>
    BY <1>4 DEF Visit
  <2>2. Children(d) \subseteq Docs /\ \A l \in links : l.parent = d => l.child \in Children(d)
    BY <1>1 DEF TypeOK, Children, Link
  <2>3. TypeOK'
    BY <1>1, <2>1, <2>2 DEF TypeOK
  <2>4. InsideFits'
    BY <1>1, <2>1 DEF InsideFits, Here
  <2>5. Walked'
    <3>1. \A l \in links : Seen(l)' <=> Seen(l)
      BY <2>1 DEF Seen, Failed
    <3> QED
      BY <1>1, <2>1, <2>2, <3>1 DEF Walked, Here
  <2>6. Arrived' /\ Leaving'
    BY <2>1 DEF Arrived, Leaving
  <2> QED
    BY <2>1, <2>3, <2>4, <2>5, <2>6, GoesOnReading
<1>5. CASE WalkDone \/ NotLinkedYet
  <2>1. /\ \/ pc = "walk" /\ pc' = "check" /\ pending = {}
           \/ pc = "check" /\ pc' = "add"
        /\ UNCHANGED <<job, inside, pending, visited, reply, links, wire>>
    BY <1>5 DEF WalkDone, NotLinkedYet, Goto
  <2>2. TypeOK'
    BY <1>1, <2>1 DEF TypeOK
  <2>3. InsideFits'
    BY <1>1, <2>1 DEF InsideFits, Here
  <2>4. Walked'
    BY <1>1, <2>1 DEF Walked, Here, Seen, Failed
  <2>5. Arrived' /\ Leaving'
    BY <2>1 DEF Arrived, Leaving
  <2> QED
    BY <2>1, <2>2, <2>3, <2>4, <2>5, GoesOnReading
<1> QED
  BY <1>3, <1>4, <1>5

(* The move is over. What it was waiting for may still be served if it     *)
(* said so.                                                                *)
Statuses == {"refused", "failed", "unchanged", "inconsistent", "linked", "partial", "moved"}
LEMMA Finishes ==
  ASSUME MoveInv, inside # Nobody, NEW status \in Statuses, Finish(status), UNCHANGED <<job, links>>,
         wire' \subseteq wire,
         \A p \in wire' : p.by = inside => \/ pc = "adding" /\ status = "failed"
                                           \/ pc = "removing" /\ status = "partial",
         status = "partial" => pc \in {"remove", "removing"}
  PROVE  MoveInv'
<1>1. /\ TypeOK /\ InsideFits /\ JobsFit /\ WireFits /\ Walked /\ Arrived /\ Leaving /\ PartialsHold
      /\ MovesMakeNoCycle
  BY DEF MoveInv
<1>2. /\ reply' = [reply EXCEPT ![inside] = status]
      /\ inside' = Nobody /\ pc' = "idle" /\ pending' = {} /\ visited' = {}
  BY DEF Finish
<1>3. /\ inside \in Moves /\ job[inside] \in Job /\ reply[inside] = "none" /\ status # "none"
      /\ \A m \in Moves : reply'[m] = IF m = inside THEN status ELSE reply[m]
  BY <1>1, <1>2 DEF TypeOK, InsideFits, Statuses
<1>4. TypeOK'
  BY <1>1, <1>2 DEF TypeOK, Statuses
<1>5. InsideFits' /\ Walked' /\ Arrived' /\ Leaving'
  BY <1>2 DEF InsideFits, Walked, Arrived, Leaving
<1>6. JobsFit'
  BY <1>1, <1>3, MoveAssumption DEF JobsFit, InsideFits, Here
<1>7. WireFits'
  <2> SUFFICES ASSUME NEW p \in wire' PROVE job[p.by] \in Job /\ (Adds(p)' \/ Removes(p)')
    BY DEF WireFits
  <2>1. p \in wire /\ p.by \in Moves /\ job[p.by] \in Job /\ (Adds(p) \/ Removes(p))
    BY <1>1 DEF WireFits, TypeOK, Push
  <2>2. CASE p.by = inside
    BY <1>2, <1>3, <2>1, <2>2 DEF Adds, Removes, LinkOf
  <2>3. CASE p.by # inside
    BY <1>2, <1>3, <2>1, <2>3 DEF Adds, Removes, LinkOf
  <2> QED
    BY <2>2, <2>3
<1>8. PartialsHold'
  <2> SUFFICES ASSUME NEW m \in Moves, reply'[m] = "partial" PROVE PartialHolds(m)'
    BY DEF PartialsHold, PartialHolds
  <2>1. CASE m # inside
    BY <1>1, <1>3, <2>1 DEF PartialsHold, PartialHolds, Embeds
  <2>2. CASE m = inside
    <3>1. Embeds(Here.to, Here.doc) # {} \/ TakenBack(inside)
      BY <1>1, <1>3, <2>2 DEF Arrived
    <3>2. \A n \in Moves : reply[n] = "partial" => job[n] \in Job
      BY <1>1, JobsAreJobs
    <3> QED
      BY <2>2, <3>1, <3>2 DEF PartialHolds, TakenBack, Embeds, Here
  <2> QED
    BY <2>1, <2>2
<1>9. MovesMakeNoCycle'
  <2>1. \A l : Seen(l)' => Seen(l)
    BY <1>3 DEF Seen, Failed
  <2> QED
    BY <1>1, <2>1, NoNewLinks
<1> QED
  BY <1>4, <1>5, <1>6, <1>7, <1>8, <1>9 DEF MoveInv

(* No push of a move is on its way but while the move waits for it. *)
LEMMA NothingInFlight ==
  ASSUME InsideFits, WireFits, inside # Nobody, pc \notin {"adding", "removing"}
  PROVE  ~InFlight
BY DEF InsideFits, WireFits, InFlight, Adds, Removes

(* A move ends where nothing of it is on its way. *)
LEMMA FinishesQuietly ==
  ASSUME MoveInv, inside # Nobody, ~InFlight, NEW status \in Statuses, Finish(status),
         UNCHANGED <<job, links, wire>>,
         status = "partial" => pc \in {"remove", "removing"}
  PROVE  MoveInv'
<1>1. wire' \subseteq wire /\ \A p \in wire' : p.by # inside
  BY DEF InFlight
<1> QED
  BY <1>1, Finishes

(* The ends of a move. *)
LEMMA EndKeeps ==
  ASSUME MoveInv,
         \/ SameParent \/ Refused \/ (\E d \in Docs : FindsCycle(d)) \/ AddFails
         \/ RemoveLoadFails \/ NoSourceLink \/ RemoveAcknowledged \/ RemoveFails
  PROVE  MoveInv'
<1>1. InsideFits /\ WireFits
  BY DEF MoveInv
<1>2. CASE SameParent \/ Refused \/ (\E d \in Docs : FindsCycle(d)) \/ RemoveLoadFails \/ NoSourceLink
  <2>1. PICK status \in Statuses :
          /\ pc \in {"resources", "same", "walk", "check", "add", "remove"}
          /\ Finish(status) /\ UNCHANGED <<job, links, wire>>
          /\ status = "partial" => pc = "remove"
    <3>1. CASE SameParent
      <4> DEFINE status == IF Embeds(Here.to, Here.doc) # {} THEN "unchanged" ELSE "inconsistent"
      <4>1. status \in Statuses /\ status # "partial" /\ pc = "same" /\ Finish(status)
            /\ UNCHANGED <<job, links, wire>>
        BY <3>1 DEF SameParent, Statuses
      <4> QED
        BY <4>1
    <3>2. CASE Refused \/ (\E d \in Docs : FindsCycle(d))
      BY <3>2 DEF Refused, FindsCycle, Statuses
    <3>3. CASE RemoveLoadFails \/ NoSourceLink
      BY <3>3 DEF RemoveLoadFails, NoSourceLink, Statuses
    <3> QED
      BY <1>2, <3>1, <3>2, <3>3
  <2>2. inside # Nobody
    BY <1>1, <2>1 DEF InsideFits
  <2>3. ~InFlight
    BY <1>1, <2>1, <2>2, NothingInFlight
  <2> QED
    BY <2>1, <2>2, <2>3, FinishesQuietly
<1>3. CASE RemoveAcknowledged
  BY <1>1, <1>3, FinishesQuietly DEF RemoveAcknowledged, InsideFits, Statuses
<1>4. CASE AddFails
  <2>1. pc = "adding" /\ inside # Nobody /\ Finish("failed") /\ UNCHANGED <<job, links, wire>>
    BY <1>1, <1>4 DEF AddFails, InsideFits
  <2> QED
    BY <2>1, Finishes DEF Statuses
<1>5. CASE RemoveFails
  <2>1. pc = "removing" /\ inside # Nobody /\ Finish("partial") /\ UNCHANGED <<job, links, wire>>
    BY <1>1, <1>5 DEF RemoveFails, InsideFits
  <2> QED
    BY <2>1, Finishes DEF Statuses
<1> QED
  BY <1>2, <1>3, <1>4, <1>5

(* A push is lost. *)
LEMMA LostKeeps ==
  ASSUME MoveInv, PushLost
  PROVE  MoveInv'
<1>1. /\ TypeOK /\ InsideFits /\ WireFits /\ Walked /\ Arrived /\ Leaving
  BY DEF MoveInv
<1>2. PICK p \in wire :
       /\ wire' = wire \ {p}
       /\ \/ p.by # inside /\ UNCHANGED call
          \/ p.by = inside /\ pc = "adding" /\ Finish("failed") /\ UNCHANGED job
          \/ p.by = inside /\ pc = "removing" /\ Finish("partial") /\ UNCHANGED job
  BY DEF PushLost
<1>3. UNCHANGED links
  BY DEF PushLost
<1>4. p.by \in Moves
  BY <1>1, <1>2 DEF TypeOK, Push
<1>5. CASE p.by # inside /\ UNCHANGED call
  <2>1. UNCHANGED <<job, inside, pc, pending, visited, reply, links>>
    BY <1>3, <1>5 DEF call
  <2>2. TypeOK' /\ InsideFits'
    BY <1>1, <1>2, <2>1 DEF TypeOK, InsideFits, Here
  <2>3. WireFits'
    BY <1>1, <1>2, <2>1 DEF WireFits, Adds, Removes, LinkOf
  <2>4. Walked'
    BY <1>1, <2>1 DEF Walked, Here, Seen, Failed
  <2>5. Arrived' /\ Leaving'
    BY <1>1, <1>2, <1>5, <2>1 DEF Arrived, Leaving, InFlight, Embeds, TakenBack, Here, Seen, Failed
  <2> QED
    BY <2>1, <2>2, <2>3, <2>4, <2>5, GoesOn
<1>6. CASE p.by = inside /\ pc = "adding" /\ Finish("failed") /\ UNCHANGED job
  <2>1. inside # Nobody /\ wire' \subseteq wire
    BY <1>2, <1>4, <1>6, MoveAssumption
  <2> QED
    BY <1>3, <1>6, <2>1, Finishes DEF Statuses
<1>7. CASE p.by = inside /\ pc = "removing" /\ Finish("partial") /\ UNCHANGED job
  <2>1. inside # Nobody /\ wire' \subseteq wire
    BY <1>2, <1>4, <1>7, MoveAssumption
  <2> QED
    BY <1>3, <1>7, <2>1, Finishes DEF Statuses
<1> QED
  BY <1>2, <1>5, <1>6, <1>7

(* The new parent has the link. *)
LEMMA LinkedKeeps ==
  ASSUME MoveInv, AlreadyLinked \/ AddAcknowledged
  PROVE  MoveInv'
<1>1. /\ TypeOK /\ InsideFits /\ WireFits /\ Walked /\ Arrived /\ Leaving
  BY DEF MoveInv
<1>2. inside # Nobody /\ pc \in {"check", "adding"} /\ Linked /\ UNCHANGED <<job, links, wire>>
  BY <1>1 DEF InsideFits, AlreadyLinked, AddAcknowledged
<1>3. ~InFlight
  BY <1>1, <1>2, NothingInFlight DEF AlreadyLinked, AddAcknowledged
<1>4. Embeds(Here.to, Here.doc) # {} \/ TakenBack(inside)
  BY <1>1, <1>3 DEF AlreadyLinked, AddAcknowledged, Arrived
<1>5. CASE Here.from = Nobody
  BY <1>2, <1>3, <1>5, FinishesQuietly DEF Linked, Statuses
<1>6. CASE Here.from # Nobody
  <2>1. pc' = "remove" /\ UNCHANGED <<job, inside, pending, visited, reply, links, wire>>
    BY <1>2, <1>6 DEF Linked
  <2>2. TypeOK' /\ InsideFits'
    BY <1>1, <1>2, <1>6, <2>1 DEF TypeOK, InsideFits, Here
  <2>3. Walked' /\ Leaving'
    BY <2>1 DEF Walked, Leaving
  <2>4. Arrived'
    BY <1>4, <2>1 DEF Arrived, Embeds, TakenBack, Here
  <2> QED
    BY <1>3, <2>1, <2>2, <2>3, <2>4, GoesOnReading
<1> QED
  BY <1>5, <1>6

(* A push is sent. *)
LEMMA SendKeeps ==
  ASSUME MoveInv, AddToNewParent \/ RemoveFromOldParent
  PROVE  MoveInv'
<1>1. /\ TypeOK /\ InsideFits /\ WireFits /\ Walked /\ Arrived /\ Leaving
  BY DEF MoveInv
<1>2. inside # Nobody /\ pc \in {"add", "remove"} /\ UNCHANGED <<job, inside, pending, visited, reply, links>>
  BY <1>1 DEF InsideFits, AddToNewParent, RemoveFromOldParent, Goto
<1>3. /\ inside \in Moves /\ job[inside] \in Job /\ Here = job[inside]
      /\ Here.doc \in Docs /\ Here.to \in Docs
  BY <1>1, <1>2 DEF TypeOK, InsideFits, Here, Job
<1>4. ~InFlight
  BY <1>1, <1>2, NothingInFlight
<1>5. CASE AddToNewParent
  <2> PICK p : p = [by |-> inside, add |-> {LinkOf(inside)}, remove |-> {}]
    OBVIOUS
  <2>1. pc = "add" /\ pc' = "adding" /\ wire' = wire \cup {p}
    BY <1>3, <1>5 DEF AddToNewParent, Goto, Send, LinkOf
  <2>2. LinkOf(inside) \in Link
    BY <1>3 DEF LinkOf, Link
  <2>3. TypeOK'
    BY <1>1, <1>2, <1>3, <2>1, <2>2 DEF TypeOK, Push
  <2>4. InsideFits'
    BY <1>1, <1>2, <2>1 DEF InsideFits, Here
  <2>5. WireFits'
    <3>1. Adds(p)' /\ p.by = inside
      BY <1>2, <2>1 DEF Adds, LinkOf
    <3>2. ASSUME NEW q \in wire PROVE job[q.by] \in Job /\ (Adds(q)' \/ Removes(q)')
      <4>1. job[q.by] \in Job /\ (Adds(q) \/ Removes(q)) /\ q.by # inside
        BY <1>1, <1>4 DEF WireFits, InFlight
      <4> QED
        BY <1>2, <4>1 DEF Adds, Removes, LinkOf
    <3> QED
      <4> SUFFICES ASSUME NEW q \in wire' PROVE job'[q.by] \in Job /\ (Adds(q)' \/ Removes(q)')
        BY DEF WireFits
      <4> QED
        BY <1>2, <1>3, <2>1, <3>1, <3>2
  <2>6. Walked'
    BY <1>1, <1>2, <2>1 DEF Walked, Here, Seen, Failed
  <2>7. Arrived' /\ Leaving'
    BY <1>2, <2>1 DEF Arrived, Leaving, InFlight
  <2> QED
    BY <1>2, <2>3, <2>4, <2>5, <2>6, <2>7, GoesOn
<1>6. CASE RemoveFromOldParent
  <2> PICK p : p = [by |-> inside, add |-> {}, remove |-> Embeds(Here.from, Here.doc)]
    OBVIOUS
  <2>1. pc = "remove" /\ pc' = "removing" /\ wire' = wire \cup {p}
    BY <1>6 DEF RemoveFromOldParent, Goto, Send
  <2>2. p.remove \subseteq Link /\ \A l \in p.remove : l.parent = Here.from /\ l.child = Here.doc
    BY <1>1 DEF Embeds, TypeOK
  <2>3. TypeOK'
    BY <1>1, <1>2, <1>3, <2>1, <2>2 DEF TypeOK, Push
  <2>4. InsideFits'
    BY <1>1, <1>2, <2>1 DEF InsideFits, Here
  <2>5. WireFits'
    <3>1. Removes(p)'
      BY <1>2, <1>3, <2>1, <2>2 DEF Removes
    <3>2. ASSUME NEW q \in wire PROVE job[q.by] \in Job /\ (Adds(q)' \/ Removes(q)')
      <4>1. job[q.by] \in Job /\ (Adds(q) \/ Removes(q)) /\ q.by # inside
        BY <1>1, <1>4 DEF WireFits, InFlight
      <4> QED
        BY <1>2, <4>1 DEF Adds, Removes, LinkOf
    <3> QED
      BY <1>2, <1>3, <2>1, <3>1, <3>2 DEF WireFits
  <2>6. Walked'
    BY <2>1 DEF Walked
  <2>7. Arrived'
    BY <1>1, <1>2, <2>1 DEF Arrived, Embeds, TakenBack, Here
  <2>8. Leaving'
    BY <1>2, <2>1 DEF Leaving, Embeds, Here
  <2> QED
    BY <1>2, <2>3, <2>4, <2>5, <2>6, <2>7, <2>8, GoesOn
<1> QED
  BY <1>5, <1>6

(* Only another move that takes the document from there takes away the     *)
(* link a move has added.                                                  *)
LEMMA OnlyTakersRemove ==
  ASSUME TypeOK, WireFits, NEW p \in wire, NEW m \in Moves, job[m].from # job[m].to,
         NEW l \in Embeds(job[m].to, job[m].doc), l \in p.remove
  PROVE  /\ Removes(p) /\ p.by \in Moves \ {m} /\ job[p.by] \in Job
         /\ job[p.by].doc = job[m].doc /\ job[p.by].from = job[m].to
BY DEF TypeOK, Push, WireFits, Adds, Removes, Embeds

(* A push is merged. *)
LEMMA ApplyKeeps ==
  ASSUME MoveInv, ServerApplies
  PROVE  MoveInv'
<1>1. /\ TypeOK /\ InsideFits /\ JobsFit /\ WireFits /\ Walked /\ Arrived /\ Leaving /\ PartialsHold
      /\ MovesMakeNoCycle
  BY DEF MoveInv
<1>2. PICK p \in wire : wire' = wire \ {p} /\ links' = (links \cup p.add) \ p.remove
  BY DEF ServerApplies
<1>3. UNCHANGED <<job, inside, pc, pending, visited, reply>>
  BY DEF ServerApplies, call
<1>4. /\ p \in Push /\ p.by \in Moves /\ job[p.by] \in Job
      /\ p.add \subseteq Link /\ p.remove \subseteq Link
  BY <1>1 DEF TypeOK, WireFits, Push
<1>5. \/ Adds(p) /\ p.by = inside /\ pc = "adding"
      \/ Adds(p) /\ reply[p.by] = "failed"
      \/ Removes(p)
  BY <1>1 DEF WireFits, Adds
<1>6. /\ \A l : Seen(l)' <=> Seen(l)
      /\ \A l \in p.add : Seen(l) => Adds(p) /\ p.by = inside /\ pc = "adding" /\ l = LinkOf(inside)
  BY <1>3, <1>4, <1>5 DEF Seen, Failed, Adds, Removes, LinkOf
<1>7. /\ inside # Nobody => inside \in Moves /\ job[inside] \in Job
      /\ pc \in {"adding", "remove", "removing"} => inside # Nobody /\ Here.from # Here.to
  BY <1>1 DEF TypeOK, InsideFits
<1>8. TypeOK'
  BY <1>1, <1>2, <1>3, <1>4 DEF TypeOK
<1>9. InsideFits' /\ JobsFit'
  BY <1>1, <1>3 DEF InsideFits, JobsFit, Here
<1>10. WireFits'
  BY <1>1, <1>2, <1>3 DEF WireFits, Adds, Removes, LinkOf
<1>11. Walked'
  <2>1. ASSUME NEW l \in links', Seen(l)', l.parent \in visited,
               pc \in {"resources", "walk", "check", "add", "adding"}
        PROVE  l.child \in visited \cup pending
    <3>1. CASE l \in links
      BY <1>1, <1>6, <2>1, <3>1 DEF Walked
    <3>2. CASE l \notin links
      <4>1. l = LinkOf(inside) /\ pc = "adding"
        BY <1>2, <1>6, <2>1, <3>2
      <4> QED
        BY <1>1, <2>1, <4>1 DEF Walked, LinkOf, Here
    <3> QED
      BY <3>1, <3>2
  <2> QED
    BY <1>1, <1>3, <2>1 DEF Walked, Here
<1>12. ASSUME NEW m \in Moves, NEW l \in Embeds(job[m].to, job[m].doc), job[m].from # job[m].to
       PROVE  \/ l \in Embeds(job[m].to, job[m].doc)'
              \/ /\ p.by \in Moves \ {m} /\ job[p.by] \in Job /\ Removes(p)
                 /\ job[p.by].doc = job[m].doc /\ job[p.by].from = job[m].to
  <2>1. CASE l \in p.remove
    BY <1>1, <1>12, <2>1, OnlyTakersRemove
  <2>2. CASE l \notin p.remove
    BY <1>2, <1>3, <1>12, <2>2 DEF Embeds
  <2> QED
    BY <2>1, <2>2
<1>13. ASSUME inside # Nobody, Here.from # Here.to, Embeds(Here.to, Here.doc) # {}
       PROVE  Embeds(Here.to, Here.doc)' # {} \/ TakenBack(inside)'
  <2>1. PICK m \in Moves : m = inside
    BY <1>7, <1>13
  <2>2. PICK l : l \in Embeds(job[m].to, job[m].doc)
    BY <1>13, <2>1 DEF Here
  <2>3. \/ l \in Embeds(job[m].to, job[m].doc)'
        \/ /\ p.by \in Moves \ {m} /\ Removes(p)
           /\ job[p.by].doc = job[m].doc /\ job[p.by].from = job[m].to
    BY <1>12, <1>13, <2>1, <2>2 DEF Here
  <2>4. CASE l \in Embeds(job[m].to, job[m].doc)'
    BY <1>3, <2>1, <2>4 DEF Here
  <2>5. CASE /\ p.by \in Moves \ {m} /\ Removes(p)
             /\ job[p.by].doc = job[m].doc /\ job[p.by].from = job[m].to
    <3>1. reply[p.by] = "partial"
      BY <1>7, <1>13, <2>1, <2>5 DEF Removes
    <3> QED
      BY <1>3, <2>1, <2>5, <3>1 DEF TakenBack
  <2> QED
    BY <2>3, <2>4, <2>5
<1>14. Arrived'
  <2>1. CASE pc \in {"remove", "removing"}
    BY <1>1, <1>3, <1>7, <1>13, <2>1 DEF Arrived, TakenBack
  <2>2. CASE pc = "adding"
    <3>1. CASE p.by = inside
      <4>1. Adds(p)
        BY <1>1, <1>5, <1>7, <2>2, <3>1 DEF Removes, InsideFits
      <4>2. LinkOf(inside) \in links'
        BY <1>2, <3>1, <4>1 DEF Adds
      <4> QED
        BY <1>3, <2>2, <4>2 DEF Arrived, Embeds, LinkOf, Here
    <3>2. CASE p.by # inside
      <4>1. InFlight => InFlight'
        BY <1>2, <1>3, <3>2 DEF InFlight
      <4> QED
        BY <1>1, <1>3, <1>7, <1>13, <2>2, <4>1 DEF Arrived, TakenBack
    <3> QED
      BY <3>1, <3>2
  <2> QED
    BY <1>3, <2>1, <2>2 DEF Arrived
<1>15. Leaving'
  <2> SUFFICES ASSUME pc = "removing", NEW l \in links', l \in Embeds(Here.from, Here.doc)', Seen(l)
               PROVE  \E q \in wire' : q.by = inside /\ l \in q.remove
    BY <1>3, <1>6 DEF Leaving, Embeds
  <2>1. l \in links /\ l \notin p.remove
    BY <1>2, <1>6
  <2>2. l \in Embeds(Here.from, Here.doc)
    BY <1>3, <2>1 DEF Embeds, Here
  <2> QED
    BY <1>1, <1>2, <2>1, <2>2 DEF Leaving
<1>16. PartialsHold'
  <2> SUFFICES ASSUME NEW m \in Moves, reply[m] = "partial" PROVE PartialHolds(m)'
    BY <1>3 DEF PartialsHold, PartialHolds
  <2>1. job[m].from # job[m].to /\ PartialHolds(m)
    BY <1>1 DEF JobsFit, PartialsHold
  <2>2. CASE Embeds(job[m].to, job[m].doc) = {}
    BY <1>3, <2>1, <2>2 DEF PartialHolds
  <2>3. ASSUME NEW l \in Embeds(job[m].to, job[m].doc) PROVE PartialHolds(m)'
    <3>1. \/ l \in Embeds(job[m].to, job[m].doc)'
          \/ /\ p.by \in Moves \ {m} /\ job[p.by] \in Job
             /\ job[p.by].doc = job[m].doc /\ job[p.by].from = job[m].to
      BY <1>12, <2>1, <2>3
    <3> QED
      BY <1>3, <3>1 DEF PartialHolds
  <2> QED
    BY <2>2, <2>3
<1>17. MovesMakeNoCycle'
  <2>1. CASE \A l \in links' : Seen(l) => l \in links
    BY <1>1, <1>6, <2>1, NoNewLinks
  <2>2. ASSUME NEW x \in links', Seen(x), x \notin links PROVE MovesMakeNoCycle'
    <3>1. x = LinkOf(inside) /\ pc = "adding" /\ p.add = {x}
      BY <1>2, <1>6, <2>2 DEF Adds
    <3> DEFINE K == {l \in links : l.by \notin Edits \cup {m \in Moves : reply[m] = "failed"}}
               L == {l \in links' : l.by \notin Edits \cup {m \in Moves : reply'[m] = "failed"}}
    <3>2. L \subseteq K \cup {x} /\ Acyclic(K)
      BY <1>1, <1>2, <1>3, <3>1 DEF MovesMakeNoCycle
    <3>3. \A k \in K : k.parent \in visited => k.child \in visited
      BY <1>1, <3>1 DEF Walked, Seen, Failed
    <3>4. x.child \in visited /\ x.parent \notin visited
      BY <1>1, <3>1 DEF Walked, LinkOf, Here
    <3>5. L = {l \in links : l.by \notin Edits \cup {m \in Moves : reply[m] = "failed"}}'
      OBVIOUS
    <3> HIDE DEF K, L
    <3>6. Acyclic(K \cup {x})
      BY <3>2, <3>3, <3>4, OneMoreLink
    <3>7. Acyclic(L)
      BY <3>2, <3>6, FewerLinks
    <3> QED
      BY <3>5, <3>7 DEF MovesMakeNoCycle, Acyclic
  <2> QED
    BY <2>1, <2>2
<1> QED
  BY <1>8, <1>9, <1>10, <1>11, <1>14, <1>15, <1>16, <1>17 DEF MoveInv

(* The native editor links a document. *)
LEMMA EditKeeps ==
  ASSUME MoveInv, OutsideEdit
  PROVE  MoveInv'
<1>1. /\ TypeOK /\ InsideFits /\ JobsFit /\ WireFits /\ Walked /\ Arrived /\ Leaving /\ PartialsHold
      /\ MovesMakeNoCycle
  BY DEF MoveInv
<1>2. PICK x \in Link : x.by \in Edits /\ links' = links \cup {x}
  <2>1. PICK e \in Edits, d \in Docs, to \in Docs, k \in {"embed", "ref"} :
          links' = links \cup {[by |-> e, parent |-> to, child |-> d, kind |-> k]}
    BY DEF OutsideEdit
  <2>2. [by |-> e, parent |-> to, child |-> d, kind |-> k] \in Link
    BY DEF Link
  <2> QED
    BY <2>1, <2>2
<1>3. UNCHANGED <<job, inside, pc, pending, visited, reply, wire>>
  BY DEF OutsideEdit, call
<1>4. (\A l : Seen(l)' <=> Seen(l)) /\ ~Seen(x)
  BY <1>2, <1>3 DEF Seen, Failed
<1>5. TypeOK' /\ InsideFits' /\ JobsFit' /\ WireFits'
  BY <1>1, <1>2, <1>3 DEF TypeOK, InsideFits, JobsFit, WireFits, Adds, Removes, LinkOf, Here
<1>6. Walked'
  BY <1>1, <1>2, <1>3, <1>4 DEF Walked, Here
<1>7. \A a, b : Embeds(a, b) # {} => Embeds(a, b)' # {}
  BY <1>2 DEF Embeds
<1>8. Arrived'
  BY <1>1, <1>2, <1>3 DEF Arrived, InFlight, TakenBack, Here, Embeds
<1>9. Leaving'
  BY <1>1, <1>2, <1>3, <1>4 DEF Leaving, Embeds, Here
<1>10. PartialsHold'
  BY <1>1, <1>2, <1>3 DEF PartialsHold, PartialHolds, Embeds
<1>11. MovesMakeNoCycle'
  BY <1>1, <1>2, <1>4, NoNewLinks
<1> QED
  BY <1>1, <1>5, <1>6, <1>8, <1>9, <1>10, <1>11 DEF MoveInv

(* Every step keeps the invariant. *)
LEMMA MoveNextKeeps == MoveInv /\ [Next]_vars => MoveInv'
<1> SUFFICES ASSUME MoveInv, [Next]_vars PROVE MoveInv'
  OBVIOUS
<1>1. CASE UNCHANGED vars
  BY <1>1 DEF vars, call, MoveInv, TypeOK, InsideFits, JobsFit, WireFits, Adds, Removes, LinkOf,
    Walked, Seen, Failed, Arrived, InFlight, Embeds, TakenBack, Here, Leaving, PartialsHold,
    PartialHolds, MovesMakeNoCycle, Acyclic
<1>2. CASE MoveStep
  BY <1>2, CheckKeeps, EndKeeps, LinkedKeeps, SendKeeps DEF MoveStep
<1>3. CASE Next /\ ~MoveStep
  BY <1>1, <1>3, BeginKeeps, ApplyKeeps, LostKeeps, EditKeeps DEF Next, Done
<1> QED
  BY <1>1, <1>2, <1>3

(* What holds of moves throughout: the types; the move the queue has let   *)
(* in is where its position says; every push on its way is what its move   *)
(* sent and that move waits for it or gave up; the cycle check has seen    *)
(* all it could; a link confirmed is there or being taken back.            *)
THEOREM MoveSafety == Spec => []MoveInv
<1> QED
  BY InitMove, MoveNextKeeps, PTL DEF Spec

(* No move closes a cycle of documents: only a link of the native editor,  *)
(* or of a move reported as failed that is merged late, can.               *)
THEOREM MovesNeverMakeACycle == Spec => []MovesMakeNoCycle
<1>1. MoveInv => MovesMakeNoCycle
  BY DEF MoveInv
<1> QED
  BY <1>1, MoveSafety, PTL

-----------------------------------------------------------------------------
(* What a move may report. *)
ReportIsTrue(m, status) ==
  /\ status \in {"moved", "linked", "partial", "unchanged"} =>
       Embeds(job[m].to, job[m].doc) # {} \/ TakenBack(m)
  /\ status = "moved" => \A l \in Embeds(job[m].from, job[m].doc) : ~Seen(l)

(* Only the end of a move, and a call refused at once, report. *)
LEMMA OnlyEndsReport ==
  ASSUME MoveInv, [Next]_vars, NEW m \in Moves, reply'[m] # reply[m]
  PROVE  reply'[m] = "refused" \/ (UNCHANGED job /\ ReportIsTrue(m, reply'[m]))
<1>1. TypeOK /\ InsideFits /\ WireFits /\ Arrived /\ Leaving
  BY DEF MoveInv
<1>2. ASSUME NEW status \in Statuses, Finish(status)
      PROVE  m = inside /\ reply'[m] = status
  BY <1>1, <1>2 DEF Finish, TypeOK
<1>3. ASSUME NEW k \in Moves, Begin(k) PROVE reply'[m] = "refused"
  <2>1. reply' = [reply EXCEPT ![k] = "refused"] \/ UNCHANGED reply
    BY <1>3 DEF Begin
  <2> QED
    BY <1>1, <2>1 DEF TypeOK
<1>4. CASE Refused \/ (\E d \in Docs : FindsCycle(d))
  BY <1>2, <1>4 DEF Refused, FindsCycle, Statuses
<1>5. CASE AddFails
  BY <1>2, <1>5 DEF AddFails, Statuses, ReportIsTrue
<1>6. CASE SameParent
  <2>1. CASE Embeds(Here.to, Here.doc) # {}
    BY <1>2, <1>6, <2>1 DEF SameParent, Statuses, ReportIsTrue, Here
  <2>2. CASE Embeds(Here.to, Here.doc) = {}
    BY <1>2, <1>6, <2>2 DEF SameParent, Statuses, ReportIsTrue
  <2> QED
    BY <2>1, <2>2
<1>7. CASE AlreadyLinked \/ AddAcknowledged
  <2>1. Embeds(Here.to, Here.doc) # {} \/ TakenBack(inside)
    BY <1>1, <1>7 DEF AlreadyLinked, AddAcknowledged, Arrived
  <2>2. Finish("linked") /\ UNCHANGED job
    BY <1>7 DEF AlreadyLinked, AddAcknowledged, Linked
  <2> QED
    BY <1>2, <2>1, <2>2 DEF Statuses, ReportIsTrue, Here
<1>8. CASE RemoveLoadFails \/ NoSourceLink \/ RemoveFails \/ PushLost
  <2>1. \/ pc \in {"remove", "removing"} /\ Finish("partial") /\ UNCHANGED job
        \/ Finish("failed") /\ UNCHANGED job
    BY <1>8 DEF RemoveLoadFails, NoSourceLink, RemoveFails, PushLost, call
  <2>2. CASE Finish("failed") /\ UNCHANGED job
    BY <1>2, <2>2 DEF Statuses, ReportIsTrue
  <2>3. CASE pc \in {"remove", "removing"} /\ Finish("partial") /\ UNCHANGED job
    BY <1>1, <1>2, <2>3 DEF Statuses, ReportIsTrue, Arrived, Here
  <2> QED
    BY <2>1, <2>2, <2>3
<1>9. CASE RemoveAcknowledged
  <2>1. pc = "removing" /\ ~InFlight /\ Finish("moved") /\ UNCHANGED job
    BY <1>9 DEF RemoveAcknowledged
  <2>2. \A l \in Embeds(Here.from, Here.doc) : ~Seen(l)
    BY <1>1, <2>1 DEF Leaving, InFlight
  <2> QED
    BY <1>1, <1>2, <2>1, <2>2 DEF Statuses, ReportIsTrue, Arrived, Here
<1>10. CASE UNCHANGED reply
  BY <1>10
<1>11. CASE MoveStep
  <2>1. UNCHANGED reply \/ SameParent \/ Refused \/ (\E d \in Docs : FindsCycle(d)) \/ AlreadyLinked
        \/ AddAcknowledged \/ AddFails \/ RemoveLoadFails \/ NoSourceLink \/ RemoveAcknowledged
        \/ RemoveFails
    BY <1>11 DEF MoveStep, ResourcesExist, Visit, WalkDone, NotLinkedYet, AddToNewParent,
      RemoveFromOldParent
  <2> QED
    BY <1>4, <1>5, <1>6, <1>7, <1>8, <1>9, <1>10, <2>1
<1>12. CASE [Next]_vars /\ ~MoveStep
  <2>1. (\E k \in Moves : Begin(k)) \/ PushLost \/ UNCHANGED reply
    BY <1>12 DEF Next, ServerApplies, OutsideEdit, Done, vars, call
  <2> QED
    BY <1>3, <1>8, <1>10, <2>1
<1> QED
  BY <1>11, <1>12

(* What move_doc reports is true when it is reported: the new parent has   *)
(* the link, unless an earlier partial move takes it away just then; after *)
(* "moved" the old parent has none but later ones of the native editor or  *)
(* of moves that failed.                                                   *)
THEOREM MoveReports == Spec => MoveReportsAreTrue
<1>1. MoveInv /\ [Next]_vars =>
        [\A m \in Moves : reply'[m] # reply[m] =>
           LET j == job'[m] IN
           /\ reply'[m] \in {"moved", "linked", "partial", "unchanged"} =>
                \/ Embeds(j.to, j.doc) # {}
                \/ \E n \in Moves \ {m} :
                     reply[n] = "partial" /\ job[n].doc = j.doc /\ job[n].from = j.to
           /\ reply'[m] = "moved" =>
                \A l \in Embeds(j.from, j.doc) :
                  l.by \in Edits \/ l.by \in {n \in Moves : reply[n] = "failed"}]_vars
  <2> SUFFICES ASSUME MoveInv, [Next]_vars, NEW m \in Moves, reply'[m] # reply[m]
               PROVE  LET j == job'[m] IN
                      /\ reply'[m] \in {"moved", "linked", "partial", "unchanged"} =>
                           \/ Embeds(j.to, j.doc) # {}
                           \/ \E n \in Moves \ {m} :
                                reply[n] = "partial" /\ job[n].doc = j.doc /\ job[n].from = j.to
                      /\ reply'[m] = "moved" =>
                           \A l \in Embeds(j.from, j.doc) :
                             l.by \in Edits \/ l.by \in {n \in Moves : reply[n] = "failed"}
    OBVIOUS
  <2>1. reply'[m] = "refused" \/ (UNCHANGED job /\ ReportIsTrue(m, reply'[m]))
    BY OnlyEndsReport
  <2> QED
    BY <2>1 DEF ReportIsTrue, TakenBack, Seen, Failed
<1> QED
  BY <1>1, MoveSafety, PTL DEF Spec, MoveReportsAreTrue

(* A document that hangs nowhere any more: the move that took its last     *)
(* link away was over, or relied on one that was.                          *)
LEMMA OrphanedLate ==
  ASSUME MoveInv, [Next]_vars, NEW d \in Docs, Parents(d) # {}, Parents(d)' = {}
  PROVE  \E m, n \in {k \in Moves : job[k] # Nobody} :
           /\ m # n /\ job[m].doc = d /\ job[n].doc = d
           /\ reply[m] = "partial" /\ job[n].from = job[m].to
<1>1. TypeOK /\ InsideFits /\ JobsFit /\ WireFits /\ Arrived /\ PartialsHold
  BY DEF MoveInv
<1>2. PICK x \in links : x.child = d /\ x \notin links'
  BY DEF Parents
<1>3. ServerApplies
  BY <1>2 DEF Next, MoveStep, Begin, ResourcesExist, SameParent, Refused, Visit, FindsCycle, WalkDone,
    AlreadyLinked, NotLinkedYet, AddToNewParent, AddAcknowledged, AddFails, RemoveLoadFails,
    NoSourceLink, RemoveFromOldParent, RemoveAcknowledged, RemoveFails, PushLost, OutsideEdit, Done,
    vars
<1>4. PICK p \in wire : links' = (links \cup p.add) \ p.remove
  BY <1>3 DEF ServerApplies
<1>5. Removes(p) /\ p.by \in Moves /\ job[p.by] \in Job /\ job[p.by].doc = d
  BY <1>1, <1>2, <1>4 DEF WireFits, Adds, Removes, TypeOK, Push
<1>6. \A l \in links : l.child = d => l \in p.remove /\ l.parent = job[p.by].from
  <2>1. \A l \in links : l.child = d => l \in p.remove
    BY <1>4 DEF Parents
  <2> QED
    BY <1>5, <2>1 DEF Removes
<1>7. \A to : Embeds(to, d) # {} => to = job[p.by].from
  BY <1>6 DEF Embeds
<1>8. Nobody \notin Job
  BY MoveAssumption
<1>9. CASE reply[p.by] = "partial"
  <2>1. Embeds(job[p.by].to, d) = {}
    BY <1>1, <1>5, <1>7, <1>9 DEF JobsFit
  <2>2. PICK n \in Moves \ {p.by} : job[n] \in Job /\ job[n].doc = d /\ job[n].from = job[p.by].to
    BY <1>1, <1>5, <1>9, <2>1 DEF PartialsHold, PartialHolds
  <2> QED
    BY <1>5, <1>8, <1>9, <2>2
<1>10. CASE p.by = inside /\ pc = "removing"
  <2>1. Embeds(Here.to, Here.doc) = {}
    BY <1>1, <1>5, <1>7, <1>10 DEF InsideFits, Here
  <2>2. PICK n \in Moves \ {p.by} : reply[n] = "partial" /\ job[n].doc = d /\ job[n].from = job[p.by].to
    BY <1>1, <1>5, <1>10, <2>1 DEF Arrived, TakenBack, Here
  <2>3. job[n] \in Job
    BY <1>1, <2>2, JobsAreJobs
  <2>4. CASE Embeds(job[n].to, d) # {}
    BY <1>5, <1>7, <1>8, <2>2, <2>3, <2>4
  <2>5. CASE Embeds(job[n].to, d) = {}
    <3>1. PICK k \in Moves \ {n} : job[k] \in Job /\ job[k].doc = d /\ job[k].from = job[n].to
      BY <1>1, <2>2, <2>5 DEF PartialsHold, PartialHolds
    <3> QED
      BY <1>8, <2>2, <2>3, <3>1
  <2> QED
    BY <2>4, <2>5
<1> QED
  BY <1>5, <1>9, <1>10 DEF Removes

(* A document loses its last link only to a removal that was reported as   *)
(* partial and merged late, after a second move had relied on, or undone,  *)
(* what the first one did.                                                 *)
THEOREM OrphansNeedLateRemovals == Spec => OnlyLateRemovalsOrphan
<1>1. MoveInv /\ [Next]_vars =>
        [\A d \in Docs : Parents(d) # {} /\ Parents(d)' = {} =>
           \E m, n \in {k \in Moves : job[k] # Nobody} :
             /\ m # n /\ job[m].doc = d /\ job[n].doc = d
             /\ reply[m] = "partial" /\ job[n].from = job[m].to]_vars
  BY OrphanedLate
<1> QED
  BY <1>1, MoveSafety, PTL DEF Spec, OnlyLateRemovalsOrphan

-----------------------------------------------------------------------------
(* A definition: its type is the one it started with, or one the tools can *)
(* edit.                                                                   *)
DefinitionsOf(p) ==
  [name : PropertyNames, isDeleted : BOOLEAN,
   type : IF p \in DOMAIN StartDefs THEN {StartDefs[p].type} ELSE SUPPORTED_TYPES]

DefsFit(defs) ==
  /\ defs = [p \in DOMAIN defs |-> defs[p]]
  /\ DOMAIN StartDefs \subseteq DOMAIN defs /\ DOMAIN defs \subseteq DOMAIN StartDefs \cup PropertyCalls
  /\ \A p \in DOMAIN defs : defs[p] \in DefinitionsOf(p)

Editable(p) == p \in DOMAIN StartDefs => StartDefs[p].type \in SUPPORTED_TYPES

ValuesFit(values, properties) ==
  /\ values = [k \in DOMAIN values |-> values[k]]
  /\ \A k \in DOMAIN values :
       /\ k = <<k[1], k[2]>>
       /\ k \in DOMAIN StartValues \/ (k[2] \in properties /\ Editable(k[2]))

DatabaseFits(d) ==
  /\ d = [defs |-> d.defs, values |-> d.values]
  /\ DefsFit(d.defs)
  /\ ValuesFit(d.values, DOMAIN d.defs)

(* An update adds definitions and takes none away, and gives values only   *)
(* to properties that were there.                                          *)
UpdateFits(base, made) ==
  /\ DatabaseFits(base)
  /\ made = [defs |-> made.defs, values |-> made.values]
  /\ DefsFit(made.defs) /\ DOMAIN base.defs \subseteq DOMAIN made.defs
  /\ ValuesFit(made.values, DOMAIN base.defs)

UpdatesFit ==
  \A c \in PropertyCalls : vPhase[c] \in {"sent", "lost"} =>
    /\ UpdateFits(vUpdate[c].base, vUpdate[c].made)
    /\ DOMAIN vUpdate[c].base.defs \subseteq DOMAIN vDoc.defs

RequestsKept ==
  \A c \in PropertyCalls : vPhase[c] \in {"sent", "merged"} =>
    \A asked \in vUpdate[c].asked : RequestKept(vUpdate[c].base, vUpdate[c].made, c, asked)

(* One call at a time; and while nothing is merged late, the document is   *)
(* what the last one loaded, or has made of it.                            *)
OneCallAtATime ==
  \A c, d \in PropertyCalls :
    vPhase[c] = "sent" /\ d # c => vPhase[d] # "sent" /\ (vPhase[d] = "merged" => vUpdate[d].asked = {})
MergedInOrder ==
  (\A c \in PropertyCalls : vPhase[c] # "late") =>
    \A c \in PropertyCalls :
      /\ vPhase[c] = "sent" => vDoc = vUpdate[c].base
      /\ vPhase[c] = "merged" /\ vUpdate[c].asked # {} => vDoc = vUpdate[c].made

PropertiesInv ==
  /\ vPhase \in [PropertyCalls -> {"idle", "sent", "merged", "refused", "lost", "late"}]
  /\ DatabaseFits(vDoc)
  /\ UpdatesFit
  /\ RequestsKept
  /\ OneCallAtATime
  /\ MergedInOrder

(* Every key of a merged map has its value from one of the two sides; the  *)
(* keys there were stay when the update took none away.                    *)
LEMMA MergedKeys ==
  ASSUME NEW now, NEW base, NEW made
  PROVE  LET m == MergedMap(now, base, made) IN
         /\ m = [k \in DOMAIN m |-> m[k]]
         /\ \A k \in DOMAIN m : \/ k \in DOMAIN made /\ m[k] = made[k]
                                \/ k \in DOMAIN now /\ m[k] = now[k]
         /\ DOMAIN m \subseteq DOMAIN now \cup DOMAIN made
         /\ DOMAIN base \subseteq DOMAIN made => DOMAIN now \subseteq DOMAIN m
BY DEF MergedMap

(* An update merged into the map it was made from gives what it was to     *)
(* give.                                                                   *)
LEMMA MergedInPlace ==
  ASSUME NEW base, NEW made, base = [k \in DOMAIN base |-> base[k]],
         made = [k \in DOMAIN made |-> made[k]]
  PROVE  MergedMap(base, base, made) = made
<1> DEFINE set == {k \in DOMAIN made : k \in DOMAIN base => made[k] # base[k]}
           gone == {k \in DOMAIN base \ DOMAIN made : k \in DOMAIN base => base[k] = base[k]}
<1>1. MergedMap(base, base, made)
        = [k \in (DOMAIN base \ gone) \cup set |-> IF k \in set THEN made[k] ELSE base[k]]
  BY DEF MergedMap
<1>2. (DOMAIN base \ gone) \cup set = DOMAIN made
  OBVIOUS
<1>3. \A k \in DOMAIN made : (IF k \in set THEN made[k] ELSE base[k]) = made[k]
  OBVIOUS
<1> QED
  BY <1>1, <1>2, <1>3

(* A late update keeps the database fitting, and every definition.         *)
LEMMA MergeFits ==
  ASSUME NEW now, NEW base, NEW made, DatabaseFits(now), UpdateFits(base, made),
         DOMAIN base.defs \subseteq DOMAIN now.defs
  PROVE  /\ DatabaseFits(PropertiesMerge(now, base, made))
         /\ DOMAIN now.defs \subseteq DOMAIN PropertiesMerge(now, base, made).defs
<1> DEFINE defs == MergedMap(now.defs, base.defs, made.defs)
           values == MergedMap(now.values, base.values, made.values)
<1>1. PropertiesMerge(now, base, made) = [defs |-> defs, values |-> values]
  BY DEF PropertiesMerge
<1>2. /\ defs = [k \in DOMAIN defs |-> defs[k]]
      /\ \A k \in DOMAIN defs : \/ k \in DOMAIN made.defs /\ defs[k] = made.defs[k]
                                \/ k \in DOMAIN now.defs /\ defs[k] = now.defs[k]
      /\ DOMAIN defs \subseteq DOMAIN now.defs \cup DOMAIN made.defs
      /\ DOMAIN now.defs \subseteq DOMAIN defs
  BY MergedKeys DEF UpdateFits
<1>3. /\ values = [k \in DOMAIN values |-> values[k]]
      /\ DOMAIN values \subseteq DOMAIN now.values \cup DOMAIN made.values
  BY MergedKeys
<1> HIDE DEF defs, values
<1>4. DefsFit(defs)
  BY <1>2 DEF DatabaseFits, UpdateFits, DefsFit
<1>5. ValuesFit(values, DOMAIN defs)
  BY <1>2, <1>3 DEF DatabaseFits, UpdateFits, ValuesFit
<1> QED
  BY <1>1, <1>2, <1>4, <1>5 DEF DatabaseFits

(* An update merged into the database it was made from.                    *)
LEMMA MergesInPlace ==
  ASSUME NEW base, NEW made, UpdateFits(base, made)
  PROVE  PropertiesMerge(base, base, made) = made
<1>1. /\ MergedMap(base.defs, base.defs, made.defs) = made.defs
      /\ MergedMap(base.values, base.values, made.values) = made.values
  BY MergedInPlace DEF UpdateFits, DatabaseFits, DefsFit, ValuesFit
<1> QED
  BY <1>1 DEF PropertiesMerge, UpdateFits

(* What a name or id resolves to is what it means.                         *)
LEMMA Resolution ==
  ASSUME NEW d, NEW property
  PROVE  resolveDefinition(d, property) = {p \in LiveProperties(d) : Means(d, property, p)}
BY DEF resolveDefinition, readPropertyDefinitions, LiveProperties, Means

(* When it resolves to one property, or to none.                           *)
LEMMA ResolvesToOne ==
  ASSUME NEW d, DatabaseFits(d), NEW property
  PROVE  LET found == resolveDefinition(d, property) IN
         /\ IsFiniteSet(found)
         /\ Cardinality(found) = 1 =>
              \E p \in LiveProperties(d) : found = {p} /\ \A q : Means(d, property, q) <=> q = p
         /\ Cardinality(found) <= 1 => found = {} \/ Cardinality(found) = 1
<1> DEFINE found == resolveDefinition(d, property)
<1>1. found \subseteq LiveProperties(d) /\ \A q : Means(d, property, q) <=> q \in found
  BY Resolution DEF Means
<1>2. LiveProperties(d) \subseteq DOMAIN StartDefs \cup PropertyCalls
  BY DEF LiveProperties, DatabaseFits, DefsFit
<1> HIDE DEF found
<1>3. IsFiniteSet(DOMAIN StartDefs \cup PropertyCalls)
  BY PropertiesAssumption, FS_Union
<1>4. IsFiniteSet(found)
  BY <1>1, <1>2, <1>3, FS_Subset
<1>5. Cardinality(found) \in Nat /\ (Cardinality(found) = 0 <=> found = {})
  BY <1>4, FS_CardinalityType, FS_EmptySet
<1>6. Cardinality(found) = 1 => \E p : found = {p}
  BY <1>4, FS_Singleton
<1> QED
  BY <1>1, <1>4, <1>5, <1>6 DEF found

(* The tools start from what the workspace has.                            *)
LEMMA InitProperties == PropertiesInit => PropertiesInv
<1> SUFFICES ASSUME PropertiesInit PROVE PropertiesInv
  OBVIOUS
<1>1. /\ vDoc = [defs |-> StartDefs, values |-> StartValues]
      /\ vPhase = [c \in PropertyCalls |-> "idle"]
  BY DEF PropertiesInit, VU!UpdatesInit
<1>2. DefsFit(StartDefs)
  BY PropertiesAssumption DEF DefsFit, DefinitionsOf
<1>3. ValuesFit(StartValues, DOMAIN StartDefs)
  BY PropertiesAssumption DEF ValuesFit
<1>4. DatabaseFits(vDoc)
  BY <1>1, <1>2, <1>3 DEF DatabaseFits
<1> QED
  BY <1>1, <1>4 DEF PropertiesInv, UpdatesFit, RequestsKept, OneCallAtATime, MergedInOrder

(* A handler that pushes, or throws.                                       *)
LEMMA HandledKeeps ==
  ASSUME PropertiesInv, NEW c \in PropertyCalls, NEW results, NEW asked,
         VU!Handled(c, results, asked),
         \A made \in results : UpdateFits(vDoc, made) /\ \A q \in asked : RequestKept(vDoc, made, c, q)
  PROVE  PropertiesInv'
<1>1. /\ vPhase \in [PropertyCalls -> {"idle", "sent", "merged", "refused", "lost", "late"}]
      /\ DatabaseFits(vDoc) /\ UpdatesFit /\ RequestsKept /\ OneCallAtATime /\ MergedInOrder
  BY DEF PropertiesInv
<1>2. /\ vPhase[c] = "idle" /\ \A d \in PropertyCalls : vPhase[d] # "sent"
      /\ UNCHANGED <<vDoc, vStale>>
  BY DEF VU!Handled
<1>3. CASE vPhase' = [vPhase EXCEPT ![c] = "refused"] /\ UNCHANGED vUpdate
  <2>1. \A d \in PropertyCalls : vPhase'[d] = IF d = c THEN "refused" ELSE vPhase[d]
    BY <1>1, <1>3
  <2> QED
    BY <1>1, <1>2, <1>3, <2>1 DEF PropertiesInv, UpdatesFit, RequestsKept, OneCallAtATime, MergedInOrder
<1>4. ASSUME NEW made \in results,
             vPhase' = [vPhase EXCEPT ![c] = "sent"],
             vUpdate' = [o \in PropertyCalls |->
               IF o = c THEN [base |-> vDoc, made |-> made, asked |-> asked]
               ELSE IF vPhase[o] = "lost" THEN vUpdate[o] ELSE VU!Nothing]
      PROVE  PropertiesInv'
  <2>1. \A d \in PropertyCalls : vPhase'[d] = IF d = c THEN "sent" ELSE vPhase[d]
    BY <1>1, <1>4
  <2>2. /\ vUpdate'[c].base = vDoc /\ vUpdate'[c].made = made /\ vUpdate'[c].asked = asked
        /\ \A d \in PropertyCalls \ {c} :
             /\ vPhase[d] = "lost" => vUpdate'[d] = vUpdate[d]
             /\ vPhase[d] # "lost" => vUpdate'[d].asked = {}
    BY <1>4 DEF VU!Nothing
  <2>3. UpdatesFit'
    <3> SUFFICES ASSUME NEW d \in PropertyCalls, vPhase'[d] \in {"sent", "lost"}
                 PROVE  /\ UpdateFits(vUpdate'[d].base, vUpdate'[d].made)
                        /\ DOMAIN vUpdate'[d].base.defs \subseteq DOMAIN vDoc'.defs
      BY DEF UpdatesFit
    <3>1. CASE d = c
      BY <1>2, <1>4, <2>2, <3>1
    <3>2. CASE d # c
      BY <1>1, <1>2, <2>1, <2>2, <3>2 DEF UpdatesFit
    <3> QED
      BY <3>1, <3>2
  <2>4. RequestsKept'
    <3> SUFFICES ASSUME NEW d \in PropertyCalls, vPhase'[d] \in {"sent", "merged"},
                        NEW q \in vUpdate'[d].asked
                 PROVE  RequestKept(vUpdate'[d].base, vUpdate'[d].made, d, q)
      BY DEF RequestsKept
    <3>1. d = c
      BY <2>1, <2>2
    <3> QED
      BY <1>4, <2>2, <3>1
  <2>5. OneCallAtATime' /\ MergedInOrder'
    BY <1>2, <2>1, <2>2 DEF OneCallAtATime, MergedInOrder
  <2> QED
    BY <1>1, <1>2, <1>4, <2>3, <2>4, <2>5 DEF PropertiesInv
<1> QED
  BY <1>3, <1>4 DEF VU!Handled

(* A handler that finds nothing to do.                                     *)
LEMMA AnsweredKeeps ==
  ASSUME PropertiesInv, NEW c \in PropertyCalls, NEW asked,
         VU!Answered(c, asked), \A q \in asked : RequestKept(vDoc, vDoc, c, q)
  PROVE  PropertiesInv'
<1>1. /\ vPhase \in [PropertyCalls -> {"idle", "sent", "merged", "refused", "lost", "late"}]
      /\ DatabaseFits(vDoc) /\ UpdatesFit /\ RequestsKept /\ OneCallAtATime /\ MergedInOrder
  BY DEF PropertiesInv
<1>2. /\ vPhase[c] = "idle" /\ \A d \in PropertyCalls : vPhase[d] # "sent"
      /\ vPhase' = [vPhase EXCEPT ![c] = "merged"]
      /\ vUpdate' = [o \in PropertyCalls |->
            IF o = c THEN [base |-> vDoc, made |-> vDoc, asked |-> asked]
            ELSE IF vPhase[o] = "lost" THEN vUpdate[o] ELSE VU!Nothing]
      /\ UNCHANGED <<vDoc, vStale>>
  BY DEF VU!Answered
<1>3. \A d \in PropertyCalls : vPhase'[d] = IF d = c THEN "merged" ELSE vPhase[d]
  BY <1>1, <1>2
<1>4. /\ vUpdate'[c].base = vDoc /\ vUpdate'[c].made = vDoc /\ vUpdate'[c].asked = asked
      /\ \A d \in PropertyCalls \ {c} :
           /\ vPhase[d] = "lost" => vUpdate'[d] = vUpdate[d]
           /\ vPhase[d] # "lost" => vUpdate'[d].asked = {}
  BY <1>2 DEF VU!Nothing
<1>5. UpdatesFit'
  BY <1>1, <1>2, <1>3, <1>4 DEF UpdatesFit
<1>6. RequestsKept'
  BY <1>3, <1>4 DEF RequestsKept
<1>7. OneCallAtATime' /\ MergedInOrder'
  BY <1>2, <1>3, <1>4 DEF OneCallAtATime, MergedInOrder
<1> QED
  BY <1>1, <1>2, <1>5, <1>6, <1>7 DEF PropertiesInv

(* An update is merged, in time or late, or its acknowledgement is lost.   *)
LEMMA MergeUpdateKeeps ==
  ASSUME PropertiesInv, NEW c \in PropertyCalls, VU!MergeUpdate(c) \/ VU!LoseAck(c)
  PROVE  PropertiesInv'
<1>1. /\ vPhase \in [PropertyCalls -> {"idle", "sent", "merged", "refused", "lost", "late"}]
      /\ DatabaseFits(vDoc) /\ UpdatesFit /\ RequestsKept /\ OneCallAtATime /\ MergedInOrder
  BY DEF PropertiesInv
<1>2. CASE VU!LoseAck(c)
  <2>1. /\ vPhase[c] = "sent" /\ UNCHANGED <<vDoc, vUpdate>>
        /\ vPhase' = [vPhase EXCEPT ![c] = "lost"]
    BY <1>2 DEF VU!LoseAck
  <2>2. \A d \in PropertyCalls : vPhase'[d] = IF d = c THEN "lost" ELSE vPhase[d]
    BY <1>1, <2>1
  <2> QED
    BY <1>1, <2>1, <2>2 DEF PropertiesInv, UpdatesFit, RequestsKept, OneCallAtATime, MergedInOrder
<1>3. CASE VU!MergeUpdate(c)
  <2> DEFINE base == vUpdate[c].base
             made == vUpdate[c].made
  <2>1. /\ vPhase[c] \in {"sent", "lost"} /\ UNCHANGED vUpdate
        /\ vPhase' = [vPhase EXCEPT ![c] = IF vPhase[c] = "sent" THEN "merged" ELSE "late"]
        /\ vDoc' = PropertiesMerge(vDoc, base, made)
    BY <1>3 DEF VU!MergeUpdate
  <2>2. \A d \in PropertyCalls : vPhase'[d] = IF d # c THEN vPhase[d]
                                              ELSE IF vPhase[c] = "sent" THEN "merged" ELSE "late"
    BY <1>1, <2>1
  <2>3. UpdateFits(base, made) /\ DOMAIN base.defs \subseteq DOMAIN vDoc.defs
    BY <1>1, <2>1 DEF UpdatesFit
  <2>4. DatabaseFits(vDoc') /\ DOMAIN vDoc.defs \subseteq DOMAIN vDoc'.defs
    BY <1>1, <2>1, <2>3, MergeFits
  <2>5. vDoc = base => vDoc' = made
    <3>1. PropertiesMerge(base, base, made) = made
      BY <2>3, MergesInPlace
    <3> QED
      BY <2>1, <3>1
  <2>6. UpdatesFit' /\ RequestsKept' /\ OneCallAtATime'
    BY <1>1, <2>1, <2>2, <2>4 DEF UpdatesFit, RequestsKept, OneCallAtATime
  <2>7. MergedInOrder'
    <3> SUFFICES ASSUME \A d \in PropertyCalls : vPhase'[d] # "late", NEW d \in PropertyCalls
                 PROVE  /\ vPhase'[d] = "sent" => vDoc' = vUpdate'[d].base
                        /\ vPhase'[d] = "merged" /\ vUpdate'[d].asked # {} => vDoc' = vUpdate'[d].made
      BY DEF MergedInOrder
    <3>1. vPhase[c] = "sent" /\ \A o \in PropertyCalls : vPhase[o] # "late"
      BY <2>1, <2>2
    <3>2. vDoc' = made
      BY <1>1, <2>5, <3>1 DEF MergedInOrder
    <3> QED
      BY <1>1, <2>1, <2>2, <3>1, <3>2 DEF OneCallAtATime
  <2> QED
    BY <1>1, <2>1, <2>4, <2>6, <2>7 DEF PropertiesInv
<1> QED
  BY <1>2, <1>3

(* What the tools make of a database that fits. *)
LEMMA DefinedFits ==
  ASSUME NEW d, DatabaseFits(d), NEW p \in DOMAIN StartDefs \cup PropertyCalls,
         NEW definition \in DefinitionsOf(p)
  PROVE  /\ UpdateFits(d, Defined(d, p, definition))
         /\ Defined(d, p, definition).values = d.values
         /\ DOMAIN Defined(d, p, definition).defs = DOMAIN d.defs \cup {p}
         /\ Defined(d, p, definition).defs[p] = definition
         /\ \A q \in DOMAIN d.defs \ {p} : Defined(d, p, definition).defs[q] = d.defs[q]
<1> DEFINE defs == MapSet(d.defs, p, definition)
<1>1. Defined(d, p, definition) = [defs |-> defs, values |-> d.values]
  BY DEF Defined
<1>2. /\ DOMAIN defs = DOMAIN d.defs \cup {p} /\ defs = [q \in DOMAIN defs |-> defs[q]]
      /\ defs[p] = definition /\ \A q \in DOMAIN d.defs \ {p} : defs[q] = d.defs[q]
  BY DEF MapSet
<1> HIDE DEF defs
<1>3. DefsFit(defs)
  BY <1>2 DEF DatabaseFits, DefsFit
<1> QED
  BY <1>1, <1>2, <1>3 DEF UpdateFits, DatabaseFits

(* A value under a definition the tools can edit. *)
LEMMA ValuedFits ==
  ASSUME NEW d, DatabaseFits(d), NEW page, NEW p \in DOMAIN d.defs, Editable(p), NEW by
  PROVE  LET made == Valued(d, <<page, p>>, by) IN
         /\ UpdateFits(d, made) /\ made.defs = d.defs
         /\ DOMAIN made.values = DOMAIN d.values \cup {<<page, p>>}
         /\ made.values[<<page, p>>] = by
         /\ \A k \in DOMAIN d.values \ {<<page, p>>} : made.values[k] = d.values[k]
<1> DEFINE key == <<page, p>>
           values == MapSet(d.values, key, by)
<1>1. Valued(d, key, by) = [defs |-> d.defs, values |-> values]
  BY DEF Valued
<1>2. key[1] = page /\ key[2] = p /\ key = <<key[1], key[2]>>
  OBVIOUS
<1> HIDE DEF key
<1>3. /\ DOMAIN values = DOMAIN d.values \cup {key} /\ values = [k \in DOMAIN values |-> values[k]]
      /\ values[key] = by /\ \A k \in DOMAIN d.values \ {key} : values[k] = d.values[k]
  BY DEF MapSet
<1> HIDE DEF values
<1>4. ValuesFit(values, DOMAIN d.defs)
  <2> SUFFICES ASSUME NEW k \in DOMAIN values
               PROVE  k = <<k[1], k[2]>> /\ (k \in DOMAIN StartValues \/ (k[2] \in DOMAIN d.defs /\ Editable(k[2])))
    BY <1>3 DEF ValuesFit
  <2> QED
    BY <1>2, <1>3 DEF DatabaseFits, ValuesFit
<1>5. UpdateFits(d, [defs |-> d.defs, values |-> values])
  BY <1>4 DEF UpdateFits, DatabaseFits
<1> QED
  BY <1>1, <1>3, <1>5 DEF key

(* A value taken away. *)
LEMMA ClearedFits ==
  ASSUME NEW d, DatabaseFits(d), NEW key
  PROVE  LET made == Cleared(d, key) IN
         /\ UpdateFits(d, made) /\ made.defs = d.defs
         /\ DOMAIN made.values = DOMAIN d.values \ {key}
         /\ \A k \in DOMAIN d.values \ {key} : made.values[k] = d.values[k]
<1> DEFINE values == MapDelete(d.values, key)
<1>1. Cleared(d, key) = [defs |-> d.defs, values |-> values]
  BY DEF Cleared
<1>2. /\ DOMAIN values = DOMAIN d.values \ {key} /\ values = [k \in DOMAIN values |-> values[k]]
      /\ \A k \in DOMAIN d.values \ {key} : values[k] = d.values[k]
  BY DEF MapDelete
<1> HIDE DEF values
<1>3. ValuesFit(values, DOMAIN d.defs)
  BY <1>2 DEF DatabaseFits, ValuesFit
<1>4. UpdateFits(d, [defs |-> d.defs, values |-> values])
  BY <1>3 DEF UpdateFits, DatabaseFits
<1> QED
  BY <1>1, <1>2, <1>4

(* create_custom_property *)
LEMMA CreatePropertyKeeps ==
  ASSUME PropertiesInv, NEW c \in PropertyCalls, createCustomProperty(c)
  PROVE  PropertiesInv'
<1>1. PICK name \in PropertyNames, type \in {"text", "number"} :
        VU!Handled(c, {Defined(vDoc, c, Definition(name, type))},
                   PropertyRequest("create", UnlistedPage, c))
  BY DEF createCustomProperty
<1> DEFINE made == Defined(vDoc, c, Definition(name, type))
<1>2. Definition(name, type) \in DefinitionsOf(c) /\ ~Definition(name, type).isDeleted
  BY PropertiesAssumption DEF Definition, DefinitionsOf, SUPPORTED_TYPES
<1>3. /\ UpdateFits(vDoc, made) /\ made.values = vDoc.values
      /\ DOMAIN made.defs = DOMAIN vDoc.defs \cup {c}
      /\ made.defs[c] = Definition(name, type)
      /\ \A q \in DOMAIN vDoc.defs \ {c} : made.defs[q] = vDoc.defs[q]
  BY <1>2, DefinedFits DEF PropertiesInv
<1> HIDE DEF made
<1>4. LiveProperties(vDoc) \subseteq LiveProperties(made)
  BY <1>2, <1>3 DEF LiveProperties
<1>5. \A q \in PropertyRequest("create", UnlistedPage, c) : RequestKept(vDoc, made, c, q)
  BY <1>3, <1>4 DEF PropertyRequest, RequestKept, orphanValues
<1>6. VU!Handled(c, {made}, PropertyRequest("create", UnlistedPage, c))
  BY <1>1 DEF made
<1> QED
  BY <1>3, <1>5, <1>6, HandledKeeps

(* delete_custom_property *)
LEMMA DeletePropertyKeeps ==
  ASSUME PropertiesInv, NEW c \in PropertyCalls, deleteCustomProperty(c)
  PROVE  PropertiesInv'
<1>1. PICK property \in Named :
        LET found == resolveDefinition(vDoc, property)
        IN  VU!Handled(c, {Defined(vDoc, p, [vDoc.defs[p] EXCEPT !.isDeleted = TRUE]) :
                             p \in IF Cardinality(found) = 1 THEN found ELSE {}},
                       PropertyRequest("delete", UnlistedPage, property))
  BY DEF deleteCustomProperty
<1> DEFINE found == resolveDefinition(vDoc, property)
           results == {Defined(vDoc, p, [vDoc.defs[p] EXCEPT !.isDeleted = TRUE]) :
                         p \in IF Cardinality(found) = 1 THEN found ELSE {}}
           asked == PropertyRequest("delete", UnlistedPage, property)
<1>2. DatabaseFits(vDoc)
  BY DEF PropertiesInv
<1>3. ASSUME NEW made \in results
      PROVE  UpdateFits(vDoc, made) /\ \A q \in asked : RequestKept(vDoc, made, c, q)
  <2>1. Cardinality(found) = 1
    OBVIOUS
  <2>2. PICK p \in LiveProperties(vDoc) : found = {p} /\ \A q : Means(vDoc, property, q) <=> q = p
    BY <1>2, <2>1, ResolvesToOne
  <2> DEFINE definition == [vDoc.defs[p] EXCEPT !.isDeleted = TRUE]
  <2>3. made = Defined(vDoc, p, definition)
    BY <2>1, <2>2
  <2>4. p \in DOMAIN StartDefs \cup PropertyCalls /\ vDoc.defs[p] \in DefinitionsOf(p)
    BY <1>2, <2>2 DEF DatabaseFits, DefsFit, LiveProperties
  <2>5. definition \in DefinitionsOf(p) /\ definition.isDeleted
    BY <2>4 DEF DefinitionsOf
  <2> HIDE DEF definition, found, results
  <2>6. /\ UpdateFits(vDoc, made) /\ made.values = vDoc.values
        /\ DOMAIN made.defs = DOMAIN vDoc.defs \cup {p} /\ made.defs[p] = definition
        /\ \A q \in DOMAIN vDoc.defs \ {p} : made.defs[q] = vDoc.defs[q]
    BY <1>2, <2>3, <2>4, <2>5, DefinedFits
  <2>7. LiveProperties(made) = LiveProperties(vDoc) \ {p}
    BY <2>2, <2>5, <2>6 DEF LiveProperties
  <2>8. \A q \in asked : q.op = "delete" /\ q.property = property
    BY DEF PropertyRequest
  <2>9. \A q \in asked : RequestKept(vDoc, made, c, q)
    BY <2>2, <2>6, <2>7, <2>8 DEF RequestKept
  <2> QED
    BY <2>6, <2>9
<1> QED
  BY <1>1, <1>3, HandledKeeps

(* set_doc_property *)
LEMMA SetPropertyKeeps ==
  ASSUME PropertiesInv, NEW c \in PropertyCalls, setDocProperty(c)
  PROVE  PropertiesInv'
<1>1. PICK page \in ListedPages \cup {UnlistedPage}, property \in Named :
        LET found == resolveDefinition(vDoc, property)
            ok == /\ page \in ListedPages
                  /\ Cardinality(found) = 1
                  /\ \A p \in found : vDoc.defs[p].type \in SUPPORTED_TYPES
        IN  VU!Handled(c, {Valued(vDoc, <<page, p>>, c) : p \in IF ok THEN found ELSE {}},
                       PropertyRequest("set", page, property))
  BY DEF setDocProperty
<1> DEFINE found == resolveDefinition(vDoc, property)
           ok == /\ page \in ListedPages
                 /\ Cardinality(found) = 1
                 /\ \A p \in found : vDoc.defs[p].type \in SUPPORTED_TYPES
           results == {Valued(vDoc, <<page, p>>, c) : p \in IF ok THEN found ELSE {}}
           asked == PropertyRequest("set", page, property)
<1>2. DatabaseFits(vDoc)
  BY DEF PropertiesInv
<1>3. ASSUME NEW made \in results
      PROVE  UpdateFits(vDoc, made) /\ \A q \in asked : RequestKept(vDoc, made, c, q)
  <2>1. ok
    OBVIOUS
  <2>2. PICK p \in LiveProperties(vDoc) : found = {p} /\ \A q : Means(vDoc, property, q) <=> q = p
    BY <1>2, <2>1, ResolvesToOne
  <2>3. made = Valued(vDoc, <<page, p>>, c) /\ vDoc.defs[p].type \in SUPPORTED_TYPES
    BY <2>1, <2>2
  <2>4. p \in DOMAIN vDoc.defs /\ Editable(p)
    BY <1>2, <2>2, <2>3 DEF DatabaseFits, DefsFit, DefinitionsOf, LiveProperties, Editable
  <2> HIDE DEF found, results, ok
  <2>5. /\ UpdateFits(vDoc, made) /\ made.defs = vDoc.defs
        /\ DOMAIN made.values = DOMAIN vDoc.values \cup {<<page, p>>}
        /\ made.values[<<page, p>>] = c
        /\ \A k \in DOMAIN vDoc.values \ {<<page, p>>} : made.values[k] = vDoc.values[k]
    BY <1>2, <2>3, <2>4, ValuedFits
  <2>6. LiveProperties(made) = LiveProperties(vDoc)
    BY <2>5 DEF LiveProperties
  <2>7. \A q \in asked : q.op = "set" /\ q.property = property /\ q.page = page
    BY DEF PropertyRequest
  <2>8. <<page, p>>[1] = page /\ <<page, p>>[2] = p
    OBVIOUS
  <2>9. \A q \in asked : Meant(vDoc, q, <<page, p>>)
    BY <2>2, <2>7, <2>8 DEF Meant
  <2>10. orphanValues(made) \subseteq orphanValues(vDoc)
    BY <2>2, <2>5, <2>6, <2>8 DEF orphanValues
  <2>11. \A q \in asked : RequestKept(vDoc, made, c, q)
    BY <2>2, <2>5, <2>6, <2>7, <2>9, <2>10 DEF RequestKept
  <2> QED
    BY <2>5, <2>11
<1> QED
  BY <1>1, <1>3, HandledKeeps

(* clear_doc_property *)
LEMMA ClearPropertyKeeps ==
  ASSUME PropertiesInv, NEW c \in PropertyCalls, clearDocProperty(c)
  PROVE  PropertiesInv'
<1>1. PICK page \in ListedPages \cup {UnlistedPage}, property \in Named :
        LET found == resolveDefinition(vDoc, property)
            meant == IF found = {} THEN {property} ELSE found
            there == {p \in meant : <<page, p>> \in DOMAIN vDoc.values}
            asked == PropertyRequest("clear", page, property)
        IN  IF Cardinality(found) <= 1 /\ there = {}
            THEN VU!Answered(c, asked)
            ELSE VU!Handled(c, {Cleared(vDoc, <<page, p>>) :
                                  p \in IF Cardinality(found) <= 1 THEN there ELSE {}}, asked)
  BY DEF clearDocProperty
<1> DEFINE found == resolveDefinition(vDoc, property)
           meant == IF found = {} THEN {property} ELSE found
           there == {p \in meant : <<page, p>> \in DOMAIN vDoc.values}
           asked == PropertyRequest("clear", page, property)
           results == {Cleared(vDoc, <<page, p>>) : p \in IF Cardinality(found) <= 1 THEN there ELSE {}}
<1>2. DatabaseFits(vDoc)
  BY DEF PropertiesInv
<1>3. \A q \in asked : q.op = "clear" /\ q.property = property /\ q.page = page
  BY DEF PropertyRequest
<1>4. ASSUME Cardinality(found) <= 1
      PROVE  \E p : /\ meant = {p}
                    /\ \A q \in asked : \A k \in DOMAIN vDoc.values :
                         Meant(vDoc, q, k) <=> k = <<page, p>>
  <2>1. \A k \in DOMAIN vDoc.values : k = <<k[1], k[2]>>
    BY <1>2 DEF DatabaseFits, ValuesFit
  <2>2. \A p : <<page, p>>[1] = page /\ <<page, p>>[2] = p
    OBVIOUS
  <2>3. CASE found = {}
    <3>1. \A q \in LiveProperties(vDoc) : ~Means(vDoc, property, q)
      BY <2>3, Resolution
    <3>2. \A q : ~Means(vDoc, property, q)
      BY <3>1 DEF Means
    <3>3. \A q \in asked : \A k \in DOMAIN vDoc.values : Meant(vDoc, q, k) <=> k = <<page, property>>
      BY <1>3, <2>1, <2>2, <3>2 DEF Meant
    <3> QED
      BY <2>3, <3>3
  <2>4. CASE found # {}
    <3>1. PICK p \in LiveProperties(vDoc) : found = {p} /\ \A q : Means(vDoc, property, q) <=> q = p
      BY <1>2, <1>4, <2>4, ResolvesToOne
    <3>2. \A q \in asked : \A k \in DOMAIN vDoc.values : Meant(vDoc, q, k) <=> k = <<page, p>>
      BY <1>3, <2>1, <2>2, <3>1 DEF Meant
    <3> QED
      BY <2>4, <3>1, <3>2
  <2> QED
    BY <2>3, <2>4
<1>5. CASE Cardinality(found) <= 1 /\ there = {}
  <2>1. VU!Answered(c, asked)
    BY <1>1, <1>5
  <2>2. \A q \in asked : \A k \in DOMAIN vDoc.values : ~Meant(vDoc, q, k)
    BY <1>4, <1>5
  <2>3. \A q \in asked : RequestKept(vDoc, vDoc, c, q)
    BY <1>3, <2>2 DEF RequestKept
  <2> QED
    BY <2>1, <2>3, AnsweredKeeps
<1>6. CASE ~(Cardinality(found) <= 1 /\ there = {})
  <2>1. VU!Handled(c, results, asked)
    BY <1>1, <1>6
  <2>2. ASSUME NEW made \in results
        PROVE  UpdateFits(vDoc, made) /\ \A q \in asked : RequestKept(vDoc, made, c, q)
    <3>1. PICK p \in there : Cardinality(found) <= 1 /\ made = Cleared(vDoc, <<page, p>>)
      OBVIOUS
    <3>2. \A q \in asked : \A k \in DOMAIN vDoc.values : Meant(vDoc, q, k) <=> k = <<page, p>>
      BY <1>4, <3>1
    <3> HIDE DEF found, results, there, meant
    <3>3. /\ UpdateFits(vDoc, made) /\ made.defs = vDoc.defs
          /\ DOMAIN made.values = DOMAIN vDoc.values \ {<<page, p>>}
          /\ \A k \in DOMAIN vDoc.values \ {<<page, p>>} : made.values[k] = vDoc.values[k]
      BY <1>2, <3>1, ClearedFits
    <3>4. orphanValues(made) \subseteq orphanValues(vDoc)
      BY <3>3 DEF orphanValues, LiveProperties
    <3>5. \A q \in asked : RequestKept(vDoc, made, c, q)
      BY <1>3, <3>2, <3>3, <3>4 DEF RequestKept
    <3> QED
      BY <3>3, <3>5
  <2> QED
    BY <2>1, <2>2, HandledKeeps
<1> QED
  BY <1>5, <1>6

(* Every step keeps the invariant. *)
LEMMA PropertiesNextKeeps == PropertiesInv /\ [PropertiesNext]_propertyVars => PropertiesInv'
<1> SUFFICES ASSUME PropertiesInv, [PropertiesNext]_propertyVars PROVE PropertiesInv'
  OBVIOUS
<1>1. CASE UNCHANGED propertyVars
  BY <1>1 DEF propertyVars, PropertiesInv, UpdatesFit, RequestsKept, OneCallAtATime, MergedInOrder
<1>2. CASE PropertiesNext
  <2>1. CASE VU!UpdatesDone
    BY <1>1, <2>1 DEF VU!UpdatesDone, propertyVars
  <2> QED
    BY <1>2, <2>1, CreatePropertyKeeps, DeletePropertyKeeps, SetPropertyKeeps, ClearPropertyKeeps,
      MergeUpdateKeeps DEF PropertiesNext
<1> QED
  BY <1>1, <1>2

(* What holds of properties throughout: a definition is never taken away   *)
(* nor its type changed, a value is under a definition, and what a call    *)
(* sent does what was asked and, while nothing comes late, is what is      *)
(* there.                                                                  *)
THEOREM PropertiesSafety == PropertiesSpec => []PropertiesInv
<1> QED
  BY InitProperties, PropertiesNextKeeps, PTL DEF PropertiesSpec

(* Every value has had a definition of a type the tools can edit, or was   *)
(* there at first; and while updates are merged in order each property     *)
(* tool does what it was asked to the property named, and to no other.     *)
THEOREM PropertiesAreKept == PropertiesSpec => []PropertyValuesAreKept
<1>1. PropertiesInv => PropertyValuesAreKept
  <2> SUFFICES ASSUME PropertiesInv PROVE PropertyValuesAreKept
    OBVIOUS
  <2>1. /\ DatabaseFits(vDoc) /\ RequestsKept /\ MergedInOrder
    BY DEF PropertiesInv
  <2>2. ASSUME NEW k \in DOMAIN vDoc.values \ DOMAIN StartValues
        PROVE  k[2] \in DOMAIN vDoc.defs /\ vDoc.defs[k[2]].type \in SUPPORTED_TYPES
    <3>1. k[2] \in DOMAIN vDoc.defs /\ Editable(k[2]) /\ vDoc.defs[k[2]] \in DefinitionsOf(k[2])
      BY <2>1 DEF DatabaseFits, ValuesFit, DefsFit
    <3> QED
      BY <3>1 DEF Editable, DefinitionsOf
  <2>3. ASSUME \A c \in PropertyCalls : vPhase[c] # "late",
               NEW c \in PropertyCalls, vPhase[c] = "merged", NEW q \in vUpdate[c].asked
        PROVE  RequestKept(vUpdate[c].base, vDoc, c, q)
    BY <2>1, <2>3 DEF RequestsKept, MergedInOrder
  <2> QED
    BY <2>2, <2>3 DEF PropertyValuesAreKept
<1> QED
  BY <1>1, PropertiesSafety, PTL

-----------------------------------------------------------------------------
(* Some number of a set is its least.                                      *)
LEMMA LeastNumber ==
  ASSUME NEW S \in SUBSET Nat, S # {}
  PROVE  \E x \in S : \A y \in S : x <= y
<1>1. PICK x \in S : \A y \in S : ~ (<<y, x>> \in OpToRel(<, Nat))
  BY WFMin, NatLessThanWellFounded
<1>2. \A y \in S : ~ (y < x)
  BY <1>1, Zenon DEF OpToRel
<1> QED
  BY <1>2

(* The way up is climbed one step at a time. *)
LEMMA ClimbingStepByStep ==
  ASSUME NEW d, NEW n, Cardinality(DOMAIN d) \in Nat
  PROVE  /\ Climbed(d, n)[0] = {Parent(d, n)}
         /\ \A i \in 1..Cardinality(DOMAIN d) + 1 :
              Climbed(d, n)[i] = Upward(d, Climbed(d, n)[i - 1])
<1> DEFINE top == Cardinality(DOMAIN d) + 1
           Climbs(g, m) == g = [i \in 0..m |-> IF i = 0 THEN {Parent(d, n)} ELSE Upward(d, g[i - 1])]
           unclimbed == {m \in 0..top : ~ \E g : Climbs(g, m)}
<1>1. top \in Nat
  OBVIOUS
<1>2. unclimbed = {}
  <2>1. SUFFICES ASSUME unclimbed # {} PROVE FALSE
    OBVIOUS
  <2>0. unclimbed \in SUBSET Nat
    BY <1>1
  <2>2. PICK m \in unclimbed : \A k \in unclimbed : m <= k
    <3> HIDE DEF unclimbed
    <3> QED
      BY <2>0, <2>1, LeastNumber
  <2>3. m # 0
    <3>1. [i \in 0..0 |-> {Parent(d, n)}] = [i \in 0..0 |-> IF i = 0 THEN {Parent(d, n)} ELSE Upward(d, [j \in 0..0 |-> {Parent(d, n)}][i - 1])]
      OBVIOUS
    <3> QED
      BY <3>1
  <2>4. m - 1 \in 0..top /\ m - 1 \notin unclimbed
    <3>1. m \in 0..top /\ m - 1 < m
      BY <1>1
    <3>2. m - 1 \notin unclimbed
      <4> HIDE DEF unclimbed
      <4> QED
        BY <1>1, <2>2, <3>1
    <3> QED
      BY <1>1, <2>3, <3>1, <3>2
  <2>5. PICK g : Climbs(g, m - 1)
    BY <2>4
  <2> DEFINE h == [i \in 0..m |-> IF i = m THEN Upward(d, g[m - 1]) ELSE g[i]]
  <2>6. ASSUME NEW i \in 0..m PROVE h[i] = IF i = 0 THEN {Parent(d, n)} ELSE Upward(d, h[i - 1])
    <3>1. CASE i = m
      BY <1>1, <2>3, <3>1
    <3>2. CASE i # m
      <4>1. i \in 0..(m - 1)
        BY <1>1, <3>2
      <4>2. h[i] = g[i] /\ g[i] = IF i = 0 THEN {Parent(d, n)} ELSE Upward(d, g[i - 1])
        BY <2>5, <3>2, <4>1
      <4>3. i # 0 => h[i - 1] = g[i - 1]
        BY <1>1, <4>1
      <4> QED
        BY <4>2, <4>3
    <3> QED
      BY <3>1, <3>2
  <2>7. Climbs(h, m)
    <3> HIDE DEF h
    <3>1. h = [i \in 0..m |-> h[i]]
      BY DEF h
    <3> QED
      BY <2>6, <3>1
  <2> QED
    BY <2>7
<1>3. \E g : Climbs(g, top)
  <2>1. top \in 0..top
    BY <1>1
  <2>2. \A m \in 0..top : \E g : Climbs(g, m)
    <3> HIDE DEF top, Climbs
    <3> QED
      BY <1>2
  <2> HIDE DEF top, Climbs
  <2> QED
    BY <2>1, <2>2
<1>4. Climbed(d, n) = CHOOSE g : Climbs(g, top)
  BY DEF Climbed
<1>5. Climbs(Climbed(d, n), top)
  BY <1>3, <1>4
<1> HIDE DEF top
<1>6. \A i \in 0..top : Climbed(d, n)[i] = IF i = 0 THEN {Parent(d, n)} ELSE Upward(d, Climbed(d, n)[i - 1])
  BY <1>5
<1> QED
  BY <1>1, <1>6 DEF top

(* A set of nodes that holds the parents of those in it. *)
Closed(d, S) == \A x \in S \cap Nodes(d) : Parent(d, x) \in S

(* Parents are in the document or in the root section.                     *)
Parented(d) ==
  /\ IsFiniteSet(DOMAIN d) /\ NoNode \notin DOMAIN d
  /\ \A n \in Nodes(d) : Parent(d, n) \in DOMAIN d \cup {NoNode}

(* What is met on the way up is in every closed set that has the parent.   *)
LEMMA ClimbsNoHigher ==
  ASSUME NEW d, Parented(d), NEW n, NEW S, Closed(d, S), Parent(d, n) \in S
  PROVE  Ancestors(d, n) \subseteq S
<1> DEFINE top == Cardinality(DOMAIN d) + 1
           above == {i \in 0..top : ~ Climbed(d, n)[i] \subseteq S}
<1>1. top \in Nat /\ Cardinality(DOMAIN d) \in Nat
  BY FS_CardinalityType DEF Parented
<1>2. above = {}
  <2>1. SUFFICES ASSUME above # {} PROVE FALSE
    OBVIOUS
  <2>2. above \in SUBSET Nat
    BY <1>1
  <2>3. PICK i \in above : \A k \in above : i <= k
    <3> HIDE DEF above
    <3> QED
      BY <2>1, <2>2, LeastNumber
  <2>4. i \in 0..top /\ i # 0 /\ ~ Climbed(d, n)[i] \subseteq S
    BY <1>1, ClimbingStepByStep
  <2>5. i - 1 \in 0..top /\ i - 1 \notin above
    <3>1. i - 1 < i /\ i - 1 \in 0..top
      BY <1>1, <2>4
    <3> HIDE DEF above
    <3> QED
      BY <1>1, <2>3, <2>4, <3>1
  <2>6. Climbed(d, n)[i - 1] \subseteq S
    BY <2>5
  <2>7. Climbed(d, n)[i] = Upward(d, Climbed(d, n)[i - 1])
    BY <1>1, <2>4, ClimbingStepByStep
  <2> QED
    BY <2>4, <2>6, <2>7 DEF Upward, Closed
<1>3. top \in 0..top /\ top \notin above
  <2>1. top \in 0..top
    BY <1>1
  <2> QED
    BY <1>2, <2>1
<1>4. Climbed(d, n)[top] \subseteq S
  BY <1>3
<1> QED
  BY <1>4 DEF Ancestors

(* The climb goes on until nothing is above: it takes a step for every     *)
(* node at most.                                                           *)
LEMMA ClimbsToTheTop ==
  ASSUME NEW d, Parented(d), NEW n \in Nodes(d)
  PROVE  /\ Parent(d, n) \in Ancestors(d, n) \cup {NoNode}
         /\ Closed(d, Ancestors(d, n) \cup {NoNode})
<1> DEFINE top == Cardinality(DOMAIN d) + 1
           at == [i \in 0..top |-> Climbed(d, n)[i]]
           Slow(i) == Closed(d, at[i]) \/ Cardinality(at[i]) >= i + 1
           places == DOMAIN d \cup {NoNode}
<1>1. top \in Nat /\ Cardinality(DOMAIN d) \in Nat
  BY FS_CardinalityType DEF Parented
<1>2. /\ at[0] = {Parent(d, n)}
      /\ \A i \in 1..top : i - 1 \in 0..top /\ at[i] = Upward(d, at[i - 1])
  <2>1. \A i \in 1..top : i \in 0..top /\ i - 1 \in 0..top
    BY <1>1
  <2>2. 0 \in 0..top
    BY <1>1
  <2>3. /\ Climbed(d, n)[0] = {Parent(d, n)}
        /\ \A i \in 1..top : Climbed(d, n)[i] = Upward(d, Climbed(d, n)[i - 1])
    BY <1>1, ClimbingStepByStep
  <2> QED
    BY <2>1, <2>2, <2>3
<1>3. IsFiniteSet(places) /\ Cardinality(places) = top
  BY FS_AddElement DEF Parented
<1> DEFINE bad == {i \in 0..top : ~ (/\ at[i] \subseteq places /\ Parent(d, n) \in at[i]
                                   /\ Slow(i))}
<1>4. bad = {}
  <2>1. SUFFICES ASSUME bad # {} PROVE FALSE
    OBVIOUS
  <2>2. bad \in SUBSET Nat
    BY <1>1
  <2>3. PICK i \in bad : \A k \in bad : i <= k
    <3> HIDE DEF bad
    <3> QED
      BY <2>1, <2>2, LeastNumber
  <2>4. i # 0
    <3>1. at[0] \subseteq places /\ Parent(d, n) \in at[0]
      BY <1>2 DEF Parented
    <3>2. Cardinality(at[0]) = 1
      BY <1>2, FS_Singleton
    <3>3. 0 \notin bad
      BY <3>1, <3>2
    <3> QED
      BY <3>3
  <2>5. i - 1 \in 0..top /\ i - 1 \notin bad /\ i \in 1..top
    <3>1. i - 1 < i /\ i - 1 \in 0..top /\ i \in 1..top
      BY <1>1, <2>4
    <3> HIDE DEF bad
    <3> QED
      BY <1>1, <2>3, <3>1
  <2> DEFINE below == at[i - 1]
  <2>6. below \subseteq places /\ Parent(d, n) \in below /\ Slow(i - 1)
    BY <2>5
  <2>7. at[i] = Upward(d, below)
    BY <1>2, <2>5
  <2>8. at[i] \subseteq places /\ below \subseteq at[i]
    BY <2>6, <2>7 DEF Upward, Parented
  <2>9. CASE Closed(d, below)
    <3>1. at[i] = below
      <4> HIDE DEF at, below
      <4> QED
        BY <2>7, <2>9 DEF Upward, Closed
    <3> QED
      BY <2>5, <2>6, <2>9, <3>1
  <2>10. CASE ~ Closed(d, below)
    <3>1. PICK x \in below \cap Nodes(d) : Parent(d, x) \notin below
      BY <2>10 DEF Closed
    <3>2. Parent(d, x) \in at[i]
      BY <2>7, <3>1 DEF Upward
    <3>3. IsFiniteSet(below) /\ IsFiniteSet(at[i])
      <4> HIDE DEF at, places
      <4> QED
        BY <1>3, <2>6, <2>8, FS_Subset
    <3>4. Cardinality(below) < Cardinality(at[i])
      <4>1. below # at[i]
        BY <3>1, <3>2
      <4>2. Cardinality(below) \in Nat /\ Cardinality(at[i]) \in Nat
        BY <3>3, FS_CardinalityType
      <4>3. Cardinality(below) <= Cardinality(at[i]) /\ Cardinality(below) # Cardinality(at[i])
        <5> HIDE DEF at
        <5> QED
          BY <2>8, <3>3, <4>1, FS_Subset
      <4> QED
        BY <4>2, <4>3
    <3>5. Cardinality(below) >= i
      BY <1>1, <2>5, <2>6, <2>10
    <3>6. Cardinality(at[i]) >= i + 1
      <4>1. Cardinality(below) \in Nat /\ Cardinality(at[i]) \in Nat
        BY <3>3, FS_CardinalityType
      <4> QED
        BY <1>1, <2>5, <3>4, <3>5, <4>1
    <3> QED
      BY <2>5, <2>6, <2>8, <3>6
  <2> QED
    BY <2>9, <2>10
<1> DEFINE all == at[top]
<1>5. all \subseteq places /\ Parent(d, n) \in all /\ Slow(top)
  <2>1. top \in 0..top
    BY <1>1
  <2> QED
    BY <1>4, <2>1
<1>6. Closed(d, all)
  <2>1. IsFiniteSet(all) /\ Cardinality(all) <= top
    <3> HIDE DEF all, places
    <3> QED
      BY <1>3, <1>5, FS_Subset
  <2>2. Cardinality(all) \in Nat
    BY <2>1, FS_CardinalityType
  <2> QED
    BY <1>1, <1>5, <2>1, <2>2
<1>7. Ancestors(d, n) = all \ {NoNode}
  <2>1. top \in 0..top
    BY <1>1
  <2> QED
    BY <2>1 DEF Ancestors
<1> HIDE DEF all
<1> QED
  BY <1>5, <1>6, <1>7 DEF Closed, Parented, Nodes

(* A tree: finitely many records, the root section none of them, and whole.*)
Tree(d) == IsFiniteSet(DOMAIN d) /\ NoNode \notin DOMAIN d /\ WholeTree(d)

(* So its nodes have parents.                                              *)
LEMMA TreesAreParented ==
  ASSUME NEW d, Tree(d)
  PROVE  Parented(d)
BY DEF Tree, WholeTree, Parented, Folders, Nodes

(* What is above a node: folders, closed, without the node.                *)
LEMMA AboveANode ==
  ASSUME NEW d, Tree(d), NEW n \in Nodes(d)
  PROVE  LET A == Ancestors(d, n) \cup {NoNode} IN
         /\ Closed(d, A) /\ Parent(d, n) \in A /\ A \subseteq Folders(d) \cup {NoNode}
         /\ n \in A => Parent(d, n) = n
<1> DEFINE A == Ancestors(d, n) \cup {NoNode}
<1>1. Closed(d, A) /\ Parent(d, n) \in A
  BY TreesAreParented, ClimbsToTheTop
<1>2. Closed(d, Folders(d) \cup {NoNode}) /\ Parent(d, n) \in Folders(d) \cup {NoNode}
  BY DEF Tree, WholeTree, Closed
<1>3. A \subseteq Folders(d) \cup {NoNode}
  BY <1>2, TreesAreParented, ClimbsNoHigher
<1>4. n \in A => Parent(d, n) = n
  BY DEF Tree, WholeTree, Nodes
<1> QED
  BY <1>1, <1>3, <1>4

(* Closed sets are all that is needed to see that a document is a tree.    *)
LEMMA TreeByClosedSets ==
  ASSUME NEW d, IsFiniteSet(DOMAIN d), NoNode \notin DOMAIN d,
         \A n \in Nodes(d) :
           /\ Parent(d, n) = NoNode => n \in Folders(d)
           /\ Parent(d, n) # NoNode => Parent(d, n) \in Folders(d)
           /\ \/ Parent(d, n) = n
              \/ \E S : Closed(d, S) /\ Parent(d, n) \in S /\ n \notin S
  PROVE  Tree(d)
<1>1. Parented(d)
  BY DEF Parented, Folders, Nodes
<1>2. ASSUME NEW n \in Nodes(d), n \in Ancestors(d, n) PROVE Parent(d, n) = n
  <2>1. SUFFICES ASSUME NEW S, Closed(d, S), Parent(d, n) \in S, n \notin S PROVE FALSE
    OBVIOUS
  <2>2. Ancestors(d, n) \subseteq S
    BY <1>1, <2>1, ClimbsNoHigher
  <2> QED
    BY <1>2, <2>1, <2>2
<1> QED
  BY <1>2 DEF Tree, WholeTree

(* A document whose nodes are those of a tree that stayed, where they were,*)
(* under folders that stayed.                                              *)
LEMMA TreeOfWhatStayed ==
  ASSUME NEW d, Tree(d), NEW e, IsFiniteSet(DOMAIN e), NoNode \notin DOMAIN e,
         Nodes(e) \subseteq Nodes(d), Folders(e) = Folders(d) \cap Nodes(e),
         \A n \in Nodes(e) : /\ Parent(e, n) = Parent(d, n)
                             /\ Parent(d, n) \in Nodes(e) \cup {NoNode}
  PROVE  Tree(e)
<1>1. ASSUME NEW n \in Nodes(e)
      PROVE  /\ Parent(e, n) = NoNode => n \in Folders(e)
             /\ Parent(e, n) # NoNode => Parent(e, n) \in Folders(e)
             /\ \/ Parent(e, n) = n
                \/ \E S : Closed(e, S) /\ Parent(e, n) \in S /\ n \notin S
  <2>1. /\ Parent(e, n) = NoNode => n \in Folders(e)
        /\ Parent(e, n) # NoNode => Parent(e, n) \in Folders(e)
    BY <1>1 DEF Tree, WholeTree
  <2> DEFINE A == Ancestors(d, n) \cup {NoNode}
  <2>2. Closed(d, A) /\ Parent(d, n) \in A /\ (n \in A => Parent(d, n) = n)
    BY <1>1, AboveANode
  <2> HIDE DEF A
  <2>3. Closed(e, A) /\ Parent(e, n) \in A
    BY <1>1, <2>2 DEF Closed
  <2> QED
    BY <1>1, <2>1, <2>2, <2>3
<1> QED
  BY <1>1, TreeByClosedSets

(* A new folder or link, in a folder or, a folder, in the root section.    *)
LEMMA CreatedInTree ==
  ASSUME NEW d, Tree(d), NEW id, id \notin DOMAIN d, id # NoNode,
         NEW type \in {"folder", "link"}, NEW p, ensureFolderParent(d, p),
         p = NoNode => type = "folder"
  PROVE  Tree(CreatedNode(d, id, type, p))
<1> DEFINE e == CreatedNode(d, id, type, p)
<1>1. /\ DOMAIN e = DOMAIN d \cup {id} /\ \A n \in DOMAIN d : e[n] = d[n]
      /\ \E i : e[id] = Node(type, id, p, i)
  BY DEF CreatedNode, MapSet
<1> HIDE DEF e
<1>2. IsFiniteSet(DOMAIN e) /\ NoNode \notin DOMAIN e
  BY <1>1, FS_AddElement DEF Tree
<1>3. /\ DOMAIN e[id] = {"type", "data", "parentId", "index"}
      /\ e[id]["type"] = type /\ e[id]["parentId"] = p
  BY <1>1 DEF Node
<1>4. /\ Nodes(e) = Nodes(d) \cup {id} /\ Folders(d) \subseteq Folders(e)
      /\ id \notin Nodes(d) /\ Parent(e, id) = p /\ (type = "folder" => id \in Folders(e))
      /\ \A n \in Nodes(d) : Parent(e, n) = Parent(d, n)
  BY <1>1, <1>3 DEF Nodes, Folders, Parent
<1>5. ASSUME NEW n \in Nodes(e)
      PROVE  /\ Parent(e, n) = NoNode => n \in Folders(e)
             /\ Parent(e, n) # NoNode => Parent(e, n) \in Folders(e)
             /\ \/ Parent(e, n) = n
                \/ \E S : Closed(e, S) /\ Parent(e, n) \in S /\ n \notin S
  <2>1. CASE n = id
    <3>1. Closed(e, Folders(d) \cup {NoNode})
      BY <1>1, <1>4 DEF Tree, WholeTree, Closed, Folders, Nodes
    <3>2. id \notin Folders(d) \cup {NoNode}
      BY <1>4 DEF Folders
    <3> QED
      BY <1>4, <2>1, <3>1, <3>2 DEF ensureFolderParent
  <2>2. CASE n # id
    <3>1. n \in Nodes(d)
      BY <1>4, <2>2
    <3> DEFINE A == Ancestors(d, n) \cup {NoNode}
    <3>2. /\ Closed(d, A) /\ Parent(d, n) \in A /\ (n \in A => Parent(d, n) = n)
          /\ A \subseteq Folders(d) \cup {NoNode}
      BY <3>1, AboveANode
    <3> HIDE DEF A
    <3>3. id \notin A
      BY <1>4, <3>2 DEF Folders
    <3>4. Closed(e, A) /\ Parent(e, n) \in A
      BY <1>4, <3>1, <3>2, <3>3 DEF Closed
    <3> QED
      BY <1>4, <3>1, <3>2, <3>4 DEF Tree, WholeTree
  <2> QED
    BY <2>1, <2>2
<1>6. Tree(e)
  BY <1>2, <1>5, TreeByClosedSets
<1> QED
  BY <1>6 DEF e

(* Records are deleted and no node below them is left.                     *)
LEMMA DeletedFromTree ==
  ASSUME NEW d, Tree(d), NEW gone,
         \A n \in Nodes(d) : Parent(d, n) \in gone \ {NoNode} => n \in gone
  PROVE  Tree(deleteRecord(d, gone))
<1> DEFINE e == deleteRecord(d, gone)
<1>1. /\ DOMAIN e = DOMAIN d
      /\ \A n \in DOMAIN d : e[n] = IF n \in gone THEN [deleted |-> TRUE] ELSE d[n]
  BY DEF deleteRecord
<1> HIDE DEF e
<1>2. "deleted" \in DOMAIN [deleted |-> TRUE]
  OBVIOUS
<1>3. Nodes(e) = Nodes(d) \ gone
  BY <1>1, <1>2 DEF Nodes
<1>4. Folders(e) = Folders(d) \cap Nodes(e) /\ \A n \in Nodes(e) : Parent(e, n) = Parent(d, n)
  BY <1>1, <1>3 DEF Nodes, Folders, Parent
<1>5. \A n \in Nodes(e) : Parent(d, n) \in Nodes(e) \cup {NoNode}
  BY <1>3 DEF Tree, WholeTree, Folders
<1>6. Tree(e)
  BY <1>1, <1>3, <1>4, <1>5, TreeOfWhatStayed DEF Tree
<1> QED
  BY <1>6 DEF e

(* delete_folder: what is below a folder is below what is below it.        *)
LEMMA FolderDeletedFromTree ==
  ASSUME NEW d, Tree(d), NEW f \in Folders(d)
  PROVE  Tree(DeletedFolder(d, f))
<1> DEFINE gone == {f} \cup {n \in Nodes(d) : f \in Ancestors(d, n)}
<1>1. ASSUME NEW n \in Nodes(d), Parent(d, n) \in gone \ {NoNode} PROVE n \in gone
  <2> DEFINE A == Ancestors(d, n) \cup {NoNode}
  <2>1. Closed(d, A) /\ Parent(d, n) \in A
    BY AboveANode
  <2>2. f # NoNode
    BY DEF Tree, Folders, Nodes
  <2>3. CASE Parent(d, n) = f
    BY <2>1, <2>2, <2>3
  <2>4. CASE Parent(d, n) # f
    <3>1. Parent(d, n) \in Nodes(d) /\ f \in Ancestors(d, Parent(d, n))
      BY <1>1, <2>4
    <3>2. Parent(d, Parent(d, n)) \in A
      BY <2>1, <3>1 DEF Closed
    <3>3. Ancestors(d, Parent(d, n)) \subseteq A
      <4> HIDE DEF A
      <4> QED
        BY <2>1, <3>2, TreesAreParented, ClimbsNoHigher
    <3> QED
      BY <2>2, <3>1, <3>3
  <2> QED
    BY <2>3, <2>4
<1>2. Tree(deleteRecord(d, gone))
  <2> HIDE DEF gone
  <2> QED
    BY <1>1, DeletedFromTree
<1> QED
  BY <1>2 DEF DeletedFolder

(* delete_organize_link: nothing is below a link.                          *)
LEMMA LinkDeletedFromTree ==
  ASSUME NEW d, Tree(d), NEW n \in Nodes(d) \ Folders(d)
  PROVE  Tree(deleteRecord(d, {n}))
<1>1. \A x \in Nodes(d) : Parent(d, x) \notin {n} \ {NoNode}
  BY DEF Tree, WholeTree
<1> QED
  BY <1>1, DeletedFromTree

(* rename_folder: nothing moves.                                           *)
LEMMA RenamedInTree ==
  ASSUME NEW d, Tree(d), NEW f \in Folders(d), NEW name
  PROVE  Tree(RenamedFolder(d, f, name))
<1> DEFINE e == RenamedFolder(d, f, name)
<1>1. /\ DOMAIN e = DOMAIN d /\ \A n \in DOMAIN d \ {f} : e[n] = d[n]
      /\ f \in DOMAIN d /\ e[f] = MapSet(d[f], "data", name)
  BY DEF RenamedFolder, Folders, Nodes
<1>2. /\ DOMAIN e[f] = DOMAIN d[f] \cup {"data"}
      /\ e[f]["type"] = d[f]["type"]
      /\ "parentId" \in DOMAIN e[f] <=> "parentId" \in DOMAIN d[f]
      /\ "parentId" \in DOMAIN d[f] => e[f]["parentId"] = d[f]["parentId"]
      /\ "deleted" \notin DOMAIN e[f]
  BY <1>1 DEF MapSet, Folders, Nodes
<1> HIDE DEF e
<1>3. Nodes(e) = Nodes(d) /\ Folders(e) = Folders(d) \cap Nodes(e)
  BY <1>1, <1>2 DEF Folders, Nodes
<1>4. \A n \in Nodes(e) : Parent(e, n) = Parent(d, n)
  BY <1>1, <1>2, <1>3 DEF Parent, Nodes
<1>5. \A n \in Nodes(e) : Parent(d, n) \in Nodes(e) \cup {NoNode}
  BY <1>3 DEF Tree, WholeTree, Folders
<1>6. IsFiniteSet(DOMAIN e) /\ NoNode \notin DOMAIN e
  BY <1>1 DEF Tree
<1>7. Tree(e)
  BY <1>3, <1>4, <1>5, <1>6, TreeOfWhatStayed
<1> QED
  BY <1>7 DEF e

(* move_organize_node: what is above a folder's new parent is above neither*)
(* the folder nor, by way of the folder, what hangs from it.               *)
LEMMA MovedInTree ==
  ASSUME NEW d, Tree(d), NEW n, NEW p, MayMove(d, n, p)
  PROVE  Tree(MovedNode(d, n, p))
<1> DEFINE e == MovedNode(d, n, p)
<1>1. /\ n \in Nodes(d) /\ n # NoNode /\ (p = NoNode \/ p \in Folders(d))
      /\ p = NoNode => n \in Folders(d)
      /\ p # NoNode /\ n \in Folders(d) => p = n \/ n \notin Ancestors(d, p)
  BY DEF MayMove, ensureFolderParent, isAncestor, Tree, Nodes
<1>2. /\ DOMAIN e = DOMAIN d /\ \A x \in DOMAIN d \ {n} : e[x] = d[x]
      /\ \E i : e[n] = MapSet(MapSet(d[n], "parentId", p), "index", i)
  BY <1>1 DEF MovedNode, Nodes
<1>3. /\ DOMAIN e[n] = DOMAIN d[n] \cup {"parentId", "index"}
      /\ e[n]["type"] = d[n]["type"] /\ e[n]["parentId"] = p
  BY <1>1, <1>2 DEF MapSet, Nodes
<1> HIDE DEF e
<1>4. Nodes(e) = Nodes(d) /\ Folders(e) = Folders(d)
  BY <1>1, <1>2, <1>3 DEF Folders, Nodes
<1>5. \A x \in Nodes(d) : Parent(e, x) = IF x = n THEN p ELSE Parent(d, x)
  BY <1>1, <1>2, <1>3 DEF Parent, Nodes
<1>6. ASSUME NEW x \in Nodes(e)
      PROVE  /\ Parent(e, x) = NoNode => x \in Folders(e)
             /\ Parent(e, x) # NoNode => Parent(e, x) \in Folders(e)
             /\ \/ Parent(e, x) = x
                \/ \E S : Closed(e, S) /\ Parent(e, x) \in S /\ x \notin S
  <2>1. /\ Parent(e, x) = NoNode => x \in Folders(e)
        /\ Parent(e, x) # NoNode => Parent(e, x) \in Folders(e)
    BY <1>1, <1>4, <1>5 DEF Tree, WholeTree
  <2> DEFINE A == Ancestors(d, x) \cup {NoNode}
             U == {p, NoNode} \cup Ancestors(d, p)
  <2>2. /\ Closed(d, A) /\ Parent(d, x) \in A /\ (x \in A => Parent(d, x) = x)
        /\ A \subseteq Folders(d) \cup {NoNode}
    BY <1>4, AboveANode
  <2>3. p \in Folders(d) => Closed(d, U)
    <3> SUFFICES ASSUME p \in Nodes(d) PROVE Closed(d, U)
      BY DEF Folders
    <3>1. Closed(d, Ancestors(d, p) \cup {NoNode}) /\ Parent(d, p) \in Ancestors(d, p) \cup {NoNode}
      BY AboveANode
    <3> QED
      BY <3>1 DEF Closed
  <2>4. n \in Folders(d) /\ p \in Folders(d) /\ p # n => n \notin U
    BY <1>1 DEF Tree, Folders, Nodes
  <2>5. p \in U /\ NoNode \in U
    OBVIOUS
  <2>6. \A y \in Nodes(d) : Closed(d, U) /\ y \in U => Ancestors(d, y) \subseteq U
    <3> HIDE DEF U
    <3> QED
      BY TreesAreParented, ClimbsNoHigher DEF Closed
  <2>7. CASE Parent(e, x) = x
    BY <2>1, <2>7
  <2>8. CASE Parent(e, x) # x /\ x = n
    <3>1. CASE n \notin Folders(d)
      <4> DEFINE F == Folders(d) \cup {NoNode}
      <4>1. Closed(e, F) /\ p \in F /\ n \notin F
        BY <1>1, <1>4, <1>5, <3>1 DEF Tree, WholeTree, Closed
      <4> QED
        BY <1>4, <1>5, <2>1, <2>8, <4>1
    <3>2. CASE p = NoNode
      <4>1. Closed(e, {NoNode})
        BY <1>4 DEF Tree, Closed, Nodes
      <4> QED
        BY <1>1, <1>4, <1>5, <2>1, <2>8, <3>2, <4>1
    <3>3. CASE n \in Folders(d) /\ p \in Folders(d)
      <4>1. n \notin U /\ Closed(d, U)
        BY <1>4, <1>5, <2>3, <2>4, <2>8, <3>3
      <4> HIDE DEF U
      <4>2. Closed(e, U)
        BY <1>4, <1>5, <4>1 DEF Closed
      <4> QED
        BY <1>4, <1>5, <2>1, <2>5, <2>8, <4>1, <4>2
    <3> QED
      BY <1>1, <3>1, <3>2, <3>3
  <2>9. CASE Parent(e, x) # x /\ x # n
    <3>1. x \notin A /\ Parent(e, x) \in A
      BY <1>4, <1>5, <2>2, <2>9
    <3>2. CASE n \notin A \/ p \in {n, NoNode}
      <4>1. Closed(e, A)
        BY <1>4, <1>5, <2>2, <3>2 DEF Closed
      <4> HIDE DEF A
      <4> QED
        BY <2>1, <3>1, <4>1
    <3>3. CASE n \in A /\ p \notin {n, NoNode}
      <4>1. n \in Folders(d) /\ p \in Folders(d)
        BY <1>1, <2>2, <3>3
      <4>2. Closed(d, U) /\ n \notin U
        BY <2>3, <2>4, <3>3, <4>1
      <4>3. x \notin U
        <5>1. x \in U => n \in U
          BY <1>1, <1>4, <2>6, <3>3, <4>2
        <5> QED
          BY <4>2, <5>1
      <4> HIDE DEF A, U
      <4>4. Closed(e, A \cup U)
        BY <1>4, <1>5, <2>2, <2>5, <4>2 DEF Closed
      <4> QED
        BY <2>1, <3>1, <4>3, <4>4
    <3> QED
      BY <3>2, <3>3
  <2> QED
    BY <2>7, <2>8, <2>9
<1>7. IsFiniteSet(DOMAIN e) /\ NoNode \notin DOMAIN e
  BY <1>2 DEF Tree
<1>8. Tree(e)
  BY <1>6, <1>7, TreeByClosedSets
<1> QED
  BY <1>8 DEF e

-----------------------------------------------------------------------------
(* Documents and records are functions.                                    *)
Records(d) ==
  /\ d = [n \in DOMAIN d |-> d[n]]
  /\ \A n \in DOMAIN d : d[n] = [k \in DOMAIN d[n] |-> d[n][k]]

Taken == DOMAIN StartTree \cup {p \in TreePushes : oPhase[p] # "idle"}
Fits(d) == Records(d) /\ Tree(d) /\ DOMAIN d \subseteq Taken

(* As long as updates are merged in order, the document and every update   *)
(* that may still be merged are trees of nodes of calls that have begun.   *)
TreesAreWhole ==
  ~oStale =>
    /\ Fits(oDoc)
    /\ \A p \in TreePushes : oPhase[p] \in {"sent", "lost"} =>
         Fits(oUpdate[p].made) /\ DOMAIN oUpdate[p].base \subseteq DOMAIN oUpdate[p].made

(* delete_folder runs on for ever on a folder in itself, which only an     *)
(* update merged late takes away.                                          *)
HungOnAFolder ==
  oHung =>
    /\ oPlanned = {} /\ \A p \in TreePushes : oPhase[p] # "sent"
    /\ ~oStale /\ (\A p \in TreePushes : oPhase[p] # "late") =>
         \E n \in Nodes(oDoc) : Parent(oDoc, n) = n

OrganizeInv ==
  /\ oPhase \in [TreePushes -> {"idle", "sent", "merged", "refused", "lost", "late"}]
  /\ oStale \in BOOLEAN /\ oHung \in BOOLEAN
  /\ TreesAreWhole
  /\ HungOnAFolder

(* The workspace starts with a tree.                                       *)
LEMMA InitOrganize == OrganizeInit => OrganizeInv
<1> SUFFICES ASSUME OrganizeInit PROVE OrganizeInv
  OBVIOUS
<1>1. /\ oDoc = StartTree /\ oStale = FALSE /\ oHung = FALSE
      /\ oPhase = [p \in TreePushes |-> "idle"]
  BY DEF OrganizeInit, OU!UpdatesInit
<1>2. Fits(StartTree)
  BY TreeAssumption DEF Fits, Records, Tree, Taken
<1> QED
  BY <1>1, <1>2 DEF OrganizeInv, TreesAreWhole, HungOnAFolder

(* What a handler makes of the document is a tree of records, with its new *)
(* node at most.                                                           *)
Makes(c, made) ==
  ~oStale =>
    /\ Records(made) /\ Tree(made)
    /\ DOMAIN oDoc \subseteq DOMAIN made /\ DOMAIN made \subseteq DOMAIN oDoc \cup {c}

(* A handler pushes a tree with at most one node more, or throws.          *)
LEMMA TreeHandledKeeps ==
  ASSUME OrganizeInv, NEW c \in TreePushes, NEW results, NEW asked,
         OU!Handled(c, results, asked), oHung = FALSE, oHung' = FALSE,
         \A made \in results : Makes(c, made)
  PROVE  OrganizeInv'
<1>1. /\ oPhase \in [TreePushes -> {"idle", "sent", "merged", "refused", "lost", "late"}]
      /\ oStale \in BOOLEAN /\ TreesAreWhole
  BY DEF OrganizeInv
<1>2. oPhase[c] = "idle" /\ UNCHANGED <<oDoc, oStale>>
  BY DEF OU!Handled
<1>3. (oHung \in BOOLEAN)' /\ HungOnAFolder'
  BY DEF OrganizeInv, HungOnAFolder
<1>4. CASE oPhase' = [oPhase EXCEPT ![c] = "refused"] /\ UNCHANGED oUpdate
  <2>1. \A p \in TreePushes : oPhase'[p] = IF p = c THEN "refused" ELSE oPhase[p]
    BY <1>1, <1>4
  <2> QED
    BY <1>1, <1>2, <1>3, <1>4, <2>1 DEF OrganizeInv, TreesAreWhole, Fits, Taken
<1>5. ASSUME NEW made \in results,
             oPhase' = [oPhase EXCEPT ![c] = "sent"],
             oUpdate' = [p \in TreePushes |->
               IF p = c THEN [base |-> oDoc, made |-> made, asked |-> asked]
               ELSE IF oPhase[p] = "lost" THEN oUpdate[p] ELSE OU!Nothing]
      PROVE  OrganizeInv'
  <2>1. \A p \in TreePushes : oPhase'[p] = IF p = c THEN "sent" ELSE oPhase[p]
    BY <1>1, <1>5
  <2>2. oUpdate'[c].base = oDoc /\ oUpdate'[c].made = made
    BY <1>5
  <2>3. \A p \in TreePushes \ {c} : oPhase[p] = "lost" => oUpdate'[p] = oUpdate[p]
    BY <1>5
  <2>4. \A p \in TreePushes \ {c} : oPhase[p] # "sent"
    BY DEF OU!Handled
  <2>5. Taken' = Taken \cup {c}
    BY <2>1 DEF Taken
  <2>6. TreesAreWhole'
    <3> SUFFICES ASSUME ~oStale
                 PROVE  /\ Fits(oDoc)'
                        /\ \A p \in TreePushes : oPhase'[p] \in {"sent", "lost"} =>
                             Fits(oUpdate[p].made)' /\ DOMAIN oUpdate'[p].base \subseteq DOMAIN oUpdate'[p].made
      BY <1>2 DEF TreesAreWhole
    <3>1. Fits(oDoc)' /\ DOMAIN oDoc \subseteq Taken
      BY <1>1, <1>2, <2>5 DEF TreesAreWhole, Fits
    <3>2. Fits(oUpdate[c].made)' /\ DOMAIN oUpdate'[c].base \subseteq DOMAIN oUpdate'[c].made
      BY <2>2, <2>5, <3>1 DEF Makes, Fits
    <3>3. ASSUME NEW p \in TreePushes, p # c, oPhase'[p] \in {"sent", "lost"}
          PROVE  Fits(oUpdate[p].made)' /\ DOMAIN oUpdate'[p].base \subseteq DOMAIN oUpdate'[p].made
      BY <1>1, <2>1, <2>3, <2>4, <2>5, <3>3 DEF TreesAreWhole, Fits
    <3> QED
      BY <3>1, <3>2, <3>3
  <2> QED
    BY <1>1, <1>2, <1>3, <1>5, <2>6 DEF OrganizeInv
<1> QED
  BY <1>4, <1>5 DEF OU!Handled

(* An update merged into the tree it was made from.                        *)
LEMMA TreeMergesInPlace ==
  ASSUME NEW base, NEW made, Records(base), Records(made), DOMAIN base \subseteq DOMAIN made
  PROVE  TreeMerge(base, base, made) = made
<1>1. \A n \in DOMAIN base : MergedMap(base[n], base[n], made[n]) = made[n]
  BY MergedInPlace DEF Records
<1> QED
  BY <1>1 DEF TreeMerge, Records

(* An update is merged, in time or late, or its acknowledgement is lost.   *)
LEMMA TreeMergeKeeps ==
  ASSUME OrganizeInv, NEW c \in TreePushes, OU!MergeUpdate(c) \/ OU!LoseAck(c),
         UNCHANGED <<oPlanned, oHung>>
  PROVE  OrganizeInv'
<1>1. /\ oPhase \in [TreePushes -> {"idle", "sent", "merged", "refused", "lost", "late"}]
      /\ oStale \in BOOLEAN /\ oHung \in BOOLEAN /\ TreesAreWhole /\ HungOnAFolder
  BY DEF OrganizeInv
<1>2. CASE OU!LoseAck(c)
  <2>1. /\ oPhase[c] = "sent" /\ UNCHANGED <<oDoc, oUpdate, oStale>>
        /\ oPhase' = [oPhase EXCEPT ![c] = "lost"]
    BY <1>2 DEF OU!LoseAck
  <2>2. \A p \in TreePushes : oPhase'[p] = IF p = c THEN "lost" ELSE oPhase[p]
    BY <1>1, <2>1
  <2>3. Taken' = Taken
    BY <2>1, <2>2 DEF Taken
  <2>4. TreesAreWhole'
    BY <1>1, <2>1, <2>2, <2>3 DEF TreesAreWhole, Fits
  <2>5. HungOnAFolder'
    BY <1>1, <2>1 DEF HungOnAFolder
  <2> QED
    BY <1>1, <2>1, <2>4, <2>5 DEF OrganizeInv
<1>3. CASE OU!MergeUpdate(c)
  <2> DEFINE base == oUpdate[c].base
             made == oUpdate[c].made
  <2>1. /\ oPhase[c] \in {"sent", "lost"} /\ UNCHANGED oUpdate
        /\ oPhase' = [oPhase EXCEPT ![c] = IF oPhase[c] = "sent" THEN "merged" ELSE "late"]
        /\ oDoc' = TreeMerge(oDoc, base, made)
        /\ oStale' = (oStale \/ oDoc # base)
    BY <1>3 DEF OU!MergeUpdate
  <2>2. \A p \in TreePushes : oPhase'[p] = IF p # c THEN oPhase[p]
                                           ELSE IF oPhase[c] = "sent" THEN "merged" ELSE "late"
    BY <1>1, <2>1
  <2>3. Taken' = Taken
    BY <2>1, <2>2 DEF Taken
  <2>4. TreesAreWhole'
    <3> SUFFICES ASSUME ~oStale'
                 PROVE  /\ Fits(oDoc)'
                        /\ \A p \in TreePushes : oPhase'[p] \in {"sent", "lost"} =>
                             Fits(oUpdate[p].made)' /\ DOMAIN oUpdate'[p].base \subseteq DOMAIN oUpdate'[p].made
      BY DEF TreesAreWhole
    <3>1. ~oStale /\ oDoc = base
      BY <2>1
    <3>2. Fits(oDoc) /\ Fits(made) /\ DOMAIN base \subseteq DOMAIN made
      BY <1>1, <2>1, <3>1 DEF TreesAreWhole
    <3>3. TreeMerge(base, base, made) = made
      BY <3>1, <3>2, TreeMergesInPlace DEF Fits
    <3>4. oDoc' = made
      BY <2>1, <3>1, <3>3
    <3>5. Fits(oDoc)'
      BY <2>3, <3>2, <3>4 DEF Fits
    <3>6. ASSUME NEW p \in TreePushes, oPhase'[p] \in {"sent", "lost"}
          PROVE  Fits(oUpdate[p].made)' /\ DOMAIN oUpdate'[p].base \subseteq DOMAIN oUpdate'[p].made
      BY <1>1, <2>1, <2>2, <2>3, <3>1, <3>6 DEF TreesAreWhole, Fits
    <3> QED
      BY <3>5, <3>6
  <2>5. HungOnAFolder'
    <3> SUFFICES ASSUME oHung
                 PROVE  /\ oPlanned = {} /\ \A p \in TreePushes : oPhase'[p] # "sent"
                        /\ oPhase'[c] = "late"
      BY DEF HungOnAFolder
    <3> QED
      BY <1>1, <2>1, <2>2 DEF HungOnAFolder
  <2>6. (oStale \in BOOLEAN)'
    BY <2>1
  <2>7. oPhase' \in [TreePushes -> {"idle", "sent", "merged", "refused", "lost", "late"}]
    BY <1>1, <2>1
  <2> QED
    BY <1>1, <2>4, <2>5, <2>6, <2>7 DEF OrganizeInv
<1> QED
  BY <1>2, <1>3

(* createFolder, addOrganizeLink and the pushes of a blueprint.            *)
LEMMA CreatedMakes ==
  ASSUME OrganizeInv, NEW c \in TreePushes, oPhase[c] = "idle",
         NEW type \in {"folder", "link"}, NEW p, ensureFolderParent(oDoc, p),
         p = NoNode => type = "folder"
  PROVE  Makes(c, CreatedNode(oDoc, c, type, p))
<1> SUFFICES ASSUME ~oStale
             PROVE  Makes(c, CreatedNode(oDoc, c, type, p))
  BY DEF Makes
<1>1. Fits(oDoc)
  BY DEF OrganizeInv, TreesAreWhole
<1>2. c \notin DOMAIN oDoc /\ c # NoNode
  BY <1>1, TreeAssumption DEF Fits, Taken
<1>3. Tree(CreatedNode(oDoc, c, type, p))
  BY <1>1, <1>2, CreatedInTree DEF Fits
<1>4. /\ Records(CreatedNode(oDoc, c, type, p))
      /\ DOMAIN CreatedNode(oDoc, c, type, p) = DOMAIN oDoc \cup {c}
  <2>1. PICK i : CreatedNode(oDoc, c, type, p) = MapSet(oDoc, c, Node(type, c, p, i))
    BY DEF CreatedNode
  <2>2. Node(type, c, p, i) = [k \in DOMAIN Node(type, c, p, i) |-> Node(type, c, p, i)[k]]
    BY DEF Node
  <2> QED
    BY <1>1, <1>2, <2>1, <2>2 DEF MapSet, Records, Fits
<1> QED
  BY <1>3, <1>4 DEF Makes

(* A deleted record is a record.                                           *)
LEMMA DeletedMakes ==
  ASSUME NEW c, NEW gone, ~oStale => Fits(oDoc) /\ Tree(deleteRecord(oDoc, gone))
  PROVE  Makes(c, deleteRecord(oDoc, gone))
<1>1. [deleted |-> TRUE] = [k \in DOMAIN [deleted |-> TRUE] |-> [deleted |-> TRUE][k]]
  OBVIOUS
<1> QED
  BY <1>1 DEF Makes, deleteRecord, Records, Fits

(* deleteFolder.                                                           *)
LEMMA FolderDeletedMakes ==
  ASSUME OrganizeInv, NEW c, NEW f \in Folders(oDoc)
  PROVE  Makes(c, DeletedFolder(oDoc, f))
<1>1. ~oStale => Fits(oDoc)
  BY DEF OrganizeInv, TreesAreWhole
<1>2. ~oStale => Tree(DeletedFolder(oDoc, f))
  BY <1>1, FolderDeletedFromTree DEF Fits
<1> QED
  BY <1>1, <1>2, DeletedMakes DEF DeletedFolder

(* deleteOrganizeLink.                                                     *)
LEMMA LinkDeletedMakes ==
  ASSUME OrganizeInv, NEW c, NEW n \in Nodes(oDoc) \ Folders(oDoc)
  PROVE  Makes(c, deleteRecord(oDoc, {n}))
<1>1. ~oStale => Fits(oDoc)
  BY DEF OrganizeInv, TreesAreWhole
<1> QED
  BY <1>1, LinkDeletedFromTree, DeletedMakes DEF Fits

(* renameFolder.                                                           *)
LEMMA RenamedMakes ==
  ASSUME OrganizeInv, NEW c, NEW f \in Folders(oDoc), NEW name
  PROVE  Makes(c, RenamedFolder(oDoc, f, name))
<1>1. ~oStale => Fits(oDoc)
  BY DEF OrganizeInv, TreesAreWhole
<1>2. ~oStale => Tree(RenamedFolder(oDoc, f, name))
  BY <1>1, RenamedInTree DEF Fits
<1>3. MapSet(oDoc[f], "data", name)
        = [k \in DOMAIN MapSet(oDoc[f], "data", name) |-> MapSet(oDoc[f], "data", name)[k]]
  BY DEF MapSet
<1>4. ~oStale => /\ Records(RenamedFolder(oDoc, f, name))
                 /\ DOMAIN RenamedFolder(oDoc, f, name) = DOMAIN oDoc
  BY <1>1, <1>3 DEF RenamedFolder, Records, Fits
<1> QED
  BY <1>2, <1>4 DEF Makes

(* moveOrganizeNode.                                                       *)
LEMMA MovedMakes ==
  ASSUME OrganizeInv, NEW c, NEW n, NEW p, MayMove(oDoc, n, p)
  PROVE  Makes(c, MovedNode(oDoc, n, p))
<1>1. ~oStale => Fits(oDoc)
  BY DEF OrganizeInv, TreesAreWhole
<1>2. ~oStale => Tree(MovedNode(oDoc, n, p))
  BY <1>1, MovedInTree DEF Fits
<1>3. PICK i : MovedNode(oDoc, n, p)
                 = [oDoc EXCEPT ![n] = MapSet(MapSet(oDoc[n], "parentId", p), "index", i)]
  BY DEF MovedNode
<1> DEFINE record == MapSet(MapSet(oDoc[n], "parentId", p), "index", i)
<1>4. record = [k \in DOMAIN record |-> record[k]]
  BY DEF MapSet
<1> HIDE DEF record
<1>5. MovedNode(oDoc, n, p) = [oDoc EXCEPT ![n] = record]
  BY <1>3 DEF record
<1>6. ~oStale => Records(MovedNode(oDoc, n, p)) /\ DOMAIN MovedNode(oDoc, n, p) = DOMAIN oDoc
  BY <1>1, <1>4, <1>5 DEF Records, Fits
<1> QED
  BY <1>2, <1>6 DEF Makes

(* A handler of one push.                                                  *)
LEMMA ShapeKeeps ==
  ASSUME OrganizeInv, NEW c \in TreeCalls, NEW ok, NEW made, NEW placed,
         Shape(c, ok, made, placed), ok => Makes(c, made)
  PROVE  OrganizeInv'
<1> PICK results : results = IF ok THEN {made} ELSE {}
  OBVIOUS
<1>1. oHung = FALSE /\ oHung' = FALSE /\ OU!Handled(c, results, placed)
  BY DEF Shape, OrganizeInv
<1>2. c \in TreePushes
  BY DEF TreePushes
<1>3. \A m \in results : Makes(c, m)
  OBVIOUS
<1> QED
  BY <1>1, <1>2, <1>3, TreeHandledKeeps

(* A call is handled once.                                                 *)
LEMMA IdleWhenHandled ==
  ASSUME NEW c, NEW ok, NEW made, NEW placed, Shape(c, ok, made, placed)
  PROVE  oPhase[c] = "idle"
BY DEF Shape, OU!Handled

(* create_workspace_blueprint: the root folder, then a folder in it.       *)
LEMMA BlueprintKeeps ==
  ASSUME OrganizeInv, NEW c \in TreeCalls,
         createWorkspaceBlueprint(c) \/ BlueprintChild(c) \/ BlueprintFails(c)
  PROVE  OrganizeInv'
<1>1. /\ oPhase \in [TreePushes -> {"idle", "sent", "merged", "refused", "lost", "late"}]
      /\ oStale \in BOOLEAN /\ oHung \in BOOLEAN /\ TreesAreWhole /\ HungOnAFolder
  BY DEF OrganizeInv
<1>2. c \in TreePushes /\ Child(c) \in TreePushes
  BY DEF TreePushes
<1>3. CASE createWorkspaceBlueprint(c)
  <2> PICK results : results = {CreatedNode(oDoc, c, "folder", NoNode)}
    OBVIOUS
  <2>1. oHung = FALSE /\ oHung' = FALSE /\ OU!Handled(c, results, {c})
    BY <1>1, <1>3 DEF createWorkspaceBlueprint
  <2>2. \A made \in results : Makes(c, made)
    BY <1>2, <2>1, CreatedMakes DEF OU!Handled, ensureFolderParent
  <2> QED
    BY <1>2, <2>1, <2>2, TreeHandledKeeps
<1>4. CASE BlueprintChild(c)
  <2> PICK results : results = IF c \in Folders(oDoc)
                               THEN {CreatedNode(oDoc, Child(c), "folder", c)} ELSE {}
    OBVIOUS
  <2> PICK child : child = Child(c)
    OBVIOUS
  <2>1. /\ oHung = FALSE /\ oHung' = FALSE /\ child \in TreePushes
        /\ OU!Handled(child, results, {child})
    BY <1>1, <1>2, <1>4 DEF BlueprintChild, HungOnAFolder
  <2>2. \A made \in results : Makes(child, made)
    BY <2>1, CreatedMakes DEF OU!Handled, ensureFolderParent
  <2> QED
    BY <2>1, <2>2, TreeHandledKeeps
<1>5. CASE BlueprintFails(c)
  <2>1. /\ c \in oPlanned /\ UNCHANGED <<oDoc, oUpdate, oStale, oHung>>
        /\ oPhase' = [oPhase EXCEPT ![Child(c)] = "refused"]
    BY <1>5 DEF BlueprintFails
  <2>2. \A p \in TreePushes : oPhase'[p] = IF p = Child(c) THEN "refused" ELSE oPhase[p]
    BY <1>1, <2>1
  <2>3. Taken \subseteq Taken'
    BY <2>2 DEF Taken
  <2>4. TreesAreWhole'
    BY <1>1, <2>1, <2>2, <2>3 DEF TreesAreWhole, Fits
  <2>5. oHung = FALSE
    BY <1>1, <2>1 DEF HungOnAFolder
  <2> QED
    BY <1>1, <1>2, <2>1, <2>4, <2>5 DEF OrganizeInv, HungOnAFolder
<1> QED
  BY <1>3, <1>4, <1>5

(* delete_folder on a folder that is below itself.                         *)
LEMMA LoopKeeps ==
  ASSUME OrganizeInv, NEW c \in TreeCalls, deleteFolderLoops(c)
  PROVE  OrganizeInv'
<1>1. /\ oHung' = TRUE /\ oPlanned = {} /\ \A p \in TreePushes : oPhase[p] # "sent"
      /\ UNCHANGED <<oDoc, oPhase, oUpdate, oStale, oPlanned>>
      /\ \E f \in Folders(oDoc) : f \in Ancestors(oDoc, f)
  BY DEF deleteFolderLoops
<1>2. TreesAreWhole'
  BY <1>1 DEF OrganizeInv, TreesAreWhole, Fits, Taken
<1>3. ~oStale => \E n \in Nodes(oDoc) : Parent(oDoc, n) = n
  BY <1>1 DEF OrganizeInv, TreesAreWhole, Fits, Tree, WholeTree, Folders
<1> QED
  BY <1>1, <1>2, <1>3 DEF OrganizeInv, HungOnAFolder

(* Every step keeps the invariant.                                         *)
LEMMA OrganizeNextKeeps == OrganizeInv /\ [OrganizeNext]_treeVars => OrganizeInv'
<1> SUFFICES ASSUME OrganizeInv, [OrganizeNext]_treeVars PROVE OrganizeInv'
  OBVIOUS
<1>1. ASSUME NEW c \in TreeCalls, createFolder(c) PROVE OrganizeInv'
  <2>1. PICK p \in Asked :
          Shape(c, ensureFolderParent(oDoc, p), CreatedNode(oDoc, c, "folder", p), {c})
    BY <1>1 DEF createFolder
  <2>2. ensureFolderParent(oDoc, p) => Makes(c, CreatedNode(oDoc, c, "folder", p))
    BY <2>1, IdleWhenHandled, CreatedMakes DEF TreePushes
  <2> QED
    BY <2>1, <2>2, ShapeKeeps
<1>2. ASSUME NEW c \in TreeCalls, addOrganizeLink(c) PROVE OrganizeInv'
  <2>1. PICK f \in DOMAIN oDoc :
          Shape(c, f \in Folders(oDoc), CreatedNode(oDoc, c, "link", f), {c})
    BY <1>2 DEF addOrganizeLink
  <2>2. f \in Folders(oDoc) => ensureFolderParent(oDoc, f)
    BY DEF ensureFolderParent
  <2>3. f = NoNode => oStale
    BY DEF OrganizeInv, TreesAreWhole, Fits, Tree
  <2>4. f \in Folders(oDoc) => Makes(c, CreatedNode(oDoc, c, "link", f))
    <3>1. CASE oStale
      BY <3>1 DEF Makes
    <3>2. CASE ~oStale
      BY <2>1, <2>2, <2>3, <3>2, IdleWhenHandled, CreatedMakes DEF TreePushes
    <3> QED
      BY <3>1, <3>2
  <2> QED
    BY <2>1, <2>4, ShapeKeeps
<1>3. ASSUME NEW c \in TreeCalls, deleteFolder(c) PROVE OrganizeInv'
  <2>1. PICK f \in DOMAIN oDoc : Shape(c, f \in Folders(oDoc), DeletedFolder(oDoc, f), {})
    BY <1>3 DEF deleteFolder
  <2>2. f \in Folders(oDoc) => Makes(c, DeletedFolder(oDoc, f))
    BY FolderDeletedMakes
  <2> QED
    BY <2>1, <2>2, ShapeKeeps
<1>4. ASSUME NEW c \in TreeCalls, moveOrganizeNode(c) PROVE OrganizeInv'
  <2>1. PICK n \in DOMAIN oDoc, p \in Asked :
          Shape(c, MayMove(oDoc, n, p), MovedNode(oDoc, n, p), {n})
    BY <1>4 DEF moveOrganizeNode
  <2>2. MayMove(oDoc, n, p) => Makes(c, MovedNode(oDoc, n, p))
    BY MovedMakes
  <2> QED
    BY <2>1, <2>2, ShapeKeeps
<1>5. ASSUME NEW c \in TreeCalls, deleteOrganizeLink(c) PROVE OrganizeInv'
  <2>1. PICK n \in DOMAIN oDoc :
          Shape(c, n \in Nodes(oDoc) \ Folders(oDoc), deleteRecord(oDoc, {n}), {})
    BY <1>5 DEF deleteOrganizeLink
  <2>2. n \in Nodes(oDoc) \ Folders(oDoc) => Makes(c, deleteRecord(oDoc, {n}))
    BY LinkDeletedMakes
  <2> QED
    BY <2>1, <2>2, ShapeKeeps
<1>6. ASSUME NEW c \in TreeCalls, renameFolder(c) PROVE OrganizeInv'
  <2>1. PICK f \in DOMAIN oDoc : Shape(c, f \in Folders(oDoc), RenamedFolder(oDoc, f, c), {})
    BY <1>6 DEF renameFolder
  <2>2. f \in Folders(oDoc) => Makes(c, RenamedFolder(oDoc, f, c))
    BY RenamedMakes
  <2> QED
    BY <2>1, <2>2, ShapeKeeps
<1>7. ASSUME UNCHANGED treeVars PROVE OrganizeInv'
  BY <1>7 DEF treeVars, OrganizeInv, TreesAreWhole, HungOnAFolder, Fits, Taken
<1> QED
  BY <1>1, <1>2, <1>3, <1>4, <1>5, <1>6, <1>7, LoopKeeps, BlueprintKeeps, TreeMergeKeeps
     DEF OrganizeNext

(* The folder tools, for any workspace, calls and nodes: updates merged in *)
(* order find and leave a tree.                                            *)
THEOREM OrganizeSafety == OrganizeSpec => []OrganizeInv
<1> QED
  BY InitOrganize, OrganizeNextKeeps, PTL DEF OrganizeSpec

(* While updates are merged in order, moves and deletes leave every folder *)
(* and link below a folder that is there, and nothing below itself but a   *)
(* folder that was moved into itself.                                      *)
THEOREM TreeIsKeptWhole == OrganizeSpec => []TreeStaysWhole
<1>1. OrganizeInv => TreeStaysWhole
  BY DEF OrganizeInv, TreesAreWhole, Fits, Tree, HungOnAFolder, TreeStaysWhole
<1> QED
  BY <1>1, OrganizeSafety, PTL

-----------------------------------------------------------------------------
(* A bounded set of numbers has a greatest one.                            *)
LEMMA GreatestNumber ==
  ASSUME NEW N \in Nat, NEW S \in SUBSET (0..N), S # {}
  PROVE  \E x \in S : \A y \in S : y <= x
<1> DEFINE T == {N - y : y \in S}
<1>1. T \in SUBSET Nat /\ T # {}
  <2>1. \A y \in S : N - y \in Nat
    OBVIOUS
  <2>2. PICK y \in S : TRUE
    OBVIOUS
  <2>3. N - y \in T
    BY <2>2
  <2> QED
    BY <2>1, <2>3
<1>2. PICK x \in T : \A y \in T : x <= y
  <2> HIDE DEF T
  <2> QED
    BY <1>1, LeastNumber
<1>3. PICK z \in S : x = N - z
  BY <1>2
<1>4. ASSUME NEW y \in S PROVE y <= z
  <2>1. N - y \in T
    OBVIOUS
  <2>2. N - z <= N - y
    BY <1>2, <1>3, <2>1
  <2> QED
    BY <2>2
<1> QED
  BY <1>4

(* What an item put in does to a list.                                     *)
LEMMA InsertedItem ==
  ASSUME NEW S, NEW u \in Seq(S), NEW k \in 1..Len(u) + 1, NEW x \in S
  PROVE  /\ InsertAt(u, k, x) \in Seq(S)
         /\ Len(InsertAt(u, k, x)) = Len(u) + 1
         /\ \A j \in 1..Len(u) + 1 :
              InsertAt(u, k, x)[j] = IF j < k THEN u[j] ELSE IF j = k THEN x ELSE u[j - 1]
         /\ Range(InsertAt(u, k, x)) = Range(u) \cup {x}
<1> DEFINE a == SubSeq(u, 1, k - 1)
           b == SubSeq(u, k, Len(u))
           v == InsertAt(u, k, x)
<1>1. Len(u) \in Nat /\ DOMAIN u = 1..Len(u) /\ \A j \in 1..Len(u) : u[j] \in S
  BY LenProperties
<1>2. /\ a \in Seq(S) /\ Len(a) = k - 1 /\ \A j \in 1..k - 1 : a[j] = u[j]
      /\ b \in Seq(S) /\ Len(b) = Len(u) - k + 1 /\ \A j \in 1..Len(u) - k + 1 : b[j] = u[k + j - 1]
  <2>1. /\ a \in Seq(S) /\ Len(a) = (IF 1 <= k - 1 THEN k - 1 - 1 + 1 ELSE 0)
        /\ \A j \in 1..(k - 1) - 1 + 1 : a[j] = u[1 + j - 1]
    BY <1>1, SubSeqProperties
  <2>2. /\ b \in Seq(S) /\ Len(b) = (IF k <= Len(u) THEN Len(u) - k + 1 ELSE 0)
        /\ \A j \in 1..Len(u) - k + 1 : b[j] = u[k + j - 1]
    BY <1>1, SubSeqProperties
  <2> QED
    BY <1>1, <2>1, <2>2
<1> HIDE DEF a, b
<1>3. /\ <<x>> \in Seq(S) /\ Len(<<x>>) = 1 /\ <<x>>[1] = x
  OBVIOUS
<1> DEFINE c == a \o <<x>>
<1>4. /\ c \in Seq(S) /\ Len(c) = k
      /\ \A j \in 1..k : c[j] = IF j <= k - 1 THEN a[j] ELSE x
  BY <1>1, <1>2, <1>3
<1>0. v = c \o b
  BY DEF InsertAt, a, b
<1> HIDE DEF c, v
<1>5. /\ v \in Seq(S) /\ Len(v) = Len(u) + 1
      /\ \A j \in 1..Len(u) + 1 : v[j] = IF j <= k THEN c[j] ELSE b[j - k]
  <2>1. /\ c \o b \in Seq(S) /\ Len(c \o b) = Len(c) + Len(b)
        /\ \A j \in 1..Len(c) + Len(b) : (c \o b)[j] = IF j <= Len(c) THEN c[j] ELSE b[j - Len(c)]
    BY <1>2, <1>4, ConcatProperties
  <2>2. k + (Len(u) - k + 1) = Len(u) + 1
    BY <1>1
  <2> QED
    BY <1>0, <1>2, <1>4, <2>1, <2>2
<1>6. \A j \in 1..Len(u) + 1 : v[j] = IF j < k THEN u[j] ELSE IF j = k THEN x ELSE u[j - 1]
  <2> SUFFICES ASSUME NEW j \in 1..Len(u) + 1
               PROVE  v[j] = IF j < k THEN u[j] ELSE IF j = k THEN x ELSE u[j - 1]
    OBVIOUS
  <2>1. CASE j <= k
    <3>1. j \in 1..k /\ (j < k => j \in 1..k - 1)
      BY <1>1, <2>1
    <3>2. v[j] = c[j]
      BY <1>5, <2>1
    <3> QED
      BY <1>1, <1>2, <1>4, <2>1, <3>1, <3>2
  <2>2. CASE j > k
    <3>1. j - k \in 1..Len(u) - k + 1 /\ k + (j - k) - 1 = j - 1
      BY <1>1, <2>2
    <3>2. v[j] = b[j - k]
      BY <1>1, <1>5, <2>2
    <3> QED
      BY <1>1, <1>2, <2>2, <3>1, <3>2
  <2> QED
    BY <1>1, <2>1, <2>2
<1>7. Range(v) = Range(u) \cup {x}
  <2>1. DOMAIN v = 1..Len(u) + 1
    BY <1>5, LenProperties
  <2>2. ASSUME NEW y \in Range(u) PROVE y \in Range(v)
    <3>1. PICK j \in 1..Len(u) : y = u[j]
      BY <1>1 DEF Range
    <3>2. CASE j < k
      BY <1>1, <1>6, <2>1, <3>1, <3>2 DEF Range
    <3>3. CASE j >= k
      <4>1. j + 1 \in 1..Len(u) + 1 /\ v[j + 1] = u[j + 1 - 1]
        BY <1>1, <1>6, <3>1, <3>3
      <4> QED
        BY <1>1, <2>1, <3>1, <4>1 DEF Range
    <3> QED
      BY <1>1, <3>1, <3>2, <3>3
  <2>3. x \in Range(v)
    BY <1>1, <1>6, <2>1 DEF Range
  <2>4. ASSUME NEW y \in Range(v) PROVE y \in Range(u) \cup {x}
    <3>1. PICK j \in 1..Len(u) + 1 : y = v[j]
      BY <2>1 DEF Range
    <3>2. y = x \/ (\E h \in 1..Len(u) : y = u[h])
      BY <1>1, <1>6, <3>1
    <3> QED
      BY <1>1, <3>2 DEF Range
  <2> QED
    BY <2>2, <2>3, <2>4
<1> QED
  BY <1>5, <1>6, <1>7 DEF v

-----------------------------------------------------------------------------
(* The items of u that are in s are in the order they have there.          *)
Ordered(u, s) ==
  \A i, j \in DOMAIN u, a, b \in DOMAIN s : i < j /\ u[i] = s[a] /\ u[j] = s[b] => a < b

(* WithoutItems is built item by item.                                     *)
LEMMA KeptStepByStep ==
  ASSUME NEW S, NEW list \in Seq(S), NEW gone
  PROVE  \E f : /\ WithoutItems(list, gone) = f[Len(list)]
                /\ f[0] = <<>>
                /\ \A i \in 1..Len(list) :
                     f[i] = IF list[i] \in gone THEN f[i - 1] ELSE Append(f[i - 1], list[i])
<1> DEFINE top == Len(list)
           Step(g, i) == IF list[i] \in gone THEN g[i - 1] ELSE Append(g[i - 1], list[i])
           Builds(g, m) == g = [i \in 0..m |->
                IF i = 0 THEN <<>>
                ELSE IF list[i] \in gone THEN g[i - 1] ELSE Append(g[i - 1], list[i])]
           unbuilt == {m \in 0..top : ~ \E g : Builds(g, m)}
<1>1. top \in Nat
  BY LenProperties
<1>2. unbuilt = {}
  <2>1. SUFFICES ASSUME unbuilt # {} PROVE FALSE
    OBVIOUS
  <2>2. unbuilt \in SUBSET Nat
    BY <1>1
  <2>3. PICK m \in unbuilt : \A k \in unbuilt : m <= k
    <3> HIDE DEF unbuilt
    <3> QED
      BY <2>1, <2>2, LeastNumber
  <2>4. m # 0
    <3>1. Builds([i \in 0..0 |-> <<>>], 0)
      OBVIOUS
    <3> QED
      BY <3>1
  <2>5. m - 1 \in 0..top /\ m - 1 \notin unbuilt
    <3>1. m \in 0..top
      OBVIOUS
    <3> HIDE DEF unbuilt, top
    <3>2. m - 1 \in 0..top /\ m - 1 < m /\ m \in Nat /\ m - 1 \in Nat
      BY <1>1, <2>4, <3>1
    <3> QED
      BY <2>3, <3>2
  <2>6. PICK g : Builds(g, m - 1)
    BY <2>5
  <2> DEFINE h == [i \in 0..m |-> IF i = m THEN Step(g, m) ELSE g[i]]
  <2>7. ASSUME NEW i \in 0..m PROVE h[i] = IF i = 0 THEN <<>> ELSE Step(h, i)
    <3>1. CASE i = m
      BY <1>1, <2>4, <3>1
    <3>2. CASE i # m
      <4>1. i \in 0..(m - 1)
        BY <1>1, <3>2
      <4>2. h[i] = g[i] /\ g[i] = IF i = 0 THEN <<>> ELSE Step(g, i)
        BY <2>6, <3>2, <4>1
      <4>3. i # 0 => h[i - 1] = g[i - 1]
        BY <1>1, <4>1
      <4> QED
        BY <4>2, <4>3
    <3> QED
      BY <3>1, <3>2
  <2>8. Builds(h, m)
    <3> HIDE DEF h
    <3>1. h = [i \in 0..m |-> h[i]]
      BY DEF h
    <3> QED
      BY <2>7, <3>1
  <2> QED
    BY <2>8
<1>3. \E g : Builds(g, top)
  <2>1. top \in 0..top
    BY <1>1
  <2>2. \A m \in 0..top : \E g : Builds(g, m)
    <3> HIDE DEF top, Builds
    <3> QED
      BY <1>2
  <2> HIDE DEF top, Builds
  <2> QED
    BY <2>1, <2>2
<1> DEFINE f == CHOOSE g : Builds(g, top)
<1>4. Builds(f, top)
  BY <1>3
<1>5. WithoutItems(list, gone) = f[top]
  BY DEF WithoutItems
<1> HIDE DEF f
<1>6. f[0] = <<>> /\ \A i \in 1..top : f[i] = Step(f, i)
  <2>1. 0 \in 0..top /\ \A i \in 1..top : i \in 0..top /\ i # 0
    BY <1>1
  <2> HIDE DEF top
  <2> QED
    BY <1>4, <2>1
<1> QED
  BY <1>5, <1>6

(* What is left is what was not to go, in order.                           *)
LEMMA KeptInOrder ==
  ASSUME NEW S, NEW list \in Seq(S), NEW gone, Ordered(list, list)
  PROVE  /\ WithoutItems(list, gone) \in Seq(S)
         /\ Range(WithoutItems(list, gone)) = Range(list) \ gone
         /\ Ordered(WithoutItems(list, gone), list)
<1>1. PICK f : /\ WithoutItems(list, gone) = f[Len(list)]
               /\ f[0] = <<>>
               /\ \A i \in 1..Len(list) :
                    f[i] = IF list[i] \in gone THEN f[i - 1] ELSE Append(f[i - 1], list[i])
  BY KeptStepByStep
<1>2. Len(list) \in Nat /\ DOMAIN list = 1..Len(list) /\ \A i \in 1..Len(list) : list[i] \in S
  BY LenProperties
<1> DEFINE Good(i) == /\ f[i] \in Seq(S)
                      /\ Range(f[i]) = {list[h] : h \in 1..i} \ gone
                      /\ Ordered(f[i], list)
           bad == {i \in 0..Len(list) : ~Good(i)}
<1>3. bad = {}
  <2>1. SUFFICES ASSUME bad # {} PROVE FALSE
    OBVIOUS
  <2>2. bad \in SUBSET Nat
    BY <1>2
  <2>3. PICK i \in bad : \A k \in bad : i <= k
    <3> HIDE DEF bad
    <3> QED
      BY <2>1, <2>2, LeastNumber
  <2>4. i # 0
    <3>1. <<>> \in Seq(S) /\ DOMAIN <<>> = {}
      OBVIOUS
    <3>2. Range(f[0]) = {} /\ {list[h] : h \in 1..0} = {}
      BY <1>1, <3>1 DEF Range
    <3>3. Good(0)
      BY <1>1, <3>1, <3>2 DEF Ordered
    <3> QED
      BY <3>3
  <2>5. i \in 1..Len(list) /\ i - 1 \in 0..Len(list) /\ i - 1 \notin bad
    <3>1. i \in 1..Len(list) /\ i - 1 \in 0..Len(list) /\ i - 1 < i
      BY <1>2, <2>4
    <3> HIDE DEF bad
    <3> QED
      BY <2>3, <3>1
  <2>6. Good(i - 1)
    BY <2>5
  <2> DEFINE u == f[i - 1]
  <2>7. Len(u) \in Nat /\ DOMAIN u = 1..Len(u)
    BY <2>6, LenProperties
  <2>8. {list[h] : h \in 1..i} = {list[h] : h \in 1..i - 1} \cup {list[i]}
    <3>1. 1..i = (1..i - 1) \cup {i}
      BY <2>5
    <3> QED
      BY <3>1
  <2>9. CASE list[i] \in gone
    <3>1. f[i] = f[i - 1]
      BY <1>1, <2>5, <2>9
    <3>2. Good(i)
      BY <2>6, <2>8, <2>9, <3>1
    <3> QED
      BY <3>2
  <2>10. CASE list[i] \notin gone
    <3>1. f[i] = Append(u, list[i])
      BY <1>1, <2>5, <2>10
    <3>2. list[i] \in S
      BY <1>2, <2>5
    <3>3. /\ f[i] \in Seq(S) /\ Len(f[i]) = Len(u) + 1
          /\ \A j \in 1..Len(u) : f[i][j] = u[j]
          /\ f[i][Len(u) + 1] = list[i]
      BY <2>6, <3>1, <3>2, AppendProperties
    <3>4. DOMAIN f[i] = 1..Len(u) + 1
      BY <3>3, LenProperties
    <3> DEFINE v == f[i]
    <3>5. Range(v) = Range(u) \cup {list[i]}
      <4> HIDE DEF u, v
      <4>1. 1..Len(u) + 1 = (1..Len(u)) \cup {Len(u) + 1}
        BY <2>7
      <4> QED
        BY <2>7, <3>3, <3>4, <4>1 DEF Range, v
    <3>6. Ordered(v, list)
      <4> SUFFICES ASSUME NEW x \in DOMAIN v, NEW y \in DOMAIN v,
                          NEW a \in DOMAIN list, NEW b \in DOMAIN list,
                          x < y, v[x] = list[a], v[y] = list[b]
                   PROVE  a < b
        BY DEF Ordered
      <4>1. CASE y \in 1..Len(u)
        <5>1. x \in DOMAIN u /\ y \in DOMAIN u /\ u[x] = list[a] /\ u[y] = list[b]
          <6>1. x \in 1..Len(u) + 1 /\ x < y /\ y \in 1..Len(u)
            BY <3>4, <4>1
          <6>2. x \in 1..Len(u)
            BY <2>7, <6>1
          <6> HIDE DEF u
          <6> QED
            BY <2>7, <3>3, <4>1, <6>2
        <5> QED
          BY <2>6, <5>1 DEF Ordered
      <4>2. CASE y = Len(u) + 1
        <5>1. x \in 1..Len(u) /\ u[x] = list[a] /\ list[b] = list[i]
          BY <2>7, <3>3, <3>4, <4>2
        <5>2. u[x] \in Range(u)
          BY <2>7, <5>1 DEF Range
        <5>3. PICK h \in 1..i - 1 : u[x] = list[h]
          BY <2>6, <5>2
        <5>4. h \in DOMAIN list /\ h < i /\ i \in DOMAIN list
          BY <1>2, <2>5
        <5>5. \A p, q \in DOMAIN list : list[p] = list[q] => p = q
          <6>1. \A p, q \in DOMAIN list : list[p] = list[q] => ~(p < q) /\ ~(q < p)
            BY <1>2 DEF Ordered
          <6> QED
            BY <1>2, <6>1
        <5>6. a = h /\ b = i
          BY <5>1, <5>3, <5>4, <5>5
        <5> QED
          BY <5>4, <5>6
      <4> QED
        BY <2>7, <3>4, <4>1, <4>2
    <3>7. Good(i)
      BY <2>6, <2>8, <2>10, <3>3, <3>5, <3>6
    <3> QED
      BY <3>7
  <2> QED
    BY <2>9, <2>10
<1>4. Good(Len(list))
  <2>1. Len(list) \in 0..Len(list)
    BY <1>2
  <2> QED
    BY <1>3, <2>1
<1>5. Range(list) = {list[h] : h \in 1..Len(list)}
  BY <1>2 DEF Range
<1> QED
  BY <1>1, <1>4, <1>5

(* MergedList puts new items in one by one.                                *)
LEMMA InsertedStepByStep ==
  ASSUME NEW now, NEW base, NEW made, Len(made) \in Nat
  PROVE  \E f : /\ MergedList(now, base, made) = f[Len(made)]
                /\ f[0] = WithoutItems(now, Range(base) \ Range(made))
                /\ \A i \in 1..Len(made) :
                     f[i] = IF made[i] \in Range(base) \cup Range(f[i - 1]) THEN f[i - 1]
                            ELSE InsertAt(f[i - 1], PlaceFor(f[i - 1], made, i), made[i])
<1> DEFINE top == Len(made)
           first == WithoutItems(now, Range(base) \ Range(made))
           Step(g, i) == IF made[i] \in Range(base) \cup Range(g[i - 1]) THEN g[i - 1]
                         ELSE InsertAt(g[i - 1], PlaceFor(g[i - 1], made, i), made[i])
           Builds(g, m) == g = [i \in 0..m |->
                IF i = 0 THEN WithoutItems(now, Range(base) \ Range(made))
                ELSE IF made[i] \in Range(base) \cup Range(g[i - 1]) THEN g[i - 1]
                ELSE InsertAt(g[i - 1], PlaceFor(g[i - 1], made, i), made[i])]
           unbuilt == {m \in 0..top : ~ \E g : Builds(g, m)}
<1>1. top \in Nat
  OBVIOUS
<1>2. unbuilt = {}
  <2>1. SUFFICES ASSUME unbuilt # {} PROVE FALSE
    OBVIOUS
  <2>2. unbuilt \in SUBSET Nat
    BY <1>1
  <2>3. PICK m \in unbuilt : \A k \in unbuilt : m <= k
    <3> HIDE DEF unbuilt
    <3> QED
      BY <2>1, <2>2, LeastNumber
  <2>4. m # 0
    <3>1. Builds([i \in 0..0 |-> first], 0)
      OBVIOUS
    <3> QED
      BY <3>1
  <2>5. m - 1 \in 0..top /\ m - 1 \notin unbuilt
    <3>1. m \in 0..top
      OBVIOUS
    <3> HIDE DEF unbuilt, top
    <3>2. m - 1 \in 0..top /\ m - 1 < m /\ m \in Nat /\ m - 1 \in Nat
      BY <1>1, <2>4, <3>1
    <3> QED
      BY <2>3, <3>2
  <2>6. PICK g : Builds(g, m - 1)
    BY <2>5
  <2> DEFINE h == [i \in 0..m |-> IF i = m THEN Step(g, m) ELSE g[i]]
  <2>7. ASSUME NEW i \in 0..m PROVE h[i] = IF i = 0 THEN first ELSE Step(h, i)
    <3>1. CASE i = m
      <4>1. h[m - 1] = g[m - 1] /\ h[m] = Step(g, m)
        BY <1>1, <2>4
      <4> HIDE DEF h
      <4> QED
        BY <2>4, <3>1, <4>1
    <3>2. CASE i # m
      <4>1. i \in 0..(m - 1)
        BY <1>1, <3>2
      <4>2. h[i] = g[i] /\ g[i] = IF i = 0 THEN first ELSE Step(g, i)
        BY <2>6, <3>2, <4>1
      <4>3. i # 0 => h[i - 1] = g[i - 1]
        BY <1>1, <4>1
      <4> HIDE DEF h
      <4> QED
        BY <4>2, <4>3
    <3> QED
      BY <3>1, <3>2
  <2>8. Builds(h, m)
    <3> HIDE DEF h
    <3>1. h = [i \in 0..m |-> h[i]]
      BY DEF h
    <3> QED
      BY <2>7, <3>1
  <2> QED
    BY <2>8
<1>3. \E g : Builds(g, top)
  <2>1. top \in 0..top
    BY <1>1
  <2>2. \A m \in 0..top : \E g : Builds(g, m)
    <3> HIDE DEF top, Builds
    <3> QED
      BY <1>2
  <2> HIDE DEF top, Builds
  <2> QED
    BY <2>1, <2>2
<1> DEFINE f == CHOOSE g : Builds(g, top)
<1>4. Builds(f, top)
  BY <1>3
<1>5. MergedList(now, base, made) = f[top]
  BY DEF MergedList
<1> HIDE DEF f
<1>6. f[0] = first /\ \A i \in 1..top : f[i] = Step(f, i)
  <2>1. 0 \in 0..top /\ \A i \in 1..top : i \in 0..top /\ i # 0
    BY <1>1
  <2> HIDE DEF top
  <2> QED
    BY <1>4, <2>1
<1> QED
  BY <1>5, <1>6

(* The place of a new item: behind all that is before it in made.          *)
LEMMA PlaceInList ==
  ASSUME NEW S, NEW list \in Seq(S), NEW made, NEW i
  PROVE  LET p == PlaceFor(list, made, i)
             Before(j) == \E h \in 1..i - 1 : made[h] = list[j]
         IN  /\ p \in 1..Len(list) + 1
             /\ \A j \in DOMAIN list : Before(j) => j < p
             /\ p = 1 \/ (p - 1 \in DOMAIN list /\ Before(p - 1))
<1> DEFINE left == {j \in DOMAIN list : \E h \in 1..i - 1 : made[h] = list[j]}
           last == CHOOSE j \in left : \A h \in left : h <= j
<1>1. Len(list) \in Nat /\ DOMAIN list = 1..Len(list)
  BY LenProperties
<1>2. PlaceFor(list, made, i) = 1 + IF left = {} THEN 0 ELSE last
  BY DEF PlaceFor
<1>3. left \subseteq 1..Len(list) /\ \A j \in DOMAIN list : (\E h \in 1..i - 1 : made[h] = list[j]) <=> j \in left
  BY <1>1
<1>4. left # {} => last \in left /\ \A h \in left : h <= last
  <2> HIDE DEF left
  <2>1. left \subseteq 0..Len(list)
    BY <1>1, <1>3
  <2>2. left # {} => \E j \in left : \A h \in left : h <= j
    BY <1>1, <2>1, GreatestNumber
  <2> QED
    BY <2>2
<1> HIDE DEF left, last
<1>5. CASE left = {}
  BY <1>1, <1>2, <1>3, <1>5
<1>6. CASE left # {}
  <2>1. last \in 1..Len(list) /\ PlaceFor(list, made, i) = 1 + last
    BY <1>2, <1>3, <1>4, <1>6
  <2>2. \A h \in left : h < 1 + last
    BY <1>1, <1>3, <1>4, <1>6
  <2> QED
    BY <1>1, <1>3, <1>4, <1>6, <2>1, <2>2
<1> QED
  BY <1>5, <1>6

(* What is ordered as a list of distinct items has distinct items itself.  *)
LEMMA SelectionIsAlone ==
  ASSUME NEW S, NEW now \in Seq(S), NEW kept \in Seq(S), Ordered(now, now),
         Range(kept) \subseteq Range(now), Ordered(kept, now)
  PROVE  Ordered(kept, kept)
<1>1. \A j \in DOMAIN kept : \E a \in DOMAIN now : kept[j] = now[a]
  BY DEF Range
<1>2. Len(now) \in Nat /\ DOMAIN now = 1..Len(now) /\ Len(kept) \in Nat /\ DOMAIN kept = 1..Len(kept)
  BY LenProperties
<1> SUFFICES ASSUME NEW x \in DOMAIN kept, NEW y \in DOMAIN kept,
                    NEW a \in DOMAIN kept, NEW b \in DOMAIN kept,
                    x < y, kept[x] = kept[a], kept[y] = kept[b], ~ a < b
             PROVE  FALSE
  BY DEF Ordered
<1>3. PICK p \in DOMAIN now, q \in DOMAIN now : kept[x] = now[p] /\ kept[y] = now[q]
  BY <1>1
<1>4. p < q
  BY <1>3 DEF Ordered
<1>5. b < a => q < p
  BY <1>3 DEF Ordered
<1>6. a = b => now[p] = now[q]
  BY <1>3
<1>7. now[p] = now[q] => q < p \/ p = q
  BY <1>3, <1>4 DEF Ordered
<1> QED
  BY <1>2, <1>3, <1>4, <1>5, <1>6, <1>7 DEF Ordered

(* Distinct items stay so when a new one is put in.                        *)
LEMMA NewItemIsAlone ==
  ASSUME NEW S, NEW u \in Seq(S), Ordered(u, u), NEW k \in 1..Len(u) + 1, NEW x \in S, x \notin Range(u)
  PROVE  Ordered(InsertAt(u, k, x), InsertAt(u, k, x))
<1> DEFINE v == InsertAt(u, k, x)
<1>1. Len(u) \in Nat /\ DOMAIN u = 1..Len(u)
  BY LenProperties
<1>2. /\ v \in Seq(S) /\ Len(v) = Len(u) + 1
      /\ \A j \in 1..Len(u) + 1 : v[j] = IF j < k THEN u[j] ELSE IF j = k THEN x ELSE u[j - 1]
  BY InsertedItem
<1> HIDE DEF v
<1>3. DOMAIN v = 1..Len(u) + 1
  BY <1>2, LenProperties
<1>4. \A j \in 1..Len(u) : u[j] # x
  BY <1>1 DEF Range
<1>5. \A j, h \in 1..Len(u) : u[j] = u[h] => j = h
  BY <1>1 DEF Ordered
<1>6. \A j, h \in 1..Len(u) + 1 : v[j] = v[h] => j = h
  <2> SUFFICES ASSUME NEW j \in 1..Len(u) + 1, NEW h \in 1..Len(u) + 1, v[j] = v[h]
               PROVE  j = h
    OBVIOUS
  <2>1. \A m \in 1..Len(u) + 1 : (m < k => m \in 1..Len(u)) /\ (m > k => m - 1 \in 1..Len(u))
    BY <1>1
  <2>2. CASE j = k
    BY <1>1, <1>2, <1>4, <2>1, <2>2
  <2>3. CASE h = k
    BY <1>1, <1>2, <1>4, <2>1, <2>3
  <2>4. CASE j # k /\ h # k
    BY <1>1, <1>2, <1>5, <2>1, <2>4
  <2> QED
    BY <2>2, <2>3, <2>4
<1>7. Ordered(v, v)
  <2> SUFFICES ASSUME NEW i \in DOMAIN v, NEW j \in DOMAIN v, NEW a \in DOMAIN v, NEW b \in DOMAIN v,
                      i < j, v[i] = v[a], v[j] = v[b]
               PROVE  a < b
    BY DEF Ordered
  <2> QED
    BY <1>3, <1>6
<1> QED
  BY <1>7 DEF v

(* A merged list: a removed item goes, a new one is there.                 *)
LEMMA MergedItems ==
  ASSUME NEW S, NEW now \in Seq(S), NEW base \in Seq(S), NEW made \in Seq(S), Ordered(now, now)
  PROVE  /\ MergedList(now, base, made) \in Seq(S)
         /\ Range(MergedList(now, base, made))
              = (Range(now) \ (Range(base) \ Range(made))) \cup (Range(made) \ Range(base))
         /\ Ordered(MergedList(now, base, made), MergedList(now, base, made))
<1>1. Len(made) \in Nat /\ DOMAIN made = 1..Len(made) /\ \A i \in 1..Len(made) : made[i] \in S
  BY LenProperties
<1>2. PICK f : /\ MergedList(now, base, made) = f[Len(made)]
               /\ f[0] = WithoutItems(now, Range(base) \ Range(made))
               /\ \A i \in 1..Len(made) :
                    f[i] = IF made[i] \in Range(base) \cup Range(f[i - 1]) THEN f[i - 1]
                           ELSE InsertAt(f[i - 1], PlaceFor(f[i - 1], made, i), made[i])
  BY <1>1, InsertedStepByStep
<1> DEFINE Good(i) == /\ f[i] \in Seq(S)
                      /\ Range(f[i]) = (Range(now) \ (Range(base) \ Range(made)))
                                       \cup ({made[h] : h \in 1..i} \ Range(base))
                      /\ Ordered(f[i], f[i])
           bad == {i \in 0..Len(made) : ~Good(i)}
<1>3. bad = {}
  <2>1. SUFFICES ASSUME bad # {} PROVE FALSE
    OBVIOUS
  <2>2. bad \in SUBSET Nat
    BY <1>1
  <2>3. PICK i \in bad : \A k \in bad : i <= k
    <3> HIDE DEF bad
    <3> QED
      BY <2>1, <2>2, LeastNumber
  <2>4. i # 0
    <3>1. PICK kept : kept = WithoutItems(now, Range(base) \ Range(made))
      OBVIOUS
    <3>2. /\ kept \in Seq(S) /\ Range(kept) = Range(now) \ (Range(base) \ Range(made))
          /\ Ordered(kept, now)
      BY <3>1, KeptInOrder
    <3>3. Ordered(kept, kept)
      BY <3>2, SelectionIsAlone
    <3>4. {made[h] : h \in 1..0} = {}
      OBVIOUS
    <3>5. Good(0)
      BY <1>2, <3>1, <3>2, <3>3, <3>4
    <3> QED
      BY <3>5
  <2>5. i \in 1..Len(made) /\ i - 1 \in 0..Len(made) /\ i - 1 \notin bad
    <3>1. i \in 1..Len(made) /\ i - 1 \in 0..Len(made) /\ i - 1 < i
      BY <1>1, <2>4
    <3> HIDE DEF bad
    <3> QED
      BY <2>3, <3>1
  <2>6. Good(i - 1) /\ made[i] \in S
    BY <1>1, <2>5
  <2>7. {made[h] : h \in 1..i} = {made[h] : h \in 1..i - 1} \cup {made[i]}
    <3>1. 1..i = (1..i - 1) \cup {i}
      BY <2>5
    <3> QED
      BY <3>1
  <2>8. CASE made[i] \in Range(base) \cup Range(f[i - 1])
    <3>1. f[i] = f[i - 1]
      BY <1>2, <2>5, <2>8
    <3>2. PICK u : u = f[i - 1]
      OBVIOUS
    <3>3. Range(u) = Range(u) \cup ({made[i]} \ Range(base))
      BY <2>8, <3>2
    <3>4. Range(f[i]) = (Range(now) \ (Range(base) \ Range(made)))
                       \cup ({made[h] : h \in 1..i} \ Range(base))
      BY <2>6, <2>7, <3>1, <3>2, <3>3
    <3>5. Good(i)
      BY <2>6, <3>1, <3>4
    <3> QED
      BY <3>5
  <2>9. CASE made[i] \notin Range(base) \cup Range(f[i - 1])
    <3>1. PICK u, k : u = f[i - 1] /\ k = PlaceFor(u, made, i)
      OBVIOUS
    <3>2. f[i] = InsertAt(u, k, made[i])
      BY <1>2, <2>5, <2>9, <3>1
    <3>3. u \in Seq(S) /\ Ordered(u, u) /\ made[i] \notin Range(u)
      BY <2>6, <2>9, <3>1
    <3>4. k \in 1..Len(u) + 1
      BY <3>1, <3>3, PlaceInList
    <3>5. /\ f[i] \in Seq(S) /\ Range(f[i]) = Range(u) \cup {made[i]}
      BY <2>6, <3>2, <3>3, <3>4, InsertedItem
    <3>6. Ordered(f[i], f[i])
      BY <2>6, <3>2, <3>3, <3>4, NewItemIsAlone
    <3>7. Range(f[i]) = (Range(now) \ (Range(base) \ Range(made)))
                       \cup ({made[h] : h \in 1..i} \ Range(base))
      BY <2>6, <2>7, <2>9, <3>1, <3>5
    <3>8. Good(i)
      BY <3>5, <3>6, <3>7
    <3> QED
      BY <3>8
  <2> QED
    BY <2>8, <2>9
<1>4. Good(Len(made))
  <2>1. Len(made) \in 0..Len(made)
    BY <1>1
  <2> QED
    BY <1>3, <2>1
<1>5. Range(made) = {made[h] : h \in 1..Len(made)}
  BY <1>1 DEF Range
<1> QED
  BY <1>2, <1>4, <1>5

(* Two lists of the same items in the same order are one list.             *)
LEMMA SameItemsSameOrder ==
  ASSUME NEW S, NEW u \in Seq(S), NEW t \in Seq(S), Range(u) = Range(t),
         Ordered(u, u), Ordered(t, t), Ordered(u, t)
  PROVE  u = t
<1>1. /\ Len(u) \in Nat /\ DOMAIN u = 1..Len(u)
      /\ Len(t) \in Nat /\ DOMAIN t = 1..Len(t)
  BY LenProperties
<1>2. /\ \A i, j \in 1..Len(u) : u[i] = u[j] => i = j
      /\ \A i, j \in 1..Len(t) : t[i] = t[j] => i = j
  BY <1>1 DEF Ordered
<1>3. /\ \A j \in 1..Len(u) : \E a \in 1..Len(t) : u[j] = t[a]
      /\ \A a \in 1..Len(t) : \E j \in 1..Len(u) : t[a] = u[j]
  <2>1. /\ \A j \in 1..Len(u) : u[j] \in Range(t)
        /\ \A a \in 1..Len(t) : t[a] \in Range(u)
    BY <1>1 DEF Range
  <2> QED
    BY <1>1, <2>1 DEF Range
<1> DEFINE moved == {j \in 1..Len(u) : ~(j \in 1..Len(t) /\ u[j] = t[j])}
<1>4. moved = {}
  <2>1. SUFFICES ASSUME moved # {} PROVE FALSE
    OBVIOUS
  <2>2. moved \in SUBSET Nat
    BY <1>1
  <2>3. PICK j \in moved : \A k \in moved : j <= k
    <3> HIDE DEF moved
    <3> QED
      BY <2>1, <2>2, LeastNumber
  <2>4. /\ j \in 1..Len(u) /\ ~(j \in 1..Len(t) /\ u[j] = t[j])
        /\ \A k \in 1..Len(u) : k < j => k \in 1..Len(t) /\ u[k] = t[k]
    <3>1. j \in 1..Len(u) /\ ~(j \in 1..Len(t) /\ u[j] = t[j])
      OBVIOUS
    <3>2. ASSUME NEW k \in 1..Len(u), k < j PROVE k \notin moved
      <4> HIDE DEF moved
      <4> QED
        BY <1>1, <2>3, <3>1, <3>2
    <3> QED
      BY <3>1, <3>2
  <2> HIDE DEF moved
  <2>5. PICK a \in 1..Len(t) : u[j] = t[a]
    BY <1>3, <2>4
  <2>6. CASE a < j
    <3>1. a \in 1..Len(u)
      BY <1>1, <2>4, <2>6
    <3> QED
      BY <1>1, <1>2, <2>4, <2>5, <2>6, <3>1
  <2>7. CASE a > j
    <3>1. j \in 1..Len(t)
      BY <1>1, <2>4, <2>7
    <3>2. PICK b \in 1..Len(u) : t[j] = u[b]
      BY <1>3, <3>1
    <3>3. CASE b < j
      <4>1. b \in 1..Len(t) /\ t[j] = t[b]
        BY <2>4, <3>2, <3>3
      <4> QED
        BY <1>1, <1>2, <3>1, <3>3, <4>1
    <3>4. CASE b > j
      BY <1>1, <2>4, <2>5, <2>7, <3>1, <3>2, <3>4 DEF Ordered
    <3> QED
      BY <1>1, <2>4, <3>1, <3>2, <3>3, <3>4
  <2> QED
    BY <1>1, <2>4, <2>5, <2>6, <2>7
<1>5. \A j \in 1..Len(u) : j \in 1..Len(t) /\ u[j] = t[j]
  BY <1>4
<1> HIDE DEF moved
<1>6. Len(u) = Len(t)
  <2>1. Len(u) <= Len(t)
    <3>1. CASE Len(u) = 0
      BY <1>1, <3>1
    <3>2. CASE Len(u) # 0
      <4>1. Len(u) \in 1..Len(u)
        BY <1>1, <3>2
      <4> QED
        BY <1>1, <1>5, <4>1
    <3> QED
      BY <3>1, <3>2
  <2>2. ASSUME Len(u) < Len(t) PROVE FALSE
    <3>1. Len(u) + 1 \in 1..Len(t)
      BY <1>1, <2>2
    <3>2. PICK b \in 1..Len(u) : t[Len(u) + 1] = u[b]
      BY <1>3, <3>1
    <3>3. b \in 1..Len(t) /\ t[Len(u) + 1] = t[b]
      BY <1>5, <3>2
    <3>4. Len(u) + 1 = b
      BY <1>2, <3>1, <3>3
    <3> QED
      BY <1>1, <3>4
  <2>3. Len(u) \in Nat /\ Len(t) \in Nat
    BY <1>1
  <2> QED
    BY <2>1, <2>2, <2>3
<1> QED
  BY <1>1, <1>5, <1>6, SeqEqual

(* Put behind what is before it in t, an item is where t has it.           *)
LEMMA PutInOrder ==
  ASSUME NEW S, NEW u \in Seq(S), NEW t \in Seq(S), Ordered(u, t), Ordered(t, t),
         Range(u) \subseteq Range(t), NEW i \in 1..Len(t), t[i] \notin Range(u)
  PROVE  Ordered(InsertAt(u, PlaceFor(u, t, i), t[i]), t)
<1> DEFINE k == PlaceFor(u, t, i)
           v == InsertAt(u, k, t[i])
           Before(j) == \E h \in 1..i - 1 : t[h] = u[j]
<1>1. /\ Len(u) \in Nat /\ DOMAIN u = 1..Len(u)
      /\ Len(t) \in Nat /\ DOMAIN t = 1..Len(t) /\ t[i] \in S
  BY LenProperties
<1>2. /\ k \in 1..Len(u) + 1
      /\ \A j \in DOMAIN u : Before(j) => j < k
      /\ k = 1 \/ (k - 1 \in DOMAIN u /\ Before(k - 1))
  BY PlaceInList
<1> HIDE DEF k
<1>3. /\ v \in Seq(S) /\ Len(v) = Len(u) + 1
      /\ \A j \in 1..Len(u) + 1 : v[j] = IF j < k THEN u[j] ELSE IF j = k THEN t[i] ELSE u[j - 1]
  <2>1. PICK x : x = t[i]
    OBVIOUS
  <2>2. /\ InsertAt(u, k, x) \in Seq(S) /\ Len(InsertAt(u, k, x)) = Len(u) + 1
        /\ \A j \in 1..Len(u) + 1 :
             InsertAt(u, k, x)[j] = IF j < k THEN u[j] ELSE IF j = k THEN x ELSE u[j - 1]
    <3>1. x \in S /\ k \in 1..Len(u) + 1
      BY <1>1, <1>2, <2>1
    <3> QED
      BY <3>1, InsertedItem
  <2> QED
    BY <2>1, <2>2
<1> HIDE DEF v
<1>4. DOMAIN v = 1..Len(u) + 1
  BY <1>3, LenProperties
<1>5. \A a, b \in 1..Len(t) : t[a] = t[b] => a = b
  BY <1>1 DEF Ordered
<1>6. \A j \in 1..Len(u) : u[j] # t[i]
  BY <1>1 DEF Range
<1>7. ASSUME NEW j \in 1..Len(u), NEW a \in 1..Len(t), u[j] = t[a], j < k PROVE a < i
  <2>1. k - 1 \in DOMAIN u /\ Before(k - 1)
    BY <1>1, <1>2, <1>7
  <2>2. PICK h \in 1..i - 1 : t[h] = u[k - 1]
    BY <2>1
  <2>3. h \in 1..Len(t) /\ h < i
    BY <1>1
  <2>4. CASE j = k - 1
    BY <1>5, <1>7, <2>2, <2>3, <2>4
  <2>5. CASE j < k - 1
    <3>1. a < h
      BY <1>1, <1>7, <2>1, <2>2, <2>3, <2>5 DEF Ordered
    <3> QED
      BY <1>1, <2>3, <3>1
  <2> QED
    BY <1>1, <1>2, <1>7, <2>4, <2>5
<1>8. ASSUME NEW j \in 1..Len(u), NEW a \in 1..Len(t), u[j] = t[a], j >= k PROVE i < a
  <2>1. ~Before(j)
    BY <1>1, <1>2, <1>8
  <2>2. a \notin 1..i - 1 /\ a # i
    BY <1>6, <1>8, <2>1
  <2> QED
    BY <1>1, <2>2
<1>9. SUFFICES ASSUME NEW x \in 1..Len(u) + 1, NEW y \in 1..Len(u) + 1,
                      NEW a \in 1..Len(t), NEW b \in 1..Len(t),
                      x < y, v[x] = t[a], v[y] = t[b]
               PROVE  a < b
  BY <1>1, <1>4 DEF Ordered, v, k
<1>10. \A m \in 1..Len(u) + 1 : (m < k => m \in 1..Len(u)) /\ (m > k => m - 1 \in 1..Len(u) /\ m - 1 >= k)
  BY <1>1, <1>2
<1>11. CASE x < k /\ y < k
  <2>1. v[x] = u[x] /\ v[y] = u[y] /\ x \in DOMAIN u /\ y \in DOMAIN u
    BY <1>1, <1>3, <1>10, <1>11
  <2> QED
    BY <1>1, <1>9, <2>1 DEF Ordered
<1>12. CASE x < k /\ y = k
  <2>1. v[x] = u[x] /\ v[y] = t[i] /\ x \in 1..Len(u)
    BY <1>1, <1>2, <1>3, <1>10, <1>12
  <2>2. b = i
    BY <1>5, <1>9, <2>1
  <2> QED
    BY <1>7, <1>9, <1>12, <2>1, <2>2
<1>13. CASE x < k /\ y > k
  <2>1. v[x] = u[x] /\ v[y] = u[y - 1] /\ x \in 1..Len(u) /\ y - 1 \in 1..Len(u) /\ y - 1 >= k
    BY <1>1, <1>2, <1>3, <1>10, <1>13
  <2>2. a < i /\ i < b
    BY <1>7, <1>8, <1>9, <1>13, <2>1
  <2> QED
    BY <1>1, <2>2
<1>14. CASE x = k /\ y > k
  <2>1. v[x] = t[i] /\ v[y] = u[y - 1] /\ y - 1 \in 1..Len(u) /\ y - 1 >= k
    BY <1>1, <1>2, <1>3, <1>10, <1>14
  <2>2. a = i
    BY <1>5, <1>9, <2>1
  <2> QED
    BY <1>8, <1>9, <2>1, <2>2
<1>15. CASE x > k /\ y > k
  <2>1. /\ v[x] = u[x - 1] /\ v[y] = u[y - 1]
        /\ x - 1 \in DOMAIN u /\ y - 1 \in DOMAIN u /\ x - 1 < y - 1
    BY <1>1, <1>2, <1>3, <1>9, <1>10, <1>15
  <2> QED
    BY <1>1, <1>9, <2>1 DEF Ordered
<1> QED
  BY <1>1, <1>2, <1>9, <1>11, <1>12, <1>13, <1>14, <1>15

(* What merges at once is just what was made.                              *)
LEMMA MergesListInPlace ==
  ASSUME NEW S, NEW s \in Seq(S), NEW t \in Seq(S),
         Ordered(s, s), Ordered(t, t), Ordered(t, s)
  PROVE  MergedList(s, s, t) = t
<1>1. /\ Len(t) \in Nat /\ DOMAIN t = 1..Len(t) /\ (\A i \in 1..Len(t) : t[i] \in S)
      /\ Len(s) \in Nat /\ DOMAIN s = 1..Len(s)
  BY LenProperties
<1>2. PICK now, base : now = s /\ base = s
  OBVIOUS
<1>3. Len(t) \in Nat
  BY <1>1
<1>4. PICK f : /\ MergedList(now, base, t) = f[Len(t)]
               /\ f[0] = WithoutItems(now, Range(base) \ Range(t))
               /\ \A i \in 1..Len(t) :
                    f[i] = IF t[i] \in Range(base) \cup Range(f[i - 1]) THEN f[i - 1]
                           ELSE InsertAt(f[i - 1], PlaceFor(f[i - 1], t, i), t[i])
  BY <1>3, InsertedStepByStep
<1>5. /\ MergedList(s, s, t) = f[Len(t)]
      /\ f[0] = WithoutItems(s, Range(s) \ Range(t))
      /\ \A i \in 1..Len(t) :
           f[i] = IF t[i] \in Range(s) \cup Range(f[i - 1]) THEN f[i - 1]
                  ELSE InsertAt(f[i - 1], PlaceFor(f[i - 1], t, i), t[i])
  BY <1>2, <1>4
<1> DEFINE Good(i) == /\ f[i] \in Seq(S)
                      /\ Range(f[i]) = (Range(s) \cap Range(t)) \cup {t[h] : h \in 1..i}
                      /\ Ordered(f[i], t) /\ Ordered(f[i], f[i])
           bad == {i \in 0..Len(t) : ~Good(i)}
<1>6. bad = {}
  <2>1. SUFFICES ASSUME bad # {} PROVE FALSE
    OBVIOUS
  <2>2. bad \in SUBSET Nat
    BY <1>1
  <2>3. PICK i \in bad : \A k \in bad : i <= k
    <3> HIDE DEF bad
    <3> QED
      BY <2>1, <2>2, LeastNumber
  <2>4. i # 0
    <3>1. PICK kept : kept = WithoutItems(s, Range(s) \ Range(t))
      OBVIOUS
    <3>2. /\ kept \in Seq(S) /\ Range(kept) = Range(s) \ (Range(s) \ Range(t))
          /\ Ordered(kept, s)
      BY <3>1, KeptInOrder
    <3>3. Ordered(kept, kept)
      BY <3>2, SelectionIsAlone
    <3>4. {t[h] : h \in 1..0} = {}
      OBVIOUS
    <3>5. Ordered(kept, t)
      <4> SUFFICES ASSUME NEW x \in DOMAIN kept, NEW y \in DOMAIN kept,
                          NEW a \in DOMAIN t, NEW b \in DOMAIN t,
                          x < y, kept[x] = t[a], kept[y] = t[b]
                   PROVE  a < b
        BY DEF Ordered
      <4>1. PICK p \in DOMAIN s, q \in DOMAIN s : kept[x] = s[p] /\ kept[y] = s[q]
        <5>1. kept[x] \in Range(s) /\ kept[y] \in Range(s)
          BY <3>2 DEF Range
        <5> QED
          BY <5>1 DEF Range
      <4>2. p < q
        BY <3>2, <4>1 DEF Ordered
      <4>3. t[a] = s[p] /\ t[b] = s[q]
        BY <4>1
      <4>4. b < a => q < p
        BY <4>3 DEF Ordered
      <4>5. a = b => q < p \/ p = q
        <5>1. \A h, j \in DOMAIN s : s[h] = s[j] => h = j
          BY <1>1 DEF Ordered
        <5> QED
          BY <4>3, <5>1
      <4> QED
        BY <1>1, <4>2, <4>4, <4>5
    <3>6. Good(0)
      BY <1>5, <3>1, <3>2, <3>3, <3>4, <3>5
    <3> QED
      BY <3>6
  <2>5. i \in 1..Len(t) /\ i - 1 \in 0..Len(t) /\ i - 1 \notin bad
    <3>1. i \in 1..Len(t) /\ i - 1 \in 0..Len(t) /\ i - 1 < i
      BY <1>1, <2>4
    <3> HIDE DEF bad
    <3> QED
      BY <2>3, <3>1
  <2>6. Good(i - 1) /\ t[i] \in S /\ t[i] \in Range(t)
    BY <1>1, <2>5 DEF Range
  <2>7. {t[h] : h \in 1..i} = {t[h] : h \in 1..i - 1} \cup {t[i]}
    <3>1. 1..i = (1..i - 1) \cup {i}
      BY <2>5
    <3> QED
      BY <3>1
  <2>8. CASE t[i] \in Range(s) \cup Range(f[i - 1])
    <3>1. f[i] = f[i - 1]
      BY <1>5, <2>5, <2>8
    <3>2. PICK u : u = f[i - 1]
      OBVIOUS
    <3>3. t[i] \in Range(u)
      BY <2>6, <2>8, <3>2
    <3>4. Range(f[i]) = (Range(s) \cap Range(t)) \cup {t[h] : h \in 1..i}
      BY <2>6, <2>7, <3>1, <3>2, <3>3
    <3>5. Good(i)
      BY <2>6, <3>1, <3>4
    <3> QED
      BY <3>5
  <2>9. CASE t[i] \notin Range(s) \cup Range(f[i - 1])
    <3>1. PICK u, k : u = f[i - 1] /\ k = PlaceFor(u, t, i)
      OBVIOUS
    <3>2. f[i] = InsertAt(u, k, t[i])
      BY <1>5, <2>5, <2>9, <3>1
    <3>3. u \in Seq(S) /\ Ordered(u, u) /\ Ordered(u, t) /\ t[i] \notin Range(u)
      BY <2>6, <2>9, <3>1
    <3>4. k \in 1..Len(u) + 1
      BY <3>1, <3>3, PlaceInList
    <3>5. /\ f[i] \in Seq(S) /\ Range(f[i]) = Range(u) \cup {t[i]}
      BY <2>6, <3>2, <3>3, <3>4, InsertedItem
    <3>6. Ordered(f[i], f[i])
      BY <2>6, <3>2, <3>3, <3>4, NewItemIsAlone
    <3>7. Range(f[i]) = (Range(s) \cap Range(t)) \cup {t[h] : h \in 1..i}
      BY <2>6, <2>7, <3>1, <3>5
    <3>8. Range(u) \subseteq Range(t)
      <4>1. {t[h] : h \in 1..i - 1} \subseteq Range(t)
        BY <1>1, <2>5 DEF Range
      <4> QED
        BY <2>6, <3>1, <4>1
    <3>9. Ordered(f[i], t)
      BY <2>5, <3>1, <3>2, <3>3, <3>8, PutInOrder
    <3>10. Good(i)
      BY <3>5, <3>6, <3>7, <3>9
    <3> QED
      BY <3>10
  <2> QED
    BY <2>8, <2>9
<1>7. Good(Len(t))
  <2>1. Len(t) \in 0..Len(t)
    BY <1>1
  <2> QED
    BY <1>6, <2>1
<1>8. Range(t) = {t[h] : h \in 1..Len(t)}
  BY <1>1 DEF Range
<1>9. PICK u : u = f[Len(t)]
  OBVIOUS
<1>10. u \in Seq(S) /\ Range(u) = Range(t) /\ Ordered(u, t) /\ Ordered(u, u)
  BY <1>7, <1>8, <1>9
<1>11. u = t
  BY <1>10, SameItemsSameOrder
<1> QED
  BY <1>5, <1>9, <1>11

(* An item put at the end of a list.                                       *)
LEMMA AppendedItem ==
  ASSUME NEW S, NEW u \in Seq(S), NEW x \in S, Ordered(u, u), x \notin Range(u)
  PROVE  /\ Append(u, x) \in Seq(S)
         /\ Range(Append(u, x)) = Range(u) \cup {x}
         /\ Ordered(Append(u, x), Append(u, x)) /\ Ordered(Append(u, x), u)
<1> DEFINE v == Append(u, x)
<1>1. Len(u) \in Nat /\ DOMAIN u = 1..Len(u)
  BY LenProperties
<1>2. /\ v \in Seq(S) /\ Len(v) = Len(u) + 1
      /\ (\A j \in 1..Len(u) : v[j] = u[j]) /\ v[Len(u) + 1] = x
  BY AppendProperties
<1> HIDE DEF v
<1>3. DOMAIN v = 1..Len(u) + 1
  BY <1>2, LenProperties
<1>4. (1..Len(u) + 1) = (1..Len(u)) \cup {Len(u) + 1}
  BY <1>1
<1>5. Range(v) = Range(u) \cup {x}
  BY <1>1, <1>2, <1>3, <1>4 DEF Range
<1>6. \A j \in 1..Len(u) : u[j] # x
  BY <1>1 DEF Range
<1>7. \A j, h \in 1..Len(u) : u[j] = u[h] => j = h
  BY <1>1 DEF Ordered
<1>8. \A j, h \in 1..Len(u) + 1 : v[j] = v[h] => j = h
  BY <1>1, <1>2, <1>4, <1>6, <1>7
<1>9. Ordered(v, v)
  BY <1>3, <1>8 DEF Ordered
<1>10. Ordered(v, u)
  <2> SUFFICES ASSUME NEW i \in DOMAIN v, NEW j \in DOMAIN v, NEW a \in DOMAIN u, NEW b \in DOMAIN u,
                      i < j, v[i] = u[a], v[j] = u[b]
               PROVE  a < b
    BY DEF Ordered
  <2>1. i \in 1..Len(u) /\ j \in 1..Len(u)
    BY <1>1, <1>2, <1>3, <1>4, <1>6
  <2> QED
    BY <1>1, <1>2, <1>7, <2>1
<1> QED
  BY <1>2, <1>5, <1>9, <1>10 DEF v

(* A list without the item at one place.                                   *)
LEMMA RemovedItem ==
  ASSUME NEW S, NEW u \in Seq(S), NEW k \in 1..Len(u), Ordered(u, u)
  PROVE  /\ RemoveAt(u, k) \in Seq(S)
         /\ Len(RemoveAt(u, k)) = Len(u) - 1
         /\ Range(RemoveAt(u, k)) = Range(u) \ {u[k]}
         /\ Ordered(RemoveAt(u, k), u) /\ Ordered(RemoveAt(u, k), RemoveAt(u, k))
<1> DEFINE a == SubSeq(u, 1, k - 1)
           b == SubSeq(u, k + 1, Len(u))
           v == RemoveAt(u, k)
<1>1. Len(u) \in Nat /\ DOMAIN u = 1..Len(u) /\ \A j \in 1..Len(u) : u[j] \in S
  BY LenProperties
<1>2. /\ a \in Seq(S) /\ Len(a) = k - 1 /\ \A j \in 1..k - 1 : a[j] = u[j]
      /\ b \in Seq(S) /\ Len(b) = Len(u) - k /\ \A j \in 1..Len(u) - k : b[j] = u[k + j]
  <2>1. /\ a \in Seq(S) /\ Len(a) = (IF 1 <= k - 1 THEN k - 1 - 1 + 1 ELSE 0)
        /\ \A j \in 1..(k - 1) - 1 + 1 : a[j] = u[1 + j - 1]
    BY <1>1, SubSeqProperties
  <2>2. /\ b \in Seq(S) /\ Len(b) = (IF k + 1 <= Len(u) THEN Len(u) - (k + 1) + 1 ELSE 0)
        /\ \A j \in 1..Len(u) - (k + 1) + 1 : b[j] = u[k + 1 + j - 1]
    BY <1>1, SubSeqProperties
  <2> QED
    BY <1>1, <2>1, <2>2
<1>3. v = a \o b
  BY DEF RemoveAt
<1> HIDE DEF a, b, v
<1>4. /\ v \in Seq(S) /\ Len(v) = Len(u) - 1
      /\ \A j \in 1..Len(u) - 1 : v[j] = IF j < k THEN u[j] ELSE u[j + 1]
  <2>1. /\ a \o b \in Seq(S) /\ Len(a \o b) = Len(a) + Len(b)
        /\ \A j \in 1..Len(a) + Len(b) : (a \o b)[j] = IF j <= Len(a) THEN a[j] ELSE b[j - Len(a)]
    BY <1>2, ConcatProperties
  <2>2. k - 1 + (Len(u) - k) = Len(u) - 1
    BY <1>1
  <2>3. ASSUME NEW j \in 1..Len(u) - 1 PROVE v[j] = IF j < k THEN u[j] ELSE u[j + 1]
    <3>1. v[j] = IF j <= k - 1 THEN a[j] ELSE b[j - (k - 1)]
      BY <1>2, <1>3, <2>1, <2>2
    <3>2. CASE j < k
      BY <1>1, <1>2, <3>1, <3>2
    <3>3. CASE ~(j < k)
      <4>1. j - (k - 1) \in 1..Len(u) - k /\ k + (j - (k - 1)) = j + 1
        BY <1>1, <3>3
      <4>2. v[j] = b[j - (k - 1)]
        BY <1>1, <3>1, <3>3
      <4> QED
        BY <1>2, <3>3, <4>1, <4>2
    <3> QED
      BY <3>2, <3>3
  <2> QED
    BY <1>2, <1>3, <2>1, <2>2, <2>3
<1>5. DOMAIN v = 1..Len(u) - 1
  BY <1>4, LenProperties
<1>6. \A j, h \in 1..Len(u) : u[j] = u[h] => j = h
  BY <1>1 DEF Ordered
<1> DEFINE at(j) == IF j < k THEN j ELSE j + 1
<1>7. \A j \in 1..Len(u) - 1 : at(j) \in 1..Len(u) /\ at(j) # k /\ v[j] = u[at(j)]
  BY <1>1, <1>4
<1>8. \A j, h \in 1..Len(u) - 1 : j < h => at(j) < at(h)
  BY <1>1
<1>9. \A m \in 1..Len(u) : m # k => \E j \in 1..Len(u) - 1 : at(j) = m
  <2> SUFFICES ASSUME NEW m \in 1..Len(u), m # k PROVE \E j \in 1..Len(u) - 1 : at(j) = m
    OBVIOUS
  <2>1. CASE m < k
    <3>1. m \in 1..Len(u) - 1 /\ at(m) = m
      BY <1>1, <2>1
    <3> QED
      BY <3>1
  <2>2. CASE m > k
    <3>1. m - 1 \in 1..Len(u) - 1 /\ at(m - 1) = m
      BY <1>1, <2>2
    <3> QED
      BY <3>1
  <2> QED
    BY <1>1, <2>1, <2>2
<1> HIDE DEF at
<1>10. Range(v) = Range(u) \ {u[k]}
  <2>1. ASSUME NEW y \in Range(v) PROVE y \in Range(u) \ {u[k]}
    <3>1. PICK j \in 1..Len(u) - 1 : y = v[j]
      BY <1>5 DEF Range
    <3> QED
      BY <1>1, <1>6, <1>7, <3>1 DEF Range
  <2>2. ASSUME NEW y \in Range(u) \ {u[k]} PROVE y \in Range(v)
    <3>1. PICK m \in 1..Len(u) : y = u[m] /\ m # k
      BY <1>1 DEF Range
    <3>2. PICK j \in 1..Len(u) - 1 : at(j) = m
      BY <1>9, <3>1
    <3>3. y = v[j]
      BY <1>7, <3>1, <3>2
    <3> QED
      BY <1>5, <3>3 DEF Range
  <2> QED
    BY <2>1, <2>2
<1>11. Ordered(v, u)
  <2> SUFFICES ASSUME NEW i \in 1..Len(u) - 1, NEW j \in 1..Len(u) - 1,
                      NEW p \in 1..Len(u), NEW q \in 1..Len(u),
                      i < j, v[i] = u[p], v[j] = u[q]
               PROVE  p < q
    BY <1>1, <1>5 DEF Ordered
  <2>1. p = at(i) /\ q = at(j)
    BY <1>6, <1>7
  <2> QED
    BY <1>8, <2>1
<1>12. Ordered(v, v)
  BY <1>4, <1>10, <1>11, SelectionIsAlone
<1> QED
  BY <1>4, <1>10, <1>11, <1>12 DEF v


-----------------------------------------------------------------------------
KPhases == {"idle", "sent", "merged", "refused", "lost", "late"}
Item == [id : Known, allowList : SUBSET WorkspaceDocs, by : Known]
CollectionArray(d) == d \in Seq(Item) /\ Ordered(d, d)

(* Who has left a mark in the array: the collection there is at first, and *)
(* the calls whose update was merged.                                      *)
Landed == {TheCollection} \cup {c \in CollectionCalls : kPhase[c] \in {"merged", "late"}}
LandedOnly(d) == \A x \in Range(d) : x.id \in Landed /\ x.by \in Landed
OneOfEach(d) == \A x, y \in Range(d) : x.id = y.id => x = y

(* What c may make of the array: one item more, one replaced, one less.    *)
ItemAdded(c, base, made, asked) ==
  asked = {} /\ Range(made) = Range(base) \cup {Collection(c, {}, c)}
ItemReplaced(c, base, made, asked) ==
  \E x \in Range(base), allow \in SUBSET WorkspaceDocs, op \in {"rename", "add", "remove", "rules"} :
    \E docs \in SUBSET WorkspaceDocs :
      /\ Range(made) = (Range(base) \ {x}) \cup {Collection(x.id, allow, c)}
      /\ asked = Request(op, x.id, docs)
      /\ op = "add" => allow = x.allowList \cup docs
      /\ op = "remove" => allow = x.allowList \ docs
      /\ op = "rules" => allow = docs
ItemDeleted(base, made, asked, deleted) ==
  \E x \in Range(base) :
    /\ Range(made) = Range(base) \ {x}
    /\ asked = Request("delete", x.id, {}) /\ x.id \in deleted
ItemEdited(c, base, made, asked, deleted) ==
  \/ ItemAdded(c, base, made, asked)
  \/ ItemReplaced(c, base, made, asked)
  \/ ItemDeleted(base, made, asked, deleted)

(* An update that may yet be merged, or is the last one that was.          *)
Live(c) == kPhase[c] \in {"sent", "lost"} \/ (kPhase[c] = "merged" /\ kUpdate[c].asked # {})
CollectionUpdateFits(c) ==
  Live(c) =>
    /\ CollectionArray(kUpdate[c].base) /\ CollectionArray(kUpdate[c].made)
    /\ LandedOnly(kUpdate[c].base)
    /\ ItemEdited(c, kUpdate[c].base, kUpdate[c].made, kUpdate[c].asked, kDeleted)

(* One call at a time is at work; it forgets the one before it.            *)
OneAtWork ==
  \A c, o \in CollectionCalls : c # o /\ kPhase[c] = "sent" =>
    kPhase[o] # "sent" /\ (kPhase[o] = "merged" => kUpdate[o].asked = {})

NothingLost == TheCollection \notin kDeleted => \E x \in Range(kDoc) : x.id = TheCollection

NothingTwice ==
  ~kStale =>
    /\ OneOfEach(kDoc)
    /\ \A c \in CollectionCalls : kPhase[c] = "merged" =>
         \A a \in kUpdate[c].asked : a.op = "delete" => \A x \in Range(kDoc) : x.id # a.id

(* Until an update is merged late, the last call's is the only one.        *)
LastCallOnly ==
  (\A c \in CollectionCalls : kPhase[c] # "late") =>
    /\ ~kStale
    /\ \A c \in CollectionCalls : kPhase[c] = "sent" => kUpdate[c].base = kDoc
    /\ \A c \in CollectionCalls : kPhase[c] = "merged" /\ kUpdate[c].asked # {} =>
         Range(kDoc) = Range(kUpdate[c].made) /\ OneOfEach(kUpdate[c].base)

CollectionsInv ==
  /\ kPhase \in [CollectionCalls -> KPhases] /\ kStale \in BOOLEAN
  /\ CollectionArray(kDoc) /\ LandedOnly(kDoc)
  /\ \A c \in CollectionCalls : CollectionUpdateFits(c)
  /\ OneAtWork /\ NothingLost /\ NothingTwice /\ LastCallOnly

(* The workspace starts with one collection.                               *)
LEMMA InitCollections == CollectionsInit => CollectionsInv
<1> SUFFICES ASSUME CollectionsInit PROVE CollectionsInv
  OBVIOUS
<1> DEFINE x == Collection(TheCollection, {}, TheCollection)
<1>1. /\ kDoc = <<x>> /\ kDeleted = {} /\ kStale = FALSE
      /\ kPhase = [c \in CollectionCalls |-> "idle"]
  BY DEF CollectionsInit, KU!UpdatesInit
<1>2. x \in Item /\ x.id = TheCollection /\ x.by = TheCollection
  BY DEF Collection, Item, Known
<1> HIDE DEF x
<1>3. kDoc \in Seq(Item) /\ DOMAIN kDoc = {1} /\ kDoc[1] = x
  BY <1>1, <1>2
<1>4. Range(kDoc) = {x}
  BY <1>3 DEF Range
<1>5. Ordered(kDoc, kDoc)
  BY <1>3 DEF Ordered
<1> QED
  BY <1>1, <1>2, <1>3, <1>4, <1>5
     DEF CollectionsInv, KPhases, CollectionArray, LandedOnly, Landed, CollectionUpdateFits, Live,
         OneAtWork, NothingLost, NothingTwice, LastCallOnly, OneOfEach

(* Only a deletion counts on what was deleted before.                      *)
LEMMA EditedStill ==
  ASSUME NEW c, NEW base, NEW made, NEW asked, NEW less, NEW more, less \subseteq more,
         ItemEdited(c, base, made, asked, less)
  PROVE  ItemEdited(c, base, made, asked, more)
BY DEF ItemEdited, ItemDeleted

(* A handler pushes an array with one change, or throws.                   *)
LEMMA CollectionHandledKeeps ==
  ASSUME CollectionsInv, NEW c \in CollectionCalls, NEW results, NEW asked,
         KU!Handled(c, results, asked), kDeleted \subseteq kDeleted',
         \A made \in results : CollectionArray(made) /\ ItemEdited(c, kDoc, made, asked, kDeleted')
  PROVE  CollectionsInv'
<1>1. /\ kPhase \in [CollectionCalls -> KPhases] /\ kStale \in BOOLEAN
      /\ CollectionArray(kDoc) /\ LandedOnly(kDoc)
      /\ \A o \in CollectionCalls : CollectionUpdateFits(o)
      /\ OneAtWork /\ NothingLost /\ NothingTwice /\ LastCallOnly
  BY DEF CollectionsInv
<1>2. /\ kPhase[c] = "idle" /\ UNCHANGED <<kDoc, kStale>>
      /\ \A o \in CollectionCalls : kPhase[o] # "sent"
  BY DEF KU!Handled
<1>3. CASE kPhase' = [kPhase EXCEPT ![c] = "refused"] /\ UNCHANGED kUpdate
  <2>1. \A o \in CollectionCalls : kPhase'[o] = IF o = c THEN "refused" ELSE kPhase[o]
    BY <1>1, <1>3
  <2>2. Landed' = Landed /\ kPhase' \in [CollectionCalls -> KPhases]
    BY <1>1, <1>2, <1>3, <2>1 DEF Landed, KPhases
  <2>3. CollectionArray(kDoc)' /\ LandedOnly(kDoc)'
    BY <1>1, <1>2, <2>2 DEF CollectionArray, LandedOnly
  <2>4. ASSUME NEW o \in CollectionCalls PROVE CollectionUpdateFits(o)'
    <3> SUFFICES ASSUME Live(o)'
                 PROVE  /\ CollectionArray(kUpdate[o].base) /\ CollectionArray(kUpdate[o].made)
                        /\ LandedOnly(kUpdate[o].base)'
                        /\ ItemEdited(o, kUpdate[o].base, kUpdate[o].made, kUpdate[o].asked, kDeleted')
      BY <1>3 DEF CollectionUpdateFits, CollectionArray
    <3>1. Live(o)
      BY <1>3, <2>1 DEF Live
    <3> QED
      BY <1>1, <1>3, <2>2, <3>1, EditedStill DEF CollectionUpdateFits, LandedOnly
  <2>5. OneAtWork' /\ NothingLost' /\ NothingTwice' /\ LastCallOnly'
    BY <1>1, <1>2, <1>3, <2>1 DEF OneAtWork, NothingLost, NothingTwice, LastCallOnly, OneOfEach
  <2> QED
    BY <1>1, <1>2, <2>2, <2>3, <2>4, <2>5 DEF CollectionsInv
<1>4. ASSUME NEW made \in results,
             kPhase' = [kPhase EXCEPT ![c] = "sent"],
             kUpdate' = [o \in CollectionCalls |->
               IF o = c THEN [base |-> kDoc, made |-> made, asked |-> asked]
               ELSE IF kPhase[o] = "lost" THEN kUpdate[o] ELSE KU!Nothing]
      PROVE  CollectionsInv'
  <2>1. \A o \in CollectionCalls : kPhase'[o] = IF o = c THEN "sent" ELSE kPhase[o]
    BY <1>1, <1>4
  <2>2. Landed' = Landed /\ kPhase' \in [CollectionCalls -> KPhases]
    BY <1>1, <1>2, <1>4, <2>1 DEF Landed, KPhases
  <2>3. CollectionArray(kDoc)' /\ LandedOnly(kDoc)'
    BY <1>1, <1>2, <2>2 DEF CollectionArray, LandedOnly
  <2>4. kUpdate'[c].base = kDoc /\ kUpdate'[c].made = made /\ kUpdate'[c].asked = asked
    BY <1>4
  <2>5. \A o \in CollectionCalls \ {c} :
          /\ kPhase[o] = "lost" => kUpdate'[o] = kUpdate[o]
          /\ kPhase[o] # "lost" => kUpdate'[o].asked = {}
    BY <1>4 DEF KU!Nothing
  <2>6. ASSUME NEW o \in CollectionCalls \ {c} PROVE CollectionUpdateFits(o)'
    <3> SUFFICES ASSUME Live(o)' PROVE CollectionUpdateFits(o)'
      BY DEF CollectionUpdateFits
    <3>1. kPhase[o] = "lost" /\ kUpdate'[o] = kUpdate[o]
      BY <1>1, <1>2, <2>1, <2>5 DEF Live
    <3>2. PICK u : u = kUpdate[o]
      OBVIOUS
    <3>3. /\ CollectionArray(u.base) /\ CollectionArray(u.made) /\ LandedOnly(u.base)
          /\ ItemEdited(o, u.base, u.made, u.asked, kDeleted)
      BY <1>1, <3>1, <3>2 DEF CollectionUpdateFits, Live
    <3>4. ItemEdited(o, u.base, u.made, u.asked, kDeleted')
      BY <3>3, EditedStill
    <3> QED
      BY <2>2, <3>1, <3>2, <3>3, <3>4 DEF CollectionUpdateFits, LandedOnly, CollectionArray
  <2>7. CollectionUpdateFits(c)'
    BY <1>1, <2>2, <2>4 DEF CollectionUpdateFits, LandedOnly, CollectionArray
  <2>8. OneAtWork'
    BY <1>2, <2>1, <2>5 DEF OneAtWork
  <2>9. NothingLost'
    BY <1>1, <1>2 DEF NothingLost
  <2>10. NothingTwice'
    BY <1>1, <1>2, <2>1, <2>5 DEF NothingTwice, OneOfEach
  <2>11. LastCallOnly'
    BY <1>1, <1>2, <2>1, <2>4, <2>5 DEF LastCallOnly, OneOfEach
  <2> QED
    BY <1>1, <1>2, <2>2, <2>3, <2>6, <2>7, <2>8, <2>9, <2>10, <2>11 DEF CollectionsInv
<1> QED
  BY <1>3, <1>4 DEF KU!Handled

(* What the edit of one call does to the items by id.                      *)
LEMMA EditedItems ==
  ASSUME NEW c, NEW base, NEW made, NEW asked, NEW deleted, ItemEdited(c, base, made, asked, deleted)
  PROVE  /\ \A x \in Range(made) \ Range(base) :
              x.by = c /\ (x.id = c \/ \E y \in Range(base) : x.id = y.id)
         /\ asked = {} \/ \E op, docs : \E y \in Range(base) : asked = Request(op, y.id, docs)
BY DEF ItemEdited, ItemAdded, ItemReplaced, ItemDeleted, Collection

(* A call that has left no mark keeps each collection once.                *)
LEMMA EditedKeepsOne ==
  ASSUME NEW c, NEW base, NEW made, NEW asked, NEW deleted, ItemEdited(c, base, made, asked, deleted),
         OneOfEach(base), \A x \in Range(base) : x.id # c
  PROVE  /\ OneOfEach(made)
         /\ \A a \in asked : a.op = "delete" => \A x \in Range(made) : x.id # a.id
<1>1. CASE ItemAdded(c, base, made, asked)
  BY <1>1 DEF ItemAdded, OneOfEach, Collection
<1>2. CASE ItemReplaced(c, base, made, asked)
  BY <1>2 DEF ItemReplaced, OneOfEach, Collection, Request
<1>3. CASE ItemDeleted(base, made, asked, deleted)
  BY <1>3 DEF ItemDeleted, OneOfEach, Request
<1> QED
  BY <1>1, <1>2, <1>3 DEF ItemEdited

(* An update is merged, in time or late, or its acknowledgement is lost.   *)
LEMMA CollectionMergeKeeps ==
  ASSUME CollectionsInv, NEW c \in CollectionCalls, KU!MergeUpdate(c) \/ KU!LoseAck(c),
         UNCHANGED kDeleted
  PROVE  CollectionsInv'
<1>1. /\ kPhase \in [CollectionCalls -> KPhases] /\ kStale \in BOOLEAN
      /\ CollectionArray(kDoc) /\ LandedOnly(kDoc)
      /\ \A o \in CollectionCalls : CollectionUpdateFits(o)
      /\ OneAtWork /\ NothingLost /\ NothingTwice /\ LastCallOnly
  BY DEF CollectionsInv
<1>2. CASE KU!LoseAck(c)
  <2>1. /\ kPhase[c] = "sent" /\ UNCHANGED <<kDoc, kUpdate, kStale, kDeleted>>
        /\ kPhase' = [kPhase EXCEPT ![c] = "lost"]
    BY <1>2 DEF KU!LoseAck
  <2>2. \A o \in CollectionCalls : kPhase'[o] = IF o = c THEN "lost" ELSE kPhase[o]
    BY <1>1, <2>1
  <2>3. Landed' = Landed /\ kPhase' \in [CollectionCalls -> KPhases]
    BY <1>1, <2>1, <2>2 DEF Landed, KPhases
  <2>4. CollectionArray(kDoc)' /\ LandedOnly(kDoc)'
    BY <1>1, <2>1, <2>3 DEF CollectionArray, LandedOnly
  <2>5. ASSUME NEW o \in CollectionCalls PROVE CollectionUpdateFits(o)'
    <3>1. Live(o)' => Live(o)
      BY <2>1, <2>2 DEF Live
    <3> QED
      BY <1>1, <2>1, <2>3, <3>1 DEF CollectionUpdateFits, LandedOnly, CollectionArray
  <2>6. OneAtWork' /\ NothingLost' /\ NothingTwice' /\ LastCallOnly'
    BY <1>1, <2>1, <2>2 DEF OneAtWork, NothingLost, NothingTwice, LastCallOnly, OneOfEach
  <2> QED
    BY <1>1, <2>1, <2>3, <2>4, <2>5, <2>6 DEF CollectionsInv
<1>3. CASE KU!MergeUpdate(c)
  <2>1. PICK base, made, asked : base = kUpdate[c].base /\ made = kUpdate[c].made /\ asked = kUpdate[c].asked
    OBVIOUS
  <2>2. PICK merged : merged = kDoc'
    OBVIOUS
  <2>3. /\ kPhase[c] \in {"sent", "lost"} /\ UNCHANGED <<kUpdate, kDeleted>>
        /\ kPhase' = [kPhase EXCEPT ![c] = IF kPhase[c] = "sent" THEN "merged" ELSE "late"]
        /\ merged = MergedList(kDoc, base, made)
        /\ kStale' = (kStale \/ kDoc # base)
    BY <1>3, <2>1, <2>2 DEF KU!MergeUpdate
  <2>4. \A o \in CollectionCalls : kPhase'[o] = IF o # c THEN kPhase[o]
                                           ELSE IF kPhase[c] = "sent" THEN "merged" ELSE "late"
    BY <1>1, <2>3
  <2>5. /\ CollectionArray(base) /\ CollectionArray(made) /\ LandedOnly(base)
        /\ ItemEdited(c, base, made, asked, kDeleted)
    BY <1>1, <2>1, <2>3 DEF CollectionUpdateFits, Live
  <2>6. /\ CollectionArray(merged)
        /\ Range(merged) = (Range(kDoc) \ (Range(base) \ Range(made))) \cup (Range(made) \ Range(base))
    BY <1>1, <2>3, <2>5, MergedItems DEF CollectionArray
  <2>7. /\ Landed' = Landed \cup {c} /\ kPhase' \in [CollectionCalls -> KPhases]
    BY <1>1, <2>3, <2>4 DEF Landed, KPhases
  <2>8. c \notin Landed
    BY <2>3, CollectionsAssumption DEF Landed
  <2>9. \A x \in Range(base) : x.id # c /\ x.by # c
    BY <2>5, <2>8 DEF LandedOnly
  <2>10. LandedOnly(merged)'
    <3> SUFFICES ASSUME NEW x \in Range(merged) PROVE x.id \in Landed \cup {c} /\ x.by \in Landed \cup {c}
      BY <2>7 DEF LandedOnly
    <3>1. CASE x \in Range(kDoc)
      BY <1>1, <3>1 DEF LandedOnly
    <3>2. CASE x \in Range(made) \ Range(base)
      BY <2>5, <3>2, EditedItems DEF LandedOnly
    <3> QED
      BY <2>6, <3>1, <3>2
  <2>11. ASSUME NEW o \in CollectionCalls PROVE CollectionUpdateFits(o)'
    <3>1. Live(o)' => Live(o)
      BY <2>3, <2>4 DEF Live
    <3> QED
      BY <1>1, <2>3, <2>7, <3>1 DEF CollectionUpdateFits, LandedOnly, CollectionArray
  <2>12. OneAtWork'
    BY <1>1, <2>3, <2>4 DEF OneAtWork
  <2>13. NothingLost'
    <3> SUFFICES ASSUME TheCollection \notin kDeleted
                 PROVE  \E x \in Range(merged) : x.id = TheCollection
      BY <2>2, <2>3 DEF NothingLost
    <3>1. PICK x \in Range(kDoc) : x.id = TheCollection
      BY <1>1 DEF NothingLost
    <3>2. CASE x \notin Range(base) \ Range(made)
      BY <2>6, <3>1, <3>2
    <3>3. CASE x \in Range(base) \ Range(made)
      <4>1. ItemReplaced(c, base, made, asked)
        BY <2>5, <3>1, <3>3 DEF ItemEdited, ItemAdded, ItemDeleted
      <4>2. \E y \in Range(made) : y.id = x.id /\ y.by = c
        <5>1. PICK z \in Range(base), allow \in SUBSET WorkspaceDocs :
                     Range(made) = (Range(base) \ {z}) \cup {Collection(z.id, allow, c)}
          BY <4>1 DEF ItemReplaced
        <5>2. PICK y : y = Collection(x.id, allow, c)
          OBVIOUS
        <5>3. y \in Range(made)
          BY <3>3, <5>1, <5>2
        <5>4. y.id = x.id /\ y.by = c
          BY <5>2 DEF Collection
        <5> QED
          BY <5>3, <5>4
      <4> QED
        BY <2>6, <2>9, <3>1, <4>2
    <3> QED
      BY <3>2, <3>3
  <2>14. ASSUME ~kStale' PROVE ~kStale /\ kDoc = base /\ Range(merged) = Range(made) /\ OneOfEach(base)
    <3>1. ~kStale /\ kDoc = base
      BY <1>1, <2>3, <2>14
    <3>2. OneOfEach(base)
      BY <1>1, <3>1 DEF NothingTwice
    <3> QED
      BY <2>6, <3>1, <3>2
  <2>15. NothingTwice'
    <3> SUFFICES ASSUME ~kStale'
                 PROVE  /\ OneOfEach(merged)
                        /\ \A o \in CollectionCalls : kPhase'[o] = "merged" =>
                             \A a \in kUpdate[o].asked : a.op = "delete" => \A x \in Range(merged) : x.id # a.id
      BY <2>2, <2>3 DEF NothingTwice, OneOfEach
    <3>1. /\ OneOfEach(made)
          /\ \A a \in asked : a.op = "delete" => \A x \in Range(made) : x.id # a.id
      BY <2>5, <2>9, <2>14, EditedKeepsOne
    <3>2. ASSUME NEW o \in CollectionCalls, kPhase'[o] = "merged", NEW a \in kUpdate[o].asked,
                 a.op = "delete", NEW x \in Range(merged)
          PROVE  x.id # a.id
      <4>1. CASE o = c
        BY <2>1, <2>14, <3>1, <3>2, <4>1
      <4>2. CASE o # c
        <5>1. kPhase[o] = "merged" /\ Live(o)
          BY <2>4, <3>2, <4>2 DEF Live
        <5>2. PICK u : u = kUpdate[o]
          OBVIOUS
        <5>3. LandedOnly(u.base) /\ ItemEdited(o, u.base, u.made, u.asked, kDeleted) /\ a \in u.asked
          BY <1>1, <3>2, <5>1, <5>2 DEF CollectionUpdateFits
        <5>4. PICK op, docs : \E y \in Range(u.base) : u.asked = Request(op, y.id, docs)
          <6>1. u.asked # {}
            BY <5>3
          <6>2. u.asked = {} \/ \E op, docs : \E y \in Range(u.base) : u.asked = Request(op, y.id, docs)
            BY <5>3, EditedItems
          <6> QED
            BY <6>1, <6>2
        <5>5. a.id \in Landed
          BY <5>3, <5>4 DEF LandedOnly, Request
        <5>6. \A z \in Range(base) : z.id # a.id
          BY <1>1, <2>14, <3>2, <5>1 DEF NothingTwice
        <5>7. x \in Range(made)
          BY <2>14
        <5> QED
          BY <2>5, <2>8, <5>5, <5>6, <5>7, EditedItems
      <4> QED
        BY <4>1, <4>2
    <3>3. OneOfEach(merged)
      BY <2>14, <3>1 DEF OneOfEach
    <3> QED
      BY <3>2, <3>3
  <2>16. LastCallOnly'
    <3> SUFFICES ASSUME \A o \in CollectionCalls : kPhase'[o] # "late"
                 PROVE  /\ ~kStale'
                        /\ \A o \in CollectionCalls : kPhase'[o] = "sent" => kUpdate[o].base = merged
                        /\ \A o \in CollectionCalls : kPhase'[o] = "merged" /\ kUpdate[o].asked # {} =>
                             Range(merged) = Range(kUpdate[o].made) /\ OneOfEach(kUpdate[o].base)
      BY <2>2, <2>3 DEF LastCallOnly, OneOfEach
    <3>1. kPhase[c] = "sent" /\ \A o \in CollectionCalls : kPhase[o] # "late"
      BY <2>3, <2>4
    <3>2. ~kStale /\ kDoc = base
      BY <1>1, <2>1, <3>1 DEF LastCallOnly
    <3>3. ~kStale'
      BY <2>3, <3>2
    <3>4. \A o \in CollectionCalls \ {c} : kPhase'[o] # "sent" /\ (kPhase'[o] = "merged" => kUpdate[o].asked = {})
      BY <1>1, <2>4, <3>1 DEF OneAtWork
    <3> QED
      BY <2>1, <2>4, <2>14, <3>1, <3>3, <3>4
  <2>17. (kStale \in BOOLEAN)'
    BY <2>3
  <2> QED
    BY <2>2, <2>6, <2>7, <2>10, <2>11, <2>12, <2>13, <2>15, <2>16, <2>17 DEF CollectionsInv,
       CollectionArray, LandedOnly
<1> QED
  BY <1>2, <1>3

(* The place of a collection.                                              *)
LEMMA FoundCollection ==
  ASSUME NEW d, CollectionArray(d), NEW id
  PROVE  /\ \A i \in findCollection(d, id) : i \in 1..Len(d) /\ d[i] \in Range(d) /\ d[i] \in Item /\ d[i].id = id
         /\ (\E x \in Range(d) : x.id = id) => findCollection(d, id) # {}
<1> DEFINE found == {i \in DOMAIN d : d[i].id = id}
<1>1. Len(d) \in Nat /\ DOMAIN d = 1..Len(d) /\ \A i \in 1..Len(d) : d[i] \in Item
  BY LenProperties DEF CollectionArray
<1>2. found # {} => \E i \in found : \A j \in found : i <= j
  <2>1. found \in SUBSET Nat
    BY <1>1
  <2> HIDE DEF found
  <2> QED
    BY <2>1, LeastNumber
<1>3. findCollection(d, id) = IF found = {} THEN {} ELSE {CHOOSE i \in found : \A j \in found : i <= j}
  BY DEF findCollection
<1>4. findCollection(d, id) \subseteq found /\ (found # {} => findCollection(d, id) # {})
  <2> HIDE DEF found
  <2> QED
    BY <1>2, <1>3
<1>5. (\E x \in Range(d) : x.id = id) => found # {}
  BY <1>1 DEF Range
<1>6. \A i \in found : i \in 1..Len(d) /\ d[i] \in Range(d) /\ d[i] \in Item /\ d[i].id = id
  BY <1>1 DEF Range
<1> HIDE DEF found
<1> QED
  BY <1>4, <1>5, <1>6

(* A handler that replaces a collection with a changed one.                *)
LEMMA MutatedKeeps ==
  ASSUME CollectionsInv, NEW c \in CollectionCalls, kPhase[c] = "idle", NEW i \in 1..Len(kDoc),
         NEW allow \in SUBSET WorkspaceDocs
  PROVE  LET made == mutateCollectionEntry(kDoc, c, i, allow)
         IN  /\ CollectionArray(made)
             /\ Range(made) = (Range(kDoc) \ {kDoc[i]}) \cup {Collection(kDoc[i].id, allow, c)}
<1>1. CollectionArray(kDoc) /\ LandedOnly(kDoc) /\ c \notin Landed
  BY CollectionsAssumption DEF CollectionsInv, Landed
<1>2. PICK d, x : d = kDoc /\ x = Collection(kDoc[i].id, allow, c)
  OBVIOUS
<1>3. d \in Seq(Item) /\ Ordered(d, d) /\ Len(d) \in Nat /\ DOMAIN d = 1..Len(d) /\ d[i] \in Item
  BY <1>1, <1>2, LenProperties DEF CollectionArray
<1>4. x \in Item /\ x.by = c
  BY <1>2, <1>3 DEF Collection, Item, Known
<1>5. x \notin Range(d)
  BY <1>1, <1>2, <1>4 DEF LandedOnly
<1>6. PICK rest : rest = RemoveAt(d, i)
  OBVIOUS
<1>7. /\ rest \in Seq(Item) /\ Len(rest) = Len(d) - 1
      /\ Range(rest) = Range(d) \ {d[i]} /\ Ordered(rest, rest)
  BY <1>2, <1>3, <1>6, RemovedItem
<1>8. i \in 1..Len(rest) + 1 /\ x \notin Range(rest)
  BY <1>2, <1>3, <1>5, <1>7
<1>9. /\ InsertAt(rest, i, x) \in Seq(Item) /\ Range(InsertAt(rest, i, x)) = Range(rest) \cup {x}
      /\ Ordered(InsertAt(rest, i, x), InsertAt(rest, i, x))
  BY <1>4, <1>7, <1>8, InsertedItem, NewItemIsAlone
<1> QED
  BY <1>2, <1>6, <1>7, <1>9 DEF mutateCollectionEntry, CollectionArray

(* A tool that pushes one changed collection.                              *)
LEMMA ReplacedKeeps ==
  ASSUME CollectionsInv, NEW c \in CollectionCalls, NEW op \in {"rename", "add", "remove", "rules"},
         NEW id, NEW docs \in SUBSET WorkspaceDocs, NEW results,
         KU!Handled(c, results, Request(op, id, docs)), UNCHANGED kDeleted,
         \A made \in results : \E i \in findCollection(kDoc, id), allow \in SUBSET WorkspaceDocs :
           /\ made = mutateCollectionEntry(kDoc, c, i, allow)
           /\ op = "add" => allow = kDoc[i].allowList \cup docs
           /\ op = "remove" => allow = kDoc[i].allowList \ docs
           /\ op = "rules" => allow = docs
  PROVE  CollectionsInv'
<1>1. CollectionArray(kDoc) /\ kPhase[c] = "idle"
  BY DEF CollectionsInv, KU!Handled
<1>2. ASSUME NEW made \in results
      PROVE  CollectionArray(made) /\ ItemEdited(c, kDoc, made, Request(op, id, docs), kDeleted')
  <2>1. PICK i \in findCollection(kDoc, id), allow \in SUBSET WorkspaceDocs :
           /\ made = mutateCollectionEntry(kDoc, c, i, allow)
           /\ op = "add" => allow = kDoc[i].allowList \cup docs
           /\ op = "remove" => allow = kDoc[i].allowList \ docs
           /\ op = "rules" => allow = docs
    BY <1>2
  <2>2. i \in 1..Len(kDoc) /\ kDoc[i] \in Range(kDoc) /\ kDoc[i].id = id
    BY <1>1, FoundCollection
  <2>3. /\ CollectionArray(made)
        /\ Range(made) = (Range(kDoc) \ {kDoc[i]}) \cup {Collection(id, allow, c)}
    BY <1>1, <2>1, <2>2, MutatedKeeps
  <2>4. ItemReplaced(c, kDoc, made, Request(op, id, docs))
    BY <2>1, <2>2, <2>3 DEF ItemReplaced
  <2> QED
    BY <2>3, <2>4 DEF ItemEdited
<1> QED
  BY <1>2, CollectionHandledKeeps

(* The collection tools keep it all.                                       *)
LEMMA CollectionsNextKeeps == CollectionsInv /\ [CollectionsNext]_collectionVars => CollectionsInv'
<1> SUFFICES ASSUME CollectionsInv, [CollectionsNext]_collectionVars PROVE CollectionsInv'
  OBVIOUS
<1>0. CollectionArray(kDoc) /\ LandedOnly(kDoc) /\ \A c \in CollectionCalls : kPhase[c] = "idle" => c \notin Landed
  BY CollectionsAssumption DEF CollectionsInv, Landed
<1>1. ASSUME NEW c \in CollectionCalls, createCollection(c) PROVE CollectionsInv'
  <2>1. PICK made, x : made = Append(kDoc, x) /\ x = Collection(c, {}, c)
    OBVIOUS
  <2>2. KU!Handled(c, {made}, {}) /\ UNCHANGED kDeleted /\ kPhase[c] = "idle"
    BY <1>1, <2>1 DEF createCollection, KU!Handled
  <2>3. x \in Item /\ x.by = c
    BY <2>1 DEF Collection, Item, Known
  <2>4. x \notin Range(kDoc)
    BY <1>0, <2>2, <2>3 DEF LandedOnly
  <2>5. CollectionArray(made) /\ Range(made) = Range(kDoc) \cup {x}
    BY <1>0, <2>1, <2>3, <2>4, AppendedItem DEF CollectionArray
  <2>6. ItemEdited(c, kDoc, made, {}, kDeleted')
    BY <2>1, <2>5 DEF ItemEdited, ItemAdded
  <2> QED
    BY <2>2, <2>5, <2>6, CollectionHandledKeeps
<1>2. ASSUME NEW c \in CollectionCalls, updateCollection(c) PROVE CollectionsInv'
  <2>1. PICK id \in Known :
          /\ KU!Handled(c, {mutateCollectionEntry(kDoc, c, i, kDoc[i].allowList) : i \in findCollection(kDoc, id)},
                        Request("rename", id, {}))
          /\ UNCHANGED kDeleted
    BY <1>2 DEF updateCollection, Mutate
  <2>2. PICK results : results = {mutateCollectionEntry(kDoc, c, i, kDoc[i].allowList)
                                  : i \in findCollection(kDoc, id)}
    OBVIOUS
  <2>3. \A made \in results : \E i \in findCollection(kDoc, id) :
          made = mutateCollectionEntry(kDoc, c, i, kDoc[i].allowList) /\ kDoc[i].allowList \in SUBSET WorkspaceDocs
    BY <1>0, <2>2, FoundCollection DEF Item
  <2> QED
    BY <2>1, <2>2, <2>3, ReplacedKeeps
<1>3. ASSUME NEW c \in CollectionCalls, addDocToCollection(c) PROVE CollectionsInv'
  <2>1. PICK id \in Known, docs \in SUBSET WorkspaceDocs :
          /\ KU!Handled(c, {mutateCollectionEntry(kDoc, c, i, kDoc[i].allowList \cup docs)
                            : i \in findCollection(kDoc, id)},
                        Request("add", id, docs))
          /\ UNCHANGED kDeleted
    BY <1>3 DEF addDocToCollection, Mutate
  <2>2. PICK results : results = {mutateCollectionEntry(kDoc, c, i, kDoc[i].allowList \cup docs)
                                  : i \in findCollection(kDoc, id)}
    OBVIOUS
  <2>3. ASSUME NEW made \in results
        PROVE  \E i \in findCollection(kDoc, id), allow \in SUBSET WorkspaceDocs :
                 /\ made = mutateCollectionEntry(kDoc, c, i, allow)
                 /\ allow = kDoc[i].allowList \cup docs
    <3>1. PICK i \in findCollection(kDoc, id) : made = mutateCollectionEntry(kDoc, c, i, kDoc[i].allowList \cup docs)
      BY <2>2
    <3>2. kDoc[i].allowList \cup docs \in SUBSET WorkspaceDocs
      BY <1>0, FoundCollection DEF Item
    <3> QED
      BY <3>1, <3>2
  <2>4. KU!Handled(c, results, Request("add", id, docs))
    BY <2>1, <2>2
  <2> QED
    BY <2>1, <2>3, <2>4, ReplacedKeeps
<1>4. ASSUME NEW c \in CollectionCalls, removeDocFromCollection(c) PROVE CollectionsInv'
  <2>1. PICK id \in Known, docs \in SUBSET WorkspaceDocs :
          /\ KU!Handled(c, {mutateCollectionEntry(kDoc, c, i, kDoc[i].allowList \ docs)
                            : i \in findCollection(kDoc, id)},
                        Request("remove", id, docs))
          /\ UNCHANGED kDeleted
    BY <1>4 DEF removeDocFromCollection, Mutate
  <2>2. PICK results : results = {mutateCollectionEntry(kDoc, c, i, kDoc[i].allowList \ docs)
                                  : i \in findCollection(kDoc, id)}
    OBVIOUS
  <2>3. ASSUME NEW made \in results
        PROVE  \E i \in findCollection(kDoc, id), allow \in SUBSET WorkspaceDocs :
                 /\ made = mutateCollectionEntry(kDoc, c, i, allow)
                 /\ allow = kDoc[i].allowList \ docs
    <3>1. PICK i \in findCollection(kDoc, id) : made = mutateCollectionEntry(kDoc, c, i, kDoc[i].allowList \ docs)
      BY <2>2
    <3>2. kDoc[i].allowList \ docs \in SUBSET WorkspaceDocs
      BY <1>0, FoundCollection DEF Item
    <3> QED
      BY <3>1, <3>2
  <2>4. KU!Handled(c, results, Request("remove", id, docs))
    BY <2>1, <2>2
  <2> QED
    BY <2>1, <2>3, <2>4, ReplacedKeeps
<1>5. ASSUME NEW c \in CollectionCalls, updateCollectionRules(c) PROVE CollectionsInv'
  <2>1. PICK id \in Known, match \in {"all", "any"}, filters \in SUBSET Filters :
          /\ KU!Handled(c, {mutateCollectionEntry(kDoc, c, i, matchesCollectionRules(match, filters))
                            : i \in findCollection(kDoc, id)},
                        Request("rules", id, matchesCollectionRules(match, filters)))
          /\ UNCHANGED kDeleted
    BY <1>5 DEF updateCollectionRules, Mutate
  <2>2. PICK results, matched :
          /\ matched = matchesCollectionRules(match, filters)
          /\ results = {mutateCollectionEntry(kDoc, c, i, matched) : i \in findCollection(kDoc, id)}
    OBVIOUS
  <2>3. matched \in SUBSET WorkspaceDocs
    BY <2>2 DEF matchesCollectionRules
  <2>4. \A made \in results : \E i \in findCollection(kDoc, id) : made = mutateCollectionEntry(kDoc, c, i, matched)
    BY <2>2
  <2> QED
    BY <2>1, <2>2, <2>3, <2>4, ReplacedKeeps
<1>7. ASSUME NEW c \in CollectionCalls, deleteCollection(c) PROVE CollectionsInv'
  <2>1. PICK id \in Known :
          LET found == findCollection(kDoc, id) IN
          /\ KU!Handled(c, {RemoveAt(kDoc, i) : i \in found}, Request("delete", id, {}))
          /\ kDeleted' = IF found = {} THEN kDeleted ELSE kDeleted \cup {id}
    BY <1>7 DEF deleteCollection
  <2>2. PICK results : results = {RemoveAt(kDoc, i) : i \in findCollection(kDoc, id)}
    OBVIOUS
  <2>3. KU!Handled(c, results, Request("delete", id, {})) /\ kDeleted \subseteq kDeleted'
    BY <2>1, <2>2
  <2>4. ASSUME NEW made \in results
        PROVE  CollectionArray(made) /\ ItemEdited(c, kDoc, made, Request("delete", id, {}), kDeleted')
    <3>1. PICK i \in findCollection(kDoc, id) : made = RemoveAt(kDoc, i)
      BY <2>2
    <3>2. i \in 1..Len(kDoc) /\ kDoc[i] \in Range(kDoc) /\ kDoc[i].id = id
      BY <1>0, FoundCollection
    <3>3. id \in kDeleted'
      BY <2>1, <3>1
    <3>4. CollectionArray(made) /\ Range(made) = Range(kDoc) \ {kDoc[i]}
      BY <1>0, <3>1, <3>2, RemovedItem DEF CollectionArray
    <3>5. ItemDeleted(kDoc, made, Request("delete", id, {}), kDeleted')
      BY <3>2, <3>3, <3>4 DEF ItemDeleted
    <3> QED
      BY <3>4, <3>5 DEF ItemEdited
  <2> QED
    BY <2>3, <2>4, CollectionHandledKeeps
<1>8. ASSUME UNCHANGED collectionVars PROVE CollectionsInv'
  BY <1>8 DEF collectionVars, CollectionsInv, CollectionArray, LandedOnly, Landed, CollectionUpdateFits, Live,
         OneAtWork, NothingLost, NothingTwice, LastCallOnly, OneOfEach
<1>9. ASSUME KU!UpdatesDone /\ UNCHANGED kDeleted PROVE UNCHANGED collectionVars
  BY <1>9 DEF KU!UpdatesDone, collectionVars
<1> QED
  BY <1>1, <1>2, <1>3, <1>4, <1>5, <1>7, <1>8, <1>9, CollectionMergeKeeps DEF CollectionsNext

(* The collection tools, for any calls, documents and filters: an update   *)
(* replaces, adds or deletes one collection, and when it is merged the     *)
(* others stay.                                                            *)
THEOREM CollectionsSafety == CollectionsSpec => []CollectionsInv
<1> QED
  BY InitCollections, CollectionsNextKeeps, PTL DEF CollectionsSpec

(* The one collection of an id is the one that is found.                   *)
LEMMA FoundIsTheOne ==
  ASSUME NEW d, CollectionArray(d), OneOfEach(d), NEW x \in Range(d)
  PROVE  d[CHOOSE i \in findCollection(d, x.id) : TRUE] = x
<1>1. findCollection(d, x.id) # {}
  BY FoundCollection
<1>2. (CHOOSE i \in findCollection(d, x.id) : TRUE) \in findCollection(d, x.id)
  BY <1>1
<1> QED
  BY <1>2, FoundCollection DEF OneOfEach

(* No update, however late, takes a collection away that no call deleted;  *)
(* while updates are merged in order each is there once, none comes back,  *)
(* and the last call's change is the only one.                             *)
THEOREM CollectionsStay == CollectionsSpec => []CollectionsAreKept
<1>1. CollectionsInv => CollectionsAreKept
  <2> SUFFICES ASSUME CollectionsInv PROVE CollectionsAreKept
    OBVIOUS
  <2>1. TheCollection \notin kDeleted => findCollection(kDoc, TheCollection) # {}
    BY FoundCollection DEF CollectionsInv, NothingLost
  <2>2. ~kStale =>
       /\ \A i, j \in DOMAIN kDoc : kDoc[i].id = kDoc[j].id => i = j
       /\ \A c \in {x \in CollectionCalls : kPhase[x] = "merged"} : \A a \in kUpdate[c].asked :
            a.op = "delete" => findCollection(kDoc, a.id) = {}
    <3> SUFFICES ASSUME ~kStale
                 PROVE  /\ \A i, j \in DOMAIN kDoc : kDoc[i].id = kDoc[j].id => i = j
                        /\ \A c \in {x \in CollectionCalls : kPhase[x] = "merged"} : \A a \in kUpdate[c].asked :
                             a.op = "delete" => findCollection(kDoc, a.id) = {}
      OBVIOUS
    <3>1. ASSUME NEW i \in DOMAIN kDoc, NEW j \in DOMAIN kDoc, kDoc[i].id = kDoc[j].id PROVE i = j
      <4>1. kDoc[i] \in Range(kDoc) /\ kDoc[j] \in Range(kDoc)
        BY DEF Range
      <4>2. kDoc[i] = kDoc[j]
        BY <3>1, <4>1 DEF CollectionsInv, NothingTwice, OneOfEach
      <4>3. Len(kDoc) \in Nat /\ DOMAIN kDoc = 1..Len(kDoc) /\ Ordered(kDoc, kDoc)
        BY LenProperties DEF CollectionsInv, CollectionArray
      <4> QED
        BY <4>2, <4>3 DEF Ordered
    <3>2. ASSUME NEW c \in CollectionCalls, kPhase[c] = "merged", NEW a \in kUpdate[c].asked, a.op = "delete"
          PROVE  findCollection(kDoc, a.id) = {}
      <4>1. \A x \in Range(kDoc) : x.id # a.id
        BY <3>2 DEF CollectionsInv, NothingTwice
      <4>2. PICK d, id : d = kDoc /\ id = a.id
        OBVIOUS
      <4>3. \A i \in findCollection(d, id) : d[i] \in Range(d) /\ d[i].id = id
        BY <4>2, FoundCollection DEF CollectionsInv
      <4> QED
        BY <4>1, <4>2, <4>3
    <3> QED
      BY <3>1, <3>2
  <2>3. ASSUME \A c \in CollectionCalls : kPhase[c] # "late",
               NEW c \in CollectionCalls, kPhase[c] = "merged", NEW a \in kUpdate[c].asked
        PROVE  LET was == kUpdate[c].base
                   AllowList(array, id) == array[CHOOSE i \in findCollection(array, id) : TRUE].allowList
               IN  /\ \A i \in DOMAIN was : was[i].id # a.id => was[i] \in Range(kDoc)
                   /\ a.op = "rules" => AllowList(kDoc, a.id) = a.docs
                   /\ a.op = "add" => AllowList(kDoc, a.id) = AllowList(was, a.id) \cup a.docs
                   /\ a.op = "remove" => AllowList(kDoc, a.id) = AllowList(was, a.id) \ a.docs
    <3> DEFINE AllowList(array, id) == array[CHOOSE i \in findCollection(array, id) : TRUE].allowList
    <3>1. PICK base, made, asked : base = kUpdate[c].base /\ made = kUpdate[c].made /\ asked = kUpdate[c].asked
      OBVIOUS
    <3>2. PICK d : d = kDoc
      OBVIOUS
    <3>3. /\ CollectionArray(base) /\ LandedOnly(base) /\ ItemEdited(c, base, made, asked, kDeleted)
          /\ a \in asked
      BY <2>3, <3>1 DEF CollectionsInv, CollectionUpdateFits, Live
    <3>4. CollectionArray(d) /\ OneOfEach(d) /\ OneOfEach(base) /\ Range(d) = Range(made)
      BY <2>3, <3>1, <3>2 DEF CollectionsInv, LastCallOnly, NothingTwice
    <3>5. \A i \in DOMAIN base : base[i] \in Range(base)
      BY DEF Range
    <3>6. CASE ItemReplaced(c, base, made, asked)
      <4>1. PICK x \in Range(base), allow \in SUBSET WorkspaceDocs, op \in {"rename", "add", "remove", "rules"},
                 docs \in SUBSET WorkspaceDocs :
              /\ Range(made) = (Range(base) \ {x}) \cup {Collection(x.id, allow, c)}
              /\ asked = Request(op, x.id, docs)
              /\ op = "add" => allow = x.allowList \cup docs
              /\ op = "remove" => allow = x.allowList \ docs
              /\ op = "rules" => allow = docs
        BY <3>6 DEF ItemReplaced
      <4>2. a.op = op /\ a.id = x.id /\ a.docs = docs
        BY <3>3, <4>1 DEF Request
      <4>3. PICK y : y = Collection(x.id, allow, c)
        OBVIOUS
      <4>4. y \in Range(d) /\ y.id = x.id /\ y.allowList = allow
        BY <3>4, <4>1, <4>3 DEF Collection
      <4>5. AllowList(d, a.id) = allow
        <5>1. d[CHOOSE i \in findCollection(d, y.id) : TRUE] = y
          BY <3>4, <4>4, FoundIsTheOne
        <5> QED
          BY <4>2, <4>4, <5>1
      <4>6. AllowList(base, a.id) = x.allowList
        BY <3>3, <3>4, <4>2, FoundIsTheOne
      <4>7. \A i \in DOMAIN base : base[i].id # a.id => base[i] \in Range(d)
        BY <3>4, <3>5, <4>1, <4>2
      <4> HIDE DEF AllowList
      <4>8. /\ a.op = "rules" => AllowList(d, a.id) = a.docs
            /\ a.op = "add" => AllowList(d, a.id) = AllowList(base, a.id) \cup a.docs
            /\ a.op = "remove" => AllowList(d, a.id) = AllowList(base, a.id) \ a.docs
        BY <4>1, <4>2, <4>5, <4>6
      <4> USE DEF AllowList
      <4> QED
        BY <3>1, <3>2, <4>7, <4>8
    <3>7. CASE ItemDeleted(base, made, asked, kDeleted)
      <4>1. PICK x \in Range(base) : Range(made) = Range(base) \ {x} /\ asked = Request("delete", x.id, {})
        BY <3>7 DEF ItemDeleted
      <4>2. a.op = "delete" /\ a.id = x.id
        BY <3>3, <4>1 DEF Request
      <4>3. \A i \in DOMAIN base : base[i].id # a.id => base[i] \in Range(d)
        BY <3>4, <3>5, <4>1, <4>2
      <4> QED
        BY <3>1, <3>2, <4>2, <4>3
    <3> QED
      BY <3>3, <3>6, <3>7 DEF ItemEdited, ItemAdded
  <2> QED
    BY <2>1, <2>2, <2>3 DEF CollectionsAreKept
<1> QED
  BY <1>1, CollectionsSafety, PTL

-----------------------------------------------------------------------------
TagOptions == [id : {Id(t) : t \in {FirstTag} \cup TagCalls}, value : TagIdOrNames]

(* The options, each once, no two with one id or one name.                 *)
OptionsFit(d) ==
  /\ d.options \in Seq(TagOptions) /\ Ordered(d.options, d.options)
  /\ \A o, q \in Options(d) : o.id = q.id \/ o.value = q.value => o = q
Resolved(d) == \A e \in d.tags : e.entry \in TagNames \/ \E o \in Options(d) : o.id = e.entry
ListedOnce(d) ==
  \A e, f \in d.tags : e.page = f.page /\ e # f => LabelOf(d, e.entry) # LabelOf(d, f.entry)
TagsWhole(d) ==
  /\ d = [options |-> d.options, tags |-> d.tags]
  /\ OptionsFit(d) /\ Resolved(d) /\ ListedOnce(d)

(* A call that has not begun has made no option.                           *)
NewTo(c, d) == \A o \in Options(d) : o.id # Id(c)

(* A name is no id, and an id tells whose it is.                           *)
LEMMA NamesAndIds ==
  /\ \A n, t : Name(n) # Id(t)
  /\ \A t, u : Id(t) = Id(u) => t = u
<1>1. ASSUME NEW n, NEW t, Name(n) = Id(t) PROVE FALSE
  <2>1. DOMAIN Name(n) = {"name"} /\ DOMAIN Id(t) = {"id"}
    BY DEF Name, Id
  <2> QED
    BY <1>1, <2>1
<1>2. ASSUME NEW t, NEW u, Id(t) = Id(u) PROVE t = u
  <2>1. Id(t).id = t /\ Id(u).id = u
    BY DEF Id
  <2> QED
    BY <1>2, <2>1
<1> QED
  BY <1>1, <1>2

(* The first of some options is one of them.                               *)
LEMMA FirstIsFound ==
  ASSUME NEW S, NEW d, d.options \in Seq(S), NEW found, found \subseteq Options(d), found # {}
  PROVE  FirstOption(d, found) \in found
<1> PICK list : list = d.options
  OBVIOUS
<1> DEFINE places == {i \in DOMAIN list : list[i] \in found}
<1>1. DOMAIN list = 1..Len(list) /\ Len(list) \in Nat
  BY LenProperties
<1>2. places \in SUBSET Nat /\ places # {}
  BY <1>1 DEF Options, Range
<1>3. PICK i \in places : \A j \in places : i <= j
  <2> HIDE DEF places
  <2> QED
    BY <1>2, LeastNumber
<1>4. i \in DOMAIN list /\ list[i] \in found /\ \A j \in 1..i - 1 : list[j] \notin found
  <2>1. i \in DOMAIN list /\ list[i] \in found
    OBVIOUS
  <2>2. ASSUME NEW j \in 1..i - 1 PROVE list[j] \notin found
    <3>1. j \in DOMAIN list /\ ~(i <= j)
      BY <1>1, <2>1
    <3>2. j \notin places
      <4> HIDE DEF places
      <4> QED
        BY <1>3, <3>1
    <3> QED
      BY <3>1, <3>2
  <2> QED
    BY <2>1, <2>2
<1>5. \E k \in DOMAIN list : list[k] \in found /\ \A j \in 1..k - 1 : list[j] \notin found
  BY <1>4
<1>6. FirstOption(d, found)
        = list[CHOOSE k \in DOMAIN list : list[k] \in found /\ \A j \in 1..k - 1 : list[j] \notin found]
  BY DEF FirstOption
<1> QED
  BY <1>5, <1>6

(* An id is shown as the name of its option; anything else as it is.       *)
LEMMA LabelsOfTags ==
  ASSUME NEW d, OptionsFit(d)
  PROVE  /\ \A o \in Options(d) : LabelOf(d, o.id) = o.value
         /\ \A x : (\A o \in Options(d) : o.id # x) => LabelOf(d, x) = x
<1>1. ASSUME NEW o \in Options(d) PROVE LabelOf(d, o.id) = o.value
  <2>1. PICK found : found = {q \in Options(d) : q.id = o.id}
    OBVIOUS
  <2>2. found = {o}
    BY <2>1 DEF OptionsFit
  <2>3. FirstOption(d, found) \in found
    BY <2>1, <2>2, FirstIsFound DEF OptionsFit
  <2> QED
    BY <2>1, <2>2, <2>3 DEF LabelOf
<1>2. ASSUME NEW x, \A o \in Options(d) : o.id # x PROVE LabelOf(d, x) = x
  BY <1>2 DEF LabelOf
<1> QED
  BY <1>1, <1>2

(* A string shows as the same name where the same option has it for an id. *)
LEMMA SameLabel ==
  ASSUME NEW d, OptionsFit(d), NEW e, OptionsFit(e), NEW x,
         \A o : o \in Options(d) /\ o.id = x <=> o \in Options(e) /\ o.id = x
  PROVE  LabelOf(e, x) = LabelOf(d, x)
<1>1. CASE \E o \in Options(d) : o.id = x
  BY <1>1, LabelsOfTags
<1>2. CASE \A o \in Options(d) : o.id # x
  BY <1>2, LabelsOfTags
<1> QED
  BY <1>1, <1>2

(* ensureWorkspaceTagOption: the tag has an option then.                   *)
LEMMA EnsuredTag ==
  ASSUME NEW d, TagsWhole(d), NEW c \in TagCalls, NewTo(c, d), NEW tag \in TagIdOrNames
  PROVE  LET e == ensureWorkspaceTagOption(d, c, tag)
         IN  /\ TagsWhole(e) /\ e.tags = d.tags /\ Ordered(e.options, d.options)
             /\ Options(d) \subseteq Options(e)
             /\ \A o \in Options(e) : o \in Options(d) \/ (o.id = Id(c) /\ byValueLower(d, tag) = {})
             /\ byValueLower(e, tag) # {}
             /\ \A f \in d.tags : LabelOf(e, f.entry) = LabelOf(d, f.entry)
<1> DEFINE e == ensureWorkspaceTagOption(d, c, tag)
<1>1. CASE byValueLower(d, tag) # {}
  <2>1. e = d
    BY <1>1 DEF ensureWorkspaceTagOption
  <2> QED
    BY <1>1, <2>1 DEF TagsWhole, OptionsFit
<1>2. CASE byValueLower(d, tag) = {}
  <2>1. PICK list, tags, o : list = d.options /\ tags = d.tags /\ o = Option(Id(c), tag)
    OBVIOUS
  <2>2. e = [options |-> Append(list, o), tags |-> tags]
    BY <1>2, <2>1 DEF ensureWorkspaceTagOption, TagsWhole
  <2> HIDE DEF e
  <2>3. list \in Seq(TagOptions) /\ Ordered(list, list) /\ Options(d) = Range(list)
    BY <2>1 DEF TagsWhole, OptionsFit, Options
  <2>4. o \in TagOptions /\ o.id = Id(c) /\ o.value = tag
    BY <2>1 DEF Option, TagOptions
  <2>5. o \notin Range(list) /\ \A q \in Range(list) : q.id # o.id /\ q.value # o.value
    BY <1>2, <2>3, <2>4 DEF NewTo, byValueLower
  <2>6. /\ Append(list, o) \in Seq(TagOptions) /\ Range(Append(list, o)) = Range(list) \cup {o}
        /\ Ordered(Append(list, o), Append(list, o)) /\ Ordered(Append(list, o), list)
    BY <2>3, <2>4, <2>5, AppendedItem
  <2>7. e.options = Append(list, o) /\ e.tags = tags /\ Options(e) = Options(d) \cup {o}
    BY <2>2, <2>3, <2>6 DEF Options
  <2>8. OptionsFit(e)
    BY <2>3, <2>5, <2>6, <2>7 DEF OptionsFit, TagsWhole
  <2>9. \A f \in d.tags : LabelOf(e, f.entry) = LabelOf(d, f.entry)
    <3> SUFFICES ASSUME NEW f \in d.tags PROVE LabelOf(e, f.entry) = LabelOf(d, f.entry)
      OBVIOUS
    <3>1. f.entry # Id(c)
      BY NamesAndIds DEF TagsWhole, Resolved, NewTo, TagNames
    <3> QED
      BY <2>4, <2>7, <2>8, <3>1, SameLabel DEF TagsWhole
  <2>10. Resolved(e) /\ ListedOnce(e)
    BY <2>1, <2>7, <2>9 DEF TagsWhole, Resolved, ListedOnce
  <2>11. TagsWhole(e)
    BY <2>2, <2>7, <2>8, <2>10 DEF TagsWhole
  <2>12. byValueLower(e, tag) # {}
    BY <2>4, <2>7 DEF byValueLower
  <2> QED
    BY <1>2, <2>1, <2>4, <2>6, <2>7, <2>9, <2>11, <2>12 DEF e
<1> QED
  BY <1>1, <1>2

(* What TagRequestsAreKept says of a request, the tags it found and those  *)
(* there are now.                                                          *)
TagRequestDone(a, was, now) ==
  /\ a.op = "add" => Listed(now, a.page, a.tag)
  /\ a.op = "remove" => ~Listed(now, a.page, a.tag)
  /\ a.op = "delete" => \A p \in Pages :
       Listed(now, p, LabelOf(was, a.tag)) =>
         \E e \in OnPage(was.tags, p) : e.entry = LabelOf(was, a.tag)
  /\ a.op # "add" \/ a.tag \in TagNames =>
       \A p \in Pages : Others(was, p, a.tag) =
                        resolveTagLabels(now, p) \ {a.tag, LabelOf(was, a.tag)}

(* What c may make of the tags it found.                                   *)
TagMakes(c, d, made, asked) ==
  /\ TagsWhole(made) /\ Ordered(made.options, d.options)
  /\ \A o \in Options(made) : o \in Options(d) \/ o.id = Id(c)
  /\ \A a \in asked : TagRequestDone(a, d, made)

(* The labels of a page but one's stay when only entries so labelled come  *)
(* and go.                                                                 *)
LEMMA OthersStay ==
  ASSUME NEW d, NEW made, NEW tag,
         \A f \in made.tags :
           \/ LabelOf(made, f.entry) \in {tag, LabelOf(d, tag)}
           \/ f \in d.tags /\ LabelOf(made, f.entry) = LabelOf(d, f.entry),
         \A f \in d.tags :
           \/ LabelOf(d, f.entry) \in {tag, LabelOf(d, tag)}
           \/ f \in made.tags /\ LabelOf(made, f.entry) = LabelOf(d, f.entry)
  PROVE  \A p : Others(d, p, tag) = resolveTagLabels(made, p) \ {tag, LabelOf(d, tag)}
<1> SUFFICES ASSUME NEW p
             PROVE  Others(d, p, tag) = resolveTagLabels(made, p) \ {tag, LabelOf(d, tag)}
  OBVIOUS
<1>1. ASSUME NEW y \in resolveTagLabels(d, p), y \notin {tag, LabelOf(d, tag)}
      PROVE  y \in resolveTagLabels(made, p)
  <2>1. PICK f \in d.tags : f.page = p /\ y = LabelOf(d, f.entry)
    BY DEF resolveTagLabels, OnPage
  <2>2. f \in made.tags /\ LabelOf(made, f.entry) = y
    BY <1>1, <2>1
  <2> QED
    BY <2>1, <2>2 DEF resolveTagLabels, OnPage
<1>2. ASSUME NEW y \in resolveTagLabels(made, p), y \notin {tag, LabelOf(d, tag)}
      PROVE  y \in resolveTagLabels(d, p)
  <2>1. PICK f \in made.tags : f.page = p /\ y = LabelOf(made, f.entry)
    BY DEF resolveTagLabels, OnPage
  <2>2. f \in d.tags /\ LabelOf(d, f.entry) = y
    BY <1>2, <2>1
  <2> QED
    BY <2>1, <2>2 DEF resolveTagLabels, OnPage
<1> QED
  BY <1>1, <1>2 DEF Others

(* A name shows as itself.                                                 *)
LEMMA NamesAreLabels ==
  ASSUME NEW d, OptionsFit(d), NEW tag \in TagNames
  PROVE  LabelOf(d, tag) = tag
<1>1. \A o \in Options(d) : o \in TagOptions
  <2>1. DOMAIN d.options = 1..Len(d.options) /\ \A i \in 1..Len(d.options) : d.options[i] \in TagOptions
    BY LenProperties DEF OptionsFit
  <2> QED
    BY <2>1 DEF Options, Range
<1>2. \A o \in Options(d) : o.id # tag
  BY <1>1, NamesAndIds DEF TagOptions, TagNames
<1> QED
  BY <1>2, LabelsOfTags

(* Which entries show as the name of a tag.                                *)
LEMMA LabelledBy ==
  ASSUME NEW d, OptionsFit(d), NEW x, NEW tag, LabelOf(d, x) = tag
  PROVE  x = tag \/ \E o \in byValueLower(d, tag) : o.id = x
<1>1. CASE \E o \in Options(d) : o.id = x
  BY <1>1, LabelsOfTags DEF byValueLower
<1>2. CASE \A o \in Options(d) : o.id # x
  BY <1>2, LabelsOfTags
<1> QED
  BY <1>1, <1>2

(* add_tag_to_doc.                                                         *)
LEMMA AddedMakes ==
  ASSUME NEW d, TagsWhole(d), NEW c \in TagCalls, NewTo(c, d),
         NEW p \in Pages, NEW tag \in TagIdOrNames
  PROVE  TagMakes(c, d, AddedTag(d, c, p, tag), TagRequest("add", p, tag))
<1>1. PICK e : e = ensureWorkspaceTagOption(d, c, tag)
  OBVIOUS
<1>2. /\ TagsWhole(e) /\ e.tags = d.tags /\ Ordered(e.options, d.options)
      /\ Options(d) \subseteq Options(e)
      /\ \A o \in Options(e) : o \in Options(d) \/ (o.id = Id(c) /\ byValueLower(d, tag) = {})
      /\ byValueLower(e, tag) # {}
      /\ \A f \in d.tags : LabelOf(e, f.entry) = LabelOf(d, f.entry)
  BY <1>1, EnsuredTag
<1>3. PICK option : option = FirstOption(e, byValueLower(e, tag))
  OBVIOUS
<1>4. option \in Options(e) /\ option.value = tag
  <2>1. byValueLower(e, tag) \subseteq Options(e)
    BY DEF byValueLower
  <2>2. option \in byValueLower(e, tag)
    BY <1>2, <1>3, <2>1, FirstIsFound DEF TagsWhole, OptionsFit
  <2> QED
    BY <2>2 DEF byValueLower
<1>5. PICK tags : tags = syncTagArrayToOption(d.tags, p, c, tag, option)
  OBVIOUS
<1>6. PICK n : /\ n \in tags /\ n.page = p /\ n.entry = option.id
               /\ \A f \in tags : f = n \/ (f \in d.tags /\ (f.page = p => f.entry \notin {option.id, tag}))
               /\ \A f \in d.tags : f \in tags \/ (f.page = p /\ f.entry \in {option.id, tag})
  <2>1. PICK matched, ids : /\ matched = Holding(OnPage(d.tags, p), {option.id, option.value, tag})
                            /\ ids = Holding(matched, {option.id})
    OBVIOUS
  <2>2. PICK n : n = IF ids = {} THEN TagEntry(p, option.id, c) ELSE CHOOSE f \in ids : TRUE
    OBVIOUS
  <2>3. tags = (d.tags \ matched) \cup {n}
    BY <1>5, <2>1, <2>2 DEF syncTagArrayToOption
  <2>4. n.page = p /\ n.entry = option.id
    <3>1. CASE ids = {}
      BY <2>2, <3>1 DEF TagEntry
    <3>2. CASE ids # {}
      <4>1. n \in ids
        BY <2>2, <3>2
      <4> QED
        BY <2>1, <4>1 DEF Holding, OnPage
    <3> QED
      BY <3>1, <3>2
  <2>5. \A f : f \in matched <=> f \in d.tags /\ f.page = p /\ f.entry \in {option.id, tag}
    BY <1>4, <2>1 DEF Holding, OnPage
  <2> QED
    BY <2>3, <2>4, <2>5
<1>7. PICK made : made = AddedTag(d, c, p, tag)
  OBVIOUS
<1>8. made = [options |-> e.options, tags |-> tags]
  BY <1>1, <1>2, <1>3, <1>5, <1>7 DEF AddedTag, TagsWhole
<1>9. made.options = e.options /\ made.tags = tags /\ Options(made) = Options(e) /\ OptionsFit(made)
  BY <1>2, <1>8 DEF TagsWhole, OptionsFit, Options
<1>10. \A x : LabelOf(made, x) = LabelOf(e, x)
  BY <1>2, <1>9, SameLabel DEF TagsWhole
<1>11. LabelOf(made, n.entry) = tag
  BY <1>4, <1>6, <1>9, LabelsOfTags
<1>12. ASSUME NEW f \in tags, f # n, f.page = p PROVE LabelOf(made, f.entry) # tag
  BY <1>4, <1>6, <1>9, <1>12, LabelledBy DEF OptionsFit, byValueLower
<1>13. Resolved(made)
  BY <1>2, <1>4, <1>6, <1>9 DEF Resolved, TagsWhole
<1>14. ListedOnce(made)
  <2> SUFFICES ASSUME NEW f \in tags, NEW g \in tags, f.page = g.page, f # g
               PROVE  LabelOf(made, f.entry) # LabelOf(made, g.entry)
    BY <1>9 DEF ListedOnce
  <2>1. CASE f = n \/ g = n
    BY <1>6, <1>11, <1>12, <2>1
  <2>2. CASE f # n /\ g # n
    BY <1>2, <1>6, <1>10, <2>2 DEF TagsWhole, ListedOnce
  <2> QED
    BY <2>1, <2>2
<1>15. TagsWhole(made)
  BY <1>8, <1>9, <1>13, <1>14 DEF TagsWhole
<1>16. Listed(made, p, tag)
  BY <1>6, <1>9, <1>11 DEF Listed, resolveTagLabels, OnPage
<1>17. ASSUME tag \in TagNames PROVE \A q : Others(d, q, tag) = resolveTagLabels(made, q) \ {tag, LabelOf(d, tag)}
  <2>1. LabelOf(d, tag) = tag
    BY <1>17, NamesAreLabels DEF TagsWhole
  <2>2. ASSUME NEW f \in made.tags
        PROVE  \/ LabelOf(made, f.entry) \in {tag, LabelOf(d, tag)}
               \/ f \in d.tags /\ LabelOf(made, f.entry) = LabelOf(d, f.entry)
    BY <1>2, <1>6, <1>9, <1>10, <1>11
  <2>3. ASSUME NEW f \in d.tags
        PROVE  \/ LabelOf(d, f.entry) \in {tag, LabelOf(d, tag)}
               \/ f \in made.tags /\ LabelOf(made, f.entry) = LabelOf(d, f.entry)
    <3>1. LabelOf(made, f.entry) = LabelOf(d, f.entry)
      BY <1>2, <1>10
    <3>2. CASE f \in tags
      BY <1>9, <3>1, <3>2
    <3>3. CASE f.entry = tag
      BY <2>1, <3>3
    <3>4. CASE f.entry = option.id
      BY <1>6, <1>11, <3>1, <3>4
    <3> QED
      BY <1>6, <3>2, <3>3, <3>4
  <2> QED
    BY <2>2, <2>3, OthersStay
<1>18. PICK a : a = [op |-> "add", page |-> p, tag |-> tag]
  OBVIOUS
<1>19. a.op = "add" /\ a.page = p /\ a.tag = tag /\ TagRequest("add", p, tag) = {a}
  BY <1>18 DEF TagRequest
<1>20. TagRequestDone(a, d, made)
  BY <1>16, <1>17, <1>19 DEF TagRequestDone
<1>21. \A o \in Options(made) : o \in Options(d) \/ o.id = Id(c)
  BY <1>2, <1>9
<1> QED
  BY <1>2, <1>7, <1>9, <1>15, <1>19, <1>20, <1>21 DEF TagMakes

(* Where entries go and options stay, the tags stay whole.                 *)
LEMMA FewerEntries ==
  ASSUME NEW d, TagsWhole(d), NEW tags, tags \subseteq d.tags, NEW made,
         made = [options |-> d.options, tags |-> tags]
  PROVE  /\ TagsWhole(made) /\ Ordered(made.options, d.options)
         /\ Options(made) = Options(d) /\ made.tags = tags
         /\ \A x : LabelOf(made, x) = LabelOf(d, x)
<1>1. made.options = d.options /\ made.tags = tags /\ Options(made) = Options(d) /\ OptionsFit(made)
  BY DEF TagsWhole, OptionsFit, Options
<1>2. \A x : LabelOf(made, x) = LabelOf(d, x)
  BY <1>1, SameLabel DEF TagsWhole
<1>3. Resolved(made) /\ ListedOnce(made)
  BY <1>1, <1>2 DEF TagsWhole, Resolved, ListedOnce
<1> QED
  BY <1>1, <1>2, <1>3 DEF TagsWhole, OptionsFit

(* remove_tag_from_doc.                                                    *)
LEMMA RemovedMakes ==
  ASSUME NEW d, TagsWhole(d), NEW c, NEW p, NEW tag
  PROVE  TagMakes(c, d, RemovedTag(d, p, tag), TagRequest("remove", p, tag))
<1>1. PICK found : found = byValueLower(d, tag)
  OBVIOUS
<1>2. PICK means : means = {tag} \cup (IF found = {} THEN {} ELSE {FirstOption(d, found).id})
  OBVIOUS
<1>3. /\ \A o \in found : o.id \in means
      /\ \A x \in means : x = tag \/ \E o \in found : x = o.id
  <2>1. found \subseteq Options(d)
    BY <1>1 DEF byValueLower
  <2>2. found # {} => FirstOption(d, found) \in found
    BY <2>1, FirstIsFound DEF TagsWhole, OptionsFit
  <2>3. \A o, q \in found : o = q
    BY <1>1 DEF byValueLower, TagsWhole, OptionsFit
  <2> QED
    BY <1>2, <2>2, <2>3
<1>4. PICK tags : tags = d.tags \ Holding(OnPage(d.tags, p), means)
  OBVIOUS
<1>5. PICK made : made = RemovedTag(d, p, tag)
  OBVIOUS
<1>6. made = [options |-> d.options, tags |-> tags]
  BY <1>1, <1>2, <1>4, <1>5 DEF RemovedTag, TagsWhole
<1>7. \A f : f \in tags <=> f \in d.tags /\ ~(f.page = p /\ f.entry \in means)
  BY <1>4 DEF Holding, OnPage
<1>8. /\ TagsWhole(made) /\ Ordered(made.options, d.options)
      /\ Options(made) = Options(d) /\ made.tags = tags
      /\ \A x : LabelOf(made, x) = LabelOf(d, x)
  BY <1>6, <1>7, FewerEntries
<1>9. ASSUME NEW f \in tags, f.page = p PROVE f.entry # tag /\ LabelOf(made, f.entry) # tag
  <2>1. f.entry \notin means
    BY <1>7, <1>9
  <2>2. f.entry # tag
    BY <1>2, <2>1
  <2>3. LabelOf(d, f.entry) # tag
    BY <1>1, <1>3, <2>1, <2>2, LabelledBy DEF TagsWhole
  <2> QED
    BY <1>8, <2>2, <2>3
<1>10. ~Listed(made, p, tag)
  BY <1>8, <1>9 DEF Listed, resolveTagLabels, OnPage
<1>11. \A q : Others(d, q, tag) = resolveTagLabels(made, q) \ {tag, LabelOf(d, tag)}
  <2>1. ASSUME NEW f \in d.tags
        PROVE  \/ LabelOf(d, f.entry) \in {tag, LabelOf(d, tag)}
               \/ f \in made.tags /\ LabelOf(made, f.entry) = LabelOf(d, f.entry)
    <3>1. CASE f.entry \in means
      <4>1. f.entry = tag \/ \E o \in found : f.entry = o.id
        BY <1>3, <3>1
      <4>2. \A o \in found : LabelOf(d, o.id) = tag
        BY <1>1, LabelsOfTags DEF byValueLower, TagsWhole
      <4> QED
        BY <4>1, <4>2
    <3>2. CASE f.entry \notin means
      BY <1>7, <1>8, <3>2
    <3> QED
      BY <3>1, <3>2
  <2>2. ASSUME NEW f \in made.tags PROVE f \in d.tags /\ LabelOf(made, f.entry) = LabelOf(d, f.entry)
    BY <1>7, <1>8
  <2> QED
    BY <2>1, <2>2, OthersStay
<1>12. PICK a : a = [op |-> "remove", page |-> p, tag |-> tag]
  OBVIOUS
<1>13. a.op = "remove" /\ a.page = p /\ a.tag = tag /\ TagRequest("remove", p, tag) = {a}
  BY <1>12 DEF TagRequest
<1>14. TagRequestDone(a, d, made)
  BY <1>10, <1>11, <1>13 DEF TagRequestDone
<1> QED
  BY <1>5, <1>8, <1>13, <1>14 DEF TagMakes

(* delete_tag.                                                             *)
LEMMA DeletedTagMakes ==
  ASSUME NEW d, TagsWhole(d), NEW c, NEW page, NEW tag, NEW option \in findTagOptionForDeletion(d, tag)
  PROVE  TagMakes(c, d, DeletedTag(d, option), TagRequest("delete", page, tag))
<1>1. option \in Options(d) /\ LabelOf(d, tag) = option.value
  <2>1. PICK byId : byId = {o \in Options(d) : o.id = tag}
    OBVIOUS
  <2>2. CASE byId # {}
    <3>1. option = FirstOption(d, byId)
      BY <2>1, <2>2 DEF findTagOptionForDeletion
    <3>2. option \in byId
      BY <2>1, <2>2, <3>1, FirstIsFound DEF TagsWhole, OptionsFit
    <3> QED
      BY <2>1, <3>2, LabelsOfTags DEF TagsWhole
  <2>3. CASE byId = {}
    <3>1. option \in byValueLower(d, tag)
      BY <2>1, <2>3 DEF findTagOptionForDeletion
    <3>2. LabelOf(d, tag) = tag
      BY <2>1, <2>3, LabelsOfTags DEF TagsWhole
    <3> QED
      BY <3>1, <3>2 DEF byValueLower
  <2> QED
    BY <2>2, <2>3
<1>2. PICK list, gone, tags : /\ list = d.options /\ gone = {o \in Options(d) : o.id = option.id}
                              /\ tags = d.tags \ Holding(d.tags, {option.id})
  OBVIOUS
<1>3. list \in Seq(TagOptions) /\ Ordered(list, list) /\ Options(d) = Range(list) /\ gone = {option}
  BY <1>1, <1>2 DEF TagsWhole, OptionsFit, Options
<1>4. PICK rest : rest = WithoutItems(list, gone)
  OBVIOUS
<1>5. rest \in Seq(TagOptions) /\ Range(rest) = Range(list) \ gone /\ Ordered(rest, list)
  BY <1>3, <1>4, KeptInOrder
<1>6. Ordered(rest, rest)
  BY <1>3, <1>5, SelectionIsAlone
<1>7. PICK made : made = DeletedTag(d, option)
  OBVIOUS
<1>8. made = [options |-> rest, tags |-> tags]
  BY <1>2, <1>4, <1>7 DEF DeletedTag, TagsWhole
<1>9. made.options = rest /\ made.tags = tags /\ Options(made) = Options(d) \ {option}
  BY <1>3, <1>5, <1>8 DEF Options
<1>10. OptionsFit(made)
  BY <1>5, <1>6, <1>9 DEF OptionsFit, TagsWhole
<1>11. \A x : x # option.id => LabelOf(made, x) = LabelOf(d, x)
  BY <1>9, <1>10, SameLabel DEF TagsWhole
<1>12. \A f : f \in tags <=> f \in d.tags /\ f.entry # option.id
  BY <1>2 DEF Holding
<1>13. Resolved(made) /\ ListedOnce(made)
  BY <1>9, <1>11, <1>12 DEF TagsWhole, Resolved, ListedOnce
<1>14. TagsWhole(made)
  BY <1>8, <1>9, <1>10, <1>13 DEF TagsWhole
<1>15. \A q : Others(d, q, tag) = resolveTagLabels(made, q) \ {tag, LabelOf(d, tag)}
  <2>1. ASSUME NEW f \in made.tags PROVE f \in d.tags /\ LabelOf(made, f.entry) = LabelOf(d, f.entry)
    BY <1>9, <1>11, <1>12
  <2>2. ASSUME NEW f \in d.tags
        PROVE  \/ LabelOf(d, f.entry) \in {tag, LabelOf(d, tag)}
               \/ f \in made.tags /\ LabelOf(made, f.entry) = LabelOf(d, f.entry)
    <3>1. LabelOf(d, option.id) = option.value
      BY <1>1, LabelsOfTags DEF TagsWhole
    <3> QED
      BY <1>1, <1>9, <1>11, <1>12, <3>1
  <2> QED
    BY <2>1, <2>2, OthersStay
<1>16. ASSUME NEW q, Listed(made, q, option.value)
       PROVE  \E e \in OnPage(d.tags, q) : e.entry = option.value
  <2>1. PICK f \in tags : f.page = q /\ (f.entry = option.value \/ LabelOf(made, f.entry) = option.value)
    BY <1>9, <1>16 DEF Listed, resolveTagLabels, OnPage
  <2>2. f \in d.tags
    BY <1>12
  <2>3. ASSUME LabelOf(made, f.entry) = option.value PROVE f.entry = option.value
    <3>1. f.entry = option.value \/ \E o \in byValueLower(made, option.value) : o.id = f.entry
      BY <1>10, <2>3, LabelledBy
    <3>2. byValueLower(made, option.value) = {}
      BY <1>1, <1>9 DEF byValueLower, TagsWhole, OptionsFit
    <3> QED
      BY <3>1, <3>2
  <2> QED
    BY <2>1, <2>2, <2>3 DEF OnPage
<1>17. PICK a : a = [op |-> "delete", page |-> page, tag |-> tag]
  OBVIOUS
<1>18. a.op = "delete" /\ a.tag = tag /\ TagRequest("delete", page, tag) = {a}
  BY <1>17 DEF TagRequest
<1>19. TagRequestDone(a, d, made)
  BY <1>1, <1>15, <1>16, <1>18 DEF TagRequestDone
<1> QED
  BY <1>2, <1>5, <1>7, <1>9, <1>14, <1>18, <1>19 DEF TagMakes

(* The tags of a template on a new page.                                   *)
LEMMA SyncedMakes ==
  ASSUME NEW d, TagsWhole(d), NEW c, NEW p, NEW template, template # p
  PROVE  TagMakes(c, d, SyncedRawTags(d, c, p, template), {})
<1>1. PICK copies : copies = {TagEntry(p, f.entry, c) : f \in OnPage(d.tags, template)}
  OBVIOUS
<1>2. PICK tags : tags = (d.tags \ OnPage(d.tags, p)) \cup copies
  OBVIOUS
<1>3. PICK made : made = SyncedRawTags(d, c, p, template)
  OBVIOUS
<1>4. made = [options |-> d.options, tags |-> tags]
  BY <1>1, <1>2, <1>3 DEF SyncedRawTags, TagsWhole
<1>5. made.options = d.options /\ made.tags = tags /\ Options(made) = Options(d) /\ OptionsFit(made)
  BY <1>4 DEF TagsWhole, OptionsFit, Options
<1>6. \A x : LabelOf(made, x) = LabelOf(d, x)
  BY <1>5, SameLabel DEF TagsWhole
<1>7. \A f \in copies : \E g \in d.tags : g.page = template /\ f = TagEntry(p, g.entry, c) /\ f.page = p /\ f.entry = g.entry
  BY <1>1 DEF OnPage, TagEntry
<1>8. \A f \in tags \ copies : f \in d.tags /\ f.page # p
  BY <1>2 DEF OnPage
<1>9. Resolved(made)
  BY <1>5, <1>7, <1>8 DEF TagsWhole, Resolved
<1>10. ListedOnce(made)
  <2> SUFFICES ASSUME NEW f \in tags, NEW g \in tags, f.page = g.page, f # g
               PROVE  LabelOf(d, f.entry) # LabelOf(d, g.entry)
    BY <1>5, <1>6 DEF ListedOnce
  <2>1. CASE f \in copies
    <3>1. g \in copies
      BY <1>7, <1>8, <2>1
    <3>2. PICK x \in d.tags : x.page = template /\ f = TagEntry(p, x.entry, c) /\ f.entry = x.entry
      BY <1>7, <2>1
    <3>3. PICK y \in d.tags : y.page = template /\ g = TagEntry(p, y.entry, c) /\ g.entry = y.entry
      BY <1>7, <3>1
    <3>4. x # y
      BY <3>2, <3>3
    <3> QED
      BY <3>2, <3>3, <3>4 DEF TagsWhole, ListedOnce
  <2>2. CASE f \notin copies
    <3>1. f \in d.tags /\ g \in d.tags
      BY <1>7, <1>8, <2>2
    <3> QED
      BY <3>1 DEF TagsWhole, ListedOnce
  <2> QED
    BY <2>1, <2>2
<1>11. TagsWhole(made)
  BY <1>4, <1>5, <1>9, <1>10 DEF TagsWhole
<1> QED
  BY <1>3, <1>5, <1>11 DEF TagMakes, TagsWhole, OptionsFit

-----------------------------------------------------------------------------
TagBegun == {FirstTag} \cup {c \in TagCalls : gPhase[c] # "idle"}
TagsFit(d) == TagsWhole(d) /\ \A o \in Options(d) : \E t \in TagBegun : o.id = Id(t)

(* While updates are merged in order, the tags are whole, and so they are  *)
(* in every update that may still be merged.                               *)
TagsAreWhole ==
  ~gStale =>
    /\ TagsFit(gDoc)
    /\ \A c \in TagCalls : gPhase[c] \in {"sent", "lost"} =>
         TagsFit(gUpdate[c].made) /\ Ordered(gUpdate[c].made.options, gUpdate[c].base.options)

(* One call at a time is at work; it forgets the one before it.            *)
OneTagCall ==
  \A c, o \in TagCalls : c # o /\ gPhase[c] = "sent" =>
    gPhase[o] # "sent" /\ (gPhase[o] = "merged" => gUpdate[o].asked = {})

(* Until an update is merged late, the last call's is the only one.        *)
LastTagCall ==
  (\A c \in TagCalls : gPhase[c] # "late") =>
    /\ ~gStale
    /\ \A c \in TagCalls : gPhase[c] = "sent" => gUpdate[c].base = gDoc
    /\ \A c \in TagCalls : gPhase[c] = "merged" /\ gUpdate[c].asked # {} => gUpdate[c].made = gDoc
    /\ \A c \in TagCalls : gPhase[c] \in {"sent", "merged"} =>
         \A a \in gUpdate[c].asked : TagRequestDone(a, gUpdate[c].base, gUpdate[c].made)

TagsInv ==
  /\ gPhase \in [TagCalls -> {"idle", "sent", "merged", "refused", "lost", "late"}]
  /\ gStale \in BOOLEAN
  /\ TagsAreWhole /\ OneTagCall /\ LastTagCall

(* The workspace starts with one tag, on every page.                       *)
LEMMA InitTags == TagsInit => TagsInv
<1> SUFFICES ASSUME TagsInit PROVE TagsInv
  OBVIOUS
<1>1. PICK o, tags :
        /\ o = Option(Id(FirstTag), Name(FirstName))
        /\ tags = {TagEntry(p, Id(FirstTag), FirstTag) : p \in Pages \ {FreshPage}}
                    \cup {TagEntry(FreshPage, Name(FirstName), FirstTag)}
  OBVIOUS
<1>2. /\ gDoc = [options |-> <<o>>, tags |-> tags] /\ gStale = FALSE
      /\ gPhase = [c \in TagCalls |-> "idle"] /\ gUpdate = [c \in TagCalls |-> GU!Nothing]
  BY <1>1 DEF TagsInit, GU!UpdatesInit
<1>3. o \in TagOptions /\ o.id = Id(FirstTag) /\ o.value = Name(FirstName)
  BY <1>1 DEF Option, TagOptions, TagIdOrNames, TagNames
<1>4. gDoc.options = <<o>> /\ gDoc.tags = tags
  BY <1>2
<1>5. gDoc.options \in Seq(TagOptions) /\ DOMAIN gDoc.options = {1} /\ gDoc.options[1] = o
  BY <1>3, <1>4
<1>6. Options(gDoc) = {o} /\ Ordered(gDoc.options, gDoc.options)
  BY <1>5 DEF Options, Range, Ordered
<1>7. OptionsFit(gDoc)
  BY <1>5, <1>6 DEF OptionsFit
<1>8. \A e \in tags : e.entry = o.id \/ e.entry = Name(FirstName)
  BY <1>1, <1>3 DEF TagEntry
<1>9. Resolved(gDoc)
  BY <1>4, <1>6, <1>8 DEF Resolved, TagNames
<1>10. \A e, f \in tags : e.page = f.page => e = f
  BY <1>1 DEF TagEntry
<1>11. TagsFit(gDoc)
  BY <1>2, <1>3, <1>4, <1>6, <1>7, <1>9, <1>10 DEF TagsFit, TagsWhole, ListedOnce, TagBegun
<1> QED
  BY <1>2, <1>11 DEF TagsInv, TagsAreWhole, OneTagCall, LastTagCall

(* A handler pushes an edit, or throws.                                    *)
LEMMA TagHandledKeeps ==
  ASSUME TagsInv, NEW c \in TagCalls, NEW results, NEW asked, GU!Handled(c, results, asked),
         ~gStale => \A made \in results : TagMakes(c, gDoc, made, asked)
  PROVE  TagsInv'
<1>1. /\ gPhase \in [TagCalls -> {"idle", "sent", "merged", "refused", "lost", "late"}]
      /\ gStale \in BOOLEAN /\ TagsAreWhole /\ OneTagCall /\ LastTagCall
  BY DEF TagsInv
<1>2. /\ gPhase[c] = "idle" /\ UNCHANGED <<gDoc, gStale>>
      /\ \A o \in TagCalls : gPhase[o] # "sent"
  BY DEF GU!Handled
<1>3. CASE gPhase' = [gPhase EXCEPT ![c] = "refused"] /\ UNCHANGED gUpdate
  <2>1. \A o \in TagCalls : gPhase'[o] = IF o = c THEN "refused" ELSE gPhase[o]
    BY <1>1, <1>3
  <2>2. TagBegun \subseteq TagBegun'
    BY <2>1 DEF TagBegun
  <2>3. TagsAreWhole'
    BY <1>1, <1>2, <1>3, <2>1, <2>2 DEF TagsAreWhole, TagsFit
  <2>4. OneTagCall' /\ LastTagCall'
    BY <1>1, <1>2, <1>3, <2>1 DEF OneTagCall, LastTagCall
  <2>5. gPhase' \in [TagCalls -> {"idle", "sent", "merged", "refused", "lost", "late"}]
    BY <1>1, <1>3
  <2> QED
    BY <1>1, <1>2, <2>3, <2>4, <2>5 DEF TagsInv
<1>4. ASSUME NEW made \in results,
             gPhase' = [gPhase EXCEPT ![c] = "sent"],
             gUpdate' = [o \in TagCalls |->
               IF o = c THEN [base |-> gDoc, made |-> made, asked |-> asked]
               ELSE IF gPhase[o] = "lost" THEN gUpdate[o] ELSE GU!Nothing]
      PROVE  TagsInv'
  <2>1. \A o \in TagCalls : gPhase'[o] = IF o = c THEN "sent" ELSE gPhase[o]
    BY <1>1, <1>4
  <2>2. TagBegun' = TagBegun \cup {c} /\ gPhase' \in [TagCalls -> {"idle", "sent", "merged", "refused", "lost", "late"}]
    BY <1>1, <1>4, <2>1 DEF TagBegun
  <2>3. gUpdate'[c].base = gDoc /\ gUpdate'[c].made = made /\ gUpdate'[c].asked = asked
    BY <1>4
  <2>4. \A o \in TagCalls \ {c} :
          /\ gPhase[o] = "lost" => gUpdate'[o] = gUpdate[o]
          /\ gPhase[o] # "lost" => gUpdate'[o].asked = {}
    BY <1>4 DEF GU!Nothing
  <2>5. TagsAreWhole'
    <3> SUFFICES ASSUME ~gStale
                 PROVE  /\ TagsFit(gDoc)'
                        /\ \A o \in TagCalls : gPhase'[o] \in {"sent", "lost"} =>
                             TagsFit(gUpdate[o].made)' /\ Ordered(gUpdate'[o].made.options, gUpdate'[o].base.options)
      BY <1>2 DEF TagsAreWhole
    <3>1. TagsFit(gDoc)'
      BY <1>1, <1>2, <2>2 DEF TagsAreWhole, TagsFit
    <3>2. TagMakes(c, gDoc, made, asked) /\ TagsFit(gDoc)
      BY <1>1 DEF TagsAreWhole
    <3>3. TagsFit(gUpdate[c].made)' /\ Ordered(gUpdate'[c].made.options, gUpdate'[c].base.options)
      BY <2>2, <2>3, <3>2 DEF TagMakes, TagsFit
    <3>4. ASSUME NEW o \in TagCalls \ {c}, gPhase'[o] \in {"sent", "lost"}
          PROVE  TagsFit(gUpdate[o].made)' /\ Ordered(gUpdate'[o].made.options, gUpdate'[o].base.options)
      <4>1. gPhase[o] = "lost" /\ gUpdate'[o] = gUpdate[o]
        BY <1>2, <2>1, <2>4, <3>4
      <4> QED
        BY <1>1, <2>2, <4>1 DEF TagsAreWhole, TagsFit
    <3> QED
      BY <3>1, <3>3, <3>4
  <2>6. OneTagCall'
    BY <1>2, <2>1, <2>4 DEF OneTagCall
  <2>7. LastTagCall'
    <3> SUFFICES ASSUME \A o \in TagCalls : gPhase'[o] # "late"
                 PROVE  /\ ~gStale
                        /\ \A o \in TagCalls : gPhase'[o] = "sent" => gUpdate'[o].base = gDoc
                        /\ \A o \in TagCalls : gPhase'[o] = "merged" /\ gUpdate'[o].asked # {} => gUpdate'[o].made = gDoc
                        /\ \A o \in TagCalls : gPhase'[o] \in {"sent", "merged"} =>
                             \A a \in gUpdate'[o].asked : TagRequestDone(a, gUpdate'[o].base, gUpdate'[o].made)
      BY <1>2 DEF LastTagCall, TagRequestDone
    <3>1. ~gStale
      BY <1>1, <1>2, <2>1 DEF LastTagCall
    <3>2. \A a \in asked : TagRequestDone(a, gDoc, made)
      BY <3>1 DEF TagMakes
    <3> QED
      BY <1>2, <2>1, <2>3, <2>4, <3>1, <3>2
  <2> QED
    BY <1>1, <1>2, <2>2, <2>5, <2>6, <2>7 DEF TagsInv
<1> QED
  BY <1>3, <1>4 DEF GU!Handled

(* A handler that finds nothing to change.                                 *)
LEMMA TagAnsweredKeeps ==
  ASSUME TagsInv, NEW c \in TagCalls, NEW asked, GU!Answered(c, asked),
         ~gStale => TagMakes(c, gDoc, gDoc, asked)
  PROVE  TagsInv'
<1>1. /\ gPhase \in [TagCalls -> {"idle", "sent", "merged", "refused", "lost", "late"}]
      /\ gStale \in BOOLEAN /\ TagsAreWhole /\ OneTagCall /\ LastTagCall
  BY DEF TagsInv
<1>2. /\ gPhase[c] = "idle" /\ UNCHANGED <<gDoc, gStale>>
      /\ \A o \in TagCalls : gPhase[o] # "sent"
      /\ gPhase' = [gPhase EXCEPT ![c] = "merged"]
      /\ gUpdate' = [o \in TagCalls |->
               IF o = c THEN [base |-> gDoc, made |-> gDoc, asked |-> asked]
               ELSE IF gPhase[o] = "lost" THEN gUpdate[o] ELSE GU!Nothing]
  BY DEF GU!Answered
<1>3. \A o \in TagCalls : gPhase'[o] = IF o = c THEN "merged" ELSE gPhase[o]
  BY <1>1, <1>2
<1>4. TagBegun \subseteq TagBegun' /\ gPhase' \in [TagCalls -> {"idle", "sent", "merged", "refused", "lost", "late"}]
  BY <1>1, <1>2, <1>3 DEF TagBegun
<1>5. gUpdate'[c].base = gDoc /\ gUpdate'[c].made = gDoc /\ gUpdate'[c].asked = asked
  BY <1>2
<1>6. \A o \in TagCalls \ {c} :
        /\ gPhase[o] = "lost" => gUpdate'[o] = gUpdate[o]
        /\ gPhase[o] # "lost" => gUpdate'[o].asked = {}
  BY <1>2 DEF GU!Nothing
<1>7. TagsAreWhole'
  BY <1>1, <1>2, <1>3, <1>4, <1>6 DEF TagsAreWhole, TagsFit
<1>8. OneTagCall'
  BY <1>2, <1>3, <1>6 DEF OneTagCall
<1>9. LastTagCall'
  <2> SUFFICES ASSUME \A o \in TagCalls : gPhase'[o] # "late"
               PROVE  /\ ~gStale
                      /\ \A o \in TagCalls : gPhase'[o] = "sent" => gUpdate'[o].base = gDoc
                      /\ \A o \in TagCalls : gPhase'[o] = "merged" /\ gUpdate'[o].asked # {} => gUpdate'[o].made = gDoc
                      /\ \A o \in TagCalls : gPhase'[o] \in {"sent", "merged"} =>
                           \A a \in gUpdate'[o].asked : TagRequestDone(a, gUpdate'[o].base, gUpdate'[o].made)
    BY <1>2 DEF LastTagCall, TagRequestDone
  <2>1. ~gStale
    BY <1>1, <1>2, <1>3 DEF LastTagCall
  <2>2. \A a \in asked : TagRequestDone(a, gDoc, gDoc)
    BY <2>1 DEF TagMakes
  <2> QED
    BY <1>2, <1>3, <1>5, <1>6, <2>1, <2>2
<1> QED
  BY <1>1, <1>2, <1>4, <1>7, <1>8, <1>9 DEF TagsInv

(* An update merged into the tags it was made from.                        *)
LEMMA TagsMergeInPlace ==
  ASSUME NEW base, TagsWhole(base), NEW made, TagsWhole(made), Ordered(made.options, base.options)
  PROVE  TagMerge(base, base, made) = made
<1>1. MergedList(base.options, base.options, made.options) = made.options
  BY MergesListInPlace DEF TagsWhole, OptionsFit
<1>2. MergedSet(base.tags, base.tags, made.tags) = made.tags
  BY DEF MergedSet
<1> QED
  BY <1>1, <1>2 DEF TagMerge, TagsWhole

(* An update is merged, in time or late, or its acknowledgement is lost.   *)
LEMMA TagMergeKeeps ==
  ASSUME TagsInv, NEW c \in TagCalls, GU!MergeUpdate(c) \/ GU!LoseAck(c)
  PROVE  TagsInv'
<1>1. /\ gPhase \in [TagCalls -> {"idle", "sent", "merged", "refused", "lost", "late"}]
      /\ gStale \in BOOLEAN /\ TagsAreWhole /\ OneTagCall /\ LastTagCall
  BY DEF TagsInv
<1>2. CASE GU!LoseAck(c)
  <2>1. /\ gPhase[c] = "sent" /\ UNCHANGED <<gDoc, gUpdate, gStale>>
        /\ gPhase' = [gPhase EXCEPT ![c] = "lost"]
    BY <1>2 DEF GU!LoseAck
  <2>2. \A o \in TagCalls : gPhase'[o] = IF o = c THEN "lost" ELSE gPhase[o]
    BY <1>1, <2>1
  <2>3. TagBegun' = TagBegun /\ gPhase' \in [TagCalls -> {"idle", "sent", "merged", "refused", "lost", "late"}]
    BY <1>1, <2>1, <2>2 DEF TagBegun
  <2>4. TagsAreWhole'
    BY <1>1, <2>1, <2>2, <2>3 DEF TagsAreWhole, TagsFit
  <2>5. OneTagCall' /\ LastTagCall'
    BY <1>1, <2>1, <2>2 DEF OneTagCall, LastTagCall
  <2> QED
    BY <1>1, <2>1, <2>3, <2>4, <2>5 DEF TagsInv
<1>3. CASE GU!MergeUpdate(c)
  <2>1. PICK base, made : base = gUpdate[c].base /\ made = gUpdate[c].made
    OBVIOUS
  <2>2. /\ gPhase[c] \in {"sent", "lost"} /\ UNCHANGED gUpdate
        /\ gPhase' = [gPhase EXCEPT ![c] = IF gPhase[c] = "sent" THEN "merged" ELSE "late"]
        /\ gDoc' = TagMerge(gDoc, base, made)
        /\ gStale' = (gStale \/ gDoc # base)
    BY <1>3, <2>1 DEF GU!MergeUpdate
  <2>3. \A o \in TagCalls : gPhase'[o] = IF o # c THEN gPhase[o]
                                           ELSE IF gPhase[c] = "sent" THEN "merged" ELSE "late"
    BY <1>1, <2>2
  <2>4. TagBegun' = TagBegun /\ gPhase' \in [TagCalls -> {"idle", "sent", "merged", "refused", "lost", "late"}]
    BY <1>1, <2>2, <2>3 DEF TagBegun
  <2>5. ASSUME ~gStale' PROVE ~gStale /\ gDoc = base /\ gDoc' = made
    <3>1. ~gStale /\ gDoc = base
      BY <1>1, <2>2, <2>5
    <3>2. TagsFit(base) /\ TagsFit(made) /\ Ordered(made.options, base.options)
      BY <1>1, <2>1, <2>2, <3>1 DEF TagsAreWhole
    <3>3. TagMerge(base, base, made) = made
      BY <3>2, TagsMergeInPlace DEF TagsFit
    <3> QED
      BY <2>2, <3>1, <3>3
  <2>6. TagsAreWhole'
    <3> SUFFICES ASSUME ~gStale'
                 PROVE  /\ TagsFit(gDoc)'
                        /\ \A o \in TagCalls : gPhase'[o] \in {"sent", "lost"} =>
                             TagsFit(gUpdate[o].made)' /\ Ordered(gUpdate'[o].made.options, gUpdate'[o].base.options)
      BY DEF TagsAreWhole
    <3>1. TagsFit(made)
      BY <1>1, <2>1, <2>2, <2>5 DEF TagsAreWhole
    <3>2. TagsFit(gDoc)'
      BY <2>4, <2>5, <3>1 DEF TagsFit
    <3>3. ASSUME NEW o \in TagCalls, gPhase'[o] \in {"sent", "lost"}
          PROVE  TagsFit(gUpdate[o].made)' /\ Ordered(gUpdate'[o].made.options, gUpdate'[o].base.options)
      BY <1>1, <2>2, <2>3, <2>4, <2>5, <3>3 DEF TagsAreWhole, TagsFit
    <3> QED
      BY <3>2, <3>3
  <2>7. OneTagCall'
    BY <1>1, <2>2, <2>3 DEF OneTagCall
  <2>8. LastTagCall'
    <3> SUFFICES ASSUME \A o \in TagCalls : gPhase'[o] # "late"
                 PROVE  /\ ~gStale'
                        /\ \A o \in TagCalls : gPhase'[o] = "sent" => gUpdate[o].base = gDoc'
                        /\ \A o \in TagCalls : gPhase'[o] = "merged" /\ gUpdate[o].asked # {} => gUpdate[o].made = gDoc'
                        /\ \A o \in TagCalls : gPhase'[o] \in {"sent", "merged"} =>
                             \A a \in gUpdate[o].asked : TagRequestDone(a, gUpdate[o].base, gUpdate[o].made)
      BY <2>2 DEF LastTagCall, TagRequestDone
    <3>1. gPhase[c] = "sent" /\ \A o \in TagCalls : gPhase[o] # "late"
      BY <2>2, <2>3
    <3>2. ~gStale'
      BY <1>1, <2>1, <2>2, <3>1 DEF LastTagCall
    <3>3. \A o \in TagCalls \ {c} : gPhase'[o] # "sent" /\ (gPhase'[o] = "merged" => gUpdate[o].asked = {})
      BY <1>1, <2>3, <3>1 DEF OneTagCall
    <3>4. \A o \in TagCalls : gPhase[o] \in {"sent", "merged"} =>
            \A a \in gUpdate[o].asked : TagRequestDone(a, gUpdate[o].base, gUpdate[o].made)
      BY <1>1, <3>1 DEF LastTagCall
    <3> QED
      BY <2>1, <2>3, <2>5, <3>1, <3>2, <3>3, <3>4
  <2>9. (gStale \in BOOLEAN)'
    BY <2>2
  <2> QED
    BY <2>4, <2>6, <2>7, <2>8, <2>9 DEF TagsInv
<1> QED
  BY <1>2, <1>3

(* A tool that answers at once where nothing changes.                      *)
LEMMA TagAnswerKeeps ==
  ASSUME TagsInv, NEW c \in TagCalls, NEW made, NEW asked, Answer(c, made, asked),
         ~gStale => TagMakes(c, gDoc, made, asked)
  PROVE  TagsInv'
<1>1. CASE made = gDoc
  <2>1. GU!Answered(c, asked)
    BY <1>1 DEF Answer
  <2> QED
    BY <1>1, <2>1, TagAnsweredKeeps
<1>2. CASE made # gDoc
  <2>1. GU!Handled(c, {made}, asked)
    BY <1>2 DEF Answer
  <2> QED
    BY <2>1, TagHandledKeeps
<1> QED
  BY <1>1, <1>2

(* The tag tools keep it all.                                              *)
LEMMA TagsNextKeeps == TagsInv /\ [TagsNext]_tagVars => TagsInv'
<1> SUFFICES ASSUME TagsInv, [TagsNext]_tagVars PROVE TagsInv'
  OBVIOUS
<1>1. ASSUME NEW c \in TagCalls, gPhase[c] = "idle", ~gStale PROVE TagsWhole(gDoc) /\ NewTo(c, gDoc)
  BY <1>1, TagsAssumption, NamesAndIds DEF TagsInv, TagsAreWhole, TagsFit, TagBegun, NewTo
<1>2. ASSUME NEW c \in TagCalls, NEW made, NEW asked, Answer(c, made, asked) PROVE gPhase[c] = "idle"
  BY <1>2 DEF Answer, GU!Answered, GU!Handled
<1>3. ASSUME NEW c \in TagCalls, createTag(c) PROVE TagsInv'
  <2>1. PICK tag \in TagIdOrNames : Answer(c, ensureWorkspaceTagOption(gDoc, c, tag), {})
    BY <1>3 DEF createTag
  <2>2. ~gStale => TagMakes(c, gDoc, ensureWorkspaceTagOption(gDoc, c, tag), {})
    BY <1>1, <1>2, <2>1, EnsuredTag DEF TagMakes
  <2> QED
    BY <2>1, <2>2, TagAnswerKeeps
<1>4. ASSUME NEW c \in TagCalls, addTagToDoc(c) PROVE TagsInv'
  <2>1. PICK p \in Pages, tag \in TagIdOrNames :
          Answer(c, AddedTag(gDoc, c, p, tag), TagRequest("add", p, tag))
    BY <1>4 DEF addTagToDoc
  <2>2. ~gStale => TagMakes(c, gDoc, AddedTag(gDoc, c, p, tag), TagRequest("add", p, tag))
    BY <1>1, <1>2, <2>1, AddedMakes
  <2> QED
    BY <2>1, <2>2, TagAnswerKeeps
<1>5. ASSUME NEW c \in TagCalls, removeTagFromDoc(c) PROVE TagsInv'
  <2>1. PICK p \in Pages, tag \in TagIdOrNames :
          Answer(c, RemovedTag(gDoc, p, tag), TagRequest("remove", p, tag))
    BY <1>5 DEF removeTagFromDoc
  <2>2. ~gStale => TagMakes(c, gDoc, RemovedTag(gDoc, p, tag), TagRequest("remove", p, tag))
    BY <1>1, <1>2, <2>1, RemovedMakes
  <2> QED
    BY <2>1, <2>2, TagAnswerKeeps
<1>6. ASSUME NEW c \in TagCalls, onUnregisteredPage(c) PROVE TagsInv'
  <2>1. PICK results : results = {} /\ GU!Handled(c, results, {})
    BY <1>6 DEF onUnregisteredPage
  <2> QED
    BY <2>1, TagHandledKeeps
<1>7. ASSUME NEW c \in TagCalls, deleteTag(c) PROVE TagsInv'
  <2>1. PICK tag \in TagIdOrNames :
          GU!Handled(c, {DeletedTag(gDoc, o) : o \in findTagOptionForDeletion(gDoc, tag)},
                     TagRequest("delete", FreshPage, tag))
    BY <1>7 DEF deleteTag
  <2>2. PICK results : results = {DeletedTag(gDoc, o) : o \in findTagOptionForDeletion(gDoc, tag)}
    OBVIOUS
  <2>3. gPhase[c] = "idle"
    BY <2>1 DEF GU!Handled
  <2>4. ~gStale => \A made \in results : TagMakes(c, gDoc, made, TagRequest("delete", FreshPage, tag))
    BY <1>1, <2>2, <2>3, DeletedTagMakes
  <2> QED
    BY <2>1, <2>2, <2>4, TagHandledKeeps
<1>8. ASSUME NEW c \in TagCalls, syncRawTagsToWorkspacePage(c) PROVE TagsInv'
  <2>1. PICK template \in Pages \ {FreshPage} :
          GU!Handled(c, {SyncedRawTags(gDoc, c, FreshPage, template)}, {})
    BY <1>8 DEF syncRawTagsToWorkspacePage
  <2>2. gPhase[c] = "idle"
    BY <2>1 DEF GU!Handled
  <2>3. ~gStale => TagMakes(c, gDoc, SyncedRawTags(gDoc, c, FreshPage, template), {})
    BY <1>1, <2>2, SyncedMakes
  <2> QED
    BY <2>1, <2>3, TagHandledKeeps
<1>9. ASSUME UNCHANGED tagVars PROVE TagsInv'
  <2>1. gDoc' = gDoc /\ gPhase' = gPhase /\ gUpdate' = gUpdate /\ gStale' = gStale
    BY <1>9 DEF tagVars
  <2>2. TagsAreWhole' /\ OneTagCall' /\ LastTagCall'
    BY <2>1 DEF TagsInv, TagsAreWhole, OneTagCall, LastTagCall, TagsFit, TagBegun
  <2> QED
    BY <2>1, <2>2 DEF TagsInv
<1>10. ASSUME GU!UpdatesDone PROVE UNCHANGED tagVars
  BY <1>10 DEF GU!UpdatesDone, tagVars
<1> QED
  BY <1>3, <1>4, <1>5, <1>6, <1>7, <1>8, <1>9, <1>10, TagMergeKeeps DEF TagsNext

(* The tag tools, for any calls and pages.                                 *)
THEOREM TagsSafety == TagsSpec => []TagsInv
<1> QED
  BY InitTags, TagsNextKeeps, PTL DEF TagsSpec

(* While updates are merged in order, every id a page lists has its        *)
(* option, no two tags share a name, and no page lists a tag twice.        *)
THEOREM TagsAreKeptWhole == TagsSpec => []TagsStayWhole
<1>1. TagsInv => TagsStayWhole
  <2> SUFFICES ASSUME TagsInv, ~gStale
               PROVE  /\ \A e \in gDoc.tags : e.entry \in TagNames \/ \E o \in Options(gDoc) : o.id = e.entry
                      /\ \A i, j \in DOMAIN gDoc.options :
                           gDoc.options[i].value = gDoc.options[j].value => i = j
                      /\ \A e, f \in gDoc.tags : e.page = f.page /\ e # f =>
                           LabelOf(gDoc, e.entry) # LabelOf(gDoc, f.entry)
    BY DEF TagsStayWhole
  <2>1. OptionsFit(gDoc) /\ Resolved(gDoc) /\ ListedOnce(gDoc)
    BY DEF TagsInv, TagsAreWhole, TagsFit, TagsWhole
  <2>2. ASSUME NEW i \in DOMAIN gDoc.options, NEW j \in DOMAIN gDoc.options,
               gDoc.options[i].value = gDoc.options[j].value
        PROVE  i = j
    <3>1. PICK list : list = gDoc.options
      OBVIOUS
    <3>2. list[i] \in Options(gDoc) /\ list[j] \in Options(gDoc)
      BY <3>1 DEF Options, Range
    <3>3. list[i] = list[j]
      BY <2>1, <2>2, <3>1, <3>2 DEF OptionsFit
    <3>4. DOMAIN list = 1..Len(list) /\ Len(list) \in Nat /\ Ordered(list, list)
      BY <2>1, <3>1, LenProperties DEF OptionsFit
    <3> QED
      BY <3>1, <3>3, <3>4 DEF Ordered
  <2> QED
    BY <2>1, <2>2 DEF Resolved, ListedOnce
<1> QED
  BY <1>1, TagsSafety, PTL

(* When nothing was merged late, the last call is what list_docs_by_tag    *)
(* shows, and no other tag of any page has come or gone.                   *)
THEOREM TagRequestsAreDone == TagsSpec => []TagRequestsAreKept
<1>1. TagsInv => TagRequestsAreKept
  <2> SUFFICES ASSUME TagsInv, \A o \in TagCalls : gPhase[o] # "late",
                      NEW c \in TagCalls, gPhase[c] = "merged", NEW a \in gUpdate[c].asked
               PROVE  TagRequestDone(a, gUpdate[c].base, gDoc)
    BY DEF TagRequestsAreKept, TagRequestDone
  <2> QED
    BY DEF TagsInv, LastTagCall
<1> QED
  BY <1>1, TagsSafety, PTL
=============================================================================
