----------------------------- MODULE RemoteProofs -----------------------------
(***************************************************************************)
(* Three components that share only a server that may answer late or not   *)
(* at all, each for any instance: the creation of a document (DocCreation) *)
(* by any of the tools that place it (DocPlacement); the shared sign-in    *)
(* (AuthSession), for any number of requests and clients, any sets of      *)
(* cookies and any retry delay; and one page from edit to deletion         *)
(* (PageLifecycle), for any number of calls and listings.                  *)
(*                                                                         *)
(* A creation rests on what has been seen: whoever may send an entry has   *)
(* seen the content (ContentKnown), and all that is sent or stored is the  *)
(* entry that was built (OneEntry). A tool that places the document knows  *)
(* by its step what is there (StepsBehind).                                *)
(*                                                                         *)
(* Two facts carry the sign-in: a cookie is not given out past the time it *)
(* is to be refreshed at, and that time is not past its end                *)
(* (LivesLongEnough); and the session remembers its last failure for as    *)
(* long as it matters (RemembersFailure), while a sign-in that is under    *)
(* way began after the delay.                                              *)
(*                                                                         *)
(* Of the page, calls know two kinds of things. Some stay true whatever is *)
(* served late, since an entry that is gone is never put back and an edit  *)
(* is never taken out (KnownForGood); the listings rest on these. The      *)
(* others are true until a request that was given up on is served          *)
(* (KnownUntilLanding); what is answered rests on both.                    *)
(***************************************************************************)
EXTENDS DocPlacement, AuthSession, PageLifecycle, SequenceTheorems, FiniteSetTheorems,
        WellFoundedInduction, TLAPS

-----------------------------------------------------------------------------
(* The creation of a document.                                             *)

(* The bytes of one entry are all that is ever sent: every title update on *)
(* its way, and every entry on the server, is the one kept in built.       *)
OneEntry ==
  /\ pages \subseteq {built} \cap Titles
  /\ \A p \in inflight : p[1] \in Titles => p[1] = built
  /\ pc \in {"sendContent", "awaitContent", "build"} => built = NoUpdate
  /\ pc \in {"sendMetadata", "awaitMetadata", "repair", "awaitRepair"} => built \in Titles

(* Whoever is about to send an entry, has sent it, or has seen the content, *)
(* may rely on the content being stored.                                    *)
ContentKnown ==
  /\ pc \in {"build", "sendMetadata", "awaitMetadata", "ensure", "repair", "awaitRepair"} => content
  /\ probe.content = "yes" => content
  /\ (\E p \in inflight : p[1] \in Titles) => content
  /\ pages # {} => content

(* What is awaited is on its way or merged; what was probed stays true.    *)
AwaitedIsSent ==
  /\ pc = "awaitContent" => sending = Content /\ (Current \in inflight \/ content)
  /\ pc = "awaitMetadata" => sending = built /\ (Current \in inflight \/ pages # {})
  /\ probe.metadata = "yes" => pages # {}

(* How often each update has been pushed, by the position reached. *)
TriesKnown ==
  /\ pc = "sendContent" => tries[Content] = 0
  /\ pc \in {"ensure", "repair"} => "repair" \in attempted
  /\ "retry" \notin attempted => tries[Content] <= 1
  /\ tries[Content] <= 2
  /\ pc \in {"sendContent", "awaitContent", "build", "sendMetadata"} =>
       \A u \in Titles : tries[u] = 0
  /\ ("repair" \notin attempted \/ pc \in {"ensure", "repair"}) => \A u \in Titles : tries[u] <= 1
  /\ \A u \in Titles : tries[u] <= 2

IInv ==
  /\ TypeOK
  /\ OneEntry
  /\ ContentKnown
  /\ AwaitedIsSent
  /\ TriesKnown
  /\ ReportsAreTrue

-----------------------------------------------------------------------------
(* The first state of a creation satisfies the invariant. *)
LEMMA InitIInv == Init => IInv
<1> SUFFICES ASSUME Init PROVE IInv
  OBVIOUS
<1> USE DEF Init
<1>1. TypeOK
  BY DEF TypeOK, Updates, Verdicts, NoUpdate, Content, Unknown
<1>2. OneEntry
  BY DEF OneEntry
<1>3. ContentKnown
  BY DEF ContentKnown, Unknown
<1>4. AwaitedIsSent
  BY DEF AwaitedIsSent, Unknown
<1>5. TriesKnown
  BY DEF TriesKnown, Updates
<1>6. ReportsAreTrue
  BY DEF ReportsAreTrue
<1> QED
  BY <1>1, <1>2, <1>3, <1>4, <1>5, <1>6 DEF IInv

(* Every step keeps it.  Two steps carry the argument: ServerApplies, where *)
(* an entry is stored because it was sent, hence after the content; and     *)
(* PushAcknowledged, where an update no longer on its way has been merged.  *)
LEMMA NextKeepsIInv == IInv /\ [Next]_vars => IInv'
<1> SUFFICES ASSUME IInv, [Next]_vars PROVE IInv'
  OBVIOUS
<1> USE TitlesAssumption DEF IInv, Current, client, server
<1>1. CASE SendContent
  <2>1. TypeOK'
    BY <1>1 DEF SendContent, Push, Goto, TypeOK, Updates
  <2>2. OneEntry'
    BY <1>1 DEF SendContent, Push, Goto, OneEntry
  <2>3. ContentKnown'
    BY <1>1 DEF SendContent, Push, Goto, ContentKnown
  <2>4. AwaitedIsSent'
    BY <1>1 DEF SendContent, Push, Goto, TypeOK, AwaitedIsSent, Updates
  <2>5. TriesKnown'
    BY <1>1 DEF SendContent, Push, Goto, TriesKnown
  <2>6. ReportsAreTrue'
    BY <1>1 DEF SendContent, Push, ReportsAreTrue
  <2> QED
    BY <2>1, <2>2, <2>3, <2>4, <2>5, <2>6
<1>2. CASE SendMetadata
  <2>1. TypeOK'
    BY <1>2 DEF SendMetadata, Push, Goto, TypeOK, OneEntry, Updates
  <2>2. OneEntry'
    BY <1>2 DEF SendMetadata, Push, Goto, OneEntry
  <2>3. ContentKnown'
    BY <1>2 DEF SendMetadata, Push, Goto, ContentKnown
  <2>4. AwaitedIsSent'
    BY <1>2 DEF SendMetadata, Push, Goto, TypeOK, OneEntry, AwaitedIsSent, Updates
  <2>5. TriesKnown'
    BY <1>2 DEF SendMetadata, Push, Goto, OneEntry, TriesKnown
  <2>6. ReportsAreTrue'
    BY <1>2 DEF SendMetadata, Push, ReportsAreTrue
  <2> QED
    BY <2>1, <2>2, <2>3, <2>4, <2>5, <2>6
<1>3. CASE SendRepair
  <2>1. TypeOK'
    BY <1>3 DEF SendRepair, Push, Goto, TypeOK, OneEntry, Updates
  <2>2. OneEntry'
    BY <1>3 DEF SendRepair, Push, Goto, OneEntry
  <2>3. ContentKnown'
    BY <1>3 DEF SendRepair, Push, Goto, ContentKnown
  <2>4. AwaitedIsSent'
    BY <1>3 DEF SendRepair, Push, Goto, AwaitedIsSent
  <2>5. TriesKnown'
    BY <1>3 DEF SendRepair, Push, Goto, TypeOK, TriesKnown, NoUpdate, Content
  <2>6. ReportsAreTrue'
    BY <1>3 DEF SendRepair, Push, ReportsAreTrue
  <2> QED
    BY <2>1, <2>2, <2>3, <2>4, <2>5, <2>6
<1>4. CASE PushAcknowledged
  <2>1. TypeOK'
    BY <1>4 DEF PushAcknowledged, TypeOK, Awaiting, AfterSuccess
  <2>2. OneEntry'
    BY <1>4 DEF PushAcknowledged, OneEntry, Awaiting, AfterSuccess
  <2>3. ContentKnown'
    BY <1>4 DEF PushAcknowledged, ContentKnown, AwaitedIsSent, Awaiting, AfterSuccess
  <2>4. AwaitedIsSent'
    BY <1>4 DEF PushAcknowledged, AwaitedIsSent, Awaiting, AfterSuccess
  <2>5. TriesKnown'
    BY <1>4 DEF PushAcknowledged, TriesKnown, Awaiting, AfterSuccess
  <2>6. ReportsAreTrue'
    BY <1>4 DEF PushAcknowledged, ContentKnown, AwaitedIsSent, ReportsAreTrue, Awaiting,
       AfterSuccess
  <2> QED
    BY <2>1, <2>2, <2>3, <2>4, <2>5, <2>6
<1>5. CASE PushRefused
  <2>1. TypeOK'
    BY <1>5 DEF PushRefused, TypeOK, AfterFailure, FirstFailure
  <2>2. OneEntry'
    BY <1>5 DEF PushRefused, OneEntry, AfterFailure
  <2>3. ContentKnown'
    BY <1>5 DEF PushRefused, ContentKnown, AfterFailure
  <2>4. AwaitedIsSent'
    BY <1>5 DEF PushRefused, AwaitedIsSent, AfterFailure
  <2>5. TriesKnown'
    BY <1>5 DEF PushRefused, TriesKnown, AfterFailure
  <2>6. ReportsAreTrue'
    BY <1>5 DEF PushRefused, ReportsAreTrue
  <2> QED
    BY <2>1, <2>2, <2>3, <2>4, <2>5, <2>6
<1>6. CASE PushTimesOut
  <2>1. TypeOK'
    BY <1>6 DEF PushTimesOut, TypeOK, AfterFailure, FirstFailure
  <2>2. OneEntry'
    BY <1>6 DEF PushTimesOut, OneEntry, AfterFailure
  <2>3. ContentKnown'
    BY <1>6 DEF PushTimesOut, ContentKnown, AfterFailure
  <2>4. AwaitedIsSent'
    BY <1>6 DEF PushTimesOut, AwaitedIsSent, AfterFailure
  <2>5. TriesKnown'
    BY <1>6 DEF PushTimesOut, TriesKnown, AfterFailure
  <2>6. ReportsAreTrue'
    BY <1>6 DEF PushTimesOut, ReportsAreTrue
  <2> QED
    BY <2>1, <2>2, <2>3, <2>4, <2>5, <2>6
<1>7. CASE BuildMetadata
  <2>1. TypeOK'
    BY <1>7 DEF BuildMetadata, Goto, TypeOK, BuildUpdate
  <2>2. OneEntry'
    BY <1>7 DEF BuildMetadata, Goto, OneEntry, BuildUpdate
  <2>3. ContentKnown'
    BY <1>7 DEF BuildMetadata, Goto, ContentKnown
  <2>4. AwaitedIsSent'
    BY <1>7 DEF BuildMetadata, Goto, AwaitedIsSent
  <2>5. TriesKnown'
    BY <1>7 DEF BuildMetadata, Goto, TriesKnown
  <2>6. ReportsAreTrue'
    BY <1>7 DEF BuildMetadata, ReportsAreTrue
  <2> QED
    BY <2>1, <2>2, <2>3, <2>4, <2>5, <2>6
<1>8. CASE BuildFails
  <2>1. TypeOK'
    BY <1>8 DEF BuildFails, Goto, TypeOK
  <2>2. OneEntry'
    BY <1>8 DEF BuildFails, Goto, OneEntry
  <2>3. ContentKnown'
    BY <1>8 DEF BuildFails, Goto, ContentKnown
  <2>4. AwaitedIsSent'
    BY <1>8 DEF BuildFails, Goto, AwaitedIsSent
  <2>5. TriesKnown'
    BY <1>8 DEF BuildFails, Goto, TriesKnown
  <2>6. ReportsAreTrue'
    BY <1>8 DEF BuildFails, ReportsAreTrue
  <2> QED
    BY <2>1, <2>2, <2>3, <2>4, <2>5, <2>6
<1>9. CASE ProbeContent
  <2>1. TypeOK'
    BY <1>9 DEF ProbeContent, Verdict, Goto, TypeOK, Verdicts
  <2>2. OneEntry'
    BY <1>9 DEF ProbeContent, Goto, OneEntry
  <2>3. ContentKnown'
    BY <1>9 DEF ProbeContent, Verdict, Goto, ContentKnown, Unknown
  <2>4. AwaitedIsSent'
    BY <1>9 DEF ProbeContent, Goto, AwaitedIsSent
  <2>5. TriesKnown'
    BY <1>9 DEF ProbeContent, Goto, TriesKnown
  <2>6. ReportsAreTrue'
    BY <1>9 DEF ProbeContent, ReportsAreTrue
  <2> QED
    BY <2>1, <2>2, <2>3, <2>4, <2>5, <2>6
<1>10. CASE ProbeMetadata
  <2>1. TypeOK'
    BY <1>10 DEF ProbeMetadata, Verdict, Goto, TypeOK, Verdicts
  <2>2. OneEntry'
    BY <1>10 DEF ProbeMetadata, Goto, OneEntry
  <2>3. ContentKnown'
    BY <1>10 DEF ProbeMetadata, Goto, ContentKnown
  <2>4. AwaitedIsSent'
    BY <1>10 DEF ProbeMetadata, Verdict, Goto, AwaitedIsSent, Unknown
  <2>5. TriesKnown'
    BY <1>10 DEF ProbeMetadata, Goto, TriesKnown
  <2>6. ReportsAreTrue'
    BY <1>10 DEF ProbeMetadata, ReportsAreTrue
  <2> QED
    BY <2>1, <2>2, <2>3, <2>4, <2>5, <2>6
<1>11. CASE Reconciled
  <2>1. TypeOK'
    BY <1>11 DEF Reconciled, Goto, TypeOK
  <2>2. OneEntry'
    BY <1>11 DEF Reconciled, Goto, OneEntry
  <2>3. ContentKnown'
    BY <1>11 DEF Reconciled, Goto, ContentKnown
  <2>4. AwaitedIsSent'
    BY <1>11 DEF Reconciled, Goto, AwaitedIsSent
  <2>5. TriesKnown'
    BY <1>11 DEF Reconciled, Goto, TriesKnown
  <2>6. ReportsAreTrue'
    BY <1>11 DEF Reconciled, Complete, ContentKnown, AwaitedIsSent, ReportsAreTrue
  <2> QED
    BY <2>1, <2>2, <2>3, <2>4, <2>5, <2>6
<1>12. CASE ContentRetried
  <2>1. TypeOK'
    BY <1>12 DEF ContentRetried, Push, Goto, TypeOK, Updates
  <2>2. OneEntry'
    BY <1>12 DEF ContentRetried, Push, Goto, OneEntry
  <2>3. ContentKnown'
    BY <1>12 DEF ContentRetried, Push, Goto, ContentKnown
  <2>4. AwaitedIsSent'
    BY <1>12 DEF ContentRetried, Push, Goto, AwaitedIsSent
  <2>5. TriesKnown'
    BY <1>12 DEF ContentRetried, RetryContent, Push, Goto, TypeOK, TriesKnown
  <2>6. ReportsAreTrue'
    BY <1>12 DEF ContentRetried, Push, ReportsAreTrue
  <2> QED
    BY <2>1, <2>2, <2>3, <2>4, <2>5, <2>6
<1>13. CASE RepairStarts
  <2>1. TypeOK'
    BY <1>13 DEF RepairStarts, Goto, TypeOK
  <2>2. OneEntry'
    BY <1>13 DEF RepairStarts, Goto, OneEntry
  <2>3. ContentKnown'
    BY <1>13 DEF RepairStarts, Repairs, ContentKnown
  <2>4. AwaitedIsSent'
    BY <1>13 DEF RepairStarts, Goto, AwaitedIsSent
  <2>5. TriesKnown'
    BY <1>13 DEF RepairStarts, Repairs, Goto, TriesKnown
  <2>6. ReportsAreTrue'
    BY <1>13 DEF RepairStarts, ReportsAreTrue
  <2> QED
    BY <2>1, <2>2, <2>3, <2>4, <2>5, <2>6
<1>14. CASE CreationFails
  <2>1. TypeOK'
    BY <1>14 DEF CreationFails, Goto, TypeOK
  <2>2. OneEntry'
    BY <1>14 DEF CreationFails, Goto, OneEntry
  <2>3. ContentKnown'
    BY <1>14 DEF CreationFails, Goto, ContentKnown
  <2>4. AwaitedIsSent'
    BY <1>14 DEF CreationFails, Goto, AwaitedIsSent
  <2>5. TriesKnown'
    BY <1>14 DEF CreationFails, Goto, TriesKnown
  <2>6. ReportsAreTrue'
    BY <1>14 DEF CreationFails, Complete, RetryContent, Repairs, ContentKnown, ReportsAreTrue
  <2> QED
    BY <2>1, <2>2, <2>3, <2>4, <2>5, <2>6
<1>15. CASE EnsureFindsOrFails
  <2>1. TypeOK'
    BY <1>15 DEF EnsureFindsOrFails, Goto, TypeOK
  <2>2. OneEntry'
    BY <1>15 DEF EnsureFindsOrFails, Goto, OneEntry
  <2>3. ContentKnown'
    BY <1>15 DEF EnsureFindsOrFails, Goto, ContentKnown
  <2>4. AwaitedIsSent'
    BY <1>15 DEF EnsureFindsOrFails, Goto, AwaitedIsSent
  <2>5. TriesKnown'
    BY <1>15 DEF EnsureFindsOrFails, Goto, TriesKnown
  <2>6. ReportsAreTrue'
    BY <1>15 DEF EnsureFindsOrFails, ReportsAreTrue
  <2> QED
    BY <2>1, <2>2, <2>3, <2>4, <2>5, <2>6
<1>16. CASE EnsureBuilds
  <2>1. TypeOK'
    BY <1>16 DEF EnsureBuilds, BuildUpdate, Goto, TypeOK
  <2>2. OneEntry'
    BY <1>16 DEF EnsureBuilds, BuildUpdate, Goto, TypeOK, OneEntry
  <2>3. ContentKnown'
    BY <1>16 DEF EnsureBuilds, Goto, ContentKnown
  <2>4. AwaitedIsSent'
    BY <1>16 DEF EnsureBuilds, Goto, AwaitedIsSent
  <2>5. TriesKnown'
    BY <1>16 DEF EnsureBuilds, Goto, TriesKnown
  <2>6. ReportsAreTrue'
    BY <1>16 DEF EnsureBuilds, ReportsAreTrue
  <2> QED
    BY <2>1, <2>2, <2>3, <2>4, <2>5, <2>6
<1>17. CASE ServerApplies
  <2>1. TypeOK'
    BY <1>17 DEF ServerApplies, TypeOK
  <2>2. OneEntry'
    BY <1>17 DEF ServerApplies, OneEntry
  <2>3. ContentKnown'
    BY <1>17 DEF ServerApplies, ContentKnown
  <2>4. AwaitedIsSent'
    BY <1>17 DEF ServerApplies, TypeOK, AwaitedIsSent, Updates, NoUpdate, Content
  <2>5. TriesKnown'
    BY <1>17 DEF ServerApplies, TriesKnown
  <2>6. ReportsAreTrue'
    BY <1>17 DEF ServerApplies, ReportsAreTrue
  <2> QED
    BY <2>1, <2>2, <2>3, <2>4, <2>5, <2>6
<1>18. CASE Reported
  BY <1>18 DEF Reported, vars, TypeOK, OneEntry, ContentKnown, AwaitedIsSent, TriesKnown,
     ReportsAreTrue
<1>19. CASE UNCHANGED vars
  BY <1>19 DEF vars, TypeOK, OneEntry, ContentKnown, AwaitedIsSent, TriesKnown,
     ReportsAreTrue
<1> QED
  BY <1>1, <1>2, <1>3, <1>4, <1>5, <1>6, <1>7, <1>8, <1>9, <1>10, <1>11, <1>12, <1>13,
     <1>14, <1>15, <1>16, <1>17, <1>18, <1>19 DEF Next, ClientStep

-----------------------------------------------------------------------------
(* The invariant holds in every state of every creation. *)
THEOREM Safety == Spec => []IInv
  BY InitIInv, NextKeepsIInv, PTL DEF Spec

(* Every variable of a creation keeps its type. *)
THEOREM TypeCorrect == Spec => []TypeOK
<1>1. IInv => TypeOK
  BY DEF IInv
<1> QED
  BY <1>1, Safety, PTL

(* The report of a creation is true of the server, however many            *)
(* acknowledgements, loads and pushes failed before it.                    *)
THEOREM TrueReports == Spec => []ReportsAreTrue
<1>1. IInv => ReportsAreTrue
  BY DEF IInv
<1> QED
  BY <1>1, Safety, PTL

(* The sidebar never lists a document that has no content. *)
THEOREM EntryFollowsContent == Spec => []ContentBeforeEntry
<1>1. IInv => ContentBeforeEntry
  BY DEF IInv, ContentKnown, ContentBeforeEntry
<1> QED
  BY <1>1, Safety, PTL

(* A document has at most one page entry, whatever the rebuilding of the   *)
(* metadata update may give: all the entries on the server are the one     *)
(* that was built first.                                                   *)
THEOREM AtMostOneEntry == Spec => []NoDuplicateEntry
<1>1. IInv => NoDuplicateEntry
  <2> SUFFICES ASSUME IInv PROVE Cardinality(pages) <= 1
    BY DEF NoDuplicateEntry
  <2>1. pages \subseteq {built}
    BY DEF IInv, OneEntry
  <2>2. IsFiniteSet({built}) /\ Cardinality({built}) = 1
    BY FS_Singleton
  <2>3. Cardinality(pages) <= Cardinality({built})
    BY <2>1, <2>2, FS_Subset
  <2> QED
    BY <2>2, <2>3
<1> QED
  BY <1>1, Safety, PTL

(* The sidebar lists the document once at most, and only with its content. *)
THEOREM SoundEntries == Spec => []EntriesAreSound
<1>1. ContentBeforeEntry /\ NoDuplicateEntry => EntriesAreSound
  BY DEF EntriesAreSound
<1> QED
  BY <1>1, EntryFollowsContent, AtMostOneEntry, PTL

(* A creation sends its content at most twice, and an entry at most twice. *)
THEOREM BoundedRetries == Spec => []RetriesBounded
<1>1. IInv => RetriesBounded
  BY DEF IInv, TriesKnown, RetriesBounded
<1> QED
  BY <1>1, Safety, PTL

-----------------------------------------------------------------------------
(* Around the creation: the tool that wanted the document, DocPlacement.   *)
(* The creation's own invariant goes on holding, since the tool takes its  *)
(* steps only while it waits for it, and the server merges late pushes at  *)
(* any time.                                                               *)
Parts == {"body", "tags", "link", "file"}
Placing == {"filling", "tagging", "linking", "appending", "linked", "filing", "answering"}

PlacementTypeOK ==
  /\ cStep \in Placing \cup {"checking", "creating", "done"}
  /\ cServer \subseteq Parts /\ cLate \subseteq Parts
  /\ cWarned \subseteq {"text", "fallback", "link", "file"}
  /\ Native => cCall \in CreateCalls

(* What the call has put in place, by the step it has reached.             *)
StepsBehind ==
  /\ cStep = "checking" => Init /\ cServer = {} /\ cLate = {}
  /\ cStep \in Placing => result = "ok"
  /\ cStep = "tagging" => Native
  /\ cStep \in Placing \ {"filling"} /\ (Markdown \/ Native) => "body" \in cServer
  /\ cStep \in Placing \ {"filling", "tagging"} /\ Native /\ cCall.template.tags => "tags" \in cServer
  /\ cStep = "linked" => "link" \in cServer
  /\ cStep \in {"filing", "answering"} /\ cCall.parent => "link" \in cServer \cup cWarned
  /\ cStep = "answering" /\ cCall.folder => "file" \in cServer \cup cWarned
  /\ cAnswer.status = "none" <=> cStep # "done"

ClonesAreMade ==
  Native /\ (cStep \in Placing \cup {"creating"} \/ "body" \in cServer \cup cLate) =>
    cMade = ClonedBlocks(Template)

PlacementInv ==
  /\ PlacementTypeOK
  /\ StepsBehind
  /\ ClonesAreMade
  /\ CreationsAreTold

CreationInv == IInv /\ PlacementInv

Told == cAnswer.status # "none"

(* A tool's step is a step of the creation, or leaves it alone. *)
LEMMA CreationGoesOn == [PlacementNext]_<<vars, placementVars>> => [Next]_vars
BY DEF PlacementNext, Next

(* What the server holds stays. *)
LEMMA ServerGrows ==
  ASSUME TypeOK, [Next]_vars
  PROVE  (content => content') /\ pages \subseteq pages'
<1>1. CASE ServerApplies
  <2>1. content \in BOOLEAN
    BY DEF TypeOK
  <2> QED
    BY <1>1, <2>1 DEF ServerApplies
<1>2. CASE ~ServerApplies
  BY <1>2 DEF Next, vars, server, ClientStep, SendContent, SendMetadata, SendRepair, Push,
     PushAcknowledged, PushRefused, PushTimesOut, BuildMetadata, BuildFails, ProbeContent,
     ProbeMetadata, Reconciled, ContentRetried, RepairStarts, CreationFails, EnsureFindsOrFails,
     EnsureBuilds, Reported
<1> QED
  BY <1>1, <1>2

(* The step of the tool, when it is one. *)
ToolStep ==
  \/ ChecksFail \/ ChecksPass \/ TextWarns \/ FallsBack \/ Created \/ CreationReported
  \/ NothingToFill \/ Filled \/ FillFails \/ Tagged \/ TagFails
  \/ NoParent \/ ParentFound \/ ParentNotFound \/ LookupThrows
  \/ Linked \/ AppendFails \/ Dated \/ DateThrows
  \/ Filed \/ FilingFails \/ NoFolder \/ Concludes
  \/ Lands \/ ParentDeleted

(* The rest: the creation runs, or nothing happens. *)
CreationStep ==
  \/ AtStep("creating") /\ ClientStep /\ UNCHANGED placementVars
  \/ ServerApplies /\ UNCHANGED placementVars
  \/ UNCHANGED <<vars, placementVars>>

(* A call starts with nothing done. *)
LEMMA InitPlacement == PlacementInit => CreationInv
<1> SUFFICES ASSUME PlacementInit PROVE CreationInv
  OBVIOUS
<1>1. IInv
  BY InitIInv DEF PlacementInit
<1>2. PlacementTypeOK /\ StepsBehind
  BY DEF PlacementInit, PlacementTypeOK, StepsBehind, Placing, Parts, NoAnswer
<1>3. ClonesAreMade /\ CreationsAreTold
  BY DEF PlacementInit, ClonesAreMade, CreationsAreTold, Placing, NoAnswer
<1> QED
  BY <1>1, <1>2, <1>3 DEF CreationInv, PlacementInv

(* Types. *)
LEMMA PlacementTypesKept ==
  ASSUME PlacementTypeOK, CreationStep \/ ToolStep
  PROVE  PlacementTypeOK'
<1> USE DEF PlacementTypeOK, Placing, Parts
<1>1. CASE CreationStep
  BY <1>1 DEF CreationStep, placementVars, Native
<1>2. CASE ChecksFail \/ ChecksPass \/ TextWarns \/ Created \/ CreationReported
  BY <1>2 DEF ChecksFail, ChecksPass, TextWarns, Created, CreationReported, EndsInError, GoesTo,
     quiet, Native
<1>3. CASE FallsBack
  <2>1. ~Native'
    BY <1>3 DEF FallsBack, Native
  <2> QED
    BY <1>3, <2>1 DEF FallsBack
<1>4. CASE NothingToFill \/ Filled \/ FillFails \/ Tagged \/ TagFails
  BY <1>4 DEF NothingToFill, Filled, FillFails, Tagged, TagFails, Stored, MaybeStored, EndsInError,
     GoesTo, Native
<1>5. CASE NoParent \/ ParentFound \/ ParentNotFound \/ LookupThrows
  BY <1>5 DEF NoParent, ParentFound, ParentNotFound, LookupThrows, Warns, EndsInError, GoesTo,
     quiet, Native
<1>6. CASE Linked \/ AppendFails \/ Dated \/ DateThrows
  BY <1>6 DEF Linked, AppendFails, Dated, DateThrows, Stored, MaybeStored, Warns, EndsInError,
     GoesTo, quiet, Native
<1>7. CASE Filed \/ FilingFails \/ NoFolder \/ Concludes \/ Lands \/ ParentDeleted
  BY <1>7 DEF Filed, FilingFails, NoFolder, Concludes, Lands, ParentDeleted, Stored, MaybeStored,
     Warns, GoesTo, quiet, Native
<1> QED
  BY <1>1, <1>2, <1>3, <1>4, <1>5, <1>6, <1>7 DEF ToolStep

(* The creation changes its result only while the tool waits for it. *)
LEMMA ResultStands ==
  ASSUME CreationStep, ~AtStep("creating")
  PROVE  result' = result
BY DEF CreationStep, ServerApplies, client, vars

(* Each step leaves behind what the next ones rely on. *)
LEMMA StepsBehindKept ==
  ASSUME PlacementTypeOK, StepsBehind, CreationStep \/ (ToolStep /\ UNCHANGED vars)
  PROVE  StepsBehind'
<1> USE DEF StepsBehind, Placing
<1>1. CASE CreationStep
  <2>1. cStep = "checking" => UNCHANGED vars
    BY <1>1 DEF CreationStep, AtStep, Init, ServerApplies
  <2>2. Init /\ UNCHANGED vars => Init'
    BY DEF Init, vars, client, server
  <2>3. cStep \in Placing => result' = result
    BY <1>1, ResultStands DEF AtStep
  <2>4. UNCHANGED placementVars
    BY <1>1 DEF CreationStep
  <2> QED
    BY <2>1, <2>2, <2>3, <2>4 DEF placementVars, Markdown, Native
<1>2. ASSUME ToolStep, UNCHANGED vars
      PROVE  StepsBehind'
  <2>1. (Init => Init') /\ result' = result
    BY <1>2 DEF Init, vars, client, server
  <2> USE DEF AtStep, GoesTo, EndsInError, Markdown, Native, quiet
  <2>2. CASE ChecksFail \/ ChecksPass \/ TextWarns \/ CreationReported
    BY <2>1, <2>2 DEF ChecksFail, ChecksPass, TextWarns, CreationReported
  <2>3. CASE FallsBack
    BY <2>1, <2>3 DEF FallsBack
  <2>4. CASE Created
    BY <2>1, <2>4 DEF Created
  <2>5. CASE NothingToFill \/ Filled \/ FillFails
    BY <2>1, <2>5 DEF NothingToFill, Filled, FillFails, Stored, MaybeStored
  <2>6. CASE Tagged \/ TagFails
    BY <2>1, <2>6 DEF Tagged, TagFails, Stored, MaybeStored
  <2>7. CASE NoParent \/ ParentFound \/ ParentNotFound \/ LookupThrows
    BY <2>1, <2>7 DEF NoParent, ParentFound, ParentNotFound, LookupThrows, Warns
  <2>8. CASE Linked \/ AppendFails
    BY <2>1, <2>8 DEF Linked, AppendFails, Stored, MaybeStored, Warns
  <2>9. CASE Dated \/ DateThrows
    BY <2>1, <2>9 DEF Dated, DateThrows, Warns
  <2>10. CASE Filed \/ FilingFails \/ NoFolder
    BY <2>1, <2>10 DEF Filed, FilingFails, NoFolder, Stored, MaybeStored, Warns
  <2>11. CASE Concludes
    BY <2>1, <2>11 DEF Concludes
  <2>12. CASE Lands \/ ParentDeleted
    BY <2>1, <2>12 DEF Lands, ParentDeleted
  <2> QED
    BY <1>2, <2>2, <2>3, <2>4, <2>5, <2>6, <2>7, <2>8, <2>9, <2>10, <2>11, <2>12 DEF ToolStep
<1> QED
  BY <1>1, <1>2

(* The blocks a template's call has made stay the template's. *)
LEMMA ClonesAreKept ==
  ASSUME PlacementTypeOK, StepsBehind, ClonesAreMade, CreationStep \/ ToolStep
  PROVE  ClonesAreMade'
<1> USE DEF ClonesAreMade, Placing
<1>1. CASE CreationStep
  BY <1>1 DEF CreationStep, placementVars, Native, Template
<1> USE DEF AtStep, GoesTo, EndsInError, Native, Template, quiet, StepsBehind
<1>2. CASE ChecksFail \/ TextWarns \/ FallsBack
  BY <1>2 DEF ChecksFail, TextWarns, FallsBack
<1>3. CASE ChecksPass
  BY <1>3 DEF ChecksPass
<1>4. CASE Created \/ CreationReported \/ NothingToFill \/ Filled \/ FillFails \/ Tagged \/ TagFails
  BY <1>4 DEF Created, CreationReported, NothingToFill, Filled, FillFails, Tagged, TagFails, Stored,
     MaybeStored, Markdown
<1>5. CASE NoParent \/ ParentFound \/ ParentNotFound \/ LookupThrows \/ Linked \/ AppendFails
           \/ Dated \/ DateThrows
  BY <1>5 DEF NoParent, ParentFound, ParentNotFound, LookupThrows, Linked, AppendFails, Dated,
     DateThrows, Stored, MaybeStored, Warns
<1>6. CASE Filed \/ FilingFails \/ NoFolder \/ Concludes
  BY <1>6 DEF Filed, FilingFails, NoFolder, Concludes, Stored, MaybeStored, Warns
<1>7. CASE Lands \/ ParentDeleted
  BY <1>7 DEF Lands, ParentDeleted
<1> QED
  BY <1>1, <1>2, <1>3, <1>4, <1>5, <1>6, <1>7 DEF ToolStep

(* The document as a successful answer, or one about the parent, has it.   *)
DocumentComplete ==
  /\ content /\ pages # {}
  /\ Markdown \/ Native => "body" \in cServer
  /\ Native /\ cCall.template.tags => "tags" \in cServer

NothingSent == ~content /\ inflight = {} /\ cServer = {} /\ cLate = {}

(* What was told when the call ended stays true. *)
LEMMA ToldStays ==
  ASSUME TypeOK, CreationsAreTold, cStep = "done",
         CreationStep \/ ((Lands \/ ParentDeleted) /\ UNCHANGED vars)
  PROVE  CreationsAreTold'
<1>1. UNCHANGED <<cCall, cAnswer>> /\ cServer \subseteq cServer'
  BY DEF CreationStep, placementVars, Lands, ParentDeleted, quiet
<1>2. (content => content') /\ (pages # {} => pages' # {})
  <2>1. [Next]_vars
    BY DEF CreationStep, Next, AtStep
  <2> QED
    BY <2>1, ServerGrows
<1>3. NothingSent => NothingSent'
  <2>1. CASE CreationStep
    BY <2>1 DEF CreationStep, AtStep, ServerApplies, vars, server, placementVars, NothingSent
  <2>2. CASE (Lands \/ ParentDeleted) /\ UNCHANGED vars
    BY <2>2 DEF Lands, ParentDeleted, quiet, vars, server, NothingSent
  <2> QED
    BY <2>1, <2>2
<1>4. DocumentComplete => DocumentComplete'
  BY <1>1, <1>2 DEF DocumentComplete, Markdown, Native
<1>5. \A what \in {"link", "file"} : Asks(what)' <=> Asks(what)
  BY <1>1 DEF Asks
<1> QED
  BY <1>1, <1>3, <1>4, <1>5 DEF CreationsAreTold, DocumentComplete, NothingSent

(* Every answer is true when it is given. *)
LEMMA TellsTheTruth ==
  ASSUME IInv, PlacementTypeOK, StepsBehind, CreationsAreTold,
         CreationStep \/ (ToolStep /\ UNCHANGED vars)
  PROVE  CreationsAreTold'
<1>1. CASE cStep = "done"
  <2>1. CreationStep \/ ((Lands \/ ParentDeleted) /\ UNCHANGED vars)
    BY <1>1 DEF ToolStep, AtStep, ChecksFail, ChecksPass, TextWarns, FallsBack, Created,
       CreationReported, NothingToFill, Filled, FillFails, Tagged, TagFails, NoParent, ParentFound,
       ParentNotFound, LookupThrows, Linked, AppendFails, Dated, DateThrows, Filed, FilingFails,
       NoFolder, Concludes
  <2> QED
    BY <1>1, <2>1, ToldStays DEF IInv
<1>2. CASE cStep # "done"
  <2>1. cAnswer.status = "none"
    BY <1>2 DEF StepsBehind
  <2>2. CASE cAnswer' = cAnswer
    BY <2>1, <2>2 DEF CreationsAreTold
  <2>3. ASSUME EndsInError(TRUE) PROVE CreationsAreTold'
    BY <2>3 DEF EndsInError, CreationsAreTold
  <2>4. cStep \in Placing => content /\ pages # {}
    BY DEF StepsBehind, IInv, ReportsAreTrue
  <2>5. cStep \in Placing \ {"filling", "tagging"} => DocumentComplete
    BY <2>4 DEF StepsBehind, DocumentComplete, Placing
  <2>6. ASSUME EndsInError(FALSE), cStep \in {"linking", "linked"}, UNCHANGED <<vars, cServer>>
        PROVE  CreationsAreTold'
    <3>1. DocumentComplete /\ UNCHANGED <<content, pages, cServer, cCall>>
      BY <2>5, <2>6 DEF Placing, EndsInError, vars, server
    <3>2. DocumentComplete'
      BY <3>1 DEF DocumentComplete, Markdown, Native
    <3>3. cAnswer' = [status |-> "failed", named |-> FALSE, about |-> cStep]
      BY <2>6 DEF EndsInError
    <3> QED
      BY <2>6, <3>2, <3>3 DEF CreationsAreTold, DocumentComplete
  <2>7. CASE ChecksFail /\ UNCHANGED vars
    <3>1. NothingSent /\ UNCHANGED <<content, inflight, cServer, cLate>>
      BY <2>7 DEF ChecksFail, AtStep, StepsBehind, Init, NothingSent, vars, server
    <3>2. cAnswer' = [status |-> "failed", named |-> FALSE, about |-> cStep]
      BY <2>7 DEF ChecksFail, EndsInError
    <3> QED
      BY <3>1, <3>2 DEF CreationsAreTold, NothingSent
  <2>8. CASE Concludes /\ UNCHANGED vars
    <3>1. DocumentComplete /\ UNCHANGED <<content, pages, cServer, cCall, cWarned>>
      BY <2>5, <2>8 DEF Placing, Concludes, AtStep, vars, server
    <3>2. DocumentComplete'
      BY <3>1 DEF DocumentComplete, Markdown, Native
    <3>3. cAnswer' = [status |-> IF cWarned = {} THEN "created" ELSE "created_with_warnings",
                      repair |-> requiresManualRepair,
                      linked |-> cCall.parent /\ "link" \notin cWarned,
                      filed  |-> cCall.folder /\ "file" \notin cWarned]
      BY <2>8 DEF Concludes
    <3>4. /\ cCall.parent => "link" \in cServer \cup cWarned
          /\ cCall.folder => "file" \in cServer \cup cWarned
      BY <2>8 DEF Concludes, AtStep, StepsBehind
    <3>5. /\ cAnswer'.linked => "link" \in cServer
          /\ cAnswer'.filed => "file" \in cServer
      BY <3>3, <3>4
    <3>6. cAnswer'.status = "created" \/ ~cAnswer'.repair => cWarned \cap {"link", "file"} = {}
      BY <3>3 DEF requiresManualRepair
    <3>7. cAnswer'.status \notin {"none", "failed"}
      BY <3>3
    <3>8. cAnswer'.status = "created" \/ ~cAnswer'.repair =>
            \A what \in {"link", "file"} : Asks(what)' => what \in cServer'
      BY <3>1, <3>4, <3>6 DEF Asks
    <3> QED
      BY <3>1, <3>2, <3>5, <3>7, <3>8 DEF CreationsAreTold, DocumentComplete
  <2>9. CASE DateThrows /\ UNCHANGED vars
    BY <2>2, <2>6, <2>9 DEF DateThrows, AtStep, Warns, EndsInError
  <2>10. CASE LookupThrows /\ UNCHANGED vars
    BY <2>6, <2>10 DEF LookupThrows, AtStep
  <2>11. CASE CreationReported \/ FillFails \/ TagFails
    BY <2>3, <2>11 DEF CreationReported, FillFails, TagFails
  <2>12. \/ cAnswer' = cAnswer
         \/ ChecksFail \/ Concludes \/ DateThrows \/ LookupThrows
         \/ CreationReported \/ FillFails \/ TagFails
    BY DEF CreationStep, placementVars, ToolStep, ChecksPass, TextWarns, FallsBack, Created,
       NothingToFill, Filled, Tagged, NoParent, ParentFound, ParentNotFound, Linked, AppendFails,
       Dated, Filed, FilingFails, NoFolder, Lands, ParentDeleted, Warns, quiet
  <2>13. UNCHANGED vars \/ cAnswer' = cAnswer
    BY DEF CreationStep, placementVars
  <2> QED
    BY <2>2, <2>7, <2>8, <2>9, <2>10, <2>11, <2>12, <2>13
<1> QED
  BY <1>1, <1>2

(* The invariant is inductive. *)
LEMMA PlacementStep == CreationInv /\ [PlacementNext]_<<vars, placementVars>> => CreationInv'
<1> SUFFICES ASSUME CreationInv, [PlacementNext]_<<vars, placementVars>> PROVE CreationInv'
  OBVIOUS
<1>1. IInv /\ PlacementTypeOK /\ StepsBehind /\ ClonesAreMade /\ CreationsAreTold
  BY DEF CreationInv, PlacementInv
<1>2. CreationStep \/ (ToolStep /\ UNCHANGED vars)
  BY DEF PlacementNext, CreationStep, ToolStep
<1>3. IInv'
  BY <1>1, CreationGoesOn, NextKeepsIInv
<1>4. PlacementTypeOK' /\ StepsBehind' /\ ClonesAreMade' /\ CreationsAreTold'
  BY <1>1, <1>2, PlacementTypesKept, StepsBehindKept, ClonesAreKept, TellsTheTruth
<1> QED
  BY <1>3, <1>4 DEF CreationInv, PlacementInv

-----------------------------------------------------------------------------
(* The invariant of the four tools that create a document. *)
THEOREM PlacementSafety == PlacementSpec => []CreationInv
<1>1. PlacementInit => CreationInv
  BY InitPlacement
<1>2. CreationInv /\ [PlacementNext]_<<vars, placementVars>> => CreationInv'
  BY PlacementStep
<1> QED
  BY <1>1, <1>2, PTL DEF PlacementSpec

(* create_doc, create_doc_from_markdown, create_semantic_page and          *)
(* instantiate_template_native answer what the workspace holds, whichever  *)
(* of their pushes fail, are lost or come late.                            *)
THEOREM AnswersTellWhatIsThere == PlacementSpec => []CreationsAreTold
<1>1. CreationInv => CreationsAreTold
  BY DEF CreationInv, PlacementInv
<1> QED
  BY <1>1, PlacementSafety, PTL

-----------------------------------------------------------------------------
(* remapTemplateString: an id of the template is not left.                 *)
LEMMA RemapsIds ==
  ASSUME NEW T, NEW s, TemplateDoc # NewDoc, NewDoc \notin DOMAIN T,
         \A b \in DOMAIN T : CloneId(b) \notin DOMAIN T \cup {TemplateDoc}
  PROVE  /\ remapTemplateString(T, s) \notin DOMAIN T \cup {TemplateDoc}
         /\ s \in DOMAIN T => remapTemplateString(T, s) = CloneId(s)
         /\ s \notin DOMAIN T => remapTemplateString(T, s) = IF s = TemplateDoc THEN NewDoc ELSE s
BY DEF remapTemplateString

(* cloneNativeTemplateValue: the tree is the template's, its ids are new.  *)
LEMMA ClonesHaveNewIds ==
  ASSUME NEW T, NEW b \in DOMAIN T,
         TemplateDoc # NewDoc, {TemplateDoc, NewDoc} \cap DOMAIN T = {},
         \A n \in DOMAIN T : CloneId(n) \notin DOMAIN T \cup {TemplateDoc},
         T[b].children \in Seq(DOMAIN T),
         T[b] = [children |-> T[b].children, strings |-> T[b].strings,
                 keys |-> T[b].keys, opaque |-> T[b].opaque]
  PROVE  LET made == cloneNativeTemplateValue(T, b) IN
         /\ made.children = [i \in DOMAIN T[b].children |-> CloneId(T[b].children[i])]
         /\ TemplateDoc \in T[b].strings => NewDoc \in made.strings
         /\ \A s \in T[b].strings \ DOMAIN T : s = TemplateDoc \/ s \in made.strings
         /\ made.strings \cap (DOMAIN T \cup {TemplateDoc}) = {}
<1> DEFINE made == cloneNativeTemplateValue(T, b)
           C == T[b].children
           S == T[b].strings
<1>1. /\ made.children = [i \in DOMAIN C |-> remapTemplateString(T, C[i])]
      /\ made.strings = {remapTemplateString(T, s) : s \in S}
  BY DEF cloneNativeTemplateValue
<1>2. \A i \in DOMAIN C : C[i] \in DOMAIN T
  BY ElementOfSeq, LenProperties
<1> HIDE DEF made, C, S
<1>3. made.children = [i \in DOMAIN C |-> CloneId(C[i])]
  BY <1>1, <1>2, RemapsIds
<1>4. TemplateDoc \in S => NewDoc \in made.strings
  BY <1>1, RemapsIds
<1>5. \A s \in S \ DOMAIN T : s = TemplateDoc \/ s \in made.strings
  BY <1>1, RemapsIds
<1>6. made.strings \cap (DOMAIN T \cup {TemplateDoc}) = {}
  BY <1>1, RemapsIds
<1> QED
  BY <1>3, <1>4, <1>5, <1>6 DEF made, C, S

(* instantiate_template_native: nothing in a clone means a block of the    *)
(* template or the template itself, for every template that is a document. *)
THEOREM ClonesAreIndependent == PlacementSpec => []ClonesStandAlone
<1>1. ASSUME CreationInv PROVE ClonesStandAlone
  <2> SUFFICES ASSUME Cloned PROVE ClonesStandAlone
    BY DEF ClonesStandAlone
  <2> DEFINE T == cCall.template.blocks
  <2>1. cMade = ClonedBlocks(T) /\ cCall \in CreateCalls /\ cCall.tool = "instantiate_template_native"
    BY <1>1 DEF CreationInv, PlacementInv, PlacementTypeOK, ClonesAreMade, Cloned, Template, Native
  <2>2. /\ TemplateDoc # NewDoc /\ {TemplateDoc, NewDoc} \cap DOMAIN T = {}
        /\ \A b \in DOMAIN T :
             /\ CloneId(b) \notin DOMAIN T \cup {TemplateDoc}
             /\ T[b].children \in Seq(DOMAIN T)
             /\ T[b] = [children |-> T[b].children, strings |-> T[b].strings,
                        keys |-> T[b].keys, opaque |-> T[b].opaque]
    BY <2>1, PlacementAssumption
  <2> HIDE DEF T
  <2>3. /\ DOMAIN cMade = {CloneId(b) : b \in DOMAIN T}
        /\ \A b \in DOMAIN T : cMade[CloneId(b)] = cloneNativeTemplateValue(T, b)
    BY <2>1 DEF ClonedBlocks, CloneId
  <2>4. \A b \in DOMAIN T : LET made == cMade[CloneId(b)] IN
          /\ made.children = [i \in DOMAIN T[b].children |-> CloneId(T[b].children[i])]
          /\ TemplateDoc \in T[b].strings => NewDoc \in made.strings
          /\ \A s \in T[b].strings \ DOMAIN T : s = TemplateDoc \/ s \in made.strings
          /\ made.strings \cap (DOMAIN T \cup {TemplateDoc}) = {}
    BY <2>2, <2>3, ClonesHaveNewIds
  <2> QED
    BY <2>3, <2>4 DEF ClonesStandAlone, Template, T
<1> QED
  BY <1>1, PlacementSafety, PTL

-----------------------------------------------------------------------------
(* The sign-in.                                                            *)
Cookies == [since : Nat, deadline : Nat \cup {Endless}]

AuthTypeOK ==
  /\ aNow \in Nat /\ pending \in BOOLEAN /\ lastError \in BOOLEAN
  /\ failedAt \in Int /\ aFailed \in Int /\ refreshAt \in Int
  /\ immediate \in Cookies \cup {NoCookie}
  /\ aAsked \in [Requests -> {"idle", "waiting", "done"}]
  /\ aGiven \in [Requests -> [cookie : Cookies \cup {NoCookie}, at : Nat]]

LivesLongEnough ==
  immediate # NoCookie =>
    immediate.deadline = Endless \/ refreshAt <= immediate.deadline \/ refreshAt <= aNow

RemembersFailure ==
  /\ lastError => failedAt = aFailed
  /\ pending \/ ~lastError => aNow - aFailed >= RETRY_DELAY

ClientsWaitForSignIn == authResolution # {} => pending

AuthInv ==
  /\ AuthTypeOK
  /\ LivesLongEnough
  /\ RemembersFailure
  /\ ClientsWaitForSignIn
  /\ CredentialsAreLive

-----------------------------------------------------------------------------
(* The shortest of some lifetimes is one of them. *)
LEMMA ShortestOfSome ==
  ASSUME NEW S \in SUBSET Nat, S # {}
  PROVE  Min(S) \in S /\ \A l \in S : Min(S) <= l
<1>1. \E x \in S : \A y \in S : ~ (<<y, x>> \in OpToRel(<, Nat))
  BY WFMin, NatLessThanWellFounded
<1>2. PICK x \in S : \A y \in S : ~ (<<y, x>> \in OpToRel(<, Nat))
  BY <1>1
<1>3. \A y \in S : ~ (y < x)
  BY <1>2, Zenon DEF OpToRel
<1>4. \A y \in S : x <= y
  BY <1>3
<1> QED
  BY <1>4 DEF Min

(* cookieExpiresAt: a time that is not over yet, or none. *)
LEMMA ExpiryIsATime ==
  ASSUME aNow \in Nat, NEW lifetimes \in Responses
  PROVE  cookieExpiresAt(lifetimes) \in Nat \cup {Endless}
<1> DEFINE active == {l \in lifetimes : l = Endless \/ l > 0}
           finite == (IF active # {} THEN active ELSE lifetimes) \ {Endless}
<1>1. finite \subseteq Nat
  BY AuthAssumption
<1>2. finite # {} => Min(finite) \in Nat
  BY <1>1, ShortestOfSome
<1>3. cookieExpiresAt(lifetimes) = IF finite = {} THEN Endless ELSE aNow + Min(finite)
  BY DEF cookieExpiresAt
<1> HIDE DEF finite
<1> QED
  BY <1>2, <1>3

(* refreshTime: not past the end of the cookie, if that is still to come.  *)
LEMMA RefreshIsInTime ==
  ASSUME aNow \in Nat, NEW expiresAt \in Nat \cup {Endless}
  PROVE  /\ refreshTime(expiresAt) \in Int
         /\ expiresAt # Endless => refreshTime(expiresAt) <= expiresAt \/ refreshTime(expiresAt) <= aNow
<1> DEFINE lifetime == IF expiresAt = Endless THEN MAX_LIFETIME
                       ELSE IF expiresAt > aNow THEN expiresAt - aNow ELSE 0
           wait == Lesser(MAX_LIFETIME, lifetime - Lesser(2, lifetime \div 2))
<1>1. lifetime \in Nat /\ MAX_LIFETIME \in Nat
  BY AuthAssumption
<1>2. expiresAt # Endless => lifetime = 0 \/ aNow + lifetime <= expiresAt
  OBVIOUS
<1> HIDE DEF lifetime
<1>3. Lesser(2, lifetime \div 2) \in Nat
  BY <1>1 DEF Lesser
<1>4. wait \in Int /\ wait <= lifetime
  BY <1>1, <1>3 DEF Lesser
<1>5. refreshTime(expiresAt) = aNow + wait
  BY DEF refreshTime, lifetime
<1> HIDE DEF wait
<1> QED
  BY <1>1, <1>2, <1>4, <1>5

-----------------------------------------------------------------------------
(* No one has asked yet. *)
LEMMA InitAuth == AuthInit => AuthInv
<1> SUFFICES ASSUME AuthInit PROVE AuthInv
  OBVIOUS
<1>1. RETRY_DELAY \in Nat /\ MAX_TIME \in Nat
  BY AuthAssumption
<1>2. AuthTypeOK
  <2>1. 0 - RETRY_DELAY \in Int /\ MAX_TIME + 1 \in Int
    BY <1>1
  <2>2. [cookie |-> NoCookie, at |-> 0] \in [cookie : Cookies \cup {NoCookie}, at : Nat]
    OBVIOUS
  <2>3. /\ aNow \in Nat /\ failedAt \in Int /\ aFailed \in Int /\ refreshAt \in Int
        /\ immediate \in Cookies \cup {NoCookie}
    BY <2>1 DEF AuthInit
  <2>4. pending \in BOOLEAN /\ lastError \in BOOLEAN
    BY DEF AuthInit
  <2>5. aAsked \in [Requests -> {"idle", "waiting", "done"}]
    BY DEF AuthInit
  <2>6. aGiven \in [Requests -> [cookie : Cookies \cup {NoCookie}, at : Nat]]
    BY <2>2 DEF AuthInit
  <2> QED
    BY <2>3, <2>4, <2>5, <2>6 DEF AuthTypeOK
<1>3. LivesLongEnough /\ RemembersFailure /\ ClientsWaitForSignIn
  BY <1>1 DEF AuthInit, LivesLongEnough, RemembersFailure, ClientsWaitForSignIn
<1>4. CredentialsAreLive
  BY DEF AuthInit, CredentialsAreLive, Waiting
<1> QED
  BY <1>2, <1>3, <1>4 DEF AuthInv

(* Those who are given a cookie: the types, and that it is live. *)
LEMMA GivenAreLive ==
  ASSUME AuthTypeOK, CredentialsAreLive, NEW R \in SUBSET Requests,
         NEW cookie \in Cookies \cup {NoCookie}, Give(R, cookie),
         cookie # NoCookie =>
           cookie.deadline = Endless \/ aNow < cookie.deadline \/ aNow = cookie.since
  PROVE  /\ aAsked' \in [Requests -> {"idle", "waiting", "done"}]
         /\ aGiven' \in [Requests -> [cookie : Cookies \cup {NoCookie}, at : Nat]]
         /\ \A r \in Requests : aGiven'[r].cookie # NoCookie =>
              \/ aGiven'[r].cookie.deadline = Endless
              \/ aGiven'[r].at < aGiven'[r].cookie.deadline
              \/ aGiven'[r].at = aGiven'[r].cookie.since
         /\ Waiting' = Waiting \ R
<1>1. \A r \in Requests :
        /\ aAsked'[r] = IF r \in R THEN "done" ELSE aAsked[r]
        /\ aGiven'[r] = IF r \in R THEN [cookie |-> cookie, at |-> aNow] ELSE aGiven[r]
  BY DEF Give
<1>2. aAsked' \in [Requests -> {"idle", "waiting", "done"}]
  BY DEF AuthTypeOK, Give
<1>3. aGiven' \in [Requests -> [cookie : Cookies \cup {NoCookie}, at : Nat]]
  <2>1. [cookie |-> cookie, at |-> aNow] \in [cookie : Cookies \cup {NoCookie}, at : Nat]
    BY DEF AuthTypeOK
  <2> QED
    BY <2>1 DEF AuthTypeOK, Give
<1>4. Waiting' = Waiting \ R
  BY <1>1 DEF Waiting
<1>5. \A r \in Requests : aGiven'[r].cookie # NoCookie =>
              \/ aGiven'[r].cookie.deadline = Endless
              \/ aGiven'[r].at < aGiven'[r].cookie.deadline
              \/ aGiven'[r].at = aGiven'[r].cookie.since
  <2> SUFFICES ASSUME NEW r \in Requests, aGiven'[r].cookie # NoCookie
               PROVE  \/ aGiven'[r].cookie.deadline = Endless
                      \/ aGiven'[r].at < aGiven'[r].cookie.deadline
                      \/ aGiven'[r].at = aGiven'[r].cookie.since
    OBVIOUS
  <2>1. CASE r \in R
    BY <1>1, <2>1
  <2>2. CASE r \notin R
    BY <1>1, <2>2 DEF CredentialsAreLive
  <2> QED
    BY <2>1, <2>2
<1> QED
  BY <1>2, <1>3, <1>4, <1>5

(* The invariant is inductive. *)
LEMMA AuthStep == AuthInv /\ [AuthNext]_authVars => AuthInv'
<1> SUFFICES ASSUME AuthInv, [AuthNext]_authVars PROVE AuthInv'
  OBVIOUS
<1>1. /\ AuthTypeOK /\ LivesLongEnough /\ RemembersFailure
      /\ ClientsWaitForSignIn /\ CredentialsAreLive
  BY DEF AuthInv
<1>2. RETRY_DELAY \in Nat
  BY AuthAssumption
<1>3. ASSUME NEW r \in Requests, AskJoins(r) PROVE AuthInv'
  <2>1. pending
    BY <1>1, <1>3 DEF AskJoins, ClientsWaitForSignIn
  <2>2. AuthTypeOK'
    BY <1>1, <1>3 DEF AskJoins, Wait, AuthTypeOK
  <2> QED
    BY <1>1, <1>3, <2>1, <2>2 DEF AskJoins, Wait, AuthInv, LivesLongEnough, RemembersFailure,
       ClientsWaitForSignIn, CredentialsAreLive
<1>4. ASSUME NEW r \in Requests, AskAnswered(r) PROVE AuthInv'
  <2>1. immediate \in Cookies \cup {NoCookie} /\ Give({r}, immediate)
    BY <1>1, <1>4 DEF AskAnswered, AuthTypeOK
  <2>2. immediate # NoCookie => immediate.deadline = Endless \/ aNow < immediate.deadline
    <3> SUFFICES ASSUME immediate # NoCookie, immediate.deadline # Endless
                 PROVE  aNow < immediate.deadline
      OBVIOUS
    <3>1. immediate.deadline \in Nat
      BY <2>1 DEF Cookies
    <3> QED
      BY <1>1, <1>4, <3>1 DEF AskAnswered, Fresh, LivesLongEnough, AuthTypeOK
  <2>3. /\ aAsked' \in [Requests -> {"idle", "waiting", "done"}]
        /\ aGiven' \in [Requests -> [cookie : Cookies \cup {NoCookie}, at : Nat]]
        /\ \A s \in Requests : aGiven'[s].cookie # NoCookie =>
             \/ aGiven'[s].cookie.deadline = Endless
             \/ aGiven'[s].at < aGiven'[s].cookie.deadline
             \/ aGiven'[s].at = aGiven'[s].cookie.since
        /\ Waiting' \subseteq Waiting
    BY <1>1, <2>1, <2>2, GivenAreLive
  <2> QED
    BY <1>1, <1>4, <2>3 DEF AskAnswered, AuthInv, AuthTypeOK, LivesLongEnough, RemembersFailure,
       ClientsWaitForSignIn, CredentialsAreLive
<1>5. ASSUME NEW r \in Requests, AskRefused(r) PROVE AuthInv'
  <2>1. /\ aAsked' \in [Requests -> {"idle", "waiting", "done"}]
        /\ aGiven' \in [Requests -> [cookie : Cookies \cup {NoCookie}, at : Nat]]
        /\ \A s \in Requests : aGiven'[s].cookie # NoCookie =>
             \/ aGiven'[s].cookie.deadline = Endless
             \/ aGiven'[s].at < aGiven'[s].cookie.deadline
             \/ aGiven'[s].at = aGiven'[s].cookie.since
        /\ Waiting' \subseteq Waiting
    BY <1>1, <1>5, GivenAreLive DEF AskRefused
  <2> QED
    BY <1>1, <1>5, <2>1 DEF AskRefused, AuthInv, AuthTypeOK, LivesLongEnough, RemembersFailure,
       ClientsWaitForSignIn, CredentialsAreLive
<1>6. ASSUME NEW r \in Requests, AskSignsIn(r) PROVE AuthInv'
  <2>1. AuthTypeOK'
    BY <1>1, <1>6 DEF AskSignsIn, Wait, AuthTypeOK
  <2>2. aNow - aFailed >= RETRY_DELAY
    BY <1>1, <1>2, <1>6 DEF AskSignsIn, CoolingDown, RemembersFailure, AuthTypeOK
  <2> QED
    BY <1>1, <1>6, <2>1, <2>2 DEF AskSignsIn, Wait, AuthInv, LivesLongEnough, RemembersFailure,
       ClientsWaitForSignIn, CredentialsAreLive
<1>7. ASSUME NEW r \in Requests, AskAgain(r) PROVE AuthInv'
  <2>1. AuthTypeOK'
    BY <1>1, <1>7 DEF AskAgain, AuthTypeOK
  <2>2. Waiting' \subseteq Waiting
    BY <1>1, <1>7 DEF AskAgain, Waiting, AuthTypeOK
  <2> QED
    BY <1>1, <1>7, <2>1, <2>2 DEF AskAgain, AuthInv, LivesLongEnough, RemembersFailure,
       ClientsWaitForSignIn, CredentialsAreLive
<1>8. ASSUME NEW lifetimes \in Responses, SignedIn(lifetimes) PROVE AuthInv'
  <2> DEFINE expiresAt == cookieExpiresAt(lifetimes)
             cookie == [since |-> aNow, deadline |-> expiresAt]
  <2>1. expiresAt \in Nat \cup {Endless}
    BY <1>1, ExpiryIsATime DEF AuthTypeOK
  <2>2. /\ refreshTime(expiresAt) \in Int
        /\ expiresAt # Endless => refreshTime(expiresAt) <= expiresAt \/ refreshTime(expiresAt) <= aNow
    BY <1>1, <2>1, RefreshIsInTime DEF AuthTypeOK
  <2>3. /\ pending /\ ~pending' /\ ~lastError' /\ pending' \in BOOLEAN /\ lastError' \in BOOLEAN
        /\ immediate' = cookie /\ refreshAt' = refreshTime(expiresAt) /\ authResolution' = {}
        /\ Give(Waiting, cookie) /\ UNCHANGED <<aNow, aFailed, failedAt>>
    BY <1>8 DEF SignedIn
  <2>4. cookie \in Cookies /\ cookie.deadline = expiresAt /\ cookie.since = aNow
    BY <1>1, <2>1 DEF Cookies, AuthTypeOK
  <2> HIDE DEF expiresAt, cookie
  <2>5. /\ aAsked' \in [Requests -> {"idle", "waiting", "done"}]
        /\ aGiven' \in [Requests -> [cookie : Cookies \cup {NoCookie}, at : Nat]]
        /\ \A s \in Requests : aGiven'[s].cookie # NoCookie =>
             \/ aGiven'[s].cookie.deadline = Endless
             \/ aGiven'[s].at < aGiven'[s].cookie.deadline
             \/ aGiven'[s].at = aGiven'[s].cookie.since
        /\ Waiting' = {}
    BY <1>1, <2>3, <2>4, GivenAreLive DEF Waiting
  <2> QED
    BY <1>1, <2>2, <2>3, <2>4, <2>5 DEF AuthInv, AuthTypeOK, LivesLongEnough, RemembersFailure,
       ClientsWaitForSignIn, CredentialsAreLive
<1>9. CASE SignInFails
  <2>1. /\ aAsked' \in [Requests -> {"idle", "waiting", "done"}]
        /\ aGiven' \in [Requests -> [cookie : Cookies \cup {NoCookie}, at : Nat]]
        /\ \A s \in Requests : aGiven'[s].cookie # NoCookie =>
             \/ aGiven'[s].cookie.deadline = Endless
             \/ aGiven'[s].at < aGiven'[s].cookie.deadline
             \/ aGiven'[s].at = aGiven'[s].cookie.since
        /\ Waiting' = {}
    BY <1>1, <1>9, GivenAreLive DEF SignInFails, Waiting
  <2>2. /\ pending /\ ~pending' /\ lastError' /\ pending' \in BOOLEAN /\ lastError' \in BOOLEAN
        /\ failedAt' = aNow /\ aFailed' = aNow /\ authResolution' = {}
        /\ UNCHANGED <<aNow, immediate, refreshAt>>
    BY <1>9 DEF SignInFails
  <2> QED
    BY <1>1, <2>1, <2>2 DEF AuthInv, AuthTypeOK, LivesLongEnough, RemembersFailure,
       ClientsWaitForSignIn, CredentialsAreLive
<1>10. CASE Tick
  BY <1>1, <1>2, <1>10 DEF Tick, AuthInv, AuthTypeOK, LivesLongEnough, RemembersFailure,
     ClientsWaitForSignIn, CredentialsAreLive, Waiting
<1>11. CASE UNCHANGED authVars
  BY <1>1, <1>11 DEF authVars, AuthInv, AuthTypeOK, LivesLongEnough, RemembersFailure,
     ClientsWaitForSignIn, CredentialsAreLive, Waiting
<1> QED
  BY <1>3, <1>4, <1>5, <1>6, <1>7, <1>8, <1>9, <1>10, <1>11 DEF AuthNext

-----------------------------------------------------------------------------
(* The session's invariant. *)
THEOREM AuthSafety == AuthSpec => []AuthInv
<1>1. AuthInit => AuthInv
  BY InitAuth
<1>2. AuthInv /\ [AuthNext]_authVars => AuthInv'
  BY AuthStep
<1> QED
  BY <1>1, <1>2, PTL DEF AuthSpec

(* ConnectionAuthProvider gives out no cookie the server has dropped by    *)
(* then, whatever lifetimes the server chooses, and no request waits for a *)
(* sign-in that is over.                                                   *)
THEOREM GivenCredentialsAreLive == AuthSpec => []CredentialsAreLive
<1>1. AuthInv => CredentialsAreLive
  BY DEF AuthInv
<1> QED
  BY <1>1, AuthSafety, PTL

(* No sign-in begins within retryDelayMs of the last one that failed,      *)
(* whoever asks, also when one succeeded in between.                       *)
THEOREM NoLoginStorm == AuthSpec => CooldownRespected
<1>1. AuthInv /\ [AuthNext]_authVars => [pending' /\ ~pending => aNow - aFailed >= RETRY_DELAY]_authVars
  <2> SUFFICES ASSUME AuthInv, AuthNext, pending', ~pending
               PROVE  aNow - aFailed >= RETRY_DELAY
    OBVIOUS
  <2>1. PICK r \in Requests : AskSignsIn(r)
    BY DEF AuthNext, AskJoins, AskAnswered, AskRefused, AskAgain, SignedIn, SignInFails, Tick
  <2> QED
    BY <2>1, AuthAssumption DEF AskSignsIn, CoolingDown, AuthInv, RemembersFailure, AuthTypeOK
<1> QED
  BY <1>1, AuthSafety, PTL DEF AuthSpec, CooldownRespected

-----------------------------------------------------------------------------
(* The page.                                                               *)

(* Entries with the mirrored date, as every entry of a page here is. *)
DatedEntries == {e \in UNION {Entries(fields) : fields \in SUBSET Fields} :
            "updatedDate" \in DOMAIN e /\ e["updatedDate"] \in Nat}

Waits == {"pushing", "mirroring", "moving", "unlisting", "removing"}
Steps == Waits \cup {"idle", "dating", "confirming", "looking", "reading", "done"}

PageTypeOK ==
  /\ pServer \in [entry : DatedEntries \cup {NoEntry}, content : BOOLEAN, kept : BOOLEAN,
                  edits : SUBSET PageCalls]
  /\ IsFiniteSet(pServer.edits)
  /\ pQuirks \in [acks : BOOLEAN, retains : BOOLEAN]
  /\ pStep \in [PageCalls -> Steps]
  /\ pRequest \in [PageCalls -> [status : {"none", "sent", "late", "served", "landed"},
                                 op : {"none", "content", "root", "delete"},
                                 base : DatedEntries \cup {NoEntry}, made : DatedEntries \cup {NoEntry}]]
  /\ DOMAIN pRead = PageCalls /\ pRead = [c \in PageCalls |-> pRead[c]]
  /\ DOMAIN pAnswer = PageCalls /\ pAnswer = [c \in PageCalls |-> pAnswer[c]]

(* Nothing that was given up on has been served yet. *)
NoneLanded == \A o \in PageCalls : pRequest[o].status # "landed"

Busy(c) == pStep[c] \notin {"idle", "done"}
OneAtATime == \A c, d \in PageCalls : Busy(c) /\ Busy(d) => c = d

(* The request a call waits for, and that only a call that waits has one   *)
(* it has not given up on.                                                 *)
RequestFits(c) ==
  LET r == pRequest[c] IN
  /\ r.status # "none" => r.op # "none"
  /\ r.op = "root" => r.base # NoEntry
  /\ r.status = "sent" => pStep[c] \in Waits
  /\ pStep[c] \in {"idle", "looking"} => r.status = "none"
  /\ pStep[c] = "dating" => r.status = "served"
  /\ pStep[c] \in Waits => r.status \in {"sent", "served"}
  /\ pStep[c] = "pushing" => r.op = "content"
  /\ pStep[c] \in {"mirroring", "moving", "unlisting"} => r.op = "root"
  /\ pStep[c] = "unlisting" => r.made = NoEntry
  /\ pStep[c] = "removing" => r.op = "delete"

(* What a call has read or been told, whatever else lands. *)
KnownForGood(c) ==
  /\ pStep[c] \in {"dating", "mirroring", "confirming"} => c \in pServer.edits /\ pRead[c][1] \in Nat
  /\ pStep[c] = "pushing" /\ pRequest[c].status = "served" => c \in pServer.edits
  /\ pStep[c] = "mirroring" =>
       pRequest[c].made = [pRequest[c].base EXCEPT !["updatedDate"] = pRead[c][1]]
  /\ pStep[c] \in {"moving", "reading"} => pRead[c][1] \in BOOLEAN
  /\ pStep[c] = "looking" => pRead[c][1] \in DatedEntries \cup {NoEntry}
  /\ pStep[c] = "looking" /\ pRead[c][1] = NoEntry => pServer.entry = NoEntry
  /\ pStep[c] = "unlisting" /\ pRequest[c].status = "served" => pServer.entry = NoEntry
  /\ pStep[c] = "removing" => pServer.entry = NoEntry
  /\ pAnswer[c] \in {"deleted", "already_absent"} => pServer.entry = NoEntry

(* And what it knows as long as nothing has landed behind its back. *)
KnownUntilLanding(c) ==
  /\ pStep[c] = "unlisting" /\ ~pRead[c][2] => ~Loads
  /\ pStep[c] = "removing" /\ pRequest[c].status = "served" => ~pServer.content
  /\ pStep[c] = "mirroring" /\ pRequest[c].status = "sent" => pServer.entry = pRequest[c].base
  /\ pStep[c] = "mirroring" /\ pRequest[c].status = "served" => UpToDate(pServer.entry, pRead[c][1])

(* The tracker remembers a page that was reported gone until it is pruned; *)
(* a listing that has to leave it out has seen that.                       *)
TrackerKnows ==
  /\ Gone /\ ~pPruned => acknowledgedDeletedDocs
  /\ \A l \in Listings : pListing[l].due => pServer.entry = NoEntry /\ pListing[l].ids /\ ~pListing[l].shown

CallsKnow ==
  /\ PageTypeOK
  /\ OneAtATime
  /\ \A c \in PageCalls : RequestFits(c) /\ KnownForGood(c)
  /\ NoneLanded => \A c \in PageCalls : KnownUntilLanding(c)

PageInv ==
  /\ CallsKnow
  /\ acknowledgedDeletedDocs \in BOOLEAN /\ pPruned \in BOOLEAN
  /\ pListing \in [Listings -> [step : {"idle", "loading", "done"}, ids : BOOLEAN,
                                due : BOOLEAN, shown : BOOLEAN]]
  /\ TrackerKnows

-----------------------------------------------------------------------------
(* What it takes to be a dated entry. *)
LEMMA DatedIs ==
  ASSUME NEW e
  PROVE  e \in DatedEntries <=> \E fields \in SUBSET Fields :
           /\ "updatedDate" \in fields /\ e \in Entries(fields) /\ e["updatedDate"] \in Nat
<1>1. \A fields \in SUBSET Fields : e \in Entries(fields) => DOMAIN e = fields
  BY DEF Entries
<1> QED
  BY <1>1 DEF DatedEntries

(* No entry at all is none of them. *)
LEMMA NoEntryIsNotDated == NoEntry \notin DatedEntries
  BY DatedIs, PageAssumption

(* The pages a behaviour starts with. *)
LEMMA StartsAreDated == {Active, Trashed, Legacy} \subseteq DatedEntries
<1>1. Active = [k \in {"updatedDate"} |-> 0]
  BY DEF Active
<1>2. Active \in Entries({"updatedDate"}) /\ Active["updatedDate"] = 0
  BY <1>1 DEF Entries
<1>3. Trashed = [k \in {"updatedDate", "trash", "trashDate"} |-> IF k = "updatedDate" THEN 0 ELSE TRUE]
  BY <1>1 DEF Trashed, With
<1>4. Trashed \in Entries({"updatedDate", "trash", "trashDate"}) /\ Trashed["updatedDate"] = 0
  BY <1>3 DEF Entries
<1>5. Legacy = [k \in {"updatedDate", "inTrash"} |-> IF k = "updatedDate" THEN 0 ELSE TRUE]
  BY <1>1 DEF Legacy, With
<1>6. Legacy \in Entries({"updatedDate", "inTrash"}) /\ Legacy["updatedDate"] = 0
  BY <1>5 DEF Entries
<1> QED
  BY <1>2, <1>4, <1>6, DatedIs DEF Fields

(* updateWorkspacePageUpdatedDate sets the date and nothing else. *)
LEMMA DateIsSet ==
  ASSUME NEW e \in DatedEntries, NEW n \in Nat
  PROVE  /\ [e EXCEPT !["updatedDate"] = n] \in DatedEntries
         /\ [e EXCEPT !["updatedDate"] = n]["updatedDate"] = n
<1>1. PICK fields \in SUBSET Fields : "updatedDate" \in fields /\ e \in Entries(fields)
  BY DatedIs
<1>2. /\ [e EXCEPT !["updatedDate"] = n] \in Entries(fields)
      /\ [e EXCEPT !["updatedDate"] = n]["updatedDate"] = n
  BY <1>1 DEF Entries
<1> QED
  BY <1>1, <1>2, DatedIs

(* Trash and restore leave the date. *)
LEMMA TrashKeepsDate ==
  ASSUME NEW e \in DatedEntries, NEW in \in BOOLEAN
  PROVE  TrashState(e, in) \in DatedEntries
<1>1. PICK fields \in SUBSET Fields :
        "updatedDate" \in fields /\ e \in Entries(fields) /\ e["updatedDate"] \in Nat
  BY DatedIs
<1> DEFINE kept == fields \ {"inTrash", "trash", "trashDate"}
           other == [k \in kept |-> e[k]]
<1>2. DOMAIN e = fields
  BY <1>1 DEF Entries
<1>3. /\ other \in Entries(kept) /\ "updatedDate" \in kept /\ other["updatedDate"] \in Nat
      /\ kept \in SUBSET Fields
  BY <1>1 DEF Entries
<1>4. TrashState(e, in) = IF in THEN With(other, {"trash", "trashDate"}, TRUE) ELSE With(other, {"trash"}, FALSE)
  BY <1>2, Zenon DEF TrashState
<1> HIDE DEF other, kept
<1>5. \A added \in {{"trash", "trashDate"}, {"trash"}}, value \in BOOLEAN :
        /\ With(other, added, value) \in Entries(kept \cup added)
        /\ With(other, added, value)["updatedDate"] = other["updatedDate"]
        /\ kept \cup added \in SUBSET Fields
  BY <1>3 DEF Entries, With, Fields
<1>6. \A added \in {{"trash", "trashDate"}, {"trash"}}, value \in BOOLEAN : With(other, added, value) \in DatedEntries
  BY <1>3, <1>5, DatedIs
<1> QED
  BY <1>4, <1>6

(* Merging keeps an entry dated; merged into what it was computed from, an *)
(* update brings its date.                                                 *)
LEMMA MergedIsDated ==
  ASSUME NEW now \in DatedEntries, NEW base \in DatedEntries, NEW made \in DatedEntries
  PROVE  /\ MergedMap(now, base, made) \in DatedEntries
         /\ now = base => MergedMap(now, base, made)["updatedDate"] = made["updatedDate"]
<1>1. PICK fields \in SUBSET Fields :
        "updatedDate" \in fields /\ now \in Entries(fields) /\ now["updatedDate"] \in Nat
  BY DatedIs
<1>2. PICK made_fields \in SUBSET Fields :
        "updatedDate" \in made_fields /\ made \in Entries(made_fields) /\ made["updatedDate"] \in Nat
  BY DatedIs
<1> DEFINE set  == {k \in DOMAIN made : k \in DOMAIN base => made[k] # base[k]}
           gone == {k \in DOMAIN base \ DOMAIN made : k \in DOMAIN now => now[k] = base[k]}
           both == (DOMAIN now \ gone) \cup set
<1>3. MergedMap(now, base, made) = [k \in both |-> IF k \in set THEN made[k] ELSE now[k]]
  BY DEF MergedMap
<1>4. DOMAIN now = fields /\ DOMAIN made = made_fields
  BY <1>1, <1>2 DEF Entries
<1>5. both \in SUBSET Fields /\ "updatedDate" \in both
  BY <1>1, <1>2, <1>4
<1>6. \A k \in both : (IF k \in set THEN made[k] ELSE now[k]) \in Nat \cup BOOLEAN
  BY <1>1, <1>2, <1>4 DEF Entries
<1>7. now = base => (IF "updatedDate" \in set THEN made["updatedDate"] ELSE now["updatedDate"]) = made["updatedDate"]
  BY <1>1, <1>2, <1>4
<1> HIDE DEF set, gone, both
<1>8. MergedMap(now, base, made) \in Entries(both)
  BY <1>3, <1>6 DEF Entries
<1>9. MergedMap(now, base, made)["updatedDate"] = IF "updatedDate" \in set THEN made["updatedDate"] ELSE now["updatedDate"]
  BY <1>3, <1>5
<1> QED
  BY <1>1, <1>2, <1>5, <1>7, <1>8, <1>9, DatedIs

-----------------------------------------------------------------------------
(* The state a behaviour starts in. *)
LEMMA InitPage == PageInit => PageInv
<1> SUFFICES ASSUME PageInit PROVE PageInv
  OBVIOUS
<1>1. /\ pServer.entry \in {NoEntry, Active, Trashed, Legacy} /\ pServer.content = TRUE
      /\ pServer.kept = FALSE /\ pServer.edits = {}
      /\ pServer = [entry |-> pServer.entry, content |-> TRUE, kept |-> FALSE, edits |-> {}]
  BY DEF PageInit
<1>2. \A c \in PageCalls : pStep[c] = "idle" /\ pRequest[c] = NoRequest /\ pAnswer[c] = "none"
  BY DEF PageInit
<1>3. PageTypeOK
  <2>1. pServer \in [entry : DatedEntries \cup {NoEntry}, content : BOOLEAN, kept : BOOLEAN,
                     edits : SUBSET PageCalls]
    BY <1>1, StartsAreDated
  <2>2. IsFiniteSet(pServer.edits)
    BY <1>1, FS_EmptySet
  <2>3. pQuirks \in [acks : BOOLEAN, retains : BOOLEAN]
    <3>1. \/ pQuirks = [acks |-> TRUE, retains |-> FALSE]
          \/ pQuirks = [acks |-> TRUE, retains |-> TRUE]
          \/ pQuirks = [acks |-> FALSE, retains |-> FALSE]
      BY Zenon DEF PageInit
    <3>2. /\ [acks |-> TRUE, retains |-> FALSE] \in [acks : BOOLEAN, retains : BOOLEAN]
          /\ [acks |-> TRUE, retains |-> TRUE] \in [acks : BOOLEAN, retains : BOOLEAN]
          /\ [acks |-> FALSE, retains |-> FALSE] \in [acks : BOOLEAN, retains : BOOLEAN]
      OBVIOUS
    <3> QED
      BY <3>1, <3>2, Zenon
  <2>4. pStep \in [PageCalls -> Steps] /\ pAnswer = [c \in PageCalls |-> "none"] /\ pRead = [c \in PageCalls |-> <<>>]
    BY DEF PageInit, Steps
  <2>5. pRequest \in [PageCalls -> [status : {"none", "sent", "late", "served", "landed"},
                                   op : {"none", "content", "root", "delete"},
                                   base : DatedEntries \cup {NoEntry}, made : DatedEntries \cup {NoEntry}]]
    BY DEF PageInit, NoRequest
  <2>6. /\ DOMAIN pRead = PageCalls /\ pRead = [c \in PageCalls |-> pRead[c]]
        /\ DOMAIN pAnswer = PageCalls /\ pAnswer = [c \in PageCalls |-> pAnswer[c]]
    BY <2>4
  <2> QED
    BY <2>1, <2>2, <2>3, <2>4, <2>5, <2>6 DEF PageTypeOK
<1>4. /\ OneAtATime
      /\ \A c \in PageCalls : RequestFits(c) /\ KnownForGood(c) /\ KnownUntilLanding(c)
  BY <1>2 DEF OneAtATime, Busy, RequestFits, KnownForGood, KnownUntilLanding, NoRequest, Waits
<1>5. TrackerKnows
  BY <1>2 DEF PageInit, TrackerKnows, Gone
<1> QED
  BY <1>3, <1>4, <1>5 DEF PageInit, PageInv, CallsKnow

(* A step of one call that leaves the server and the other calls alone:    *)
(* what the others know stays true.                                        *)
LEMMA CallMoves ==
  ASSUME CallsKnow, NEW c \in PageCalls, Busy(c) \/ Begins(c),
         UNCHANGED <<pServer, pQuirks>>, PageTypeOK',
         \A o \in PageCalls : o # c =>
           /\ pStep'[o] = pStep[o] /\ pRequest'[o] = pRequest[o]
           /\ pRead'[o] = pRead[o] /\ pAnswer'[o] = pAnswer[o],
         pRequest[c].status = "landed" => pRequest'[c].status = "landed",
         RequestFits(c)', KnownForGood(c)', NoneLanded => KnownUntilLanding(c)'
  PROVE  CallsKnow'
<1>1. OneAtATime'
  <2>1. \A o \in PageCalls : o # c => ~Busy(o)
    BY DEF CallsKnow, OneAtATime, Busy, Begins
  <2>2. \A o \in PageCalls : o # c => ~(Busy(o)')
    BY <2>1 DEF Busy
  <2> QED
    BY <2>2 DEF OneAtATime
<1>2. \A o \in PageCalls : RequestFits(o)' /\ KnownForGood(o)'
  <2> SUFFICES ASSUME NEW o \in PageCalls, o # c PROVE RequestFits(o)' /\ KnownForGood(o)'
    OBVIOUS
  <2> QED
    BY DEF CallsKnow, RequestFits, KnownForGood
<1>3. NoneLanded' => NoneLanded
  BY DEF NoneLanded
<1>4. ASSUME NoneLanded' PROVE \A o \in PageCalls : KnownUntilLanding(o)'
  <2> SUFFICES ASSUME NEW o \in PageCalls, o # c PROVE KnownUntilLanding(o)'
    BY <1>3, <1>4
  <2> QED
    BY <1>3, <1>4 DEF CallsKnow, KnownUntilLanding, Loads
<1> QED
  BY <1>1, <1>2, <1>4 DEF CallsKnow

(* The call is over. *)
LEMMA Answering ==
  ASSUME CallsKnow, NEW c \in PageCalls, Busy(c) \/ Begins(c), NEW a, Answers(c, a),
         a \in {"deleted", "already_absent"} => pServer.entry = NoEntry
  PROVE  /\ CallsKnow' /\ UNCHANGED pServer
         /\ \A o \in PageCalls : o # c => pAnswer'[o] = pAnswer[o]
         /\ pAnswer'[c] = a
<1> DEFINE r == pRequest[c]
           status == IF r.status = "sent" THEN "late" ELSE r.status
<1>1. PageTypeOK /\ RequestFits(c) /\ KnownForGood(c)
  BY DEF CallsKnow
<1>2. /\ \A o \in PageCalls : pStep'[o] = IF o = c THEN "done" ELSE pStep[o]
      /\ \A o \in PageCalls : pAnswer'[o] = IF o = c THEN a ELSE pAnswer[o]
      /\ \A o \in PageCalls : pRequest'[o] = IF o = c THEN [pRequest[c] EXCEPT !.status = status] ELSE pRequest[o]
      /\ UNCHANGED <<pServer, pQuirks, pRead>>
  BY <1>1 DEF PageTypeOK, Answers, Goes, GivenUp
<1>3. PageTypeOK'
  <2>1. [pRequest[c] EXCEPT !.status = status] \in
          [status : {"none", "sent", "late", "served", "landed"},
           op : {"none", "content", "root", "delete"},
           base : DatedEntries \cup {NoEntry}, made : DatedEntries \cup {NoEntry}]
    BY <1>1 DEF PageTypeOK
  <2>2. pRequest' = [o \in PageCalls |-> IF o = c THEN [pRequest[c] EXCEPT !.status = status] ELSE pRequest[o]]
    BY <1>1 DEF PageTypeOK, Answers, GivenUp
  <2>3. pRequest' \in [PageCalls -> [status : {"none", "sent", "late", "served", "landed"},
                                     op : {"none", "content", "root", "delete"},
                                     base : DatedEntries \cup {NoEntry}, made : DatedEntries \cup {NoEntry}]]
    BY <1>1, <2>1, <2>2 DEF PageTypeOK
  <2>4. pStep' \in [PageCalls -> Steps]
    BY <1>1 DEF PageTypeOK, Answers, Goes, Steps
  <2>5. DOMAIN pAnswer' = PageCalls /\ pAnswer' = [o \in PageCalls |-> pAnswer'[o]]
    BY <1>1 DEF PageTypeOK, Answers
  <2> QED
    BY <1>1, <1>2, <2>3, <2>4, <2>5 DEF PageTypeOK
<1>4. /\ pRequest'[c].status = status /\ pRequest'[c].op = r.op
      /\ pRequest'[c].base = r.base
  BY <1>1, <1>2 DEF PageTypeOK
<1>5. RequestFits(c)' /\ KnownForGood(c)' /\ KnownUntilLanding(c)'
  BY <1>1, <1>2, <1>4 DEF RequestFits, KnownForGood, KnownUntilLanding, Waits
<1> QED
  BY <1>2, <1>3, <1>4, <1>5, CallMoves

(* The call sends a request and waits for it. *)
LEMMA Sending ==
  ASSUME CallsKnow, NEW c \in PageCalls, Busy(c) \/ Begins(c),
         NEW s \in Waits, NEW op \in {"content", "root", "delete"},
         NEW base \in DatedEntries \cup {NoEntry}, NEW made \in DatedEntries \cup {NoEntry}, NEW read,
         Send(c, s, op, base, made), pRead' = [pRead EXCEPT ![c] = read],
         pRequest[c].status # "landed",
         s = "pushing" => op = "content",
         s \in {"mirroring", "moving", "unlisting"} => op = "root",
         op = "root" => base # NoEntry,
         s = "unlisting" => made = NoEntry /\ (NoneLanded /\ ~read[2] => ~Loads),
         s = "removing" => op = "delete" /\ pServer.entry = NoEntry,
         s = "mirroring" => /\ c \in pServer.edits /\ read[1] \in Nat /\ pServer.entry = base
                            /\ made = [base EXCEPT !["updatedDate"] = read[1]],
         s = "moving" => read[1] \in BOOLEAN
  PROVE  /\ CallsKnow' /\ UNCHANGED <<pServer, pAnswer>>
<1> DEFINE r == [status |-> "sent", op |-> op, base |-> base, made |-> made]
<1>1. PageTypeOK /\ RequestFits(c) /\ KnownForGood(c)
  BY DEF CallsKnow
<1>2. /\ \A o \in PageCalls : pStep'[o] = IF o = c THEN s ELSE pStep[o]
      /\ \A o \in PageCalls : pRequest'[o] = IF o = c THEN r ELSE pRequest[o]
      /\ \A o \in PageCalls : pRead'[o] = IF o = c THEN read ELSE pRead[o]
      /\ UNCHANGED <<pServer, pQuirks, pAnswer>>
  BY <1>1 DEF PageTypeOK, Send, Goes
<1>3. PageTypeOK'
  <2>1. pRequest' \in [PageCalls -> [status : {"none", "sent", "late", "served", "landed"},
                                     op : {"none", "content", "root", "delete"},
                                     base : DatedEntries \cup {NoEntry}, made : DatedEntries \cup {NoEntry}]]
    BY <1>1 DEF PageTypeOK, Send
  <2>2. pStep' \in [PageCalls -> Steps]
    BY <1>1 DEF PageTypeOK, Send, Goes, Steps
  <2>3. DOMAIN pRead' = PageCalls /\ pRead' = [o \in PageCalls |-> pRead'[o]]
    BY <1>1 DEF PageTypeOK
  <2> QED
    BY <1>1, <1>2, <2>1, <2>2, <2>3 DEF PageTypeOK
<1>4. s \notin {"idle", "dating", "confirming", "looking", "reading", "done"}
  BY DEF Waits
<1>5. pRequest'[c].status = "sent" /\ pRequest'[c].op = op /\ pRequest'[c].base = base /\ pRequest'[c].made = made
  BY <1>2
<1>6. RequestFits(c)'
  BY <1>2, <1>4, <1>5 DEF RequestFits
<1>7. pAnswer[c] \in {"deleted", "already_absent"} => pServer.entry = NoEntry
  BY <1>1 DEF KnownForGood
<1>8. KnownForGood(c)'
  BY <1>2, <1>4, <1>5, <1>7 DEF KnownForGood
<1>9. NoneLanded => KnownUntilLanding(c)'
  BY <1>2, <1>4, <1>5 DEF KnownUntilLanding, Loads
<1> QED
  BY <1>2, <1>3, <1>6, <1>8, <1>9, CallMoves

(* What a request changes on the server, and that it never lists the page  *)
(* anew or takes an edit back.                                             *)
LEMMA Served ==
  ASSUME CallsKnow, NEW c \in PageCalls, Serve(c)
  PROVE  /\ PageTypeOK'
         /\ pServer.entry = NoEntry => pServer'.entry = NoEntry
         /\ pServer.edits \subseteq pServer'.edits
         /\ pRequest[c].op = "content" => c \in pServer'.edits
         /\ pRequest[c].op = "root" => /\ UNCHANGED Loads
                                       /\ pServer'.entry = MergeEntry(pServer.entry, pRequest[c].base, pRequest[c].made)
         /\ pRequest[c].op = "delete" => pServer'.content = FALSE
<1> DEFINE r == pRequest[c]
           status == IF r.status = "sent" THEN "served" ELSE "landed"
           merged == MergeEntry(pServer.entry, r.base, r.made)
<1>1. PageTypeOK
  BY DEF CallsKnow
<1>2. r.status \in {"sent", "late"} /\ UNCHANGED <<pQuirks, pStep, pRead, pAnswer>>
  BY DEF Serve
<1>3. /\ r.base \in DatedEntries \cup {NoEntry} /\ r.made \in DatedEntries \cup {NoEntry}
      /\ r.op \in {"none", "content", "root", "delete"}
      /\ pServer.entry \in DatedEntries \cup {NoEntry}
  BY <1>1 DEF PageTypeOK
<1>4. pRequest' \in [PageCalls -> [status : {"none", "sent", "late", "served", "landed"},
                                   op : {"none", "content", "root", "delete"},
                                   base : DatedEntries \cup {NoEntry}, made : DatedEntries \cup {NoEntry}]]
  <2>1. pRequest' = [pRequest EXCEPT ![c] = [pRequest[c] EXCEPT !.status = status]]
    BY DEF Serve
  <2>2. [pRequest[c] EXCEPT !.status = status] \in
          [status : {"none", "sent", "late", "served", "landed"},
           op : {"none", "content", "root", "delete"},
           base : DatedEntries \cup {NoEntry}, made : DatedEntries \cup {NoEntry}]
    BY <1>1 DEF PageTypeOK
  <2> QED
    BY <1>1, <2>1, <2>2 DEF PageTypeOK
<1>5. /\ pServer.entry = NoEntry => merged = NoEntry
      /\ r.base # NoEntry => merged \in DatedEntries \cup {NoEntry}
  BY <1>3, MergedIsDated DEF MergeEntry
<1>6. r.op # "none" /\ (r.op = "root" => r.base # NoEntry)
  BY <1>2 DEF CallsKnow, RequestFits
<1>7. CASE r.op = "content"
  <2>1. pServer' = [pServer EXCEPT !.content = TRUE, !.edits = @ \cup {c}]
    BY <1>7 DEF Serve
  <2>2. IsFiniteSet(pServer.edits \cup {c})
    BY <1>1, FS_AddElement DEF PageTypeOK
  <2> QED
    BY <1>1, <1>2, <1>4, <1>7, <2>1, <2>2 DEF PageTypeOK
<1>8. CASE r.op = "root"
  <2>1. pServer' = [pServer EXCEPT !.entry = merged]
    BY <1>8 DEF Serve
  <2> QED
    BY <1>1, <1>2, <1>4, <1>5, <1>6, <1>8, <2>1 DEF PageTypeOK, Loads
<1>9. CASE r.op = "delete"
  <2>1. pServer' = [pServer EXCEPT !.content = FALSE, !.kept = pQuirks.retains]
    BY <1>9 DEF Serve
  <2> QED
    BY <1>1, <1>2, <1>4, <1>9, <2>1 DEF PageTypeOK
<1> QED
  BY <1>3, <1>6, <1>7, <1>8, <1>9

(* A request served in time is what its call waits for; one served late    *)
(* ends what the others know for now.                                      *)
LEMMA ServeKeeps ==
  ASSUME CallsKnow, NEW c \in PageCalls, Serve(c)
  PROVE  CallsKnow' /\ UNCHANGED pAnswer /\ (pServer.entry = NoEntry => pServer'.entry = NoEntry)
<1> DEFINE r == pRequest[c]
<1>1. /\ PageTypeOK /\ OneAtATime
      /\ \A o \in PageCalls : RequestFits(o) /\ KnownForGood(o)
      /\ NoneLanded => \A o \in PageCalls : KnownUntilLanding(o)
  BY DEF CallsKnow
<1>2. /\ PageTypeOK'
      /\ pServer.entry = NoEntry => pServer'.entry = NoEntry
      /\ pServer.edits \subseteq pServer'.edits
      /\ r.op = "content" => c \in pServer'.edits
      /\ r.op = "root" => /\ UNCHANGED Loads
                          /\ pServer'.entry = MergeEntry(pServer.entry, r.base, r.made)
      /\ r.op = "delete" => pServer'.content = FALSE
  BY Served
<1>3. r.status \in {"sent", "late"} /\ UNCHANGED <<pQuirks, pStep, pRead, pAnswer>>
  BY DEF Serve
<1>4. /\ pRequest'[c].status = IF r.status = "sent" THEN "served" ELSE "landed"
      /\ pRequest'[c].op = r.op /\ pRequest'[c].base = r.base /\ pRequest'[c].made = r.made
      /\ \A o \in PageCalls : o # c => pRequest'[o] = pRequest[o]
  BY <1>1 DEF PageTypeOK, Serve
<1>5. OneAtATime'
  BY <1>1, <1>3 DEF OneAtATime, Busy
<1>6. \A o \in PageCalls : RequestFits(o)'
  BY <1>1, <1>3, <1>4 DEF RequestFits, Waits
<1>7. ASSUME NEW o \in PageCalls PROVE KnownForGood(o)'
  <2>1. RequestFits(o) /\ KnownForGood(o)
    BY <1>1
  <2>2. CASE o # c
    BY <1>2, <1>3, <1>4, <2>1, <2>2 DEF KnownForGood
  <2>3. CASE o = c
    <3>1. pStep[c] = "unlisting" => r.op = "root" /\ r.made = NoEntry
      BY <2>1, <2>3 DEF RequestFits
    <3>2. pStep[c] = "unlisting" => pServer'.entry = NoEntry
      BY <1>2, <3>1 DEF MergeEntry
    <3>3. pStep[c] = "pushing" => c \in pServer'.edits
      BY <1>2, <2>1, <2>3 DEF RequestFits
    <3> QED
      BY <1>2, <1>3, <1>4, <2>1, <2>3, <3>2, <3>3 DEF KnownForGood
  <2> QED
    BY <2>2, <2>3
<1>8. ASSUME NoneLanded', NEW o \in PageCalls PROVE KnownUntilLanding(o)'
  <2>1. r.status = "sent" /\ NoneLanded
    BY <1>3, <1>4, <1>8 DEF NoneLanded
  <2>2. RequestFits(c) /\ KnownForGood(c) /\ KnownUntilLanding(c)
    BY <1>1, <2>1
  <2>3. pStep[c] \in Waits /\ pRequest'[c].status = "served"
    BY <1>4, <2>1, <2>2 DEF RequestFits
  <2>4. CASE o # c
    <3>1. ~Busy(o)
      BY <1>1, <2>3, <2>4 DEF OneAtATime, Busy, Waits
    <3> QED
      BY <1>3, <3>1 DEF Busy, KnownUntilLanding
  <2>5. CASE o = c
    <3>1. pStep[c] = "removing" => ~pServer'.content
      BY <1>2, <2>2 DEF RequestFits
    <3>2. pStep[c] = "unlisting" => UNCHANGED Loads
      BY <1>2, <2>2 DEF RequestFits
    <3>3. pStep[c] = "mirroring" => UpToDate(pServer'.entry, pRead[c][1])
      <4> SUFFICES ASSUME pStep[c] = "mirroring" PROVE UpToDate(pServer'.entry, pRead[c][1])
        OBVIOUS
      <4>1. /\ r.op = "root" /\ r.base # NoEntry /\ pServer.entry = r.base
            /\ pRead[c][1] \in Nat /\ r.made = [r.base EXCEPT !["updatedDate"] = pRead[c][1]]
        BY <2>1, <2>2 DEF RequestFits, KnownForGood, KnownUntilLanding
      <4>2. r.base \in DatedEntries
        BY <1>1, <4>1 DEF PageTypeOK
      <4>3. r.made \in DatedEntries /\ r.made["updatedDate"] = pRead[c][1] /\ r.made # NoEntry
        BY <4>1, <4>2, DateIsSet, NoEntryIsNotDated
      <4>4. pServer'.entry = MergedMap(r.base, r.base, r.made)
        BY <1>2, <4>1, <4>3 DEF MergeEntry
      <4>5. pServer'.entry["updatedDate"] = pRead[c][1]
        BY <4>2, <4>3, <4>4, MergedIsDated
      <4> QED
        BY <4>1, <4>5 DEF UpToDate
    <3> QED
      BY <1>3, <2>2, <2>3, <2>5, <3>1, <3>2, <3>3 DEF KnownUntilLanding
  <2> QED
    BY <2>4, <2>5
<1> QED
  BY <1>2, <1>3, <1>5, <1>6, <1>7, <1>8 DEF CallsKnow

(* A call goes on to work of its own, with what it has read. *)
LEMMA GoingOn ==
  ASSUME CallsKnow, NEW c \in PageCalls, Busy(c) \/ Begins(c),
         NEW s \in Steps \ (Waits \cup {"done"}), NEW read, NEW request,
         pStep' = [pStep EXCEPT ![c] = s],
         pRead' = [pRead EXCEPT ![c] = read],
         pRequest' = [pRequest EXCEPT ![c] = request],
         UNCHANGED <<pServer, pQuirks, pAnswer>>,
         request = pRequest[c] \/ (request = [pRequest[c] EXCEPT !.status = "late"] /\ pRequest[c].status = "sent"),
         request.status # "sent",
         s \in {"idle", "looking"} => request.status = "none",
         s = "dating" => request.status = "served",
         s \in {"dating", "confirming"} => c \in pServer.edits /\ read[1] \in Nat,
         s = "reading" => read[1] \in BOOLEAN,
         s = "looking" => read[1] \in DatedEntries \cup {NoEntry} /\ (read[1] = NoEntry => pServer.entry = NoEntry)
  PROVE  CallsKnow'
<1>1. PageTypeOK /\ RequestFits(c) /\ KnownForGood(c)
  BY DEF CallsKnow
<1>2. /\ \A o \in PageCalls : pStep'[o] = IF o = c THEN s ELSE pStep[o]
      /\ \A o \in PageCalls : pRequest'[o] = IF o = c THEN request ELSE pRequest[o]
      /\ \A o \in PageCalls : pRead'[o] = IF o = c THEN read ELSE pRead[o]
  BY <1>1 DEF PageTypeOK
<1>3. request \in [status : {"none", "sent", "late", "served", "landed"},
                   op : {"none", "content", "root", "delete"},
                   base : DatedEntries \cup {NoEntry}, made : DatedEntries \cup {NoEntry}]
  BY <1>1 DEF PageTypeOK
<1>4. PageTypeOK'
  <2>1. pRequest' \in [PageCalls -> [status : {"none", "sent", "late", "served", "landed"},
                                     op : {"none", "content", "root", "delete"},
                                     base : DatedEntries \cup {NoEntry}, made : DatedEntries \cup {NoEntry}]]
    BY <1>1, <1>3 DEF PageTypeOK
  <2>2. pStep' \in [PageCalls -> Steps]
    BY <1>1 DEF PageTypeOK
  <2>3. DOMAIN pRead' = PageCalls /\ pRead' = [o \in PageCalls |-> pRead'[o]]
    BY <1>1 DEF PageTypeOK
  <2> QED
    BY <1>1, <2>1, <2>2, <2>3 DEF PageTypeOK
<1>5. s \in {"idle", "dating", "confirming", "looking", "reading"}
  BY DEF Steps, Waits
<1>6. request.op = pRequest[c].op /\ request.base = pRequest[c].base
      /\ (request.status = "none" <=> pRequest[c].status = "none")
      /\ (pRequest[c].status = "landed" => request.status = "landed")
  BY <1>1 DEF PageTypeOK
<1>7. RequestFits(c)'
  BY <1>1, <1>2, <1>5, <1>6 DEF RequestFits, Waits
<1>8. KnownForGood(c)'
  BY <1>1, <1>2, <1>5 DEF KnownForGood
<1>9. KnownUntilLanding(c)'
  BY <1>2, <1>5 DEF KnownUntilLanding
<1> QED
  BY <1>2, <1>4, <1>6, <1>7, <1>8, <1>9, CallMoves

(* Edits of the content and of the date. *)
LEMMA EditKeeps ==
  ASSUME CallsKnow, NEW c \in PageCalls,
         \/ EditSends(c) \/ EditFails(c) \/ EditSaved(c) \/ DateUnneeded(c) \/ DateSends(c)
         \/ DateSent(c) \/ DateFails(c) \/ DateConfirmed(c) \/ DateUnconfirmed(c)
  PROVE  CallsKnow' /\ UNCHANGED pServer /\ (Gone' => Gone)
<1> DEFINE Kept == CallsKnow' /\ UNCHANGED pServer /\ (Gone' => Gone)
<1>1. PageTypeOK /\ RequestFits(c) /\ KnownForGood(c)
  BY DEF CallsKnow
<1>2. ASSUME NEW a \in {"failed", "saved", "undated"}, Busy(c), Answers(c, a) PROVE Kept
  BY <1>2, Answering DEF Gone
<1>3. CASE EditSends(c)
  <2>1. Begins(c) /\ Send(c, "pushing", "content", NoEntry, NoEntry) /\ UNCHANGED pRead
    BY <1>3 DEF EditSends
  <2>2. pRequest[c].status = "none"
    BY <1>1, <2>1 DEF RequestFits, Begins, At
  <2>3. pRead' = [pRead EXCEPT ![c] = pRead[c]]
    BY <1>1, <2>1 DEF PageTypeOK
  <2>4. CallsKnow' /\ UNCHANGED <<pServer, pAnswer>>
    BY <2>1, <2>2, <2>3, Sending DEF Waits
  <2> QED
    BY <2>4 DEF Gone
<1>4. CASE EditFails(c)
  BY <1>2, <1>4 DEF EditFails, Fails, At, Busy
<1>5. CASE EditSaved(c)
  <2>1. /\ pStep[c] = "pushing" /\ pRequest[c].status = "served" /\ Busy(c)
        /\ pStep' = [pStep EXCEPT ![c] = "dating"]
        /\ pRead' = [pRead EXCEPT ![c] = <<Cardinality(pServer.edits)>>]
        /\ UNCHANGED <<pServer, pQuirks, pAnswer, pRequest>>
    BY <1>5 DEF EditSaved, Acknowledged, At, Goes, Quiet, Busy
  <2>2. Cardinality(pServer.edits) \in Nat
    BY <1>1, FS_CardinalityType DEF PageTypeOK
  <2>3. c \in pServer.edits
    BY <1>1, <2>1 DEF KnownForGood
  <2>4. pRequest' = [pRequest EXCEPT ![c] = pRequest[c]]
    BY <1>1, <2>1 DEF PageTypeOK
  <2>5. CallsKnow'
    BY <2>1, <2>2, <2>3, <2>4, GoingOn DEF Steps, Waits
  <2> QED
    BY <2>1, <2>5 DEF Gone
<1>6. CASE DateUnneeded(c)
  BY <1>2, <1>6 DEF DateUnneeded, At, Busy
<1>7. CASE DateSends(c)
  <2> DEFINE made == [pServer.entry EXCEPT !["updatedDate"] = pRead[c][1]]
  <2>1. /\ pStep[c] = "dating" /\ Busy(c) /\ pServer.entry # NoEntry
        /\ Send(c, "mirroring", "root", pServer.entry, made) /\ UNCHANGED pRead
    BY <1>7 DEF DateSends, At, Busy, UpToDate
  <2>2. /\ c \in pServer.edits /\ pRead[c][1] \in Nat /\ pRequest[c].status = "served"
        /\ pServer.entry \in DatedEntries
    BY <1>1, <2>1 DEF KnownForGood, RequestFits, PageTypeOK
  <2>3. made \in DatedEntries
    BY <2>2, DateIsSet
  <2>4. pRead' = [pRead EXCEPT ![c] = pRead[c]]
    BY <1>1, <2>1 DEF PageTypeOK
  <2>5. made = [pServer.entry EXCEPT !["updatedDate"] = pRead[c][1]] /\ "mirroring" \in Waits
        /\ pRequest[c].status # "landed"
    BY <2>2 DEF Waits
  <2> HIDE DEF made
  <2>6. CallsKnow' /\ UNCHANGED <<pServer, pAnswer>>
    <3> DEFINE s == "mirroring"  op == "root"  base == pServer.entry  read == pRead[c]
    <3>1. /\ s \in Waits /\ op \in {"content", "root", "delete"}
          /\ base \in DatedEntries \cup {NoEntry} /\ made \in DatedEntries \cup {NoEntry}
          /\ Send(c, s, op, base, made) /\ pRead' = [pRead EXCEPT ![c] = read]
          /\ s # "pushing" /\ op = "root" /\ base # NoEntry
          /\ s # "unlisting" /\ s # "removing" /\ s # "moving"
          /\ c \in pServer.edits /\ read[1] \in Nat /\ pServer.entry = base
          /\ made = [base EXCEPT !["updatedDate"] = read[1]]
      BY <2>1, <2>2, <2>3, <2>4, <2>5
    <3> HIDE DEF s, op, base, read
    <3> QED
      BY <2>1, <2>5, <3>1, Sending
  <2> QED
    BY <2>6 DEF Gone
<1>8. CASE DateSent(c)
  BY <1>2, <1>8 DEF DateSent, Acknowledged, At, Busy
<1>9. CASE DateFails(c)
  <2> DEFINE request == [pRequest[c] EXCEPT !.status = IF pRequest[c].status = "sent" THEN "late" ELSE pRequest[c].status]
  <2>1. /\ pStep[c] = "mirroring" /\ Busy(c)
        /\ pStep' = [pStep EXCEPT ![c] = "confirming"]
        /\ pRequest' = [pRequest EXCEPT ![c] = request]
        /\ UNCHANGED <<pServer, pQuirks, pAnswer, pRead>>
    BY <1>9 DEF DateFails, Fails, At, Goes, GivenUp, Busy
  <2>2. pRequest[c].status = "sent" => request = [pRequest[c] EXCEPT !.status = "late"]
    OBVIOUS
  <2>3. pRequest[c].status # "sent" => request = pRequest[c]
    BY <1>1 DEF PageTypeOK
  <2>4. request.status # "sent"
    BY <1>1 DEF PageTypeOK
  <2>5. pRead' = [pRead EXCEPT ![c] = pRead[c]]
    BY <1>1, <2>1 DEF PageTypeOK
  <2>6. c \in pServer.edits /\ pRead[c][1] \in Nat
    BY <1>1, <2>1 DEF KnownForGood
  <2> HIDE DEF request
  <2>7. CallsKnow'
    BY <2>1, <2>2, <2>3, <2>4, <2>5, <2>6, GoingOn DEF Steps, Waits
  <2> QED
    BY <2>1, <2>7 DEF Gone
<1>10. CASE DateConfirmed(c)
  BY <1>2, <1>10 DEF DateConfirmed, At, Busy
<1>11. CASE DateUnconfirmed(c)
  BY <1>2, <1>11 DEF DateUnconfirmed, At, Busy
<1> QED
  BY <1>3, <1>4, <1>5, <1>6, <1>7, <1>8, <1>9, <1>10, <1>11

(* Trash and restore. *)
LEMMA TrashKeeps ==
  ASSUME CallsKnow, NEW c \in PageCalls,
         \/ TrashRefused(c) \/ TrashFails(c) \/ TrashSent(c) \/ TrashReads(c) \/ TrashReadFails(c)
         \/ \E in \in BOOLEAN : TrashNothing(c, in) \/ TrashSends(c, in)
  PROVE  CallsKnow' /\ UNCHANGED pServer /\ (Gone' => Gone)
<1> DEFINE Kept == CallsKnow' /\ UNCHANGED pServer /\ (Gone' => Gone)
<1>1. PageTypeOK /\ RequestFits(c) /\ KnownForGood(c)
  BY DEF CallsKnow
<1>2. ASSUME NEW a \in {"failed", "trashed", "restored"}, Busy(c) \/ Begins(c), Answers(c, a) PROVE Kept
  BY <1>2, Answering DEF Gone
<1>3. CASE TrashRefused(c)
  BY <1>2, <1>3 DEF TrashRefused
<1>4. CASE TrashFails(c)
  BY <1>2, <1>4 DEF TrashFails, Fails, At, Busy
<1>5. CASE TrashSent(c)
  <2>1. /\ pStep[c] = "moving" /\ Busy(c) /\ pRequest[c].status = "served"
        /\ pStep' = [pStep EXCEPT ![c] = "reading"]
        /\ UNCHANGED <<pServer, pQuirks, pAnswer, pRead, pRequest>>
    BY <1>5 DEF TrashSent, Acknowledged, At, Goes, Quiet, Busy
  <2>2. /\ pRead' = [pRead EXCEPT ![c] = pRead[c]]
        /\ pRequest' = [pRequest EXCEPT ![c] = pRequest[c]]
    BY <1>1, <2>1 DEF PageTypeOK
  <2>3. pRead[c][1] \in BOOLEAN
    BY <1>1, <2>1 DEF KnownForGood
  <2>4. CallsKnow'
    BY <2>1, <2>2, <2>3, GoingOn DEF Steps, Waits
  <2> QED
    BY <2>1, <2>4 DEF Gone
<1>6. CASE TrashReads(c)
  <2>1. pStep[c] = "reading" /\ Busy(c) /\ pRead[c][1] \in BOOLEAN
    BY <1>1, <1>6 DEF TrashReads, At, Busy, KnownForGood
  <2>2. \/ Answers(c, "trashed") \/ Answers(c, "restored") \/ Answers(c, "failed")
        \/ /\ pRead' = [pRead EXCEPT ![c] = <<pRead[c][1], pRead[c][2] + 1>>]
           /\ Goes(c, "reading") /\ Quiet
    BY <1>6, Zenon DEF TrashReads
  <2>3. CASE /\ pRead' = [pRead EXCEPT ![c] = <<pRead[c][1], pRead[c][2] + 1>>]
             /\ Goes(c, "reading") /\ Quiet
    <3>1. /\ pStep' = [pStep EXCEPT ![c] = "reading"]
          /\ UNCHANGED <<pServer, pQuirks, pAnswer, pRequest>>
      BY <2>3 DEF Goes, Quiet
    <3>2. pRequest' = [pRequest EXCEPT ![c] = pRequest[c]]
      BY <1>1, <3>1 DEF PageTypeOK
    <3>3. pRequest[c].status # "sent" /\ "reading" \in Steps \ (Waits \cup {"done"})
      BY <1>1, <2>1 DEF RequestFits, Steps, Waits
    <3> DEFINE read == <<pRead[c][1], pRead[c][2] + 1>>
    <3>4. read[1] \in BOOLEAN
      BY <2>1
    <3>5. pRead' = [pRead EXCEPT ![c] = read]
      BY <2>3
    <3> HIDE DEF read
    <3>6. CallsKnow'
      BY <2>1, <3>1, <3>2, <3>3, <3>4, <3>5, GoingOn
    <3> QED
      BY <3>1, <3>6 DEF Gone
  <2> QED
    BY <1>2, <2>1, <2>2, <2>3
<1>7. CASE TrashReadFails(c)
  BY <1>2, <1>7 DEF TrashReadFails, At, Busy
<1>8. ASSUME NEW in \in BOOLEAN, TrashNothing(c, in) PROVE Kept
  <2>1. Begins(c) /\ (Answers(c, "trashed") \/ Answers(c, "restored"))
    BY <1>8 DEF TrashNothing
  <2> QED
    BY <1>2, <2>1
<1>9. ASSUME NEW in \in BOOLEAN, TrashSends(c, in) PROVE Kept
  <2>1. /\ Begins(c) /\ pServer.entry # NoEntry
        /\ pRead' = [pRead EXCEPT ![c] = <<in, 0>>]
        /\ Send(c, "moving", "root", pServer.entry, TrashState(pServer.entry, in))
    BY <1>9 DEF TrashSends
  <2>2. pRequest[c].status = "none"
    BY <1>1, <2>1 DEF RequestFits, Begins, At
  <2>3. pServer.entry \in DatedEntries /\ TrashState(pServer.entry, in) \in DatedEntries
    BY <1>1, <2>1, TrashKeepsDate DEF PageTypeOK
  <2>4. CallsKnow' /\ UNCHANGED <<pServer, pAnswer>>
    BY <2>1, <2>2, <2>3, Sending DEF Waits
  <2> QED
    BY <2>4 DEF Gone
<1> QED
  BY <1>3, <1>4, <1>5, <1>6, <1>7, <1>8, <1>9

(* Deletions. Only the call itself is told anything. *)
LEMMA DeleteKeeps ==
  ASSUME CallsKnow, NEW c \in PageCalls,
         \/ DeleteLoads(c) \/ DeleteAbsent(c) \/ DeleteUnlists(c) \/ DeleteUnlistFails(c)
         \/ DeleteNoContent(c) \/ DeleteSends(c) \/ DeleteAcknowledged(c) \/ DeleteVerified(c)
         \/ DeleteFails(c)
  PROVE  CallsKnow' /\ UNCHANGED pServer /\ \A o \in PageCalls : o # c => pAnswer'[o] = pAnswer[o]
<1> DEFINE Kept == CallsKnow' /\ UNCHANGED pServer /\ \A o \in PageCalls : o # c => pAnswer'[o] = pAnswer[o]
<1>1. PageTypeOK /\ RequestFits(c) /\ KnownForGood(c)
  BY DEF CallsKnow
<1>2. ASSUME NEW a, Busy(c), Answers(c, a), a \in {"deleted", "already_absent"} => pServer.entry = NoEntry
      PROVE Kept
  BY <1>2, Answering
<1>3. CASE DeleteLoads(c)
  <2> DEFINE read == <<pServer.entry>>
  <2>1. /\ Begins(c) /\ pRead' = [pRead EXCEPT ![c] = read]
        /\ pStep' = [pStep EXCEPT ![c] = "looking"]
        /\ UNCHANGED <<pServer, pQuirks, pAnswer, pRequest>>
    BY <1>3 DEF DeleteLoads, Goes, Quiet
  <2>2. pRequest[c].status = "none"
    BY <1>1, <2>1 DEF RequestFits, Begins, At
  <2>3. pRequest' = [pRequest EXCEPT ![c] = pRequest[c]]
    BY <1>1, <2>1 DEF PageTypeOK
  <2>4. read[1] = pServer.entry /\ pServer.entry \in DatedEntries \cup {NoEntry}
    BY <1>1 DEF PageTypeOK
  <2>5. "looking" \in Steps \ (Waits \cup {"done"})
    BY DEF Steps, Waits
  <2> HIDE DEF read
  <2>6. CallsKnow'
    BY <2>1, <2>2, <2>3, <2>4, <2>5, GoingOn
  <2> QED
    BY <2>1, <2>6
<1>4. CASE DeleteAbsent(c)
  <2>1. Busy(c) /\ pServer.entry = NoEntry /\ Answers(c, "already_absent")
    BY <1>1, <1>4 DEF DeleteAbsent, At, Busy, KnownForGood
  <2> QED
    BY <1>2, <2>1
<1>5. CASE DeleteUnlists(c)
  <2> DEFINE read == <<pRead[c][1], Loads>>
  <2>1. /\ pStep[c] = "looking" /\ Busy(c) /\ pRead[c][1] # NoEntry
        /\ pRead' = [pRead EXCEPT ![c] = read]
        /\ Send(c, "unlisting", "root", pRead[c][1], NoEntry)
    BY <1>5 DEF DeleteUnlists, At, Busy
  <2>2. pRequest[c].status = "none"
    BY <1>1, <2>1 DEF RequestFits
  <2>3. pRead[c][1] \in DatedEntries
    BY <1>1, <2>1 DEF KnownForGood
  <2>4. read[2] = Loads /\ "unlisting" \in Waits
    BY DEF Waits
  <2> HIDE DEF read
  <2>5. CallsKnow' /\ UNCHANGED <<pServer, pAnswer>>
    BY <2>1, <2>2, <2>3, <2>4, Sending
  <2> QED
    BY <2>5
<1>6. CASE DeleteUnlistFails(c)
  BY <1>2, <1>6 DEF DeleteUnlistFails, Fails, At, Busy
<1>7. CASE DeleteNoContent(c)
  BY <1>1, <1>2, <1>7 DEF DeleteNoContent, Acknowledged, At, Busy, KnownForGood
<1>8. CASE DeleteSends(c)
  <2>1. /\ Send(c, "removing", "delete", NoEntry, NoEntry) /\ UNCHANGED pRead
        /\ Busy(c) /\ pServer.entry = NoEntry /\ pRequest[c].status \in {"none", "served"}
    BY <1>1, <1>8 DEF DeleteSends, Acknowledged, At, Busy, KnownForGood, RequestFits
  <2>2. pRead' = [pRead EXCEPT ![c] = pRead[c]]
    BY <1>1, <2>1 DEF PageTypeOK
  <2>3. CallsKnow' /\ UNCHANGED <<pServer, pAnswer>>
    <3>1. "removing" \in Waits /\ pRequest[c].status # "landed"
      BY <2>1 DEF Waits
    <3> DEFINE s == "removing"  op == "delete"
    <3>2. /\ Busy(c) /\ s \in Waits /\ op \in {"content", "root", "delete"}
          /\ NoEntry \in DatedEntries \cup {NoEntry}
          /\ Send(c, s, op, NoEntry, NoEntry) /\ pRead' = [pRead EXCEPT ![c] = pRead[c]]
          /\ pRequest[c].status # "landed"
          /\ s # "pushing" /\ s \notin {"mirroring", "moving", "unlisting"} /\ op # "root"
          /\ s # "unlisting" /\ s # "mirroring" /\ s # "moving"
          /\ op = "delete" /\ pServer.entry = NoEntry
      BY <2>1, <2>2, <3>1
    <3> HIDE DEF s, op
    <3> QED
      BY <3>2, Sending
  <2> QED
    BY <2>3
<1>9. CASE DeleteAcknowledged(c)
  BY <1>1, <1>2, <1>9 DEF DeleteAcknowledged, Acknowledged, At, Busy, KnownForGood
<1>10. CASE DeleteVerified(c)
  BY <1>1, <1>2, <1>10 DEF DeleteVerified, At, Busy, KnownForGood
<1>11. CASE DeleteFails(c)
  <2>1. Busy(c) /\ (Answers(c, "partial") \/ Answers(c, "failed"))
    BY <1>11 DEF DeleteFails, At, Busy
  <2> QED
    BY <1>2, <2>1
<1> QED
  BY <1>3, <1>4, <1>5, <1>6, <1>7, <1>8, <1>9, <1>10, <1>11

(* The invariant is inductive. *)
LEMMA PageStep == PageInv /\ [PageNext]_pageVars => PageInv'
<1> SUFFICES ASSUME PageInv, [PageNext]_pageVars PROVE PageInv'
  OBVIOUS
<1> DEFINE Listed == [step : {"idle", "loading", "done"}, ids : BOOLEAN, due : BOOLEAN, shown : BOOLEAN]
           Still == /\ pListing \in [Listings -> Listed]
                    /\ Gone /\ ~pPruned => acknowledgedDeletedDocs
                    /\ \A l \in Listings : pListing[l].due =>
                         pServer.entry = NoEntry /\ pListing[l].ids /\ ~pListing[l].shown
                    /\ acknowledgedDeletedDocs \in BOOLEAN /\ pPruned \in BOOLEAN
<1>1. CallsKnow /\ Still
  BY DEF PageInv, TrackerKnows
<1>2. CallsKnow' /\ Still' => PageInv'
  BY DEF PageInv, TrackerKnows
<1>3. Gone => pServer.entry = NoEntry
  BY <1>1 DEF Gone, CallsKnow, KnownForGood
<1>4. ASSUME NEW c \in PageCalls, UNCHANGED listVars, CallsKnow', Gone' => Gone,
             pServer.entry = NoEntry => pServer'.entry = NoEntry
      PROVE  PageInv'
  BY <1>1, <1>2, <1>4 DEF listVars
<1>5. ASSUME NEW c \in PageCalls, Serve(c), UNCHANGED listVars PROVE PageInv'
  BY <1>1, <1>4, <1>5, ServeKeeps DEF Gone
<1>6. ASSUME NEW c \in PageCalls, UNCHANGED listVars,
             \/ EditSends(c) \/ EditFails(c) \/ EditSaved(c) \/ DateUnneeded(c) \/ DateSends(c)
             \/ DateSent(c) \/ DateFails(c) \/ DateConfirmed(c) \/ DateUnconfirmed(c)
      PROVE  PageInv'
  <2>1. CallsKnow' /\ UNCHANGED pServer /\ (Gone' => Gone)
    BY <1>1, <1>6, EditKeeps
  <2> QED
    BY <1>4, <1>6, <2>1
<1>7. ASSUME NEW c \in PageCalls, UNCHANGED listVars,
             \/ TrashRefused(c) \/ TrashFails(c) \/ TrashSent(c) \/ TrashReads(c) \/ TrashReadFails(c)
             \/ \E in \in BOOLEAN : TrashNothing(c, in) \/ TrashSends(c, in)
      PROVE  PageInv'
  <2>1. CallsKnow' /\ UNCHANGED pServer /\ (Gone' => Gone)
    BY <1>1, <1>7, TrashKeeps
  <2> QED
    BY <1>4, <1>7, <2>1
<1>8. ASSUME NEW c \in PageCalls,
             \/ DeleteLoads(c) \/ DeleteAbsent(c) \/ DeleteUnlists(c) \/ DeleteUnlistFails(c)
             \/ DeleteNoContent(c) \/ DeleteSends(c) \/ DeleteAcknowledged(c) \/ DeleteVerified(c)
             \/ DeleteFails(c),
             acknowledgedDeletedDocs' = (acknowledgedDeletedDocs \/ Remembers(c)),
             pPruned' = (pPruned /\ ~Remembers(c)), UNCHANGED pListing
      PROVE  PageInv'
  <2>1. CallsKnow' /\ UNCHANGED pServer /\ \A o \in PageCalls : o # c => pAnswer'[o] = pAnswer[o]
    BY <1>1, <1>8, DeleteKeeps
  <2>2. acknowledgedDeletedDocs' \in BOOLEAN /\ pPruned' \in BOOLEAN
    BY <1>8
  <2>3. Gone' => Gone \/ Remembers(c)
    BY <2>1 DEF Gone, Remembers
  <2>4. (Gone /\ ~pPruned => acknowledgedDeletedDocs)'
    BY <1>1, <1>8, <2>3
  <2>5. Still'
    BY <1>1, <1>8, <2>1, <2>2, <2>4
  <2> QED
    BY <1>2, <2>1, <2>5
<1>9. UNCHANGED callVars => /\ CallsKnow' /\ UNCHANGED pServer /\ (Gone' <=> Gone)
  <2> SUFFICES ASSUME UNCHANGED callVars
               PROVE  CallsKnow' /\ UNCHANGED pServer /\ (Gone' <=> Gone)
    OBVIOUS
  <2>1. UNCHANGED <<pServer, pQuirks, pStep, pRequest, pRead, pAnswer>>
    BY DEF callVars
  <2>2. UNCHANGED <<PageTypeOK, OneAtATime, NoneLanded>> /\ (Gone' <=> Gone)
    BY <2>1 DEF PageTypeOK, OneAtATime, Busy, NoneLanded, Gone
  <2>3. \A o \in PageCalls : /\ RequestFits(o)' <=> RequestFits(o)
                             /\ KnownForGood(o)' <=> KnownForGood(o)
                             /\ KnownUntilLanding(o)' <=> KnownUntilLanding(o)
    BY <2>1 DEF RequestFits, KnownForGood, KnownUntilLanding, Loads
  <2> QED
    BY <1>1, <2>1, <2>2, <2>3 DEF CallsKnow
<1>10. ASSUME NEW l \in Listings, ListBegins(l) PROVE PageInv'
  <2>1. /\ pListing' = [pListing EXCEPT ![l] = [step |-> "loading", ids |-> acknowledgedDeletedDocs,
                                                due |-> Gone /\ ~pPruned, shown |-> FALSE]]
        /\ UNCHANGED <<callVars, acknowledgedDeletedDocs, pPruned>>
    BY <1>10 DEF ListBegins
  <2>2. (Gone /\ ~pPruned) \in BOOLEAN
    OBVIOUS
  <2> DEFINE due == Gone /\ ~pPruned
             new == [step |-> "loading", ids |-> acknowledgedDeletedDocs, due |-> due, shown |-> FALSE]
  <2>3. due => pServer.entry = NoEntry /\ acknowledgedDeletedDocs
    BY <1>1, <1>3
  <2>4. new \in Listed /\ new.due = due /\ new.ids = acknowledgedDeletedDocs /\ new.shown = FALSE
    BY <1>1, <2>2
  <2>5. pListing' = [pListing EXCEPT ![l] = new]
    BY <2>1
  <2> HIDE DEF new, due
  <2>6. Still'
    BY <1>1, <1>9, <2>1, <2>3, <2>4, <2>5
  <2> QED
    BY <1>2, <1>9, <2>1, <2>6
<1>11. ASSUME NEW l \in Listings, NEW shown \in BOOLEAN, ListEnds(l, shown), pListing[l].due => ~shown,
              acknowledgedDeletedDocs' \in BOOLEAN,
              Gone /\ ~pPruned => acknowledgedDeletedDocs'
       PROVE  PageInv'
  <2> DEFINE new == [pListing[l] EXCEPT !.step = "done", !.shown = shown]
  <2>1. /\ pListing' = [pListing EXCEPT ![l] = new]
        /\ UNCHANGED <<callVars, pPruned>>
    BY <1>1, <1>11 DEF ListEnds
  <2>2. new \in Listed /\ new.due = pListing[l].due /\ new.ids = pListing[l].ids /\ new.shown = shown
    BY <1>1
  <2> HIDE DEF new
  <2>3. Still'
    BY <1>1, <1>9, <1>11, <2>1, <2>2
  <2> QED
    BY <1>2, <1>9, <2>1, <2>3
<1>12. \A l \in Listings : pListing[l].due => pListing[l].ids /\ pServer.entry = NoEntry
  BY <1>1
<1>13. \A l \in Listings : pListing[l].ids \in BOOLEAN
  BY <1>1
<1>14. ASSUME NEW l \in Listings, ListUnloaded(l) PROVE PageInv'
  BY <1>1, <1>11, <1>12, <1>14 DEF ListUnloaded
<1>15. ASSUME NEW l \in Listings, ListLoaded(l) PROVE PageInv'
  <2>1. CASE pServer.entry # NoEntry
    BY <1>1, <1>3, <1>11, <1>12, <1>15, <2>1 DEF ListLoaded
  <2>2. CASE pServer.entry = NoEntry
    <3> DEFINE shown == Loads /\ ~pListing[l].ids
    <3>1. ListEnds(l, shown) /\ UNCHANGED acknowledgedDeletedDocs /\ shown \in BOOLEAN
      BY <1>15, <2>2 DEF ListLoaded
    <3>2. pListing[l].due => ~shown
      BY <1>12
    <3> HIDE DEF shown
    <3> QED
      BY <1>1, <1>11, <3>1, <3>2
  <2> QED
    BY <2>1, <2>2
<1>16. ASSUME NEW l \in Listings, ListFromRoot(l) PROVE PageInv'
  <2> DEFINE shown == pServer.entry # NoEntry /\ ~pListing[l].ids
  <2>1. /\ ListEnds(l, shown) /\ shown \in BOOLEAN
        /\ acknowledgedDeletedDocs' = (acknowledgedDeletedDocs /\ (pServer.entry = NoEntry \/ ~pListing[l].ids))
    BY <1>16 DEF ListFromRoot
  <2>2. pListing[l].due => ~shown
    BY <1>12
  <2>3. acknowledgedDeletedDocs' \in BOOLEAN /\ (Gone /\ ~pPruned => acknowledgedDeletedDocs')
    BY <1>1, <1>3, <2>1
  <2> HIDE DEF shown
  <2> QED
    BY <1>11, <2>1, <2>2, <2>3
<1>17. CASE Prune
  BY <1>1, <1>2, <1>9, <1>17 DEF Prune, callVars
<1>18. CASE UNCHANGED pageVars
  BY <1>1, <1>2, <1>9, <1>18 DEF pageVars, callVars
<1> QED
  BY <1>5, <1>6, <1>7, <1>8, <1>10, <1>14, <1>15, <1>16, <1>17, <1>18 DEF PageNext

-----------------------------------------------------------------------------
PageAnswers == {"failed", "saved", "undated", "deleted", "already_absent", "partial", "trashed", "restored"}

(* What is true of an answer, as PageReportsAreTrue says it. *)
TrueReport(c, told) ==
  /\ told \in {"deleted", "already_absent"} => pServer.entry = NoEntry /\ ~pServer.content
  /\ told = "partial" => pServer.entry = NoEntry
  /\ told \in {"saved", "undated"} => c \in pServer.edits
  /\ told = "saved" => UpToDate(pServer.entry, pRead[c][1])
  /\ told = "failed" => pStep[c] \notin {"dating", "mirroring", "confirming"}
  /\ told = "restored" => \A k \in {"inTrash", "trash"} :
                           Has(pServer.entry, k) => ~pServer.entry[k]

(* Every answer is true when nothing has landed behind its call's back. *)
LEMMA AnswersAreFounded ==
  ASSUME PageInv, NoneLanded, PageNext
  PROVE  UNCHANGED pAnswer \/ \E c \in PageCalls, a \in PageAnswers : Answers(c, a) /\ TrueReport(c, a)
<1> DEFINE Founded == UNCHANGED pAnswer \/ \E c \in PageCalls, a \in PageAnswers : Answers(c, a) /\ TrueReport(c, a)
<1>1. \A c \in PageCalls : RequestFits(c) /\ KnownForGood(c) /\ KnownUntilLanding(c)
  BY DEF PageInv, CallsKnow
<1>2. ASSUME NEW c \in PageCalls, NEW a \in PageAnswers, Answers(c, a), TrueReport(c, a) PROVE Founded
  BY <1>2
<1>3. ASSUME NEW c \in PageCalls, Answers(c, "failed"), pStep[c] \notin {"dating", "mirroring", "confirming"}
      PROVE Founded
  BY <1>2, <1>3 DEF TrueReport, PageAnswers
<1>4. ASSUME NEW c \in PageCalls, Answers(c, "saved"), c \in pServer.edits, UpToDate(pServer.entry, pRead[c][1])
      PROVE Founded
  BY <1>2, <1>4 DEF TrueReport, PageAnswers
<1>5. ASSUME NEW c \in PageCalls, NEW a \in {"deleted", "already_absent"}, Answers(c, a),
             pServer.entry = NoEntry, ~pServer.content
      PROVE Founded
  BY <1>2, <1>5 DEF TrueReport, PageAnswers
<1>6. ASSUME NEW c \in PageCalls, Serve(c) PROVE Founded
  BY <1>6 DEF Serve
<1>7. ASSUME NEW c \in PageCalls, EditSends(c) \/ EditSaved(c) \/ DateSends(c) \/ DateFails(c) PROVE Founded
  BY <1>7 DEF EditSends, EditSaved, DateSends, DateFails, Send, Quiet
<1>8. ASSUME NEW c \in PageCalls, EditFails(c) PROVE Founded
  BY <1>3, <1>8 DEF EditFails, Fails, At
<1>9. ASSUME NEW c \in PageCalls, DateUnneeded(c) \/ DateSent(c) \/ DateConfirmed(c) PROVE Founded
  <2>1. c \in pServer.edits
    BY <1>1, <1>9 DEF DateUnneeded, DateSent, DateConfirmed, Acknowledged, At, KnownForGood
  <2>2. UpToDate(pServer.entry, pRead[c][1])
    BY <1>1, <1>9 DEF DateUnneeded, DateSent, DateConfirmed, Acknowledged, At, KnownUntilLanding
  <2>3. Answers(c, "saved")
    BY <1>9 DEF DateUnneeded, DateSent, DateConfirmed
  <2> QED
    BY <1>4, <2>1, <2>2, <2>3
<1>10. ASSUME NEW c \in PageCalls, DateUnconfirmed(c) PROVE Founded
  <2>1. c \in pServer.edits /\ Answers(c, "undated")
    BY <1>1, <1>10 DEF DateUnconfirmed, KnownForGood
  <2> QED
    BY <1>2, <2>1 DEF TrueReport, PageAnswers
<1>11. ASSUME NEW c \in PageCalls, TrashRefused(c) \/ TrashFails(c) \/ TrashReadFails(c) PROVE Founded
  BY <1>3, <1>11 DEF TrashRefused, TrashFails, TrashReadFails, Begins, Fails, At
<1>12. ASSUME NEW c \in PageCalls, Answers(c, "trashed") PROVE Founded
  BY <1>2, <1>12 DEF TrueReport, PageAnswers
<1>13. ASSUME NEW c \in PageCalls, Answers(c, "restored"),
              \A k \in {"inTrash", "trash"} : Has(pServer.entry, k) => ~pServer.entry[k]
       PROVE Founded
  BY <1>2, <1>13 DEF TrueReport, PageAnswers
<1>14. ASSUME NEW c \in PageCalls, NEW in \in BOOLEAN, TrashNothing(c, in) PROVE Founded
  <2>1. CASE in = TRUE
    BY <1>12, <1>14, <2>1 DEF TrashNothing
  <2>2. CASE in = FALSE
    BY <1>13, <1>14, <2>2 DEF TrashNothing, Unchanged
  <2> QED
    BY <2>1, <2>2
<1>15. ASSUME NEW c \in PageCalls, NEW in \in BOOLEAN, TrashSends(c, in) PROVE Founded
  BY <1>15 DEF TrashSends, Send
<1>16. ASSUME NEW c \in PageCalls, TrashSent(c) PROVE Founded
  BY <1>16 DEF TrashSent, Quiet
<1>17. ASSUME NEW c \in PageCalls, TrashReads(c) PROVE Founded
  <2> DEFINE in == pRead[c][1]
  <2>1. pStep[c] = "reading" /\ in \in BOOLEAN
    BY <1>1, <1>17 DEF TrashReads, At, KnownForGood
  <2>2. CASE pServer.entry # NoEntry /\ Canonical(pServer.entry, in)
    <3>1. Answers(c, IF in THEN "trashed" ELSE "restored")
      BY <1>17, <2>2 DEF TrashReads
    <3>2. CASE in = TRUE
      BY <1>12, <3>1, <3>2
    <3>3. CASE in = FALSE
      <4>1. ~Has(pServer.entry, "inTrash") /\ pServer.entry["trash"] = FALSE
        BY <2>2, <3>3 DEF Canonical
      <4>2. Answers(c, "restored")
        BY <3>1, <3>3
      <4> QED
        BY <1>13, <4>1, <4>2
    <3> QED
      BY <2>1, <3>2, <3>3
  <2>3. CASE ~(pServer.entry # NoEntry /\ Canonical(pServer.entry, in))
    <3>1. Answers(c, "failed") \/ Quiet
      BY <1>17, <2>3 DEF TrashReads
    <3> QED
      BY <1>3, <2>1, <3>1 DEF Quiet
  <2> QED
    BY <2>2, <2>3
<1>18. ASSUME NEW c \in PageCalls, DeleteLoads(c) \/ DeleteUnlists(c) \/ DeleteSends(c) PROVE Founded
  BY <1>18 DEF DeleteLoads, DeleteUnlists, DeleteSends, Send, Quiet
<1>19. ASSUME NEW c \in PageCalls, DeleteAbsent(c) PROVE Founded
  BY <1>1, <1>5, <1>19 DEF DeleteAbsent, At, KnownForGood, Loads
<1>20. ASSUME NEW c \in PageCalls, DeleteUnlistFails(c) PROVE Founded
  BY <1>3, <1>20 DEF DeleteUnlistFails, Fails, At
<1>21. ASSUME NEW c \in PageCalls, DeleteNoContent(c) PROVE Founded
  <2>1. pStep[c] = "unlisting" /\ pRequest[c].status = "served" /\ ~pRead[c][2] /\ Answers(c, "deleted")
    BY <1>21 DEF DeleteNoContent, Acknowledged, At
  <2>2. pServer.entry = NoEntry /\ ~Loads
    BY <1>1, <2>1 DEF KnownForGood, KnownUntilLanding
  <2> QED
    BY <1>5, <2>1, <2>2 DEF Loads
<1>22. ASSUME NEW c \in PageCalls, DeleteAcknowledged(c) \/ DeleteVerified(c) PROVE Founded
  <2>1. pStep[c] = "removing" /\ Answers(c, "deleted")
    BY <1>22 DEF DeleteAcknowledged, DeleteVerified, Acknowledged, At
  <2>2. pServer.entry = NoEntry
    BY <1>1, <2>1 DEF KnownForGood
  <2>3. ~pServer.content
    BY <1>1, <1>22, <2>1 DEF DeleteAcknowledged, DeleteVerified, Acknowledged, Loads, KnownUntilLanding
  <2> QED
    BY <1>5, <2>1, <2>2, <2>3
<1>23. ASSUME NEW c \in PageCalls, DeleteFails(c) PROVE Founded
  <2>1. pStep[c] = "removing" /\ (Answers(c, "partial") \/ Answers(c, "failed")) /\ pServer.entry = NoEntry
    BY <1>1, <1>23 DEF DeleteFails, At, KnownForGood
  <2>2. TrueReport(c, "partial") /\ TrueReport(c, "failed")
    BY <2>1 DEF TrueReport
  <2> QED
    BY <1>2, <2>1, <2>2 DEF PageAnswers
<1>24. ASSUME NEW l \in Listings, ListBegins(l) \/ ListUnloaded(l) \/ ListLoaded(l) \/ ListFromRoot(l)
       PROVE  Founded
  BY <1>24 DEF ListBegins, ListUnloaded, ListLoaded, ListFromRoot, ListEnds, callVars
<1>25. CASE Prune \/ UNCHANGED pageVars
  BY <1>25 DEF Prune, pageVars
<1> QED
  BY <1>6, <1>7, <1>8, <1>9, <1>10, <1>11, <1>14, <1>15, <1>16, <1>17, <1>18, <1>19, <1>20,
     <1>21, <1>22, <1>23, <1>24, <1>25 DEF PageNext

-----------------------------------------------------------------------------
(* What the calls on a page know always holds. *)
THEOREM PageSafety == PageSpec => []PageInv
<1>1. PageInit => PageInv
  BY InitPage
<1>2. PageInv /\ [PageNext]_pageVars => PageInv'
  BY PageStep
<1> QED
  BY <1>1, <1>2, PTL DEF PageSpec

(* list_docs never shows a page that was reported deleted before it began, *)
(* for any number of calls and listings, until the tracker drops it.       *)
THEOREM DeletionsStayOutOfListings == PageSpec => []DeletedPagesAreNotListed
<1>1. PageInv => DeletedPagesAreNotListed
  BY DEF PageInv, TrackerKnows, DeletedPagesAreNotListed
<1> QED
  BY <1>1, PageSafety, PTL

(* What edits, deletions, trash and restore answer is true when they say   *)
(* it, as long as no request that was given up on has been served.         *)
THEOREM PageAnswersAreTrue == PageSpec => PageReportsAreTrue
<1> DEFINE Report == (\A o \in PageCalls : pRequest[o].status # "landed") =>
             \A c \in PageCalls : pAnswer'[c] # pAnswer[c] => TrueReport(c, pAnswer'[c])
<1>1. PageInv /\ [PageNext]_pageVars => [Report]_pageVars
  <2> SUFFICES ASSUME PageInv, PageNext, NoneLanded, NEW c \in PageCalls, pAnswer'[c] # pAnswer[c]
               PROVE  TrueReport(c, pAnswer'[c])
    BY DEF NoneLanded
  <2>1. PICK d \in PageCalls, a \in PageAnswers : Answers(d, a) /\ TrueReport(d, a)
    BY AnswersAreFounded
  <2>2. pAnswer' = [pAnswer EXCEPT ![d] = a] /\ DOMAIN pAnswer = PageCalls
    BY <2>1 DEF Answers, PageInv, CallsKnow, PageTypeOK
  <2> QED
    BY <2>1, <2>2
<1>2. [][Report]_pageVars <=> PageReportsAreTrue
  BY PTL DEF PageReportsAreTrue, TrueReport
<1> QED
  BY <1>1, <1>2, PageSafety, PTL DEF PageSpec
=============================================================================
