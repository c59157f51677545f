---------------------- MODULE ConversationTablesProofs ----------------------
(***************************************************************************)
(* What the services of ConversationTables preserve: the shape of the rows,*)
(* the case the conversation points to and the closed cases.               *)
(***************************************************************************)
EXTENDS ConversationTables, TLAPS

\* CaseCurrency of ConversationOwnership, said of any rows.
CurrentCase(d) ==
  /\ d.conv.status # "resolved" => HasCase(d)
  /\ ActiveCases(d) = {d.conv.case} \ {None}

\* e has the cases of d, and the conversation points to the same one.
SameCases(d, e) == e.cases = d.cases /\ e.conv.case = d.conv.case

\* The closed cases of d and e are the same, and the current case of d, if it has
\* one, is the current case of e.
KeepsSession(d, e) ==
  /\ \A k \in CaseIds : d.cases[k].status = "resolved" <=> e.cases[k].status = "resolved"
  /\ HasCase(d) => e.conv.case = d.conv.case

\* e has no current case, and has closed that of d and no other.
EndsSession(d, e) ==
  /\ e.conv.case = None
  /\ \A k \in CaseIds :
       e.cases[k].status = "resolved" <=> d.cases[k].status = "resolved" \/ k = d.conv.case

\* e differs from d in no case but k, which is active in e.
WritesCase(d, e, k) ==
  /\ e.conv.case = d.conv.case
  /\ \A l \in CaseIds : l # k => e.cases[l] = d.cases[l]
  /\ k # None => e.cases[k].status \in ActiveCaseStatuses

-----------------------------------------------------------------------------
(* Shapes *)

\* The owners that the services write are owners.
LEMMA OwnersTyped ==
  /\ SystemOwner \in Owner
  /\ \A a \in Agents : HumanOwner(a) \in Owner
  /\ \A m \in AIAgentOrNone : AIOwner(m) \in Owner
  /\ HumanOwner(None) \in Owner
BY DEF Owner, SystemOwner, HumanOwner, AIOwner, AgentOrNone, AIAgentOrNone

\* The case statuses and which of them count as active.
LEMMA StatusesTyped ==
  /\ ActiveCaseStatuses \subseteq CaseStatus
  /\ "resolved" \in CaseStatus /\ "none" \in CaseStatus
  /\ {"open", "in_progress", "waiting_customer"} \subseteq ActiveCaseStatuses
  /\ "resolved" \notin ActiveCaseStatuses /\ "none" \notin ActiveCaseStatuses
BY DEF ActiveCaseStatuses, CaseStatus

\* The rows of a chat whose last session is over are well formed.
LEMMA EmptyTablesTyped == EmptyTables \in Tables
<1>1. EmptyTables.conv \in ConversationRow
  BY OwnersTyped DEF EmptyTables, ConversationRow, ConversationStatus, AgentOrNone,
     SegmentOrNone, CaseOrNone
<1>2. NoCase \in CaseRow
  BY OwnersTyped, StatusesTyped DEF NoCase, CaseRow, SegmentOrNone
<1>3. EndedSegment \in SegmentRow
  BY OwnersTyped DEF EndedSegment, SegmentRow, CaseOrNone
<1>4. EmptyTables.queue \in QueueRow
  BY DEF EmptyTables, QueueRow, QueueStatus, AgentOrNone, AIAgentOrNone, RequestMode
<1> QED  BY <1>1, <1>2, <1>3, <1>4 DEF EmptyTables, Tables

\* Handing over changes status, assignee and handler only.
LEMMA HandToFrame ==
  ASSUME NEW d \in Tables, NEW status \in ConversationStatus, NEW agent \in AgentOrNone,
         NEW handler \in Owner
  PROVE  LET e == HandTo(d, status, agent, handler)
         IN  /\ e \in Tables /\ SameCases(d, e)
             /\ e.conv.status = status /\ e.conv.segment = d.conv.segment
             /\ e.segs = d.segs /\ e.queue = d.queue
BY DEF HandTo, Tables, ConversationRow, SameCases

\* A free segment id is a segment id.
LEMMA FreeSegmentTyped ==
  ASSUME NEW d, FreeSegments(d) # {}
  PROVE  (CHOOSE s \in FreeSegments(d) : TRUE) \in SegmentIds
BY DEF FreeSegments

\* Starting a segment moves the segment pointer and touches no case.
LEMMA StartSegmentFrame ==
  ASSUME NEW d \in Tables, NEW owner \in Owner, FreeSegments(d) # {}
  PROVE  LET e == StartSegment(d, owner)
         IN  /\ e \in Tables /\ SameCases(d, e)
             /\ e.conv.status = d.conv.status /\ e.conv.segment \in SegmentIds
             /\ e.queue = d.queue
<1> DEFINE s == CHOOSE x \in FreeSegments(d) : TRUE
<1>1. s \in SegmentIds  BY FreeSegmentTyped
<1>2. [active |-> TRUE, owner |-> owner, case |-> d.conv.case] \in SegmentRow
  BY DEF Tables, ConversationRow, SegmentRow
<1> HIDE DEF s
<1>3. StartSegment(d, owner) =
        [d EXCEPT !.segs[s] = [active |-> TRUE, owner |-> owner, case |-> d.conv.case],
                  !.conv.segment = s]
  BY DEF StartSegment, s
<1>4. [d.segs EXCEPT ![s] = [active |-> TRUE, owner |-> owner, case |-> d.conv.case]]
        \in [SegmentIds -> SegmentRow]
  BY <1>1, <1>2 DEF Tables
<1>5. [d.conv EXCEPT !.segment = s] \in ConversationRow
  BY <1>1 DEF Tables, ConversationRow, SegmentOrNone
<1>6. StartSegment(d, owner) =
        [conv  |-> [d.conv EXCEPT !.segment = s], cases |-> d.cases,
         segs  |-> [d.segs EXCEPT ![s] = [active |-> TRUE, owner |-> owner, case |-> d.conv.case]],
         queue |-> d.queue]
  BY <1>3 DEF Tables
<1>7. StartSegment(d, owner) \in Tables
  BY <1>4, <1>5, <1>6 DEF Tables
<1> QED  BY <1>1, <1>6, <1>7 DEF Tables, ConversationRow, SameCases

\* Ending the current segment changes that segment only.
LEMMA EndSegmentFrame ==
  ASSUME NEW d \in Tables
  PROVE  LET e == EndSegment(d)
         IN  /\ e \in Tables /\ SameCases(d, e)
             /\ e.conv = d.conv /\ e.queue = d.queue
             /\ FreeSegments(d) # {} => FreeSegments(e) # {}
<1>1. CASE d.conv.segment = None
  BY <1>1 DEF EndSegment, SameCases
<1>2. CASE d.conv.segment # None
  <2>1. EndSegment(d) = [d EXCEPT !.segs[d.conv.segment] = EndedSegment]
    BY <1>2 DEF EndSegment
  <2>2. d.conv.segment \in SegmentIds
    BY <1>2 DEF Tables, ConversationRow, SegmentOrNone
  <2>3. EndedSegment \in SegmentRow
    BY OwnersTyped DEF EndedSegment, SegmentRow, CaseOrNone
  <2>4. EndSegment(d) \in Tables /\ SameCases(d, EndSegment(d))
        /\ EndSegment(d).conv = d.conv /\ EndSegment(d).queue = d.queue
    BY <2>1, <2>2, <2>3 DEF Tables, SameCases
  <2>5. \A s \in SegmentIds : s # d.conv.segment => EndSegment(d).segs[s] = d.segs[s]
    BY <2>1, <2>2 DEF Tables
  <2>6. FreeSegments(d) \subseteq FreeSegments(EndSegment(d))
    BY <2>4, <2>5 DEF FreeSegments, ReferredSegments, SameCases
  <2> QED  BY <2>4, <2>6
<1> QED  BY <1>1, <1>2

\* Switching segments leaves a segment and touches no case.
LEMMA ReplaceSegmentFrame ==
  ASSUME NEW d \in Tables, NEW owner \in Owner, FreeSegments(d) # {}
  PROVE  LET e == ReplaceSegment(d, owner)
         IN  /\ e \in Tables /\ SameCases(d, e)
             /\ e.conv.status = d.conv.status /\ e.conv.segment \in SegmentIds
             /\ e.queue = d.queue
<1>1. CASE d.conv.segment # None /\ d.segs[d.conv.segment].owner = owner
  BY <1>1 DEF ReplaceSegment, SameCases, Tables, ConversationRow, SegmentOrNone
<1>2. CASE ~(d.conv.segment # None /\ d.segs[d.conv.segment].owner = owner)
  <2>1. ReplaceSegment(d, owner) = StartSegment(EndSegment(d), owner)
    BY <1>2 DEF ReplaceSegment
  <2> QED  BY <2>1, EndSegmentFrame, StartSegmentFrame DEF SameCases
<1> QED  BY <1>1, <1>2

\* Closing the segment clears the pointer and touches no case.
LEMMA CloseCurrentSegmentFrame ==
  ASSUME NEW d \in Tables
  PROVE  LET e == CloseCurrentSegment(d)
         IN  /\ e \in Tables /\ SameCases(d, e)
             /\ e.conv.status = d.conv.status /\ e.queue = d.queue
<1> DEFINE f == EndSegment(d)
<1>1. f \in Tables /\ SameCases(d, f) /\ f.conv = d.conv /\ f.queue = d.queue
  BY EndSegmentFrame
<1>2. CloseCurrentSegment(d) = [f EXCEPT !.conv.segment = None]
  BY DEF CloseCurrentSegment
<1> HIDE DEF f
<1>3. CloseCurrentSegment(d) = [conv |-> [f.conv EXCEPT !.segment = None], cases |-> f.cases,
                                segs |-> f.segs, queue |-> f.queue]
  BY <1>1, <1>2 DEF Tables
<1>4. [f.conv EXCEPT !.segment = None] \in ConversationRow
  BY <1>1 DEF Tables, ConversationRow, SegmentOrNone
<1> QED  BY <1>1, <1>3, <1>4 DEF Tables, ConversationRow, SameCases

\* The intake leaves a segment and touches no case.
LEMMA EnsureSystemSegmentFrame ==
  ASSUME NEW d \in Tables, FreeSegments(d) # {}
  PROVE  LET e == EnsureSystemSegment(d)
         IN  /\ e \in Tables /\ SameCases(d, e)
             /\ e.conv.status = d.conv.status /\ e.conv.segment \in SegmentIds
             /\ e.queue = d.queue
<1>1. CASE d.conv.segment # None
  BY <1>1 DEF EnsureSystemSegment, SameCases, Tables, ConversationRow, SegmentOrNone
<1>2. CASE d.conv.segment = None
  BY <1>2, StartSegmentFrame, OwnersTyped DEF EnsureSystemSegment
<1> QED  BY <1>1, <1>2

\* Setting the owner writes the named case, which is active afterwards.
LEMMA SetCurrentOwnerFrame ==
  ASSUME NEW d \in Tables, NEW k \in CaseOrNone, NEW segment \in SegmentOrNone,
         NEW owner \in Owner, NEW status \in ActiveCaseStatuses
  PROVE  LET e == SetCurrentOwner(d, k, segment, owner, status)
         IN  /\ e \in Tables /\ WritesCase(d, e, k)
             /\ e.conv = d.conv /\ e.segs = d.segs /\ e.queue = d.queue
<1>1. CASE k = None
  BY <1>1 DEF SetCurrentOwner, WritesCase
<1>2. CASE k # None
  <2> DEFINE row == [status |-> status, owner |-> owner, segment |-> segment]
  <2>1. k \in CaseIds  BY <1>2 DEF CaseOrNone
  <2>2. row \in CaseRow  BY StatusesTyped DEF CaseRow
  <2>3. SetCurrentOwner(d, k, segment, owner, status) = [d EXCEPT !.cases[k] = row]
    BY <1>2 DEF SetCurrentOwner
  <2>4. row.status \in ActiveCaseStatuses  OBVIOUS
  <2> HIDE DEF row
  <2>5. SetCurrentOwner(d, k, segment, owner, status) =
          [conv |-> d.conv, cases |-> [d.cases EXCEPT ![k] = row], segs |-> d.segs, queue |-> d.queue]
    BY <2>3 DEF Tables
  <2>6. [d.cases EXCEPT ![k] = row] \in [CaseIds -> CaseRow]
    BY <2>2 DEF Tables
  <2> QED  BY <2>1, <2>4, <2>5, <2>6 DEF Tables, WritesCase
<1> QED  BY <1>1, <1>2

\* Clearing the owner writes the named case, which is active afterwards.
LEMMA ClearCurrentOwnershipFrame ==
  ASSUME NEW d \in Tables, NEW k \in CaseOrNone
  PROVE  LET e == ClearCurrentOwnership(d, k)
         IN  /\ e \in Tables /\ WritesCase(d, e, k)
             /\ e.conv = d.conv /\ e.segs = d.segs /\ e.queue = d.queue
<1>1. None \in SegmentOrNone /\ SystemOwner \in Owner /\ "open" \in ActiveCaseStatuses
  BY OwnersTyped, StatusesTyped DEF SegmentOrNone
<1> QED  BY <1>1, SetCurrentOwnerFrame DEF ClearCurrentOwnership

\* The owner derived for a new case is an owner.
LEMMA DerivedOwnerTyped ==
  ASSUME NEW conv \in ConversationRow
  PROVE  DerivedOwner(conv) \in Owner
<1>1. CASE conv.agent # None
  BY <1>1, OwnersTyped DEF DerivedOwner, ConversationRow, AgentOrNone
<1>2. CASE conv.agent = None /\ conv.handler.type = "ai"
  BY <1>2 DEF DerivedOwner, ConversationRow
<1>3. CASE conv.agent = None /\ conv.handler.type # "ai"
  <2>1. DerivedOwner(conv) = [type |-> "system", id |-> conv.handler.id]
    BY <1>3 DEF DerivedOwner
  <2>2. conv.handler.id \in Agents \cup AIAgents \cup {None}
    BY DEF ConversationRow, Owner, AgentOrNone, AIAgentOrNone
  <2> QED  BY <2>1, <2>2 DEF Owner
<1> QED  BY <1>1, <1>2, <1>3

\* The case that is current afterwards is the one that was active, or a new one.
LEMMA GetOrCreateActiveCaseFrame ==
  ASSUME NEW d \in Tables, ActiveCases(d) = {d.conv.case} \ {None},
         HasCase(d) \/ FreeCases(d) # {}
  PROVE  LET e == GetOrCreateActiveCase(d)
         IN  /\ e \in Tables /\ HasCase(e) /\ ActiveCases(e) = {e.conv.case}
             /\ e.conv.status = d.conv.status /\ e.conv.segment = d.conv.segment
             /\ e.segs = d.segs /\ e.queue = d.queue
             /\ KeepsSession(d, e)
             /\ FreeSegments(d) \subseteq FreeSegments(e)
<1>1. CASE HasCase(d)
  <2>1. IsActiveCase(d, d.conv.case)
    BY <1>1 DEF HasCase, ActiveCases
  <2>2. GetOrCreateActiveCase(d) = d
    BY <2>1 DEF GetOrCreateActiveCase
  <2> QED  BY <1>1, <2>2 DEF HasCase, KeepsSession
<1>2. CASE ~HasCase(d)
  <2> DEFINE k == CHOOSE x \in FreeCases(d) : TRUE
             row == [status |-> "open", owner |-> DerivedOwner(d.conv), segment |-> d.conv.segment]
  <2>1. k \in CaseIds /\ d.cases[k].status = "none"
    BY <1>2 DEF FreeCases
  <2>2. row \in CaseRow
    BY DerivedOwnerTyped, StatusesTyped DEF CaseRow, Tables, ConversationRow
  <2>3. ~IsActiveCase(d, d.conv.case) /\ ActiveCases(d) = {}
    BY <1>2 DEF HasCase, IsActiveCase
  <2>4. GetOrCreateActiveCase(d) = [d EXCEPT !.cases[k] = row, !.conv.case = k]
    BY <2>3 DEF GetOrCreateActiveCase
  <2>5. row.status = "open" /\ row.segment = d.conv.segment  OBVIOUS
  <2> HIDE DEF row, k
  <2>6. GetOrCreateActiveCase(d) =
          [conv |-> [d.conv EXCEPT !.case = k], cases |-> [d.cases EXCEPT ![k] = row],
           segs |-> d.segs, queue |-> d.queue]
    BY <2>4 DEF Tables
  <2>7. [d.cases EXCEPT ![k] = row] \in [CaseIds -> CaseRow]
    BY <2>2 DEF Tables
  <2>8. [d.conv EXCEPT !.case = k] \in ConversationRow
    BY <2>1 DEF Tables, ConversationRow, CaseOrNone
  <2> DEFINE e == GetOrCreateActiveCase(d)
  <2>9. e \in Tables /\ e.conv.case = k /\ e.conv.status = d.conv.status
        /\ e.conv.segment = d.conv.segment /\ e.segs = d.segs /\ e.queue = d.queue
    BY <2>6, <2>7, <2>8 DEF Tables, ConversationRow
  <2>10. /\ e.cases[k].status = "open" /\ e.cases[k].segment = d.conv.segment
         /\ \A l \in CaseIds : l # k => e.cases[l] = d.cases[l]
    BY <2>1, <2>5, <2>6 DEF Tables
  <2>11. k # None  BY <2>1, TablesAssumption
  <2> HIDE DEF e
  <2>12. IsActiveCase(e, k)
    BY <2>10, <2>11, StatusesTyped DEF IsActiveCase
  <2>13. \A l \in CaseIds : IsActiveCase(e, l) => l = k
    BY <2>3, <2>10 DEF IsActiveCase, ActiveCases
  <2>14. ActiveCases(e) = {k}
    BY <2>1, <2>12, <2>13 DEF ActiveCases
  <2>15. KeepsSession(d, e)
    BY <1>2, <2>1, <2>10 DEF KeepsSession
  <2>16. \A l \in CaseIds : e.cases[l].segment \in ReferredSegments(d)
    BY <2>10 DEF ReferredSegments
  <2>17. FreeSegments(d) \subseteq FreeSegments(e)
    BY <2>9, <2>16 DEF FreeSegments, ReferredSegments
  <2> QED  BY <1>2, <2>9, <2>11, <2>14, <2>15, <2>17 DEF HasCase, e
<1> QED  BY <1>1, <1>2

-----------------------------------------------------------------------------
(* The transitions of OwnershipService *)

\* preserveHumanOwner writes the named case and leaves the queue row.
LEMMA PreserveHumanOwnerFrame ==
  ASSUME NEW d \in Tables, NEW k \in CaseOrNone, NEW segment \in SegmentOrNone,
         NEW a \in Agents
  PROVE  LET e == PreserveHumanOwner(d, k, segment, a)
         IN  /\ e \in Tables /\ WritesCase(d, e, k)
             /\ e.conv.status # "resolved" /\ e.queue = d.queue
<1> DEFINE f == HandTo(d, "human_active", a, HumanOwner(a))
<1>1. "human_active" \in ConversationStatus /\ a \in AgentOrNone /\ HumanOwner(a) \in Owner
      /\ "in_progress" \in ActiveCaseStatuses
  BY OwnersTyped, StatusesTyped DEF ConversationStatus, AgentOrNone
<1>2. f \in Tables /\ SameCases(d, f) /\ f.conv.status = "human_active" /\ f.queue = d.queue
  BY <1>1, HandToFrame
<1> HIDE DEF f
<1> DEFINE e == SetCurrentOwner(f, k, segment, HumanOwner(a), "in_progress")
<1>3. e \in Tables /\ WritesCase(f, e, k) /\ e.conv = f.conv /\ e.queue = f.queue
  BY <1>1, <1>2, SetCurrentOwnerFrame
<1>4. PreserveHumanOwner(d, k, segment, a) = e
  BY DEF PreserveHumanOwner, f
<1> HIDE DEF e
<1> QED  BY <1>2, <1>3, <1>4 DEF WritesCase, SameCases

\* assignHumanQueue writes the named case and leaves the queue row.
LEMMA AssignHumanQueueFrame ==
  ASSUME NEW d \in Tables, NEW k \in CaseOrNone, NEW agent \in AgentOrNone
  PROVE  LET e == AssignHumanQueue(d, k, agent)
         IN  /\ e \in Tables /\ WritesCase(d, e, k)
             /\ e.conv.status # "resolved" /\ e.queue = d.queue
<1> DEFINE f == HandTo(d, "queued", agent, SystemOwner)
<1>1. f \in Tables /\ SameCases(d, f) /\ f.conv.status = "queued" /\ f.queue = d.queue
  BY OwnersTyped, HandToFrame DEF ConversationStatus
<1> HIDE DEF f
<1>2. AssignHumanQueue(d, k, agent) = ClearCurrentOwnership(f, k)
  BY DEF AssignHumanQueue, f
<1> QED  BY <1>1, <1>2, ClearCurrentOwnershipFrame DEF WritesCase, SameCases

\* assignAiPending writes the named case and leaves the queue row.
LEMMA AssignAIPendingFrame ==
  ASSUME NEW d \in Tables, NEW k \in CaseOrNone
  PROVE  LET e == AssignAIPending(d, k)
         IN  /\ e \in Tables /\ WritesCase(d, e, k)
             /\ e.conv.status # "resolved" /\ e.queue = d.queue
<1> DEFINE f == HandTo(d, "open", None, SystemOwner)
<1>1. f \in Tables /\ SameCases(d, f) /\ f.conv.status = "open" /\ f.queue = d.queue
  BY OwnersTyped, HandToFrame DEF ConversationStatus, AgentOrNone
<1> HIDE DEF f
<1>2. AssignAIPending(d, k) = ClearCurrentOwnership(f, k)
  BY DEF AssignAIPending, f
<1> QED  BY <1>1, <1>2, ClearCurrentOwnershipFrame DEF WritesCase, SameCases

\* Rows with the same segments and references have the same free segments.
LEMMA FreeSegmentsKept ==
  ASSUME NEW d, NEW e, e.segs = d.segs, SameCases(d, e), e.conv.segment = d.conv.segment
  PROVE  FreeSegments(e) = FreeSegments(d)
BY DEF FreeSegments, ReferredSegments, SameCases

\* activateHumanOwner writes the named case and leaves the queue row.
LEMMA ActivateHumanOwnerFrame ==
  ASSUME NEW d \in Tables, NEW k \in CaseOrNone, NEW a \in Agents,
         NEW caseStatus \in ActiveCaseStatuses, FreeSegments(d) # {}
  PROVE  LET e == ActivateHumanOwner(d, k, a, caseStatus)
         IN  /\ e \in Tables /\ WritesCase(d, e, k)
             /\ e.conv.status # "resolved" /\ e.queue = d.queue
<1> DEFINE f == HandTo(d, "human_active", a, HumanOwner(a))
           g == ReplaceSegment(f, HumanOwner(a))
           e == SetCurrentOwner(g, k, g.conv.segment, HumanOwner(a), caseStatus)
<1>1. "human_active" \in ConversationStatus /\ a \in AgentOrNone /\ HumanOwner(a) \in Owner
  BY OwnersTyped DEF ConversationStatus, AgentOrNone
<1>2. /\ f \in Tables /\ SameCases(d, f) /\ f.conv.status = "human_active" /\ f.queue = d.queue
      /\ f.segs = d.segs /\ f.conv.segment = d.conv.segment
  BY <1>1, HandToFrame
<1>3. FreeSegments(f) # {}
  BY <1>2, FreeSegmentsKept
<1> HIDE DEF f
<1>4. /\ g \in Tables /\ SameCases(f, g) /\ g.conv.status = "human_active" /\ g.queue = d.queue
      /\ g.conv.segment \in SegmentOrNone
  BY <1>1, <1>2, <1>3, ReplaceSegmentFrame DEF SegmentOrNone
<1> HIDE DEF g
<1>5. e \in Tables /\ WritesCase(g, e, k) /\ e.conv = g.conv /\ e.queue = g.queue
  BY <1>1, <1>4, SetCurrentOwnerFrame
<1>6. ActivateHumanOwner(d, k, a, caseStatus) = e
  BY DEF ActivateHumanOwner, f, g
<1> HIDE DEF e
<1> QED  BY <1>2, <1>4, <1>5, <1>6 DEF WritesCase, SameCases

\* activateAiOwner writes the named case and leaves the queue row.
LEMMA ActivateAIOwnerFrame ==
  ASSUME NEW d \in Tables, NEW k \in CaseOrNone, NEW m \in AIAgentOrNone,
         NEW caseStatus \in ActiveCaseStatuses,
         NEW status \in ConversationStatus \ {"resolved"}, FreeSegments(d) # {}
  PROVE  LET e == ActivateAIOwner(d, k, m, caseStatus, status)
         IN  /\ e \in Tables /\ WritesCase(d, e, k)
             /\ e.conv.status # "resolved" /\ e.queue = d.queue
<1> DEFINE f == ReplaceSegment(d, AIOwner(m))
           g == SetCurrentOwner(f, k, f.conv.segment, AIOwner(m), caseStatus)
           e == HandTo(g, status, None, AIOwner(m))
<1>1. AIOwner(m) \in Owner /\ None \in AgentOrNone
  BY OwnersTyped DEF AgentOrNone
<1>2. f \in Tables /\ SameCases(d, f) /\ f.conv.segment \in SegmentOrNone /\ f.queue = d.queue
  BY <1>1, ReplaceSegmentFrame DEF SegmentOrNone
<1> HIDE DEF f
<1>3. g \in Tables /\ WritesCase(f, g, k) /\ g.queue = f.queue
  BY <1>1, <1>2, SetCurrentOwnerFrame
<1> HIDE DEF g
<1>4. e \in Tables /\ SameCases(g, e) /\ e.conv.status = status /\ e.queue = g.queue
  BY <1>1, <1>3, HandToFrame
<1>5. ActivateAIOwner(d, k, m, caseStatus, status) = e
  BY DEF ActivateAIOwner, f, g
<1> HIDE DEF e
<1> QED  BY <1>2, <1>3, <1>4, <1>5 DEF WritesCase, SameCases

\* releaseToQueue writes the named case and leaves the queue row.
LEMMA ReleaseToQueueFrame ==
  ASSUME NEW d \in Tables, NEW k \in CaseOrNone, NEW agent \in AgentOrNone,
         FreeSegments(d) # {}
  PROVE  LET e == ReleaseToQueue(d, k, agent)
         IN  /\ e \in Tables /\ WritesCase(d, e, k)
             /\ e.conv.status # "resolved" /\ e.queue = d.queue
<1> DEFINE f == ReplaceSegment(d, SystemOwner)
           g == HandTo(f, "queued", agent, SystemOwner)
<1>1. f \in Tables /\ SameCases(d, f) /\ f.queue = d.queue
  BY OwnersTyped, ReplaceSegmentFrame
<1> HIDE DEF f
<1>2. g \in Tables /\ SameCases(f, g) /\ g.conv.status = "queued" /\ g.queue = f.queue
  BY <1>1, OwnersTyped, HandToFrame DEF ConversationStatus
<1> HIDE DEF g
<1>3. ReleaseToQueue(d, k, agent) = ClearCurrentOwnership(g, k)
  BY DEF ReleaseToQueue, f, g
<1> QED  BY <1>1, <1>2, <1>3, ClearCurrentOwnershipFrame DEF WritesCase, SameCases

\* resolveConversation closes the current case and leaves none active.
LEMMA ResolveConversationFrame ==
  ASSUME NEW d \in Tables, ActiveCases(d) = {d.conv.case} \ {None}
  PROVE  LET e == ResolveConversation(d)
         IN  /\ e \in Tables /\ CurrentCase(e) /\ EndsSession(d, e)
             /\ e.queue = d.queue /\ e.conv.status = "resolved"
<1> DEFINE k == d.conv.case
           closed == [status |-> "resolved", owner |-> SystemOwner, segment |-> None]
           over == [status |-> "resolved", agent |-> None, handler |-> SystemOwner,
                    segment |-> None, case |-> None]
           e == ResolveConversation(d)
<1>1. closed \in CaseRow /\ closed.status = "resolved"
  BY OwnersTyped, StatusesTyped DEF CaseRow, SegmentOrNone
<1>2. over \in ConversationRow /\ over.case = None /\ over.status = "resolved"
  BY OwnersTyped DEF ConversationRow, ConversationStatus, AgentOrNone, SegmentOrNone, CaseOrNone
<1>3. e = [CloseCase(d, k) EXCEPT !.conv = over]
  BY DEF ResolveConversation
<1>4. CASE k = None
  <2>1. CloseCase(d, k) = d
    BY <1>4 DEF CloseCase
  <2> HIDE DEF over, e
  <2>2. e = [conv |-> over, cases |-> d.cases, segs |-> d.segs, queue |-> d.queue]
    BY <1>3, <2>1 DEF Tables
  <2>3. ActiveCases(e) = {}
    BY <1>4, <2>2 DEF ActiveCases, IsActiveCase
  <2> QED  BY <1>2, <1>4, <2>2, <2>3, TablesAssumption DEF Tables, CurrentCase, EndsSession, HasCase, k, e
<1>5. CASE k # None
  <2>1. CloseCase(d, k) = [d EXCEPT !.cases[k] = closed]
    BY <1>5 DEF CloseCase
  <2>2. k \in CaseIds
    BY <1>5 DEF Tables, ConversationRow, CaseOrNone
  <2> HIDE DEF over, closed, e, k
  <2>3. e = [conv |-> over, cases |-> [d.cases EXCEPT ![k] = closed],
             segs |-> d.segs, queue |-> d.queue]
    BY <1>3, <2>1 DEF Tables
  <2>4. e.cases[k].status = "resolved" /\ \A l \in CaseIds : l # k => e.cases[l] = d.cases[l]
    BY <1>1, <2>2, <2>3 DEF Tables
  <2>5. \A l \in CaseIds : IsActiveCase(d, l) => l = k
    BY DEF ActiveCases, k
  <2>6. \A l \in CaseIds : ~IsActiveCase(e, l)
    BY <2>4, <2>5, StatusesTyped DEF IsActiveCase
  <2>7. ActiveCases(e) = {} /\ EndsSession(d, e)
    BY <1>2, <2>3, <2>4, <2>6 DEF ActiveCases, EndsSession, k
  <2>8. [d.cases EXCEPT ![k] = closed] \in [CaseIds -> CaseRow]
    BY <1>1, <2>2 DEF Tables
  <2> QED  BY <1>2, <2>3, <2>7, <2>8 DEF Tables, CurrentCase, e
<1> QED  BY <1>4, <1>5

-----------------------------------------------------------------------------
(* Plans *)

\* The decision always names one of the two sides.
LEMMA SideTyped ==
  ASSUME NEW mode, NEW sig, NEW reason, NEW available, NEW load
  PROVE  ResolveOwnerSide(mode, sig, reason, available, load) \in Sides
<1>1. \A side \in Sides : Prefer(side, available) \in Sides
  BY DEF Prefer, Other, Sides
<1>2. OverrideSide(reason) \in Sides \cup {None}
  BY DEF OverrideSide, Sides
<1>3. ResolveSmartOwnerSide(sig, available, load) \in Sides
  BY DEF ResolveSmartOwnerSide, Sides
<1>4. "human" \in Sides /\ "ai" \in Sides
  BY DEF Sides
<1> QED  BY <1>1, <1>2, <1>3, <1>4 DEF ResolveOwnerSide

\* Dispatch names an eligible agent or nobody.
LEMMA ChoicesTyped ==
  ASSUME NEW row, NEW eligible \in SUBSET Agents, NEW active \in SUBSET AIAgents, NEW excluded
  PROVE  /\ DecideForTarget(eligible, excluded) \subseteq AgentOrNone
         /\ SelectForTarget(row, active) \subseteq AIAgentOrNone
BY DEF DecideForTarget, SelectForTarget, Pick, AgentOrNone, AIAgentOrNone

\* A new plan is well formed and never preserves an owner.
LEMMA CreatePlanTyped ==
  ASSUME NEW mode, NEW sig, NEW row, NEW load, NEW eligible \in SUBSET Agents,
         NEW active \in SUBSET AIAgents, NEW excluded,
         NEW plan \in CreatePlan(mode, sig, row, load, eligible, active, excluded)
  PROVE  plan \in RoutingPlan /\ plan.action # "preserve_existing_owner"
<1> DEFINE reason == ResolveOverride(sig, row)
           request == ResolveServiceRequestMode(sig, row, reason)
           available == [human |-> eligible # {}, ai |-> active # {}]
           side == ResolveOwnerSide(mode, sig, reason, available, load)
<1>1. PICK h \in DecideForTarget(eligible, excluded), m \in SelectForTarget(row, active) :
        plan = InboundPlan(side, request, h, m)
  BY DEF CreatePlan
<1>2. side \in Sides  BY SideTyped
<1>3. request \in RequestMode
  BY DEF ResolveServiceRequestMode, RequestMode
<1>4. h \in AgentOrNone /\ m \in AIAgentOrNone
  BY ChoicesTyped
<1> HIDE DEF side, request
<1>5. InboundPlan(side, request, h, m).action \in Actions \ {"preserve_existing_owner"}
  BY <1>2 DEF InboundPlan, Actions, Sides
<1>6. InboundPlan(side, request, h, m) \in RoutingPlan
  BY <1>2, <1>3, <1>4, <1>5 DEF InboundPlan, RoutingPlan, AgentOrNone, AIAgentOrNone
<1> QED  BY <1>1, <1>5, <1>6

\* A plan of the agent handoff is well formed.
LEMMA HandoffPlanTyped ==
  ASSUME NEW row, NEW eligible \in SUBSET Agents, NEW active \in SUBSET AIAgents,
         NEW plan \in CreateAgentHandoffPlan(row, eligible, active)
  PROVE  plan \in RoutingPlan
<1>1. PICK h \in DecideForTarget(eligible, {}), m \in SelectForTarget(row, active) :
        plan = AgentHandoffPlan(h, m)
  BY DEF CreateAgentHandoffPlan
<1>2. h \in AgentOrNone /\ m \in AIAgentOrNone
  BY ChoicesTyped
<1>3. AgentHandoffPlan(h, m).action \in Actions
  BY DEF AgentHandoffPlan, Actions
<1>4. AgentHandoffPlan(h, m) \in RoutingPlan
  BY <1>2, <1>3 DEF AgentHandoffPlan, RoutingPlan, AgentOrNone, AIAgentOrNone, Sides, RequestMode
<1> QED  BY <1>1, <1>4

\* A plan that preserves the owner is well formed.
LEMMA PreservedPlanTyped ==
  ASSUME NEW a \in Agents, NEW row \in QueueRow
  PROVE  PreservedHumanPlan(a, row) \in RoutingPlan
<1>1. "preserve_existing_owner" \in Actions  BY DEF Actions
<1> QED
  BY <1>1 DEF PreservedHumanPlan, RoutingPlan, QueueRow, AgentOrNone, AIAgentOrNone, Sides

\* Writing the queue row changes nothing else.
LEMMA QueueFrame ==
  ASSUME NEW d \in Tables, NEW row \in QueueRow
  PROVE  LET e == [d EXCEPT !.queue = row]
         IN  /\ e \in Tables /\ SameCases(d, e) /\ e.conv = d.conv
             /\ e.segs = d.segs /\ e.queue = row
<1>1. [d EXCEPT !.queue = row] =
        [conv |-> d.conv, cases |-> d.cases, segs |-> d.segs, queue |-> row]
  BY DEF Tables
<1> QED  BY <1>1 DEF Tables, SameCases

\* Applying a plan writes the conversation's own case and keeps it active.
LEMMA ApplyInboundPlanFrame ==
  ASSUME NEW d \in Tables, NEW plan \in RoutingPlan,
         plan.action = "preserve_existing_owner" => plan.agent \in Agents
  PROVE  LET e == ApplyInboundPlan(d, plan)
         IN  /\ e \in Tables /\ WritesCase(d, e, d.conv.case)
             /\ e.conv.status # "resolved"
<1> DEFINE f == [d EXCEPT !.queue = QueueOf(plan)]
           k == d.conv.case
<1>1. QueueOf(plan) \in QueueRow
  <2>1. QueueOf(plan).status \in QueueStatus
    BY DEF QueueOf, QueueStatus
  <2> QED  BY <2>1 DEF QueueOf, QueueRow, RoutingPlan
<1>2. f \in Tables /\ SameCases(d, f) /\ f.conv = d.conv
  BY <1>1, QueueFrame
<1>3. k \in CaseOrNone /\ d.conv.segment \in SegmentOrNone
  BY DEF Tables, ConversationRow
<1>4. plan.agent \in AgentOrNone
  BY DEF RoutingPlan
<1> HIDE DEF f, k
<1>5. \A e : WritesCase(f, e, k) => WritesCase(d, e, k)
  BY <1>2 DEF WritesCase, SameCases
<1>6. CASE plan.action = "preserve_existing_owner"
  <2>1. ApplyInboundPlan(d, plan) = PreserveHumanOwner(f, k, d.conv.segment, plan.agent)
    BY <1>6 DEF ApplyInboundPlan, f, k
  <2> QED  BY <1>2, <1>3, <1>5, <1>6, <2>1, PreserveHumanOwnerFrame DEF k
<1>7. CASE plan.action \in {"assign_specific_owner", "enqueue_for_human"}
  <2>1. ApplyInboundPlan(d, plan) = AssignHumanQueue(f, k, plan.agent)
    BY <1>7 DEF ApplyInboundPlan, f, k
  <2> QED  BY <1>2, <1>3, <1>4, <1>5, <2>1, AssignHumanQueueFrame DEF k
<1>8. CASE plan.action \notin {"preserve_existing_owner", "assign_specific_owner",
                               "enqueue_for_human"}
  <2>1. ApplyInboundPlan(d, plan) = AssignAIPending(f, k)
    BY <1>8 DEF ApplyInboundPlan, f, k
  <2> QED  BY <1>2, <1>3, <1>5, <2>1, AssignAIPendingFrame DEF k
<1> QED  BY <1>6, <1>7, <1>8

-----------------------------------------------------------------------------
(* The argument about the current case *)

(***************************************************************************)
(* A transaction that keeps some case active, and that the unique index    *)
(* lets through, was about the current case; so the current case stays the *)
(* only active one and no closed case is opened again.                     *)
(***************************************************************************)
LEMMA OnlyCurrentCaseWritten ==
  ASSUME NEW d \in Tables, NEW e \in Tables, NEW k \in CaseOrNone,
         CurrentCase(d), HasCase(d), WritesCase(d, e, k), SingleActiveCase(e)
  PROVE  CurrentCase(e) /\ KeepsSession(d, e) /\ k \in {None, d.conv.case}
<1> DEFINE c == d.conv.case
<1>1. c \in CaseIds /\ IsActiveCase(d, c)
  BY DEF CurrentCase, HasCase, ActiveCases
<1> HIDE DEF c
<1>2. c # None  BY <1>1, TablesAssumption
<1>3. IsActiveCase(e, c)
  BY <1>1, <1>2 DEF WritesCase, IsActiveCase, c
<1>4. k # None => IsActiveCase(e, k)
  BY DEF WritesCase, IsActiveCase
<1>5. \A l \in CaseIds : IsActiveCase(e, l) => l = c
  BY <1>1, <1>3 DEF SingleActiveCase
<1>6. k \in {None, c}
  BY <1>4, <1>5 DEF CaseOrNone
<1>7. ActiveCases(e) = {c}
  BY <1>1, <1>3, <1>5 DEF ActiveCases
<1>8. e.conv.case = c
  BY DEF WritesCase, c
<1>9. CurrentCase(e)
  BY <1>2, <1>7, <1>8 DEF CurrentCase, HasCase
<1>10. d.cases[c].status # "resolved" /\ e.cases[c].status # "resolved"
  BY <1>1, <1>3, StatusesTyped DEF IsActiveCase
<1>11. \A l \in CaseIds : l # c => e.cases[l] = d.cases[l]
  BY <1>6, TablesAssumption DEF WritesCase
<1>12. \A l \in CaseIds : d.cases[l].status = "resolved" <=> e.cases[l].status = "resolved"
  BY <1>10, <1>11
<1>13. KeepsSession(d, e)
  BY <1>8, <1>12 DEF KeepsSession, c
<1> QED  BY <1>6, <1>9, <1>13 DEF c
-----------------------------------------------------------------------------
(* What createPlan decides *)

\* A plan and the choices it is made of.
LEMMA PlanMade ==
  ASSUME NEW mode, NEW sig, NEW row, NEW load, NEW eligible, NEW active, NEW excluded,
         NEW plan \in CreatePlan(mode, sig, row, load, eligible, active, excluded)
  PROVE  \E h \in DecideForTarget(eligible, excluded), m \in SelectForTarget(row, active) :
           LET reason    == ResolveOverride(sig, row)
               available == [human |-> eligible # {}, ai |-> active # {}]
           IN  plan = InboundPlan(ResolveOwnerSide(mode, sig, reason, available, load),
                                  ResolveServiceRequestMode(sig, row, reason), h, m)
BY DEF CreatePlan

\* What of the choices is in the plan.
LEMMA PlanFields ==
  ASSUME NEW side \in Sides, NEW request, NEW h, NEW m
  PROVE  LET plan == InboundPlan(side, request, h, m)
         IN  /\ plan.owner = side /\ plan.requestMode = request /\ plan.reserved = h
             /\ plan.agent = (IF side = "human" THEN h ELSE None)
             /\ plan.ai = (IF side = "ai" THEN m ELSE None)
             /\ plan.fallback <=> request = "human_requested"
             /\ plan.locked <=> request = "human_requested" /\ side = "human"
BY DEF InboundPlan

\* The other side takes over only when the preferred one has nobody and it has.
LEMMA PreferSides ==
  ASSUME NEW human \in BOOLEAN, NEW ai \in BOOLEAN
  PROVE  LET available == [human |-> human, ai |-> ai]
         IN  /\ Prefer("human", available) = (IF ~human /\ ai THEN "ai" ELSE "human")
             /\ Prefer("ai", available) = (IF human /\ ~ai THEN "human" ELSE "ai")
BY DEF Prefer, Other

(***************************************************************************)
(* A request for a human survives the customer's next messages: until they *)
(* write "#AI", or go to an AI agent because no human is eligible, every   *)
(* queue row that a plan writes carries the request and its lock, in every *)
(* mode of the tenant.  The AI gets the turn only if nobody else can have  *)
(* it, and the row then keeps the request but not the lock.                *)
(***************************************************************************)
THEOREM HumanRequestSurvives ==
  ASSUME NEW mode, NEW sig \in Signals, NEW row \in QueueRow, NEW load,
         NEW eligible, NEW active, NEW excluded,
         sig.wantsHuman \/ (row.requestMode = "human_requested" /\ row.locked /\ ~sig.optIn),
         NEW plan \in CreatePlan(mode, sig, row, load, eligible, active, excluded)
  PROVE  /\ QueueOf(plan).requestMode = "human_requested" /\ QueueOf(plan).fallback
         /\ plan.owner = "ai" <=> eligible = {} /\ active # {}
         /\ QueueOf(plan).locked <=> plan.owner = "human"
<1> DEFINE reason    == ResolveOverride(sig, row)
           request   == ResolveServiceRequestMode(sig, row, reason)
           available == [human |-> eligible # {}, ai |-> active # {}]
           side      == ResolveOwnerSide(mode, sig, reason, available, load)
<1>1. PICK h, m : plan = InboundPlan(side, request, h, m)
  BY PlanMade
<1>2. reason \in {"customer_requested_human", "human_handoff_queue_active"}
  BY DEF ResolveOverride, Signals, QueueRow
<1>3. request = "human_requested"
  <2>1. CASE sig.wantsHuman
    <3>1. reason = "customer_requested_human"
      BY <2>1 DEF ResolveOverride, Signals, QueueRow
    <3> QED  BY <3>1 DEF ResolveServiceRequestMode
  <2>2. CASE ~sig.wantsHuman
    <3>1. reason # "customer_requested_human"
      BY <2>2 DEF ResolveOverride, Signals, QueueRow
    <3> HIDE DEF reason
    <3> QED  BY <2>2, <3>1 DEF ResolveServiceRequestMode, Signals, QueueRow
  <2> QED  BY <2>1, <2>2
<1>4. side = Prefer("human", available)
  <2>1. OverrideSide(reason) = "human"
    <3> HIDE DEF reason
    <3> QED  BY <1>2 DEF OverrideSide
  <2> HIDE DEF reason, available
  <2> QED  BY <2>1, RoutingAssumption DEF ResolveOwnerSide
<1>5. side = (IF eligible = {} /\ active # {} THEN "ai" ELSE "human")
  BY <1>4, PreferSides
<1> HIDE DEF reason, request, available, side
<1>6. side \in Sides
  BY SideTyped DEF side
<1>7. /\ plan.owner = side /\ plan.requestMode = request
      /\ plan.fallback <=> request = "human_requested"
      /\ plan.locked <=> request = "human_requested" /\ side = "human"
  BY <1>1, <1>6, PlanFields
<1>8. /\ QueueOf(plan).requestMode = plan.requestMode /\ QueueOf(plan).fallback = plan.fallback
      /\ QueueOf(plan).locked = plan.locked
  BY DEF QueueOf
<1> QED  BY <1>3, <1>5, <1>7, <1>8

(***************************************************************************)
(* Once the AI had to step in for a requested human, the row has lost its  *)
(* lock, and the next message that says neither thing again is planned as  *)
(* if no human had ever been asked for: no field of the row remembers it.  *)
(***************************************************************************)
THEOREM UnlockedRequestIsForgotten ==
  ASSUME NEW mode, NEW sig \in Signals, NEW row \in QueueRow, NEW load,
         NEW eligible, NEW active, NEW excluded,
         ~row.locked, ~sig.wantsHuman, ~sig.optIn,
         NEW plan \in CreatePlan(mode, sig, row, load, eligible, active, excluded)
  PROVE  /\ QueueOf(plan).requestMode = "normal"
         /\ ~QueueOf(plan).fallback /\ ~QueueOf(plan).locked
<1> DEFINE reason    == ResolveOverride(sig, row)
           request   == ResolveServiceRequestMode(sig, row, reason)
           available == [human |-> eligible # {}, ai |-> active # {}]
           side      == ResolveOwnerSide(mode, sig, reason, available, load)
<1>1. PICK h, m : plan = InboundPlan(side, request, h, m)
  BY PlanMade
<1>2. reason = "none"
  BY DEF ResolveOverride
<1>3. request = "normal"
  <2> HIDE DEF reason
  <2> QED  BY <1>2 DEF ResolveServiceRequestMode
<1> HIDE DEF reason, request, available, side
<1>4. side \in Sides
  BY SideTyped DEF side
<1>5. /\ plan.requestMode = request /\ (plan.fallback <=> request = "human_requested")
      /\ plan.locked <=> request = "human_requested" /\ side = "human"
  BY <1>1, <1>4, PlanFields
<1> QED  BY <1>3, <1>5 DEF QueueOf

(***************************************************************************)
(* A plan names nobody who was not available, names somebody of the side it*)
(* chose if that side has anybody, and reserves an excluded agent only when*)
(* every eligible agent is excluded.                                       *)
(***************************************************************************)
THEOREM PlansNameTheAvailable ==
  ASSUME NEW mode, NEW sig, NEW row, NEW load, NEW eligible \in SUBSET Agents,
         NEW active \in SUBSET AIAgents, NEW excluded,
         NEW plan \in CreatePlan(mode, sig, row, load, eligible, active, excluded)
  PROVE  /\ plan.agent \in eligible \cup {None} /\ plan.reserved \in eligible \cup {None}
         /\ plan.ai \in active \cup {None}
         /\ plan.owner = "human" => plan.ai = None /\ (eligible # {} => plan.agent \in eligible)
         /\ plan.owner = "ai" => plan.agent = None /\ (active # {} => plan.ai \in active)
         /\ plan.reserved \in excluded \ {None} => eligible \subseteq excluded
<1> DEFINE reason    == ResolveOverride(sig, row)
           request   == ResolveServiceRequestMode(sig, row, reason)
           available == [human |-> eligible # {}, ai |-> active # {}]
           side      == ResolveOwnerSide(mode, sig, reason, available, load)
<1>1. PICK h \in DecideForTarget(eligible, excluded), m \in SelectForTarget(row, active) :
        plan = InboundPlan(side, request, h, m)
  BY PlanMade
<1> HIDE DEF reason, request, available, side
<1>0. side \in Sides
  BY SideTyped DEF side
<1>2. /\ h \in eligible \cup {None} /\ (eligible # {} => h \in eligible)
      /\ h \in excluded \ {None} => eligible \subseteq excluded
  BY DEF DecideForTarget, Pick
<1>3. m \in active \cup {None} /\ (active # {} => m \in active)
  BY DEF SelectForTarget, Pick
<1>4. /\ plan.owner = side /\ plan.reserved = h
      /\ plan.agent = (IF side = "human" THEN h ELSE None)
      /\ plan.ai = (IF side = "ai" THEN m ELSE None)
  BY <1>1, <1>0, PlanFields
<1> QED  BY <1>2, <1>3, <1>4, <1>0 DEF Sides

(***************************************************************************)
(* The AI side is chosen without an AI agent to name, which queues no job  *)
(* when a timer reassigns, only if no AI agent is active and either the    *)
(* tenant works in ai_only mode or no human is eligible.                   *)
(***************************************************************************)
THEOREM AISideWithoutAgent ==
  ASSUME NEW mode \in RoutingPlanMode, NEW sig \in Signals, NEW row \in QueueRow, NEW load,
         NEW eligible \in SUBSET Agents, NEW active \in SUBSET AIAgents, NEW excluded,
         NEW plan \in CreatePlan(mode, sig, row, load, eligible, active, excluded),
         plan.owner = "ai", plan.ai = None
  PROVE  active = {} /\ (mode = "ai_only" \/ eligible = {})
<1> DEFINE reason    == ResolveOverride(sig, row)
           request   == ResolveServiceRequestMode(sig, row, reason)
           available == [human |-> eligible # {}, ai |-> active # {}]
           side      == ResolveOwnerSide(mode, sig, reason, available, load)
<1>1. active = {}
  BY PlansNameTheAvailable, RoutingAssumption
<1>2. PICK h, m : plan = InboundPlan(side, request, h, m)
  BY PlanMade
<1>3. side = "ai"
  <2> HIDE DEF request, side
  <2>1. side \in Sides  BY SideTyped DEF side
  <2> QED  BY <1>2, <2>1, PlanFields
<1>4. ASSUME eligible # {} PROVE mode = "ai_only"
  <2>1. Prefer("human", available) = "human" /\ Prefer("ai", available) = "human"
    BY <1>1, <1>4, PreferSides
  <2>2. ~available["ai"] /\ available["human"]
    BY <1>1, <1>4
  <2>3. ResolveSmartOwnerSide(sig, available, load) = "human"
    BY <2>2 DEF ResolveSmartOwnerSide
  <2>4. OverrideSide(reason) \in {"human", "ai", None}
    <3> HIDE DEF reason
    <3> QED  BY DEF OverrideSide
  <2> HIDE DEF available, reason
  <2>5. CASE OverrideSide(reason) # None
    BY <1>3, <2>1, <2>4, <2>5 DEF ResolveOwnerSide
  <2>6. CASE OverrideSide(reason) = None
    BY <1>3, <2>1, <2>3, <2>6 DEF ResolveOwnerSide, RoutingPlanMode
  <2> QED  BY <2>5, <2>6
<1> QED  BY <1>1, <1>4

(***************************************************************************)
(* In a tenant that works with humans only, the AI gets a customer in two  *)
(* cases: they asked for a human while none was eligible and an AI agent   *)
(* was active, or they had asked for a human and opt back in with "#AI".   *)
(***************************************************************************)
THEOREM HumanOnlyMode ==
  ASSUME NEW sig \in Signals, NEW row \in QueueRow, NEW load,
         NEW eligible, NEW active, NEW excluded,
         NEW plan \in CreatePlan("human_only", sig, row, load, eligible, active, excluded),
         plan.owner = "ai"
  PROVE  \/ /\ eligible = {} /\ active # {}
            /\ sig.wantsHuman \/ row.requestMode = "human_requested"
         \/ sig.optIn /\ row.requestMode = "human_requested"
<1> DEFINE reason    == ResolveOverride(sig, row)
           request   == ResolveServiceRequestMode(sig, row, reason)
           available == [human |-> eligible # {}, ai |-> active # {}]
           side      == ResolveOwnerSide("human_only", sig, reason, available, load)
<1>1. PICK h, m : plan = InboundPlan(side, request, h, m)
  BY PlanMade
<1>2. side = "ai"
  <2> HIDE DEF request, side
  <2>1. side \in Sides  BY SideTyped DEF side
  <2> QED  BY <1>1, <2>1, PlanFields
<1>3. OverrideSide(reason) # None
  <2> HIDE DEF reason, available
  <2> QED  BY <1>2 DEF ResolveOwnerSide
<1>4. CASE reason = "customer_explicit_ai_opt_in"
  BY <1>4 DEF ResolveOverride
<1>5. CASE reason \in {"customer_requested_human", "human_handoff_queue_active"}
  <2>1. sig.wantsHuman \/ row.requestMode = "human_requested"
    BY <1>5 DEF ResolveOverride
  <2>2. side = Prefer("human", available)
    <3> HIDE DEF reason, available
    <3> QED  BY <1>3, <1>5 DEF ResolveOwnerSide, OverrideSide
  <2> QED  BY <1>2, <2>1, <2>2, PreferSides
<1>6. reason \in {"customer_explicit_ai_opt_in", "customer_requested_human",
                  "human_handoff_queue_active"}
  <2> HIDE DEF reason
  <2> QED  BY <1>3 DEF OverrideSide
<1> QED  BY <1>4, <1>5, <1>6
=============================================================================
