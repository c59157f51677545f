--------------------- MODULE ConversationSegmentsProofs ---------------------
(***************************************************************************)
(* Theorems about the rows that follow the case: the segments, the handler *)
(* on the conversation and the reservation on the queue row.               *)
(*                                                                         *)
(* Each transaction is followed from the rows it begins with to the rows it*)
(* commits.  What has to be known of the rows before it is that a closed   *)
(* conversation is at rest, with no case, segment, assignee or handler: the*)
(* intake, the reopen route and a late reply start from such rows, and the *)
(* segment they open is then the only one.                                 *)
(***************************************************************************)
EXTENDS ConversationOwnershipProofs

\* A conversation is closed exactly when it has no case, and has no owner then.
AtRest(d) ==
  /\ HasCase(d) <=> d.conv.status # "resolved"
  /\ ~HasCase(d) => /\ d.conv.agent = None /\ d.conv.handler = SystemOwner
                    /\ d.conv.segment = None

\* The conversation's segment, if it has one, is open and of its case.
SegmentFits(d) ==
  d.conv.segment # None =>
    d.segs[d.conv.segment].active /\ d.segs[d.conv.segment].case = d.conv.case

\* What OneLiveSegment, HandlerOwnsSegment, ReservationMirrored and
\* WaitingIsQueued say, of any rows.
OneLive(d) == \A s \in SegmentIds : d.segs[s].active => s = d.conv.segment

HandlerOwns(d) ==
  HasCase(d) /\ d.conv.handler.type # "system" => d.segs[d.conv.segment].owner = d.conv.handler

Mirrored(d) == d.conv.agent # None => d.queue.agent = d.conv.agent

Queued(d) ==
  HasCase(d) /\ d.conv.handler.type = "system" => d.queue.status \in {"assigned", "pending"}

\* The part that holds of the rows a plan is made from, too.
Segmented(d) ==
  /\ HasCase(d) => d.conv.segment # None
  /\ SegmentFits(d)
  /\ ~StaleQueue => OneLive(d)
  /\ ~AgentRemoval => HandlerOwns(d)

Settled(d) == AtRest(d) /\ Segmented(d) /\ Mirrored(d) /\ Queued(d)

SInv == IInv /\ Settled(db)

-----------------------------------------------------------------------------
(* Segments *)

\* e is d with the conversation moved to an open segment of the given owner.
MovedTo(d, e, owner) ==
  /\ e \in Tables /\ e.queue = d.queue /\ SameCases(d, e)
  /\ e.conv.status = d.conv.status /\ e.conv.agent = d.conv.agent
  /\ e.conv.handler = d.conv.handler
  /\ e.conv.segment \in SegmentIds
  /\ e.segs[e.conv.segment].active
  /\ e.segs[e.conv.segment].case = d.conv.case
  /\ e.segs[e.conv.segment].owner = owner
  /\ OneLive(d) => OneLive(e)

\* A new segment is open, and the only one if none was.
LEMMA StartSegmentMoves ==
  ASSUME NEW d \in Tables, NEW owner \in Owner, FreeSegments(d) # {},
         OneLive(d) => \A s \in SegmentIds : ~d.segs[s].active
  PROVE  MovedTo(d, StartSegment(d, owner), owner)
<1> DEFINE s == CHOOSE x \in FreeSegments(d) : TRUE
           row == [active |-> TRUE, owner |-> owner, case |-> d.conv.case]
           e == StartSegment(d, owner)
<1>1. s \in SegmentIds  BY FreeSegmentTyped
<1>2. row.active = TRUE /\ row.owner = owner /\ row.case = d.conv.case  OBVIOUS
<1>3. e \in Tables /\ e.queue = d.queue /\ SameCases(d, e)
  BY StartSegmentFrame
<1>4. e = [d EXCEPT !.segs[s] = row, !.conv.segment = s]
  BY DEF StartSegment
<1> HIDE DEF s, row, e
<1>5. e.conv = [d.conv EXCEPT !.segment = s] /\ e.segs = [d.segs EXCEPT ![s] = row]
  BY <1>4 DEF Tables
<1>6. /\ e.conv.status = d.conv.status /\ e.conv.agent = d.conv.agent
      /\ e.conv.handler = d.conv.handler /\ e.conv.segment = s
  BY <1>5 DEF Tables, ConversationRow
<1>7. e.segs[s] = row /\ \A x \in SegmentIds : x # s => e.segs[x] = d.segs[x]
  BY <1>1, <1>5 DEF Tables
<1>8. OneLive(d) => OneLive(e)
  BY <1>6, <1>7 DEF OneLive
<1> QED  BY <1>1, <1>2, <1>3, <1>6, <1>7, <1>8 DEF MovedTo, e

\* Ending the current segment leaves none open, if it was the only one.
LEMMA EndSegmentEnds ==
  ASSUME NEW d \in Tables
  PROVE  OneLive(d) => \A s \in SegmentIds : ~EndSegment(d).segs[s].active
<1> SUFFICES ASSUME OneLive(d) PROVE \A s \in SegmentIds : ~EndSegment(d).segs[s].active
  OBVIOUS
<1>1. CASE d.conv.segment = None
  BY <1>1, TablesAssumption DEF EndSegment, OneLive
<1>2. CASE d.conv.segment # None
  <2>1. EndSegment(d).segs = [d.segs EXCEPT ![d.conv.segment] = EndedSegment]
    BY <1>2 DEF EndSegment, Tables
  <2>2. EndedSegment.active = FALSE  BY DEF EndedSegment
  <2> QED  BY <2>1, <2>2 DEF OneLive, Tables
<1> QED  BY <1>1, <1>2

\* Switching segments: the old one ends unless its owner is the new owner.
LEMMA ReplaceSegmentMoves ==
  ASSUME NEW d \in Tables, NEW owner \in Owner, FreeSegments(d) # {}, SegmentFits(d)
  PROVE  MovedTo(d, ReplaceSegment(d, owner), owner)
<1>1. CASE d.conv.segment # None /\ d.segs[d.conv.segment].owner = owner
  <2>1. ReplaceSegment(d, owner) = d
    BY <1>1 DEF ReplaceSegment
  <2>2. d.conv.segment \in SegmentIds
    BY <1>1 DEF Tables, ConversationRow, SegmentOrNone
  <2> QED  BY <1>1, <2>1, <2>2 DEF MovedTo, SegmentFits, SameCases
<1>2. CASE ~(d.conv.segment # None /\ d.segs[d.conv.segment].owner = owner)
  <2> DEFINE f == EndSegment(d)
  <2>1. ReplaceSegment(d, owner) = StartSegment(f, owner)
    BY <1>2 DEF ReplaceSegment
  <2>2. f \in Tables /\ SameCases(d, f) /\ f.conv = d.conv /\ f.queue = d.queue /\ FreeSegments(f) # {}
    BY EndSegmentFrame
  <2>3. OneLive(d) => \A s \in SegmentIds : ~f.segs[s].active
    BY EndSegmentEnds
  <2> HIDE DEF f
  <2> DEFINE e == StartSegment(f, owner)
  <2>4. CASE OneLive(d)
    <3>1. MovedTo(f, e, owner) /\ OneLive(f)
      BY <2>2, <2>3, <2>4, StartSegmentMoves DEF OneLive
    <3> QED  BY <2>1, <2>2, <3>1 DEF MovedTo, SameCases
  <2>5. CASE ~OneLive(d)
    <3>1. OneLive(f) => \A s \in SegmentIds : ~f.segs[s].active
      <4>1. CASE d.conv.segment = None
        <5>1. f = d  BY <4>1 DEF f, EndSegment
        <5> QED  BY <2>5, <5>1
      <4>2. CASE d.conv.segment # None
        <5>1. f.segs[d.conv.segment] = EndedSegment
          BY <4>2 DEF f, EndSegment, Tables, ConversationRow, SegmentOrNone
        <5> QED  BY <2>2, <5>1 DEF OneLive, EndedSegment
      <4> QED  BY <4>1, <4>2
    <3>2. MovedTo(f, e, owner)
      BY <2>2, <3>1, StartSegmentMoves
    <3> QED  BY <2>1, <2>2, <2>5, <3>2 DEF MovedTo, SameCases
  <2> QED  BY <2>4, <2>5
<1> QED  BY <1>1, <1>2
-----------------------------------------------------------------------------
(* The transitions of OwnershipService *)

\* Handing over sets the three fields of the conversation row.
LEMMA HandToSets ==
  ASSUME NEW d \in Tables, NEW status, NEW agent, NEW handler
  PROVE  LET e == HandTo(d, status, agent, handler)
         IN  /\ e.conv.status = status /\ e.conv.agent = agent /\ e.conv.handler = handler
             /\ e.conv.segment = d.conv.segment /\ e.conv.case = d.conv.case
             /\ e.segs = d.segs /\ e.queue = d.queue
BY DEF HandTo, Tables, ConversationRow

\* A human who is made the owner owns the segment the conversation moves to.
LEMMA ActivateHumanOwnerMoves ==
  ASSUME NEW d \in Tables, NEW k \in CaseOrNone, NEW a \in Agents,
         NEW caseStatus \in ActiveCaseStatuses, FreeSegments(d) # {}, SegmentFits(d)
  PROVE  LET e == ActivateHumanOwner(d, k, a, caseStatus)
         IN  /\ e.conv.status = "human_active" /\ e.conv.agent = a
             /\ e.conv.handler = HumanOwner(a) /\ e.conv.case = d.conv.case
             /\ e.conv.segment \in SegmentIds /\ SegmentFits(e)
             /\ e.segs[e.conv.segment].owner = HumanOwner(a)
             /\ OneLive(d) => OneLive(e)
             /\ e.queue = d.queue
<1> DEFINE f == HandTo(d, "human_active", a, HumanOwner(a))
           g == ReplaceSegment(f, HumanOwner(a))
           e == SetCurrentOwner(g, k, g.conv.segment, HumanOwner(a), caseStatus)
<1>1. "human_active" \in ConversationStatus /\ a \in AgentOrNone /\ HumanOwner(a) \in Owner
  BY OwnersTyped DEF ConversationStatus, AgentOrNone
<1>2. f \in Tables /\ SameCases(d, f)
  BY <1>1, HandToFrame
<1>3. /\ f.conv.status = "human_active" /\ f.conv.agent = a /\ f.conv.handler = HumanOwner(a)
      /\ f.conv.segment = d.conv.segment /\ f.conv.case = d.conv.case
      /\ f.segs = d.segs /\ f.queue = d.queue
  BY HandToSets
<1> HIDE DEF f
<1>4. FreeSegments(f) # {}
  BY <1>2, <1>3, FreeSegmentsKept
<1>5. SegmentFits(f) /\ (OneLive(d) => OneLive(f))
  BY <1>3 DEF SegmentFits, OneLive
<1>6. MovedTo(f, g, HumanOwner(a))
  BY <1>1, <1>2, <1>4, <1>5, ReplaceSegmentMoves
<1> HIDE DEF g
<1>7. g.conv.segment \in SegmentOrNone
  BY <1>6 DEF MovedTo, SegmentOrNone
<1>8. e.conv = g.conv /\ e.segs = g.segs /\ e.queue = g.queue
  BY <1>1, <1>6, <1>7, SetCurrentOwnerFrame DEF MovedTo
<1>9. ActivateHumanOwner(d, k, a, caseStatus) = e
  BY DEF ActivateHumanOwner, f, g
<1> HIDE DEF e
<1> QED  BY <1>3, <1>5, <1>6, <1>8, <1>9 DEF MovedTo, SegmentFits, OneLive, SameCases

\* An AI agent that is made the owner owns the segment the conversation moves to.
LEMMA ActivateAIOwnerMoves ==
  ASSUME NEW d \in Tables, NEW k \in CaseOrNone, NEW m \in AIAgentOrNone,
         NEW caseStatus \in ActiveCaseStatuses,
         NEW status \in ConversationStatus, FreeSegments(d) # {}, SegmentFits(d)
  PROVE  LET e == ActivateAIOwner(d, k, m, caseStatus, status)
         IN  /\ e.conv.status = status /\ e.conv.agent = None
             /\ e.conv.handler = AIOwner(m) /\ e.conv.case = d.conv.case
             /\ e.conv.segment \in SegmentIds /\ SegmentFits(e)
             /\ e.segs[e.conv.segment].owner = AIOwner(m)
             /\ OneLive(d) => OneLive(e)
<1> DEFINE f == ReplaceSegment(d, AIOwner(m))
           g == SetCurrentOwner(f, k, f.conv.segment, AIOwner(m), caseStatus)
           e == HandTo(g, status, None, AIOwner(m))
<1>1. AIOwner(m) \in Owner
  BY OwnersTyped
<1>2. MovedTo(d, f, AIOwner(m))
  BY <1>1, ReplaceSegmentMoves
<1> HIDE DEF f
<1>3. f.conv.segment \in SegmentOrNone
  BY <1>2 DEF MovedTo, SegmentOrNone
<1>4. g \in Tables /\ g.conv = f.conv /\ g.segs = f.segs
  BY <1>1, <1>2, <1>3, SetCurrentOwnerFrame DEF MovedTo
<1> HIDE DEF g
<1>5. /\ e.conv.status = status /\ e.conv.agent = None /\ e.conv.handler = AIOwner(m)
      /\ e.conv.segment = g.conv.segment /\ e.conv.case = g.conv.case /\ e.segs = g.segs
  BY <1>4, HandToSets
<1>6. ActivateAIOwner(d, k, m, caseStatus, status) = e
  BY DEF ActivateAIOwner, f, g
<1> HIDE DEF e
<1> QED  BY <1>2, <1>4, <1>5, <1>6 DEF MovedTo, SegmentFits, OneLive, SameCases

\* A release moves the conversation to a segment of the system.
LEMMA ReleaseToQueueMoves ==
  ASSUME NEW d \in Tables, NEW k \in CaseOrNone, NEW agent \in AgentOrNone,
         FreeSegments(d) # {}, SegmentFits(d)
  PROVE  LET e == ReleaseToQueue(d, k, agent)
         IN  /\ e.conv.status = "queued" /\ e.conv.agent = agent
             /\ e.conv.handler = SystemOwner /\ e.conv.case = d.conv.case
             /\ e.conv.segment \in SegmentIds /\ SegmentFits(e)
             /\ OneLive(d) => OneLive(e)
<1> DEFINE f == ReplaceSegment(d, SystemOwner)
           g == HandTo(f, "queued", agent, SystemOwner)
<1>1. MovedTo(d, f, SystemOwner)
  BY OwnersTyped, ReplaceSegmentMoves
<1> HIDE DEF f
<1>2. g \in Tables
  BY <1>1, OwnersTyped, HandToFrame DEF MovedTo, ConversationStatus
<1>3. /\ g.conv.status = "queued" /\ g.conv.agent = agent /\ g.conv.handler = SystemOwner
      /\ g.conv.segment = f.conv.segment /\ g.conv.case = f.conv.case /\ g.segs = f.segs
  BY <1>1, HandToSets DEF MovedTo
<1> HIDE DEF g
<1>4. ReleaseToQueue(d, k, agent) = ClearCurrentOwnership(g, k)
  BY DEF ReleaseToQueue, f, g
<1>5. LET e == ClearCurrentOwnership(g, k) IN e.conv = g.conv /\ e.segs = g.segs
  BY <1>2, ClearCurrentOwnershipFrame
<1> QED  BY <1>1, <1>3, <1>4, <1>5 DEF MovedTo, SegmentFits, OneLive, SameCases

\* Closing the segment and resolving leave no segment open and no owner.
LEMMA CloseRests ==
  ASSUME NEW d \in Tables, ActiveCases(d) = {d.conv.case} \ {None},
         NEW f \in Tables, f = CloseCurrentSegment(d) \/ (f = d /\ d.conv.segment = None),
         NEW e, e.conv = ResolveConversation(f).conv, e.segs = ResolveConversation(f).segs
  PROVE  AtRest(e) /\ (OneLive(d) => OneLive(e))
<1> DEFINE g == ResolveConversation(f)
<1>1. g.conv = [status |-> "resolved", agent |-> None, handler |-> SystemOwner,
                segment |-> None, case |-> None]
  BY DEF ResolveConversation, CloseCase, Tables
<1>2. g.segs = f.segs
  BY DEF ResolveConversation, CloseCase, Tables
<1>3. f.segs = EndSegment(d).segs
  BY DEF CloseCurrentSegment, EndSegment, Tables
<1> HIDE DEF g
<1>4. OneLive(d) => OneLive(e)
  BY <1>2, <1>3, EndSegmentEnds DEF OneLive, g
<1>5. AtRest(e)
  BY <1>1 DEF AtRest, HasCase, g
<1> QED  BY <1>4, <1>5
-----------------------------------------------------------------------------
(* What a transaction commits *)

\* Rows after a human was activated and reserved.
LEMMA HumanSettles ==
  ASSUME NEW d \in Tables, HasCase(d), FreeSegments(d) # {}, SegmentFits(d),
         ~StaleQueue => OneLive(d),
         NEW k \in CaseOrNone, NEW a \in Agents, NEW caseStatus \in ActiveCaseStatuses,
         NEW e, e.conv = ActivateHumanOwner(d, k, a, caseStatus).conv,
         e.segs = ActivateHumanOwner(d, k, a, caseStatus).segs, e.queue.agent = a
  PROVE  Settled(e)
<1> DEFINE f == ActivateHumanOwner(d, k, a, caseStatus)
<1>1. /\ f.conv.status = "human_active" /\ f.conv.agent = a
      /\ f.conv.handler = HumanOwner(a) /\ f.conv.case = d.conv.case
      /\ f.conv.segment \in SegmentIds /\ SegmentFits(f)
      /\ f.segs[f.conv.segment].owner = HumanOwner(a)
      /\ OneLive(d) => OneLive(f)
  BY ActivateHumanOwnerMoves
<1> HIDE DEF f
<1>2. e.conv = f.conv /\ e.segs = f.segs
  BY DEF f
<1>3. AtRest(e)
  BY <1>1, <1>2 DEF AtRest, HasCase
<1>4. Segmented(e)
  BY <1>1, <1>2, TablesAssumption DEF Segmented, SegmentFits, OneLive, HandlerOwns
<1>5. Mirrored(e) /\ Queued(e)
  BY <1>1, <1>2 DEF Mirrored, Queued, HumanOwner
<1> QED  BY <1>3, <1>4, <1>5 DEF Settled

\* Rows after an AI agent was activated.
LEMMA AISettles ==
  ASSUME NEW d \in Tables, HasCase(d), FreeSegments(d) # {}, SegmentFits(d),
         ~StaleQueue => OneLive(d),
         NEW k \in CaseOrNone, NEW m \in AIAgentOrNone, NEW caseStatus \in ActiveCaseStatuses,
         NEW status \in ConversationStatus \ {"resolved"},
         NEW e, e.conv = ActivateAIOwner(d, k, m, caseStatus, status).conv,
         e.segs = ActivateAIOwner(d, k, m, caseStatus, status).segs
  PROVE  Settled(e)
<1> DEFINE f == ActivateAIOwner(d, k, m, caseStatus, status)
<1>1. /\ f.conv.status = status /\ f.conv.agent = None
      /\ f.conv.handler = AIOwner(m) /\ f.conv.case = d.conv.case
      /\ f.conv.segment \in SegmentIds /\ SegmentFits(f)
      /\ f.segs[f.conv.segment].owner = AIOwner(m)
      /\ OneLive(d) => OneLive(f)
  BY ActivateAIOwnerMoves
<1> HIDE DEF f
<1>2. e.conv = f.conv /\ e.segs = f.segs
  BY DEF f
<1>3. AtRest(e)
  BY <1>1, <1>2 DEF AtRest, HasCase
<1>4. Segmented(e)
  BY <1>1, <1>2, TablesAssumption DEF Segmented, SegmentFits, OneLive, HandlerOwns
<1>5. Mirrored(e) /\ Queued(e)
  BY <1>1, <1>2 DEF Mirrored, Queued, AIOwner
<1> QED  BY <1>3, <1>4, <1>5 DEF Settled

\* Rows after a release to the queue.
LEMMA ReleaseSettles ==
  ASSUME NEW d \in Tables, HasCase(d), FreeSegments(d) # {}, SegmentFits(d),
         ~StaleQueue => OneLive(d),
         NEW k \in CaseOrNone, NEW agent \in AgentOrNone,
         NEW e, e.conv = ReleaseToQueue(d, k, agent).conv,
         e.segs = ReleaseToQueue(d, k, agent).segs, e.queue.agent = agent,
         e.queue.status \in {"assigned", "pending"}
  PROVE  Settled(e)
<1> DEFINE f == ReleaseToQueue(d, k, agent)
<1>1. /\ f.conv.status = "queued" /\ f.conv.agent = agent
      /\ f.conv.handler = SystemOwner /\ f.conv.case = d.conv.case
      /\ f.conv.segment \in SegmentIds /\ SegmentFits(f)
      /\ OneLive(d) => OneLive(f)
  BY ReleaseToQueueMoves
<1> HIDE DEF f
<1>2. e.conv = f.conv /\ e.segs = f.segs
  BY DEF f
<1>3. AtRest(e)
  BY <1>1, <1>2 DEF AtRest, HasCase
<1>4. Segmented(e)
  BY <1>1, <1>2, TablesAssumption DEF Segmented, SegmentFits, OneLive, HandlerOwns, SystemOwner
<1>5. Mirrored(e) /\ Queued(e)
  BY <1>1, <1>2 DEF Mirrored, Queued
<1> QED  BY <1>3, <1>4, <1>5 DEF Settled

\* Rows after a close.
LEMMA CloseSettles ==
  ASSUME NEW d \in Tables, ActiveCases(d) = {d.conv.case} \ {None}, AtRest(d),
         ~StaleQueue => OneLive(d),
         NEW f \in Tables, f = IF HasCase(d) THEN CloseCurrentSegment(d) ELSE d,
         NEW e, e.conv = ResolveConversation(f).conv, e.segs = ResolveConversation(f).segs
  PROVE  Settled(e)
<1>1. AtRest(e) /\ (OneLive(d) => OneLive(e))
  BY CloseRests DEF AtRest
<1>2. e.conv.case = None /\ e.conv.segment = None /\ e.conv.agent = None
  BY DEF ResolveConversation, CloseCase, Tables
<1> QED  BY <1>1, <1>2 DEF Settled, Segmented, SegmentFits, HandlerOwns, Mirrored, Queued, HasCase

\* Rows after a plan was applied: it writes no segment, and a plan that preserves
\* the human owner finds it on the conversation already.
LEMMA PlanSettles ==
  ASSUME NEW d \in Tables, HasCase(d), Segmented(d), NEW plan \in RoutingPlan,
         plan.action = "preserve_existing_owner" =>
           plan.agent \in Agents /\ CanPreserve(d, plan.agent),
         plan.action = "assign_ai_owner" => plan.agent = None
  PROVE  Settled(ApplyInboundPlan(d, plan))
<1> DEFINE f == [d EXCEPT !.queue = QueueOf(plan)]
           e == ApplyInboundPlan(d, plan)
           k == d.conv.case
<1>1. /\ f.conv = d.conv /\ f.segs = d.segs /\ f.queue.agent = plan.agent
      /\ f.queue.status \in {"assigned", "pending"}
  BY DEF QueueOf, Tables
<1>2. f \in Tables
  <2>1. QueueOf(plan) \in QueueRow
    BY DEF QueueOf, QueueRow, RoutingPlan, QueueStatus
  <2> QED  BY <2>1, QueueFrame
<1>3. k \in CaseOrNone /\ d.conv.segment \in SegmentOrNone /\ plan.agent \in AgentOrNone
  BY DEF Tables, ConversationRow, RoutingPlan
<1> HIDE DEF f, k
<1>4. CASE plan.action = "preserve_existing_owner"
  <2> DEFINE g == HandTo(f, "human_active", plan.agent, HumanOwner(plan.agent))
  <2>1. e = SetCurrentOwner(g, k, d.conv.segment, HumanOwner(plan.agent), "in_progress")
    BY <1>4 DEF ApplyInboundPlan, PreserveHumanOwner, f, k
  <2>2. "human_active" \in ConversationStatus /\ HumanOwner(plan.agent) \in Owner
        /\ "in_progress" \in ActiveCaseStatuses
    BY <1>4, OwnersTyped, StatusesTyped DEF ConversationStatus
  <2>3. g \in Tables
    BY <1>2, <1>3, <2>2, HandToFrame
  <2>4. /\ g.conv.status = "human_active" /\ g.conv.agent = plan.agent
        /\ g.conv.handler = HumanOwner(plan.agent) /\ g.conv.segment = d.conv.segment
        /\ g.conv.case = d.conv.case /\ g.segs = d.segs /\ g.queue = f.queue
    BY <1>1, <1>2, HandToSets
  <2> HIDE DEF g, e
  <2>5. e.conv = g.conv /\ e.segs = g.segs /\ e.queue = g.queue
    BY <1>3, <2>1, <2>2, <2>3, SetCurrentOwnerFrame
  <2>6. d.conv.handler = HumanOwner(plan.agent)
    BY <1>4 DEF CanPreserve
  <2>7. Segmented(e)
    BY <2>4, <2>5, <2>6 DEF Segmented, SegmentFits, OneLive, HandlerOwns, HasCase
  <2> QED
    BY <1>1, <2>4, <2>5, <2>7 DEF Settled, AtRest, Mirrored, Queued, HasCase, HumanOwner, e
<1>5. CASE plan.action # "preserve_existing_owner"
  <2> DEFINE g(status, agent) == HandTo(f, status, agent, SystemOwner)
  <2>1. PICK status \in {"queued", "open"} :
          e = ClearCurrentOwnership(g(status, plan.agent), k)
    <3>1. CASE plan.action \in {"assign_specific_owner", "enqueue_for_human"}
      BY <1>5, <3>1 DEF ApplyInboundPlan, AssignHumanQueue, f, k
    <3>2. CASE plan.action = "assign_ai_owner"
      BY <1>5, <3>2 DEF ApplyInboundPlan, AssignAIPending, f, k
    <3> QED  BY <1>5, <3>1, <3>2 DEF RoutingPlan, Actions
  <2> DEFINE h == g(status, plan.agent)
  <2>2. h \in Tables
    BY <1>2, <1>3, OwnersTyped, HandToFrame DEF ConversationStatus
  <2>3. /\ h.conv.status = status /\ h.conv.agent = plan.agent /\ h.conv.handler = SystemOwner
        /\ h.conv.segment = d.conv.segment /\ h.conv.case = d.conv.case
        /\ h.segs = d.segs /\ h.queue = f.queue
    BY <1>1, <1>2, HandToSets
  <2> HIDE DEF g, e
  <2>4. e = ClearCurrentOwnership(h, k)
    BY <2>1
  <2> HIDE DEF h
  <2>5. e.conv = h.conv /\ e.segs = h.segs /\ e.queue = h.queue
    BY <1>3, <2>2, <2>4, ClearCurrentOwnershipFrame
  <2>6. Segmented(e)
    BY <2>3, <2>5 DEF Segmented, SegmentFits, OneLive, HandlerOwns, HasCase, SystemOwner
  <2> QED
    BY <1>1, <2>3, <2>5, <2>6 DEF Settled, AtRest, Mirrored, Queued, HasCase, e
<1> QED  BY <1>4, <1>5
-----------------------------------------------------------------------------
(* Where transactions begin *)

\* Finding the active case leaves the owner alone, and every row if there is one.
LEMMA GetOrCreateKeepsOwner ==
  ASSUME NEW d \in Tables, ActiveCases(d) = {d.conv.case} \ {None}
  PROVE  LET e == GetOrCreateActiveCase(d)
         IN  /\ e.conv.agent = d.conv.agent /\ e.conv.handler = d.conv.handler
             /\ HasCase(d) => e = d
<1>1. CASE HasCase(d)
  <2>1. IsActiveCase(d, d.conv.case)
    BY <1>1 DEF ActiveCases, HasCase
  <2> QED  BY <2>1 DEF GetOrCreateActiveCase
<1>2. CASE ~HasCase(d)
  <2>1. ~IsActiveCase(d, d.conv.case) /\ ActiveCases(d) = {}
    BY <1>2 DEF IsActiveCase, HasCase
  <2> DEFINE k == CHOOSE x \in FreeCases(d) : TRUE
             row == [status |-> "open", owner |-> DerivedOwner(d.conv), segment |-> d.conv.segment]
  <2>2. GetOrCreateActiveCase(d) = [d EXCEPT !.cases[k] = row, !.conv.case = k]
    BY <2>1 DEF GetOrCreateActiveCase
  <2> HIDE DEF k, row
  <2> QED  BY <1>2, <2>2 DEF Tables, ConversationRow
<1> QED  BY <1>1, <1>2

\* Rows that differ from those of the database in nothing a case or a segment is
\* about are ready for a new owner once their case is found.
LEMMA FoundRows ==
  ASSUME IInv, Settled(db), HasRoom, NEW f \in Tables, SameCases(db, f),
         f.segs = db.segs, f.conv.segment = db.conv.segment
  PROVE  LET d == GetOrCreateActiveCase(f)
         IN  /\ d \in Tables /\ HasCase(d) /\ FreeSegments(d) # {} /\ SegmentFits(d)
             /\ ~StaleQueue => OneLive(d)
             /\ d.conv.segment = f.conv.segment /\ d.segs = f.segs /\ d.queue = f.queue
             /\ d.conv.status = f.conv.status /\ d.conv.handler = f.conv.handler
<1> DEFINE d == GetOrCreateActiveCase(f)
<1>1. FreeSegments(f) # {} /\ (HasCase(f) \/ FreeCases(f) # {})
  BY FreeSegmentsKept DEF HasRoom, HasCase, FreeCases, SameCases
<1>2. ActiveCases(f) = {f.conv.case} \ {None}
  BY InvRows DEF SameCases, ActiveCases, IsActiveCase
<1>3. /\ d \in Tables /\ HasCase(d) /\ d.conv.status = f.conv.status
      /\ d.conv.segment = f.conv.segment /\ d.segs = f.segs /\ d.queue = f.queue
      /\ FreeSegments(d) # {}
  BY <1>1, <1>2, GetOrCreateActiveCaseFrame
<1>4. d.conv.handler = f.conv.handler /\ (HasCase(f) => d = f)
  BY <1>2, GetOrCreateKeepsOwner
<1> HIDE DEF d
<1>5. OneLive(db) => OneLive(d)
  BY <1>3 DEF OneLive
<1>6. SegmentFits(d)
  <2>1. CASE HasCase(f)
    BY <1>4, <2>1 DEF Settled, Segmented, SegmentFits, SameCases
  <2>2. CASE ~HasCase(f)
    <3>1. d.conv.segment = None
      BY <1>3, <2>2 DEF Settled, AtRest, HasCase, SameCases
    <3> QED  BY <3>1 DEF SegmentFits
  <2> QED  BY <2>1, <2>2
<1> QED  BY <1>3, <1>4, <1>5, <1>6 DEF d, Settled, Segmented

\* The intake of a message leaves a conversation with one open segment: the rows
\* it found, or a reopened thread with a segment of the system.
LEMMA IntakeSettles ==
  ASSUME IInv, Settled(db), HasRoom, NEW stale \in BOOLEAN, stale => StaleQueue
  PROVE  Segmented(Intake(stale))
<1> DEFINE r == GetOrCreateActiveConversation(db, stale)
           d == GetOrCreateActiveCase(r)
           e == BackfillSegment(d)
<1>1. Intake(stale) = e
  BY DEF Intake
<1>2. CASE ~(db.conv.status = "resolved" \/ stale)
  <2>1. r = db
    BY <1>2 DEF GetOrCreateActiveConversation
  <2>2. HasCase(db)
    BY <1>2 DEF Settled, AtRest
  <2>3. d = db
    BY <2>1, <2>2, InvRows, GetOrCreateKeepsOwner
  <2>4. e = db
    BY <2>2, <2>3 DEF BackfillSegment, Settled, Segmented
  <2> QED  BY <1>1, <2>4 DEF Settled
<1>3. CASE db.conv.status = "resolved" \/ stale
  <2>1. r = ReopenThread(db)
    BY <1>3 DEF GetOrCreateActiveConversation
  <2>2. r \in Tables /\ SameCases(db, r) /\ FreeSegments(db) \subseteq FreeSegments(r)
    BY <2>1, InvRows, ReopenThreadFrame
  <2>3. /\ r.conv.status = "open" /\ r.conv.handler = SystemOwner /\ r.conv.segment = None
        /\ r.segs = db.segs
    <3>1. db \in Tables /\ db.conv \in ConversationRow
      BY InvRows DEF Tables
    <3>2. PICK c, q : /\ r = [db EXCEPT !.conv = c, !.queue = q]
                      /\ c = [db.conv EXCEPT !.status = "open", !.agent = None,
                                             !.handler = SystemOwner, !.segment = None]
      BY <2>1 DEF ReopenThread
    <3>3. c.status = "open" /\ c.handler = SystemOwner /\ c.segment = None
      BY <3>1, <3>2 DEF ConversationRow
    <3> HIDE DEF r
    <3> QED  BY <3>1, <3>2, <3>3 DEF Tables
  <2> HIDE DEF r
  <2>4. FreeSegments(r) # {} /\ (HasCase(r) \/ FreeCases(r) # {})
    BY <2>2 DEF HasRoom, HasCase, FreeCases, SameCases
  <2>5. ActiveCases(r) = {r.conv.case} \ {None}
    BY <2>2, InvRows DEF SameCases, ActiveCases, IsActiveCase
  <2>6. /\ d \in Tables /\ HasCase(d) /\ d.conv.status = r.conv.status
        /\ d.conv.segment = r.conv.segment /\ d.segs = r.segs /\ FreeSegments(d) # {}
    BY <2>2, <2>4, <2>5, GetOrCreateActiveCaseFrame
  <2>7. d.conv.handler = SystemOwner
    BY <2>2, <2>3, <2>5, GetOrCreateKeepsOwner
  <2> HIDE DEF d
  <2>8. e = StartSegment(d, SystemOwner)
    BY <2>3, <2>6, <2>7 DEF BackfillSegment, EnsureSystemSegment, SystemOwner
  <2>9. OneLive(d) => \A s \in SegmentIds : ~d.segs[s].active
    BY <2>3, <2>6, TablesAssumption DEF OneLive
  <2>10. MovedTo(d, e, SystemOwner)
    BY <2>6, <2>8, <2>9, OwnersTyped, StartSegmentMoves
  <2> HIDE DEF e
  <2>11. HasCase(e) /\ SegmentFits(e) /\ e.conv.segment # None
    BY <2>6, <2>10, TablesAssumption DEF MovedTo, HasCase, SegmentFits, SameCases
  <2>12. ~StaleQueue => OneLive(e)
    <3> SUFFICES ASSUME ~StaleQueue PROVE OneLive(e)
      OBVIOUS
    <3>1. db.conv.segment = None
      BY <1>3 DEF Settled, AtRest
    <3>2. OneLive(d)
      BY <2>3, <2>6, <3>1 DEF Settled, Segmented, OneLive
    <3> QED  BY <2>10, <3>2 DEF MovedTo
  <2>13. HandlerOwns(e)
    BY <2>7, <2>10 DEF MovedTo, HandlerOwns, SystemOwner
  <2> QED  BY <1>1, <2>11, <2>12, <2>13 DEF Segmented
<1> QED  BY <1>2, <1>3

\* A plan for the AI side reserves no human.
LEMMA PlansForAI ==
  ASSUME NEW d, NEW eligible, NEW active, NEW excluded,
         NEW plan \in Plans(d, eligible, active, excluded), plan.action = "assign_ai_owner"
  PROVE  plan.agent = None
<1>1. plan # PreservedHumanPlan(d.conv.agent, d.queue)
  BY DEF PreservedHumanPlan
<1>2. PICK mode, sig : plan \in CreatePlan(mode, sig, d.queue, UnknownLoad, eligible, active, excluded)
  BY <1>1 DEF Plans
<1> DEFINE reason    == ResolveOverride(sig, d.queue)
           request   == ResolveServiceRequestMode(sig, d.queue, reason)
           available == [human |-> eligible # {}, ai |-> active # {}]
           side      == ResolveOwnerSide(mode, sig, reason, available, UnknownLoad)
<1>3. \E h, m : plan = InboundPlan(side, request, h, m)
  BY <1>2 DEF CreatePlan
<1> QED  BY <1>3 DEF InboundPlan
-----------------------------------------------------------------------------
(* Every step leaves settled rows *)

\* An ordinary message, whatever it finds.
LEMMA InboundMessageSettles ==
  ASSUME SInv, InboundMessage
  PROVE  Settled(db')
<1>1. PICK stale \in BOOLEAN, eligible \in SUBSET staff, active \in SUBSET AIAgents :
        /\ stale => StaleQueue
        /\ \E plan \in Plans(Intake(stale), eligible, active, {}) :
             /\ plan.action = "preserve_existing_owner" => CanPreserve(Intake(stale), plan.agent)
             /\ Commit(ApplyInboundPlan(Intake(stale), plan))
  <2>1. PICK stale \in (IF StaleQueue /\ StaleRoom /\ db.conv.status = "queued" THEN BOOLEAN ELSE {FALSE}),
             eligible \in SUBSET staff, active \in SUBSET AIAgents :
          \E plan \in Plans(Intake(stale), eligible, active, {}) :
             /\ plan.action = "preserve_existing_owner" => CanPreserve(Intake(stale), plan.agent)
             /\ Commit(ApplyInboundPlan(Intake(stale), plan))
    BY DEF InboundMessage
  <2>2. stale \in BOOLEAN /\ (stale => StaleQueue)
    BY <2>1
  <2> QED  BY <2>1, <2>2
<1> DEFINE d == Intake(stale)
<1>2. PICK plan \in Plans(d, eligible, active, {}) :
        /\ plan.action = "preserve_existing_owner" => CanPreserve(d, plan.agent)
        /\ Commit(ApplyInboundPlan(d, plan))
  BY <1>1
<1>3. d \in Tables /\ HasCase(d)
  BY IntakeFrame DEF InboundMessage, SInv
<1>4. Segmented(d)
  BY <1>1, IntakeSettles DEF InboundMessage, SInv
<1> HIDE DEF d
<1>5. plan \in RoutingPlan /\ (plan.action = "preserve_existing_owner" => plan.agent \in Agents)
  BY <1>3, PlansTyped, InvRows DEF SInv
<1>6. plan.action = "assign_ai_owner" => plan.agent = None
  BY PlansForAI
<1>7. Settled(ApplyInboundPlan(d, plan))
  BY <1>2, <1>3, <1>4, <1>5, <1>6, PlanSettles
<1> QED  BY <1>2, <1>7 DEF Commit

\* The AI takeover, which commits for the conversation as it is by then.
LEMMA AITakesOverSettles ==
  ASSUME SInv, NEW j \in Jobs, AITakesOver(j)
  PROVE  Settled(db')
<1>1. CASE UNCHANGED db
  BY <1>1 DEF SInv
<1>2. CASE HasCase(db) /\ db' = TakenByAI(j)
  <2> DEFINE f == ActivateAIOwner(db, jobs[j].case, jobs[j].ai, "waiting_customer", "bot_active")
             e == TakenByAI(j)
  <2>1. jobs[j].case \in CaseOrNone /\ jobs[j].ai \in AIAgentOrNone
    BY DEF SInv, IInv, TypeOK, Job
  <2>2. "waiting_customer" \in ActiveCaseStatuses
        /\ "bot_active" \in ConversationStatus \ {"resolved"}
    BY StatusesTyped DEF ConversationStatus
  <2>3. f \in Tables
    BY <2>1, <2>2, InvRows, ActivateAIOwnerFrame DEF SInv, AITakesOver
  <2>4. e = [f EXCEPT !.queue.ai = jobs[j].ai]
    BY DEF TakenByAI
  <2> HIDE DEF f
  <2>5. e.conv = f.conv /\ e.segs = f.segs
    BY <2>3, <2>4 DEF Tables
  <2> HIDE DEF e
  <2>6. Settled(e)
    BY <1>2, <2>1, <2>2, <2>5, InvRows, AISettles DEF f, SInv, Settled, Segmented, AITakesOver
  <2> QED  BY <1>2, <2>6 DEF e
<1> QED  BY <1>1, <1>2 DEF AITakesOver

\* The second transaction of a release.
LEMMA ReleaseJobSettles ==
  ASSUME SInv, NEW j \in Jobs, ReleaseJob(j)
  PROVE  Settled(db')
<1>1. CASE UNCHANGED db
  BY <1>1 DEF SInv
<1>2. CASE HasCase(db) /\ db' = ReleasedToHumans(j)
  <2> DEFINE f == ReleaseToQueue(db, jobs[j].case, jobs[j].reserved)
             row == [status |-> IF jobs[j].reserved = None THEN "pending" ELSE "assigned",
                     agent |-> jobs[j].reserved, ai |-> None,
                     requestMode |-> IF jobs[j].lock THEN "human_requested" ELSE "normal",
                     fallback |-> jobs[j].lock, locked |-> jobs[j].lock]
             e == ReleasedToHumans(j)
  <2>1. jobs[j].case \in CaseOrNone /\ jobs[j].reserved \in AgentOrNone
    BY DEF SInv, IInv, TypeOK, Job
  <2>2. f \in Tables
    BY <2>1, InvRows, ReleaseToQueueFrame DEF SInv, ReleaseJob
  <2>3. e = [f EXCEPT !.queue = row]
    BY DEF ReleasedToHumans
  <2>4. row.agent = jobs[j].reserved /\ row.status \in {"assigned", "pending"}
    OBVIOUS
  <2> HIDE DEF f, row
  <2>5. e.conv = f.conv /\ e.segs = f.segs /\ e.queue = row
    BY <2>2, <2>3 DEF Tables
  <2> HIDE DEF e
  <2>6. Settled(e)
    BY <1>2, <2>1, <2>4, <2>5, InvRows, ReleaseSettles DEF f, SInv, Settled, Segmented, ReleaseJob
  <2> QED  BY <1>2, <2>6 DEF e
<1> QED  BY <1>1, <1>2 DEF ReleaseJob

\* An activation by accept, transfer or reopen.
LEMMA AssignedSettles ==
  ASSUME NEW d \in Tables, HasCase(d), FreeSegments(d) # {}, SegmentFits(d),
         ~StaleQueue => OneLive(d), NEW a \in Agents, NEW m \in AIAgentOrNone
  PROVE  Settled(Assigned(ActivateHumanOwner(d, d.conv.case, a, "in_progress"), a, m))
<1> DEFINE f == ActivateHumanOwner(d, d.conv.case, a, "in_progress")
           e == Assigned(f, a, m)
<1>1. d.conv.case \in CaseOrNone /\ "in_progress" \in ActiveCaseStatuses
  BY StatusesTyped DEF Tables, ConversationRow
<1>2. f \in Tables
  BY <1>1, ActivateHumanOwnerFrame
<1> HIDE DEF f
<1>3. e.conv = f.conv /\ e.segs = f.segs /\ e.queue.agent = a
  BY <1>2 DEF Assigned, Tables, QueueRow
<1> HIDE DEF e
<1>4. Settled(e)
  BY <1>1, <1>3, HumanSettles DEF f
<1> QED  BY <1>4 DEF e, f

\* Accepting a reservation and transferring a conversation.
LEMMA ConsoleAssignSettles ==
  ASSUME SInv, NEW a \in staff, NEW b \in staff, AcceptReservation(a) \/ TransferTo(a, b)
  PROVE  Settled(db')
<1>1. a \in Agents /\ b \in Agents /\ None \in AIAgentOrNone
  BY InvRows DEF SInv, AIAgentOrNone
<1>2. /\ HasCase(db) /\ FreeSegments(db) # {}
      /\ \E x \in {a, b} : db' = Assigned(ActivateHumanOwner(db, db.conv.case, x, "in_progress"), x, None)
  BY DEF AcceptReservation, TransferTo, HasRoom, Commit
<1> QED  BY <1>1, <1>2, InvRows, AssignedSettles DEF SInv, Settled, Segmented

\* Reopening for an agent.
LEMMA ReopenForSettles ==
  ASSUME SInv, NEW b \in staff, ReopenFor(b)
  PROVE  Settled(db')
<1> DEFINE d == GetOrCreateActiveCase(db)
<1>1. b \in Agents
  BY InvRows DEF SInv
<1>2. /\ d \in Tables /\ HasCase(d) /\ FreeSegments(d) # {} /\ SegmentFits(d)
      /\ ~StaleQueue => OneLive(d)
  BY InvRows, FoundRows DEF SInv, SameCases, ReopenFor
<1>3. d.queue.ai \in AIAgentOrNone
  BY <1>2 DEF Tables, QueueRow
<1>4. db' = Assigned(ActivateHumanOwner(d, d.conv.case, b, "in_progress"), b, d.queue.ai)
  BY DEF ReopenFor, Commit
<1> HIDE DEF d
<1> QED  BY <1>1, <1>2, <1>3, <1>4, AssignedSettles

\* A supervisor's transfer writes the queue row first.
LEMMA SupervisorTransfersSettles ==
  ASSUME SInv, NEW b \in staff, SupervisorTransfers(b)
  PROVE  Settled(db')
<1> DEFINE row == [db.queue EXCEPT !.status = "assigned", !.agent = b, !.ai = None]
           f == [db EXCEPT !.queue = row]
           d == GetOrCreateActiveCase(f)
           e == ActivateHumanOwner(d, d.conv.case, b, "in_progress")
<1>1. b \in Agents /\ db \in Tables
  BY InvRows DEF SInv
<1>2. row \in QueueRow /\ row.agent = b
  BY <1>1 DEF Tables, QueueRow, QueueStatus, AgentOrNone, AIAgentOrNone
<1>3. db' = e
  BY DEF SupervisorTransfers, Commit
<1> HIDE DEF row
<1>4. f \in Tables /\ SameCases(db, f) /\ f.conv = db.conv /\ f.segs = db.segs /\ f.queue = row
  BY <1>1, <1>2, QueueFrame
<1> HIDE DEF f
<1>5. /\ d \in Tables /\ HasCase(d) /\ FreeSegments(d) # {} /\ SegmentFits(d)
      /\ ~StaleQueue => OneLive(d)
      /\ d.queue = f.queue
  BY <1>4, FoundRows DEF SInv, SupervisorTransfers
<1> HIDE DEF d
<1>6. d.conv.case \in CaseOrNone /\ "in_progress" \in ActiveCaseStatuses
  BY <1>5, StatusesTyped DEF Tables, ConversationRow
<1>7. e.queue = d.queue
  BY <1>1, <1>5, <1>6, ActivateHumanOwnerFrame
<1>8. Settled(e)
  BY <1>1, <1>2, <1>4, <1>5, <1>6, <1>7, HumanSettles
<1> QED  BY <1>3, <1>8

\* The delivery of an agent's reply, late ones included.
LEMMA DeliverReplySettles ==
  ASSUME SInv, NEW a \in Agents, DeliverReply(a)
  PROVE  Settled(db')
<1>1. CASE UNCHANGED db
  BY <1>1 DEF SInv
<1>2. CASE (HasCase(db) \/ db.conv.status = "resolved") /\ db' = Delivered(a)
  <2> DEFINE f == [db EXCEPT !.conv.segment = None]
             d == IF db.conv.status = "resolved" THEN GetOrCreateActiveCase(f) ELSE db
             e == ActivateHumanOwner(d, d.conv.case, a, "waiting_customer")
             g == Delivered(a)
  <2>1. db \in Tables
    BY InvRows DEF SInv
  <2>2. /\ d \in Tables /\ HasCase(d) /\ FreeSegments(d) # {} /\ SegmentFits(d)
        /\ ~StaleQueue => OneLive(d)
    <3>1. CASE db.conv.status = "resolved"
      <4>1. db.conv.segment = None
        BY <3>1 DEF SInv, Settled, AtRest
      <4>2. f = db
        BY <2>1, <4>1 DEF Tables, ConversationRow
      <4>3. SameCases(db, f) /\ f.segs = db.segs /\ f.conv.segment = db.conv.segment
        BY <4>2 DEF SameCases
      <4>4. d = GetOrCreateActiveCase(f)
        BY <3>1
      <4> HIDE DEF d, f
      <4> QED  BY <2>1, <4>2, <4>3, <4>4, FoundRows DEF SInv, DeliverReply
    <3>2. CASE db.conv.status # "resolved"
      BY <1>2, <2>1, <3>2 DEF SInv, Settled, Segmented, DeliverReply, HasRoom
    <3> QED  BY <3>1, <3>2
  <2> HIDE DEF d
  <2>3. d.conv.case \in CaseOrNone /\ "waiting_customer" \in ActiveCaseStatuses
    BY <2>2, StatusesTyped DEF Tables, ConversationRow
  <2>4. e \in Tables
    BY <2>2, <2>3, ActivateHumanOwnerFrame
  <2>5. g = [Assigned(e, a, e.queue.ai) EXCEPT !.queue.locked = FALSE]
    BY DEF Delivered, d
  <2> HIDE DEF e, g
  <2>6. g.conv = e.conv /\ g.segs = e.segs /\ g.queue.agent = a
    BY <2>4, <2>5 DEF Assigned, Tables, QueueRow
  <2>7. Settled(g)
    BY <2>2, <2>3, <2>6, HumanSettles DEF e
  <2> QED  BY <1>2, <2>7 DEF g
<1> QED  BY <1>1, <1>2 DEF DeliverReply

\* A handoff by an agent, to the AI or to the queue.
LEMMA AgentHandsOffSettles ==
  ASSUME SInv, AgentHandsOff
  PROVE  Settled(db')
<1>1. PICK eligible \in SUBSET staff, active \in SUBSET AIAgents :
        \E plan \in CreateAgentHandoffPlan(db.queue, eligible, active) :
          \/ db' = HandedToAI(plan.ai)
          \/ db' = HandedToQueue(plan.agent)
  BY DEF AgentHandsOff, Commit
<1>2. PICK plan \in CreateAgentHandoffPlan(db.queue, eligible, active) :
        \/ db' = HandedToAI(plan.ai)
        \/ db' = HandedToQueue(plan.agent)
  BY <1>1
<1>3. plan \in RoutingPlan
  BY InvRows, HandoffPlanTyped DEF SInv
<1>4. /\ db \in Tables /\ db.conv.case \in CaseOrNone
      /\ HasCase(db) /\ FreeSegments(db) # {} /\ SegmentFits(db)
      /\ ~StaleQueue => OneLive(db)
  BY InvRows DEF SInv, Settled, Segmented, AgentHandsOff, HasRoom
<1>5. CASE db' = HandedToAI(plan.ai)
  <2> DEFINE f == ActivateAIOwner(db, db.conv.case, plan.ai, "in_progress", "open")
             e == HandedToAI(plan.ai)
  <2>1. plan.ai \in AIAgentOrNone /\ "in_progress" \in ActiveCaseStatuses
        /\ "open" \in ConversationStatus \ {"resolved"}
    BY <1>3, StatusesTyped DEF ConversationStatus, RoutingPlan
  <2>2. f \in Tables
    BY <1>4, <2>1, ActivateAIOwnerFrame
  <2>3. e = [f EXCEPT !.queue.status = "pending", !.queue.agent = None, !.queue.ai = plan.ai]
    BY DEF HandedToAI
  <2> HIDE DEF f
  <2>4. e.conv = f.conv /\ e.segs = f.segs
    BY <2>2, <2>3 DEF Tables
  <2> HIDE DEF e
  <2>5. Settled(e)
    BY <1>4, <2>1, <2>4, AISettles DEF f
  <2> QED  BY <1>5, <2>5 DEF e
<1>6. CASE db' = HandedToQueue(plan.agent)
  <2> DEFINE f == ReleaseToQueue(db, db.conv.case, plan.agent)
             e == HandedToQueue(plan.agent)
  <2>1. plan.agent \in AgentOrNone
    BY <1>3 DEF RoutingPlan
  <2>2. f \in Tables
    BY <1>4, <2>1, ReleaseToQueueFrame
  <2>3. e = [f EXCEPT !.queue.status = IF plan.agent = None THEN "pending" ELSE "assigned",
                      !.queue.agent = plan.agent, !.queue.ai = None]
    BY DEF HandedToQueue
  <2> HIDE DEF f
  <2>4. e.conv = f.conv /\ e.segs = f.segs
    BY <2>2, <2>3 DEF Tables
  <2>6. f.queue \in QueueRow
    BY <2>2 DEF Tables
  <2>7. e.queue = [f.queue EXCEPT !.status = IF plan.agent = None THEN "pending" ELSE "assigned",
                                  !.agent = plan.agent, !.ai = None]
    BY <2>2, <2>3 DEF Tables
  <2>8. e.queue.agent = plan.agent /\ e.queue.status \in {"assigned", "pending"}
    BY <2>6, <2>7 DEF QueueRow
  <2> HIDE DEF e
  <2>5. Settled(e)
    BY <1>4, <2>1, <2>4, <2>8, ReleaseSettles DEF f
  <2> QED  BY <1>6, <2>5 DEF e
<1> QED  BY <1>2, <1>5, <1>6

\* Rows that resolveConversation and an update of the queue row leave.
LEMMA ResolvedSettles ==
  ASSUME SInv, NEW f, f = IF HasCase(db) THEN CloseCurrentSegment(db) ELSE db,
         NEW row, db' = [ResolveConversation(f) EXCEPT !.queue = row]
  PROVE  Settled(db')
<1> DEFINE e == [ResolveConversation(f) EXCEPT !.queue = row]
<1>1. db \in Tables /\ ActiveCases(db) = {db.conv.case} \ {None}
  BY InvRows DEF SInv
<1>2. f \in Tables /\ SameCases(db, f)
  BY <1>1, CloseCurrentSegmentFrame DEF SameCases
<1>3. ActiveCases(f) = {f.conv.case} \ {None}
  BY <1>1, <1>2 DEF SameCases, ActiveCases, IsActiveCase
<1>4. ResolveConversation(f) \in Tables
  BY <1>2, <1>3, ResolveConversationFrame
<1>5. e.conv = ResolveConversation(f).conv /\ e.segs = ResolveConversation(f).segs
  BY <1>4 DEF Tables
<1> HIDE DEF e
<1>6. Settled(e)
  BY <1>1, <1>2, <1>5, CloseSettles DEF SInv, Settled, Segmented
<1> QED  BY <1>6 DEF e

\* Resolving by an agent, by a supervisor and by the follow-up timer.
LEMMA ClosingSettles ==
  ASSUME SInv, AgentResolves \/ ForceClose \/ FollowUpTimeout
  PROVE  Settled(db')
<1> DEFINE f == IF HasCase(db) THEN CloseCurrentSegment(db) ELSE db
           d == ResolveConversation(f)
<1>1. db' = [d EXCEPT !.queue.status = "resolved"] \/ db' = [d EXCEPT !.queue = ResetQueue(d.queue)]
  BY DEF AgentResolves, ForceClose, FollowUpTimeout, ResolveQueue, Commit
<1>2. \E row : db' = [d EXCEPT !.queue = row]
  <2>1. [d EXCEPT !.queue.status = "resolved"] = [d EXCEPT !.queue = [d.queue EXCEPT !.status = "resolved"]]
    OBVIOUS
  <2> QED  BY <1>1, <2>1
<1> QED  BY <1>2, ResolvedSettles

\* The deletion of an agent's profile.
LEMMA RemoveAgentSettles ==
  ASSUME SInv, NEW a \in staff, RemoveAgent(a)
  PROVE  Settled(db')
<1>1. db \in Tables
  BY InvRows DEF SInv
<1>2. db' = Orphaned(a) /\ AgentRemoval
  BY DEF RemoveAgent
<1>3. /\ db'.conv.status = (IF db.conv.agent = a /\ db.conv.status = "human_active"
                            THEN "queued" ELSE db.conv.status)
      /\ db'.conv.agent = (IF db.conv.agent = a THEN None ELSE db.conv.agent)
      /\ db'.conv.handler = db.conv.handler /\ db'.conv.segment = db.conv.segment
      /\ db'.conv.case = db.conv.case
      /\ db'.queue.agent = (IF db.queue.agent = a THEN None ELSE db.queue.agent)
      /\ db'.queue.status = (IF db.queue.agent = a /\ db.queue.status \in {"assigned", "pending"}
                             THEN "pending" ELSE db.queue.status)
      /\ db'.segs = [s \in SegmentIds |-> [db.segs[s] EXCEPT !.owner = Forget(a, db.segs[s].owner)]]
  BY <1>1, <1>2 DEF Orphaned, Tables, ConversationRow, QueueRow
<1>4. \A s \in SegmentIds : db'.segs[s].active = db.segs[s].active /\ db'.segs[s].case = db.segs[s].case
  <2> TAKE s \in SegmentIds
  <2>1. db.segs[s] \in SegmentRow
    BY <1>1 DEF Tables
  <2>2. db'.segs[s] = [db.segs[s] EXCEPT !.owner = Forget(a, db.segs[s].owner)]
    BY <1>3
  <2> QED  BY <2>1, <2>2 DEF SegmentRow
<1>5. db.conv.segment # None => db.conv.segment \in SegmentIds
  BY <1>1 DEF Tables, ConversationRow, SegmentOrNone
<1>6. AtRest(db')
  BY <1>3 DEF SInv, Settled, AtRest, HasCase
<1>7. Segmented(db')
  BY <1>2, <1>3, <1>4, <1>5 DEF SInv, Settled, Segmented, SegmentFits, OneLive, HasCase
<1>8. Mirrored(db') /\ Queued(db')
  BY <1>3 DEF SInv, Settled, Mirrored, Queued, HasCase
<1> QED  BY <1>6, <1>7, <1>8 DEF Settled

\* The accept and subsequent-response timers plan and apply like a message.
LEMMA ReassignSettles ==
  ASSUME SInv, NEW previous, Reassign(previous)
  PROVE  Settled(db')
<1>1. PICK eligible \in SUBSET staff, active \in SUBSET AIAgents :
        \E plan \in Plans(db, eligible, active, {previous}) :
          /\ plan.action = "preserve_existing_owner" => CanPreserve(db, plan.agent)
          /\ db' = ApplyInboundPlan(db, plan)
  BY DEF Reassign, Commit
<1>2. PICK plan \in Plans(db, eligible, active, {previous}) :
        /\ plan.action = "preserve_existing_owner" => CanPreserve(db, plan.agent)
        /\ db' = ApplyInboundPlan(db, plan)
  BY <1>1
<1>3. plan \in RoutingPlan /\ (plan.action = "preserve_existing_owner" => plan.agent \in Agents)
  BY InvRows, PlansTyped DEF SInv
<1>4. plan.action = "assign_ai_owner" => plan.agent = None
  BY PlansForAI
<1> QED  BY <1>2, <1>3, <1>4, InvRows, PlanSettles DEF SInv, Settled, Reassign

\* Every step leaves settled rows.
LEMMA StepSettles ==
  ASSUME SInv, [Next]_vars
  PROVE  Settled(db')
<1>1. CASE UNCHANGED db
  BY <1>1 DEF SInv
<1>2. CASE InboundMessage
  BY <1>2, InboundMessageSettles
<1>3. CASE \E j \in Jobs : RoutingStep(j) \/ CrashJob(j)
  BY <1>1, <1>3, AITakesOverSettles, ReleaseJobSettles DEF RoutingStep, SkipJob, StartJob,
     AIReplies, AIGivesUp, PlanRelease, CompleteJob, RescueJob, CrashJob
<1>4. CASE \E a \in Agents : DeliverReply(a)
  BY <1>4, DeliverReplySettles
<1>5. CASE ConsoleStep
  BY <1>1, <1>5, ConsoleAssignSettles, ReopenForSettles, AgentHandsOffSettles, ClosingSettles
  DEF ConsoleStep, AgentReplies
<1>6. CASE AdminStep
  BY <1>6, SupervisorTransfersSettles, RemoveAgentSettles, ClosingSettles DEF AdminStep
<1>7. CASE TimerStep
  BY <1>7, ReassignSettles, ClosingSettles DEF TimerStep, AcceptTimeout, SubsequentResponseTimeout
<1> QED  BY <1>1, <1>2, <1>3, <1>4, <1>5, <1>6, <1>7 DEF Next, vars

\* The rows the program starts with are settled.
LEMMA InitSettles == Init => Settled(db)
<1> SUFFICES ASSUME Init PROVE Settled(db)
  OBVIOUS
<1>1. db = EmptyTables
  BY DEF Init
<1> QED  BY <1>1 DEF EmptyTables, EndedSegment, Settled, AtRest, Segmented, SegmentFits, OneLive,
            HandlerOwns, Mirrored, Queued, HasCase
-----------------------------------------------------------------------------
(* Theorems *)

\* The inductive invariant of the rows that follow the case.
THEOREM SettledAlways == Spec => []SInv
<1>1. Init => SInv
  BY InvInit, InitSettles DEF SInv
<1>2. SInv /\ [Next]_vars => SInv'
  <2> SUFFICES ASSUME SInv, [Next]_vars PROVE SInv'
    OBVIOUS
  <2>1. IInv'
    BY InvStep DEF SInv
  <2>2. Settled(db')
    BY StepSettles
  <2> QED  BY <2>1, <2>2 DEF SInv
<1> QED  BY <1>1, <1>2, PTL DEF Spec

(***************************************************************************)
(* Whatever switches, ends and starts segments, a conversation with a case *)
(* points to an open segment of that case, and one without points to none. *)
(***************************************************************************)
THEOREM SegmentIsCurrent == Spec => []SegmentCurrency
<1>1. SInv => SegmentCurrency
  BY DEF SInv, Settled, AtRest, Segmented, SegmentFits, SegmentCurrency
<1> QED  BY <1>1, SettledAlways, PTL

(***************************************************************************)
(* Unless a stale queued conversation is reopened, no segment is left open *)
(* behind the current one.                                                 *)
(***************************************************************************)
THEOREM NoSegmentLeftOpen ==
  ASSUME ~StaleQueue
  PROVE  Spec => []OneLiveSegment
<1>1. SInv => OneLiveSegment
  BY DEF SInv, Settled, Segmented, OneLive, OneLiveSegment
<1> QED  BY <1>1, SettledAlways, PTL

(***************************************************************************)
(* Unless agent profiles are deleted, the human or AI agent that handles a *)
(* conversation owns the segment its work is counted under.                *)
(***************************************************************************)
THEOREM HandlerHasSegment ==
  ASSUME ~AgentRemoval
  PROVE  Spec => []HandlerOwnsSegment
<1>1. SInv => HandlerOwnsSegment
  BY DEF SInv, Settled, AtRest, Segmented, HandlerOwns, HandlerOwnsSegment, SystemOwner
<1> QED  BY <1>1, SettledAlways, PTL

(***************************************************************************)
(* However assignments, deletions and late replies interleave, the agent on*)
(* the conversation row is the one on the queue row.                       *)
(***************************************************************************)
THEOREM ReservationsAgree == Spec => []ReservationMirrored
<1>1. SInv => ReservationMirrored
  BY DEF SInv, Settled, Mirrored, ReservationMirrored
<1> QED  BY <1>1, SettledAlways, PTL

(***************************************************************************)
(* A conversation that nobody handles is never without a live queue row.   *)
(***************************************************************************)
THEOREM NobodyWaitsUnseen == Spec => []WaitingIsQueued
<1>1. SInv => WaitingIsQueued
  BY DEF SInv, Settled, AtRest, Queued, WaitingIsQueued
<1> QED  BY <1>1, SettledAlways, PTL

(***************************************************************************)
(* Intake, the reopen route, a supervisor's transfer and a late reply bring*)
(* a closed conversation back under a case that was never used before.     *)
(***************************************************************************)
THEOREM ReopenedIsFresh == Spec => ReopenStartsFreshCase
<1>1. SInv /\ [Next]_vars =>
        [db.conv.status = "resolved" /\ db'.conv.status # "resolved"
           => db.cases[db'.conv.case].status = "none"]_vars
  <2> SUFFICES ASSUME SInv, [Next]_vars, db.conv.status = "resolved", db'.conv.status # "resolved"
               PROVE  db.cases[db'.conv.case].status = "none"
    OBVIOUS
  <2> DEFINE k == db'.conv.case
  <2>1. RowsKept
    BY StepKeepsRows DEF SInv
  <2>2. ActiveCases(db) = {}
    BY InvRows DEF SInv, Settled, AtRest, HasCase
  <2>3. k # None /\ k \in ActiveCases(db')
    BY <2>1 DEF RowsKept, CaseCurrency, HasCase
  <2>4. k \in CaseIds /\ db'.cases[k].status # "resolved"
    BY <2>3, StatusesTyped DEF ActiveCases, IsActiveCase
  <2>5. db.cases[k].status # "resolved"
    BY <2>1, <2>4 DEF RowsKept, KeepsSession, EndsSession
  <2>6. db.cases[k].status \in CaseStatus
    BY <2>4, InvRows DEF SInv, Tables, CaseRow
  <2>7. db.cases[k].status \notin ActiveCaseStatuses
    BY <2>2, <2>3, <2>4 DEF ActiveCases, IsActiveCase
  <2> QED  BY <2>5, <2>6, <2>7 DEF CaseStatus
<1> QED  BY <1>1, SettledAlways, PTL DEF Spec, ReopenStartsFreshCase
=============================================================================
