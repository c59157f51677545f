------------------------ MODULE ConversationTables ------------------------
(***************************************************************************)
(* The rows one conversation owns in PostgreSQL and the services that write*)
(* them: ConversationSegmentService, ConversationCaseService, the queue    *)
(* assignment upsert and the seven transitions of OwnershipService.        *)
(*                                                                         *)
(* Every service method runs inside the caller's transaction, so each is an*)
(* operator from the rows to the rows; a caller composes them in the order *)
(* of its code and commits the result in one step.                         *)
(*                                                                         *)
(* d.conv   the conversations row                                          *)
(* d.cases  conversation_cases; status "none" is an id not inserted yet    *)
(* d.segs   conversation_segments that have not ended; an id whose segment *)
(*          ended may be reused once no row refers to it                   *)
(* d.queue  the queue_assignments row, unique per conversation and written  *)
(*          by the transaction that inserts the conversation               *)
(*                                                                         *)
(* An owner is the pair of an owner type and an id.  The case table spells *)
(* a human owner "agent" (mapCaseOwnerType); here it is "human" everywhere.*)
(***************************************************************************)
EXTENDS RoutingDecision, FiniteSets

CONSTANTS CaseIds,     \* bound on the cases (sessions) of the conversation
          SegmentIds   \* bound on the segments alive or referred to at once

ASSUME TablesAssumption == None \notin CaseIds /\ None \notin SegmentIds

SystemOwner   == [type |-> "system", id |-> None]
HumanOwner(a) == [type |-> "human",  id |-> a]
AIOwner(m)    == [type |-> "ai",     id |-> m]

Owner == [type : {"system"}, id : Agents \cup AIAgents \cup {None}]
           \cup [type : {"human"}, id : AgentOrNone] \cup [type : {"ai"}, id : AIAgentOrNone]

ConversationStatus == {"open", "queued", "bot_active", "human_active", "resolved"}
ActiveCaseStatuses == {"open", "in_progress", "waiting_customer", "waiting_internal"}
CaseStatus         == {"none", "resolved"} \cup ActiveCaseStatuses
QueueStatus        == {"assigned", "pending", "resolved"}

SegmentOrNone == SegmentIds \cup {None}
CaseOrNone    == CaseIds \cup {None}

ConversationRow ==
  [status : ConversationStatus, agent : AgentOrNone, handler : Owner,
   segment : SegmentOrNone, case : CaseOrNone]
CaseRow    == [status : CaseStatus, owner : Owner, segment : SegmentOrNone]
SegmentRow == [active : BOOLEAN, owner : Owner, case : CaseOrNone]
QueueRow   ==
  [status : QueueStatus, agent : AgentOrNone, ai : AIAgentOrNone,
   requestMode : RequestMode, fallback : BOOLEAN, locked : BOOLEAN]

Tables == [conv : ConversationRow, cases : [CaseIds -> CaseRow],
           segs : [SegmentIds -> SegmentRow], queue : QueueRow]

EndedSegment == [active |-> FALSE, owner |-> SystemOwner, case |-> None]
NoCase       == [status |-> "none", owner |-> SystemOwner, segment |-> None]

\* A chat that has been seen before and whose last session is over.
EmptyTables ==
  [conv  |-> [status |-> "resolved", agent |-> None, handler |-> SystemOwner,
              segment |-> None, case |-> None],
   cases |-> [k \in CaseIds |-> NoCase],
   segs  |-> [s \in SegmentIds |-> EndedSegment],
   queue |-> [status |-> "resolved", agent |-> None, ai |-> None,
              requestMode |-> "normal", fallback |-> FALSE, locked |-> FALSE]]
-----------------------------------------------------------------------------
(* Reading                                                                 *)

\* getConversation throws when the conversation has no current case.
HasCase(d) == d.conv.case # None

IsActiveCase(d, k) == k # None /\ d.cases[k].status \in ActiveCaseStatuses

ActiveCases(d) == {k \in CaseIds : IsActiveCase(d, k)}

ReferredSegments(d) == {d.conv.segment} \cup {d.cases[k].segment : k \in CaseIds}

FreeSegments(d) == {s \in SegmentIds : ~d.segs[s].active} \ ReferredSegments(d)
FreeCases(d)    == {k \in CaseIds : d.cases[k].status = "none"}

(***************************************************************************)
(* What PostgreSQL refuses at the end of a transaction: the partial unique *)
(* index conversation_cases_single_active_idx, and the foreign keys to     *)
(* agent_profiles of a row that names an agent whose profile was deleted.  *)
(***************************************************************************)
NamedAgents(d) ==
  {d.conv.agent, d.queue.agent} \cup
  {d.segs[s].owner.id : s \in {x \in SegmentIds : d.segs[x].owner.type = "human"}}

SingleActiveCase(d) ==
  \A k, l \in CaseIds : IsActiveCase(d, k) /\ IsActiveCase(d, l) => k = l

\* Mutant: no partial unique index on the active case of a conversation.
Committable_NoUniqueIndex(d, staff) == NamedAgents(d) \subseteq staff \cup {None}

\* Mutant: no foreign key to agent_profiles.
Committable_NoForeignKey(d, staff) == SingleActiveCase(d)

Committable(d, staff) == SingleActiveCase(d) /\ NamedAgents(d) \subseteq staff \cup {None}
-----------------------------------------------------------------------------
(* ConversationSegmentService                                              *)

StartSegment(d, owner) ==
  LET s == CHOOSE x \in FreeSegments(d) : TRUE
  IN  [d EXCEPT !.segs[s] = [active |-> TRUE, owner |-> owner, case |-> d.conv.case],
                !.conv.segment = s]

EndSegment(d) ==
  IF d.conv.segment = None THEN d
  ELSE [d EXCEPT !.segs[d.conv.segment] = EndedSegment]

\* Mutant: the segment of the previous owner is not ended.
ReplaceSegment_NoEnd(d, owner) ==
  IF d.conv.segment # None /\ d.segs[d.conv.segment].owner = owner
  THEN d
  ELSE StartSegment(d, owner)

\* The same owner keeps its segment; otherwise it ends (transferred or closed).
ReplaceSegment(d, owner) ==
  IF d.conv.segment # None /\ d.segs[d.conv.segment].owner = owner
  THEN d
  ELSE StartSegment(EndSegment(d), owner)

CloseCurrentSegment(d) == [EndSegment(d) EXCEPT !.conv.segment = None]

\* Mutant: the intake leaves a conversation without a segment alone.
EnsureSystemSegment_Never(d) == d

EnsureSystemSegment(d) ==
  IF d.conv.segment # None THEN d ELSE StartSegment(d, SystemOwner)
-----------------------------------------------------------------------------
(* ConversationCaseService                                                 *)

\* A handler id outlives a human assignee only as a system owner with an id.
DerivedOwner(conv) ==
  CASE conv.agent # None -> HumanOwner(conv.agent)
    [] conv.agent = None /\ conv.handler.type = "ai" -> conv.handler
    [] OTHER -> [type |-> "system", id |-> conv.handler.id]

GetOrCreateActiveCase(d) ==
  IF IsActiveCase(d, d.conv.case) THEN d
  ELSE IF ActiveCases(d) # {}
  THEN [d EXCEPT !.conv.case = CHOOSE k \in ActiveCases(d) : TRUE]
  ELSE LET k == CHOOSE x \in FreeCases(d) : TRUE
       IN  [d EXCEPT !.cases[k] = [status  |-> "open", owner |-> DerivedOwner(d.conv),
                                   segment |-> d.conv.segment],
                     !.conv.case = k]

\* An UPDATE whose case id is null matches no row.
SetCurrentOwner(d, k, segment, owner, status) ==
  IF k = None THEN d
  ELSE [d EXCEPT !.cases[k] = [status |-> status, owner |-> owner, segment |-> segment]]

ClearCurrentOwnership(d, k) == SetCurrentOwner(d, k, None, SystemOwner, "open")

\* Mutant: closing only clears the owner and leaves the case open.
CloseCase_OwnerOnly(d, k) == ClearCurrentOwnership(d, k)

CloseCase(d, k) ==
  IF k = None THEN d
  ELSE [d EXCEPT !.cases[k] = [status |-> "resolved", owner |-> SystemOwner, segment |-> None]]
-----------------------------------------------------------------------------
(* OwnershipService                                                        *)

HandTo(d, status, agent, handler) ==
  [d EXCEPT !.conv.status = status, !.conv.agent = agent, !.conv.handler = handler]

CanPreserve(d, a) == d.conv.agent = a /\ d.conv.handler = HumanOwner(a)

PreserveHumanOwner(d, k, segment, a) ==
  SetCurrentOwner(HandTo(d, "human_active", a, HumanOwner(a)),
                  k, segment, HumanOwner(a), "in_progress")

AssignHumanQueue(d, k, agent) ==
  ClearCurrentOwnership(HandTo(d, "queued", agent, SystemOwner), k)

AssignAIPending(d, k) ==
  ClearCurrentOwnership(HandTo(d, "open", None, SystemOwner), k)

ActivateHumanOwner(d, k, a, caseStatus) ==
  LET e == ReplaceSegment(HandTo(d, "human_active", a, HumanOwner(a)), HumanOwner(a))
  IN  SetCurrentOwner(e, k, e.conv.segment, HumanOwner(a), caseStatus)

\* Mutant: the owner changes without switching the segment.
ActivateAIOwner_NoSwitch(d, k, m, caseStatus, status) ==
  HandTo(SetCurrentOwner(d, k, d.conv.segment, AIOwner(m), caseStatus), status, None, AIOwner(m))

ActivateAIOwner(d, k, m, caseStatus, status) ==
  LET e == ReplaceSegment(d, AIOwner(m))
  IN  HandTo(SetCurrentOwner(e, k, e.conv.segment, AIOwner(m), caseStatus),
             status, None, AIOwner(m))

ReleaseToQueue(d, k, agent) ==
  ClearCurrentOwnership(HandTo(ReplaceSegment(d, SystemOwner), "queued", agent, SystemOwner), k)

\* Mutant: the conversation is closed and its case is forgotten.
ResolveConversation_KeepsCase(d) ==
  [d EXCEPT !.conv = [status |-> "resolved", agent |-> None, handler |-> SystemOwner,
                      segment |-> None, case |-> None]]

ResolveConversation(d) ==
  LET e == CloseCase(d, d.conv.case)
  IN  [e EXCEPT !.conv = [status |-> "resolved", agent |-> None, handler |-> SystemOwner,
                          segment |-> None, case |-> None]]
-----------------------------------------------------------------------------
(* The queue row and the inbound plan                                      *)

QueueOf(plan) ==
  [status |-> CASE plan.action \in {"preserve_existing_owner", "assign_specific_owner"} -> "assigned"
                [] OTHER -> "pending",
   agent |-> plan.agent, ai |-> plan.ai, requestMode |-> plan.requestMode,
   fallback |-> plan.fallback, locked |-> plan.locked]

\* Mutant: the queue row is only written for plans that need a human.
ApplyInboundPlan_HumanRowOnly(d, plan) ==
  LET e == IF plan.owner = "human" THEN [d EXCEPT !.queue = QueueOf(plan)] ELSE d
      k == d.conv.case
  IN  CASE plan.action = "preserve_existing_owner" ->
             PreserveHumanOwner(e, k, d.conv.segment, plan.agent)
        [] plan.action \in {"assign_specific_owner", "enqueue_for_human"} ->
             AssignHumanQueue(e, k, plan.agent)
        [] OTHER -> AssignAIPending(e, k)

\* applyInboundPlan: the plan was made from d, so its case and segment are d's.
ApplyInboundPlan(d, plan) ==
  LET e == [d EXCEPT !.queue = QueueOf(plan)]
      k == d.conv.case
  IN  CASE plan.action = "preserve_existing_owner" ->
             PreserveHumanOwner(e, k, d.conv.segment, plan.agent)
        [] plan.action \in {"assign_specific_owner", "enqueue_for_human"} ->
             AssignHumanQueue(e, k, plan.agent)
        [] OTHER -> AssignAIPending(e, k)
=============================================================================
