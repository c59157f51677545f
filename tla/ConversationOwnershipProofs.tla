--------------------- MODULE ConversationOwnershipProofs ---------------------
(***************************************************************************)
(* Theorems about ConversationOwnership, for any numbers of agents, AI     *)
(* agents, cases, segments and routing jobs.                               *)
(*                                                                         *)
(* The inductive invariant is type correctness together with CaseCurrency: *)
(* the two need each other, since a transaction may only pick a new case   *)
(* when none is active, and an UPDATE through a remembered case id is      *)
(* harmless only because the unique index and the active current case leave*)
(* no other case it could be about.                                        *)
(***************************************************************************)
EXTENDS ConversationOwnership, ConversationTablesProofs

IInv == TypeOK /\ CaseCurrency

\* What every step does to the rows.
RowsKept ==
  /\ db' \in Tables /\ CaseCurrency'
  /\ KeepsSession(db, db') \/ EndsSession(db, db')

\* The invariant, said of the rows as the lemmas about rows need it.
LEMMA InvRows ==
  ASSUME IInv
  PROVE  /\ db \in Tables /\ CurrentCase(db)
         /\ ActiveCases(db) = {db.conv.case} \ {None}
         /\ db.conv.case \in CaseOrNone
         /\ staff \subseteq Agents
BY DEF IInv, TypeOK, CaseCurrency, CurrentCase, Tables, ConversationRow

\* A step that leaves the rows alone keeps whatever is said of them.
LEMMA Unmoved ==
  ASSUME IInv, UNCHANGED db
  PROVE  RowsKept
BY DEF IInv, TypeOK, CaseCurrency, RowsKept, KeepsSession, HasCase, ActiveCases, IsActiveCase

\* A transaction that ends in a write of case k, from rows d with a current case.
LEMMA WriteCommitted ==
  ASSUME IInv, NEW d \in Tables, CurrentCase(d), HasCase(d), KeepsSession(db, d),
         NEW e \in Tables, NEW k \in CaseOrNone, WritesCase(d, e, k),
         Committable(e, staff), db' = e
  PROVE  RowsKept
<1>1. CurrentCase(e) /\ KeepsSession(d, e)
  BY OnlyCurrentCaseWritten DEF Committable
<1>2. CaseCurrency'
  BY <1>1 DEF CurrentCase, CaseCurrency, HasCase, ActiveCases, IsActiveCase
<1> QED  BY <1>1, <1>2 DEF RowsKept, KeepsSession, HasCase

\* A transaction that ends in resolveConversation and a queue update.
LEMMA ResolveCommitted ==
  ASSUME IInv, NEW d \in Tables, SameCases(db, d), NEW row \in QueueRow,
         db' = [ResolveConversation(d) EXCEPT !.queue = row]
  PROVE  RowsKept
<1> DEFINE e == ResolveConversation(d)
<1>1. ActiveCases(d) = {d.conv.case} \ {None}
  BY InvRows DEF SameCases, ActiveCases, IsActiveCase
<1>2. e \in Tables /\ CurrentCase(e) /\ EndsSession(d, e) /\ e.conv.status = "resolved"
  BY <1>1, ResolveConversationFrame
<1> HIDE DEF e
<1>3. db' \in Tables /\ SameCases(e, db') /\ db'.conv = e.conv
  BY <1>2, QueueFrame DEF e
<1>4. CaseCurrency'
  BY <1>2, <1>3 DEF CaseCurrency, CurrentCase, SameCases, HasCase, ActiveCases, IsActiveCase
<1>5. EndsSession(db, db')
  BY <1>2, <1>3 DEF EndsSession, SameCases
<1> QED  BY <1>3, <1>4, <1>5 DEF RowsKept
-----------------------------------------------------------------------------
(* Inbound worker *)

\* Resetting the service mode yields a queue row.
LEMMA QueueTyped ==
  ASSUME NEW q \in QueueRow
  PROVE  ResetQueue(q) \in QueueRow
BY DEF ResetQueue, QueueRow, QueueStatus, RequestMode

\* Reopening touches no case and can only free segments.
LEMMA ReopenThreadFrame ==
  ASSUME NEW d \in Tables
  PROVE  LET e == ReopenThread(d)
         IN  /\ e \in Tables /\ SameCases(d, e)
             /\ FreeSegments(d) \subseteq FreeSegments(e)
<1> DEFINE e == ReopenThread(d)
           c == [d.conv EXCEPT !.status = "open", !.agent = None, !.handler = SystemOwner,
                               !.segment = None]
<1>1. ReopenThread(d) = [d EXCEPT !.conv = c, !.queue = ResetQueue(d.queue)]
  BY DEF ReopenThread
<1>2. c \in ConversationRow /\ c.case = d.conv.case /\ c.segment = None
  BY OwnersTyped DEF Tables, ConversationRow, ConversationStatus, AgentOrNone, SegmentOrNone
<1> DEFINE q == ResetQueue(d.queue)
<1>3. q \in QueueRow
  BY QueueTyped DEF Tables
<1> HIDE DEF c, q
<1>4. e \in Tables /\ SameCases(d, e) /\ e.segs = d.segs /\ e.conv.segment = None
  <2>1. e = [d EXCEPT !.conv = c, !.queue = q]
    BY <1>1 DEF q
  <2>2. e \in Tables
    BY <1>2, <1>3, <2>1 DEF Tables
  <2>3. e.conv = c /\ e.cases = d.cases /\ e.segs = d.segs
    BY <2>1 DEF Tables
  <2> QED  BY <1>2, <2>2, <2>3 DEF SameCases
<1>5. FreeSegments(d) \subseteq FreeSegments(e)
  BY <1>4, TablesAssumption DEF FreeSegments, ReferredSegments, SameCases
<1> QED  BY <1>4, <1>5

\* The segment backfill of the intake touches no case and no status.
LEMMA BackfillSegmentFrame ==
  ASSUME NEW d \in Tables, FreeSegments(d) # {}
  PROVE  LET e == BackfillSegment(d)
         IN  e \in Tables /\ SameCases(d, e) /\ e.conv.status = d.conv.status
<1>1. CASE d.conv.segment # None
  BY <1>1 DEF BackfillSegment, SameCases
<1>2. CASE d.conv.segment = None /\ d.conv.status = "human_active" /\ d.conv.agent # None
  <2>1. BackfillSegment(d) = ReplaceSegment(d, HumanOwner(d.conv.agent))
    BY <1>2 DEF BackfillSegment
  <2>2. HumanOwner(d.conv.agent) \in Owner
    BY <1>2, OwnersTyped DEF Tables, ConversationRow, AgentOrNone
  <2> QED  BY <2>1, <2>2, ReplaceSegmentFrame
<1>3. CASE /\ d.conv.segment = None /\ ~(d.conv.status = "human_active" /\ d.conv.agent # None)
           /\ d.conv.handler.type = "ai"
  <2>1. BackfillSegment(d) = ReplaceSegment(d, d.conv.handler)
    BY <1>3 DEF BackfillSegment
  <2>2. d.conv.handler \in Owner
    BY DEF Tables, ConversationRow
  <2> QED  BY <2>1, <2>2, ReplaceSegmentFrame
<1>4. CASE /\ d.conv.segment = None /\ ~(d.conv.status = "human_active" /\ d.conv.agent # None)
           /\ d.conv.handler.type # "ai"
  <2>1. BackfillSegment(d) = EnsureSystemSegment(d)
    BY <1>4 DEF BackfillSegment
  <2> QED  BY <2>1, EnsureSystemSegmentFrame
<1> QED  BY <1>1, <1>2, <1>3, <1>4

\* The intake of a message leaves the conversation with a current case.
LEMMA IntakeFrame ==
  ASSUME IInv, HasRoom, NEW stale \in BOOLEAN
  PROVE  LET d == Intake(stale)
         IN  /\ d \in Tables /\ CurrentCase(d) /\ HasCase(d) /\ KeepsSession(db, d)
<1> DEFINE f == GetOrCreateActiveConversation(db, stale)
           g == GetOrCreateActiveCase(f)
           d == BackfillSegment(g)
<1>1. f \in Tables /\ SameCases(db, f) /\ FreeSegments(f) # {}
  BY InvRows, ReopenThreadFrame DEF GetOrCreateActiveConversation, HasRoom, SameCases
<1>2. ActiveCases(f) = {f.conv.case} \ {None} /\ (HasCase(f) \/ FreeCases(f) # {})
  BY <1>1, InvRows DEF SameCases, ActiveCases, IsActiveCase, HasCase, FreeCases, HasRoom
<1>3. KeepsSession(db, f)
  BY <1>1 DEF KeepsSession, HasCase, SameCases
<1> HIDE DEF f
<1>4. /\ g \in Tables /\ HasCase(g) /\ ActiveCases(g) = {g.conv.case}
      /\ KeepsSession(f, g) /\ FreeSegments(g) # {}
  BY <1>1, <1>2, GetOrCreateActiveCaseFrame
<1> HIDE DEF g
<1>5. d \in Tables /\ SameCases(g, d)
  BY <1>4, BackfillSegmentFrame
<1>6. Intake(stale) = d
  BY DEF Intake, f, g
<1> HIDE DEF d
<1>7. HasCase(d) /\ CurrentCase(d)
  BY <1>4, <1>5 DEF SameCases, HasCase, CurrentCase, ActiveCases, IsActiveCase
<1>8. KeepsSession(db, d)
  BY <1>3, <1>4, <1>5 DEF KeepsSession, HasCase, SameCases
<1> QED  BY <1>5, <1>6, <1>7, <1>8

\* A plan for a message or a timeout is well formed; a preserving one names an agent.
LEMMA PlansTyped ==
  ASSUME NEW d \in Tables, NEW eligible \in SUBSET Agents, NEW active \in SUBSET AIAgents,
         NEW excluded, NEW plan \in Plans(d, eligible, active, excluded)
  PROVE  plan \in RoutingPlan /\ (plan.action = "preserve_existing_owner" => plan.agent \in Agents)
<1>1. CASE PreservesOwner(d, eligible)
  <2>1. d.conv.agent \in Agents /\ d.queue \in QueueRow
    BY <1>1 DEF PreservesOwner, Tables
  <2>2. plan = PreservedHumanPlan(d.conv.agent, d.queue)
    BY <1>1 DEF Plans
  <2>3. plan.agent = d.conv.agent
    BY <2>2 DEF PreservedHumanPlan
  <2> QED  BY <2>1, <2>2, <2>3, PreservedPlanTyped
<1>2. CASE ~PreservesOwner(d, eligible)
  <2>1. PICK mode \in PlanModes, sig \in CustomerSignals :
          plan \in CreatePlan(mode, sig, d.queue, UnknownLoad, eligible, active, excluded)
    BY <1>2 DEF Plans
  <2> QED  BY <2>1, CreatePlanTyped
<1> QED  BY <1>1, <1>2

\* Inbound worker: the intake and the planning transition keep the invariant.
LEMMA InboundMessageKeeps ==
  ASSUME IInv, InboundMessage
  PROVE  RowsKept
<1>1. PICK stale \in BOOLEAN, eligible \in SUBSET staff, active \in SUBSET AIAgents :
        \E plan \in Plans(Intake(stale), eligible, active, {}) :
          Commit(ApplyInboundPlan(Intake(stale), plan))
  BY DEF InboundMessage
<1> DEFINE d == Intake(stale)
<1>2. PICK plan \in Plans(d, eligible, active, {}) : Commit(ApplyInboundPlan(d, plan))
  BY <1>1
<1>3. d \in Tables /\ CurrentCase(d) /\ HasCase(d) /\ KeepsSession(db, d)
  BY IntakeFrame DEF InboundMessage
<1> HIDE DEF d
<1>4. plan \in RoutingPlan /\ (plan.action = "preserve_existing_owner" => plan.agent \in Agents)
  BY <1>3, PlansTyped, InvRows
<1> DEFINE e == ApplyInboundPlan(d, plan)
<1>5. e \in Tables /\ WritesCase(d, e, d.conv.case)
  BY <1>3, <1>4, ApplyInboundPlanFrame
<1>6. Committable(e, staff) /\ db' = e
  BY <1>2 DEF Commit
<1>7. d.conv.case \in CaseOrNone
  BY <1>3 DEF Tables, ConversationRow
<1> HIDE DEF e
<1> QED  BY <1>3, <1>5, <1>6, <1>7, WriteCommitted
-----------------------------------------------------------------------------
(* Routing worker *)

\* What the AI takeover would commit writes the case the job read, and no other.
LEMMA TakenByAIFrame ==
  ASSUME IInv, NEW j \in Jobs, FreeSegments(db) # {}
  PROVE  LET e == TakenByAI(j)
         IN  e \in Tables /\ WritesCase(db, e, jobs[j].case)
<1> DEFINE f == ActivateAIOwner(db, jobs[j].case, jobs[j].ai, "waiting_customer", "bot_active")
           q == [f.queue EXCEPT !.ai = jobs[j].ai]
<1>1. jobs[j].case \in CaseOrNone /\ jobs[j].ai \in AIAgentOrNone
  BY DEF IInv, TypeOK, Job
<1>2. "waiting_customer" \in ActiveCaseStatuses
      /\ "bot_active" \in ConversationStatus \ {"resolved"}
  BY StatusesTyped DEF ConversationStatus
<1>3. f \in Tables /\ WritesCase(db, f, jobs[j].case)
  BY <1>1, <1>2, InvRows, ActivateAIOwnerFrame
<1> HIDE DEF f
<1>4. q \in QueueRow
  BY <1>1, <1>3 DEF Tables, QueueRow
<1>5. TakenByAI(j) = [f EXCEPT !.queue = q]
  BY DEF TakenByAI, f
<1> HIDE DEF q
<1> QED  BY <1>3, <1>4, <1>5, QueueFrame DEF WritesCase, SameCases

\* What the release would commit writes the case the job read, and no other.
LEMMA ReleasedToHumansFrame ==
  ASSUME IInv, NEW j \in Jobs, FreeSegments(db) # {}
  PROVE  LET e == ReleasedToHumans(j)
         IN  e \in Tables /\ WritesCase(db, e, jobs[j].case)
<1> DEFINE f == ReleaseToQueue(db, jobs[j].case, jobs[j].reserved)
           q == [status |-> IF jobs[j].reserved = None THEN "pending" ELSE "assigned",
                 agent |-> jobs[j].reserved, ai |-> None,
                 requestMode |-> IF jobs[j].lock THEN "human_requested" ELSE "normal",
                 fallback |-> jobs[j].lock, locked |-> jobs[j].lock]
<1>1. jobs[j].case \in CaseOrNone /\ jobs[j].reserved \in AgentOrNone /\ jobs[j].lock \in BOOLEAN
  BY DEF IInv, TypeOK, Job
<1>2. f \in Tables /\ WritesCase(db, f, jobs[j].case)
  BY <1>1, InvRows, ReleaseToQueueFrame
<1> HIDE DEF f
<1>3. q \in QueueRow
  BY <1>1 DEF QueueRow, QueueStatus, RequestMode, AIAgentOrNone
<1>4. ReleasedToHumans(j) = [f EXCEPT !.queue = q]
  BY DEF ReleasedToHumans, f
<1> HIDE DEF q
<1> QED  BY <1>2, <1>3, <1>4, QueueFrame DEF WritesCase, SameCases

\* Rows keep their own closed cases.
LEMMA InvKeepsSession == KeepsSession(db, db)
BY DEF KeepsSession, HasCase

\* The AI takeover commits for the current case or changes no row.
LEMMA AITakesOverKeeps ==
  ASSUME IInv, NEW j \in Jobs, AITakesOver(j)
  PROVE  RowsKept
<1>1. CASE UNCHANGED db
  BY <1>1, Unmoved
<1>2. CASE HasCase(db) /\ Committable(TakenByAI(j), staff) /\ db' = TakenByAI(j)
  <2>1. TakenByAI(j) \in Tables /\ WritesCase(db, TakenByAI(j), jobs[j].case)
    BY TakenByAIFrame DEF AITakesOver
  <2>2. jobs[j].case \in CaseOrNone
    BY DEF IInv, TypeOK, Job
  <2> QED  BY <1>2, <2>1, <2>2, InvRows, InvKeepsSession, WriteCommitted
<1> QED  BY <1>1, <1>2 DEF AITakesOver

\* The release commits for the current case or changes no row.
LEMMA ReleaseJobKeeps ==
  ASSUME IInv, NEW j \in Jobs, ReleaseJob(j)
  PROVE  RowsKept
<1>1. CASE UNCHANGED db
  BY <1>1, Unmoved
<1>2. CASE HasCase(db) /\ Committable(ReleasedToHumans(j), staff) /\ db' = ReleasedToHumans(j)
  <2>1. ReleasedToHumans(j) \in Tables /\ WritesCase(db, ReleasedToHumans(j), jobs[j].case)
    BY ReleasedToHumansFrame DEF ReleaseJob
  <2>2. jobs[j].case \in CaseOrNone
    BY DEF IInv, TypeOK, Job
  <2> QED  BY <1>2, <2>1, <2>2, InvRows, InvKeepsSession, WriteCommitted
<1> QED  BY <1>1, <1>2 DEF ReleaseJob

\* Every step of a routing job, a crash included, keeps the rows in order.
LEMMA RoutingStepKeeps ==
  ASSUME IInv, NEW j \in Jobs, RoutingStep(j) \/ CrashJob(j)
  PROVE  RowsKept
<1>1. CASE AITakesOver(j)  BY <1>1, AITakesOverKeeps
<1>2. CASE ReleaseJob(j)   BY <1>2, ReleaseJobKeeps
<1>3. CASE SkipJob(j) \/ StartJob(j) \/ AIReplies(j) \/ AIGivesUp(j) \/ PlanRelease(j)
           \/ CompleteJob(j) \/ RescueJob(j) \/ CrashJob(j)
  BY <1>3, Unmoved DEF SkipJob, StartJob, AIReplies, AIGivesUp, PlanRelease, CompleteJob,
     RescueJob, CrashJob
<1> QED  BY <1>1, <1>2, <1>3 DEF RoutingStep
-----------------------------------------------------------------------------
(* Agent console, supervisor, outbound worker *)

\* Assigning the queue row touches nothing but the queue row.
LEMMA AssignedFrame ==
  ASSUME NEW d \in Tables, NEW a \in Agents, NEW m \in AIAgentOrNone
  PROVE  LET e == Assigned(d, a, m)
         IN  e \in Tables /\ SameCases(d, e) /\ e.conv = d.conv /\ e.segs = d.segs
<1> DEFINE q == [d.queue EXCEPT !.status = "assigned", !.agent = a, !.ai = m]
<1>1. q \in QueueRow
  BY DEF Tables, QueueRow, QueueStatus, AgentOrNone
<1>2. Assigned(d, a, m) = [d EXCEPT !.queue = q]
  BY DEF Assigned
<1> HIDE DEF q
<1> QED  BY <1>1, <1>2, QueueFrame

\* A transaction that activates a human for the current case keeps the invariant.
LEMMA HumanActivated ==
  ASSUME IInv, NEW d \in Tables, CurrentCase(d), HasCase(d), KeepsSession(db, d),
         FreeSegments(d) # {}, NEW a \in Agents,
         NEW e \in Tables,
         SameCases(ActivateHumanOwner(d, d.conv.case, a, "in_progress"), e)
           \/ SameCases(ActivateHumanOwner(d, d.conv.case, a, "waiting_customer"), e),
         Committable(e, staff), db' = e
  PROVE  RowsKept
<1>1. d.conv.case \in CaseOrNone
  BY DEF Tables, ConversationRow
<1>2. \A s \in ActiveCaseStatuses :
        WritesCase(d, ActivateHumanOwner(d, d.conv.case, a, s), d.conv.case)
  BY <1>1, ActivateHumanOwnerFrame
<1>3. "in_progress" \in ActiveCaseStatuses /\ "waiting_customer" \in ActiveCaseStatuses
  BY StatusesTyped
<1>4. WritesCase(d, e, d.conv.case)
  BY <1>2, <1>3 DEF WritesCase, SameCases
<1> QED  BY <1>1, <1>4, WriteCommitted

\* Accepting and transferring end in the same activation.
LEMMA AssignKeeps ==
  ASSUME IInv, HasCase(db), HasRoom, NEW a \in Agents, NEW m \in AIAgentOrNone,
         Commit(Assigned(ActivateHumanOwner(db, db.conv.case, a, "in_progress"), a, m))
  PROVE  RowsKept
<1> DEFINE f == ActivateHumanOwner(db, db.conv.case, a, "in_progress")
<1>1. "in_progress" \in ActiveCaseStatuses /\ FreeSegments(db) # {}
  BY StatusesTyped DEF HasRoom
<1>2. f \in Tables
  BY <1>1, InvRows, ActivateHumanOwnerFrame
<1>3. Assigned(f, a, m) \in Tables /\ SameCases(f, Assigned(f, a, m))
  BY <1>2, AssignedFrame
<1>4. Committable(Assigned(f, a, m), staff) /\ db' = Assigned(f, a, m)
  BY DEF Commit
<1> QED  BY <1>1, <1>3, <1>4, InvRows, InvKeepsSession, HumanActivated

\* Accept and transfer routes.
LEMMA ConsoleAssignKeeps ==
  ASSUME IInv, NEW a \in staff, NEW b \in staff, AcceptReservation(a) \/ TransferTo(a, b)
  PROVE  RowsKept
<1>1. None \in AIAgentOrNone /\ a \in Agents /\ b \in Agents
  BY InvRows DEF AIAgentOrNone
<1> QED  BY <1>1, AssignKeeps DEF AcceptReservation, TransferTo

\* From the invariant, the case lookup always ends with one current case.
LEMMA GetOrCreateFromInv ==
  ASSUME IInv, HasRoom, NEW f \in Tables, SameCases(db, f), FreeSegments(f) # {}
  PROVE  LET d == GetOrCreateActiveCase(f)
         IN  d \in Tables /\ CurrentCase(d) /\ HasCase(d) /\ KeepsSession(db, d)
             /\ FreeSegments(d) # {} /\ d.queue = f.queue
<1> DEFINE d == GetOrCreateActiveCase(f)
<1>1. ActiveCases(f) = {f.conv.case} \ {None} /\ (HasCase(f) \/ FreeCases(f) # {})
  BY InvRows DEF SameCases, ActiveCases, IsActiveCase, HasCase, FreeCases, HasRoom
<1>2. /\ d \in Tables /\ HasCase(d) /\ ActiveCases(d) = {d.conv.case} /\ d.queue = f.queue
      /\ KeepsSession(f, d) /\ FreeSegments(d) # {}
  BY <1>1, GetOrCreateActiveCaseFrame
<1> HIDE DEF d
<1>3. CurrentCase(d)
  BY <1>2 DEF CurrentCase, HasCase
<1>4. KeepsSession(db, d)
  BY <1>2 DEF KeepsSession, HasCase, SameCases
<1> QED  BY <1>2, <1>3, <1>4 DEF d

\* Reopen route.
LEMMA ReopenForKeeps ==
  ASSUME IInv, NEW b \in staff, ReopenFor(b)
  PROVE  RowsKept
<1> DEFINE d == GetOrCreateActiveCase(db)
           f == ActivateHumanOwner(d, d.conv.case, b, "in_progress")
           e == Assigned(f, b, d.queue.ai)
<1>1. HasRoom /\ FreeSegments(db) # {} /\ SameCases(db, db)
  BY DEF ReopenFor, HasRoom, SameCases
<1>2. /\ d \in Tables /\ CurrentCase(d) /\ HasCase(d) /\ KeepsSession(db, d)
      /\ FreeSegments(d) # {}
  BY <1>1, InvRows, GetOrCreateFromInv
<1>3. Committable(e, staff) /\ db' = e
  BY DEF ReopenFor, Commit
<1>4. b \in Agents  BY InvRows
<1> HIDE DEF d
<1>5. "in_progress" \in ActiveCaseStatuses /\ d.conv.case \in CaseOrNone
      /\ d.queue.ai \in AIAgentOrNone
  BY <1>2, StatusesTyped DEF Tables, ConversationRow, QueueRow
<1>6. f \in Tables
  BY <1>2, <1>4, <1>5, ActivateHumanOwnerFrame
<1>7. e \in Tables /\ SameCases(f, e)
  BY <1>4, <1>5, <1>6, AssignedFrame
<1> HIDE DEF e
<1> QED  BY <1>2, <1>3, <1>4, <1>7, HumanActivated

\* Supervisor transfer, which may create the case it needs.
LEMMA SupervisorTransfersKeeps ==
  ASSUME IInv, NEW b \in staff, SupervisorTransfers(b)
  PROVE  RowsKept
<1> DEFINE f == Assigned(db, b, None)
           d == GetOrCreateActiveCase(f)
           e == ActivateHumanOwner(d, d.conv.case, b, "in_progress")
<1>1. b \in Agents /\ None \in AIAgentOrNone
  BY InvRows DEF AIAgentOrNone
<1>2. f \in Tables /\ SameCases(db, f) /\ f.conv = db.conv /\ f.segs = db.segs
  BY <1>1, InvRows, AssignedFrame
<1>3. FreeSegments(f) # {} /\ HasRoom
  BY <1>2, FreeSegmentsKept DEF SupervisorTransfers, HasRoom
<1>4. Committable(e, staff) /\ db' = e
  BY DEF SupervisorTransfers, Commit, Assigned
<1> HIDE DEF f
<1>5. /\ d \in Tables /\ CurrentCase(d) /\ HasCase(d) /\ KeepsSession(db, d)
      /\ FreeSegments(d) # {}
  BY <1>2, <1>3, GetOrCreateFromInv
<1> HIDE DEF d
<1>6. "in_progress" \in ActiveCaseStatuses /\ d.conv.case \in CaseOrNone
  BY <1>5, StatusesTyped DEF Tables, ConversationRow
<1>7. e \in Tables
  BY <1>1, <1>5, <1>6, ActivateHumanOwnerFrame
<1>8. SameCases(ActivateHumanOwner(d, d.conv.case, b, "in_progress"), e)
  BY DEF SameCases
<1> HIDE DEF e
<1> QED  BY <1>1, <1>4, <1>5, <1>7, <1>8, HumanActivated

\* Outbound worker: a reply that reopens a closed thread gets a case of its own.
LEMMA DeliverReplyKeeps ==
  ASSUME IInv, NEW a \in Agents, DeliverReply(a)
  PROVE  RowsKept
<1> DEFINE g == [db EXCEPT !.conv.segment = None]
           d == IF db.conv.status = "resolved" THEN GetOrCreateActiveCase(g) ELSE db
           f == ActivateHumanOwner(d, d.conv.case, a, "waiting_customer")
           h == Assigned(f, a, f.queue.ai)
           e == [h EXCEPT !.queue.locked = FALSE]
<1>1. CASE UNCHANGED db  BY <1>1, Unmoved
<1>2. CASE /\ HasCase(db) \/ db.conv.status = "resolved"
           /\ Committable(Delivered(a), staff) /\ db' = Delivered(a)
  <2>1. HasRoom  BY DEF DeliverReply
  <2>2. g \in Tables /\ SameCases(db, g) /\ g.segs = db.segs /\ g.conv.segment = None
    BY InvRows DEF Tables, ConversationRow, SegmentOrNone, SameCases
  <2>3. FreeSegments(g) # {}
    BY <2>1, <2>2, TablesAssumption DEF HasRoom, FreeSegments, ReferredSegments, SameCases
  <2>4. /\ d \in Tables /\ CurrentCase(d) /\ HasCase(d) /\ KeepsSession(db, d)
        /\ FreeSegments(d) # {}
    <3> HIDE DEF g
    <3> QED  BY <1>2, <2>1, <2>2, <2>3, GetOrCreateFromInv, InvRows, InvKeepsSession DEF HasRoom
  <2>5. Delivered(a) = e
    BY DEF Delivered
  <2> HIDE DEF d
  <2>6. "waiting_customer" \in ActiveCaseStatuses /\ d.conv.case \in CaseOrNone
    BY <2>4, StatusesTyped DEF Tables, ConversationRow
  <2>7. f \in Tables
    BY <2>4, <2>6, ActivateHumanOwnerFrame
  <2>8. f.queue.ai \in AIAgentOrNone
    BY <2>7 DEF Tables, QueueRow
  <2>9. h \in Tables /\ SameCases(f, h)
    BY <2>7, <2>8, AssignedFrame
  <2>10. e \in Tables /\ SameCases(f, e)
    <3> DEFINE q == [h.queue EXCEPT !.locked = FALSE]
    <3> HIDE DEF h
    <3>1. q \in QueueRow
      BY <2>9 DEF Tables, QueueRow
    <3>2. e = [h EXCEPT !.queue = q]
      OBVIOUS
    <3> HIDE DEF q, e
    <3> QED  BY <2>9, <3>1, <3>2, QueueFrame DEF SameCases
  <2> HIDE DEF e
  <2> QED  BY <1>2, <2>4, <2>5, <2>10, HumanActivated
<1> QED  BY <1>1, <1>2 DEF DeliverReply

\* Handoff route, to an AI agent or to the queue.
LEMMA AgentHandsOffKeeps ==
  ASSUME IInv, AgentHandsOff
  PROVE  RowsKept
<1>1. PICK eligible \in SUBSET staff, active \in SUBSET AIAgents :
        \E plan \in CreateAgentHandoffPlan(db.queue, eligible, active) :
          IF plan.owner = "ai" THEN Commit(HandedToAI(plan.ai)) ELSE Commit(HandedToQueue(plan.agent))
  BY DEF AgentHandsOff
<1>2. PICK plan \in CreateAgentHandoffPlan(db.queue, eligible, active) :
        Commit(HandedToAI(plan.ai)) \/ Commit(HandedToQueue(plan.agent))
  BY <1>1
<1>3. plan.ai \in AIAgentOrNone /\ plan.agent \in AgentOrNone
  BY InvRows, HandoffPlanTyped DEF RoutingPlan
<1>4. HasCase(db) /\ FreeSegments(db) # {} /\ db.conv.case \in CaseOrNone
  BY InvRows DEF AgentHandsOff, HasRoom
<1>5. CASE Commit(HandedToAI(plan.ai))
  <2> DEFINE f == ActivateAIOwner(db, db.conv.case, plan.ai, "in_progress", "open")
             q == [f.queue EXCEPT !.status = "pending", !.agent = None, !.ai = plan.ai]
             e == HandedToAI(plan.ai)
  <2>1. "in_progress" \in ActiveCaseStatuses /\ "open" \in ConversationStatus \ {"resolved"}
    BY StatusesTyped DEF ConversationStatus
  <2>2. f \in Tables /\ WritesCase(db, f, db.conv.case)
    BY <1>3, <1>4, <2>1, InvRows, ActivateAIOwnerFrame
  <2>3. e = [f EXCEPT !.queue = q]
    BY DEF HandedToAI
  <2> HIDE DEF f, e
  <2>4. q \in QueueRow
    BY <1>3, <2>2 DEF Tables, QueueRow, QueueStatus, AgentOrNone
  <2> HIDE DEF q
  <2>5. e \in Tables /\ WritesCase(db, e, db.conv.case)
    BY <2>2, <2>3, <2>4, QueueFrame DEF WritesCase, SameCases
  <2>6. Committable(e, staff) /\ db' = e
    BY <1>5 DEF Commit, e
  <2> QED  BY <1>4, <2>5, <2>6, InvRows, InvKeepsSession, WriteCommitted
<1>6. CASE Commit(HandedToQueue(plan.agent))
  <2> DEFINE f == ReleaseToQueue(db, db.conv.case, plan.agent)
             q == [f.queue EXCEPT !.status = IF plan.agent = None THEN "pending" ELSE "assigned",
                                  !.agent = plan.agent, !.ai = None]
             e == HandedToQueue(plan.agent)
  <2>1. f \in Tables /\ WritesCase(db, f, db.conv.case)
    BY <1>3, <1>4, InvRows, ReleaseToQueueFrame
  <2>2. e = [f EXCEPT !.queue = q]
    BY DEF HandedToQueue
  <2> HIDE DEF f, e
  <2>3. q \in QueueRow
    BY <1>3, <2>1 DEF Tables, QueueRow, QueueStatus, AIAgentOrNone
  <2> HIDE DEF q
  <2>4. e \in Tables /\ WritesCase(db, e, db.conv.case)
    BY <2>1, <2>2, <2>3, QueueFrame DEF WritesCase, SameCases
  <2>5. Committable(e, staff) /\ db' = e
    BY <1>6 DEF Commit, e
  <2> QED  BY <1>4, <2>4, <2>5, InvRows, InvKeepsSession, WriteCommitted
<1> QED  BY <1>2, <1>5, <1>6

\* Resolve and force-close end in the same two writes.
LEMMA ClosedRows ==
  ASSUME IInv, NEW d \in Tables, SameCases(db, d), d.queue = db.queue,
         db' = ResolveQueue(ResolveConversation(d))
  PROVE  RowsKept
<1> DEFINE e == ResolveConversation(d)
           q == [e.queue EXCEPT !.status = "resolved"]
<1>1. ActiveCases(d) = {d.conv.case} \ {None}
  BY InvRows DEF SameCases, ActiveCases, IsActiveCase
<1>2. e \in Tables  BY <1>1, ResolveConversationFrame
<1>3. db' = [e EXCEPT !.queue = q]  BY DEF ResolveQueue
<1>4. q \in QueueRow
  <2> HIDE DEF e
  <2> QED  BY <1>2 DEF Tables, QueueRow, QueueStatus
<1> HIDE DEF q
<1> QED  BY <1>3, <1>4, ResolveCommitted

\* Resolve route.
LEMMA AgentResolvesKeeps ==
  ASSUME IInv, AgentResolves
  PROVE  RowsKept
BY InvRows, CloseCurrentSegmentFrame, ClosedRows DEF AgentResolves, Commit

\* Force-close by a supervisor, also of a conversation without a case.
LEMMA ForceCloseKeeps ==
  ASSUME IInv, ForceClose
  PROVE  RowsKept
<1>1. SameCases(db, db)  BY DEF SameCases
<1>2. CASE HasCase(db)
  BY <1>2, InvRows, CloseCurrentSegmentFrame, ClosedRows DEF ForceClose, Commit
<1>3. CASE ~HasCase(db)
  BY <1>1, <1>3, InvRows, ClosedRows DEF ForceClose, Commit
<1> QED  BY <1>2, <1>3
-----------------------------------------------------------------------------
(* Tenant admin, timeout worker *)

\* Deleting an agent profile rewrites owners and statuses but no case.
LEMMA RemoveAgentKeeps ==
  ASSUME IInv, NEW a \in staff, RemoveAgent(a)
  PROVE  RowsKept
<1> DEFINE qs == IF db.queue.agent = a /\ db.queue.status \in {"assigned", "pending"}
                 THEN "pending" ELSE db.queue.status
           qa == IF db.queue.agent = a THEN None ELSE db.queue.agent
           cs == IF db.conv.agent = a /\ db.conv.status = "human_active"
                 THEN "queued" ELSE db.conv.status
           ca == IF db.conv.agent = a THEN None ELSE db.conv.agent
           s  == [x \in SegmentIds |-> [db.segs[x] EXCEPT !.owner = Forget(a, db.segs[x].owner)]]
           q  == [db.queue EXCEPT !.status = qs, !.agent = qa]
           c  == [db.conv EXCEPT !.status = cs, !.agent = ca]
<1>0. db' = [db EXCEPT !.queue.status = qs, !.queue.agent = qa,
                       !.conv.status = cs, !.conv.agent = ca, !.segs = s]
  BY DEF RemoveAgent, Orphaned
<1>1. db \in Tables /\ db.queue \in QueueRow /\ db.conv \in ConversationRow
  BY InvRows DEF Tables
<1>2. q \in QueueRow
  <2>1. qs \in QueueStatus /\ qa \in AgentOrNone
    BY <1>1 DEF QueueRow, QueueStatus, AgentOrNone
  <2> HIDE DEF qs, qa
  <2> QED  BY <1>1, <2>1 DEF QueueRow
<1>3. /\ c \in ConversationRow /\ c.case = db.conv.case
      /\ c.status # "resolved" => db.conv.status # "resolved"
  <2>1. /\ cs \in ConversationStatus /\ ca \in AgentOrNone
        /\ cs # "resolved" => db.conv.status # "resolved"
    BY <1>1 DEF ConversationRow, ConversationStatus, AgentOrNone
  <2> HIDE DEF cs, ca
  <2> QED  BY <1>1, <2>1 DEF ConversationRow
<1>4. s \in [SegmentIds -> SegmentRow]
  <2>1. \A x \in SegmentIds : db.segs[x] \in SegmentRow
    BY <1>1 DEF Tables
  <2>2. \A o \in Owner : Forget(a, o) \in Owner
    BY OwnersTyped DEF Forget
  <2>3. \A r \in SegmentRow : [r EXCEPT !.owner = Forget(a, r.owner)] \in SegmentRow
    BY <2>2 DEF SegmentRow
  <2> QED  BY <2>1, <2>3
<1> HIDE DEF qs, qa, cs, ca, s
<1>5. db' = [db EXCEPT !.queue = q, !.conv = c, !.segs = s]
  BY <1>0, <1>1 DEF Tables
<1> HIDE DEF q, c
<1>6. db' \in Tables
  BY <1>1, <1>2, <1>3, <1>4, <1>5 DEF Tables
<1>7. db'.conv = c /\ db'.cases = db.cases
  BY <1>1, <1>5 DEF Tables
<1>8. CaseCurrency'
  BY <1>3, <1>7 DEF IInv, CaseCurrency, HasCase, ActiveCases, IsActiveCase
<1>9. KeepsSession(db, db')
  BY <1>3, <1>7 DEF KeepsSession
<1> QED  BY <1>6, <1>8, <1>9 DEF RowsKept

\* A reassignment by the timeout worker, whoever is excluded.
LEMMA ReassignKeeps ==
  ASSUME IInv, NEW previous, Reassign(previous)
  PROVE  RowsKept
<1>1. PICK eligible \in SUBSET staff, active \in SUBSET AIAgents :
        \E plan \in Plans(db, eligible, active, {previous}) : Commit(ApplyInboundPlan(db, plan))
  BY DEF Reassign
<1>2. PICK plan \in Plans(db, eligible, active, {previous}) : Commit(ApplyInboundPlan(db, plan))
  BY <1>1
<1>3. plan \in RoutingPlan /\ (plan.action = "preserve_existing_owner" => plan.agent \in Agents)
  BY InvRows, PlansTyped
<1> DEFINE e == ApplyInboundPlan(db, plan)
<1>4. e \in Tables /\ WritesCase(db, e, db.conv.case)
  BY <1>3, InvRows, ApplyInboundPlanFrame
<1>5. Committable(e, staff) /\ db' = e /\ HasCase(db)
  BY <1>2 DEF Commit, Reassign
<1> HIDE DEF e
<1> QED  BY <1>4, <1>5, InvRows, InvKeepsSession, WriteCommitted

\* The follow-up timeout closes the conversation.
LEMMA FollowUpKeeps ==
  ASSUME IInv, FollowUpTimeout
  PROVE  RowsKept
<1> DEFINE f == CloseCurrentSegment(db)
           d == ResolveConversation(f)
<1>1. f \in Tables /\ SameCases(db, f)
  BY InvRows, CloseCurrentSegmentFrame
<1>2. db' = [d EXCEPT !.queue = ResetQueue(d.queue)]
  BY DEF FollowUpTimeout, Commit
<1> HIDE DEF f
<1>3. ActiveCases(f) = {f.conv.case} \ {None}
  BY <1>1, InvRows DEF SameCases, ActiveCases, IsActiveCase
<1>4. d \in Tables
  BY <1>1, <1>3, ResolveConversationFrame
<1>5. ResetQueue(d.queue) \in QueueRow
  <2> HIDE DEF d
  <2> QED  BY <1>4, QueueTyped DEF Tables
<1> QED  BY <1>1, <1>2, <1>5, ResolveCommitted

\* All timers.
LEMMA TimerStepKeeps ==
  ASSUME IInv, TimerStep
  PROVE  RowsKept
BY ReassignKeeps, FollowUpKeeps DEF TimerStep, AcceptTimeout, SubsequentResponseTimeout
-----------------------------------------------------------------------------
(* Jobs *)

\* An empty job slot is a job record.
LEMMA NoJobTyped == NoJob \in Job
BY DEF NoJob, Job, JobPhases, WorkingPhases, Sides, AIAgentOrNone, AgentOrNone, CaseOrNone

\* The job queued for a plan is a job record.
LEMMA JobOfTyped ==
  ASSUME NEW plan \in RoutingPlan
  PROVE  JobOf(plan) \in Job
<1>1. FallbackPlan(plan) \in BOOLEAN
  BY DEF FallbackPlan, RoutingPlan
<1>2. "waiting" \in JobPhases  BY DEF JobPhases
<1> QED  BY <1>1, <1>2, NoJobTyped DEF JobOf, RoutingPlan, Job

\* Adding a job fills a free slot and touches no other.
LEMMA EnqueueFrame ==
  ASSUME IInv, JobRoom, NEW plan \in RoutingPlan, EnqueueOrDie(plan)
  PROVE  /\ jobs' \in [Jobs -> Job]
         /\ \A j \in Jobs : jobs[j].phase # "idle" => jobs'[j] = jobs[j]
<1>1. jobs \in [Jobs -> Job]  BY DEF IInv, TypeOK
<1>2. CASE UNCHANGED jobs  BY <1>1, <1>2
<1>3. CASE Enqueue(plan)
  <2> DEFINE j == CHOOSE x \in IdleJobs : TRUE
  <2>1. j \in Jobs /\ jobs[j].phase = "idle"
    BY DEF JobRoom, IdleJobs
  <2>2. jobs' = [jobs EXCEPT ![j] = JobOf(plan)]
    BY <1>3 DEF Enqueue
  <2> HIDE DEF j
  <2> QED  BY <1>1, <2>1, <2>2, JobOfTyped
<1> QED  BY <1>2, <1>3 DEF EnqueueOrDie

\* A step of one routing job keeps the job records and moves no other job.
LEMMA RoutingJobsTyped ==
  ASSUME IInv, NEW j \in Jobs, RoutingStep(j) \/ CrashJob(j)
  PROVE  jobs' \in [Jobs -> Job] /\ \A i \in Jobs \ {j} : jobs'[i] = jobs[i]
<1> DEFINE Moved == \E r \in Job : jobs' = [jobs EXCEPT ![j] = r]
<1>1. jobs \in [Jobs -> Job] /\ jobs[j] \in Job
  BY DEF IInv, TypeOK
<1>2. Moved => jobs' \in [Jobs -> Job] /\ \A i \in Jobs \ {j} : jobs'[i] = jobs[i]
  BY <1>1
<1>3. \A r \in Job : Advance(j, r) => Moved
  BY DEF Advance
<1>4. Finish(j) => Moved
  BY <1>3, NoJobTyped DEF Finish
<1>5. Throw(j) => Moved
  <2>1. [NoJob EXCEPT !.phase = "failed"] \in Job
    BY NoJobTyped DEF Job, JobPhases
  <2> QED  BY <1>3, <2>1, NoJobTyped DEF Throw
<1>6. \A r \in Job, lock \in BOOLEAN : BeginRelease(r, lock) \in Job
  BY DEF BeginRelease, Job, JobPhases, WorkingPhases
<1>7. db.conv.case \in CaseOrNone /\ None \in CaseOrNone /\ None \in AgentOrNone
  BY InvRows DEF CaseOrNone, AgentOrNone
<1> HIDE DEF Moved
<1>8. CASE SkipJob(j)  BY <1>2, <1>4, <1>8 DEF SkipJob
<1>9. CASE StartJob(j)
  <2> DEFINE r == [jobs[j] EXCEPT !.case = db.conv.case]
  <2>1. r \in Job /\ [r EXCEPT !.phase = "running"] \in Job
    BY <1>1, <1>7 DEF Job, JobPhases, WorkingPhases
  <2>2. Advance(j, IF r.ai = None THEN BeginRelease(r, FALSE) ELSE [r EXCEPT !.phase = "running"])
    BY <1>9 DEF StartJob
  <2> HIDE DEF r
  <2> QED  BY <1>2, <1>3, <1>6, <2>1, <2>2
<1>10. CASE AIReplies(j)
  <2>1. [jobs[j] EXCEPT !.phase = "replying", !.reserved = None] \in Job
    BY <1>1, <1>7 DEF Job, JobPhases, WorkingPhases
  <2> QED  BY <1>2, <1>3, <1>10, <2>1 DEF AIReplies
<1>11. CASE AIGivesUp(j)
  BY <1>1, <1>2, <1>3, <1>6, <1>11, NoJobTyped DEF AIGivesUp
<1>12. CASE AITakesOver(j)
  <2>1. [NoJob EXCEPT !.phase = "committed", !.owner = "ai", !.ai = jobs[j].ai,
                      !.fallback = jobs[j].fallback, !.stalled = jobs[j].stalled] \in Job
    BY <1>1, NoJobTyped DEF Job, JobPhases, WorkingPhases, Sides
  <2> QED  BY <1>2, <1>3, <1>5, <1>12, <2>1 DEF AITakesOver
<1>13. CASE PlanRelease(j)
  <2>1. CASE Throw(j)  BY <1>2, <1>5, <2>1
  <2>2. CASE \E eligible \in SUBSET staff : \E h \in DecideForTarget(eligible, {}) :
               Advance(j, [jobs[j] EXCEPT !.phase = "releasing", !.reserved = h])
    <3>1. PICK h \in AgentOrNone :
            Advance(j, [jobs[j] EXCEPT !.phase = "releasing", !.reserved = h])
      BY <2>2, InvRows, ChoicesTyped
    <3>2. [jobs[j] EXCEPT !.phase = "releasing", !.reserved = h] \in Job
      BY <1>1 DEF Job, JobPhases, WorkingPhases
    <3> QED  BY <1>2, <1>3, <3>1, <3>2
  <2> QED  BY <1>13, <2>1, <2>2 DEF PlanRelease
<1>14. CASE ReleaseJob(j)
  <2>1. [jobs[j] EXCEPT !.phase = "committed"] \in Job
    BY <1>1 DEF Job, JobPhases, WorkingPhases
  <2> QED  BY <1>2, <1>3, <1>4, <1>5, <1>14, <2>1 DEF ReleaseJob
<1>15. CASE CompleteJob(j)  BY <1>2, <1>4, <1>15 DEF CompleteJob
<1>16. CASE RescueJob(j)
  <2>1. [NoJob EXCEPT !.phase = "planning", !.case = db.conv.case, !.rescue = TRUE] \in Job
    BY <1>7, NoJobTyped DEF Job, JobPhases, WorkingPhases
  <2> QED  BY <1>2, <1>3, <1>4, <1>16, <2>1 DEF RescueJob
<1>17. CASE CrashJob(j)
  <2>1. [jobs[j] EXCEPT !.phase = "waiting", !.case = None, !.lock = FALSE, !.stalled = TRUE] \in Job
    BY <1>1, <1>7 DEF Job, JobPhases
  <2>2. Finish(j) \/ Throw(j)
        \/ Advance(j, [jobs[j] EXCEPT !.phase = "waiting", !.case = None,
                                      !.lock = FALSE, !.stalled = TRUE])
    BY <1>17 DEF CrashJob
  <2> QED  BY <1>2, <1>3, <1>4, <1>5, <2>1, <2>2
<1> QED  BY <1>8, <1>9, <1>10, <1>11, <1>12, <1>13, <1>14, <1>15, <1>16, <1>17 DEF RoutingStep

\* A message adds a job without touching the ones under way.
LEMMA InboundJobsTyped ==
  ASSUME IInv, InboundMessage
  PROVE  jobs' \in [Jobs -> Job] /\ \A j \in Jobs : jobs[j].phase # "idle" => jobs'[j] = jobs[j]
<1>1. PICK stale \in BOOLEAN, eligible \in SUBSET staff, active \in SUBSET AIAgents :
        \E plan \in Plans(Intake(stale), eligible, active, {}) : EnqueueOrDie(plan)
  BY DEF InboundMessage
<1>2. Intake(stale) \in Tables
  BY IntakeFrame DEF InboundMessage
<1>3. PICK plan \in RoutingPlan : EnqueueOrDie(plan)
  BY <1>1, <1>2, InvRows, PlansTyped
<1> QED  BY <1>3, EnqueueFrame DEF InboundMessage

\* A handoff adds at most a job without touching the ones under way.
LEMMA HandsOffJobsTyped ==
  ASSUME IInv, AgentHandsOff
  PROVE  jobs' \in [Jobs -> Job] /\ \A j \in Jobs : jobs[j].phase # "idle" => jobs'[j] = jobs[j]
<1>1. CASE UNCHANGED jobs  BY <1>1 DEF IInv, TypeOK
<1>2. CASE ~UNCHANGED jobs
  <2>1. PICK eligible \in SUBSET staff, active \in SUBSET AIAgents :
          \E plan \in CreateAgentHandoffPlan(db.queue, eligible, active) : EnqueueOrDie(plan)
    BY <1>2 DEF AgentHandsOff
  <2>2. PICK plan \in RoutingPlan : EnqueueOrDie(plan)
    BY <2>1, InvRows, HandoffPlanTyped
  <2> QED  BY <2>2, EnqueueFrame DEF AgentHandsOff
<1> QED  BY <1>1, <1>2

\* A reassignment adds at most a job without touching the ones under way.
LEMMA ReassignJobsTyped ==
  ASSUME IInv, NEW previous, Reassign(previous)
  PROVE  jobs' \in [Jobs -> Job] /\ \A j \in Jobs : jobs[j].phase # "idle" => jobs'[j] = jobs[j]
<1>1. CASE UNCHANGED jobs  BY <1>1 DEF IInv, TypeOK
<1>2. CASE ~UNCHANGED jobs
  <2>1. PICK eligible \in SUBSET staff, active \in SUBSET AIAgents :
          \E plan \in Plans(db, eligible, active, {previous}) : EnqueueOrDie(plan)
    BY <1>2 DEF Reassign
  <2>2. PICK plan \in RoutingPlan : EnqueueOrDie(plan)
    BY <2>1, InvRows, PlansTyped
  <2> QED  BY <2>2, EnqueueFrame DEF Reassign
<1> QED  BY <1>1, <1>2
-----------------------------------------------------------------------------
(* The theorems *)

\* The invariant holds of a chat seen before, with nothing under way.
LEMMA InvInit == Init => IInv
<1> SUFFICES ASSUME Init PROVE IInv
  OBVIOUS
<1>1. jobs \in [Jobs -> Job]
  BY NoJobTyped DEF Init
<1>2. TypeOK
  BY <1>1, EmptyTablesTyped DEF Init, TypeOK
<1>3. CaseCurrency
  <2>1. db.conv.status = "resolved" /\ db.conv.case = None
        /\ \A k \in CaseIds : db.cases[k].status = "none"
    BY DEF Init, EmptyTables, NoCase
  <2> QED  BY <2>1, StatusesTyped DEF CaseCurrency, HasCase, ActiveCases, IsActiveCase
<1> QED  BY <1>2, <1>3 DEF IInv

\* The steps of the console, the admins and the outbound worker add no job.
LEMMA DeskStepJobs ==
  ASSUME IInv,
         \/ \E a \in staff : \/ AgentReplies(a) \/ AcceptReservation(a) \/ ReopenFor(a)
                             \/ SupervisorTransfers(a) \/ RemoveAgent(a)
         \/ \E a, b \in staff : TransferTo(a, b)
         \/ \E a \in Agents : DeliverReply(a)
         \/ AgentResolves \/ ForceClose \/ FollowUpTimeout
  PROVE  UNCHANGED jobs
BY DEF AgentReplies, AcceptReservation, ReopenFor, SupervisorTransfers, RemoveAgent, TransferTo,
   DeliverReply, AgentResolves, ForceClose, FollowUpTimeout

\* Every step keeps the rows in order, by the action it is.
LEMMA StepKeepsRows ==
  ASSUME IInv, [Next]_vars
  PROVE  RowsKept
<1>1. CASE UNCHANGED vars  BY <1>1, Unmoved DEF vars
<1>2. CASE InboundMessage  BY <1>2, InboundMessageKeeps
<1>3. CASE \E j \in Jobs : RoutingStep(j) \/ CrashJob(j)  BY <1>3, RoutingStepKeeps
<1>4. CASE \E a \in Agents : DeliverReply(a)  BY <1>4, DeliverReplyKeeps
<1>5. CASE ConsoleStep
  <2>1. CASE \E a \in staff : AgentReplies(a)
    BY <2>1, Unmoved DEF AgentReplies
  <2>2. CASE \E a \in staff : AcceptReservation(a) \/ \E b \in staff : TransferTo(b, a)
    BY <2>2, ConsoleAssignKeeps
  <2>3. CASE \E a \in staff : ReopenFor(a)
    BY <2>3, ReopenForKeeps
  <2> QED  BY <1>5, <2>1, <2>2, <2>3, AgentHandsOffKeeps, AgentResolvesKeeps DEF ConsoleStep
<1>6. CASE AdminStep
  BY <1>6, SupervisorTransfersKeeps, RemoveAgentKeeps, ForceCloseKeeps DEF AdminStep
<1>7. CASE TimerStep  BY <1>7, TimerStepKeeps
<1> QED  BY <1>1, <1>2, <1>3, <1>4, <1>5, <1>6, <1>7 DEF Next

\* Every step keeps the job records, by the action it is.
LEMMA StepKeepsJobs ==
  ASSUME IInv, [Next]_vars
  PROVE  jobs' \in [Jobs -> Job]
<1>1. jobs \in [Jobs -> Job]  BY DEF IInv, TypeOK
<1>2. CASE UNCHANGED vars  BY <1>1, <1>2 DEF vars
<1>3. CASE InboundMessage  BY <1>3, InboundJobsTyped
<1>4. CASE \E j \in Jobs : RoutingStep(j) \/ CrashJob(j)  BY <1>4, RoutingJobsTyped
<1>5. CASE AgentHandsOff  BY <1>5, HandsOffJobsTyped
<1>6. CASE AcceptTimeout \/ SubsequentResponseTimeout
  BY <1>6, ReassignJobsTyped DEF AcceptTimeout, SubsequentResponseTimeout
<1>7. CASE UNCHANGED jobs  BY <1>1, <1>7
<1> QED
  BY <1>2, <1>3, <1>4, <1>5, <1>6, <1>7, DeskStepJobs DEF Next, ConsoleStep, AdminStep, TimerStep

\* Every step keeps the sets of agents, by the action it is.
LEMMA StepKeepsPeople ==
  ASSUME IInv, [Next]_vars
  PROVE  outbox' \subseteq Agents /\ staff' \subseteq Agents
<1>1. outbox \subseteq Agents /\ staff \subseteq Agents  BY DEF IInv, TypeOK
<1>2. CASE UNCHANGED <<outbox, staff>>  BY <1>1, <1>2
<1>3. CASE \E a \in staff : AgentReplies(a)  BY <1>1, <1>3 DEF AgentReplies
<1>4. CASE \E a \in staff : RemoveAgent(a)  BY <1>1, <1>4 DEF RemoveAgent
<1>5. CASE \E a \in Agents : DeliverReply(a)  BY <1>1, <1>5 DEF DeliverReply
<1>6. CASE \E j \in Jobs : RoutingStep(j) \/ CrashJob(j)
  BY <1>2, <1>6 DEF RoutingStep, SkipJob, StartJob, AIReplies, AIGivesUp, AITakesOver, PlanRelease,
     ReleaseJob, CompleteJob, RescueJob, CrashJob
<1>7. CASE TimerStep
  BY <1>2, <1>7 DEF TimerStep, AcceptTimeout, SubsequentResponseTimeout, FollowUpTimeout, Reassign
<1>8. CASE InboundMessage \/ AgentHandsOff \/ AgentResolves \/ ForceClose
  BY <1>2, <1>8 DEF InboundMessage, AgentHandsOff, AgentResolves, ForceClose
<1>9. CASE \/ \E a \in staff : AcceptReservation(a) \/ ReopenFor(a) \/ SupervisorTransfers(a)
           \/ \E a, b \in staff : TransferTo(a, b)
  BY <1>2, <1>9 DEF AcceptReservation, ReopenFor, SupervisorTransfers, TransferTo
<1> QED
  BY <1>2, <1>3, <1>4, <1>5, <1>6, <1>7, <1>8, <1>9 DEF Next, ConsoleStep, AdminStep, vars

\* The invariant is inductive.
LEMMA InvStep == IInv /\ [Next]_vars => IInv'
<1> SUFFICES ASSUME IInv, [Next]_vars PROVE IInv'
  OBVIOUS
<1> QED  BY StepKeepsRows, StepKeepsJobs, StepKeepsPeople DEF IInv, TypeOK, RowsKept

\* The inductive invariant holds in every reachable state.
THEOREM Inductive == Spec => []IInv
<1> QED  BY InvInit, InvStep, PTL DEF Spec

(***************************************************************************)
(* Every row, job and queued reply keeps its shape, whatever the workers,  *)
(* routes and timers of the conversation do.                               *)
(***************************************************************************)
THEOREM WellTyped == Spec => []TypeOK
<1>1. IInv => TypeOK  BY DEF IInv
<1> QED  BY <1>1, Inductive, PTL

(***************************************************************************)
(* However the services interleave, the conversation row and the case table*)
(* agree on the one case that is active.                                   *)
(***************************************************************************)
THEOREM CaseIsCurrent == Spec => []CaseCurrency
<1>1. IInv => CaseCurrency  BY DEF IInv
<1> QED  BY <1>1, Inductive, PTL

(***************************************************************************)
(* A case that closeCase resolved stays resolved: no job, reply or reopen  *)
(* that still remembers its id writes it again.                            *)
(***************************************************************************)
THEOREM NoClosedCaseReopens == Spec => ClosedStaysClosed
<1>1. IInv /\ [Next]_vars =>
        [\A k \in CaseIds : db.cases[k].status = "resolved" => db'.cases[k].status = "resolved"]_vars
  BY StepKeepsRows DEF RowsKept, KeepsSession, EndsSession
<1> QED  BY <1>1, Inductive, PTL DEF Spec, ClosedStaysClosed

\* What a step does to the rows, said in the terms of ConversationSessions.
LEMMA StepMapsToSessions ==
  ASSUME IInv, [Next]_vars
  PROVE  [Sessions!Next]_(Sessions!vars)
<1> DEFINE past == {k \in CaseIds : db.cases[k].status = "resolved"}
<1>1. RowsKept
  BY StepKeepsRows
<1>2. db.conv.case \in CaseOrNone /\ db'.conv.case \in CaseOrNone
  BY <1>1, InvRows DEF RowsKept, Tables, ConversationRow
<1>3. db'.conv.case # None => db'.conv.case \in CaseIds /\ db'.cases[db'.conv.case].status # "resolved"
  <2>1. db'.conv.case # None => IsActiveCase(db', db'.conv.case)
    BY <1>1, <1>2 DEF RowsKept, CaseCurrency, ActiveCases, IsActiveCase, CaseOrNone
  <2> QED  BY <1>2, <2>1, StatusesTyped DEF IsActiveCase, CaseOrNone
<1>4. CASE KeepsSession(db, db')
  <2>1. past' = past
    BY <1>4 DEF KeepsSession
  <2>2. CASE HasCase(db)
    <3>1. db'.conv.case = db.conv.case
      BY <1>4, <2>2 DEF KeepsSession
    <3> QED  BY <2>1, <3>1 DEF Sessions!vars
  <2>3. CASE ~HasCase(db) /\ db'.conv.case = None
    BY <2>1, <2>3 DEF Sessions!vars, HasCase
  <2>4. CASE ~HasCase(db) /\ db'.conv.case # None
    <3>1. Sessions!Begin(db'.conv.case)
      BY <1>3, <2>1, <2>4 DEF Sessions!Begin, HasCase
    <3> QED  BY <1>3, <2>4, <3>1 DEF Sessions!Next
  <2> QED  BY <2>2, <2>3, <2>4
<1>5. CASE EndsSession(db, db')
  <2>1. past' = past \cup ({db.conv.case} \ {None})
    BY <1>2, <1>5, TablesAssumption DEF EndsSession, CaseOrNone
  <2>2. CASE HasCase(db)
    <3>1. Sessions!End
      BY <1>5, <2>1, <2>2 DEF Sessions!End, EndsSession, HasCase
    <3> QED  BY <3>1 DEF Sessions!Next
  <2>3. CASE ~HasCase(db)
    <3>1. past' = past /\ db'.conv.case = db.conv.case
      BY <1>5, <2>1, <2>3 DEF EndsSession, HasCase
    <3> QED  BY <3>1 DEF Sessions!vars
  <2> QED  BY <2>2, <2>3
<1> QED  BY <1>1, <1>4, <1>5 DEF RowsKept

(***************************************************************************)
(* Every write that the workers, routes and timers make to the cases of a  *)
(* conversation begins a session, ends the current one or leaves the       *)
(* sessions alone: the tables implement ConversationSessions.              *)
(***************************************************************************)
THEOREM ServedInSessions == Spec => OneSessionAtATime
<1>1. Init => Sessions!Init
  BY DEF Init, EmptyTables, NoCase, Sessions!Init
<1>2. IInv /\ [Next]_vars => [Sessions!Next]_(Sessions!vars)
  BY StepMapsToSessions
<1> QED  BY <1>1, <1>2, Inductive, PTL DEF Spec, OneSessionAtATime, Sessions!Spec

\* A step that moves a job with an outdated case leaves the rows alone.
LEMMA LateStep ==
  ASSUME IInv, [Next]_vars, NEW j \in Jobs, jobs[j].phase \in {"replying", "releasing"},
         jobs'[j] # jobs[j], jobs[j].case \notin {None, db.conv.case}
  PROVE  db' = db
<1>1. jobs \in [Jobs -> Job]  BY DEF IInv, TypeOK
<1>2. jobs[j].phase # "idle"  OBVIOUS
<1>3. ~UNCHANGED jobs  OBVIOUS
<1>4. PICK i \in Jobs : RoutingStep(i) \/ CrashJob(i)
  BY <1>2, <1>3, InboundJobsTyped, HandsOffJobsTyped, ReassignJobsTyped, DeskStepJobs
  DEF Next, ConsoleStep, AdminStep, TimerStep, AcceptTimeout, SubsequentResponseTimeout, vars
<1>5. i = j
  BY <1>4, RoutingJobsTyped
<1>6. CASE AITakesOver(j)
  <2> SUFFICES ASSUME HasCase(db), Committable(TakenByAI(j), staff) PROVE FALSE
    BY <1>6 DEF AITakesOver
  <2>1. TakenByAI(j) \in Tables /\ WritesCase(db, TakenByAI(j), jobs[j].case)
    BY <1>6, TakenByAIFrame DEF AITakesOver
  <2>2. jobs[j].case \in CaseOrNone
    BY <1>1 DEF Job
  <2> QED  BY <2>1, <2>2, InvRows, OnlyCurrentCaseWritten DEF Committable
<1>7. CASE ReleaseJob(j)
  <2> SUFFICES ASSUME HasCase(db), Committable(ReleasedToHumans(j), staff) PROVE FALSE
    BY <1>7 DEF ReleaseJob
  <2>1. ReleasedToHumans(j) \in Tables /\ WritesCase(db, ReleasedToHumans(j), jobs[j].case)
    BY <1>7, ReleasedToHumansFrame DEF ReleaseJob
  <2>2. jobs[j].case \in CaseOrNone
    BY <1>1 DEF Job
  <2> QED  BY <2>1, <2>2, InvRows, OnlyCurrentCaseWritten DEF Committable
<1> QED
  BY <1>4, <1>5, <1>6, <1>7 DEF RoutingStep, SkipJob, StartJob, AIReplies, AIGivesUp, PlanRelease,
     CompleteJob, RescueJob, CrashJob

(***************************************************************************)
(* The unique index turns every late write of a routing job into a refused *)
(* transaction: a job that read an earlier case changes nothing.           *)
(***************************************************************************)
THEOREM LateJobsChangeNothing == Spec => StaleJobHarmless
<1>1. IInv /\ [Next]_vars =>
        [\A j \in Jobs :
           (/\ jobs[j].phase \in {"replying", "releasing"} /\ jobs'[j] # jobs[j]
            /\ jobs[j].case \notin {None, db.conv.case}) => db' = db]_vars
  BY LateStep
<1> QED  BY <1>1, Inductive, PTL DEF Spec, StaleJobHarmless

\* The foreign keys: committed rows name existing agents.
LEMMA CommittedNames ==
  ASSUME NEW e, Committable(e, staff)
  PROVE  {e.conv.agent, e.queue.agent} \subseteq staff \cup {None}
BY DEF Committable, NamedAgents

\* Assignees exist before and after every step.
LEMMA NamesStep == IInv /\ AssigneesExist /\ [Next]_vars => AssigneesExist'
<1> SUFFICES ASSUME IInv, AssigneesExist, [Next]_vars PROVE AssigneesExist'
  OBVIOUS
<1>1. CASE UNCHANGED <<db, staff>>
  BY <1>1 DEF AssigneesExist
<1>2. CASE Committable(db', staff) /\ staff' = staff
  BY <1>2, CommittedNames DEF AssigneesExist
<1>3. CASE UNCHANGED vars  BY <1>1, <1>3 DEF vars
<1>4. CASE InboundMessage  BY <1>2, <1>4 DEF InboundMessage, Commit
<1>5. CASE \E j \in Jobs : RoutingStep(j) \/ CrashJob(j)
  BY <1>1, <1>2, <1>5 DEF RoutingStep, SkipJob, StartJob, AIReplies, AIGivesUp, AITakesOver,
     PlanRelease, ReleaseJob, CompleteJob, RescueJob, CrashJob
<1>6. CASE \E a \in Agents : DeliverReply(a)
  BY <1>1, <1>2, <1>6 DEF DeliverReply
<1>7. CASE ConsoleStep
  BY <1>1, <1>2, <1>7 DEF ConsoleStep, AgentReplies, AcceptReservation, ReopenFor, TransferTo,
     AgentHandsOff, AgentResolves, Commit
<1>8. CASE \E a \in staff : RemoveAgent(a)
  <2>1. PICK a \in staff : RemoveAgent(a)  BY <1>8
  <2>2. db'.conv.agent = (IF db.conv.agent = a THEN None ELSE db.conv.agent)
        /\ db'.queue.agent = (IF db.queue.agent = a THEN None ELSE db.queue.agent)
    BY <2>1, InvRows DEF RemoveAgent, Orphaned, Tables, ConversationRow, QueueRow
  <2> QED  BY <2>1, <2>2 DEF AssigneesExist, RemoveAgent
<1>9. CASE (\E a \in staff : SupervisorTransfers(a)) \/ ForceClose
  BY <1>2, <1>9 DEF SupervisorTransfers, ForceClose, Commit
<1>10. CASE TimerStep
  BY <1>2, <1>10 DEF TimerStep, AcceptTimeout, SubsequentResponseTimeout, FollowUpTimeout,
     Reassign, Commit
<1> QED  BY <1>3, <1>4, <1>5, <1>6, <1>7, <1>8, <1>9, <1>10 DEF Next, AdminStep

(***************************************************************************)
(* Deleting an agent profile while plans, releases and replies that name   *)
(* the agent are under way leaves no assignment to a deleted agent.        *)
(***************************************************************************)
THEOREM NoGhostAssignee == Spec => []AssigneesExist
<1>1. Init => AssigneesExist
  BY DEF Init, EmptyTables, AssigneesExist
<1> QED  BY <1>1, NamesStep, Inductive, PTL DEF Spec
=============================================================================
