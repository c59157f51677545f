----------------------- MODULE ConversationOwnership -----------------------
(***************************************************************************)
(* Who owns a customer conversation: the life of one conversation under    *)
(* the inbound worker, the routing worker (AI runtime), the outbound       *)
(* worker, the timeout worker and the agent and supervisor HTTP routes.    *)
(*                                                                         *)
(* A database transaction is one step.  Code that runs in several          *)
(* transactions, or that hands work to a BullMQ queue, is several steps,   *)
(* and everything else may happen between them: the routing job between    *)
(* its reading of the conversation and its writing back after the AI model *)
(* answered; an agent's reply between the permission check of the route and*)
(* the delivery by the outbound worker.                                    *)
(*                                                                         *)
(* Left open: which agents are eligible at a moment, which of them dispatch*)
(* prefers, what the AI answers, and when a timer fires.  Message rows,    *)
(* notices, audit traces and SLA records are not part of the state.        *)
(***************************************************************************)
EXTENDS ConversationTables

CONSTANTS Admins,          \* agents whose account has the admin role
          Jobs,            \* bound: routing jobs alive at once
          PlanModes,       \* modes the tenant and its routing rules can yield
          CustomerSignals, \* what the customer's messages may say
          StaleQueue,      \* the customer may come back after the stale threshold
          AgentRemoval,    \* a tenant admin may delete agent profiles
          WorkerCrashes    \* the process of a worker or of the API may die

ASSUME OwnershipAssumption ==
  /\ Admins \subseteq Agents
  /\ PlanModes \subseteq RoutingPlanMode
  /\ CustomerSignals \subseteq Signals
  /\ {StaleQueue, AgentRemoval, WorkerCrashes} \subseteq BOOLEAN

VARIABLES db,     \* the conversation's rows
          jobs,   \* the routing queue and the jobs its worker is running
          outbox, \* agents with a reply on the outbound queue
          staff   \* agents that have a profile

vars == <<db, jobs, outbox, staff>>

(***************************************************************************)
(* A routing job.                                                          *)
(*   waiting    on the queue                                               *)
(*   running    past the guards, the AI model is working                   *)
(*   replying   the reply is on the outbound queue, ownership not yet taken*)
(*   planning   a handoff without a reserved agent: tx 1 of the release    *)
(*   releasing  the target is known: tx 2 of the release                   *)
(*   committed  its last transaction is in, the job is not yet completed   *)
(*   failed     BullMQ has emitted "failed", the handler has not begun     *)
(* owner, ai, fallback and reserved come from the plan; case is the case   *)
(* the worker read; lock says whether the release locks the human side;    *)
(* rescue marks the steps of the "failed" handler; stalled that the job    *)
(* already stalled once.                                                   *)
(***************************************************************************)
WorkingPhases == {"running", "replying", "planning", "releasing", "committed"}
JobPhases     == {"idle", "waiting", "failed"} \cup WorkingPhases

Job == [phase : JobPhases, owner : Sides, ai : AIAgentOrNone, fallback : BOOLEAN,
        reserved : AgentOrNone, case : CaseOrNone, lock : BOOLEAN,
        rescue : BOOLEAN, stalled : BOOLEAN]

NoJob == [phase |-> "idle", owner |-> "human", ai |-> None, fallback |-> FALSE,
          reserved |-> None, case |-> None, lock |-> FALSE,
          rescue |-> FALSE, stalled |-> FALSE]

\* Mutant: every plan that lets an AI agent step in counts as fallback mode.
FallbackPlan_AnyAI(plan) == plan.owner = "ai"

\* isAiFallback of a plan.
FallbackPlan(plan) == plan.fallback /\ plan.requestMode = "human_requested"

JobOf(plan) ==
  [NoJob EXCEPT !.phase = "waiting", !.owner = plan.owner, !.ai = plan.ai,
                !.fallback = FallbackPlan(plan), !.reserved = plan.reserved]

IdleJobs  == {j \in Jobs : jobs[j].phase = "idle"}
AliveJobs == Jobs \ IdleJobs

Enqueue(plan) ==
  LET j == CHOOSE x \in IdleJobs : TRUE IN jobs' = [jobs EXCEPT ![j] = JobOf(plan)]

\* The process may die after its transaction and before routingQueue.add; an
\* inbound job is then run again, which is another InboundMessage.
EnqueueOrDie(plan) == Enqueue(plan) \/ (WorkerCrashes /\ UNCHANGED jobs)

TypeOK ==
  /\ db \in Tables
  /\ jobs \in [Jobs -> Job]
  /\ outbox \subseteq Agents
  /\ staff \subseteq Agents

Init ==
  /\ db = EmptyTables
  /\ jobs = [j \in Jobs |-> NoJob]
  /\ outbox = {}
  /\ staff = Agents
-----------------------------------------------------------------------------
(* Bounds: an action that may need a new id is only taken while one is left. *)

HasRoom == FreeSegments(db) # {} /\ (FreeCases(db) # {} \/ HasCase(db))
JobRoom == IdleJobs # {}

\* A stale queued conversation leaves its segment behind, which is never ended.
StaleRoom == Cardinality(FreeSegments(db)) > 2

Commit(d) == Committable(d, staff) /\ db' = d
-----------------------------------------------------------------------------
(* Inbound worker *)

(***************************************************************************)
(* getOrCreateActiveConversation.  A queued conversation past the stale    *)
(* threshold is resolved in place and, being the latest resolved one,      *)
(* reopened at once; both updates reset the queue row's service mode.      *)
(***************************************************************************)
ResetQueue(q) == [q EXCEPT !.status = "resolved", !.requestMode = "normal", !.locked = FALSE, !.fallback = FALSE]

ReopenThread(d) ==
  [d EXCEPT !.conv  = [@ EXCEPT !.status = "open", !.agent = None, !.handler = SystemOwner,
                                !.segment = None],
            !.queue = ResetQueue(d.queue)]

GetOrCreateActiveConversation(d, stale) ==
  IF d.conv.status = "resolved" \/ stale THEN ReopenThread(d) ELSE d

BackfillSegment(d) ==
  CASE d.conv.segment # None -> d
    [] d.conv.segment = None /\ d.conv.status = "human_active" /\ d.conv.agent # None ->
         ReplaceSegment(d, HumanOwner(d.conv.agent))
    [] d.conv.segment = None /\ ~(d.conv.status = "human_active" /\ d.conv.agent # None)
         /\ d.conv.handler.type = "ai" -> ReplaceSegment(d, d.conv.handler)
    [] OTHER -> EnsureSystemSegment(d)

\* shouldPreserveHumanOwner
PreservesOwner(d, eligible) ==
  /\ HasCase(d) /\ d.cases[d.conv.case].owner.type = "human"
  /\ d.conv.status = "human_active"
  /\ d.conv.agent \in eligible

\* The AI load is never known (aiSoftConcurrencyLimit is passed as null) and
\* the human load is at most 100, so the loads decide nothing here.
UnknownLoad == [human |-> None, ai |-> None]

Plans(d, eligible, active, excluded) ==
  IF PreservesOwner(d, eligible)
  THEN {PreservedHumanPlan(d.conv.agent, d.queue)}
  ELSE UNION {CreatePlan(mode, sig, d.queue, UnknownLoad, eligible, active, excluded) :
                mode \in PlanModes, sig \in CustomerSignals}

\* The rows the intake of a message leaves for the routing engine.
Intake(stale) ==
  BackfillSegment(GetOrCreateActiveCase(GetOrCreateActiveConversation(db, stale)))

InboundMessage ==
  /\ HasRoom /\ JobRoom
  /\ \E stale \in (IF StaleQueue /\ StaleRoom /\ db.conv.status = "queued" THEN BOOLEAN ELSE {FALSE}),
        eligible \in SUBSET staff, active \in SUBSET AIAgents :
       LET d == Intake(stale)
       IN  \E plan \in Plans(d, eligible, active, {}) :
             /\ plan.action = "preserve_existing_owner" => CanPreserve(d, plan.agent)
             /\ Commit(ApplyInboundPlan(d, plan))
             /\ EnqueueOrDie(plan)
  /\ UNCHANGED <<outbox, staff>>
-----------------------------------------------------------------------------
(* Routing worker *)

Advance(j, r) == jobs' = [jobs EXCEPT ![j] = r]
Finish(j)     == Advance(j, NoJob)

\* A throw fails the job; in the "failed" handler it is swallowed.
Throw(j) == Advance(j, IF jobs[j].rescue THEN NoJob ELSE [NoJob EXCEPT !.phase = "failed"])

\* The release knows its target when the plan reserved an agent.
BeginRelease(r, lock) ==
  [r EXCEPT !.phase = IF r.reserved = None THEN "planning" ELSE "releasing", !.lock = lock]

SkipJob(j) ==
  /\ jobs[j].phase = "waiting"
  /\ jobs[j].owner = "human" \/ db.conv.status = "human_active"
  /\ Finish(j)
  /\ UNCHANGED <<db, outbox, staff>>

StartJob(j) ==
  LET r == [jobs[j] EXCEPT !.case = db.conv.case]
  IN  /\ jobs[j].phase = "waiting" /\ jobs[j].owner = "ai"
      /\ db.conv.status # "human_active"
      /\ Advance(j, IF r.ai = None THEN BeginRelease(r, FALSE) ELSE [r EXCEPT !.phase = "running"])
      /\ UNCHANGED <<db, outbox, staff>>

\* The model answered: the reply goes to the outbound queue first.
AIReplies(j) ==
  /\ jobs[j].phase = "running"
  /\ Advance(j, [jobs[j] EXCEPT !.phase = "replying", !.reserved = None])
  /\ UNCHANGED <<db, outbox, staff>>

\* Handoff, unusable reply or orchestrator error: in the fallback mode nothing
\* is done, since the customer "is already queued"; otherwise a release begins.
AIGivesUp(j) ==
  /\ jobs[j].phase = "running"
  /\ Advance(j, IF jobs[j].fallback THEN NoJob ELSE BeginRelease(jobs[j], TRUE))
  /\ UNCHANGED <<db, outbox, staff>>

TakenByAI(j) ==
  LET d == ActivateAIOwner(db, jobs[j].case, jobs[j].ai, "waiting_customer", "bot_active")
  IN  [d EXCEPT !.queue.ai = jobs[j].ai]

AITakesOver(j) ==
  /\ jobs[j].phase = "replying" /\ FreeSegments(db) # {}
  /\ IF HasCase(db) /\ Committable(TakenByAI(j), staff)
     THEN db' = TakenByAI(j) /\ Advance(j, [NoJob EXCEPT !.phase = "committed", !.owner = "ai",
                 !.ai = jobs[j].ai, !.fallback = jobs[j].fallback, !.stalled = jobs[j].stalled])
     ELSE Throw(j) /\ UNCHANGED db
  /\ UNCHANGED <<outbox, staff>>

\* tx 1 of the release: routingContextService.build throws without a case.
PlanRelease(j) ==
  /\ jobs[j].phase = "planning"
  /\ IF HasCase(db)
     THEN \E eligible \in SUBSET staff : \E h \in DecideForTarget(eligible, {}) :
            Advance(j, [jobs[j] EXCEPT !.phase = "releasing", !.reserved = h])
     ELSE Throw(j)
  /\ UNCHANGED <<db, outbox, staff>>

ReleasedToHumans(j) ==
  LET d == ReleaseToQueue(db, jobs[j].case, jobs[j].reserved)
      row == [status |-> IF jobs[j].reserved = None THEN "pending" ELSE "assigned",
              agent |-> jobs[j].reserved, ai |-> None,
              requestMode |-> IF jobs[j].lock THEN "human_requested" ELSE "normal",
              fallback |-> jobs[j].lock, locked |-> jobs[j].lock]
  IN  [d EXCEPT !.queue = row]

ReleaseJob(j) ==
  /\ jobs[j].phase = "releasing" /\ FreeSegments(db) # {}
  /\ IF HasCase(db) /\ Committable(ReleasedToHumans(j), staff)
     THEN /\ db' = ReleasedToHumans(j)
          /\ IF jobs[j].rescue THEN Finish(j) ELSE Advance(j, [jobs[j] EXCEPT !.phase = "committed"])
     ELSE Throw(j) /\ UNCHANGED db
  /\ UNCHANGED <<outbox, staff>>

CompleteJob(j) ==
  /\ jobs[j].phase = "committed"
  /\ Finish(j)
  /\ UNCHANGED <<db, outbox, staff>>

\* worker.on("failed"): re-reads the conversation and releases it.
RescueJob(j) ==
  /\ jobs[j].phase = "failed"
  /\ IF db.conv.status = "human_active" THEN Finish(j)
     ELSE Advance(j, [NoJob EXCEPT !.phase = "planning", !.case = db.conv.case, !.rescue = TRUE])
  /\ UNCHANGED <<db, outbox, staff>>

\* Mutant: no limit on how often a job may stall.
CrashJob_NoStallLimit(j) ==
  /\ WorkerCrashes /\ jobs[j].phase \in WorkingPhases
  /\ Advance(j, [jobs[j] EXCEPT !.phase = "waiting", !.case = None, !.lock = FALSE])
  /\ UNCHANGED <<db, outbox, staff>>

\* The worker's process dies.  BullMQ puts a stalled job back once and fails
\* it the second time; the handler of a failed job is simply gone.
CrashJob(j) ==
  /\ WorkerCrashes /\ jobs[j].phase \in WorkingPhases
  /\ CASE jobs[j].rescue -> Finish(j)
       [] ~jobs[j].rescue /\ jobs[j].stalled -> Throw(j)
       [] OTHER -> Advance(j, [jobs[j] EXCEPT !.phase = "waiting", !.case = None,
                                              !.lock = FALSE, !.stalled = TRUE])
  /\ UNCHANGED <<db, outbox, staff>>

RoutingStep(j) ==
  \/ SkipJob(j)     \/ StartJob(j)   \/ AIReplies(j)  \/ AIGivesUp(j)
  \/ AITakesOver(j) \/ PlanRelease(j) \/ ReleaseJob(j) \/ CompleteJob(j) \/ RescueJob(j)
-----------------------------------------------------------------------------
(* Agent console *)

\* Mutant: the AI agent's column receives the human agent and vice versa.
Assigned_Swapped(d, a, ai) ==
  [d EXCEPT !.queue.status = "assigned", !.queue.agent = ai, !.queue.ai = a]

\* Mutant: the assignee of the row is left as it was.
Assigned_StatusOnly(d, a, ai) == [d EXCEPT !.queue.status = "assigned"]

\* The queue row as an activation by a route leaves it.
Assigned(d, a, ai) ==
  [d EXCEPT !.queue.status = "assigned", !.queue.agent = a, !.queue.ai = ai]

\* The route's permission check, then the job on the outbound queue.
AgentReplies(a) ==
  /\ a \in Admins \/ db.conv.agent \in {None, a}
  /\ outbox' = outbox \cup {a}
  /\ UNCHANGED <<db, jobs, staff>>

\* POST /assign: the agent accepts the conversation reserved for it.
AcceptReservation(a) ==
  /\ db.conv.agent = a /\ db.queue.agent = a /\ HasCase(db) /\ HasRoom
  /\ Commit(Assigned(ActivateHumanOwner(db, db.conv.case, a, "in_progress"), a, None))
  /\ UNCHANGED <<jobs, outbox, staff>>

TransferTo(a, b) ==
  /\ a # b
  /\ a \in Admins \/ db.conv.agent = a
  /\ HasCase(db) /\ HasRoom
  /\ Commit(Assigned(ActivateHumanOwner(db, db.conv.case, b, "in_progress"), b, None))
  /\ UNCHANGED <<jobs, outbox, staff>>

\* POST /handoff: no owner check; an active AI agent first, else the queue.
HandedToAI(m) ==
  LET d == ActivateAIOwner(db, db.conv.case, m, "in_progress", "open")
  IN  [d EXCEPT !.queue.status = "pending", !.queue.agent = None, !.queue.ai = m]

HandedToQueue(h) ==
  LET d == ReleaseToQueue(db, db.conv.case, h)
  IN  [d EXCEPT !.queue.status = IF h = None THEN "pending" ELSE "assigned",
                !.queue.agent = h, !.queue.ai = None]

AgentHandsOff ==
  /\ HasCase(db) /\ HasRoom /\ JobRoom
  /\ \E eligible \in SUBSET staff, active \in SUBSET AIAgents :
       \E plan \in CreateAgentHandoffPlan(db.queue, eligible, active) :
         IF plan.owner = "ai"
         THEN Commit(HandedToAI(plan.ai)) /\ EnqueueOrDie(plan)
         ELSE Commit(HandedToQueue(plan.agent)) /\ UNCHANGED jobs
  /\ UNCHANGED <<outbox, staff>>

ResolveQueue(d) == [d EXCEPT !.queue.status = "resolved"]

AgentResolves ==
  /\ HasCase(db)
  /\ Commit(ResolveQueue(ResolveConversation(CloseCurrentSegment(db))))
  /\ UNCHANGED <<jobs, outbox, staff>>

\* POST /reopen: for the caller, or for the last human handler still online.
ReopenFor(b) ==
  /\ db.conv.status = "resolved" /\ HasRoom
  /\ LET d == GetOrCreateActiveCase(db)
     IN  Commit(Assigned(ActivateHumanOwner(d, d.conv.case, b, "in_progress"), b, d.queue.ai))
  /\ UNCHANGED <<jobs, outbox, staff>>
-----------------------------------------------------------------------------
(* Supervisor and tenant admin *)

SupervisorTransfers(b) ==
  /\ HasRoom
  /\ LET d == GetOrCreateActiveCase(
                [db EXCEPT !.queue.status = "assigned", !.queue.agent = b, !.queue.ai = None])
     IN  Commit(ActivateHumanOwner(d, d.conv.case, b, "in_progress"))
  /\ UNCHANGED <<jobs, outbox, staff>>

ForceClose ==
  /\ Commit(ResolveQueue(ResolveConversation(IF HasCase(db) THEN CloseCurrentSegment(db) ELSE db)))
  /\ UNCHANGED <<jobs, outbox, staff>>

\* DELETE /agents/:id: the two updates of the route, then the foreign keys
\* ON DELETE SET NULL.  The handler and case owner columns are no foreign keys.
Forget(a, owner) == IF owner = HumanOwner(a) THEN HumanOwner(None) ELSE owner

Orphaned(a) ==
  [db EXCEPT
    !.queue.status = IF db.queue.agent = a /\ db.queue.status \in {"assigned", "pending"}
                     THEN "pending" ELSE db.queue.status,
    !.queue.agent  = IF db.queue.agent = a THEN None ELSE db.queue.agent,
    !.conv.status  = IF db.conv.agent = a /\ db.conv.status = "human_active"
                     THEN "queued" ELSE db.conv.status,
    !.conv.agent   = IF db.conv.agent = a THEN None ELSE db.conv.agent,
    !.segs         = [s \in SegmentIds |-> [db.segs[s] EXCEPT !.owner = Forget(a, db.segs[s].owner)]]]

RemoveAgent(a) ==
  /\ AgentRemoval
  /\ staff' = staff \ {a}
  /\ db' = Orphaned(a)
  /\ UNCHANGED <<jobs, outbox>>
-----------------------------------------------------------------------------
(* Outbound worker: an agent's reply has been sent to the channel; the job's *)
(* transaction makes its agent the owner, whoever owns the conversation now. *)

Delivered(a) ==
  LET wasResolved == db.conv.status = "resolved"
      d == IF wasResolved THEN GetOrCreateActiveCase([db EXCEPT !.conv.segment = None]) ELSE db
      e == ActivateHumanOwner(d, d.conv.case, a, "waiting_customer")
  IN  [Assigned(e, a, e.queue.ai) EXCEPT !.queue.locked = FALSE]

DeliverReply(a) ==
  /\ a \in outbox /\ HasRoom
  /\ outbox' = outbox \ {a}
  /\ IF (HasCase(db) \/ db.conv.status = "resolved") /\ Committable(Delivered(a), staff)
     THEN db' = Delivered(a) ELSE UNCHANGED db
  /\ UNCHANGED <<jobs, staff>>
-----------------------------------------------------------------------------
(* Timeout worker *)

\* applySmartReassignment: plans and applies without the current assignee.
Reassign(previous) ==
  /\ HasCase(db) /\ JobRoom
  /\ \E eligible \in SUBSET staff, active \in SUBSET AIAgents :
       \E plan \in Plans(db, eligible, active, {previous}) :
         /\ plan.action = "preserve_existing_owner" => CanPreserve(db, plan.agent)
         /\ Commit(ApplyInboundPlan(db, plan))
         /\ IF plan.ai # None THEN EnqueueOrDie(plan) ELSE UNCHANGED jobs
  /\ UNCHANGED <<outbox, staff>>

\* The timer only reassigns a reservation that nobody accepted.
AcceptTimeout ==
  /\ db.conv.status \in {"queued", "open"}
  /\ HasCase(db) => LET o == db.cases[db.conv.case].owner IN ~(o.type = "human" /\ o.id # None)
  /\ Reassign(db.queue.agent)

SubsequentResponseTimeout ==
  /\ db.conv.agent # None /\ db.conv.status = "human_active"
  /\ Reassign(db.conv.agent)

FollowUpTimeout ==
  /\ db.conv.status # "resolved" /\ HasCase(db)
  /\ LET d == ResolveConversation(CloseCurrentSegment(db))
     IN  Commit([d EXCEPT !.queue = ResetQueue(d.queue)])
  /\ UNCHANGED <<jobs, outbox, staff>>
-----------------------------------------------------------------------------
ConsoleStep ==
  \/ \E a \in staff : AgentReplies(a) \/ AcceptReservation(a) \/ ReopenFor(a)
  \/ \E a, b \in staff : TransferTo(a, b)
  \/ AgentHandsOff \/ AgentResolves

AdminStep ==
  \/ \E a \in staff : SupervisorTransfers(a) \/ RemoveAgent(a)
  \/ ForceClose

TimerStep == AcceptTimeout \/ SubsequentResponseTimeout \/ FollowUpTimeout

Next ==
  \/ InboundMessage
  \/ \E j \in Jobs : RoutingStep(j) \/ CrashJob(j)
  \/ \E a \in Agents : DeliverReply(a)
  \/ ConsoleStep \/ AdminStep \/ TimerStep

Spec == Init /\ [][Next]_vars

(***************************************************************************)
(* BullMQ hands a waiting job to the routing worker, whose calls return:   *)
(* the AI client times out and a job that loses its lock is put back.      *)
(* Nothing is assumed of customers, agents, timers or the outbound worker. *)
(***************************************************************************)
Fairness == \A j \in Jobs : WF_vars(RoutingStep(j))

FairSpec == Spec /\ Fairness
-----------------------------------------------------------------------------
(* The rows agree with each other *)

(***************************************************************************)
(* An ongoing conversation has a current case, and it is the only case of  *)
(* the conversation that is still active; a closed conversation has left   *)
(* no active case behind.                                                  *)
(***************************************************************************)
CaseCurrency ==
  /\ db.conv.status # "resolved" => HasCase(db)
  /\ ActiveCases(db) = {db.conv.case} \ {None}

(***************************************************************************)
(* A conversation with a case has a segment, which has not ended and was   *)
(* opened for that case.                                                   *)
(***************************************************************************)
SegmentCurrency ==
  /\ HasCase(db) <=> db.conv.segment # None
  /\ db.conv.segment # None =>
       /\ db.segs[db.conv.segment].active
       /\ db.segs[db.conv.segment].case = db.conv.case

(***************************************************************************)
(* No segment is left open when the conversation moves on to the next one. *)
(***************************************************************************)
OneLiveSegment == \A s \in SegmentIds : db.segs[s].active => s = db.conv.segment

(***************************************************************************)
(* Whoever handles the conversation, human or AI, also owns its current    *)
(* segment.                                                                *)
(***************************************************************************)
HandlerOwnsSegment ==
  db.conv.handler.type # "system" => db.segs[db.conv.segment].owner = db.conv.handler

(***************************************************************************)
(* The agent on the conversation row is the agent on the queue row, so the *)
(* two permission checks of the accept route can both succeed.             *)
(***************************************************************************)
ReservationMirrored == db.conv.agent # None => db.queue.agent = db.conv.agent

(***************************************************************************)
(* A conversation that nobody handles is on the queue: the recovery sweep, *)
(* which looks at queue rows that are assigned or pending, finds it.       *)
(***************************************************************************)
WaitingIsQueued ==
  db.conv.status # "resolved" /\ db.conv.handler.type = "system"
    => db.queue.status \in {"assigned", "pending"}

(***************************************************************************)
(* No row names a human agent whose profile is gone.                       *)
(***************************************************************************)
AssigneesExist == {db.conv.agent, db.queue.agent} \subseteq staff \cup {None}

\* The routing job will end the wait of an open conversation: it leads to a reply,
\* a release or a rescue, and writes the case that is current.
Serves(j) ==
  /\ jobs[j].phase \notin {"idle", "committed"}
  /\ jobs[j].phase = "waiting" => jobs[j].owner = "ai"
  /\ jobs[j].phase \in {"waiting", "running"} => ~jobs[j].fallback
  /\ jobs[j].phase \in WorkingPhases => jobs[j].case = db.conv.case

AwaitsAI == db.conv.status = "open" /\ db.queue.ai # None /\ ~db.queue.fallback

(***************************************************************************)
(* A conversation planned for an AI agent is never left without a routing  *)
(* job: while no process dies and no agent is deleted under the job, some  *)
(* job will take it to the AI or back to the humans, although each reads   *)
(* the rows once and writes them later, when another case may be current.  *)
(***************************************************************************)
WaitIsServed ==
  AwaitsAI /\ ~WorkerCrashes /\ ~AgentRemoval => \E j \in Jobs : Serves(j)
-----------------------------------------------------------------------------
(* What a step may never do *)

(***************************************************************************)
(* A case that was closed is never reopened, whatever a late job, a reply  *)
(* or a reopen does with the id it remembers.                              *)
(***************************************************************************)
ClosedStaysClosed ==
  [][\A k \in CaseIds : db.cases[k].status = "resolved" => db'.cases[k].status = "resolved"]_vars

(***************************************************************************)
(* A conversation that comes back to life does so with a case that did not *)
(* exist before.                                                           *)
(***************************************************************************)
ReopenStartsFreshCase ==
  [][db.conv.status = "resolved" /\ db'.conv.status # "resolved"
       => db.cases[db'.conv.case].status = "none"]_vars

(***************************************************************************)
(* A routing job that read an earlier case of the conversation cannot write*)
(* its outcome over the current one: its transaction is refused.           *)
(***************************************************************************)
StaleJobHarmless ==
  [][\A j \in Jobs :
       (/\ jobs[j].phase \in {"replying", "releasing"} /\ jobs'[j] # jobs[j]
        /\ jobs[j].case \notin {None, db.conv.case}) => db' = db]_vars

\* How many steps a routing job can still make.
Remaining(job) ==
  LET left == CASE job.phase = "waiting" -> 5
                [] job.phase = "running" -> 4
                [] job.phase = "planning" -> 3
                [] job.phase \in {"replying", "releasing"} -> 2
                [] OTHER -> 1
  IN  CASE job.phase = "idle" -> 0
        [] job.phase = "failed" -> 3
        [] job.rescue -> left - 1
        [] OTHER -> IF job.stalled THEN 3 + left ELSE 8 + left

(***************************************************************************)
(* Every step of a routing job brings it nearer to its end: no reply, throw*)
(* or rescue leads back, and the death of its worker does so only once.    *)
(***************************************************************************)
JobsDescend ==
  [][\A j \in AliveJobs : jobs'[j] # jobs[j] => Remaining(jobs'[j]) < Remaining(jobs[j])]_vars
-----------------------------------------------------------------------------
(* What the rows implement *)

Sessions == INSTANCE ConversationSessions
              WITH Ids     <- CaseIds,
                   current <- db.conv.case,
                   past    <- {k \in CaseIds : db.cases[k].status = "resolved"}

(***************************************************************************)
(* However the workers, routes and timers interleave, the conversation is  *)
(* served in one session after the other: no step replaces the case of the *)
(* conversation by another, drops it without resolving it, or resolves one *)
(* that is not the current one.                                            *)
(***************************************************************************)
OneSessionAtATime == Sessions!Spec
-----------------------------------------------------------------------------
(* What eventually happens *)

(***************************************************************************)
(* Every routing job ends, also when the worker dies in the middle of it.  *)
(***************************************************************************)
EveryJobEnds == \A j \in Jobs : (jobs[j].phase # "idle") ~> (jobs[j].phase = "idle")

(***************************************************************************)
(* A conversation planned for an AI agent does not stay open: the AI takes *)
(* it, a human takes it, it goes back to the queue or it is closed.        *)
(***************************************************************************)
WaitForAIEnds == AwaitsAI ~> (db.conv.status # "open")
-----------------------------------------------------------------------------
(* What comments and documents claim, and the code does not do *)

(***************************************************************************)
(* "if a human agent has taken over, AI must not re-engage": no step of a  *)
(* routing job makes an AI agent the handler of a human-active             *)
(* conversation.                                                           *)
(***************************************************************************)
AIStaysOut ==
  [][(db.conv.status = "human_active" /\ \E j \in AliveJobs : jobs'[j] # jobs[j])
       => db'.conv.handler.type # "ai"]_vars

(***************************************************************************)
(* "the case owner and the owner of the active segment stay the same"      *)
(***************************************************************************)
CaseOwnerMatchesSegment ==
  HasCase(db) => db.cases[db.conv.case].owner = db.segs[db.conv.segment].owner

(***************************************************************************)
(* "Only the assigned agent may reply to this conversation": when the      *)
(* outbound worker delivers a reply and hands the conversation to its      *)
(* sender, nobody else was assigned.                                       *)
(***************************************************************************)
OnlyAssigneeReplies ==
  [][\A a \in (outbox \ outbox') \ Admins : db' # db => db.conv.agent \in {None, a}]_vars

=============================================================================
