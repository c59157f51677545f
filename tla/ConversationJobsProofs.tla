----------------------- MODULE ConversationJobsProofs -----------------------
(***************************************************************************)
(* Theorems about the routing jobs: each comes to its end, and while a     *)
(* conversation waits for the AI one of them will end the wait.            *)
(***************************************************************************)
EXTENDS ConversationSegmentsProofs

\* The "failed" handler releases and does nothing else.
RescueInv == \A j \in Jobs : jobs[j].rescue => jobs[j].phase \in {"planning", "releasing"}

JInv == IInv /\ RescueInv
-----------------------------------------------------------------------------
(* The end of a job *)

\* A transition of one job.
Moves(j, r) ==
  /\ jobs'[j] = r
  /\ r.rescue => r.phase \in {"planning", "releasing"}
  /\ r # jobs[j] => Remaining(r) < Remaining(jobs[j])

\* Ending, failing and releasing bring a job nearer to its end.
LEMMA JobEnds ==
  ASSUME JInv, NEW j \in Jobs, jobs[j].phase \in WorkingPhases \cup {"waiting", "failed"}
  PROVE  /\ Finish(j) => Moves(j, NoJob)
         /\ jobs[j].phase \in WorkingPhases /\ Throw(j) => Moves(j, jobs'[j])
<1>1. jobs \in [Jobs -> Job] /\ jobs[j] \in Job /\ NoJob \in Job
  BY NoJobTyped DEF JInv, IInv, TypeOK
<1>2. jobs[j].rescue => jobs[j].phase \in {"planning", "releasing"}
  BY DEF JInv, RescueInv
<1>3. Remaining(NoJob) = 0 /\ NoJob.rescue = FALSE
  BY DEF Remaining, NoJob
<1>4. Remaining(jobs[j]) > 0
  BY <1>1, <1>2 DEF Remaining, WorkingPhases, Job
<1>5. Finish(j) => Moves(j, NoJob)
  BY <1>1, <1>3, <1>4 DEF Finish, Advance, Moves
<1>6. ASSUME jobs[j].phase \in WorkingPhases, Throw(j), ~jobs[j].rescue PROVE Moves(j, jobs'[j])
  <2> DEFINE r == [NoJob EXCEPT !.phase = "failed"]
  <2>1. r.phase = "failed" /\ r.rescue = FALSE /\ Remaining(r) = 3
    BY DEF NoJob, Remaining
  <2>2. Remaining(jobs[j]) > 3
    BY <1>1, <1>6 DEF Remaining, WorkingPhases, Job
  <2>3. jobs'[j] = r
    BY <1>1, <1>6 DEF Throw, Advance
  <2> HIDE DEF r
  <2> QED  BY <2>1, <2>2, <2>3 DEF Moves
<1>7. ASSUME Throw(j), jobs[j].rescue PROVE Moves(j, jobs'[j])
  BY <1>1, <1>3, <1>4, <1>7 DEF Throw, Advance, Moves
<1> QED  BY <1>5, <1>6, <1>7

\* The beginning of a release.
LEMMA ReleaseBegins ==
  ASSUME NEW r \in Job, NEW lock \in BOOLEAN
  PROVE  LET s == BeginRelease(r, lock)
         IN  /\ s \in Job /\ s.phase \in {"planning", "releasing"}
             /\ s.case = r.case /\ s.rescue = r.rescue /\ s.stalled = r.stalled
<1> DEFINE s == [r EXCEPT !.phase = IF r.reserved = None THEN "planning" ELSE "releasing", !.lock = lock]
<1>1. s \in Job
  BY DEF Job, JobPhases, WorkingPhases
<1>2. s.phase \in {"planning", "releasing"}
  BY DEF Job
<1>3. s.case = r.case /\ s.rescue = r.rescue /\ s.stalled = r.stalled
  BY DEF Job
<1> QED  BY <1>1, <1>2, <1>3 DEF BeginRelease

\* Every step of a job.
LEMMA JobMoves ==
  ASSUME JInv, NEW j \in Jobs, RoutingStep(j) \/ CrashJob(j)
  PROVE  Moves(j, jobs'[j])
<1>1. jobs \in [Jobs -> Job] /\ jobs[j] \in Job
  BY DEF JInv, IInv, TypeOK
<1>2. jobs[j].rescue => jobs[j].phase \in {"planning", "releasing"}
  BY DEF JInv, RescueInv
<1>3. \A r : Advance(j, r) => jobs'[j] = r
  BY <1>1 DEF Advance
<1>4. Finish(j) => jobs'[j] = NoJob
  BY <1>3 DEF Finish
<1>5. CASE SkipJob(j)
  BY <1>4, <1>5, JobEnds DEF SkipJob
<1>6. CASE StartJob(j)
  <2> DEFINE r == [jobs[j] EXCEPT !.case = db.conv.case]
  <2>1. db.conv.case \in CaseOrNone /\ jobs[j].phase = "waiting"
    BY <1>6, InvRows DEF JInv, StartJob
  <2>2. r \in Job /\ r.rescue = jobs[j].rescue /\ r.stalled = jobs[j].stalled
    BY <1>1, <2>1 DEF Job
  <2>3. Advance(j, IF r.ai = None THEN BeginRelease(r, FALSE) ELSE [r EXCEPT !.phase = "running"])
    BY <1>6 DEF StartJob
  <2>4. /\ [r EXCEPT !.phase = "running"].phase = "running"
        /\ [r EXCEPT !.phase = "running"].rescue = jobs[j].rescue
        /\ [r EXCEPT !.phase = "running"].stalled = jobs[j].stalled
    BY <1>1 DEF Job
  <2> HIDE DEF r
  <2>5. /\ jobs'[j].phase \in {"running", "planning", "releasing"}
        /\ jobs'[j].rescue = jobs[j].rescue /\ jobs'[j].stalled = jobs[j].stalled
    <3>1. CASE r.ai = None
      <4>1. jobs'[j] = BeginRelease(r, FALSE)
        BY <1>3, <2>3, <3>1
      <4> QED  BY <2>2, <4>1, ReleaseBegins
    <3>2. CASE r.ai # None
      <4>1. jobs'[j] = [r EXCEPT !.phase = "running"]
        BY <1>3, <2>3, <3>2
      <4> QED  BY <2>4, <4>1
    <3> QED  BY <3>1, <3>2
  <2> QED  BY <1>2, <2>1, <2>5 DEF Moves, Remaining
<1>7. CASE AIReplies(j)
  <2>1. /\ jobs[j].phase = "running" /\ jobs'[j].phase = "replying"
        /\ jobs'[j].rescue = jobs[j].rescue /\ jobs'[j].stalled = jobs[j].stalled
    BY <1>1, <1>3, <1>7 DEF AIReplies, Job
  <2> QED  BY <1>2, <2>1 DEF Moves, Remaining
<1>8. CASE AIGivesUp(j)
  <2>1. jobs[j].phase = "running"
    BY <1>8 DEF AIGivesUp
  <2>2. CASE jobs[j].fallback
    <3>1. Finish(j)
      BY <1>8, <2>2 DEF AIGivesUp, Finish
    <3> QED  BY <1>4, <2>1, <3>1, JobEnds DEF WorkingPhases
  <2>3. CASE ~jobs[j].fallback
    <3>1. jobs'[j] = BeginRelease(jobs[j], TRUE)
      BY <1>3, <1>8, <2>3 DEF AIGivesUp
    <3>2. /\ jobs'[j].phase \in {"planning", "releasing"}
          /\ jobs'[j].rescue = jobs[j].rescue /\ jobs'[j].stalled = jobs[j].stalled
      BY <1>1, <3>1, ReleaseBegins
    <3> QED  BY <1>2, <2>1, <3>2 DEF Moves, Remaining
  <2> QED  BY <2>2, <2>3
<1>9. CASE AITakesOver(j)
  <2>1. jobs[j].phase = "replying"
    BY <1>9 DEF AITakesOver
  <2> DEFINE r == [NoJob EXCEPT !.phase = "committed", !.owner = "ai",
                   !.ai = jobs[j].ai, !.fallback = jobs[j].fallback, !.stalled = jobs[j].stalled]
  <2>2. CASE Throw(j)
    BY <2>1, <2>2, JobEnds DEF WorkingPhases
  <2>3. CASE Advance(j, r)
    <3>1. r.phase = "committed" /\ r.rescue = FALSE /\ r.stalled = jobs[j].stalled
      BY DEF NoJob
    <3>2. jobs'[j] = r
      BY <1>3, <2>3
    <3> HIDE DEF r
    <3> QED  BY <1>2, <2>1, <3>1, <3>2 DEF Moves, Remaining
  <2> QED  BY <1>9, <2>2, <2>3 DEF AITakesOver
<1>10. CASE PlanRelease(j)
  <2>1. jobs[j].phase = "planning"
    BY <1>10 DEF PlanRelease
  <2>2. CASE Throw(j)
    BY <2>1, <2>2, JobEnds DEF WorkingPhases
  <2>3. CASE \E h : Advance(j, [jobs[j] EXCEPT !.phase = "releasing", !.reserved = h])
    <3>1. /\ jobs'[j].phase = "releasing"
          /\ jobs'[j].rescue = jobs[j].rescue /\ jobs'[j].stalled = jobs[j].stalled
      BY <1>1, <1>3, <2>3 DEF Job
    <3> QED  BY <2>1, <3>1 DEF Moves, Remaining
  <2> QED  BY <1>10, <2>2, <2>3 DEF PlanRelease
<1>11. CASE ReleaseJob(j)
  <2>1. jobs[j].phase = "releasing"
    BY <1>11 DEF ReleaseJob
  <2>2. CASE Throw(j)
    BY <2>1, <2>2, JobEnds DEF WorkingPhases
  <2>3. CASE Finish(j)
    BY <1>4, <2>1, <2>3, JobEnds DEF WorkingPhases
  <2>4. CASE ~jobs[j].rescue /\ Advance(j, [jobs[j] EXCEPT !.phase = "committed"])
    <3>1. /\ jobs'[j].phase = "committed"
          /\ jobs'[j].rescue = jobs[j].rescue /\ jobs'[j].stalled = jobs[j].stalled
      BY <1>1, <1>3, <2>4 DEF Job
    <3> QED  BY <2>1, <2>4, <3>1 DEF Moves, Remaining
  <2> QED  BY <1>11, <2>2, <2>3, <2>4 DEF ReleaseJob
<1>12. CASE CompleteJob(j)
  BY <1>4, <1>12, JobEnds DEF CompleteJob, WorkingPhases
<1>13. CASE RescueJob(j)
  <2>1. jobs[j].phase = "failed"
    BY <1>13 DEF RescueJob
  <2>2. CASE Finish(j)
    BY <1>4, <2>1, <2>2, JobEnds
  <2>3. CASE Advance(j, [NoJob EXCEPT !.phase = "planning", !.case = db.conv.case, !.rescue = TRUE])
    <3>1. jobs'[j].phase = "planning" /\ jobs'[j].rescue = TRUE
      BY <1>3, <2>3 DEF NoJob
    <3>2. Remaining(jobs'[j]) = 2
      BY <3>1 DEF Remaining
    <3>3. Remaining(jobs[j]) = 3
      BY <1>2, <2>1 DEF Remaining
    <3> QED  BY <3>1, <3>2, <3>3 DEF Moves
  <2> QED  BY <1>13, <2>2, <2>3 DEF RescueJob
<1>14. CASE CrashJob(j)
  <2>1. jobs[j].phase \in WorkingPhases
    BY <1>14 DEF CrashJob
  <2>2. CASE Finish(j)
    BY <1>4, <2>1, <2>2, JobEnds
  <2>3. CASE Throw(j)
    BY <2>1, <2>3, JobEnds
  <2>4. CASE /\ ~jobs[j].rescue /\ ~jobs[j].stalled
             /\ Advance(j, [jobs[j] EXCEPT !.phase = "waiting", !.case = None,
                                           !.lock = FALSE, !.stalled = TRUE])
    <3>1. /\ jobs'[j].phase = "waiting" /\ jobs'[j].rescue = jobs[j].rescue
          /\ jobs'[j].stalled = TRUE
      BY <1>1, <1>3, <2>4 DEF Job
    <3>2. Remaining(jobs'[j]) = 8
      BY <2>4, <3>1 DEF Remaining
    <3>3. Remaining(jobs[j]) > 8
      BY <1>1, <2>1, <2>4 DEF Remaining, WorkingPhases, Job
    <3> QED  BY <2>4, <3>1, <3>2, <3>3 DEF Moves
  <2> QED  BY <1>14, <2>2, <2>3, <2>4 DEF CrashJob
<1> QED  BY <1>5, <1>6, <1>7, <1>8, <1>9, <1>10, <1>11, <1>12, <1>13, <1>14 DEF RoutingStep
-----------------------------------------------------------------------------
(* The job records step by step *)

\* A new job takes a free slot; nothing else changes.
LEMMA EnqueueFills ==
  ASSUME IInv, JobRoom, NEW plan \in RoutingPlan, Enqueue(plan)
  PROVE  \E i \in Jobs : /\ jobs[i].phase = "idle" /\ jobs'[i] = JobOf(plan)
                         /\ \A j \in Jobs \ {i} : jobs'[j] = jobs[j]
<1>1. jobs \in [Jobs -> Job]  BY DEF IInv, TypeOK
<1> DEFINE i == CHOOSE x \in IdleJobs : TRUE
<1>2. i \in Jobs /\ jobs[i].phase = "idle"
  BY DEF JobRoom, IdleJobs
<1>3. jobs' = [jobs EXCEPT ![i] = JobOf(plan)]
  BY DEF Enqueue
<1> HIDE DEF i
<1> QED  BY <1>1, <1>2, <1>3

\* The job of a plan waits, with what the plan chose.
LEMMA JobOfPlan ==
  ASSUME NEW plan \in RoutingPlan
  PROVE  /\ JobOf(plan).phase = "waiting" /\ JobOf(plan).owner = plan.owner
         /\ JobOf(plan).fallback = FallbackPlan(plan) /\ JobOf(plan).rescue = FALSE
BY DEF JobOf, NoJob

\* What a step does to the jobs: it queues a new one, moves one, or none.
LEMMA StepOfJobs ==
  ASSUME IInv, [Next]_vars
  PROVE  \/ UNCHANGED jobs
         \/ \E j \in Jobs : RoutingStep(j) \/ CrashJob(j)
         \/ JobRoom /\ \E plan \in RoutingPlan : Enqueue(plan)
<1>1. CASE InboundMessage
  <2>1. PICK stale \in BOOLEAN, eligible \in SUBSET staff, active \in SUBSET AIAgents :
          \E plan \in Plans(Intake(stale), eligible, active, {}) : EnqueueOrDie(plan)
    BY <1>1 DEF InboundMessage
  <2>2. Intake(stale) \in Tables
    BY <1>1, IntakeFrame DEF InboundMessage
  <2>3. PICK plan \in RoutingPlan : EnqueueOrDie(plan)
    BY <2>1, <2>2, InvRows, PlansTyped
  <2> QED  BY <1>1, <2>3 DEF EnqueueOrDie, InboundMessage
<1>2. CASE AgentHandsOff
  <2>1. CASE UNCHANGED jobs  BY <2>1
  <2>2. CASE ~UNCHANGED jobs
    <3>1. PICK eligible \in SUBSET staff, active \in SUBSET AIAgents :
            \E plan \in CreateAgentHandoffPlan(db.queue, eligible, active) : EnqueueOrDie(plan)
      BY <1>2, <2>2 DEF AgentHandsOff
    <3>2. PICK plan \in RoutingPlan : EnqueueOrDie(plan)
      BY <3>1, InvRows, HandoffPlanTyped
    <3> QED  BY <1>2, <3>2 DEF EnqueueOrDie, AgentHandsOff
  <2> QED  BY <2>1, <2>2
<1>3. ASSUME NEW previous, Reassign(previous)
      PROVE  UNCHANGED jobs \/ (JobRoom /\ \E plan \in RoutingPlan : Enqueue(plan))
  <2>1. CASE UNCHANGED jobs  BY <2>1
  <2>2. CASE ~UNCHANGED jobs
    <3>1. PICK eligible \in SUBSET staff, active \in SUBSET AIAgents :
            \E plan \in Plans(db, eligible, active, {previous}) : EnqueueOrDie(plan)
      BY <1>3, <2>2 DEF Reassign
    <3>2. PICK plan \in RoutingPlan : EnqueueOrDie(plan)
      BY <3>1, InvRows, PlansTyped
    <3> QED  BY <1>3, <3>2 DEF EnqueueOrDie, Reassign
  <2> QED  BY <2>1, <2>2
<1>4. CASE AcceptTimeout \/ SubsequentResponseTimeout
  BY <1>3, <1>4 DEF AcceptTimeout, SubsequentResponseTimeout
<1>5. CASE UNCHANGED vars  BY <1>5 DEF vars
<1> QED
  BY <1>1, <1>2, <1>4, <1>5, DeskStepJobs DEF Next, ConsoleStep, AdminStep, TimerStep

\* The invariant holds of a chat seen before.
LEMMA JInvInit == Init => JInv
<1>1. Init => RescueInv
  BY DEF Init, RescueInv, NoJob
<1> QED  BY <1>1, InvInit DEF JInv

\* Only the "failed" handler makes a job a rescue, and it ends it as one.
LEMMA RescueStep ==
  ASSUME JInv, [Next]_vars
  PROVE  RescueInv'
<1>1. CASE UNCHANGED jobs
  BY <1>1 DEF JInv, RescueInv
<1>2. CASE \E j \in Jobs : RoutingStep(j) \/ CrashJob(j)
  <2>1. PICK j \in Jobs : RoutingStep(j) \/ CrashJob(j)
    BY <1>2
  <2>2. jobs'[j].rescue => jobs'[j].phase \in {"planning", "releasing"}
    BY <2>1, JobMoves DEF Moves
  <2>3. \A i \in Jobs \ {j} : jobs'[i] = jobs[i]
    BY <2>1, RoutingJobsTyped DEF JInv
  <2> QED  BY <2>2, <2>3 DEF JInv, RescueInv
<1>3. CASE JobRoom /\ \E plan \in RoutingPlan : Enqueue(plan)
  <2>1. PICK plan \in RoutingPlan : Enqueue(plan)
    BY <1>3
  <2>2. PICK i \in Jobs : jobs'[i] = JobOf(plan) /\ \A j \in Jobs \ {i} : jobs'[j] = jobs[j]
    BY <1>3, <2>1, EnqueueFills DEF JInv
  <2> QED  BY <2>2, JobOfPlan DEF JInv, RescueInv
<1> QED  BY <1>1, <1>2, <1>3, StepOfJobs DEF JInv

\* The invariant is inductive.
LEMMA JInvStep == JInv /\ [Next]_vars => JInv'
<1> SUFFICES ASSUME JInv, [Next]_vars PROVE JInv'
  OBVIOUS
<1> QED  BY RescueStep, InvStep DEF JInv

\* A job that is under way moves only by a step of its own.
LEMMA AliveMoves ==
  ASSUME JInv, [Next]_vars, NEW j \in AliveJobs, jobs'[j] # jobs[j]
  PROVE  Remaining(jobs'[j]) < Remaining(jobs[j])
<1>1. j \in Jobs /\ jobs[j].phase # "idle"
  BY DEF AliveJobs, IdleJobs
<1>2. CASE UNCHANGED jobs  BY <1>2
<1>3. CASE JobRoom /\ \E plan \in RoutingPlan : Enqueue(plan)
  <2>1. jobs'[j] = jobs[j]
    BY <1>1, <1>3, EnqueueFills DEF JInv
  <2> QED  BY <2>1
<1>4. CASE \E i \in Jobs : RoutingStep(i) \/ CrashJob(i)
  <2>1. PICK i \in Jobs : RoutingStep(i) \/ CrashJob(i)
    BY <1>4
  <2>2. i = j
    BY <1>1, <2>1, RoutingJobsTyped DEF JInv
  <2> QED  BY <1>1, <2>1, <2>2, JobMoves DEF Moves
<1> QED  BY <1>2, <1>3, <1>4, StepOfJobs DEF JInv

(***************************************************************************)
(* Every step of a routing job, the stall of a dead worker's job and the   *)
(* "failed" handler included, uses up a bounded number of steps: no path   *)
(* through the retries leads back, so a job that keeps moving ends.        *)
(***************************************************************************)
THEOREM EveryJobDescends == Spec => JobsDescend
<1>1. JInv /\ [Next]_vars =>
        [\A j \in AliveJobs : jobs'[j] # jobs[j] => Remaining(jobs'[j]) < Remaining(jobs[j])]_vars
  BY AliveMoves
<1> QED  BY <1>1, JInvInit, JInvStep, PTL DEF Spec, JobsDescend
-----------------------------------------------------------------------------
(* Which steps leave a conversation open *)

\* Without deletions every agent keeps its profile.
StaffInv == ~AgentRemoval => staff = Agents

WInv == JInv /\ Settled(db) /\ StaffInv /\ WaitIsServed

\* A plan leaves an open conversation waiting only if it names an AI agent.
LEMMA PlanAwaits ==
  ASSUME NEW d \in Tables, NEW plan \in RoutingPlan,
         NEW e, e = ApplyInboundPlan(d, plan),
         e.conv.status = "open", e.queue.ai # None, ~e.queue.fallback
  PROVE  plan.action = "assign_ai_owner" /\ plan.ai # None /\ ~FallbackPlan(plan)
<1> DEFINE f == [d EXCEPT !.queue = QueueOf(plan)]
           k == d.conv.case
<1>1. f \in Tables /\ f.queue = QueueOf(plan)
  <2>1. QueueOf(plan) \in QueueRow
    BY DEF QueueOf, QueueRow, RoutingPlan, QueueStatus
  <2> QED  BY <2>1, QueueFrame
<1>2. k \in CaseOrNone /\ d.conv.segment \in SegmentOrNone /\ plan.agent \in AgentOrNone
  BY DEF Tables, ConversationRow, RoutingPlan
<1>3. QueueOf(plan).ai = plan.ai /\ QueueOf(plan).fallback = plan.fallback
  BY DEF QueueOf
<1> HIDE DEF f
<1>4. plan.action # "preserve_existing_owner"
  <2> SUFFICES ASSUME plan.action = "preserve_existing_owner" PROVE FALSE
    OBVIOUS
  <2> DEFINE g == HandTo(f, "human_active", plan.agent, HumanOwner(plan.agent))
  <2>1. e = SetCurrentOwner(g, k, d.conv.segment, HumanOwner(plan.agent), "in_progress")
    BY DEF ApplyInboundPlan, PreserveHumanOwner, f
  <2>2. g.conv.status = "human_active"
    BY <1>1, HandToSets
  <2> HIDE DEF g
  <2>3. e.conv = g.conv
    BY <2>1 DEF SetCurrentOwner
  <2> QED  BY <2>2, <2>3
<1>5. ASSUME NEW status \in {"queued", "open"}, NEW agent \in AgentOrNone,
             e = ClearCurrentOwnership(HandTo(f, status, agent, SystemOwner), k)
      PROVE  e.conv.status = status /\ e.queue = QueueOf(plan)
  <2> DEFINE g == HandTo(f, status, agent, SystemOwner)
  <2>1. g \in Tables
    BY <1>1, OwnersTyped, HandToFrame DEF ConversationStatus
  <2>2. g.conv.status = status /\ g.queue = QueueOf(plan)
    BY <1>1, HandToSets
  <2> HIDE DEF g
  <2>3. e = ClearCurrentOwnership(g, k)
    BY <1>5 DEF g
  <2> QED  BY <1>2, <2>1, <2>2, <2>3, ClearCurrentOwnershipFrame
<1>6. plan.action \notin {"assign_specific_owner", "enqueue_for_human"}
  <2> SUFFICES ASSUME plan.action \in {"assign_specific_owner", "enqueue_for_human"} PROVE FALSE
    OBVIOUS
  <2>1. e = ClearCurrentOwnership(HandTo(f, "queued", plan.agent, SystemOwner), k)
    BY <1>4 DEF ApplyInboundPlan, AssignHumanQueue, f
  <2> QED  BY <1>2, <1>5, <2>1
<1>7. e = ClearCurrentOwnership(HandTo(f, "open", None, SystemOwner), k)
  BY <1>4, <1>6 DEF ApplyInboundPlan, AssignAIPending, f
<1>8. e.queue = QueueOf(plan)
  BY <1>5, <1>7 DEF AgentOrNone
<1>9. plan.action = "assign_ai_owner"
  BY <1>4, <1>6 DEF RoutingPlan, Actions
<1> QED  BY <1>3, <1>8, <1>9 DEF FallbackPlan

\* A plan whose action is for the AI is for the AI side.
LEMMA PlansAISide ==
  ASSUME NEW d, NEW eligible, NEW active, NEW excluded,
         NEW plan \in Plans(d, eligible, active, excluded), plan.action = "assign_ai_owner"
  PROVE  plan.owner = "ai"
<1>1. plan # PreservedHumanPlan(d.conv.agent, d.queue)
  BY DEF PreservedHumanPlan
<1>2. PICK mode, sig : plan \in CreatePlan(mode, sig, d.queue, UnknownLoad, eligible, active, excluded)
  BY <1>1 DEF Plans
<1> DEFINE reason    == ResolveOverride(sig, d.queue)
           request   == ResolveServiceRequestMode(sig, d.queue, reason)
           available == [human |-> eligible # {}, ai |-> active # {}]
           side      == ResolveOwnerSide(mode, sig, reason, available, UnknownLoad)
<1>3. \E h, m : plan = InboundPlan(side, request, h, m)
  BY <1>2 DEF CreatePlan
<1> HIDE DEF reason, request, available, side
<1>4. side \in Sides
  BY SideTyped DEF side
<1> QED  BY <1>3, <1>4 DEF InboundPlan, Sides

\* A job queued for an AI plan serves the conversation.
LEMMA NewJobServes ==
  ASSUME IInv, JobRoom, NEW plan \in RoutingPlan, Enqueue(plan),
         plan.owner = "ai", ~FallbackPlan(plan)
  PROVE  \E j \in Jobs : Serves(j)'
<1>1. PICK j \in Jobs : jobs'[j] = JobOf(plan)
  BY EnqueueFills
<1>2. /\ jobs'[j].phase = "waiting" /\ jobs'[j].owner = "ai"
      /\ jobs'[j].fallback = FallbackPlan(plan)
  BY <1>1, JobOfPlan
<1>3. Serves(j)'
  BY <1>2 DEF Serves, WorkingPhases
<1> QED  BY <1>3

\* A message that leaves a conversation waiting for the AI queues its job.
LEMMA InboundServes ==
  ASSUME WInv, ~WorkerCrashes, InboundMessage, AwaitsAI'
  PROVE  \E j \in Jobs : Serves(j)'
<1>1. PICK stale \in BOOLEAN, eligible \in SUBSET staff, active \in SUBSET AIAgents :
        \E plan \in Plans(Intake(stale), eligible, active, {}) :
          db' = ApplyInboundPlan(Intake(stale), plan) /\ Enqueue(plan)
  BY DEF InboundMessage, Commit, EnqueueOrDie
<1> DEFINE d == Intake(stale)
<1>2. PICK plan \in Plans(d, eligible, active, {}) : db' = ApplyInboundPlan(d, plan) /\ Enqueue(plan)
  BY <1>1
<1>3. d \in Tables
  BY IntakeFrame DEF InboundMessage, WInv, JInv
<1> HIDE DEF d
<1>4. plan \in RoutingPlan
  BY <1>3, PlansTyped, InvRows DEF WInv, JInv
<1>5. plan.action = "assign_ai_owner" /\ ~FallbackPlan(plan)
  BY <1>2, <1>3, <1>4, PlanAwaits DEF AwaitsAI
<1>6. plan.owner = "ai"
  BY <1>2, <1>5, PlansAISide
<1> QED  BY <1>2, <1>4, <1>5, <1>6, NewJobServes DEF InboundMessage, WInv, JInv

\* So does a reassignment by a timer.
LEMMA ReassignServes ==
  ASSUME WInv, ~WorkerCrashes, NEW previous, Reassign(previous), AwaitsAI'
  PROVE  \E j \in Jobs : Serves(j)'
<1>1. PICK eligible \in SUBSET staff, active \in SUBSET AIAgents :
        \E plan \in Plans(db, eligible, active, {previous}) :
          /\ db' = ApplyInboundPlan(db, plan)
          /\ plan.ai # None => Enqueue(plan)
  BY DEF Reassign, Commit, EnqueueOrDie
<1>2. PICK plan \in Plans(db, eligible, active, {previous}) :
        /\ db' = ApplyInboundPlan(db, plan)
        /\ plan.ai # None => Enqueue(plan)
  BY <1>1
<1>3. plan \in RoutingPlan /\ db \in Tables
  BY PlansTyped, InvRows DEF WInv, JInv
<1>4. plan.action = "assign_ai_owner" /\ plan.ai # None /\ ~FallbackPlan(plan)
  BY <1>2, <1>3, PlanAwaits DEF AwaitsAI
<1>5. plan.owner = "ai"
  BY <1>2, <1>4, PlansAISide
<1> QED  BY <1>2, <1>3, <1>4, <1>5, NewJobServes DEF Reassign, WInv, JInv

\* A handoff goes to the queue of the humans, or queues the AI's job.
LEMMA HandsOffServes ==
  ASSUME WInv, ~WorkerCrashes, AgentHandsOff, AwaitsAI'
  PROVE  \E j \in Jobs : Serves(j)'
<1>1. PICK eligible \in SUBSET staff, active \in SUBSET AIAgents :
        \E plan \in CreateAgentHandoffPlan(db.queue, eligible, active) :
          \/ plan.owner = "ai" /\ Enqueue(plan)
          \/ db' = HandedToQueue(plan.agent)
  BY DEF AgentHandsOff, Commit, EnqueueOrDie
<1>2. PICK plan \in CreateAgentHandoffPlan(db.queue, eligible, active) :
        \/ plan.owner = "ai" /\ Enqueue(plan)
        \/ db' = HandedToQueue(plan.agent)
  BY <1>1
<1>3. plan \in RoutingPlan
  BY InvRows, HandoffPlanTyped DEF WInv, JInv
<1>4. ~FallbackPlan(plan)
  BY <1>2 DEF CreateAgentHandoffPlan, AgentHandoffPlan, FallbackPlan
<1>5. CASE plan.owner = "ai" /\ Enqueue(plan)
  BY <1>3, <1>4, <1>5, NewJobServes DEF AgentHandsOff, WInv, JInv
<1>6. CASE db' = HandedToQueue(plan.agent)
  <2> DEFINE f == ReleaseToQueue(db, db.conv.case, plan.agent)
  <2>1. plan.agent \in AgentOrNone
    BY <1>3 DEF RoutingPlan
  <2>2. /\ db \in Tables /\ db.conv.case \in CaseOrNone
        /\ FreeSegments(db) # {} /\ SegmentFits(db)
    BY InvRows DEF WInv, JInv, Settled, Segmented, AgentHandsOff, HasRoom
  <2>3. f \in Tables /\ f.conv.status = "queued"
    BY <2>1, <2>2, ReleaseToQueueFrame, ReleaseToQueueMoves
  <2>4. db' = [f EXCEPT !.queue.status = IF plan.agent = None THEN "pending" ELSE "assigned",
                        !.queue.agent = plan.agent, !.queue.ai = None]
    BY <1>6 DEF HandedToQueue
  <2> HIDE DEF f
  <2>5. db'.conv.status = "queued"
    BY <2>3, <2>4 DEF Tables
  <2> QED  BY <2>5 DEF AwaitsAI
<1> QED  BY <1>2, <1>5, <1>6

\* An activation makes the conversation human-active.
LEMMA HumanTakes ==
  ASSUME NEW d \in Tables, FreeSegments(d) # {}, SegmentFits(d), NEW a \in Agents,
         NEW caseStatus \in ActiveCaseStatuses
  PROVE  LET e == ActivateHumanOwner(d, d.conv.case, a, caseStatus)
         IN  e \in Tables /\ e.conv.status = "human_active"
<1>1. d.conv.case \in CaseOrNone
  BY DEF Tables, ConversationRow
<1> QED  BY <1>1, ActivateHumanOwnerFrame, ActivateHumanOwnerMoves

\* The routes and the outbound worker hand the conversation to a human.
LEMMA DeskTakes ==
  ASSUME WInv,
         \/ \E a \in staff : AcceptReservation(a) \/ ReopenFor(a) \/ SupervisorTransfers(a)
         \/ \E a, b \in staff : TransferTo(a, b)
         \/ \E a \in Agents : DeliverReply(a)
  PROVE  UNCHANGED db \/ db'.conv.status = "human_active"
<1>1. /\ db \in Tables /\ staff \subseteq Agents /\ SegmentFits(db) /\ IInv
      /\ {"in_progress", "waiting_customer"} \subseteq ActiveCaseStatuses
  BY InvRows, StatusesTyped DEF WInv, JInv, Settled, Segmented
<1>2. ASSUME NEW d \in Tables, FreeSegments(d) # {}, SegmentFits(d), NEW a \in Agents,
             NEW m \in AIAgentOrNone,
             db' = Assigned(ActivateHumanOwner(d, d.conv.case, a, "in_progress"), a, m)
      PROVE  db'.conv.status = "human_active"
  <2> DEFINE e == ActivateHumanOwner(d, d.conv.case, a, "in_progress")
  <2>1. e \in Tables /\ e.conv.status = "human_active"
    BY <1>1, <1>2, HumanTakes
  <2> HIDE DEF e
  <2>2. db' = Assigned(e, a, m)
    BY <1>2 DEF e
  <2> QED  BY <2>1, <2>2, AssignedFrame
<1>3. CASE \E a \in staff, b \in staff : AcceptReservation(a) \/ TransferTo(b, a)
  <2>1. PICK a \in staff :
          /\ FreeSegments(db) # {}
          /\ db' = Assigned(ActivateHumanOwner(db, db.conv.case, a, "in_progress"), a, None)
    BY <1>3 DEF AcceptReservation, TransferTo, Commit, HasRoom
  <2> QED  BY <1>1, <1>2, <2>1 DEF AIAgentOrNone
<1>4. CASE \E a \in staff : ReopenFor(a)
  <2>1. PICK a \in staff : ReopenFor(a)
    BY <1>4
  <2> DEFINE d == GetOrCreateActiveCase(db)
  <2>2. d \in Tables /\ FreeSegments(d) # {} /\ SegmentFits(d)
    BY <1>1, <2>1, FoundRows DEF ReopenFor, SameCases, WInv
  <2>3. d.queue.ai \in AIAgentOrNone
    BY <2>2 DEF Tables, QueueRow
  <2>4. db' = Assigned(ActivateHumanOwner(d, d.conv.case, a, "in_progress"), a, d.queue.ai)
    BY <2>1 DEF ReopenFor, Commit
  <2> HIDE DEF d
  <2> QED  BY <1>1, <1>2, <2>2, <2>3, <2>4
<1>5. CASE \E a \in staff : SupervisorTransfers(a)
  <2>1. PICK a \in staff : SupervisorTransfers(a)
    BY <1>5
  <2> DEFINE row == [db.queue EXCEPT !.status = "assigned", !.agent = a, !.ai = None]
             f == [db EXCEPT !.queue = row]
             d == GetOrCreateActiveCase(f)
  <2>2. row \in QueueRow
    BY <1>1 DEF Tables, QueueRow, QueueStatus, AgentOrNone, AIAgentOrNone
  <2>3. db' = ActivateHumanOwner(d, d.conv.case, a, "in_progress")
    BY <2>1 DEF SupervisorTransfers, Commit
  <2> HIDE DEF row
  <2>4. f \in Tables /\ SameCases(db, f) /\ f.conv = db.conv /\ f.segs = db.segs
    BY <1>1, <2>2, QueueFrame
  <2> HIDE DEF f
  <2>5. d \in Tables /\ FreeSegments(d) # {} /\ SegmentFits(d)
    BY <1>1, <2>1, <2>4, FoundRows DEF SupervisorTransfers, WInv
  <2> HIDE DEF d
  <2> QED  BY <1>1, <2>3, <2>5, HumanTakes
<1>6. CASE \E a \in Agents : DeliverReply(a) /\ ~UNCHANGED db
  <2>1. PICK a \in Agents : DeliverReply(a) /\ db' = Delivered(a)
    BY <1>6 DEF DeliverReply
  <2> DEFINE f == [db EXCEPT !.conv.segment = None]
             d == IF db.conv.status = "resolved" THEN GetOrCreateActiveCase(f) ELSE db
             e == ActivateHumanOwner(d, d.conv.case, a, "waiting_customer")
  <2>2. d \in Tables /\ FreeSegments(d) # {} /\ SegmentFits(d)
    <3>1. CASE db.conv.status = "resolved"
      <4>1. db.conv.segment = None
        BY <3>1 DEF WInv, Settled, AtRest
      <4>2. f = db
        BY <1>1, <4>1 DEF Tables, ConversationRow
      <4>3. SameCases(db, f)
        BY <4>2 DEF SameCases
      <4>4. d = GetOrCreateActiveCase(f)
        BY <3>1
      <4> HIDE DEF d, f
      <4> QED  BY <1>1, <2>1, <4>2, <4>3, <4>4, FoundRows DEF WInv, DeliverReply
    <3>2. CASE db.conv.status # "resolved"
      BY <1>1, <2>1, <3>2 DEF DeliverReply, HasRoom
    <3> QED  BY <3>1, <3>2
  <2>3. db' = [Assigned(e, a, e.queue.ai) EXCEPT !.queue.locked = FALSE]
    BY <2>1 DEF Delivered
  <2> HIDE DEF d
  <2>4. e \in Tables /\ e.conv.status = "human_active"
    BY <1>1, <2>2, HumanTakes
  <2> HIDE DEF e
  <2>5. db'.conv = e.conv
    BY <2>3, <2>4 DEF Assigned, Tables
  <2> QED  BY <2>4, <2>5
<1> QED  BY <1>3, <1>4, <1>5, <1>6

\* Closing leaves no open conversation.
LEMMA ClosingResolves ==
  ASSUME WInv, AgentResolves \/ ForceClose \/ FollowUpTimeout
  PROVE  db'.conv.status = "resolved"
<1> DEFINE f == IF HasCase(db) THEN CloseCurrentSegment(db) ELSE db
           d == ResolveConversation(f)
<1>1. db' = [d EXCEPT !.queue.status = "resolved"] \/ db' = [d EXCEPT !.queue = ResetQueue(d.queue)]
  BY DEF AgentResolves, ForceClose, FollowUpTimeout, ResolveQueue, Commit
<1>2. f \in Tables /\ SameCases(db, f)
  BY InvRows, CloseCurrentSegmentFrame DEF WInv, JInv, SameCases
<1>3. ActiveCases(f) = {f.conv.case} \ {None}
  BY <1>2, InvRows DEF WInv, JInv, SameCases, ActiveCases, IsActiveCase
<1>4. d \in Tables /\ d.conv.status = "resolved"
  BY <1>2, <1>3, ResolveConversationFrame
<1> HIDE DEF d
<1> QED  BY <1>1, <1>4 DEF Tables

\* What the takeover and the release make of the conversation, whichever job does it.
LEMMA JobWrites ==
  ASSUME WInv, NEW j \in Jobs, FreeSegments(db) # {}
  PROVE  TakenByAI(j).conv.status = "bot_active" /\ ReleasedToHumans(j).conv.status = "queued"
<1>1. /\ db \in Tables /\ SegmentFits(db)
      /\ jobs[j].case \in CaseOrNone /\ jobs[j].ai \in AIAgentOrNone
      /\ jobs[j].reserved \in AgentOrNone
  BY InvRows DEF WInv, JInv, IInv, TypeOK, Job, Settled, Segmented
<1>2. TakenByAI(j).conv.status = "bot_active"
  <2> DEFINE e == ActivateAIOwner(db, jobs[j].case, jobs[j].ai, "waiting_customer", "bot_active")
  <2>1. "waiting_customer" \in ActiveCaseStatuses
        /\ "bot_active" \in ConversationStatus \ {"resolved"}
    BY StatusesTyped DEF ConversationStatus
  <2>2. e \in Tables /\ e.conv.status = "bot_active"
    BY <1>1, <2>1, ActivateAIOwnerFrame, ActivateAIOwnerMoves
  <2>3. TakenByAI(j) = [e EXCEPT !.queue.ai = jobs[j].ai]
    BY DEF TakenByAI
  <2> HIDE DEF e
  <2> QED  BY <2>2, <2>3 DEF Tables
<1>3. ReleasedToHumans(j).conv.status = "queued"
  <2> DEFINE e == ReleaseToQueue(db, jobs[j].case, jobs[j].reserved)
  <2>1. e \in Tables /\ e.conv.status = "queued"
    BY <1>1, ReleaseToQueueFrame, ReleaseToQueueMoves
  <2>2. PICK row : ReleasedToHumans(j) = [e EXCEPT !.queue = row]
    BY DEF ReleasedToHumans
  <2> HIDE DEF e
  <2> QED  BY <2>1, <2>2 DEF Tables
<1> QED  BY <1>2, <1>3

\* So a step of a job that leaves the conversation open wrote no row.
LEMMA RoutingWrites ==
  ASSUME WInv, NEW j \in Jobs, RoutingStep(j)
  PROVE  UNCHANGED db \/ db'.conv.status \in {"bot_active", "queued"}
<1>1. CASE AITakesOver(j)  BY <1>1, JobWrites DEF AITakesOver
<1>2. CASE ReleaseJob(j)  BY <1>2, JobWrites DEF ReleaseJob
<1> QED
  BY <1>1, <1>2 DEF RoutingStep, SkipJob, StartJob, AIReplies, AIGivesUp, PlanRelease,
     CompleteJob, RescueJob

\* With every agent in place, PostgreSQL accepts a release of the current case.
LEMMA ReleaseAccepted ==
  ASSUME WInv, ~AgentRemoval, NEW j \in Jobs, FreeSegments(db) # {}, HasCase(db),
         jobs[j].case = db.conv.case
  PROVE  Committable(ReleasedToHumans(j), staff)
<1> DEFINE e == ReleasedToHumans(j)
<1>1. e \in Tables /\ WritesCase(db, e, db.conv.case)
  BY ReleasedToHumansFrame DEF WInv, JInv
<1> HIDE DEF e
<1>2. \A k \in CaseIds : IsActiveCase(e, k) => k = db.conv.case
  <2> SUFFICES ASSUME NEW k \in CaseIds, IsActiveCase(e, k), k # db.conv.case PROVE FALSE
    OBVIOUS
  <2>1. IsActiveCase(db, k)
    BY <1>1 DEF WritesCase, IsActiveCase
  <2> QED  BY <2>1, InvRows DEF WInv, JInv, ActiveCases
<1>3. SingleActiveCase(e)
  BY <1>2 DEF SingleActiveCase
<1>4. staff = Agents
  BY DEF WInv, StaffInv
<1>5. e.conv.agent \in AgentOrNone /\ e.queue.agent \in AgentOrNone
  BY <1>1 DEF Tables, ConversationRow, QueueRow
<1>6. \A s \in SegmentIds : e.segs[s].owner.type = "human" => e.segs[s].owner.id \in AgentOrNone
  <2> TAKE s \in SegmentIds
  <2>1. e.segs[s].owner \in Owner
    BY <1>1 DEF Tables, SegmentRow
  <2> QED  BY <2>1 DEF Owner
<1>7. NamedAgents(e) \subseteq AgentOrNone
  BY <1>5, <1>6 DEF NamedAgents
<1> QED  BY <1>3, <1>4, <1>7 DEF Committable, AgentOrNone, e

\* A step of the serving job settles the conversation or leaves it serving.
LEMMA ServingStep ==
  ASSUME WInv, ~AgentRemoval, AwaitsAI, NEW j \in Jobs, Serves(j), RoutingStep(j), UNCHANGED db
  PROVE  Serves(j)'
<1>1. jobs \in [Jobs -> Job] /\ jobs[j] \in Job
  BY DEF WInv, JInv, IInv, TypeOK
<1>2. /\ db.conv.status = "open" /\ HasCase(db)
  BY DEF AwaitsAI, WInv, Settled, AtRest
<1>3. \A r : Advance(j, r) => jobs'[j] = r
  BY <1>1 DEF Advance
<1>4. jobs[j].rescue => jobs[j].phase \in {"planning", "releasing"}
  BY DEF WInv, JInv, RescueInv
<1>5. ASSUME NEW r \in Job, jobs'[j] = r, r.case = db.conv.case,
             r.phase \in {"running", "replying", "planning", "releasing"},
             r.phase = "running" => ~r.fallback
      PROVE  Serves(j)'
  BY <1>5 DEF Serves, WorkingPhases
<1>6. ASSUME Throw(j), ~jobs[j].rescue PROVE Serves(j)'
  <2>1. jobs'[j] = [NoJob EXCEPT !.phase = "failed"]
    BY <1>3, <1>6 DEF Throw
  <2>2. jobs'[j].phase = "failed"
    BY <2>1 DEF NoJob
  <2> QED  BY <2>2 DEF Serves, WorkingPhases
<1>7. ~SkipJob(j) /\ ~CompleteJob(j)
  BY <1>2 DEF SkipJob, CompleteJob, Serves
<1>8. CASE StartJob(j)
  <2> DEFINE r == [jobs[j] EXCEPT !.case = db.conv.case]
             s == [r EXCEPT !.phase = "running"]
  <2>1. db.conv.case \in CaseOrNone /\ ~jobs[j].fallback
    BY <1>8, InvRows DEF WInv, JInv, StartJob, Serves
  <2>2. r \in Job /\ r.case = db.conv.case /\ r.fallback = jobs[j].fallback
    BY <1>1, <2>1 DEF Job
  <2>3. s \in Job /\ s.phase = "running" /\ s.case = db.conv.case /\ s.fallback = jobs[j].fallback
    BY <1>1, <2>1 DEF Job, JobPhases, WorkingPhases
  <2>4. Advance(j, IF r.ai = None THEN BeginRelease(r, FALSE) ELSE s)
    BY <1>8 DEF StartJob
  <2> HIDE DEF r, s
  <2>5. CASE r.ai = None
    <3>1. jobs'[j] = BeginRelease(r, FALSE)
      BY <1>3, <2>4, <2>5
    <3> QED  BY <1>5, <2>2, <3>1, ReleaseBegins
  <2>6. CASE r.ai # None
    <3>1. jobs'[j] = s
      BY <1>3, <2>4, <2>6
    <3> QED  BY <1>5, <2>1, <2>3, <3>1
  <2> QED  BY <2>5, <2>6
<1>9. CASE AIReplies(j)
  <2> DEFINE r == [jobs[j] EXCEPT !.phase = "replying", !.reserved = None]
  <2>1. r \in Job /\ r.phase = "replying" /\ r.case = jobs[j].case
    BY <1>1 DEF Job, JobPhases, WorkingPhases, AgentOrNone
  <2>2. jobs'[j] = r /\ jobs[j].case = db.conv.case
    BY <1>3, <1>9 DEF AIReplies, Serves, WorkingPhases
  <2> HIDE DEF r
  <2> QED  BY <1>5, <2>1, <2>2
<1>10. CASE AIGivesUp(j)
  <2>1. ~jobs[j].fallback /\ jobs[j].case = db.conv.case
    BY <1>10 DEF AIGivesUp, Serves, WorkingPhases
  <2>2. jobs'[j] = BeginRelease(jobs[j], TRUE)
    BY <1>3, <1>10, <2>1 DEF AIGivesUp
  <2> QED  BY <1>1, <1>5, <2>1, <2>2, ReleaseBegins
<1>11. CASE AITakesOver(j)
  <2>1. jobs[j].phase = "replying" /\ FreeSegments(db) # {}
    BY <1>11 DEF AITakesOver
  <2>2. db' # TakenByAI(j)
    BY <1>2, <2>1, JobWrites
  <2>3. Throw(j)
    BY <1>11, <2>2 DEF AITakesOver
  <2> QED  BY <1>4, <1>6, <2>1, <2>3
<1>12. CASE PlanRelease(j)
  <2>1. PICK h \in AgentOrNone : Advance(j, [jobs[j] EXCEPT !.phase = "releasing", !.reserved = h])
    <3>1. PICK eligible \in SUBSET staff : \E h \in DecideForTarget(eligible, {}) :
            Advance(j, [jobs[j] EXCEPT !.phase = "releasing", !.reserved = h])
      BY <1>2, <1>12 DEF PlanRelease
    <3> QED  BY <3>1, InvRows, ChoicesTyped DEF WInv, JInv
  <2> DEFINE r == [jobs[j] EXCEPT !.phase = "releasing", !.reserved = h]
  <2>2. r \in Job /\ r.phase = "releasing" /\ r.case = jobs[j].case
    BY <1>1 DEF Job, JobPhases, WorkingPhases
  <2>3. jobs'[j] = r /\ jobs[j].case = db.conv.case
    BY <1>3, <1>12, <2>1 DEF PlanRelease, Serves, WorkingPhases
  <2> HIDE DEF r
  <2> QED  BY <1>5, <2>2, <2>3
<1>13. CASE ReleaseJob(j)
  <2>1. /\ jobs[j].phase = "releasing" /\ FreeSegments(db) # {}
        /\ jobs[j].case = db.conv.case
    BY <1>13 DEF ReleaseJob, Serves, WorkingPhases
  <2>2. db' = ReleasedToHumans(j)
    BY <1>2, <1>13, <2>1, ReleaseAccepted DEF ReleaseJob
  <2> QED  BY <1>2, <2>1, <2>2, JobWrites
<1>14. CASE RescueJob(j)
  <2> DEFINE r == [NoJob EXCEPT !.phase = "planning", !.case = db.conv.case, !.rescue = TRUE]
  <2>1. r \in Job /\ r.phase = "planning" /\ r.case = db.conv.case
    BY InvRows, NoJobTyped DEF NoJob, Job, JobPhases, WorkingPhases, WInv, JInv
  <2>2. jobs'[j] = r
    BY <1>2, <1>3, <1>14 DEF RescueJob
  <2> HIDE DEF r
  <2> QED  BY <1>5, <2>1, <2>2
<1> QED
  BY <1>7, <1>8, <1>9, <1>10, <1>11, <1>12, <1>13, <1>14 DEF RoutingStep
-----------------------------------------------------------------------------
(* Nobody waits for an AI that no job will bring *)

\* While no process dies and no agent is deleted, a waiting conversation is served
\* after every step.
LEMMA WaitStep ==
  ASSUME WInv, [Next]_vars
  PROVE  WaitIsServed'
<1> SUFFICES ASSUME AwaitsAI', ~WorkerCrashes, ~AgentRemoval PROVE \E j \in Jobs : Serves(j)'
  BY DEF WaitIsServed
<1>1. db'.conv.status = "open"
  BY DEF AwaitsAI
<1>2. CASE UNCHANGED <<db, jobs>>
  BY <1>2 DEF WInv, WaitIsServed, AwaitsAI, Serves
<1>3. CASE InboundMessage  BY <1>3, InboundServes
<1>4. CASE AgentHandsOff  BY <1>4, HandsOffServes
<1>5. CASE AcceptTimeout \/ SubsequentResponseTimeout
  BY <1>5, ReassignServes DEF AcceptTimeout, SubsequentResponseTimeout
<1>6. CASE AgentResolves \/ ForceClose \/ FollowUpTimeout
  BY <1>1, <1>6, ClosingResolves
<1>7. CASE \/ \E a \in staff : AcceptReservation(a) \/ ReopenFor(a) \/ SupervisorTransfers(a)
           \/ \E a, b \in staff : TransferTo(a, b)
           \/ \E a \in Agents : DeliverReply(a)
  <2>1. UNCHANGED jobs
    BY <1>7 DEF AcceptReservation, ReopenFor, SupervisorTransfers, TransferTo, DeliverReply
  <2> QED  BY <1>1, <1>2, <1>7, <2>1, DeskTakes
<1>8. CASE \E j \in Jobs : RoutingStep(j)
  <2>1. PICK i \in Jobs : RoutingStep(i)
    BY <1>8
  <2>2. UNCHANGED db
    BY <1>1, <2>1, RoutingWrites
  <2>3. AwaitsAI
    BY <2>2 DEF AwaitsAI
  <2>4. PICK j \in Jobs : Serves(j)
    BY <2>3 DEF WInv, WaitIsServed
  <2>5. CASE i = j
    BY <2>1, <2>2, <2>3, <2>4, <2>5, ServingStep
  <2>6. CASE i # j
    <3>1. jobs'[j] = jobs[j]
      BY <2>1, <2>6, RoutingJobsTyped DEF WInv, JInv
    <3> QED  BY <2>2, <2>4, <3>1 DEF Serves
  <2> QED  BY <2>5, <2>6
<1>9. CASE \E a \in staff : AgentReplies(a)
  BY <1>2, <1>9 DEF AgentReplies
<1>10. ~(\E j \in Jobs : CrashJob(j)) /\ ~(\E a \in staff : RemoveAgent(a))
  BY DEF CrashJob, RemoveAgent
<1> QED
  BY <1>2, <1>3, <1>4, <1>5, <1>6, <1>7, <1>8, <1>9, <1>10
  DEF Next, ConsoleStep, AdminStep, TimerStep, vars

\* Only a deletion takes an agent from the staff.
LEMMA StaffStep ==
  ASSUME StaffInv, [Next]_vars
  PROVE  StaffInv'
<1> SUFFICES ASSUME ~AgentRemoval, staff = Agents PROVE UNCHANGED staff
  BY DEF StaffInv
<1>1. CASE UNCHANGED vars  BY <1>1 DEF vars
<1>2. CASE \E j \in Jobs : RoutingStep(j) \/ CrashJob(j)
  BY <1>2 DEF RoutingStep, SkipJob, StartJob, AIReplies, AIGivesUp, AITakesOver, PlanRelease,
     ReleaseJob, CompleteJob, RescueJob, CrashJob
<1>3. CASE InboundMessage \/ \E a \in Agents : DeliverReply(a)
  BY <1>3 DEF InboundMessage, DeliverReply
<1>4. CASE ConsoleStep
  BY <1>4 DEF ConsoleStep, AgentReplies, AcceptReservation, ReopenFor, TransferTo, AgentHandsOff,
     AgentResolves
<1>5. CASE AdminStep
  BY <1>5 DEF AdminStep, SupervisorTransfers, RemoveAgent, ForceClose
<1>6. CASE TimerStep
  BY <1>6 DEF TimerStep, AcceptTimeout, SubsequentResponseTimeout, FollowUpTimeout, Reassign
<1> QED  BY <1>1, <1>2, <1>3, <1>4, <1>5, <1>6 DEF Next

(***************************************************************************)
(* A conversation planned for an AI agent always has a routing job that    *)
(* will take it to the AI or back to the humans, however the intake, the   *)
(* timers, the routes and the jobs themselves interleave, as long as no    *)
(* process dies between its transaction and the queue and no agent profile *)
(* is deleted under the release: the job that was queued for it, one queued*)
(* since, or one whose rows PostgreSQL cannot refuse.                      *)
(***************************************************************************)
THEOREM NobodyWaitsForNothing == Spec => []WaitIsServed
<1>1. Init => WInv
  <2> SUFFICES ASSUME Init PROVE WInv
    OBVIOUS
  <2>1. JInv /\ Settled(db)
    BY JInvInit, InitSettles
  <2>2. StaffInv
    BY DEF Init, StaffInv
  <2>3. WaitIsServed
    BY DEF Init, EmptyTables, WaitIsServed, AwaitsAI
  <2> QED  BY <2>1, <2>2, <2>3 DEF WInv
<1>2. WInv /\ [Next]_vars => WInv'
  <2> SUFFICES ASSUME WInv, [Next]_vars PROVE WInv'
    OBVIOUS
  <2>1. JInv'
    BY JInvStep DEF WInv
  <2>2. Settled(db')
    BY StepSettles DEF WInv, JInv, SInv
  <2>3. StaffInv'
    BY StaffStep DEF WInv
  <2>4. WaitIsServed'
    BY WaitStep
  <2> QED  BY <2>1, <2>2, <2>3, <2>4 DEF WInv
<1>3. WInv => WaitIsServed
  BY DEF WInv
<1> QED  BY <1>1, <1>2, <1>3, PTL DEF Spec
=============================================================================
