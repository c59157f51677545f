# NuyChat: models and proofs

NuyChat is a multi-tenant customer-service platform (`src/apps/api`, Fastify +
PostgreSQL + BullMQ/Redis, and four frontends). Customers write through
channels (WhatsApp, web chat); the API decides whether a human agent or an AI
agent owns the next turn, lets that owner answer, and moves the conversation
between them as people accept, transfer, hand off, time out or close.

This directory holds TLA+ specifications of the parts of that system where
several processes write the same rows, or keep the same fact in PostgreSQL and
in Redis: the ownership of a conversation and its timers, the engine for
asynchronous tasks, the index of customer memories, and the WhatsApp workspace.
They are checked with TLC on small instances, and theorems about each of them are
checked with TLAPS for every size. `PROJECT.json` lists components, runs, mutants,
findings, hazards and theorems, and maps each definition to the source lines
it stands for. Unless said otherwise, paths below are relative to
`src/apps/api/src`.

## 1. Inventory of the system

| Component | Code | State it keeps | Operations | Hard part | What makes it correct |
|---|---|---|---|---|---|
| Intake | `workers/inbound.worker.ts`, `modules/conversation/conversation.service.ts` | `conversations`, `messages` | find/reopen/create conversation, case, segment; plan; queue the AI job | at-least-once delivery; crash after commit, before `queue.add` | a conversation never ends up without case, segment or queue row |
| Routing decision | `modules/routing-engine/*` | none (reads the context, returns a plan) | overrides, owner side, dispatch, plans | availability and `service_request_mode` read at one moment, used later | the side asked for wins while somebody there is available |
| Ownership services | `modules/conversation/{ownership,conversation-segment,conversation-case}.service.ts`, `modules/routing/queue-assignment.service.ts` | `conversation_cases`, `conversation_segments`, `queue_assignments` | seven transitions; start/end/switch segment; get-or-create/close case | the same fact is kept in four tables | the tables agree; one active case; closed stays closed |
| Routing worker (AI runtime) | `workers/routing.worker.ts` | BullMQ job | guard, run the model, send, take over, release to humans, rescue a failed job | reads the conversation once, waits for a model, writes back in later transactions | a late job does not disturb a newer session or a human |
| Outbound worker | `workers/outbound.worker.ts` | BullMQ job | send to the channel; the sender becomes the owner | delivery after transfer, release or close | a late reply leaves consistent rows |
| Agent console | `modules/conversation/conversation.routes.ts` | - | reply, accept, transfer, hand off, resolve, reopen | check and effect in different transactions | only the assignee acts |
| Supervisor, tenant admin | `modules/supervisor-admin`, `modules/org-admin` | `agent_profiles`, `tenant_memberships` | transfer, force-close, delete an agent profile | deletion while plans and replies name the agent | no row names a deleted agent |
| Timeout worker, SLA | `workers/conversation-timeout.worker.ts`, `modules/sla/*` | BullMQ delayed jobs, `sla_breaches` | accept, first response, subsequent response, follow-up timers; recovery sweep at start-up | job ids that BullMQ still knows; timer against answer | a conversation that needs a timer has one |
| Dispatch, presence | `modules/routing-engine/{human,ai}-dispatch.service.ts`, `modules/agent/presence.service.ts` | presence, counts of open conversations | eligible agents, load, choice | two conversations count before either writes | concurrency limits |
| Service mode | `modules/service-mode` | derived from the queue row | notices to the customer | order of mode changes | one notice for a change |
| Task engine | `modules/tasks`, `workers/task-engine.worker.ts` | `async_tasks`, BullMQ jobs under the row's id | schedule (look up, insert, add), execute, publish, announce, fail, retry | two accounts of one job; a key without a unique index; death between publish and complete | row and job agree; a result is postprocessed once; every task settles |
| Memory index | `modules/memory`, `modules/tasks/task-vector-memory.service.ts`, `workers/customer-profile-refresh.worker.ts` | `customer_memory_profiles`, `customer_memory_units`, vectors | rebuild, write, claim, reindex, record | a row changes while its old text is embedded; the scheduling call is not awaited | what reads as indexed is at rest; what changed is indexed or refused |
| WhatsApp workspace | `modules/wa-workspace`, its workers | `wa_assignment_locks`, `wa_outbound_jobs`, `wa_messages`, `wa_message_gaps` | take over, release, reply, send, record, startup recovery, ingest, reconcile | a provider without idempotency keys; its echo; locks read before they are written | no reply lost; a recorded one not sent again; one provider message is one row |
| Authentication | `modules/auth` | sessions, refresh tokens | login, refresh rotation, revoke | two refreshes with one token | a token is used once |
| Orchestrator, skills, memory contents | `modules/orchestrator`, `modules/skills`, `modules/memory` | prompts, memory texts | call external models | - | (data, outside models) |
| Channels, web chat, realtime | `modules/channel`, `modules/webchat`, `modules/realtime` | adapters | receive, send, notify | - | - |
| Platform, analytics, quality, frontends, packages | `modules/platform`, `modules/analytics`, ..., `src/apps/*`, `src/packages` | CRUD and read models | - | - | - |

How they interact: a channel puts an inbound job on a BullMQ queue. The inbound
worker writes the rows in one transaction and then adds a routing job, a timer
or both. The routing worker calls the model, adds an outbound job and writes the
rows again. HTTP routes write the same rows directly or add an outbound job. The
outbound worker, after the channel accepted a message, writes the rows again.
The timeout worker plans again. There is no lock around these; what holds them
together is the transaction of each step, one partial unique index and the
foreign keys.

`PROJECT.json` gives each component its status, and lists the hazards with the
line where each one bites.

## 2. The modules

```
ownership of a conversation                      its timers
  RoutingDecision       pure: overrides, plans     ConversationTimers
    ^ EXTENDS                                        <-- ConversationTimersProofs
  ConversationTables    rows and services on them
    ^ EXTENDS            <-- ConversationTablesProofs
  ConversationOwnership  -- INSTANCE, refines --> ConversationSessions
    ^ EXTENDS            <-- ConversationOwnershipProofs
  MCConversationOwnership        ^ EXTENDS
                         <-- ConversationSegmentsProofs
                              ^ EXTENDS
                         <-- ConversationJobsProofs

asynchronous tasks      memory index             WhatsApp workspace
  TaskScheduling          MemoryIndex              WaReplies
    ^ EXTENDS             <-- MemoryIndexProofs      ^ EXTENDS
  TaskEngine                                       WaWorkspace
    ^ EXTENDS                                        <-- WaWorkspaceProofs
    <-- TaskEngineProofs
  MCTaskEngine
```

### Ownership

**RoutingDecision** translates `routing-decision.service.ts`: `ResolveOverride`,
`ResolveServiceRequestMode`, `ResolveOwnerSide` (with the hybrid mode),
`CreatePlan`, `PreservedHumanPlan`, `CreateAgentHandoffPlan`. A plan keeps the
fields ownership depends on. Which of several eligible agents the load
strategies choose is left open, so the result is a set of plans.

**ConversationTables** has one record of rows, `d.conv`, `d.cases`, `d.segs`,
`d.queue`, and every method of the segment, case and ownership services as an
operator from rows to rows: those methods run inside the caller's transaction,
and the caller composes them in the order of its code. `Committable` is what
PostgreSQL refuses at the end of a transaction: a second active case
(`conversation_cases_single_active_idx`) and an assignee without a profile
(foreign keys to `agent_profiles`). A case or a segment that does not exist yet
is an unused id; a segment id is used again when the segment has ended and no
row refers to it.

**ConversationOwnership** is the state machine.

| Variable | Code |
|---|---|
| `db` | the rows above |
| `jobs` | the routing queue and what its worker holds in memory (plan, case id read at the start, phase) |
| `outbox` | agents' replies on the outbound queue |
| `staff` | rows of `agent_profiles` |

One transaction is one action; code with several transactions, or with a model
call or a queue in between, is several.

| Actions | Code |
|---|---|
| `InboundMessage` | inbound worker: find or reopen, case, segment backfill, plan, apply, enqueue |
| `SkipJob`, `StartJob` | the guards at the start of a routing job |
| `AIReplies`, `AITakesOver` | the answer goes out; then the transaction that makes the AI the owner |
| `AIGivesUp`, `PlanRelease`, `ReleaseJob` | handoff, unusable answer, orchestrator error; the two transactions of `releaseConversationToHumans` |
| `CompleteJob`, `RescueJob`, `CrashJob` | completion, `worker.on("failed")`, death of the process with BullMQ's stall handling |
| `AgentReplies`, `AcceptReservation`, `TransferTo`, `AgentHandsOff`, `AgentResolves`, `ReopenFor` | the agent's routes |
| `SupervisorTransfers`, `ForceClose`, `RemoveAgent` | supervisor and tenant admin routes |
| `DeliverReply` | the transaction of the outbound worker after delivery |
| `AcceptTimeout`, `SubsequentResponseTimeout`, `FollowUpTimeout` | what each timer does to ownership |

Abstractions, all towards more behaviour than the code has, except the atomic
transactions:

- Which agents are eligible, which AI agents are active, what the customer means
  (`CustomerSignals`) and what the model answers are chosen anew at each step.
- A timer may fire whenever the guards of its worker hold, whether or not the
  timer was scheduled; which timers exist is the subject of `ConversationTimers`.
- Reopening for "the last human handler" may choose any member of the staff.
- A transaction is atomic. Two transactions of the services conflict on the
  conversation and case rows they update, but under READ COMMITTED one may act
  on a value the other has just replaced; that is not modelled.
- Departments, priorities, positions, wait estimates, texts, notices, messages,
  audit traces and SLA records are left out; no decision in the model reads them.
- Delivery of an AI reply changes no ownership and is left out; so are channel
  failures, after which the outbound job changes no row the model keeps.

Initially the chat was seen before and its last session is over. A first contact
differs only in inserting the conversation row with the values reopening gives it.

**ConversationSessions** is the abstract specification: a conversation is served
in sessions, each begun once (`Begin`) and ended for good (`End`). That is what
reports, quality control and billing rely on when they count cases. The
refinement mapping in `ConversationOwnership` (`Sessions`) reads `current` from
`current_case_id` and `past` from the resolved cases, so `OneSessionAtATime`
says that no step replaces a case by another, drops it unresolved, or resolves
one that is not the current one.

**MCConversationOwnership** holds the values of constants that a cfg cannot
write: the messages customers send and the tenant's planning modes.

### Timers

**ConversationTimers** has the delayed BullMQ jobs of one conversation
(`timers`: the two ids of the accept timer, the follow-up and the subsequent
response timer) and the Redis calls which the handlers make after their
transactions, one at a time (`tails`). `status` and `turn` are what of the
conversation the timers' guards read; `replied` is read when a customer's message
arrives. `Added` and `Removed` are what BullMQ does:
a job that runs cannot be removed, and one whose id is known is not added.
There is no clock. A delayed job may become due at any moment; what its
handler must know of time is whether its `scheduledAt` is later than the last
activity it looks for, and that is the job's `quiet`. `Evict` is
`removeOnComplete`. `Restart` loses the calls still to be made, runs active jobs
again, and does what the startup sweeps of `server.ts` do. `Targets` and
`Reassigns` are the choices of the tenant's service levels and policy; a target
that is not positive sets no timer. `turn` says whose message was last;
`TaskMessage` is the system message of a finished task (`"noted"`), which the
close timer's handler takes for an activity and the startup sweep for no reply.

The calls of handlers overlap freely: several of them are `void` promises, and the
workers run with concurrency. Two history variables record where this and the
code's other choices cost the close timer. `overlap` says that, when the customer
or the service last wrote, an earlier handler had still calls to make on the timer.
`gone` says why the timer may be missing since the last reply: no time in the
service levels or no action in the policy (`"policy"`), a verdict that did not set
it again (`"verdict"`), or a restart between its calls or an earlier follow-up job
that was running and so could not be replaced (`"lost"`).

### Asynchronous tasks

**TaskScheduling** has the rows of `async_tasks` (`rows`), the BullMQ jobs under
the same ids with the step the worker is at (`jobs`), and the calls of
`scheduleLongTask` in progress (`calls`), which look the key up, insert and add
in three steps; when `queue.add` throws, the row is deleted in a fourth, and the job
may have reached Redis and run meanwhile. `Failed` is BullMQ's count of attempts and `Final` the worker's.
Deaths of workers and callers, failed statements and failed `queue.add` are
actions, `MaxFaults` of them in a behaviour. **TaskEngine** adds what the worker
makes of each kind of task: which task it schedules next (`FollowUp`), and what it
tells the conversation (`told`): the reply on the outbound queue (`Announce`), the
message of the result (`WriteMessage`), each a step that may fail, and the failure
(`Apologise`). `struck` records the tasks a death or an error
has left without a record; row and queue share no transaction, so the code
cannot do better for those. **MCTaskEngine** has the definitions its cfg cannot
write.

### Memory index

**MemoryIndex** has the profile row of one customer, which has a version, one
memory unit, which has none, the reindex tasks on their way (`tasks`), and the
scheduler keys held by published tasks (`done`). It takes from `TaskEngine` that
a key is held while its task waits, runs or is published, and that a task whose
worker died runs again. A reindex is four actions (read, begin, sync, record or
refuse), because a rebuild, a claim or another reindex may come between any two.

### WhatsApp workspace

**WaReplies** has the assignment lock and the conversation's replier (`lock`,
`replier`, and `asks`, the transactions between their read and their writes),
and a reply's row, BullMQ job and worker (`jobs`). `sent` counts the copies the
provider accepted: it has no idempotency key, and a copy's number is its provider
id. `Restart`, `RequeueRow`, `InspectJob` and `AddStuckJob` are the startup task,
which runs beside the worker. **WaWorkspace** adds ingestion: the echo of the
account's own message (`IngestEcho`), customer messages that quote one
(`LookUpQuoted`, `CommitQuote`), the gaps this leaves (`quotes`) and their
reconciliation, which the five-minute timer starts for accounts that are `online`
and the internal route on request (`scans`). No arrival closes a gap, as section 4
explains. `missed` records rows that startup passed by or whose add met a job
that was ending; `left` the gaps which a reconciliation had marked "reconciling"
when it died or its history sync threw.

The route runs at most one reconciliation at a time. The statements of one
transaction are not interleaved with those of others, except the look-up of a
quoted message and the commit of its gap. Errors that leave the process up between
the claim of a job and `queue.add` of a route, or between two steps of startup,
are not modelled; deaths there are.

## 3. The runs

| Run | Instance | Properties |
|---|---|---|
| `ownership` | 2 agents, 1 AI agent, 1 job, 2 sessions, tenant AI-first or human-first, customers who ask for a human and for the AI again | `TypeOK`, `CaseCurrency`, `OneLiveSegment`, `HandlerOwnsSegment`, `ReservationMirrored`, `WaitingIsQueued`, `WaitIsServed`, `ClosedStaysClosed`, `ReopenStartsFreshCase`, `OneSessionAtATime`, `StaleJobHarmless`, `WaitForAIEnds` |
| `ownership_faults` | 1 agent, 1 job; stale sessions, deleted profiles and crashing workers, with fairness | `CaseCurrency`, `SegmentCurrency`, `AssigneesExist`, `JobsDescend`, `EveryJobEnds` |
| `timers` | 2 handlers at once, 4 events, every policy, 1 restart | `TypeOK`, `AnsweredHasTimer`, `ClosesOnlyAnswered`, `AnsweredIsSettled` |
| `tasks` | 3 tasks, 1 client, 1 key of its own, 2 attempts, 2 faults | `TypeOK`, `RowFollowsJob`, `OneTaskPerDerivedKey`, `PublishedIsPostprocessed`, `FailureIsLastWord`, `EveryTaskSettles`, `TasksDescend` |
| `memory_index` | 2 tasks at once, 2 rebuilds, 1 write of the unit, 1 fault | `TypeOK`, `IndexedIsSettled`, `PendingIsServed` |
| `wa_workspace` | 2 members, 1 reply, 1 quote, 2 attempts, 2 copies, 3 lock transactions, 2 deaths | `TypeOK`, `ReplierMirrorsLock`, `IdsAreUnique`, `SentHasId`, `UnsentIsServed`, `RecordedIsFinal`, `NoReplyLost`, `GapIsWatched`, `GapSettles` |
| `v_takeover` | 1 agent, 1 job | counterexample to `AIStaysOut` |
| `v_case_owner` | 1 agent, human-first | counterexample to `CaseOwnerMatchesSegment` |
| `v_late_reply` | 2 agents | counterexample to `OnlyAssigneeReplies` |
| `v_stale_segment` | 1 agent, stale sessions | counterexample to `OneLiveSegment` once a stale queued conversation is reopened |
| `v_lost_timer` | 2 handlers, no restart, no reassignment | counterexample to `QueuedHasTimer` |
| `v_continue_timer` | 2 handlers, semantic policy, no restart | counterexample to `ContinuedHasTimer` |

What the properties say, and what they except:

- `CaseCurrency`: an ongoing conversation has a current case and it is the only
  active one. Four code paths create a case (intake, reopen, supervisor transfer,
  late reply), and jobs and rescues write through case ids they read earlier.
- `SegmentCurrency`, `OneLiveSegment`: a conversation with a case points to an
  open segment of that case, and no other segment is open.
- `HandlerOwnsSegment`: the handler on the conversation row owns the segment.
- `ReservationMirrored`: `assigned_agent_id` of the conversation and of the queue
  row name the same agent; the accept route checks both.
- `WaitingIsQueued`: a conversation that nobody handles has a live queue row, the
  only place where the recovery sweep looks.
- `ClosedStaysClosed`, `ReopenStartsFreshCase`, `OneSessionAtATime`: sessions do
  not run into each other.
- `StaleJobHarmless`: a job that read an earlier session's case writes nothing. A job
  that started on a resolved conversation carries no case and is not meant: it acts
  on the session that follows, and for it the properties above have to hold.
- `AssigneesExist`: no assignment to a deleted profile.
- `WaitIsServed`: a conversation planned for an AI agent has a job that is going to
  take it to the AI or back to the humans, although each job reads the rows once
  and writes them later. `JobsDescend`: each step of a job, a stall and the
  "failed" handler included, brings it nearer to its end. `EveryJobEnds`,
  `WaitForAIEnds`: liveness, see below.
- `AnsweredHasTimer`: a conversation that waits for its customer has a close
  timer that will act, unless `overlap`, unless `gone` names a reason, and unless a
  task's message came after the reply. The exceptions are the code's: each names
  one way in which it drops the timer, and two of them are findings of section 4.
  `ClosesOnlyAnswered`: that timer closes no conversation whose last message is the
  customer's; excepted are a message that came while the model was reading the
  thread, and one that came while an earlier reply had still to set the timer
  (`overlap`). `AnsweredIsSettled`: a wait for the customer without these
  exceptions comes to an end, unless replies go on for ever.
- `RowFollowsJob`: the status of a task's row agrees with BullMQ's job, unless
  `struck`. `OneTaskPerDerivedKey`: retries and reruns do not schedule the
  postprocessing or the encoding of a result twice. A job that stalled is not
  counted, because such a job may run beside the task that took its key; and the
  memories of a result whose postprocessing stalled (`Doubled`) may be encoded
  twice, because two postprocessings may then schedule the encoding at once.
  `PublishedIsPostprocessed`: a published result has its postprocessing.
  `OneTaskPerDerivedKey` is about keys with one caller at a time; two clients with
  one key may insert two tasks, in the model as in the code.
  `FailureIsLastWord`: after a conversation was told that a task failed it hears
  nothing more of the task, and the row is not taken back to work, unless the worker
  stalled. The reverse is not claimed: a failure may follow a result (section 4).
  `EveryTaskSettles`: a task on the queue ends published or failed.
  `TasksDescend`: no retry, restart or call leads a task back, and an ended job
  never runs again.
- `IndexedIsSettled`: a profile called indexed is neither dirty nor behind its
  version. `PendingIsServed`: a rebuilt profile is indexed or refused in the end.
  The exception it states is a real one: a published task keeps its scheduler
  key, so a version that was scheduled by the refresh worker once is claimed
  again and again, and never scheduled again.
- `ReplierMirrorsLock`: the replier is the lock's member. `IdsAreUnique`: the
  echo is not a second row of the reply. `SentHasId`: a reply is called sent only
  with the id of a copy the provider took. `UnsentIsServed`: while the process is up, a reply to be sent of
  which no copy has gone out is with its route, its BullMQ job or startup, unless
  `missed`. `RecordedIsFinal`: what is recorded as sent is not sent
  again; startup's own list is excepted, since startup sets rows back whatever
  they say by then. `NoReplyLost`: an accepted reply reaches the provider or is
  marked failed, unless `missed`. `GapIsWatched`: a gap that reads "reconciling", which the
  timer does not look for, is one that a reconciliation underway is still to list,
  unless `left`. `GapSettles`: once the account stays online, every open gap is put
  before a human, unless `left`.

### Bounds

*Ownership.* `CaseIds` (2) bounds the sessions: one job, reply or rescue can be
left over from the first session and act in the second, which is what the
properties about stale ids need. `SegmentIds` bounds the segments that are open
or referred to at the same time, not the number of owner changes; three suffice
without stale sessions, a fourth leaves room for the one a stale session leaves
behind. `Jobs` bounds the routing jobs alive at once. An action that may need a
new id waits while none is left (`HasRoom`, `JobRoom`, `StaleRoom`). Two human
agents suffice for a transfer, a wrong sender and an excluded assignee; no
property tells three agents from two. Sessions and customer wishes are finite
but the graph has cycles, so the number of messages and steps is not bounded.

*Timers.* Two `Tails` let two handlers' calls interleave; the intake alone needs
both, because it does not wait for its cancellation. `MaxEvents` (4) bounds
messages and acts of agents and routing: a reply, the customer's answer and another
reply overlap within it, with one act more. Firings and restarts (1) come on top.
Since replies are bounded, `AnsweredIsSettled` says of this instance that no wait
without an exception goes on for ever.

*Tasks.* Three ids are a task, its postprocessing and its memory encoding, the
longest chain one task causes; `RequestRoom` keeps ids for the chain, and
`OutOfIds` names the state in which a worker waits for an id only because the
model has few. Two attempts give a first, a retry and a last failure; two faults
give a second stall, and an error after a death. Two postprocessings of one
result that both reach the encoding (`Doubled`) need five ids, beyond this run:
the exception was found by the proof, which covers every size.

*Memory index.* Two tasks are two reindexes of the profile at once; two versions
make one of them late.

*WhatsApp.* Two sends are the message and a second copy, two deaths exhaust
BullMQ's stall limit, three lock transactions are a takeover, a forced takeover
and a release. Nothing after the acceptance of a reply reads the lock, so the
model lets the lock's transactions come before the first reply (`LockRoom`), and
lets replies begin after at most one of them (`ReplyRoom`); this keeps
the two halves from multiplying.

`CHECK_DEADLOCK FALSE` stands in `tasks`, `wa_workspace` and the runs of the
timers, where the system really stops when its requests or events are used up.

### Fairness

- *Ownership*: weak fairness of `RoutingStep(j)` only. BullMQ hands a waiting job
  to the worker, the worker's calls return (the AI client has a timeout), and a
  job that loses its lock is put back. Nothing is assumed of customers, agents,
  timers or replies. `EveryJobEnds` must hold although workers crash at any step,
  because a job stalls at most once before it fails, and a rescue is not repeated.
  `WaitForAIEnds` is claimed without crashes only: a process that dies between the
  commit and `routingQueue.add` of an agent handoff or a reassignment loses the
  job, and the conversation stays open until something else happens to it.
- *Timers*: handlers finish their calls (`Advance`) and a due follow-up job is run
  to its end (`FollowUpStep`); the other timers need not fire.
- *Tasks*: weak fairness of each task's worker and of the call it makes. Clients
  are not fair: they may stop in the middle of `scheduleLongTask`.
- *Memory index*: weak fairness of the workers, of a lease that lapses and of a
  retry time that passes; strong fairness of the refresh worker's claim, which
  comes every ten minutes and therefore meets, sooner or later, a moment at which
  the row may be claimed and a task can be scheduled.
- *WhatsApp*: handlers, worker, startup task, the restart of a dead process, the
  commit of an ingestion, the steps of a reconciliation underway, and the periodic
  scan, which is enabled only while the account is online. Not members, customers,
  the internal route or Baileys; `GapSettles` has "the account stays online" as its
  premise, since the scan passes by an account that is not.

### Mutants

For every property of a passing run `PROJECT.json` names a mutation
of a mapped definition (an operator with a suffix such as `_NoEnd` or
`_KeepsCase` next to the definition) under which TLC refutes the property.

## 4. Findings

- *AI re-engages after a human took over* (`v_takeover`). The guard with the
  comment "if a human agent has taken over, AI must not re-engage"
  (`workers/routing.worker.ts:100`) is evaluated before the model runs; the
  transaction after the answer does not read the status again.
- *Late reply* (`v_late_reply`). "Only the assigned agent may reply to this
  conversation" (`modules/conversation/conversation.routes.ts:3088`) is checked
  when the reply is queued, while delivery makes the sender the owner
  unconditionally, also after a transfer.
- *Segment left open* (`v_stale_segment`). Reopening a stale queued conversation
  clears `current_segment_id` without ending the segment.
- *Case owner and segment owner part* (`v_case_owner`). The planning transitions
  clear the case owner and leave the human's segment running, against
  `docs/conversation-cases-phase-a-checklist.md:156`.
- *Queued without a reassignment timer* (`v_lost_timer`). Scheduling the accept
  timer (`modules/sla/conversation-sla.service.ts:284`) adds slot a without
  removing it, and BullMQ ignores an add under an id it knows: the old job stays
  with its old `scheduledAt`, finds newer activity and skips. The comments at
  `:275-276` ("never left without a reassignment timer") and at
  `workers/inbound.worker.ts:427` ("replaces the previous delayed job") say
  otherwise.
- *Continued without a close timer* (`v_continue_timer`). When the model's verdict
  is that a conversation goes on, the follow-up job schedules itself again under its
  own id while it is active (`workers/conversation-timeout.worker.ts:242`). BullMQ
  neither removes nor replaces an active job, so nothing is left once it completes.
  `modules/sla/conversation-sla.service.ts:241-242` says that conversations "are
  never left without a close timer", and lines 6-7 the same of any recovery timer.
  The subsequent-response timer does the same at line 462.

Seen while reading or modelling, without a run of their own:

- Ownership: deleting an agent profile leaves the deleted id in
  `current_handler_id` and in the case owner, which are no foreign keys; a handoff
  dropped in fallback mode "because the customer is already queued" may leave an
  open conversation that is on no human queue; an ordinary message during AI
  fallback resets `service_request_mode`; a reassignment that chooses the AI side
  while no AI agent is active queues neither a job nor a timer.
- Timers: the verdict of the semantic evaluation is carried out over a message
  that came meanwhile; with overlapping handlers a late close timer outlives the
  customer's next message, and a late cancellation takes the timer of a newer reply;
  a reply delivered while the follow-up job runs is left without a timer; a task's
  system message after a reply makes the close timer skip, and nothing sets it again.
- Tasks: the reply of a script's result goes to the outbound queue before the
  message of the result is written (`workers/task-engine.worker.ts:175`, `:204`), so
  a customer may be sent the result, on every attempt again, and the conversation be
  told of the failure at the end. A worker that dies after its last attempt was marked failed runs the
  task again, beside the one that took its key; when it was a postprocessing, both
  look for the encoding's key before either inserts, and the memories of one
  result are encoded twice.
- Memory index: a unit whose reindex was refused is picked every ten minutes and
  never indexed again, because its published task holds the unit's only key
  (`docs/customer-memory-system-design.md:352-359` describes a retry); the same
  blocks a second attempt at a version of the profile. A profile rebuilt while
  its older text was embedded is recorded as indexed.
- WhatsApp: the arrival of a missing message closes no gap.
  `resolveGapsForArrivedMessage` (`modules/wa-workspace/wa-reconcile.service.ts:56`)
  passes `providerMessageId`, and `resolveWaMessageGapsByTarget`
  (`wa-conversation.repository.ts:2145`) reads `targetProviderMessageId`, finds it
  undefined and returns; the header comment of the first file (line 7) and line 148
  speak of gaps that are closed automatically. A gap that a failed reconciliation
  left at "reconciling" is in no scan again. Startup sets a row back that was recorded as sent meanwhile, and sends
  it again; the worker does not look at the current replier, which
  `docs/whatsapp方案.md:335` asks for; a failed reaction marks its target message
  failed; a late delivery receipt lowers a read one.

## 5. What is proved

Eight modules hold proofs. Their theorems are about `Spec` without fairness and
hold for any sets and bounds the constants name, under the named assumptions of the
modules: `None` is no id, no side and no timer name; modes and signals are of their
types; bounds are numbers; the timers' handlers have at least two lists of calls,
as the intake needs.

| Theorem | Statement |
|---|---|
| `WellTyped` | `Spec => []TypeOK` (ownership) |
| `CaseIsCurrent` | `Spec => []CaseCurrency` |
| `NoClosedCaseReopens` | `Spec => ClosedStaysClosed` |
| `ServedInSessions` | `Spec => OneSessionAtATime`: the refinement of `ConversationSessions` |
| `LateJobsChangeNothing` | `Spec => StaleJobHarmless` |
| `NoGhostAssignee` | `Spec => []AssigneesExist` |
| `SegmentIsCurrent` | `Spec => []SegmentCurrency` |
| `NoSegmentLeftOpen` | `ASSUME ~StaleQueue PROVE Spec => []OneLiveSegment` |
| `HandlerHasSegment` | `ASSUME ~AgentRemoval PROVE Spec => []HandlerOwnsSegment` |
| `ReservationsAgree` | `Spec => []ReservationMirrored` |
| `NobodyWaitsUnseen` | `Spec => []WaitingIsQueued` |
| `ReopenedIsFresh` | `Spec => ReopenStartsFreshCase` |
| `EveryJobDescends` | `Spec => JobsDescend` |
| `NobodyWaitsForNothing` | `Spec => []WaitIsServed` |
| `HumanRequestSurvives`, `UnlockedRequestIsForgotten`, `PlansNameTheAvailable`, `AISideWithoutAgent`, `HumanOnlyMode` | what `CreatePlan` decides, for every mode, message, queue row and set of agents |
| `TimersWellTyped` | `Spec => []TypeOK` (timers) |
| `AnsweredConversationHasTimer`, `ClosingFollowsAnswer` | `Spec => []AnsweredHasTimer`, `Spec => ClosesOnlyAnswered` |
| `IndexWellTyped`, `IndexedMeansSettled` | `Spec => []TypeOK`, `Spec => []IndexedIsSettled` (memory index) |
| `EngineWellTyped`, `RowsFollowJobs`, `DerivedOnce`, `PublishedHasPost` | `Spec => []` of `TypeOK`, `RowFollowsJob`, `OneTaskPerDerivedKey`, `PublishedIsPostprocessed` |
| `FailureStaysLast`, `EveryTaskDescends` | `Spec => FailureIsLastWord`, `Spec => TasksDescend` |
| `WaWellTyped`, `ReplierIsLockHolder`, `OneRowPerProviderId`, `SentHasProviderId` | `Spec => []` of `TypeOK`, `ReplierMirrorsLock`, `IdsAreUnique`, `SentHasId` |
| `RecordedStays` | `Spec => RecordedIsFinal` |
| `NoReplyUnseen`, `NoGapUnseen` | `Spec => []UnsentIsServed`, `Spec => []GapIsWatched` |

**Ownership: cases.** `ConversationTablesProofs` states for each service method
what it preserves. The inductive invariant is `IInv == TypeOK /\ CaseCurrency`;
neither half is inductive alone. The lookup of a case picks a new id with
`CHOOSE`, which is a case only if one is free; `HasRoom` promises that for a
conversation without a case, and `CaseCurrency` says that this is the only time
one is needed. Conversely `CaseCurrency` needs the rows to be typed.

All ownership transitions but one end in a write of a case that leaves it active
(`WritesCase`). The case id may be old: a routing job read it before the model
ran. Lemma `OnlyCurrentCaseWritten` is the heart of the proof: the conversation's
current case is active before and after such a write, so if the write hit another
case, two would be active and the unique index would refuse the commit. Hence
every committed write is about the current case (or, with a null id, about none).
`CaseCurrency`, `ClosedStaysClosed` and `StaleJobHarmless` all follow from it; the
code itself compares no ids. The exception, `resolveConversation`, closes the
current case, which is the only active one. The same lemma, with the exception,
gives the step simulation of `ServedInSessions`: a step keeps the case (a
stutter), gives one to a conversation without (`Begin`), or resolves the current
one and drops it (`End`).

`AssigneesExist` is carried by the foreign keys at each commit and by the two
updates and `ON DELETE SET NULL` when a profile goes. `InvStep` has one lemma per
action for the rows, one for the jobs and one for the sets of agents.

**Ownership: segments, handler, queue.** `ConversationSegmentsProofs` strengthens
the invariant to `SInv == IInv /\ Settled(db)`, where `Settled` has four parts:
`AtRest` (a conversation is resolved exactly when it has no case, and then it has
no segment, agent or handler), `Segmented` (a conversation with a case points to
an open segment of it, the only open one, owned by the handler), `Mirrored` (the
two assignees) and `Queued` (nobody handles it only while the queue row is live).
`AtRest` is the part no run states: intake, reopening and late replies
begin from rows at rest, which is why the segment they open is the only one and the
case they open is fresh (`ReopenedIsFresh`). Each transaction is followed through
the services it composes, from what the rows satisfy at its start. The
parts of `Segmented` about one live segment and about the handler's segment are
assumed away with `StaleQueue` and `AgentRemoval`: without the first assumption
`v_stale_segment` is a counterexample, and deleting a profile ends the agent's
reservation but leaves the handler.

**Ownership: jobs.** Each routing job reads the rows once, waits for a model and
writes later, and `ConversationJobsProofs` says what that leaves.
`Remaining` counts the steps a job still has: at most five to its end, three kept
for the rescue by the "failed" handler, and five more for the second run, as long as no
worker has died over it. That no step leads back
needs `RescueInv`: only a job that is planning or releasing is a rescue. What fairness adds to
`JobsDescend` to give `EveryJobEnds` is only that the steps are taken.

`WaitIsServed` is proved together with `Settled` of the segments' proof. When the
rows are about a new case, `AtRest` says that the conversation was resolved, so
the plan that reopened it queued a job; when a job ends without serving, its
own last transaction has taken the conversation from the AI, since its case is
still the current one (`Serves`); and a job that gives up for want of an agent
hands over to a release that the commit accepts. For the last point `Owner` in
`ConversationTables` says which ids a role can carry: the foreign keys accept a
release because the row it writes names staff or nobody. The two antecedents
mark what the code does not guarantee: a process that dies between the commit and
`routingQueue.add` loses the job, and the foreign keys may refuse the transaction
of a job whose plan names an agent deleted meanwhile.

**Routing decisions.** `RoutingDecision` keeps no state; its theorems are about
every input of `createPlan`. A request for a human is written into every queue row
with its lock, in all modes of the tenant, until the customer writes "#AI" or only an AI
agent can take them (`HumanRequestSurvives`). In the second case the lock is gone
and the next ordinary message resets the mode (`UnlockedRequestIsForgotten`, among
the observations above). A plan names only who was available, somebody of its
side if there is anybody, and an excluded agent only if all eligible ones are
excluded. `AISideWithoutAgent` names the circumstances of the reassignment that queues
neither job nor timer.

**Timers.** The invariant is `TypeOK /\ CloseInv /\ ServiceInv`.
`AnsweredHasTimer` alone is not inductive: between the calls that remove and add the close
timer there is none, and a call of another handler may remove it later. `CloseInv`
therefore says that, without an exception, the close timer stands and nobody is going
to touch it (`Standing`), or that one handler is going to replace or set it with a fresh
`scheduledAt` while the others leave it alone (`Underway`). `ServiceInv` says that, while
the customer waits and no earlier handler was about to set the timer when they
wrote, the timer which stood is stale and no list of calls still sets one: a later
setter belongs to a reply, which ends the wait. This gives `ClosesOnlyAnswered`.
Nothing is assumed of how long a handler takes; `overlap`, which each message sets
anew, carries the one fact about it that the proofs need.

**Memory index.** Two reindexes may overlap with a rebuild at any step, so no
task knows the row it will record into. The invariant is that every write that
makes the profile dirty or raises its version leaves the status at "pending" (and
every write of "indexed" levels the two), so that no order of them matters.

**WhatsApp.** `ReplierMirrorsLock` holds although the locks are read before they
are written, since each transaction writes both tables from its own op.
`RecordedIsFinal` needs `WorkerInv`: between the claim and the record of a job its
row is not "sent", since nothing but the worker's own record says "sent" and
there is one worker. `UnsentIsServed` needs `ServedInv`: the worker's step belongs to an active
job of a living process, an error that is thrown again has marked the row failed
unless startup set it back since, a route adds the first job of its reply, so that
no job under the id swallows it, and startup lists rows. `GapIsWatched` holds
although the route's and the timer's reconciliation overlap and each takes over the
gaps of the other: whoever is last to end lists what is left, and one that dies or
throws leaves (`left`) only what nobody else is still to list.

**Tasks.** The invariant ties the three accounts of a task together: `StepInv`
says what the row says at each step of the worker, `CallInv` who waits for a
call and which row it has inserted, `ToldInv` how far a worker is that has
spoken. Every step of a worker sets or fixes the row's status, so only a death
takes a task that was marked failed back to work; that is why the properties
except tasks with a stall and nothing else. `RowFollowsJob` further needs that
the worker's count of attempts (`Final`) and BullMQ's (`Failed`) are the same
number on the last try (`LastTry`). For `OneTaskPerDerivedKey` the look-up and
the insertion are separate steps and no index guards the key: the key names the
one task that may call for it, or its postprocessing, so no other caller comes
between, as long as the postprocessing is the only one. The attempt to prove this
for memory keys without that condition is what found `Doubled`.
`TasksDescend` ranks a task by `Remaining`: twelve for each attempt and each
restart BullMQ still grants, plus the steps ahead in the current one, so that a
failure or a death, which goes back to the first step, still descends.
`PublishedIsPostprocessed` holds because a row with a key is deleted only by its
own inserter, whose caller then goes to its catch block and not on to publish.

**Only model-checked**: the liveness properties, since fairness is
beyond the prover. What each of them needs of every state is proved: `EveryJobEnds` has
`JobsDescend`; `WaitForAIEnds` has `WaitIsServed` and `JobsDescend`;
`EveryTaskSettles` has `TasksDescend` and `RowFollowsJob`; `AnsweredIsSettled` has
`AnsweredHasTimer`; `PendingIsServed` has `IndexedIsSettled` (a row that is dirty or
behind is not called indexed, so the refresh worker finds it); `NoReplyLost` has
`UnsentIsServed`; `GapSettles` has `GapIsWatched`. Left to TLC is that the steps
these name are taken under the fairness of section 3.

## 6. Not modelled, and the plan

Not modelled:

- Frontends, shared packages, analytics and quality, platform administration,
  orchestrator and skills and the contents of memories (prompts and calls to
  external models), channel adapters, realtime events (fire and forget). They keep
  no state that the protocols above depend on, or are plain reads and writes of
  one row.
- Of the WhatsApp workspace: contacts, groups, unread counts, reactions, edits,
  receipts, monitoring rules and the Baileys session.
- Of the SLA module: the first-response alert and breach records.
- Agent presence, capacity and load balancing, which compare conversations with
  each other; every module here is about one conversation.
- Service mode, whose notices are derived from the queue row.
- Authentication: sessions and refresh tokens share no row with the protocols
  above; they are the first module of the plan.

Planned, in this order:

1. *Refresh rotation*: sessions, the check of the token id and its rotation in two
   statements, revocation meanwhile.
2. *DispatchCapacity*: concurrency limits and two conversations dispatched at the
   same time; the hybrid mode's loads.
3. *WhatsApp receipts*: receipts that overtake each other and the status of a
   message with several receivers.
4. *Service mode*: notices and `service_request_mode` over the messages of a
   session.

Modules to be proved about use no `RECURSIVE` operator and keep their parameters
as constants with named assumptions.
