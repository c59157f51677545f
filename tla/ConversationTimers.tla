------------------------- MODULE ConversationTimers -------------------------
(***************************************************************************)
(* The timers of one conversation: delayed BullMQ jobs under fixed ids,    *)
(* which the inbound, outbound, routing and timeout workers and the agent  *)
(* routes set, replace and cancel after their transactions, one Redis call *)
(* at a time, and which the timeout worker runs.                           *)
(*                                                                         *)
(* There is no clock.  A delayed job may become due at any moment; what a  *)
(* job must know of time is whether its scheduledAt is later than the last *)
(* activity of the kind its handler looks for, and that is its "quiet".    *)
(* The first-response timer only raises an alert and is left out, as are   *)
(* breach records and the job ids of earlier releases.                     *)
(***************************************************************************)
EXTENDS Naturals, Sequences

CONSTANTS None,
          Tails,        \* bound: handlers that are past their transaction
          Modes,        \* what the tenant's policy makes of a follow-up timeout
          Reassigns,    \* whether its policy reassigns, a set of choices
          Targets,      \* whether its service levels give a timer a time, likewise
          MaxEvents,    \* bound: messages, and acts of agents and routing
          MaxRestarts   \* bound: restarts of the process

FollowUpModes == {"waiting_customer", "semantic", "none"}

\* The intake leaves its calls in two tails.
ASSUME TimersAssumption ==
  /\ \E p, q \in Tails : p # q
  /\ None \notin {"acceptA", "acceptB", "followUp", "subsequent"}
  /\ Modes \subseteq FollowUpModes
  /\ Reassigns \subseteq BOOLEAN
  /\ Targets \subseteq BOOLEAN
  /\ MaxEvents \in Nat /\ MaxRestarts \in Nat

VARIABLES status,   \* of the conversation; "queued" stands for open too
          turn,     \* who is to write; "handed", "noted": handed over, or told of a
                    \* task, since the last reply
          replied,  \* an agent or the AI has written
          timers,   \* the jobs
          tails,    \* the Redis calls the handlers have still to make
          events,   \* events so far
          restarts, \* restarts so far
          overlap,  \* history: when the customer or the service last wrote, an
                    \* earlier handler had still calls to make on the close timer
          gone      \* history: why, since the last reply, the close timer may be missing

vars == <<status, turn, replied, timers, tails, events, restarts, overlap, gone>>

Slots    == {"acceptA", "acceptB"}
TimerIds == Slots \cup {"followUp", "subsequent"}
Live     == {"queued", "bot_active", "human_active"}
Statuses == Live \cup {"new", "resolved"}

\* The policy lets a timeout pass, or sets no timer; the verdict did not set it
\* again; a restart took calls that were to be made, or a running job was not
\* replaced.
Reasons == {"no", "policy", "verdict", "lost"}

Timer   == [state : {"none", "delayed", "active", "evaluating", "completed"}, quiet : BOOLEAN]
NoTimer == [state |-> "none", quiet |-> FALSE]

\* One Redis call: jobs removed, or a job added.
Op == [remove : SUBSET TimerIds, add : TimerIds \cup {None}]
Remove(ids) == <<[remove |-> ids, add |-> None]>>
Add(id)     == <<[remove |-> {}, add |-> id]>>

\* quiet: nothing has happened since the handler took scheduledAt.
Calls == [ops : Seq(Op), quiet : BOOLEAN]
NoCalls == [ops |-> <<>>, quiet |-> FALSE]

TypeOK ==
  /\ status \in Statuses
  /\ turn \in {"none", "service", "customer", "handed", "noted"}
  /\ replied \in BOOLEAN
  /\ timers \in [TimerIds -> Timer]
  /\ tails \in [Tails -> Calls]
  /\ events \in 0..MaxEvents
  /\ restarts \in 0..MaxRestarts
  /\ overlap \in BOOLEAN
  /\ gone \in Reasons

Init ==
  /\ status = "new"
  /\ turn = "none"
  /\ replied = FALSE
  /\ timers = [i \in TimerIds |-> NoTimer]
  /\ tails = [p \in Tails |-> NoCalls]
  /\ events = 0
  /\ restarts = 0
  /\ overlap = FALSE
  /\ gone = "no"

IdleTails == {p \in Tails : tails[p].ops = <<>>}
Quiet     == IdleTails = Tails

\* The calls that are about the close timer.
Touches(op)     == "followUp" \in op.remove \cup {op.add}
Untouching(ops) == \A i \in 1..Len(ops) : ~Touches(ops[i])
Unfinished      == \E p \in Tails : ~Untouching(tails[p].ops)

Gone(reason) == IF gone = "no" THEN reason ELSE gone
-----------------------------------------------------------------------------
(* Scheduling and cancelling *)

\* scheduleFollowUpTimeout and scheduleSubsequentResponseTimeout replace the job,
\* or leave it alone when the service levels give the timer no time: a follow-up
\* without a target falls back on a day, one of zero turns it off.
Replace(id, timed) == IF timed THEN Remove({id}) \o Add(id) ELSE <<>>

ScheduleFollowUp(timed) == Replace("followUp", timed)
ScheduleSubsequent(timed) == Replace("subsequent", timed)

\* scheduleAssignmentAcceptTimeout adds slot a, or slot b from inside slot a, and
\* removes neither the slot it is called from nor the one it adds.
NextSlot(current) == IF current = "acceptA" THEN "acceptB" ELSE "acceptA"
ScheduleAccept(current, timed) ==
  IF timed THEN Remove(Slots \ {current, NextSlot(current)}) \o Add(NextSlot(current)) ELSE <<>>

CancelAccept == Remove(Slots)
CancelFollowUp == Remove({"followUp"})
CancelSubsequent == Remove({"subsequent"})

\* Mutants: the outbound worker cancels after it schedules; only cancels.
ReplyCalls_Swapped(timed)    == ScheduleFollowUp(timed) \o CancelFollowUp
ReplyCalls_CancelOnly(timed) == CancelFollowUp

\* schedulePostReplyCloseTimer, after the old timer is cancelled.
ReplyCalls(timed) == CancelFollowUp \o ScheduleFollowUp(timed)

\* BullMQ: a job that is running cannot be removed; a job whose id it still
\* knows, in whatever state, is not added.
Removed(ts, ids) ==
  [i \in TimerIds |-> IF i \in ids /\ ts[i].state \in {"delayed", "completed"} THEN NoTimer ELSE ts[i]]

Added(ts, id, quiet) ==
  IF ts[id].state = "none" THEN [ts EXCEPT ![id] = [state |-> "delayed", quiet |-> quiet]] ELSE ts

Busy(id) == timers[id].state \in {"active", "evaluating"}

\* A handler takes scheduledAt before it removes what it will replace.
Advance(p) ==
  /\ tails[p].ops # <<>>
  /\ LET op   == Head(tails[p].ops)
         rest == Tail(tails[p].ops) IN
       /\ timers' = IF op.add = None THEN Removed(timers, op.remove)
                    ELSE Added(timers, op.add, tails[p].quiet)
       /\ tails' = [tails EXCEPT ![p] = [ops |-> rest, quiet |-> rest # <<>> /\ Head(rest).add # None]]
       /\ gone' = IF Touches(op) /\ Busy("followUp") THEN Gone("lost") ELSE gone
  /\ UNCHANGED <<status, turn, replied, events, restarts, overlap>>
-----------------------------------------------------------------------------
(* Events: a transaction, then the calls it leaves to make. *)

\* The jobs, and the jobs about to be added, that an activity makes stale.
Stale(ts, ids) == [i \in TimerIds |-> IF i \in ids THEN [ts[i] EXCEPT !.quiet = FALSE] ELSE ts[i]]
StaleTails(ids) ==
  [p \in Tails |-> IF tails[p].ops # <<>> /\ Head(tails[p].ops).add \in ids
                   THEN [tails[p] EXCEPT !.quiet = FALSE] ELSE tails[p]]

\* An activity of the given reach, with calls to make afterwards in one tail.
Event(ids, ops) ==
  /\ IdleTails # {}
  /\ events < MaxEvents /\ events' = events + 1
  /\ timers' = Stale(timers, ids)
  /\ LET p == CHOOSE x \in IdleTails : TRUE IN
       tails' = [StaleTails(ids) EXCEPT ![p] = [ops |-> ops, quiet |-> FALSE]]

QueueActivity   == Slots
MessageActivity == Slots \cup {"followUp"}
AgentActivity   == MessageActivity \cup {"subsequent"}

\* deriveInboundTimeoutPlan and the fallback after it.
InboundOps(preserved, answered, timed) ==
  CASE ~preserved -> ScheduleAccept(None, timed)
    [] preserved /\ answered -> ScheduleSubsequent(timed)
    [] OTHER -> <<>>

\* Mutant: the customer's message does not cancel the close timer, and the timer
\* does not look for messages.
InboundActivity_QueueOnly == QueueActivity

InboundActivity == MessageActivity

\* The inbound worker does not wait for its cancellation of the close timer.
Inbound ==
  /\ IdleTails # {}
  /\ events < MaxEvents /\ events' = events + 1
  /\ \E preserved \in {FALSE, status = "human_active"}, timed \in Targets :
       LET ops    == InboundOps(preserved, replied, timed)
           first  == CHOOSE p \in IdleTails : TRUE
           others == IdleTails \ {first}
           second == CHOOSE p \in others : TRUE
           cancel == [StaleTails(InboundActivity) EXCEPT ![first] = [ops |-> CancelFollowUp, quiet |-> FALSE]] IN
         /\ status' = IF preserved THEN status ELSE "queued"
         /\ \/ ops = <<>> /\ tails' = cancel
            \/ ops # <<>> /\ others # {} /\ tails' = [cancel EXCEPT ![second] = [ops |-> ops, quiet |-> FALSE]]
  /\ timers' = Stale(timers, InboundActivity)
  /\ turn' = "service"
  /\ overlap' = Unfinished
  /\ UNCHANGED <<replied, restarts, gone>>

\* A reply is delivered: the close timer is set, unless its time is turned off.
Reply(timed) ==
  /\ turn' = "customer"
  /\ replied' = TRUE
  /\ overlap' = Unfinished
  /\ gone' = IF timed THEN "no" ELSE "policy"
  /\ UNCHANGED restarts

\* The outbound worker delivers an agent's reply.
AgentReply ==
  /\ status # "new"
  /\ \E timed \in Targets :
       /\ Event(AgentActivity, CancelAccept \o CancelSubsequent \o ReplyCalls(timed))
       /\ Reply(timed)
  /\ status' = "human_active"

\* It delivers the AI's: the AI becomes active when its job commits.
BotReply ==
  /\ status \in {"queued", "bot_active"}
  /\ \E timed \in Targets :
       /\ Event({"followUp"}, ReplyCalls(timed))
       /\ Reply(timed)
  /\ status' = "bot_active"

\* The routing worker releases the conversation to the human queue.
Release ==
  /\ status \in {"queued", "bot_active"}
  /\ \E timed \in Targets : Event(QueueActivity, ScheduleAccept(None, timed))
  /\ status' = "queued"
  /\ UNCHANGED <<turn, replied, restarts, overlap, gone>>

\* POST /handoff: to a human queue or, without an accept timer, to the AI.
Handoff ==
  /\ status = "human_active"
  /\ \E timed \in Targets \cup {FALSE} :
       Event(QueueActivity, CancelAccept \o CancelFollowUp \o ScheduleAccept(None, timed))
  /\ status' = "queued"
  /\ turn' = IF turn = "service" THEN turn ELSE "handed"
  /\ UNCHANGED <<replied, restarts, overlap, gone>>

\* POST /assign: the agent accepts the reservation.
Accept ==
  /\ status = "queued"
  /\ Event(QueueActivity, CancelAccept)
  /\ status' = "human_active"
  /\ UNCHANGED <<turn, replied, restarts, overlap, gone>>

\* The task worker writes a system message: to the close timer it is an activity.
TaskMessage ==
  /\ status # "new"
  /\ Event({"followUp"}, <<>>)
  /\ turn' = IF turn = "customer" THEN "noted" ELSE turn
  /\ UNCHANGED <<status, replied, restarts, overlap, gone>>

\* POST /resolve leaves the timers alone.
Resolve ==
  /\ events < MaxEvents /\ events' = events + 1
  /\ status \in Live
  /\ status' = "resolved"
  /\ timers' = Stale(timers, QueueActivity)
  /\ tails' = StaleTails(QueueActivity)
  /\ UNCHANGED <<turn, replied, restarts, overlap, gone>>
-----------------------------------------------------------------------------
(* The timeout worker *)

Fire(i) ==
  /\ timers[i].state = "delayed"
  /\ timers' = [timers EXCEPT ![i].state = "active"]
  /\ UNCHANGED <<status, turn, replied, tails, events, restarts, overlap, gone>>

\* Mutant: the handler throws after its transaction.
Ended_Throws(ts, i) == [ts EXCEPT ![i].state = "failed"]

Ended(ts, i) == [ts EXCEPT ![i].state = "completed"]

Running(i)   == timers[i].state = "active"

\* The guards of a handler.  The case's owner is kept by others, and is anyone.
FollowUpStands == status \in Live /\ timers["followUp"].quiet
SubsequentStands == status = "human_active" /\ timers["subsequent"].quiet
AcceptStands(i, owner) == status = "queued" /\ owner # "agent" /\ timers[i].quiet

Owners == {"agent", "other"}

Stands(i, owner) ==
  CASE i = "followUp" -> FollowUpStands
    [] i = "subsequent" -> SubsequentStands
    [] OTHER -> AcceptStands(i, owner)

\* A job that is no longer due to act ends ...
Skip(i) ==
  /\ Running(i)
  /\ \E owner \in Owners : ~Stands(i, owner)
  /\ timers' = Ended(timers, i)
  /\ UNCHANGED <<status, turn, replied, tails, events, restarts, overlap, gone>>

\* ... and so does one that the policy has nothing for.
Pass(i) ==
  /\ Running(i) /\ \E owner \in Owners : Stands(i, owner)
  /\ \/ i = "followUp" /\ "none" \in Modes
     \/ i \in Slots /\ FALSE \in Reassigns
  /\ timers' = Ended(timers, i)
  /\ gone' = IF i = "followUp" THEN Gone("policy") ELSE gone
  /\ UNCHANGED <<status, turn, replied, tails, events, restarts, overlap>>

\* Closing touches the queue row.
Closed(ts) == Ended(Stale(ts, QueueActivity), "followUp")

FollowUpCloses ==
  /\ Running("followUp") /\ FollowUpStands
  /\ "waiting_customer" \in Modes
  /\ status' = "resolved"
  /\ timers' = Closed(timers)
  /\ tails' = StaleTails(QueueActivity)
  /\ UNCHANGED <<turn, replied, events, restarts, overlap, gone>>

\* In semantic mode a model reads the thread, which takes a while ...
FollowUpEvaluates ==
  /\ Running("followUp") /\ FollowUpStands
  /\ "semantic" \in Modes
  /\ timers' = [timers EXCEPT !["followUp"].state = "evaluating"]
  /\ UNCHANGED <<status, turn, replied, tails, events, restarts, overlap, gone>>

\* ... and says close, without another look at the conversation, or has the timer
\* set again, under the id of the job that asks, which BullMQ ignores.  A reply
\* that came meanwhile sets its own.
FollowUpVerdict ==
  /\ timers["followUp"].state = "evaluating"
  /\ \/ /\ status' = "resolved"
        /\ timers' = Closed(timers)
        /\ tails' = StaleTails(QueueActivity)
        /\ UNCHANGED gone
     \/ /\ timers' = Ended(Added(Removed(timers, {"followUp"}), "followUp", TRUE), "followUp")
        /\ gone' = IF timers["followUp"].quiet THEN Gone("verdict") ELSE gone
        /\ UNCHANGED <<status, tails>>
  /\ UNCHANGED <<turn, replied, events, restarts, overlap>>

\* The owner is available and the same job is set again, to the same effect; or
\* the conversation is planned anew.
SubsequentActs ==
  /\ Running("subsequent") /\ SubsequentStands
  /\ \/ /\ timers' = Ended(Added(Removed(timers, {"subsequent"}), "subsequent", TRUE), "subsequent")
        /\ UNCHANGED <<status, tails>>
     \/ /\ TRUE \in Reassigns
        /\ status' = "queued"
        /\ timers' = Ended(Stale(timers, QueueActivity), "subsequent")
        /\ tails' = StaleTails(QueueActivity)
  /\ UNCHANGED <<turn, replied, events, restarts, overlap, gone>>

\* The conversation is planned anew: for a human the other slot is set, for the
\* AI none.
AcceptActs(i) ==
  /\ Running(i) /\ \E owner \in Owners : AcceptStands(i, owner)
  /\ TRUE \in Reassigns
  /\ LET stale == Stale(timers, QueueActivity)
         next  == NextSlot(i) IN
       timers' \in {Ended(stale, i),
                    Ended(Added(Removed(stale, Slots \ {i, next}), next, TRUE), i)}
  /\ tails' = StaleTails(QueueActivity)
  /\ UNCHANGED <<status, turn, replied, events, restarts, overlap, gone>>

\* BullMQ keeps the last fifty completed jobs, of all conversations.
Evict(i) ==
  /\ i \in Slots
  /\ timers[i].state = "completed"
  /\ timers' = [timers EXCEPT ![i] = NoTimer]
  /\ UNCHANGED <<status, turn, replied, tails, events, restarts, overlap, gone>>

(***************************************************************************)
(* The process restarts: the calls still to make are lost, a job that was  *)
(* running is run again, and the startup sweeps set the timers of a queued *)
(* or answered conversation that they find overdue.                        *)
(***************************************************************************)
Restart ==
  /\ restarts < MaxRestarts
  /\ restarts' = restarts + 1
  /\ timers' = [i \in TimerIds |-> IF timers[i].state \in {"active", "evaluating"}
                                   THEN [timers[i] EXCEPT !.state = "delayed"] ELSE timers[i]]
  /\ \E overdue \in BOOLEAN :
       LET accept == overdue /\ status = "queued"
           close  == overdue /\ status \in Live /\ turn = "customer"
           sweep  == CHOOSE p \in Tails : TRUE IN
         /\ tails' = [p \in Tails |-> IF p # sweep THEN NoCalls ELSE
                        [NoCalls EXCEPT !.ops = (IF accept THEN CancelAccept \o Add("acceptA") ELSE <<>>)
                                            \o ScheduleFollowUp(close)]]
         /\ overlap' = (overlap /\ ~close)
         /\ gone' = IF close THEN "no" ELSE IF Quiet THEN gone ELSE Gone("lost")
  /\ UNCHANGED <<status, turn, replied, events>>

Next ==
  \/ \E p \in Tails : Advance(p)
  \/ Inbound \/ AgentReply \/ BotReply \/ TaskMessage
  \/ Release \/ Handoff \/ Accept \/ Resolve
  \/ \E i \in TimerIds : Fire(i) \/ Skip(i) \/ Pass(i)
  \/ FollowUpCloses \/ FollowUpEvaluates \/ FollowUpVerdict \/ SubsequentActs
  \/ \E i \in Slots : AcceptActs(i) \/ Evict(i)
  \/ Restart

Spec == Init /\ [][Next]_vars

FollowUpStep ==
  \/ Fire("followUp") \/ Skip("followUp") \/ Pass("followUp")
  \/ FollowUpCloses \/ FollowUpEvaluates \/ FollowUpVerdict

\* Due jobs are run and handlers end.
FairSpec ==
  /\ Spec
  /\ \A p \in Tails : WF_vars(Advance(p))
  /\ WF_vars(FollowUpStep)
-----------------------------------------------------------------------------
(* Properties *)

\* The close timer will look at the conversation again.
WillAct ==
  timers["followUp"].state \in {"delayed", "active", "evaluating"} /\ timers["followUp"].quiet

\* A conversation that waits for the customer's answer, and was not told of a task
\* meanwhile, keeps a close timer that will act, as conversation-sla.service.ts says,
\* with these exceptions: the policy has no time for it or let its timeout pass; a model's verdict was that the
\* conversation goes on; a restart took the scheduling; the timer of an earlier
\* reply was running when this one was set; when the reply was sent, calls of an
\* earlier handler on the timer were still to be made.
AnsweredHasTimer ==
  turn = "customer" /\ status \in Live /\ Quiet => overlap \/ gone # "no" \/ WillAct

\* The close timer does not close a conversation whose last message is the
\* customer's, with two exceptions: the message came while the model was reading the
\* thread; or when it came, a handler of an earlier reply had still calls to make on
\* the timer, and set it afterwards.
ClosesOnlyAnswered ==
  [][(FollowUpCloses \/ FollowUpVerdict) /\ status' = "resolved" /\ turn = "service" =>
       overlap \/ (timers["followUp"].state = "evaluating" /\ ~timers["followUp"].quiet)]_vars

\* A conversation that waits for its customer for ever is written to for ever, or is
\* excepted above: otherwise it is closed.
AnsweredIsSettled ==
  <>[](turn = "customer" /\ status \in Live /\ ~overlap /\ gone = "no")
    => []<><<AgentReply \/ BotReply>>_vars

\* Of the accept timers of a queued conversation one will act or has acted: "so
\* queued conversations are never left without a reassignment timer"
\* (conversation-sla.service.ts:276).
QueuedHasTimer ==
  status = "queued" /\ Quiet /\ (\E i \in Slots : timers[i].state = "delayed") =>
    \E i \in Slots : timers[i].state # "none" /\ timers[i].quiet

\* So does a conversation that the model's verdict leaves open: it is among the
\* "conversations" that "are never left without a close timer even when no SLA
\* definition exists" (conversation-sla.service.ts:241).
ContinuedHasTimer ==
  turn = "customer" /\ status \in Live /\ Quiet /\ ~overlap /\ gone \in {"no", "verdict"} =>
    WillAct
=============================================================================
