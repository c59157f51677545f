------------------------------ MODULE WaReplies ------------------------------
(***************************************************************************)
(* Replies of the WhatsApp workbench: who may reply in a conversation (the *)
(* assignment lock and the conversation's current replier, two tables read *)
(* and written in one transaction without a row lock), and how a reply     *)
(* travels: its row of wa_outbound_jobs, the BullMQ job added after the    *)
(* commit, the worker that sends it through Baileys, and the startup task  *)
(* that enqueues stuck rows again.  The provider keeps no idempotency key: *)
(* sent[r] counts the copies of r it accepted, and a copy's number is its  *)
(* provider message id.                                                    *)
(*                                                                         *)
(* One conversation of one account.  Texts, media, reactions and delivery  *)
(* statuses are not part of the state: "accepted" and "sent", which every  *)
(* reader of send_status treats alike, are the one status "sent".          *)
(***************************************************************************)
EXTENDS Naturals, FiniteSets

CONSTANTS None,
          Members,     \* memberships with access to the conversation
          Replies,     \* bound: messages the workbench sends
          Attempts,    \* opts.attempts of the BullMQ job (3 in the code)
          MaxSends,    \* bound: copies of one reply the provider accepts
          MaxLocks,    \* bound: transactions on the lock
          MaxCrashes   \* bound: deaths of the process

ASSUME RepliesAssumption ==
  /\ None \notin Members \cup Replies
  /\ Attempts \in Nat \ {0}
  /\ MaxSends \in Nat /\ MaxLocks \in Nat /\ MaxCrashes \in Nat

VARIABLES lock,     \* the conversation's row of wa_assignment_locks
          replier,  \* wa_conversations.current_replier_membership_id
          asks,     \* lock transactions between their read and their writes
          locks,    \* lock transactions so far
          jobs,     \* wa_outbound_jobs, BullMQ's jobs, and how far the worker is
          ids,      \* provider_message_id of the reply's row; 0 is null
          sent,     \* copies the provider has accepted
          copies,   \* provider ids that came back as messages of their own rows
          up, crashes,
          startup,  \* reEnqueueStuckOutboundJobs
          missed    \* history: rows no job serves and startup has passed by

lockVars  == <<lock, replier, asks, locks>>
replyVars == <<jobs, ids, sent, copies, up, crashes, startup, missed>>

LockStatuses == {"none", "active", "forced_overridden", "released"}
Ask == [op : {"none", "take", "force", "release"}, existed : BOOLEAN]
Job == [row : {"none", "queued", "sending", "sent", "failed"},
        route : {"idle", "enqueue"},
        bull : {"absent", "waiting", "active", "completed", "failed"},
        tries : 0..Attempts, stalls : 0..1,
        step : {"none", "claimed", "returned", "recorded", "threw", "rethrow"}]
Startup == [step : {"idle", "next", "inspect", "add"},
            todo : SUBSET Replies, job : Replies \cup {None}]

NoAsk == [op |-> "none", existed |-> FALSE]
NoJob == [row |-> "none", route |-> "idle", bull |-> "absent",
          tries |-> 0, stalls |-> 0, step |-> "none"]
Idle  == [step |-> "idle", todo |-> {}, job |-> None]

RepliesTypeOK ==
  /\ lock \in [member : Members \cup {None}, status : LockStatuses]
  /\ replier \in Members \cup {None}
  /\ asks \in [Members -> Ask]
  /\ locks \in 0..MaxLocks
  /\ jobs \in [Replies -> Job]
  /\ ids \in [Replies -> Nat]
  /\ sent \in [Replies -> 0..MaxSends]
  /\ copies \in [Replies -> SUBSET (1..MaxSends)]
  /\ up \in BOOLEAN
  /\ crashes \in 0..MaxCrashes
  /\ startup \in Startup
  /\ missed \subseteq Replies

RepliesInit ==
  /\ lock = [member |-> None, status |-> "none"]
  /\ replier = None
  /\ asks = [m \in Members |-> NoAsk]
  /\ locks = 0
  /\ jobs = [r \in Replies |-> NoJob]
  /\ ids = [r \in Replies |-> 0]
  /\ sent = [r \in Replies |-> 0]
  /\ copies = [r \in Replies |-> {}]
  /\ up = TRUE
  /\ crashes = 0
  /\ startup = Idle
  /\ missed = {}
-----------------------------------------------------------------------------
(* Who may reply *)

\* The read of takeOverWaConversation and of releaseWaConversation, with the
\* errors each throws on what it read.
MayTake(m, op) ==
  lock.status = "active" /\ lock.member # m => op = "force"

MayRelease(m, forced) == lock.status # "none" /\ (forced \/ lock.member = m)

\* Bound: nothing after the acceptance of a reply reads the lock, so the lock's
\* transactions come before the first reply, which at most one of them precedes.
LockRoom  == locks < MaxLocks /\ \A r \in Replies : jobs[r] = NoJob
ReplyRoom == locks <= 1 /\ \A m \in Members : asks[m] = NoAsk

Asking(m, op) ==
  asks' = [asks EXCEPT ![m] = [op |-> op, existed |-> lock.status # "none"]]

AskLock(m, op) ==
  /\ up
  /\ asks[m] = NoAsk
  /\ LockRoom
  /\ \/ op \in {"take", "force"} /\ MayTake(m, op)
     \/ op = "release" /\ \E forced \in BOOLEAN : MayRelease(m, forced)
  /\ Asking(m, op)
  /\ locks' = locks + 1
  /\ UNCHANGED <<lock, replier, replyVars>>

\* The writes, atomic with the commit: the lock row is written before the
\* conversation, so a second transaction waits for the first at the lock row.
Take(m) ==
  /\ lock' = [member |-> m,
              status |-> IF asks[m].existed /\ asks[m].op = "force"
                         THEN "forced_overridden" ELSE "active"]
  /\ replier' = m

\* Mutant: the owner read before the writes decides whose reply it still is.
Release_KeepsOther(m) ==
  /\ lock' = [lock EXCEPT !.status = "released"]
  /\ replier' = IF replier = m THEN None ELSE replier

Release(m) ==
  /\ lock' = [lock EXCEPT !.status = "released"]
  /\ replier' = None

\* A second insert of the conversation's only lock row throws.
Duplicate(m) == ~asks[m].existed /\ lock.status # "none"

WriteLock(m) ==
  /\ asks[m].op # "none"
  /\ \/ Duplicate(m) /\ UNCHANGED <<lock, replier>>
     \/ ~Duplicate(m) /\ asks[m].op \in {"take", "force"} /\ Take(m)
     \/ ~Duplicate(m) /\ asks[m].op = "release" /\ Release(m)
  /\ asks' = [asks EXCEPT ![m] = NoAsk]
  /\ UNCHANGED <<locks, replyVars>>
-----------------------------------------------------------------------------
(* Accepting a reply: rows in one transaction, the job after the commit *)

SetJob(r, job) == jobs' = [jobs EXCEPT ![r] = job]

AcceptReply(m, r) ==
  /\ up
  /\ ReplyRoom
  /\ jobs[r] = NoJob
  /\ replier \in {None, m}
  /\ SetJob(r, [jobs[r] EXCEPT !.row = "queued", !.route = "enqueue"])
  /\ UNCHANGED <<lockVars, ids, sent, copies, up, crashes, startup, missed>>

\* queue.add under the row's id is ignored while BullMQ knows the id.
Added(job) ==
  IF job.bull = "absent"
  THEN [job EXCEPT !.bull = "waiting", !.tries = 0, !.stalls = 0]
  ELSE job

EnqueueReply(r) ==
  /\ jobs[r].route = "enqueue"
  /\ SetJob(r, [Added(jobs[r]) EXCEPT !.route = "idle"])
  /\ UNCHANGED <<lockVars, ids, sent, copies, up, crashes, startup, missed>>
-----------------------------------------------------------------------------
(* processWaOutboundJob *)

At(r, step) == up /\ jobs[r].bull = "active" /\ jobs[r].step = step
Working     == \E r \in Replies : jobs[r].step # "none"

\* The worker has a concurrency of one.
MayClaim(r) == up /\ ~Working /\ jobs[r].bull = "waiting"

\* Mutant: every status but "queued" is taken for done.
Skips_Sending(row) == row # "queued"

\* Mutant: no status is taken for done.
Skips_Nothing(row) == FALSE

Skips(row) == row = "sent"

ClaimJob(r) ==
  /\ MayClaim(r)
  /\ SetJob(r, IF Skips(jobs[r].row)
               THEN [jobs[r] EXCEPT !.bull = "active", !.step = "recorded"]
               ELSE [jobs[r] EXCEPT !.bull = "active", !.step = "claimed", !.row = "sending"])
  /\ UNCHANGED <<lockVars, ids, sent, copies, up, crashes, startup, missed>>

\* The provider takes the message and answers, or takes it and the answer does
\* not come in time, or does not take it.  A closed connection is restarted and
\* the message sent once more, so that one call may leave two copies.
Deliver(r) ==
  \E n \in {1, 2} :
    /\ sent[r] + n <= MaxSends
    /\ sent' = [sent EXCEPT ![r] = @ + n]

SendReply(r) ==
  /\ At(r, "claimed")
  /\ \/ Deliver(r) /\ SetJob(r, [jobs[r] EXCEPT !.step = "returned"])
     \/ Deliver(r) /\ SetJob(r, [jobs[r] EXCEPT !.step = "threw"])
     \/ UNCHANGED sent /\ SetJob(r, [jobs[r] EXCEPT !.step = "threw"])
  /\ UNCHANGED <<lockVars, ids, copies, up, crashes, startup, missed>>

\* Mutant: provider_message_id has no unique index.
Clashes_Never(r) == FALSE

\* The unique index on provider_message_id: the message's own echo may have
\* been stored as a row of its own.
Clashes(r) == sent[r] \in copies[r]

RecordReply(r) ==
  /\ At(r, "returned")
  /\ \/ /\ ~Clashes(r)
        /\ ids' = [ids EXCEPT ![r] = sent[r]]
        /\ SetJob(r, [jobs[r] EXCEPT !.row = "sent", !.step = "recorded"])
     \/ /\ Clashes(r)
        /\ SetJob(r, [jobs[r] EXCEPT !.step = "threw"])
        /\ UNCHANGED ids
  /\ UNCHANGED <<lockVars, sent, copies, up, crashes, startup, missed>>

CompleteJob(r) ==
  /\ At(r, "recorded")
  /\ SetJob(r, [jobs[r] EXCEPT !.bull = "completed", !.step = "none"])
  /\ UNCHANGED <<lockVars, ids, sent, copies, up, crashes, startup, missed>>

\* Mutant: an answer that did not come in time is taken for "accepted".
Caught_Accepts(r) == IF sent[r] > 0 THEN "sent" ELSE "failed"

Caught(r) == "failed"

CatchError(r) ==
  /\ At(r, "threw")
  /\ SetJob(r, [jobs[r] EXCEPT !.row = Caught(r), !.step = "rethrow"])
  /\ UNCHANGED <<lockVars, ids, sent, copies, up, crashes, startup, missed>>

RethrowError(r) ==
  /\ At(r, "rethrow")
  /\ SetJob(r, [jobs[r] EXCEPT
                  !.bull = IF jobs[r].tries + 1 < Attempts THEN "waiting" ELSE "failed",
                  !.tries = @ + 1, !.step = "none"])
  /\ UNCHANGED <<lockVars, ids, sent, copies, up, crashes, startup, missed>>
-----------------------------------------------------------------------------
(* Death and start of the process *)

\* The transactions, the handlers, the worker and startup die with it.
CrashReplies ==
  /\ up
  /\ crashes < MaxCrashes
  /\ crashes' = crashes + 1
  /\ up' = FALSE
  /\ asks' = [m \in Members |-> NoAsk]
  /\ jobs' = [r \in Replies |-> [jobs[r] EXCEPT !.route = "idle", !.step = "none"]]
  /\ startup' = Idle
  /\ UNCHANGED <<lock, replier, locks, ids, sent, copies, missed>>

\* Mutant: a job that loses its worker goes back to the queue every time.
Abandoned_NoLimit(job) == [job EXCEPT !.bull = "waiting", !.stalls = @ + 1]

\* BullMQ finds an active job without a worker: back to the queue once, failed
\* the second time, whatever its row says.
Abandoned(job) ==
  IF job.stalls = 0 THEN [job EXCEPT !.bull = "waiting", !.stalls = 1]
                    ELSE [job EXCEPT !.bull = "failed"]

RecoverStalled(r) ==
  /\ At(r, "none")
  /\ SetJob(r, Abandoned(jobs[r]))
  /\ missed' = IF jobs'[r].bull = "failed" THEN missed \cup {r} ELSE missed
  /\ UNCHANGED <<lockVars, ids, sent, copies, up, crashes, startup>>

Stuck    == {r \in Replies : jobs[r].row \in {"queued", "sending"}}
Unserved == {r \in Replies : jobs[r].bull \in {"absent", "failed"}}

\* The select of reEnqueueStuckOutboundJobs: rows untouched for 30 seconds.
Restart(old) ==
  /\ ~up
  /\ up' = TRUE
  /\ startup' = [step |-> "next", todo |-> old, job |-> None]
  /\ missed' = missed \cup ((Stuck \ old) \cap Unserved)
  /\ UNCHANGED <<lockVars, jobs, ids, sent, copies, crashes>>

\* The row is set back whatever it says by now; workers run since the start.
RequeueRow(r) ==
  /\ up /\ startup.step = "next" /\ r \in startup.todo
  /\ SetJob(r, [jobs[r] EXCEPT !.row = "queued"])
  /\ startup' = [step |-> "inspect", todo |-> startup.todo \ {r}, job |-> r]
  /\ UNCHANGED <<lockVars, ids, sent, copies, up, crashes, missed>>

\* enqueueWaOutboundJob removes a finished job of this id, then adds.
InspectJob(r) ==
  /\ up /\ startup.step = "inspect" /\ startup.job = r
  /\ SetJob(r, IF jobs[r].bull \in {"failed", "completed"}
               THEN [jobs[r] EXCEPT !.bull = "absent"] ELSE jobs[r])
  /\ startup' = [startup EXCEPT !.step = "add"]
  /\ UNCHANGED <<lockVars, ids, sent, copies, up, crashes, missed>>

\* An add that meets a job which is active or has just finished is ignored: if
\* that job fails for the last time, the row stays "queued" without one.
AddStuckJob(r) ==
  /\ up /\ startup.step = "add" /\ startup.job = r
  /\ SetJob(r, Added(jobs[r]))
  /\ missed' = IF jobs[r].bull \in {"absent", "waiting"} THEN missed \ {r}
                                                        ELSE missed \cup {r}
  /\ startup' = [step |-> "next", todo |-> startup.todo, job |-> None]
  /\ UNCHANGED <<lockVars, ids, sent, copies, up, crashes>>

WorkerStep(r) ==
  \/ ClaimJob(r) \/ SendReply(r) \/ RecordReply(r) \/ CompleteJob(r)
  \/ CatchError(r) \/ RethrowError(r) \/ RecoverStalled(r)

StartupStep(r) == RequeueRow(r) \/ InspectJob(r) \/ AddStuckJob(r)

Requests ==
  \E m \in Members :
     \/ \E op \in {"take", "force", "release"} : AskLock(m, op)
     \/ WriteLock(m)
     \/ \E r \in Replies : AcceptReply(m, r)

RepliesNext ==
  \/ Requests
  \/ \E r \in Replies : EnqueueReply(r) \/ WorkerStep(r) \/ StartupStep(r)
  \/ \E old \in SUBSET Stuck : Restart(old)
=============================================================================
