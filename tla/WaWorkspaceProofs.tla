------------------------- MODULE WaWorkspaceProofs -------------------------
(***************************************************************************)
(* The invariants of WaWorkspace for any members, replies and quoting      *)
(* messages, any number of attempts, and any value of the bounds.          *)
(*                                                                         *)
(* The strengthening ties what the worker has reached to the row it will   *)
(* write: past its claim and before its record no row is "sent", a copy    *)
(* exists once the provider has answered, and a job that may still run has *)
(* an attempt left.  What is said of the gaps is inductive as it stands.   *)
(***************************************************************************)
EXTENDS WaWorkspace, TLAPS

WorkerInv ==
  \A r \in Replies :
    /\ jobs[r].bull \in {"waiting", "active"} => jobs[r].tries < Attempts
    /\ jobs[r].step \in {"claimed", "returned", "threw"} => jobs[r].row # "sent"
    /\ jobs[r].step = "returned" => sent[r] \in 1..MaxSends

\* What a step on the jobs may rely on and has to restore.
JobsInv == RepliesTypeOK /\ WorkerInv /\ IdsAreUnique /\ SentHasId

\* What a step on the quoting messages may rely on and has to restore.
QuotesInv ==
  /\ quotes \in [Quotes -> QuoteStates]
  /\ scans \subseteq Callers
  /\ online \in BOOLEAN
  /\ left \subseteq Quotes

IInv == JobsInv /\ QuotesInv /\ ReplierMirrorsLock
-----------------------------------------------------------------------------
(* The start *)

\* The empty tables satisfy the invariant.
LEMMA InitIInv == Init => IInv
<1> SUFFICES ASSUME Init PROVE IInv
  OBVIOUS
<1> USE RepliesAssumption DEF Init, RepliesInit
<1>1. RepliesTypeOK
  <2>1. jobs \in [Replies -> Job]
    BY DEF Job, NoJob
  <2>2. asks \in [Members -> Ask]
    BY DEF Ask, NoAsk
  <2>3. startup \in Startup
    BY DEF Startup, Idle
  <2> QED
    BY <2>1, <2>2, <2>3 DEF RepliesTypeOK, LockStatuses
<1>2. WorkerInv /\ IdsAreUnique /\ SentHasId
  BY DEF WorkerInv, IdsAreUnique, SentHasId, NoJob
<1>3. QuotesInv
  BY DEF QuotesInv, QuoteStates
<1>4. ReplierMirrorsLock
  BY DEF ReplierMirrorsLock
<1> QED
  BY <1>1, <1>2, <1>3, <1>4 DEF IInv, JobsInv
-----------------------------------------------------------------------------
(* The lock *)

\* The read of a lock transaction changes nothing but the transaction.
LEMMA AskLockIInv ==
  ASSUME IInv, NEW m \in Members, NEW op \in {"take", "force", "release"},
         AskLock(m, op), UNCHANGED inVars
  PROVE  IInv'
<1> USE DEF IInv, JobsInv
<1>1. UNCHANGED <<lock, replier, jobs, ids, sent, copies, up, crashes, startup, missed>>
  BY DEF AskLock, replyVars
<1>2. asks' \in [Members -> Ask]
  BY DEF AskLock, Asking, Ask, RepliesTypeOK
<1>3. locks' \in 0..MaxLocks
  BY RepliesAssumption DEF AskLock, LockRoom, RepliesTypeOK
<1>4. RepliesTypeOK'
  BY <1>1, <1>2, <1>3 DEF RepliesTypeOK
<1> QED
  BY <1>1, <1>4 DEF WorkerInv, IdsAreUnique, SentHasId, QuotesInv,
                    ReplierMirrorsLock, inVars

\* The writes of a lock transaction leave the conversation's replier with the
\* holder of the lock, whatever the transaction had read.
LEMMA WriteLockIInv ==
  ASSUME IInv, NEW m \in Members, WriteLock(m), UNCHANGED inVars
  PROVE  IInv'
<1> USE DEF IInv, JobsInv
<1>1. UNCHANGED <<jobs, ids, sent, copies, up, crashes, startup, missed, locks>>
  BY DEF WriteLock, replyVars
<1>2. asks' \in [Members -> Ask]
  BY DEF WriteLock, Ask, NoAsk, RepliesTypeOK
<1>3. /\ lock' \in [member : Members \cup {None}, status : LockStatuses]
      /\ replier' \in Members \cup {None}
      /\ ReplierMirrorsLock'
  <2>1. CASE UNCHANGED <<lock, replier>>
    BY <2>1 DEF RepliesTypeOK, ReplierMirrorsLock
  <2>2. CASE Take(m)
    BY <2>2 DEF Take, LockStatuses, ReplierMirrorsLock
  <2>3. CASE Release(m)
    BY <2>3 DEF Release, LockStatuses, ReplierMirrorsLock, RepliesTypeOK
  <2> QED
    BY <2>1, <2>2, <2>3 DEF WriteLock
<1>4. RepliesTypeOK'
  BY <1>1, <1>2, <1>3 DEF RepliesTypeOK
<1> QED
  BY <1>1, <1>3, <1>4 DEF WorkerInv, IdsAreUnique, SentHasId, QuotesInv, inVars
-----------------------------------------------------------------------------
(* The jobs *)

\* What a step on one reply has to show: its job, its row's id and its copies
\* fit together; the rest of the tables is untouched.
LEMMA OneJobChanges ==
  ASSUME JobsInv,
         NEW r \in Replies, NEW job \in Job, NEW id \in Nat, NEW n \in 0..MaxSends,
         SetJob(r, job),
         ids' = [ids EXCEPT ![r] = id],
         sent' = [sent EXCEPT ![r] = n],
         UNCHANGED <<lockVars, copies>>,
         up' \in BOOLEAN, crashes' \in 0..MaxCrashes,
         startup' \in Startup, missed' \subseteq Replies,
         job.bull \in {"waiting", "active"} => job.tries < Attempts,
         job.step \in {"claimed", "returned", "threw"} => job.row # "sent",
         job.step = "returned" => n \in 1..MaxSends,
         job.row = "sent" => id \in 1..n,
         id \notin copies[r]
  PROVE  JobsInv'
<1> USE DEF JobsInv, RepliesTypeOK
<1>1. \A x \in Replies : /\ jobs'[x] = IF x = r THEN job ELSE jobs[x]
                         /\ ids'[x] = IF x = r THEN id ELSE ids[x]
                         /\ sent'[x] = IF x = r THEN n ELSE sent[x]
  BY DEF SetJob
<1>2. /\ jobs' \in [Replies -> Job]
      /\ ids' \in [Replies -> Nat]
      /\ sent' \in [Replies -> 0..MaxSends]
  BY DEF SetJob
<1>3. RepliesTypeOK'
  BY <1>2 DEF lockVars
<1>4. WorkerInv'
  BY <1>1 DEF WorkerInv
<1>5. IdsAreUnique'
  BY <1>1 DEF IdsAreUnique, lockVars
<1>6. SentHasId'
  BY <1>1 DEF SentHasId
<1> QED
  BY <1>3, <1>4, <1>5, <1>6

\* The same for a step that changes a job and nothing its row names.
LEMMA JobOnly ==
  ASSUME JobsInv,
         NEW r \in Replies, NEW job \in Job, SetJob(r, job),
         UNCHANGED <<lockVars, ids, sent, copies, up, crashes>>,
         startup' \in Startup, missed' \subseteq Replies,
         job.bull \in {"waiting", "active"} => job.tries < Attempts,
         job.step \in {"claimed", "returned", "threw"} => job.row # "sent",
         job.step = "returned" => jobs[r].step = "returned",
         job.row = "sent" => jobs[r].row = "sent"
  PROVE  JobsInv'
<1> USE DEF JobsInv, RepliesTypeOK
<1>1. ids' = [ids EXCEPT ![r] = ids[r]] /\ sent' = [sent EXCEPT ![r] = sent[r]]
  OBVIOUS
<1>2. ids[r] \in Nat /\ sent[r] \in 0..MaxSends /\ ids[r] \notin copies[r]
  BY DEF IdsAreUnique
<1>3. job.step = "returned" => sent[r] \in 1..MaxSends
  BY DEF WorkerInv
<1>4. job.row = "sent" => ids[r] \in 1..sent[r]
  BY DEF SentHasId
<1>5. up' \in BOOLEAN /\ crashes' \in 0..MaxCrashes
  OBVIOUS
<1> HIDE DEF JobsInv, RepliesTypeOK
<1> QED
  BY <1>1, <1>2, <1>3, <1>4, <1>5, OneJobChanges

\* What is known of one job.
LEMMA JobFacts ==
  ASSUME JobsInv, NEW r \in Replies
  PROVE  /\ jobs[r] \in Job
         /\ jobs[r].tries \in 0..Attempts
         /\ startup \in Startup /\ missed \subseteq Replies
         /\ up \in BOOLEAN /\ crashes \in 0..MaxCrashes
         /\ sent[r] \in 0..MaxSends /\ ids[r] \in Nat
         /\ ids[r] \notin copies[r]
         /\ jobs[r].row = "sent" => ids[r] \in 1..sent[r]
         /\ jobs[r].bull \in {"waiting", "active"} => jobs[r].tries < Attempts
         /\ jobs[r].step \in {"claimed", "returned", "threw"} => jobs[r].row # "sent"
         /\ jobs[r].step = "returned" => sent[r] \in 1..MaxSends
BY DEF JobsInv, RepliesTypeOK, WorkerInv, IdsAreUnique, SentHasId, Job

\* Accepting a reply writes a row that no job serves yet.
LEMMA AcceptReplyInv ==
  ASSUME JobsInv, NEW m \in Members, NEW r \in Replies, AcceptReply(m, r)
  PROVE  JobsInv'
<1> DEFINE job == [jobs[r] EXCEPT !.row = "queued", !.route = "enqueue"]
<1>1. jobs[r] = NoJob
  BY DEF AcceptReply
<1>2. job \in Job /\ job.bull = "absent" /\ job.step = "none" /\ job.row = "queued"
  <2>1. job = [NoJob EXCEPT !.row = "queued", !.route = "enqueue"]
    BY <1>1
  <2>2. NoJob \in Job /\ NoJob.bull = "absent" /\ NoJob.step = "none"
    BY <1>1, JobFacts DEF NoJob
  <2> QED
    BY <2>1, <2>2 DEF Job
<1>3. startup' \in Startup /\ missed' \subseteq Replies
  BY JobFacts DEF AcceptReply
<1> QED
  BY <1>2, <1>3, JobOnly DEF AcceptReply

\* What queue.add leaves of a job.
LEMMA AddedFacts ==
  ASSUME NEW job \in Job,
         job.bull \in {"waiting", "active"} => job.tries < Attempts
  PROVE  /\ Added(job) \in Job
         /\ Added(job).bull \in {"waiting", "active"} => Added(job).tries < Attempts
         /\ Added(job).step = job.step /\ Added(job).row = job.row
<1>1. CASE job.bull = "absent"
  <2> DEFINE new == [job EXCEPT !.bull = "waiting", !.tries = 0, !.stalls = 0]
  <2>1. Added(job) = new
    BY <1>1 DEF Added
  <2>2. 0 \in 0..Attempts /\ 0 < Attempts /\ 0 \in 0..1
    BY RepliesAssumption
  <2>3. new \in Job
    BY <2>2 DEF Job
  <2>4. new.tries = 0 /\ new.step = job.step /\ new.row = job.row
    BY DEF Job
  <2> HIDE DEF new
  <2> QED
    BY <2>1, <2>2, <2>3, <2>4
<1>2. CASE job.bull # "absent"
  BY <1>2 DEF Added
<1> QED
  BY <1>1, <1>2

\* The handler's add.
LEMMA EnqueueReplyInv ==
  ASSUME JobsInv, NEW r \in Replies, EnqueueReply(r)
  PROVE  JobsInv'
<1> DEFINE job == [Added(jobs[r]) EXCEPT !.route = "idle"]
<1>1. /\ Added(jobs[r]) \in Job
      /\ Added(jobs[r]).bull \in {"waiting", "active"} => Added(jobs[r]).tries < Attempts
      /\ Added(jobs[r]).step = jobs[r].step /\ Added(jobs[r]).row = jobs[r].row
  BY JobFacts, AddedFacts
<1>2. /\ job \in Job
      /\ job.bull = Added(jobs[r]).bull /\ job.tries = Added(jobs[r]).tries
      /\ job.step = jobs[r].step /\ job.row = jobs[r].row
  BY <1>1 DEF Job
<1>3. startup' \in Startup /\ missed' \subseteq Replies
  BY JobFacts DEF EnqueueReply
<1> HIDE DEF job
<1>4. SetJob(r, job) /\ UNCHANGED <<lockVars, ids, sent, copies, up, crashes>>
  BY DEF EnqueueReply, job
<1> QED
  BY <1>1, <1>2, <1>3, <1>4, JobFacts, JobOnly

\* A worker takes a job: a row that says "sent" is left alone.
LEMMA ClaimJobInv ==
  ASSUME JobsInv, NEW r \in Replies, ClaimJob(r)
  PROVE  JobsInv'
<1> DEFINE job == IF Skips(jobs[r].row)
               THEN [jobs[r] EXCEPT !.bull = "active", !.step = "recorded"]
               ELSE [jobs[r] EXCEPT !.bull = "active", !.step = "claimed", !.row = "sending"]
<1>1. /\ job \in Job
      /\ job.tries = jobs[r].tries
      /\ \/ job.step = "recorded" /\ job.row = jobs[r].row
         \/ job.step = "claimed" /\ job.row = "sending"
  <2>1. CASE Skips(jobs[r].row)
    <3> DEFINE new == [jobs[r] EXCEPT !.bull = "active", !.step = "recorded"]
    <3>1. job = new
      BY <2>1
    <3>2. new \in Job
      BY JobFacts DEF Job
    <3>3. new.tries = jobs[r].tries /\ new.step = "recorded" /\ new.row = jobs[r].row
      BY JobFacts DEF Job
    <3> HIDE DEF new, job
    <3> QED
      BY <3>1, <3>2, <3>3
  <2>2. CASE ~Skips(jobs[r].row)
    <3> DEFINE new == [jobs[r] EXCEPT !.bull = "active", !.step = "claimed", !.row = "sending"]
    <3>1. job = new
      BY <2>2
    <3>2. new \in Job
      BY JobFacts DEF Job
    <3>3. new.tries = jobs[r].tries /\ new.step = "claimed" /\ new.row = "sending"
      BY JobFacts DEF Job
    <3> HIDE DEF new, job
    <3> QED
      BY <3>1, <3>2, <3>3
  <2> QED
    BY <2>1, <2>2
<1>2. jobs[r].tries < Attempts
  BY JobFacts DEF ClaimJob, MayClaim
<1>3. startup' \in Startup /\ missed' \subseteq Replies
  BY JobFacts DEF ClaimJob
<1> HIDE DEF job
<1>4. SetJob(r, job) /\ UNCHANGED <<lockVars, ids, sent, copies, up, crashes>>
  BY DEF ClaimJob, job
<1> QED
  BY <1>1, <1>2, <1>3, <1>4, JobOnly

\* The provider's answer, or the lack of it.
LEMMA SendReplyInv ==
  ASSUME JobsInv, NEW r \in Replies, SendReply(r)
  PROVE  JobsInv'
<1>1. PICK step \in {"returned", "threw"} :
         /\ SetJob(r, [jobs[r] EXCEPT !.step = step])
         /\ \/ Deliver(r)
            \/ UNCHANGED sent /\ step = "threw"
  <2>1. \/ Deliver(r) /\ SetJob(r, [jobs[r] EXCEPT !.step = "returned"])
        \/ Deliver(r) /\ SetJob(r, [jobs[r] EXCEPT !.step = "threw"])
        \/ UNCHANGED sent /\ SetJob(r, [jobs[r] EXCEPT !.step = "threw"])
    BY DEF SendReply
  <2>2. "returned" \in {"returned", "threw"} /\ "threw" \in {"returned", "threw"}
    OBVIOUS
  <2> HIDE DEF SetJob
  <2> QED
    BY ONLY <2>1, <2>2, Zenon
<1> DEFINE job == [jobs[r] EXCEPT !.step = step]
<1>2. /\ job \in Job /\ job.step = step /\ job.row = jobs[r].row
      /\ job.bull = jobs[r].bull /\ job.tries = jobs[r].tries
  BY JobFacts DEF Job
<1>3. jobs[r].row # "sent" /\ jobs[r].tries < Attempts
  BY JobFacts DEF SendReply, At
<1>4. startup' \in Startup /\ missed' \subseteq Replies /\ up' \in BOOLEAN /\ crashes' \in 0..MaxCrashes
  BY JobFacts DEF SendReply
<1>5. ids' = [ids EXCEPT ![r] = ids[r]]
  BY DEF SendReply, JobsInv, RepliesTypeOK
<1>6. PICK n \in 0..MaxSends : /\ sent' = [sent EXCEPT ![r] = n]
                               /\ step = "returned" => n \in 1..MaxSends
  <2>1. CASE Deliver(r)
    <3>1. PICK k \in {1, 2} : sent[r] + k <= MaxSends /\ sent' = [sent EXCEPT ![r] = sent[r] + k]
      BY <2>1 DEF Deliver
    <3>2. sent[r] + k \in 1..MaxSends
      BY <3>1, JobFacts, RepliesAssumption
    <3>3. sent[r] + k \in 0..MaxSends
      BY <3>2
    <3> QED
      BY <3>1, <3>2, <3>3
  <2>2. CASE UNCHANGED sent /\ step = "threw"
    <3>1. sent' = [sent EXCEPT ![r] = sent[r]]
      BY <2>2 DEF JobsInv, RepliesTypeOK
    <3> QED
      BY <2>2, <3>1, JobFacts
  <2> QED
    BY <1>1, <2>1, <2>2
<1>7. ids[r] \in Nat /\ ids[r] \notin copies[r]
  BY JobFacts
<1>8. UNCHANGED <<lockVars, copies>> /\ SetJob(r, job)
  BY <1>1 DEF SendReply
<1> HIDE DEF job
<1> QED
  BY <1>2, <1>3, <1>4, <1>5, <1>6, <1>7, <1>8, OneJobChanges

\* The record: the row takes the id of the last copy, or another row holds it.
LEMMA RecordReplyInv ==
  ASSUME JobsInv, NEW r \in Replies, RecordReply(r)
  PROVE  JobsInv'
<1>1. startup' \in Startup /\ missed' \subseteq Replies /\ up' \in BOOLEAN /\ crashes' \in 0..MaxCrashes
  BY JobFacts DEF RecordReply
<1>2. jobs[r].tries < Attempts /\ jobs[r].row # "sent" /\ sent[r] \in 1..MaxSends
  BY JobFacts DEF RecordReply, At
<1>3. CASE Clashes(r) /\ UNCHANGED ids
  <2> DEFINE job == [jobs[r] EXCEPT !.step = "threw"]
  <2>1. job \in Job /\ job.step = "threw" /\ job.row = jobs[r].row /\ job.tries = jobs[r].tries
    BY JobFacts DEF Job
  <2>2. SetJob(r, job) /\ UNCHANGED <<lockVars, ids, sent, copies, up, crashes>>
    BY <1>3 DEF RecordReply
  <2> HIDE DEF job
  <2> QED
    BY <1>1, <1>2, <2>1, <2>2, JobOnly
<1>4. CASE ~Clashes(r)
  <2> DEFINE job == [jobs[r] EXCEPT !.row = "sent", !.step = "recorded"]
  <2>1. job \in Job /\ job.step = "recorded" /\ job.tries = jobs[r].tries
    <3>1. jobs[r] \in Job
      BY JobFacts
    <3> QED  BY <3>1 DEF Job
  <2>2. /\ SetJob(r, job)
        /\ ids' = [ids EXCEPT ![r] = sent[r]]
        /\ UNCHANGED <<lockVars, sent, copies, up, crashes>>
    BY <1>4 DEF RecordReply
  <2>3. sent' = [sent EXCEPT ![r] = sent[r]]
    BY <2>2 DEF JobsInv, RepliesTypeOK
  <2>4. sent[r] \in Nat /\ sent[r] \in 0..MaxSends /\ sent[r] \in 1..sent[r]
    BY <1>2, RepliesAssumption
  <2>5. sent[r] \notin copies[r]
    BY <1>4 DEF Clashes
  <2> HIDE DEF job
  <2> QED
    BY <1>1, <1>2, <2>1, <2>2, <2>3, <2>4, <2>5, OneJobChanges
<1> QED
  BY <1>3, <1>4 DEF RecordReply

\* The end of a job, in its three ways.
LEMMA CompleteJobInv ==
  ASSUME JobsInv, NEW r \in Replies, CompleteJob(r)
  PROVE  JobsInv'
<1> DEFINE job == [jobs[r] EXCEPT !.bull = "completed", !.step = "none"]
<1>1. job \in Job /\ job.bull = "completed" /\ job.step = "none" /\ job.row = jobs[r].row
  BY JobFacts DEF Job
<1>2. startup' \in Startup /\ missed' \subseteq Replies
  BY JobFacts DEF CompleteJob
<1> QED
  BY <1>1, <1>2, JobOnly DEF CompleteJob

\* The catch block.
LEMMA CatchErrorInv ==
  ASSUME JobsInv, NEW r \in Replies, CatchError(r)
  PROVE  JobsInv'
<1> DEFINE job == [jobs[r] EXCEPT !.row = Caught(r), !.step = "rethrow"]
<1>1. job \in Job /\ job.tries = jobs[r].tries /\ job.step = "rethrow" /\ job.row = "failed"
  <2>1. jobs[r] \in Job
    BY JobFacts
  <2> QED  BY <2>1 DEF Job, Caught
<1>2. startup' \in Startup /\ missed' \subseteq Replies /\ jobs[r].tries < Attempts
  BY JobFacts DEF CatchError, At
<1>3. SetJob(r, job) /\ UNCHANGED <<lockVars, ids, sent, copies, up, crashes, startup, missed>>
  BY DEF CatchError
<1> HIDE DEF job
<1> QED
  BY <1>1, <1>2, <1>3, JobOnly

\* BullMQ's retry.
LEMMA RethrowErrorInv ==
  ASSUME JobsInv, NEW r \in Replies, RethrowError(r)
  PROVE  JobsInv'
<1> DEFINE state == IF jobs[r].tries + 1 < Attempts THEN "waiting" ELSE "failed"
           job == [jobs[r] EXCEPT !.bull = state, !.tries = @ + 1, !.step = "none"]
<1>1. jobs[r].tries + 1 \in 0..Attempts
  BY JobFacts, RepliesAssumption DEF RethrowError, At
<1>2. /\ job \in Job /\ job.tries = jobs[r].tries + 1 /\ job.step = "none"
      /\ job.row = jobs[r].row /\ job.bull = state
  BY <1>1, JobFacts DEF Job
<1>3. startup' \in Startup /\ missed' \subseteq Replies
  BY JobFacts DEF RethrowError
<1>4. SetJob(r, job) /\ UNCHANGED <<lockVars, ids, sent, copies, up, crashes>>
  BY DEF RethrowError
<1>5. state \in {"waiting", "active"} => jobs[r].tries + 1 < Attempts
  OBVIOUS
<1> HIDE DEF job, state
<1> QED
  BY <1>2, <1>3, <1>4, <1>5, JobOnly

\* BullMQ's recovery of a job that lost its worker.
LEMMA RecoverStalledInv ==
  ASSUME JobsInv, NEW r \in Replies, RecoverStalled(r)
  PROVE  JobsInv'
<1> DEFINE job == Abandoned(jobs[r])
<1>1. /\ job \in Job /\ job.tries = jobs[r].tries
      /\ job.row = jobs[r].row /\ job.step = jobs[r].step
  <2>1. CASE jobs[r].stalls = 0
    <3> DEFINE new == [jobs[r] EXCEPT !.bull = "waiting", !.stalls = 1]
    <3>1. job = new
      BY <2>1 DEF Abandoned
    <3>2. new \in Job
      <4>1. 1 \in 0..1 /\ jobs[r] \in Job
        BY JobFacts
      <4> QED
        BY <4>1 DEF Job
    <3>3. new.tries = jobs[r].tries /\ new.row = jobs[r].row /\ new.step = jobs[r].step
      BY JobFacts DEF Job
    <3> HIDE DEF new, job
    <3> QED
      BY <3>1, <3>2, <3>3
  <2>2. CASE jobs[r].stalls # 0
    <3>1. job = [jobs[r] EXCEPT !.bull = "failed"]
      BY <2>2 DEF Abandoned
    <3> QED
      BY <3>1, JobFacts DEF Job
  <2> QED
    BY <2>1, <2>2
<1>2. jobs[r].tries < Attempts /\ jobs[r].step = "none"
  BY JobFacts DEF RecoverStalled, At
<1>3. startup' \in Startup /\ missed' \subseteq Replies
  BY JobFacts DEF RecoverStalled
<1>4. SetJob(r, job) /\ UNCHANGED <<lockVars, ids, sent, copies, up, crashes>>
  BY DEF RecoverStalled
<1> HIDE DEF job
<1> QED
  BY <1>1, <1>2, <1>3, <1>4, JobOnly
-----------------------------------------------------------------------------
(* Startup and death *)

\* A restart touches no job.
LEMMA RestartInv ==
  ASSUME JobsInv, NEW old \in SUBSET Stuck, Restart(old)
  PROVE  JobsInv'
<1>1. startup' \in Startup
  BY DEF Restart, Startup, Stuck
<1>2. missed' \subseteq Replies
  BY DEF Restart, JobsInv, RepliesTypeOK, Unserved
<1>3. UNCHANGED <<lockVars, jobs, ids, sent, copies, crashes>> /\ up' \in BOOLEAN
  BY DEF Restart
<1>4. RepliesTypeOK'
  BY <1>1, <1>2, <1>3 DEF JobsInv, RepliesTypeOK, lockVars
<1> QED
  BY <1>3, <1>4 DEF JobsInv, WorkerInv, IdsAreUnique, SentHasId

\* Startup sets a row back: it is not "sent" any more.
LEMMA RequeueRowInv ==
  ASSUME JobsInv, NEW r \in Replies, RequeueRow(r)
  PROVE  JobsInv'
<1> DEFINE job == [jobs[r] EXCEPT !.row = "queued"]
<1>1. /\ job \in Job /\ job.tries = jobs[r].tries /\ job.step = jobs[r].step
      /\ job.row = "queued" /\ job.bull = jobs[r].bull
  BY JobFacts DEF Job
<1>2. startup' \in Startup /\ missed' \subseteq Replies
  BY JobFacts DEF RequeueRow, Startup
<1> QED
  BY <1>1, <1>2, JobFacts, JobOnly DEF RequeueRow

\* Startup removes a finished job.
LEMMA InspectJobInv ==
  ASSUME JobsInv, NEW r \in Replies, InspectJob(r)
  PROVE  JobsInv'
<1> DEFINE job == IF jobs[r].bull \in {"failed", "completed"}
               THEN [jobs[r] EXCEPT !.bull = "absent"] ELSE jobs[r]
<1>1. /\ job \in Job /\ job.tries = jobs[r].tries /\ job.step = jobs[r].step
      /\ job.row = jobs[r].row /\ (job.bull = "absent" \/ job.bull = jobs[r].bull)
  BY JobFacts DEF Job
<1>2. startup' \in Startup /\ missed' \subseteq Replies
  BY JobFacts DEF InspectJob, Startup
<1>3. SetJob(r, job) /\ UNCHANGED <<lockVars, ids, sent, copies, up, crashes>>
  BY DEF InspectJob
<1> HIDE DEF job
<1> QED
  BY <1>1, <1>2, <1>3, JobFacts, JobOnly

\* Startup's add.
LEMMA AddStuckJobInv ==
  ASSUME JobsInv, NEW r \in Replies, AddStuckJob(r)
  PROVE  JobsInv'
<1> DEFINE job == Added(jobs[r])
<1>1. /\ job \in Job
      /\ job.bull \in {"waiting", "active"} => job.tries < Attempts
      /\ job.step = jobs[r].step /\ job.row = jobs[r].row
  BY JobFacts, AddedFacts
<1>2. startup' \in Startup /\ missed' \subseteq Replies
  BY JobFacts DEF AddStuckJob, Startup
<1>3. SetJob(r, job) /\ UNCHANGED <<lockVars, ids, sent, copies, up, crashes>>
  BY DEF AddStuckJob
<1> HIDE DEF job
<1> QED
  BY <1>1, <1>2, <1>3, JobFacts, JobOnly

\* The death of the process forgets what the worker was at.
LEMMA CrashRepliesInv ==
  ASSUME JobsInv, CrashReplies
  PROVE  JobsInv'
<1>1. \A r \in Replies :
        /\ jobs'[r] \in Job
        /\ jobs'[r].tries = jobs[r].tries /\ jobs'[r].bull = jobs[r].bull
        /\ jobs'[r].row = jobs[r].row /\ jobs'[r].step = "none"
  <2> TAKE r \in Replies
  <2>1. jobs'[r] = [jobs[r] EXCEPT !.route = "idle", !.step = "none"]
    BY DEF CrashReplies
  <2>2. jobs[r] \in Job
    BY DEF JobsInv, RepliesTypeOK
  <2>3. /\ jobs'[r].tries = jobs[r].tries /\ jobs'[r].bull = jobs[r].bull
        /\ jobs'[r].row = jobs[r].row /\ jobs'[r].step = "none"
    BY <2>1, <2>2 DEF Job
  <2>4. jobs'[r] \in Job
    BY <2>1, <2>2 DEF Job
  <2> QED
    BY <2>3, <2>4
<1>2. jobs' \in [Replies -> Job]
  BY <1>1 DEF CrashReplies
<1>3. asks' \in [Members -> Ask]
  BY DEF CrashReplies, Ask, NoAsk
<1>4. crashes' \in 0..MaxCrashes /\ up' \in BOOLEAN
  <2>1. crashes \in 0..MaxCrashes
    BY DEF JobsInv, RepliesTypeOK
  <2>2. crashes < MaxCrashes /\ crashes' = crashes + 1
    BY DEF CrashReplies
  <2>3. crashes' \in 0..MaxCrashes
    BY <2>1, <2>2, RepliesAssumption
  <2>4. up' = FALSE
    BY DEF CrashReplies
  <2> QED
    BY <2>3, <2>4
<1>7. startup' \in Startup
  BY DEF CrashReplies, Startup, Idle
<1>5. UNCHANGED <<lock, replier, locks, ids, sent, copies, missed>>
  BY DEF CrashReplies
<1>6. RepliesTypeOK'
  BY <1>2, <1>3, <1>4, <1>5, <1>7 DEF JobsInv, RepliesTypeOK
<1> QED
  BY <1>1, <1>5, <1>6 DEF JobsInv, WorkerInv, IdsAreUnique, SentHasId
-----------------------------------------------------------------------------
(* Every step of WaReplies *)

\* A step on the jobs alone keeps the jobs' invariant.
LEMMA JobStepInv ==
  ASSUME JobsInv, NEW r \in Replies, EnqueueReply(r) \/ WorkerStep(r) \/ StartupStep(r)
  PROVE  JobsInv'
BY EnqueueReplyInv, ClaimJobInv, SendReplyInv, RecordReplyInv, CompleteJobInv, CatchErrorInv,
   RethrowErrorInv, RecoverStalledInv, RequeueRowInv, InspectJobInv, AddStuckJobInv
   DEF WorkerStep, StartupStep

\* A step on the jobs leaves the lock and what has been ingested alone.
LEMMA JobStepFrame ==
  ASSUME NEW r \in Replies, EnqueueReply(r) \/ WorkerStep(r) \/ StartupStep(r)
  PROVE  UNCHANGED <<lock, replier, copies>>
<1>1. CASE EnqueueReply(r)
  BY <1>1 DEF EnqueueReply, lockVars
<1>2. CASE WorkerStep(r)
  BY <1>2 DEF WorkerStep, ClaimJob, SendReply, RecordReply, CompleteJob, CatchError,
              RethrowError, RecoverStalled, lockVars
<1>3. CASE StartupStep(r)
  BY <1>3 DEF StartupStep, RequeueRow, InspectJob, AddStuckJob, lockVars
<1> QED
  BY <1>1, <1>2, <1>3

\* The parts that a step on the jobs does not touch keep the rest.
LEMMA JobsFrame ==
  ASSUME IInv, JobsInv', UNCHANGED <<lock, replier, copies>>, UNCHANGED inVars
  PROVE  IInv'
BY DEF IInv, QuotesInv, ReplierMirrorsLock, inVars

\* Every step of the replies keeps the invariant.
LEMMA RepliesNextIInv ==
  ASSUME IInv, RepliesNext, UNCHANGED inVars
  PROVE  IInv'
<1>1. CASE Requests
  <2>1. PICK m \in Members :
          \/ \E op \in {"take", "force", "release"} : AskLock(m, op)
          \/ WriteLock(m)
          \/ \E r \in Replies : AcceptReply(m, r)
    BY <1>1 DEF Requests
  <2>2. CASE \E op \in {"take", "force", "release"} : AskLock(m, op)
    BY <2>2, AskLockIInv
  <2>3. CASE WriteLock(m)
    BY <2>3, WriteLockIInv
  <2>4. CASE \E r \in Replies : AcceptReply(m, r)
    <3>1. PICK r \in Replies : AcceptReply(m, r)
      BY <2>4
    <3>2. JobsInv'
      BY <3>1, AcceptReplyInv DEF IInv
    <3>3. UNCHANGED <<lock, replier, copies>>
      BY <3>1 DEF AcceptReply, lockVars
    <3> QED
      BY <3>2, <3>3, JobsFrame
  <2> QED
    BY <2>1, <2>2, <2>3, <2>4
<1>2. ASSUME NEW r \in Replies, EnqueueReply(r) \/ WorkerStep(r) \/ StartupStep(r)
      PROVE  IInv'
  <2>1. JobsInv'
    BY <1>2, JobStepInv DEF IInv
  <2>2. UNCHANGED <<lock, replier, copies>>
    BY <1>2, JobStepFrame
  <2> QED
    BY <2>1, <2>2, JobsFrame
<1>3. ASSUME NEW old \in SUBSET Stuck, Restart(old)
      PROVE  IInv'
  <2>1. JobsInv'
    BY <1>3, RestartInv DEF IInv
  <2>2. UNCHANGED <<lock, replier, copies>>
    BY <1>3 DEF Restart, lockVars
  <2> QED
    BY <2>1, <2>2, JobsFrame
<1> QED
  BY <1>1, <1>2, <1>3 DEF RepliesNext
-----------------------------------------------------------------------------
(* What Baileys brings in *)

\* An echo is stored only where no row holds its id.
LEMMA IngestEchoIInv ==
  ASSUME IInv, NEW r \in Replies, NEW id \in 1..MaxSends, IngestEcho(r, id)
  PROVE  IInv'
<1> USE DEF IInv, JobsInv, QuotesInv
<1>1. UNCHANGED <<lock, replier, asks, locks, jobs, ids, sent, up, crashes, startup, missed, inVars>>
  BY DEF IngestEcho, lockVars
<1>2. /\ copies' = [copies EXCEPT ![r] = @ \cup {id}]
      /\ ids[r] # id
  BY DEF IngestEcho, Stored
<1>3. \A x \in Replies : copies'[x] = IF x = r THEN copies[r] \cup {id} ELSE copies[x]
  BY <1>2 DEF RepliesTypeOK
<1>4. RepliesTypeOK'
  <2>1. copies' \in [Replies -> SUBSET (1..MaxSends)]
    BY <1>2 DEF RepliesTypeOK
  <2> QED
    BY <1>1, <2>1 DEF RepliesTypeOK
<1>5. IdsAreUnique'
  BY <1>1, <1>2, <1>3 DEF IdsAreUnique
<1>6. WorkerInv' /\ SentHasId' /\ ReplierMirrorsLock'
  BY <1>1 DEF WorkerInv, SentHasId, ReplierMirrorsLock
<1>7. QuotesInv'
  BY <1>1 DEF inVars
<1> QED
  BY <1>4, <1>5, <1>6, <1>7

\* The parts that a step on the quoting messages does not touch keep the rest.
LEMMA QuotesFrame ==
  ASSUME IInv, UNCHANGED <<lockVars, replyVars>>, QuotesInv'
  PROVE  IInv'
<1>1. UNCHANGED <<lock, replier, asks, locks, jobs, ids, sent, copies, up, crashes, startup, missed>>
  BY DEF lockVars, replyVars
<1> QED
  BY <1>1 DEF IInv, JobsInv, RepliesTypeOK, WorkerInv, IdsAreUnique, SentHasId,
              ReplierMirrorsLock

\* The look-up of a quoted message, and the commit of the message that quotes it.
LEMMA LookUpQuotedIInv ==
  ASSUME IInv, NEW q \in Quotes, NEW r \in Replies, NEW id \in 1..MaxSends,
         LookUpQuoted(q, r, id)
  PROVE  IInv'
<1>1. UNCHANGED <<lockVars, replyVars, scans, online, left>>
  BY DEF LookUpQuoted
<1>2. quotes' \in [Quotes -> QuoteStates]
  BY DEF LookUpQuoted, QuoteStates, IInv, QuotesInv
<1> QED
  BY <1>1, <1>2, QuotesFrame DEF IInv, QuotesInv

LEMMA CommitQuoteIInv ==
  ASSUME IInv, NEW q \in Quotes, CommitQuote(q)
  PROVE  IInv'
<1>1. UNCHANGED <<lockVars, replyVars, scans, online, left>>
  BY DEF CommitQuote
<1>2. quotes' \in [Quotes -> QuoteStates]
  BY DEF CommitQuote, QuoteStates, OpenStates, IInv, QuotesInv
<1> QED
  BY <1>1, <1>2, QuotesFrame DEF IInv, QuotesInv

\* The steps of the reconciliation write gaps, and the connection its status.
LEMMA ReconciliationIInv ==
  ASSUME IInv, Reconciliation
  PROVE  IInv'
<1> USE DEF IInv, QuotesInv
<1>1. ASSUME NEW gaps, NEW state \in {"reconciling", "manual_review"}, Marked(gaps, state)
      PROVE  quotes' \in [Quotes -> QuoteStates]
  BY <1>1 DEF Marked, QuoteStates, OpenStates
<1>2. ASSUME NEW c \in Callers, MarkGaps(c) PROVE IInv'
  <2>1. UNCHANGED <<lockVars, replyVars, online, left>> /\ scans' \subseteq Callers
    BY <1>2 DEF MarkGaps
  <2>2. quotes' \in [Quotes -> QuoteStates]
    BY <1>1, <1>2 DEF MarkGaps
  <2> QED  BY <2>1, <2>2, QuotesFrame
<1>3. ASSUME NEW c \in Callers, ReviewGaps(c) PROVE IInv'
  <2>1. UNCHANGED <<lockVars, replyVars, online, left>> /\ scans' \subseteq Callers
    BY <1>3 DEF ReviewGaps
  <2>2. quotes' \in [Quotes -> QuoteStates]
    BY <1>1, <1>3 DEF ReviewGaps
  <2> QED  BY <2>1, <2>2, QuotesFrame
<1>4. ASSUME NEW c \in Callers, SyncFails(c) PROVE IInv'
  <2>1. UNCHANGED <<lockVars, replyVars, quotes, online>> /\ scans' \subseteq Callers
    BY <1>4 DEF SyncFails
  <2>2. left' \subseteq Quotes
    BY <1>4 DEF SyncFails, Abandons
  <2> QED  BY <2>1, <2>2, QuotesFrame
<1>5. CASE ConnectionChanges
  <2>1. UNCHANGED <<lockVars, replyVars, quotes, scans, left>> /\ online' \in BOOLEAN
    BY <1>5 DEF ConnectionChanges
  <2> QED  BY <2>1, QuotesFrame
<1>6. "timer" \in Callers /\ "route" \in Callers
  BY DEF Callers
<1> QED
  BY <1>2, <1>3, <1>4, <1>5, <1>6
     DEF Reconciliation, ReconciliationStep, Reconcile, ReconcileOnRequest

\* The death of the process forgets the messages whose rows were not committed.
LEMMA CrashIInv ==
  ASSUME IInv, Crash
  PROVE  IInv'
<1> USE DEF IInv, QuotesInv
<1>1. JobsInv' /\ UNCHANGED <<lock, replier, copies>>
  BY CrashRepliesInv DEF Crash, CrashReplies
<1>2. quotes' \in [Quotes -> QuoteStates]
  BY DEF Crash, QuoteStates
<1>3. scans' \subseteq Callers /\ online' \in BOOLEAN /\ left' \subseteq Quotes
  BY DEF Crash
<1>4. ReplierMirrorsLock'
  BY <1>1 DEF ReplierMirrorsLock
<1> QED
  BY <1>1, <1>2, <1>3, <1>4
-----------------------------------------------------------------------------
(* The specification *)

\* Every step keeps the invariant.
LEMMA StepIInv == IInv /\ [Next]_vars => IInv'
<1> SUFFICES ASSUME IInv, [Next]_vars PROVE IInv'
  OBVIOUS
<1>1. CASE RepliesNext /\ UNCHANGED inVars
  BY <1>1, RepliesNextIInv
<1>2. CASE Ingestion
  BY <1>2, IngestEchoIInv, LookUpQuotedIInv, CommitQuoteIInv DEF Ingestion
<1>3. CASE Reconciliation
  BY <1>3, ReconciliationIInv
<1>4. CASE Crash
  BY <1>4, CrashIInv
<1>5. CASE UNCHANGED vars
  <2>1. UNCHANGED <<lockVars, replyVars, inVars>>
    BY <1>5 DEF vars
  <2>2. QuotesInv'
    BY <2>1 DEF IInv, QuotesInv, inVars
  <2> QED
    BY <2>1, <2>2, QuotesFrame
<1> QED
  BY <1>1, <1>2, <1>3, <1>4, <1>5 DEF Next

\* The strengthened invariant holds in every reachable state.
THEOREM Inductive == Spec => []IInv
<1> QED
  BY InitIInv, StepIInv, PTL DEF Spec

\* The tables and the worker hold well-typed values throughout.
THEOREM WaWellTyped == Spec => []TypeOK
<1>1. IInv => TypeOK
  BY DEF IInv, JobsInv, QuotesInv, TypeOK
<1> QED
  BY <1>1, Inductive, PTL

\* However takeovers, forced takeovers and releases interleave between their
\* reads and their writes, the conversation names the holder of its lock.
THEOREM ReplierIsLockHolder == Spec => []ReplierMirrorsLock
<1>1. IInv => ReplierMirrorsLock
  BY DEF IInv
<1> QED
  BY <1>1, Inductive, PTL

\* No provider message has two rows, whatever the order of the worker's record
\* and of the echo.
THEOREM OneRowPerProviderId == Spec => []IdsAreUnique
<1>1. IInv => IdsAreUnique
  BY DEF IInv, JobsInv
<1> QED
  BY <1>1, Inductive, PTL

\* A reply called sent carries the id of a copy the provider took.
THEOREM SentHasProviderId == Spec => []SentHasId
<1>1. IInv => SentHasId
  BY DEF IInv, JobsInv
<1> QED
  BY <1>1, Inductive, PTL

-----------------------------------------------------------------------------
(* A reply recorded as sent *)

\* What a step does to a row that says "sent".
RowStays(r) ==
  jobs[r].row = "sent" =>
    /\ sent'[r] = sent[r]
    /\ \/ jobs'[r].row = "sent"
       \/ startup.step = "next" /\ r \in startup.todo

\* A step that keeps the copies and the rows.
LEMMA RowsKept ==
  ASSUME NEW r \in Replies, sent'[r] = sent[r], jobs'[r].row = jobs[r].row
  PROVE  RowStays(r)
BY DEF RowStays

\* A step on another reply, or on this one's job beside its row.
LEMMA OneJobKeepsRows ==
  ASSUME JobsInv, NEW x \in Replies, NEW job, SetJob(x, job), UNCHANGED sent,
         jobs[x].row = "sent" => job.row = "sent"
  PROVE  \A r \in Replies : RowStays(r)
BY DEF SetJob, RowStays, JobsInv, RepliesTypeOK

\* The worker's steps: past its claim it holds no row that says "sent".
LEMMA WorkerKeepsRows ==
  ASSUME JobsInv, NEW x \in Replies, WorkerStep(x)
  PROVE  \A r \in Replies : RowStays(r)
<1>0. jobs[x] \in Job
  BY JobFacts
<1>1. CASE ClaimJob(x)
  <2>1. CASE Skips(jobs[x].row)
    <3> DEFINE job == [jobs[x] EXCEPT !.bull = "active", !.step = "recorded"]
    <3>1. SetJob(x, job) /\ UNCHANGED sent
      BY <1>1, <2>1 DEF ClaimJob
    <3>2. job.row = jobs[x].row
      BY <1>0 DEF Job
    <3> HIDE DEF job
    <3> QED
      BY <3>1, <3>2, OneJobKeepsRows
  <2>2. CASE ~Skips(jobs[x].row)
    <3> DEFINE job == [jobs[x] EXCEPT !.bull = "active", !.step = "claimed", !.row = "sending"]
    <3>1. SetJob(x, job) /\ UNCHANGED sent
      BY <1>1, <2>2 DEF ClaimJob
    <3>2. jobs[x].row # "sent"
      BY <2>2 DEF Skips
    <3> HIDE DEF job
    <3> QED
      BY <3>1, <3>2, OneJobKeepsRows
  <2> QED
    BY <2>1, <2>2
<1>2. CASE SendReply(x)
  <2>1. jobs[x].row # "sent"
    BY <1>2, JobFacts DEF SendReply, At
  <2>2. \A r \in Replies \ {x} : sent'[r] = sent[r] /\ jobs'[r] = jobs[r]
    BY <1>2 DEF SendReply, Deliver, SetJob, JobsInv, RepliesTypeOK
  <2> QED
    BY <2>1, <2>2 DEF RowStays
<1>3. CASE RecordReply(x)
  <2>1. jobs[x].row # "sent"
    BY <1>3, JobFacts DEF RecordReply, At
  <2>2. UNCHANGED sent /\ \A r \in Replies \ {x} : jobs'[r] = jobs[r]
    BY <1>3 DEF RecordReply, SetJob, JobsInv, RepliesTypeOK
  <2> QED
    BY <2>1, <2>2 DEF RowStays
<1>4. CASE CompleteJob(x)
  <2> DEFINE job == [jobs[x] EXCEPT !.bull = "completed", !.step = "none"]
  <2>1. SetJob(x, job) /\ UNCHANGED sent
    BY <1>4 DEF CompleteJob
  <2>2. job.row = jobs[x].row
    BY <1>0 DEF Job
  <2> HIDE DEF job
  <2> QED
    BY <2>1, <2>2, OneJobKeepsRows
<1>5. CASE CatchError(x)
  <2>1. jobs[x].row # "sent"
    BY <1>5, JobFacts DEF CatchError, At
  <2>2. UNCHANGED sent /\ \A r \in Replies \ {x} : jobs'[r] = jobs[r]
    BY <1>5 DEF CatchError, SetJob, JobsInv, RepliesTypeOK
  <2> QED
    BY <2>1, <2>2 DEF RowStays
<1>6. CASE RethrowError(x)
  <2> DEFINE state == IF jobs[x].tries + 1 < Attempts THEN "waiting" ELSE "failed"
             job == [jobs[x] EXCEPT !.bull = state, !.tries = @ + 1, !.step = "none"]
  <2>1. SetJob(x, job) /\ UNCHANGED sent
    BY <1>6 DEF RethrowError
  <2>2. job.row = jobs[x].row
    BY <1>0 DEF Job
  <2> HIDE DEF job
  <2> QED
    BY <2>1, <2>2, OneJobKeepsRows
<1>7. CASE RecoverStalled(x)
  <2> DEFINE job == Abandoned(jobs[x])
  <2>1. SetJob(x, job) /\ UNCHANGED sent
    BY <1>7 DEF RecoverStalled
  <2>2. job.row = jobs[x].row
    BY <1>0 DEF Job, Abandoned
  <2> HIDE DEF job
  <2> QED
    BY <2>1, <2>2, OneJobKeepsRows
<1> QED
  BY <1>1, <1>2, <1>3, <1>4, <1>5, <1>6, <1>7 DEF WorkerStep

\* Startup's steps: only a row on its list is set back.
LEMMA StartupKeepsRows ==
  ASSUME JobsInv, NEW x \in Replies, StartupStep(x)
  PROVE  \A r \in Replies : RowStays(r)
<1>0. jobs[x] \in Job
  BY JobFacts
<1>1. CASE RequeueRow(x)
  <2>1. x \in startup.todo /\ startup.step = "next" /\ UNCHANGED sent
    BY <1>1 DEF RequeueRow
  <2>2. \A r \in Replies \ {x} : jobs'[r] = jobs[r]
    BY <1>1 DEF RequeueRow, SetJob, JobsInv, RepliesTypeOK
  <2> QED
    BY <2>1, <2>2 DEF RowStays
<1>2. CASE InspectJob(x)
  <2> DEFINE job == IF jobs[x].bull \in {"failed", "completed"}
                    THEN [jobs[x] EXCEPT !.bull = "absent"] ELSE jobs[x]
  <2>1. SetJob(x, job) /\ UNCHANGED sent
    BY <1>2 DEF InspectJob
  <2>2. job.row = jobs[x].row
    BY <1>0 DEF Job
  <2> HIDE DEF job
  <2> QED
    BY <2>1, <2>2, OneJobKeepsRows
<1>3. CASE AddStuckJob(x)
  <2> DEFINE job == Added(jobs[x])
  <2>1. SetJob(x, job) /\ UNCHANGED sent
    BY <1>3 DEF AddStuckJob
  <2>2. job.row = jobs[x].row
    BY JobFacts, AddedFacts
  <2> HIDE DEF job
  <2> QED
    BY <2>1, <2>2, OneJobKeepsRows
<1> QED
  BY <1>1, <1>2, <1>3 DEF StartupStep

\* The other steps on the jobs: a new reply, its add, and the death and the
\* start of the process.
LEMMA OthersKeepRows ==
  ASSUME IInv, [Next]_vars
  PROVE  \/ \E x \in Replies : WorkerStep(x) \/ StartupStep(x)
         \/ \A r \in Replies : RowStays(r)
<1>1. ASSUME NEW m \in Members, NEW x \in Replies, AcceptReply(m, x)
      PROVE  \A r \in Replies : RowStays(r)
  <2>1. jobs[x].row # "sent" /\ UNCHANGED sent
    BY <1>1 DEF AcceptReply, NoJob
  <2>2. \A r \in Replies \ {x} : jobs'[r] = jobs[r]
    BY <1>1 DEF AcceptReply, SetJob, IInv, JobsInv, RepliesTypeOK
  <2> QED
    BY <2>1, <2>2 DEF RowStays
<1>2. ASSUME NEW x \in Replies, EnqueueReply(x)
      PROVE  \A r \in Replies : RowStays(r)
  <2> DEFINE job == [Added(jobs[x]) EXCEPT !.route = "idle"]
  <2>1. SetJob(x, job) /\ UNCHANGED sent
    BY <1>2 DEF EnqueueReply
  <2>2. Added(jobs[x]) \in Job /\ Added(jobs[x]).row = jobs[x].row
    BY JobFacts, AddedFacts DEF IInv
  <2>3. job.row = jobs[x].row
    BY <2>2 DEF Job
  <2> HIDE DEF job
  <2> QED
    BY <2>1, <2>3, OneJobKeepsRows DEF IInv
<1>3. CASE UNCHANGED <<jobs, sent>>
  BY <1>3 DEF RowStays
<1>4. CASE RepliesNext
  <2>1. ASSUME NEW m \in Members, WriteLock(m) \/ \E op \in {"take", "force", "release"} : AskLock(m, op)
        PROVE  UNCHANGED <<jobs, sent>>
    BY <2>1 DEF WriteLock, AskLock, replyVars
  <2>2. ASSUME NEW old \in SUBSET Stuck, Restart(old)
        PROVE  UNCHANGED <<jobs, sent>>
    BY <2>2 DEF Restart
  <2> QED
    BY <1>1, <1>2, <1>3, <1>4, <2>1, <2>2 DEF RepliesNext, Requests
<1>5. CASE Ingestion
  <2>1. UNCHANGED <<jobs, sent>>
    BY <1>5 DEF Ingestion, IngestEcho, LookUpQuoted, CommitQuote, replyVars
  <2> QED
    BY <2>1, <1>3
<1>6. CASE Reconciliation
  <2>1. UNCHANGED <<jobs, sent>>
    BY <1>6 DEF Reconciliation, Reconcile, ReconcileOnRequest, MarkGaps,
                ConnectionChanges, ReconciliationStep, ReviewGaps, SyncFails, replyVars
  <2> QED
    BY <2>1, <1>3
<1>7. CASE Crash
  <2>0. UNCHANGED sent /\ jobs' = [r \in Replies |-> [jobs[r] EXCEPT !.route = "idle", !.step = "none"]]
    BY <1>7 DEF Crash, CrashReplies
  <2>1. UNCHANGED sent /\ \A r \in Replies : jobs'[r].row = jobs[r].row
    BY <2>0, JobFacts DEF IInv, Job
  <2> QED
    BY <2>1, RowsKept
<1>8. CASE UNCHANGED vars
  <2>1. UNCHANGED <<jobs, sent>>
    BY <1>8 DEF vars, replyVars
  <2> QED
    BY <2>1, <1>3
<1> QED
  BY <1>4, <1>5, <1>6, <1>7, <1>8 DEF Next

\* No retry, second job or repeated run sends a reply again that is recorded
\* as sent, and only startup takes such a record back.
THEOREM RecordedStays == Spec => RecordedIsFinal
<1>1. IInv /\ [Next]_vars => \A r \in Replies : RowStays(r)
  BY OthersKeepRows, WorkerKeepsRows, StartupKeepsRows DEF IInv
<1>2. IInv /\ [Next]_vars =>
        [\A r \in Replies : jobs[r].row = "sent" =>
           /\ sent'[r] = sent[r]
           /\ \/ jobs'[r].row = "sent"
              \/ startup.step = "next" /\ r \in startup.todo]_vars
  BY <1>1 DEF RowStays
<1> QED
  BY <1>2, Inductive, PTL DEF Spec, RecordedIsFinal
-----------------------------------------------------------------------------
(* Who sees to a reply *)

StuckRows == {"queued", "sending"}

\* A copy exists once the worker has recorded one, the worker's step is that of an
\* active job in a living process, an error that is thrown again has marked the
\* row unless startup set it back since, a route adds the first job of its reply,
\* and startup lists rows.
ServedInv(r) ==
  /\ jobs[r].step = "recorded" \/ jobs[r].bull = "completed" => sent[r] > 0
  /\ jobs[r].step # "none" => up /\ jobs[r].bull = "active"
  /\ jobs[r].step = "rethrow" /\ jobs[r].row \in StuckRows => r \in missed \/ startup.job = r
  /\ jobs[r].route = "enqueue" =>
       up /\ jobs[r].bull = "absent" /\ r \notin startup.todo /\ startup.job # r
  /\ r \in startup.todo \/ startup.job = r => jobs[r].row # "none"
  /\ up /\ jobs[r].row \in StuckRows /\ sent[r] = 0 => r \in missed \/ Served(r)

\* Startup takes a row in hand with empty hands.
HandInv == startup.step = "next" => startup.job = None

ServeInv == HandInv /\ \A r \in Replies : ServedInv(r)

\* A reply that a step does not touch.
LEMMA RestServed ==
  ASSUME NEW r, ServedInv(r), jobs'[r] = jobs[r], sent'[r] = sent[r], up' = up,
         r \in missed' <=> r \in missed,
         r \in startup'.todo <=> r \in startup.todo,
         startup'.job = r <=> startup.job = r
  PROVE  ServedInv(r)'
BY DEF ServedInv, Served

\* A step of the worker, or of the route, on one reply.
LEMMA JobServed ==
  ASSUME IInv, ServeInv, NEW x \in Replies, NEW job, SetJob(x, job),
         \A r \in Replies \ {x} : sent'[r] = sent[r] /\ (r \in missed' <=> r \in missed),
         up' = up, startup' = startup, ServedInv(x)'
  PROVE  ServeInv'
<1>1. \A r \in Replies \ {x} : jobs'[r] = jobs[r]
  BY DEF SetJob, IInv, JobsInv, RepliesTypeOK
<1>2. \A r \in Replies \ {x} : ServedInv(r)'
  BY <1>1, RestServed DEF ServeInv
<1> QED  BY <1>2 DEF ServeInv, HandInv

\* The worker's steps: what is still to be sent stays with BullMQ, or is marked.
LEMMA WorkerServes ==
  ASSUME IInv, ServeInv, NEW x \in Replies, WorkerStep(x)
  PROVE  ServeInv'
<1>0. /\ jobs \in [Replies -> Job] /\ jobs[x] \in Job /\ sent \in [Replies -> 0..MaxSends]
      /\ missed \subseteq Replies
      /\ ServedInv(x) /\ sent[x] \in Nat /\ ids[x] \in Nat
      /\ jobs[x].row = "sent" => ids[x] \in 1..sent[x]
      /\ jobs[x].step = "returned" => sent[x] \in 1..MaxSends
  BY JobFacts DEF IInv, JobsInv, RepliesTypeOK, ServeInv
<1>00. \A job : SetJob(x, job) => jobs'[x] = job
  BY <1>0 DEF SetJob
<1>1. CASE ClaimJob(x)
  <2>1. UNCHANGED <<sent, up, startup, missed>> /\ up /\ jobs[x].bull = "waiting"
    BY <1>1 DEF ClaimJob, MayClaim
  <2>2. CASE Skips(jobs[x].row)
    <3> DEFINE job == [jobs[x] EXCEPT !.bull = "active", !.step = "recorded"]
    <3>1. SetJob(x, job)
      BY <1>1, <2>2 DEF ClaimJob
    <3>2. job.bull = "active" /\ job.step = "recorded" /\ job.row = jobs[x].row /\ job.route = jobs[x].route
      BY <1>0 DEF Job
    <3> HIDE DEF job
    <3>3. sent[x] > 0
      BY <1>0, <2>2, RepliesAssumption DEF Skips
    <3>4. ServedInv(x)'
      BY <1>0, <1>00, <2>1, <3>1, <3>2, <3>3 DEF ServedInv, Served
    <3> QED  BY <2>1, <3>1, <3>4, JobServed
  <2>3. CASE ~Skips(jobs[x].row)
    <3> DEFINE job == [jobs[x] EXCEPT !.bull = "active", !.step = "claimed", !.row = "sending"]
    <3>1. SetJob(x, job)
      BY <1>1, <2>3 DEF ClaimJob
    <3>2. job.bull = "active" /\ job.step = "claimed" /\ job.row = "sending" /\ job.route = jobs[x].route
      BY <1>0 DEF Job
    <3> HIDE DEF job
    <3>3. ServedInv(x)'
      BY <1>0, <1>00, <2>1, <3>1, <3>2 DEF ServedInv, Served
    <3> QED  BY <2>1, <3>1, <3>3, JobServed
  <2> QED  BY <2>2, <2>3
<1>2. CASE SendReply(x)
  <2>1. UNCHANGED <<up, startup, missed>> /\ up /\ jobs[x].bull = "active" /\ jobs[x].step = "claimed"
    BY <1>2 DEF SendReply, At
  <2>2. PICK s \in {"returned", "threw"} : SetJob(x, [jobs[x] EXCEPT !.step = s])
    BY <1>2 DEF SendReply
  <2> DEFINE job == [jobs[x] EXCEPT !.step = s]
  <2>3. job.bull = "active" /\ job.step = s /\ job.row = jobs[x].row /\ job.route = jobs[x].route
    BY <1>0, <2>1 DEF Job
  <2>4. SetJob(x, job)
    BY <2>2
  <2> HIDE DEF job
  <2>5. \A r \in Replies \ {x} : sent'[r] = sent[r]
    BY <1>0, <1>2 DEF SendReply, Deliver
  <2>6. ServedInv(x)'
    BY <1>0, <1>00, <2>1, <2>3, <2>4 DEF ServedInv, Served
  <2> QED  BY <2>1, <2>4, <2>5, <2>6, JobServed
<1>3. CASE RecordReply(x)
  <2>1. UNCHANGED <<sent, up, startup, missed>> /\ up /\ jobs[x].bull = "active" /\ jobs[x].step = "returned"
    BY <1>3 DEF RecordReply, At
  <2>2. PICK job : SetJob(x, job) /\ job \in {[jobs[x] EXCEPT !.row = "sent", !.step = "recorded"],
                                             [jobs[x] EXCEPT !.step = "threw"]}
    BY <1>3 DEF RecordReply
  <2>3. /\ job.bull = "active" /\ job.step \in {"recorded", "threw"} /\ job.route = jobs[x].route
        /\ job.row \in {"sent", jobs[x].row}
    BY <1>0, <2>1, <2>2 DEF Job
  <2>4. sent[x] > 0
    BY <1>0, <2>1, RepliesAssumption
  <2>5. ServedInv(x)'
    BY <1>0, <1>00, <2>1, <2>2, <2>3, <2>4 DEF ServedInv, Served
  <2> QED  BY <2>1, <2>2, <2>5, JobServed
<1>4. CASE CompleteJob(x)
  <2> DEFINE job == [jobs[x] EXCEPT !.bull = "completed", !.step = "none"]
  <2>1. /\ UNCHANGED <<sent, up, startup, missed>> /\ up
        /\ jobs[x].bull = "active" /\ jobs[x].step = "recorded" /\ SetJob(x, job)
    BY <1>4 DEF CompleteJob, At
  <2>2. job.bull = "completed" /\ job.step = "none" /\ job.row = jobs[x].row /\ job.route = jobs[x].route
    BY <1>0 DEF Job
  <2> HIDE DEF job
  <2>3. ServedInv(x)'
    BY <1>0, <1>00, <2>1, <2>2 DEF ServedInv, Served
  <2> QED  BY <2>1, <2>3, JobServed
<1>5. CASE CatchError(x)
  <2> DEFINE job == [jobs[x] EXCEPT !.row = "failed", !.step = "rethrow"]
  <2>1. /\ UNCHANGED <<sent, up, startup, missed>> /\ up
        /\ jobs[x].bull = "active" /\ jobs[x].step = "threw" /\ SetJob(x, job)
    BY <1>5 DEF CatchError, At, Caught
  <2>2. job.bull = "active" /\ job.step = "rethrow" /\ job.row = "failed" /\ job.route = jobs[x].route
    BY <1>0, <2>1 DEF Job
  <2> HIDE DEF job
  <2>3. ServedInv(x)'
    BY <1>0, <1>00, <2>1, <2>2 DEF ServedInv, Served, StuckRows
  <2> QED  BY <2>1, <2>3, JobServed
<1>6. CASE RethrowError(x)
  <2> DEFINE state == IF jobs[x].tries + 1 < Attempts THEN "waiting" ELSE "failed"
             job == [jobs[x] EXCEPT !.bull = state, !.tries = @ + 1, !.step = "none"]
  <2>1. /\ UNCHANGED <<sent, up, startup, missed>> /\ up
        /\ jobs[x].bull = "active" /\ jobs[x].step = "rethrow" /\ SetJob(x, job)
    BY <1>6 DEF RethrowError, At
  <2>2. state \in {"waiting", "failed"}
    OBVIOUS
  <2> HIDE DEF state
  <2>3. job.bull = state /\ job.step = "none" /\ job.row = jobs[x].row /\ job.route = jobs[x].route
    BY <1>0 DEF Job
  <2> HIDE DEF job
  <2>4. ServedInv(x)'
    BY <1>0, <1>00, <2>1, <2>2, <2>3 DEF ServedInv, Served
  <2> QED  BY <2>1, <2>4, JobServed
<1>7. CASE RecoverStalled(x)
  <2> DEFINE job == Abandoned(jobs[x])
  <2>1. /\ UNCHANGED <<sent, up, startup>> /\ up
        /\ jobs[x].bull = "active" /\ jobs[x].step = "none" /\ SetJob(x, job)
        /\ missed' = IF jobs'[x].bull = "failed" THEN missed \cup {x} ELSE missed
    BY <1>7 DEF RecoverStalled, At
  <2>2. /\ job.bull \in {"waiting", "failed"} /\ job.step = "none" /\ job.row = jobs[x].row
        /\ job.route = jobs[x].route
    BY <1>0, <2>1 DEF Job, Abandoned
  <2> HIDE DEF job
  <2>3. ServedInv(x)'
    BY <1>0, <1>00, <2>1, <2>2 DEF ServedInv, Served
  <2>4. \A r \in Replies \ {x} : r \in missed' <=> r \in missed
    BY <2>1
  <2> QED  BY <2>1, <2>3, <2>4, JobServed
<1> QED  BY <1>1, <1>2, <1>3, <1>4, <1>5, <1>6, <1>7 DEF WorkerStep

\* What queue.add makes of a job, by what BullMQ knows of it.
LEMMA AddedBull ==
  ASSUME NEW job \in Job
  PROVE  /\ Added(job).bull = IF job.bull = "absent" THEN "waiting" ELSE job.bull
         /\ Added(job).step = job.step /\ Added(job).row = job.row /\ Added(job).route = job.route
<1>1. CASE job.bull = "absent"
  BY <1>1 DEF Added, Job
<1>2. CASE job.bull # "absent"
  BY <1>2 DEF Added
<1> QED  BY <1>1, <1>2

\* Startup's steps: a row is on the list, then in hand, then has a job or is missed.
LEMMA StartupServes ==
  ASSUME IInv, ServeInv, NEW x \in Replies, StartupStep(x)
  PROVE  ServeInv'
<1>0. /\ jobs \in [Replies -> Job] /\ jobs[x] \in Job /\ sent[x] \in Nat
      /\ startup \in Startup /\ missed \subseteq Replies /\ ServedInv(x) /\ HandInv
      /\ None \notin Replies
  BY JobFacts, RepliesAssumption DEF IInv, JobsInv, RepliesTypeOK, ServeInv
<1>00. \A job : SetJob(x, job) => jobs'[x] = job /\ \A r \in Replies \ {x} : jobs'[r] = jobs[r]
  BY <1>0 DEF SetJob
<1>01. ASSUME ServedInv(x)', HandInv', UNCHANGED <<sent, up>>,
              \A r \in Replies \ {x} : /\ jobs'[r] = jobs[r]
                                       /\ r \in missed' <=> r \in missed
                                       /\ r \in startup'.todo <=> r \in startup.todo
                                       /\ startup'.job = r <=> startup.job = r
       PROVE  ServeInv'
  <2>1. \A r \in Replies \ {x} : ServedInv(r)'
    BY <1>01, RestServed DEF ServeInv
  <2> QED  BY <1>01, <2>1 DEF ServeInv
<1>1. CASE RequeueRow(x)
  <2> DEFINE job == [jobs[x] EXCEPT !.row = "queued"]
  <2>1. /\ UNCHANGED <<sent, up, missed>> /\ up /\ startup.step = "next" /\ x \in startup.todo
        /\ SetJob(x, job)
        /\ startup' = [step |-> "inspect", todo |-> startup.todo \ {x}, job |-> x]
    BY <1>1 DEF RequeueRow
  <2>2. job.bull = jobs[x].bull /\ job.step = jobs[x].step /\ job.row = "queued" /\ job.route = jobs[x].route
    BY <1>0 DEF Job
  <2> HIDE DEF job
  <2>3. startup'.step = "inspect" /\ startup'.todo = startup.todo \ {x} /\ startup'.job = x
    BY <2>1
  <2>4. startup.job = None
    BY <1>0, <2>1 DEF HandInv
  <2>5. ServedInv(x)'
    BY <1>0, <1>00, <2>1, <2>2, <2>3 DEF ServedInv, Served
  <2> QED  BY <1>0, <1>00, <1>01, <2>1, <2>3, <2>4, <2>5 DEF HandInv
<1>2. CASE InspectJob(x)
  <2> DEFINE job == IF jobs[x].bull \in {"failed", "completed"}
                    THEN [jobs[x] EXCEPT !.bull = "absent"] ELSE jobs[x]
  <2>1. /\ UNCHANGED <<sent, up, missed>> /\ up /\ startup.job = x /\ SetJob(x, job)
        /\ startup' = [startup EXCEPT !.step = "add"]
    BY <1>2 DEF InspectJob
  <2>2. /\ job.step = jobs[x].step /\ job.row = jobs[x].row /\ job.route = jobs[x].route
        /\ job.bull = IF jobs[x].bull \in {"failed", "completed"} THEN "absent" ELSE jobs[x].bull
    BY <1>0 DEF Job
  <2> HIDE DEF job
  <2>3. startup'.step = "add" /\ startup'.todo = startup.todo /\ startup'.job = startup.job
    BY <1>0, <2>1 DEF Startup
  <2>4. ServedInv(x)'
    BY <1>0, <1>00, <2>1, <2>2, <2>3 DEF ServedInv, Served
  <2> QED  BY <1>00, <1>01, <2>1, <2>3, <2>4 DEF HandInv
<1>3. CASE AddStuckJob(x)
  <2> DEFINE job == Added(jobs[x])
  <2>1. /\ UNCHANGED <<sent, up>> /\ up /\ startup.job = x /\ SetJob(x, job)
        /\ missed' = IF jobs[x].bull \in {"absent", "waiting"} THEN missed \ {x} ELSE missed \cup {x}
        /\ startup' = [step |-> "next", todo |-> startup.todo, job |-> None]
    BY <1>3 DEF AddStuckJob
  <2>2. /\ job.step = jobs[x].step /\ job.row = jobs[x].row /\ job.route = jobs[x].route
        /\ job.bull = IF jobs[x].bull = "absent" THEN "waiting" ELSE jobs[x].bull
    BY <1>0, AddedBull
  <2> HIDE DEF job
  <2>3. startup'.step = "next" /\ startup'.todo = startup.todo /\ startup'.job = None
    BY <2>1
  <2>4. \A r \in Replies \ {x} : r \in missed' <=> r \in missed
    BY <2>1
  <2>5. ServedInv(x)'
    <3>1. CASE jobs[x].bull \in {"absent", "waiting"}
      BY <1>0, <1>00, <2>1, <2>2, <2>3, <3>1 DEF ServedInv, Served
    <3>2. CASE jobs[x].bull \notin {"absent", "waiting"}
      BY <1>0, <1>00, <2>1, <2>2, <2>3, <3>2 DEF ServedInv, Served
    <3> QED  BY <3>1, <3>2
  <2> QED  BY <1>0, <1>00, <1>01, <2>1, <2>3, <2>4, <2>5 DEF HandInv
<1> QED  BY <1>1, <1>2, <1>3 DEF StartupStep

\* The route: its reply is new to BullMQ and to startup.
LEMMA RouteServes ==
  ASSUME IInv, ServeInv, NEW x \in Replies,
         EnqueueReply(x) \/ \E m \in Members : AcceptReply(m, x)
  PROVE  ServeInv'
<1>0. /\ jobs \in [Replies -> Job] /\ jobs[x] \in Job /\ ServedInv(x)
      /\ Added(jobs[x]) \in Job
  BY JobFacts, AddedFacts DEF IInv, JobsInv, RepliesTypeOK, ServeInv
<1>00. \A job : SetJob(x, job) => jobs'[x] = job
  BY <1>0 DEF SetJob
<1>1. UNCHANGED <<sent, up, startup, missed>>
  BY DEF EnqueueReply, AcceptReply
<1>2. CASE EnqueueReply(x)
  <2> DEFINE job == [Added(jobs[x]) EXCEPT !.route = "idle"]
  <2>1. SetJob(x, job) /\ jobs[x].route = "enqueue"
    BY <1>2 DEF EnqueueReply
  <2>2. /\ job.route = "idle" /\ job.step = jobs[x].step /\ job.row = jobs[x].row
        /\ job.bull = IF jobs[x].bull = "absent" THEN "waiting" ELSE jobs[x].bull
    BY <1>0, AddedBull DEF Job
  <2> HIDE DEF job
  <2>3. ServedInv(x)'
    BY <1>0, <1>00, <1>1, <2>1, <2>2 DEF ServedInv, Served
  <2> QED  BY <1>1, <2>1, <2>3, JobServed
<1>3. CASE \E m \in Members : AcceptReply(m, x)
  <2> DEFINE job == [jobs[x] EXCEPT !.row = "queued", !.route = "enqueue"]
  <2>1. SetJob(x, job) /\ jobs[x] = NoJob /\ up
    BY <1>3 DEF AcceptReply
  <2>2. job.route = "enqueue" /\ job.step = "none" /\ job.row = "queued" /\ job.bull = "absent"
    BY <1>0, <2>1 DEF Job, NoJob
  <2>3. x \notin startup.todo /\ startup.job # x
    BY <1>0, <2>1 DEF ServedInv, NoJob
  <2> HIDE DEF job
  <2>4. ServedInv(x)'
    BY <1>0, <1>00, <1>1, <2>1, <2>2, <2>3 DEF ServedInv, Served
  <2> QED  BY <1>1, <2>1, <2>4, JobServed
<1> QED  BY <1>2, <1>3

\* The start of the process: a stuck row is listed or, without a job, passed by.
LEMMA RestartServes ==
  ASSUME IInv, ServeInv, NEW old \in SUBSET Stuck, Restart(old)
  PROVE  ServeInv'
<1>1. /\ ~up /\ up' = TRUE /\ UNCHANGED <<jobs, sent>>
      /\ startup' = [step |-> "next", todo |-> old, job |-> None]
      /\ missed' = missed \cup ((Stuck \ old) \cap Unserved)
  BY DEF Restart
<1>2. startup'.step = "next" /\ startup'.todo = old /\ startup'.job = None
  BY <1>1
<1>3. ASSUME NEW r \in Replies PROVE ServedInv(r)'
  <2>0. /\ ServedInv(r) /\ sent[r] \in Nat /\ r # None
        /\ jobs[r].bull \in {"absent", "waiting", "active", "completed", "failed"}
    BY JobFacts, RepliesAssumption DEF IInv, ServeInv, Job
  <2>1. jobs[r].step = "none" /\ jobs[r].route # "enqueue"
    BY <1>1, <2>0 DEF ServedInv
  <2>2. r \in old => jobs[r].row # "none"
    BY DEF Stuck
  <2>3. jobs[r].row \in StuckRows /\ sent[r] = 0 =>
          r \in missed' \/ r \in old \/ jobs[r].bull \in {"waiting", "active"}
    BY <1>1, <2>0 DEF ServedInv, Stuck, StuckRows, Unserved
  <2> QED  BY <1>1, <1>2, <2>0, <2>1, <2>2, <2>3 DEF ServedInv, Served
<1> QED  BY <1>2, <1>3 DEF ServeInv, HandInv

\* The death of the process.
LEMMA CrashServes ==
  ASSUME IInv, ServeInv, CrashReplies
  PROVE  ServeInv'
<1>1. up' = FALSE /\ UNCHANGED <<sent, missed>> /\ startup' = Idle
  BY DEF CrashReplies
<1>2. startup'.step = "idle" /\ startup'.todo = {} /\ startup'.job = None
  BY <1>1 DEF Idle
<1>3. ASSUME NEW r \in Replies PROVE ServedInv(r)'
  <2>1. jobs'[r] = [jobs[r] EXCEPT !.route = "idle", !.step = "none"] /\ jobs[r] \in Job
    BY JobFacts DEF CrashReplies, IInv
  <2>2. jobs'[r].route = "idle" /\ jobs'[r].step = "none" /\ jobs'[r].bull = jobs[r].bull
    BY <2>1 DEF Job
  <2>3. ServedInv(r) /\ r # None
    BY RepliesAssumption DEF ServeInv
  <2> QED  BY <1>1, <1>2, <2>2, <2>3 DEF ServedInv
<1> QED  BY <1>2, <1>3 DEF ServeInv, HandInv

\* Every step.
LEMMA NextServes == IInv /\ ServeInv /\ [Next]_vars => ServeInv'
<1> SUFFICES ASSUME IInv, ServeInv, [Next]_vars PROVE ServeInv'
  OBVIOUS
<1>1. ASSUME UNCHANGED <<jobs, sent, up, startup, missed>> PROVE ServeInv'
  BY <1>1 DEF ServeInv, ServedInv, Served, HandInv
<1>2. CASE RepliesNext
  <2>1. ASSUME NEW m \in Members, WriteLock(m) \/ \E op \in {"take", "force", "release"} : AskLock(m, op)
        PROVE  ServeInv'
    BY <1>1, <2>1 DEF WriteLock, AskLock, replyVars
  <2> QED
    BY <1>2, <2>1, RouteServes, WorkerServes, StartupServes, RestartServes DEF RepliesNext, Requests
<1>3. CASE Ingestion
  BY <1>1, <1>3 DEF Ingestion, IngestEcho, LookUpQuoted, CommitQuote, replyVars
<1>4. CASE Reconciliation
  BY <1>1, <1>4 DEF Reconciliation, Reconcile, ReconcileOnRequest, MarkGaps,
                    ConnectionChanges, ReconciliationStep, ReviewGaps, SyncFails, replyVars
<1>5. CASE Crash
  BY <1>5, CrashServes DEF Crash
<1>6. CASE UNCHANGED vars
  BY <1>1, <1>6 DEF vars, replyVars
<1> QED  BY <1>2, <1>3, <1>4, <1>5, <1>6 DEF Next

\* The safety of "no reply is lost", for any number of replies, attempts and
\* deaths: what is still to be sent always has somebody to see to it.
THEOREM NoReplyUnseen == Spec => []UnsentIsServed
<1>1. Init => ServeInv
  <2> SUFFICES ASSUME Init PROVE ServeInv
    OBVIOUS
  <2>1. /\ NoJob.step = "none" /\ NoJob.bull = "absent" /\ NoJob.route = "idle" /\ NoJob.row = "none"
        /\ startup.step = "idle" /\ startup.todo = {} /\ startup.job = None
    BY DEF NoJob, Idle, Init, RepliesInit
  <2>2. ASSUME NEW r \in Replies PROVE ServedInv(r)
    <3>1. jobs[r] = NoJob /\ r # None
      BY RepliesAssumption DEF Init, RepliesInit
    <3> QED  BY <2>1, <3>1 DEF ServedInv, StuckRows
  <2> QED  BY <2>1, <2>2 DEF ServeInv, HandInv
<1>2. ServeInv => UnsentIsServed
  BY DEF ServeInv, ServedInv, StuckRows, UnsentIsServed, Stuck
<1> QED  BY <1>1, <1>2, NextServes, Inductive, PTL DEF Spec
-----------------------------------------------------------------------------
(* Who sees to a gap *)

\* A review takes every gap that is marked; only the last reconciliation to fail,
\* or the death of the process, leaves marks that nobody is to list.
LEMMA NextWatches == IInv /\ GapIsWatched /\ [Next]_vars => GapIsWatched'
<1> SUFFICES ASSUME IInv, GapIsWatched, [Next]_vars, NEW q \in Quotes \ left',
                    quotes'[q] = "reconciling"
             PROVE  scans' # {}
  BY DEF GapIsWatched
<1>1. quotes \in [Quotes -> QuoteStates] /\ scans \subseteq Callers
  BY DEF IInv, QuotesInv
<1>2. CASE UNCHANGED <<quotes, scans, left>>
  BY <1>2 DEF GapIsWatched
<1>3. ASSUME UNCHANGED <<scans, left>>, quotes[q] = "reconciling" PROVE scans' # {}
  BY <1>3 DEF GapIsWatched
<1>4. CASE RepliesNext /\ UNCHANGED inVars
  BY <1>2, <1>4 DEF inVars
<1>5. CASE Ingestion
  <2>1. ASSUME NEW r \in Replies, NEW id \in 1..MaxSends, IngestEcho(r, id) PROVE scans' # {}
    BY <1>2, <2>1 DEF IngestEcho, inVars
  <2>2. ASSUME NEW r \in Replies, NEW id \in 1..MaxSends, NEW p \in Quotes, LookUpQuoted(p, r, id)
        PROVE  scans' # {}
    BY <1>1, <1>3, <2>2 DEF LookUpQuoted
  <2>3. ASSUME NEW p \in Quotes, CommitQuote(p) PROVE scans' # {}
    BY <1>1, <1>3, <2>3 DEF CommitQuote
  <2> QED  BY <1>5, <2>1, <2>2, <2>3 DEF Ingestion
<1>6. CASE ConnectionChanges
  BY <1>2, <1>6 DEF ConnectionChanges
<1>7. ASSUME NEW c \in Callers, MarkGaps(c) PROVE scans' # {}
  BY <1>7 DEF MarkGaps
<1>8. ASSUME NEW c \in Callers, ReviewGaps(c) PROVE scans' # {}
  <2>1. quotes' = [p \in Quotes |-> IF p \in Gaps THEN "manual_review" ELSE quotes[p]]
    BY <1>8 DEF ReviewGaps, Marked, Remaining
  <2>2. quotes[q] = "reconciling" /\ q \notin Gaps
    BY <2>1
  <2> QED  BY <2>2 DEF Gaps, OpenStates
<1>9. ASSUME NEW c \in Callers, SyncFails(c) PROVE scans' # {}
  <2>1. quotes[q] = "reconciling" /\ q \notin Abandons(c)
    BY <1>9 DEF SyncFails
  <2>2. ~(scans \subseteq {c})
    BY <2>1 DEF Abandons
  <2> QED  BY <1>9, <2>2 DEF SyncFails
<1>10. CASE Crash
  <2>1. quotes[q] = "reconciling"
    BY <1>1, <1>10 DEF Crash
  <2> QED  BY <1>10, <2>1 DEF Crash
<1>11. CASE UNCHANGED vars
  BY <1>2, <1>11 DEF vars, inVars
<1>12. "timer" \in Callers /\ "route" \in Callers
  BY DEF Callers
<1> QED
  BY <1>4, <1>5, <1>6, <1>7, <1>8, <1>9, <1>10, <1>11, <1>12
     DEF Next, Reconciliation, ReconciliationStep, Reconcile, ReconcileOnRequest

\* The safety of "a gap settles", for any quoting messages: a gap that was taken out
\* of sight of the timer is never left behind while a reconciliation goes on, and
\* never by one that reached its review.
THEOREM NoGapUnseen == Spec => []GapIsWatched
<1>1. Init => GapIsWatched
  BY DEF Init, GapIsWatched
<1> QED  BY <1>1, NextWatches, Inductive, PTL DEF Spec
=============================================================================
