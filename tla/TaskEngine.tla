----------------------------- MODULE TaskEngine -----------------------------
(***************************************************************************)
(* What the task worker makes of a task: it executes it, schedules the     *)
(* postprocessing of its result as a task of its own, publishes the row and*)
(* tells the conversation.  The postprocessing of a customer's task        *)
(* schedules in turn the task that encodes the outcome as memories.        *)
(*                                                                         *)
(* Kinds: "work" has a conversation and a customer (script executions);    *)
(* "archive" is ai_execution_archive; "encode" stands for the two          *)
(* memory_encode types; "review" is qa_ai_review_generate, which has no    *)
(* conversation; "post" is task_result_postprocess.                        *)
(***************************************************************************)
EXTENDS TaskScheduling

CONSTANT ClientKeys,  \* keys that clients give; None stands for no key
         ClientKinds, \* the kinds that clients schedule
         RequestRoom  \* bound: ids that must be free for a client to call

VARIABLE told         \* what the conversation has been told of a task

vars == <<rows, jobs, calls, struck, faults, told>>

\* The customer's reply, and the system messages of publishTaskResult and
\* publishTaskFailure.
Messages == {"reply", "result", "failure"}

TaskKinds == {"work", "archive", "encode", "review", "post"}
PostKey(t)   == [of |-> "post", task |-> t]
MemoryKey(t) == [of |-> "memory", task |-> t]
DerivedKeys  == [of : {"post", "memory"}, task : Tasks]

ASSUME EngineAssumption ==
  /\ Kinds = TaskKinds
  /\ Keys = (ClientKeys \ {None}) \cup DerivedKeys
  /\ ClientKeys \cap DerivedKeys = {}
  /\ ClientKinds \subseteq {"work", "archive", "encode", "review"}
  /\ RequestRoom \in Nat

TypeOK ==
  /\ SchedulingTypeOK
  /\ told \in [Tasks -> SUBSET Messages]

Init ==
  /\ SchedulingInit
  /\ told = [t \in Tasks |-> {}]

\* A client schedules a task of its own.
Request(c) ==
  /\ calls[c].stage = "idle" /\ Cardinality(FreeTasks) >= RequestRoom
  /\ \E kind \in ClientKinds, key \in ClientKeys : calls' = Calling(c, kind, key, None)
  /\ UNCHANGED <<rows, jobs, struck, faults, told>>

(***************************************************************************)
(* executeLongTask, up to the task it schedules next.  A job whose row is  *)
(* gone throws, and so does a postprocessing whose task's row is gone: the *)
(* artifacts it inserts refer to that row.  So may the model, the script   *)
(* or a statement.                                                         *)
(***************************************************************************)
FollowUp(t) ==
  CASE rows[t].kind \in {"work", "archive", "encode"} -> [kind |-> "post", key |-> PostKey(t)]
    [] rows[t].kind = "post" /\ rows[rows[t].source].kind = "work" ->
         [kind |-> "encode", key |-> MemoryKey(rows[t].source)]
    [] OTHER -> [kind |-> None, key |-> None]

Execute(t) ==
  /\ At(t, "execute")
  /\ ~Gone(t)
  /\ rows[t].kind = "post" => ~Gone(rows[t].source)
  /\ IF FollowUp(t).kind = None
     THEN Goto(t, "publish") /\ UNCHANGED calls
     ELSE /\ Goto(t, "schedule")
          /\ calls' = Calling(t, FollowUp(t).kind, FollowUp(t).key, t)
  /\ UNCHANGED <<rows, struck, faults, told>>

ExecuteThrows(t) ==
  /\ At(t, "execute")
  /\ Throw(t)
  /\ UNCHANGED <<rows, calls, struck, faults, told>>

Tell(t, message) == told' = [told EXCEPT ![t] = @ \cup {message}]

\* publishTaskResult: a script's result is sent to the customer first.  Other kinds
\* have nothing to tell, and nobody is told of a row that is gone.
Announce(t) ==
  /\ At(t, "announce")
  /\ IF rows[t].kind = "work" /\ ~Gone(t)
     THEN Goto(t, "message") /\ Tell(t, "reply")
     ELSE Goto(t, "complete") /\ UNCHANGED told
  /\ UNCHANGED <<rows, calls, struck, faults>>

\* The message of the conversation, in a transaction of its own.
WriteMessage(t) ==
  /\ At(t, "message")
  /\ Goto(t, "complete")
  /\ Tell(t, "result")
  /\ UNCHANGED <<rows, calls, struck, faults>>

\* Either throws, before or after what it does; so may the statements that follow.
AnnounceThrows(t) ==
  /\ Strike
  /\ At(t, "announce") \/ At(t, "message")
  /\ Throw(t)
  /\ \/ UNCHANGED told
     \/ At(t, "announce") /\ rows[t].kind = "work" /\ ~Gone(t) /\ Tell(t, "reply")
     \/ At(t, "message") /\ Tell(t, "result")
  /\ UNCHANGED <<rows, calls, struck>>

\* publishTaskFailure: it tells every conversation there is, and nothing when
\* the row is gone.
Apologise(t) ==
  /\ At(t, "apologise")
  /\ Goto(t, "rethrow")
  /\ IF Gone(t) \/ rows[t].kind = "review" THEN UNCHANGED told ELSE Tell(t, "failure")
  /\ UNCHANGED <<rows, calls, struck, faults>>

WorkerStep(t) ==
  \/ (Start(t) \/ Publish(t) \/ Complete(t) \/ Catch(t) \/ Rethrow(t)) /\ UNCHANGED told
  \/ Execute(t) \/ ExecuteThrows(t) \/ Announce(t) \/ WriteMessage(t) \/ Apologise(t)

CallStep(c) == (LookUp(c) \/ InsertRow(c) \/ AddJob(c) \/ DeleteRow(c)) /\ UNCHANGED told

Fault ==
  /\ \/ \E t \in Tasks : StartFails(t) \/ CatchFails(t) \/ WorkerDies(t)
     \/ \E c \in Callers : AddJobThrows(c) \/ DeleteFails(c)
     \/ \E c \in Clients : ClientDies(c)
  /\ UNCHANGED told

Next ==
  \/ \E c \in Clients : Request(c)
  \/ \E c \in Callers : CallStep(c)
  \/ \E t \in Tasks : WorkerStep(t)
  \/ \E t \in Tasks : AnnounceThrows(t)
  \/ Fault

Spec == Init /\ [][Next]_vars

\* The task workers and BullMQ's stall check keep running.
FairSpec == Spec /\ \A t \in Tasks : WF_vars(WorkerStep(t) \/ CallStep(t))
-----------------------------------------------------------------------------
(* Properties *)

\* The row and BullMQ's job agree.  A row that says queued or running has a job
\* that will run, or a caller that is adding one or taking the row back, and a job
\* that has ended has left its row published or failed, or gone, unless a death or a
\* failed statement came between (async_tasks and the queue share no transaction).
RowFollowsJob ==
  \A t \in Tasks \ struck :
    /\ rows[t].status \in LiveStatuses =>
         \/ jobs[t].state \in {"waiting", "active"}
         \/ \E c \in Callers : calls[c].stage \in {"add", "delete"} /\ calls[c].task = t
    /\ jobs[t].state = "completed" => rows[t].status \in {"published", "none"}
    /\ jobs[t].state = "failed" => rows[t].status \in {"failed", "none"}

\* The tasks that have a key and that no death has put beside another.
Holders(k) ==
  {t \in Tasks : rows[t].key = k /\ rows[t].status \in HoldingStatuses /\ jobs[t].stalls = 0}

\* The memories of a result are encoded by its postprocessing, which another one
\* may run beside once its worker has died or its row was deleted under it.
Doubled(k) ==
  k.of = "memory" /\ \E p \in Tasks : rows[p].key = PostKey(k.task) /\ (jobs[p].stalls > 0 \/ Gone(p))

\* A task that is run again, after an error or a death, does not postprocess its
\* result or encode its memories twice: at most one row that is waiting,
\* running or published has a derived key.  A task whose worker died may be
\* running again though its row had been marked failed, beside the one that took
\* its key: it is not counted, and where it is a postprocessing, the memories may
\* be encoded twice; so they may where its row was deleted though its job ran.
OneTaskPerDerivedKey ==
  \A k \in DerivedKeys : Doubled(k) \/ Cardinality(Holders(k)) <= 1

\* A result that is published has its postprocessing scheduled: artifacts and
\* memories come from it alone.
PublishedIsPostprocessed ==
  \A t \in Tasks :
    rows[t].status = "published" /\ rows[t].kind \in {"work", "archive", "encode"} =>
      \E p \in Tasks : rows[p].key = PostKey(t) /\ ~Gone(p)

\* Once the conversation has been told that a task failed, it is told nothing more
\* of it and the row is not taken back to work, unless the worker died: the worker
\* counts the attempts for the message, BullMQ for the retry.  The other order
\* happens: a result that was sent is followed by the failure when a later statement
\* of the last attempt throws.
FailureIsLastWord ==
  [][\A t \in Tasks : "failure" \in told[t] /\ jobs[t].stalls = 0 =>
       told'[t] = told[t] /\ rows'[t].status \in {"failed", "none"}]_vars

\* Bound: a worker waits for an id only because the model has few.
OutOfIds == FreeTasks = {} /\ \E t \in Tasks : calls[t].stage = "insert"

\* A task whose job is on the queue ends published or failed: the attempts run
\* out and one death is made good, unless a second death or a failed statement
\* left it without a record.
EveryTaskSettles ==
  \A t \in Tasks :
    jobs[t].state = "waiting" ~>
      \/ jobs[t].state \in {"completed", "failed"} /\ rows[t].status \in {"published", "failed", "none"}
      \/ t \in struck \/ OutOfIds

\* How many steps a task has at most to the end of this attempt, and to its end:
\* every failure and every death that is left to it starts it over.
StepsAhead(job, call) ==
  CASE job.step = "none"      -> 13
    [] job.step = "execute"   -> 12
    [] job.step = "schedule"  -> (CASE call.stage = "lookup" -> 11
                                    [] call.stage = "insert" -> 10
                                    [] call.stage = "add"    -> 9
                                    [] OTHER                 -> 8)
    [] job.step = "publish"   -> 7
    [] job.step = "announce"  -> 6
    [] job.step = "message"   -> 5
    [] job.step = "complete"  -> 4
    [] job.step = "catch"     -> 3
    [] job.step = "apologise" -> 2
    [] job.step = "rethrow"   -> 1

Remaining(job, call) ==
  IF job.state \in {"waiting", "active"}
  THEN 14 * ((Attempts - job.failures) + (2 - job.stalls)) + StepsAhead(job, call)
  ELSE 0

\* No step leads a task back: a throw, a failed statement or a death costs one of
\* the attempts and restarts that BullMQ grants it, a call it makes never touches
\* a job that is there already, and a job that has ended is never run again.
TasksDescend ==
  [][\A t \in Tasks :
       jobs[t].state # "none" /\ (jobs'[t] # jobs[t] \/ calls'[t] # calls[t]) =>
         Remaining(jobs'[t], calls'[t]) \in 0..(Remaining(jobs[t], calls[t]) - 1)]_vars
=============================================================================
