--------------------------- MODULE TaskScheduling ---------------------------
(***************************************************************************)
(* Asynchronous tasks: a row of async_tasks, a BullMQ job under the row's  *)
(* id, and the worker that runs the job.  scheduleLongTask looks a         *)
(* scheduler key up, inserts the row and adds the job, in three steps: the *)
(* key has no unique index and the queue is not part of the transaction.   *)
(* The worker keeps the row's status beside BullMQ's own account of the    *)
(* job: both count attempts, and either side may miss what the other saw.  *)
(*                                                                         *)
(* What a task does between its start and its publication is left to the   *)
(* modules that extend this one.  Payloads, artifacts and priorities are   *)
(* not part of the state, and the script queue is the background queue.    *)
(***************************************************************************)
EXTENDS Naturals, FiniteSets

CONSTANTS None,
          Tasks,          \* bound: ids of task rows
          Clients,        \* callers of scheduleLongTask other than task workers
          Kinds,          \* task types
          Keys,           \* scheduler keys
          Attempts,       \* opts.attempts of the jobs (3 in the code)
          MaxFaults       \* bound: deaths of processes, failed statements and
                          \* failed calls of queue.add

ASSUME SchedulingAssumption ==
  /\ Attempts \in Nat \ {0}
  /\ None \notin Tasks \cup Keys \cup Kinds
  /\ Tasks \cap Clients = {}
  /\ MaxFaults \in Nat

VARIABLES rows,   \* async_tasks
          jobs,   \* BullMQ's jobs, and how far the worker is
          calls,  \* calls of scheduleLongTask in progress
          struck, \* history: tasks a death or an error left without a record
          faults  \* faults so far

schedulingVars == <<rows, jobs, calls, struck, faults>>

Callers == Tasks \cup Clients

\* A row that is gone has the status "none"; one that its job has outlived keeps here
\* what it said, which no step reads.  The holding statuses make scheduleLongTask
\* return the row that exists.
LiveStatuses    == {"queued", "running"}
HoldingStatuses == LiveStatuses \cup {"published"}

Row  == [status : HoldingStatuses \cup {"none", "failed"},
         kind : Kinds \cup {None}, key : Keys \cup {None}, source : Tasks \cup {None}]
Job  == [state : {"none", "waiting", "active", "completed", "failed"},
         failures : 0..Attempts, stalls : 0..2,
         step : {"none", "execute",
                 "schedule", "publish", "announce", "message", "complete",
                 "catch", "apologise", "rethrow"}]
Call == [stage : {"idle", "lookup", "insert", "add", "delete"},
         kind : Kinds \cup {None}, key : Keys \cup {None}, source : Tasks \cup {None},
         task : Tasks \cup {None}]

NoRow  == [status |-> "none", kind |-> None, key |-> None, source |-> None]
NoJob  == [state |-> "none", failures |-> 0, stalls |-> 0, step |-> "none"]
NoCall == [stage |-> "idle", kind |-> None, key |-> None, source |-> None, task |-> None]

SchedulingTypeOK ==
  /\ rows \in [Tasks -> Row]
  /\ jobs \in [Tasks -> Job]
  /\ calls \in [Callers -> Call]
  /\ struck \subseteq Tasks
  /\ faults \in 0..MaxFaults

SchedulingInit ==
  /\ rows = [t \in Tasks |-> NoRow]
  /\ jobs = [t \in Tasks |-> NoJob]
  /\ calls = [c \in Callers |-> NoCall]
  /\ struck = {}
  /\ faults = 0

Strike == faults < MaxFaults /\ faults' = faults + 1

\* Bound: an insert is only taken while an id is left.
FreeTasks == {t \in Tasks : rows[t] = NoRow /\ jobs[t] = NoJob}

Gone(t) == rows[t].status = "none"

At(t, step) == jobs[t].state = "active" /\ jobs[t].step = step
Goto(t, step) == jobs' = [jobs EXCEPT ![t].step = step]
-----------------------------------------------------------------------------
(* scheduleLongTask *)

Calling(c, kind, key, source) ==
  [calls EXCEPT ![c] = [NoCall EXCEPT !.stage = "lookup", !.kind = kind,
                                      !.key = key, !.source = source]]

\* A worker that has its answer goes on to publish; one whose call threw is in
\* its catch block.  A client just returns.
Resumed(c, step) == IF c \in Tasks THEN [jobs EXCEPT ![c].step = step] ELSE jobs

\* Mutant: a published task no longer answers for its key.
KeyHeld_LiveOnly(key) ==
  key # None /\ \E t \in Tasks : rows[t].key = key /\ rows[t].status \in LiveStatuses

KeyHeld(key) ==
  key # None /\ \E t \in Tasks : rows[t].key = key /\ rows[t].status \in HoldingStatuses

LookUp(c) ==
  /\ calls[c].stage = "lookup"
  /\ IF KeyHeld(calls[c].key)
     THEN calls' = [calls EXCEPT ![c] = NoCall] /\ jobs' = Resumed(c, "publish")
     ELSE calls' = [calls EXCEPT ![c].stage = "insert"] /\ UNCHANGED jobs
  /\ UNCHANGED <<rows, struck, faults>>

InsertRow(c) ==
  /\ calls[c].stage = "insert"
  /\ FreeTasks # {}
  /\ LET t == CHOOSE x \in FreeTasks : TRUE IN
       /\ rows' = [rows EXCEPT ![t] = [status |-> "queued", kind |-> calls[c].kind,
                                       key |-> calls[c].key, source |-> calls[c].source]]
       /\ calls' = [calls EXCEPT ![c] = [@ EXCEPT !.stage = "add", !.task = t]]
  /\ UNCHANGED <<jobs, struck, faults>>

AddJob(c) ==
  /\ calls[c].stage = "add"
  /\ jobs' = [Resumed(c, "publish") EXCEPT ![calls[c].task] = [NoJob EXCEPT !.state = "waiting"]]
  /\ calls' = [calls EXCEPT ![c] = NoCall]
  /\ UNCHANGED <<rows, struck, faults>>

\* queue.add throws, and the job may have reached Redis all the same.
AddJobThrows(c) ==
  /\ Strike
  /\ calls[c].stage = "add"
  /\ calls' = [calls EXCEPT ![c].stage = "delete"]
  /\ \/ UNCHANGED jobs
     \/ jobs' = [jobs EXCEPT ![calls[c].task] = [NoJob EXCEPT !.state = "waiting"]]
  /\ UNCHANGED <<rows, struck>>

Deleted(t) ==
  [rows EXCEPT ![t] = IF jobs[t] = NoJob THEN NoRow ELSE [@ EXCEPT !.status = "none"]]

\* Mutant: the row of a job that was not added is deleted, the error swallowed.
DeleteRow_Swallowed(c) ==
  /\ calls[c].stage = "delete"
  /\ rows' = Deleted(calls[c].task)
  /\ jobs' = Resumed(c, "publish")
  /\ calls' = [calls EXCEPT ![c] = NoCall]
  /\ UNCHANGED <<struck, faults>>

\* The row is deleted, however far the job has come by then, and the error thrown
\* again.
DeleteRow(c) ==
  /\ calls[c].stage = "delete"
  /\ rows' = Deleted(calls[c].task)
  /\ jobs' = Resumed(c, "catch")
  /\ calls' = [calls EXCEPT ![c] = NoCall]
  /\ UNCHANGED <<struck, faults>>

\* A row that is left without a job when the call of c ends here.
Left(c) ==
  IF calls[c].stage \in {"add", "delete"} /\ jobs[calls[c].task] = NoJob
  THEN {calls[c].task} ELSE {}

\* The delete fails too: its error is the one thrown.
DeleteFails(c) ==
  /\ Strike
  /\ calls[c].stage = "delete"
  /\ jobs' = Resumed(c, "catch")
  /\ calls' = [calls EXCEPT ![c] = NoCall]
  /\ struck' = struck \cup Left(c)
  /\ UNCHANGED rows
-----------------------------------------------------------------------------
(* The worker: what every task goes through. *)

\* An update by task id changes nothing when the row is gone.
Marked(t, status) ==
  IF Gone(t) THEN rows ELSE [rows EXCEPT ![t].status = status]

Start(t) ==
  /\ jobs[t].state = "waiting"
  /\ jobs' = [jobs EXCEPT ![t] = [@ EXCEPT !.state = "active", !.step = "execute"]]
  /\ rows' = Marked(t, "running")
  /\ UNCHANGED <<calls, struck, faults>>

\* job.attemptsMade + 1 >= attempts; attemptsMade counts the failed attempts.
Final_TooLate(t) == jobs[t].failures >= Attempts
Final_TooEarly(t) == jobs[t].failures + 2 >= Attempts

Final(t) == jobs[t].failures + 1 >= Attempts

\* Mutant: BullMQ retries for ever.
Failed_NoLimit(t) ==
  [jobs EXCEPT ![t] = [@ EXCEPT !.failures = jobs[t].failures + 1, !.step = "none", !.state = "waiting"]]

\* BullMQ counts the failure, and retries the job or gives it up by its own count.
Failed(t) ==
  [jobs EXCEPT ![t] = [@ EXCEPT !.failures = jobs[t].failures + 1, !.step = "none",
                                !.state = IF jobs[t].failures + 1 < Attempts
                                          THEN "waiting" ELSE "failed"]]

\* No attempt is left to put right what an error has left unrecorded.
Unrecorded(t) == IF jobs[t].failures + 1 < Attempts THEN {} ELSE {t}

\* The update to "running" stands before the try: its failure is not recorded.
StartFails(t) ==
  /\ Strike
  /\ jobs[t].state = "waiting"
  /\ jobs' = Failed(t)
  /\ struck' = struck \cup Unrecorded(t)
  /\ UNCHANGED <<rows, calls>>

Throw(t) == Goto(t, "catch")

Publish(t) ==
  /\ At(t, "publish")
  /\ rows' = Marked(t, "published")
  /\ Goto(t, "announce")
  /\ UNCHANGED <<calls, struck, faults>>

Complete(t) ==
  /\ At(t, "complete")
  /\ jobs' = [jobs EXCEPT ![t] = [@ EXCEPT !.state = "completed", !.step = "none"]]
  /\ UNCHANGED <<rows, calls, struck, faults>>

\* Mutant: a failure that is not the last is not thrown again.
Catch_Swallows(t) ==
  /\ At(t, "catch")
  /\ rows' = Marked(t, IF Final(t) THEN "failed" ELSE "queued")
  /\ Goto(t, IF Final(t) THEN "apologise" ELSE "complete")
  /\ UNCHANGED <<calls, struck, faults>>

Catch(t) ==
  /\ At(t, "catch")
  /\ rows' = Marked(t, IF Final(t) THEN "failed" ELSE "queued")
  /\ Goto(t, IF Final(t) THEN "apologise" ELSE "rethrow")
  /\ UNCHANGED <<calls, struck, faults>>

\* The catch block's own update fails.
CatchFails(t) ==
  /\ Strike
  /\ At(t, "catch")
  /\ Goto(t, "rethrow")
  /\ struck' = struck \cup Unrecorded(t)
  /\ UNCHANGED <<rows, calls>>

Rethrow(t) ==
  /\ At(t, "rethrow")
  /\ jobs' = Failed(t)
  /\ UNCHANGED <<rows, calls, struck, faults>>

(***************************************************************************)
(* The process that runs c dies.  A row it had inserted and not yet queued *)
(* stays.  BullMQ runs the job of a dead worker once more; the second time *)
(* it gives the job up, and the catch block never runs.                    *)
(***************************************************************************)
WorkerDies(t) ==
  /\ Strike
  /\ jobs[t].state = "active"
  /\ jobs' = [jobs EXCEPT ![t] = [@ EXCEPT !.stalls = jobs[t].stalls + 1, !.step = "none",
                                  !.state = IF jobs[t].stalls = 0
                                            THEN "waiting" ELSE "failed"]]
  /\ calls' = [calls EXCEPT ![t] = NoCall]
  /\ struck' = struck \cup Left(t) \cup (IF jobs[t].stalls = 0 THEN {} ELSE {t})
  /\ UNCHANGED rows

ClientDies(c) ==
  /\ Strike
  /\ calls[c].stage # "idle"
  /\ calls' = [calls EXCEPT ![c] = NoCall]
  /\ struck' = struck \cup Left(c)
  /\ UNCHANGED <<rows, jobs>>
=============================================================================
