---------------------------- MODULE MemoryIndex ----------------------------
(***************************************************************************)
(* The vector index of what is known about one customer: the summary of    *)
(* the customer's profile, which has a version, and one memory unit, which *)
(* has none.  Writing a memory marks both rows pending and schedules a     *)
(* reindex task for each, without waiting for the outcome; every ten       *)
(* minutes the refresh worker looks for rows that are not indexed and      *)
(* schedules them again.  A reindex reads the row, calls the embedding     *)
(* service and records the outcome, in three steps.                        *)
(*                                                                         *)
(* A task is here what TaskEngine shows of it: its key is held while it is *)
(* waiting or running and after it is published, and it runs again when its*)
(* worker dies.  Texts are their versions.  Left out: a profile whose      *)
(* summary is empty, a missing API key, what follows on a reindex task.    *)
(***************************************************************************)
EXTENDS Naturals

CONSTANTS None,
          Tasks,       \* bound: reindex tasks waiting or running at once
          MaxVersion,  \* bound: how often the profile is rebuilt
          MaxWrites,   \* bound: how often the unit is written
          MaxFaults    \* bound: lost calls and deaths of workers

ASSUME IndexAssumption == {MaxVersion, MaxWrites, MaxFaults} \subseteq Nat

VARIABLES profile, \* the row of customer_memory_profiles and its vector
          unit,    \* the row of customer_memory_units and its vector
          tasks,   \* the reindex tasks that are waiting or running
          done,    \* the scheduler keys of published tasks
          faults   \* faults so far

vars == <<profile, unit, tasks, done, faults>>

Versions == 0..MaxVersion
Writes   == 0..MaxWrites
Texts    == Versions \cup Writes
ProfileKey(v) == [of |-> "profile", version |-> v]
UnitKey == [of |-> "unit", version |-> 0]
Keys == {ProfileKey(v) : v \in Versions} \cup {UnitKey}

IndexStatus == {"none", "pending", "indexing", "indexed", "failed"}

\* due: next_retry_at is null or has passed; claimed: the lease of claimed_at;
\* vector: the text the vector store has.
Profile == [version : Versions, indexed : Versions, dirty : BOOLEAN, status : IndexStatus,
            due : BOOLEAN, claimed : BOOLEAN, vector : Texts]
Unit    == [version : Writes, status : IndexStatus, due : BOOLEAN, vector : Texts]

\* seen: the text the task has read.
Task   == [step : {"none", "queued", "read", "embedding", "embedded", "refused"},
           kind : {"profile", "unit"}, key : Keys \cup {None}, seen : Texts]
NoTask == [step |-> "none", kind |-> "profile", key |-> None, seen |-> 0]

TypeOK ==
  /\ profile \in Profile
  /\ unit \in Unit
  /\ tasks \in [Tasks -> Task]
  /\ done \subseteq Keys
  /\ faults \in 0..MaxFaults

Init ==
  /\ profile = [version |-> 0, indexed |-> 0, dirty |-> FALSE, status |-> "none",
                due |-> TRUE, claimed |-> FALSE, vector |-> 0]
  /\ unit = [version |-> 0, status |-> "none", due |-> TRUE, vector |-> 0]
  /\ tasks = [t \in Tasks |-> NoTask]
  /\ done = {}
  /\ faults = 0

Strike == faults < MaxFaults /\ faults' = faults + 1
-----------------------------------------------------------------------------
(* Scheduling *)

FreeTasks == {t \in Tasks : tasks[t].step = "none"}

KeyHeld(key) == key # None /\ (key \in done \/ \E t \in Tasks : tasks[t].step # "none" /\ tasks[t].key = key)

\* The tasks after a call of scheduleLongTask.
Scheduled(ts, kind, key) ==
  LET t == CHOOSE x \in Tasks : ts[x].step = "none" IN
    IF KeyHeld(key) THEN ts
    ELSE [ts EXCEPT ![t] = [step |-> "queued", kind |-> kind, key |-> key, seen |-> 0]]

\* "void schedule...().catch(() => null)": the call may be lost.
ScheduledOrLost(kind, key) ==
  \/ tasks' = Scheduled(tasks, kind, key) /\ UNCHANGED faults
  \/ Strike /\ UNCHANGED tasks
-----------------------------------------------------------------------------
(* Writing and refreshing *)

\* rebuildCustomerProfile; the reindex it schedules carries no version and
\* therefore no key.
RebuildProfile ==
  /\ profile.version < MaxVersion
  /\ FreeTasks # {}
  /\ profile' = [profile EXCEPT !.version = @ + 1, !.dirty = TRUE, !.status = "pending",
                                !.due = TRUE, !.claimed = FALSE]
  /\ ScheduledOrLost("profile", None)
  /\ UNCHANGED <<unit, done>>

\* upsertDerivedMemoryUnit; its callers rebuild the profile next.
WriteUnit ==
  /\ unit.version < MaxWrites
  /\ FreeTasks # {}
  /\ unit' = [unit EXCEPT !.version = @ + 1, !.status = "pending", !.due = TRUE]
  /\ ScheduledOrLost("unit", UnitKey)
  /\ UNCHANGED <<profile, done>>

\* The resolve route and the admin route ask for a reindex of the profile.
AskReindex ==
  /\ FreeTasks # {}
  /\ tasks' = Scheduled(tasks, "profile", None)
  /\ UNCHANGED <<profile, unit, done, faults>>

\* Mutant: the refresh worker looks for failed rows only.
Claimable_FailedOnly(p) == p.status = "failed" /\ p.due /\ ~p.claimed

\* The rows claimMemoryRefreshWork picks.
Claimable(p) ==
  /\ p.version > 0
  /\ p.dirty \/ p.version > p.indexed \/ p.status \in {"pending", "failed"}
  /\ p.due
  /\ ~p.claimed

\* A claimed profile is scheduled with the version the claim has read.  The
\* process may die after the claim.
ClaimProfile ==
  /\ Claimable(profile)
  /\ FreeTasks # {}
  /\ profile' = [profile EXCEPT !.claimed = TRUE]
  /\ ScheduledOrLost("profile", ProfileKey(profile.version))
  /\ UNCHANGED <<unit, done>>

PickUnit ==
  /\ unit.status \in {"pending", "failed"} /\ unit.due
  /\ FreeTasks # {}
  /\ tasks' = Scheduled(tasks, "unit", UnitKey)
  /\ UNCHANGED <<profile, unit, done, faults>>

\* Fifteen minutes after a claim it no longer counts.
ClaimLapses ==
  /\ profile.claimed
  /\ profile' = [profile EXCEPT !.claimed = FALSE]
  /\ UNCHANGED <<unit, tasks, done, faults>>

\* next_retry_at passes.
RetryDue ==
  /\ \/ ~profile.due /\ profile' = [profile EXCEPT !.due = TRUE] /\ UNCHANGED unit
     \/ ~unit.due /\ unit' = [unit EXCEPT !.due = TRUE] /\ UNCHANGED profile
  /\ UNCHANGED <<tasks, done, faults>>
-----------------------------------------------------------------------------
(* Reindexing *)

At(t, kind, step) == tasks[t].kind = kind /\ tasks[t].step = step
Goto(t, step) == tasks' = [tasks EXCEPT ![t].step = step]

\* Mutant: a task without a key leaves one behind.
Finish_AnyKey(t) ==
  /\ tasks' = [tasks EXCEPT ![t] = NoTask]
  /\ done' = done \cup {tasks[t].key}

\* The task is published; only its key is remembered.
Finish(t) ==
  /\ tasks' = [tasks EXCEPT ![t] = NoTask]
  /\ done' = done \cup ({tasks[t].key} \ {None})

\* runVectorCustomerProfileReindex: a task for another version, or for a profile
\* there is not, ends at once.
ReadProfile(t) ==
  /\ At(t, "profile", "queued")
  /\ IF profile.version > 0 /\ tasks[t].key \in {None, ProfileKey(profile.version)}
     THEN tasks' = [tasks EXCEPT ![t] = [@ EXCEPT !.step = "read", !.seen = profile.version]]
          /\ UNCHANGED done
     ELSE Finish(t)
  /\ UNCHANGED <<profile, unit, faults>>

BeginProfile(t) ==
  /\ At(t, "profile", "read")
  /\ profile' = [profile EXCEPT !.status = "indexing", !.due = TRUE]
  /\ Goto(t, "embedding")
  /\ UNCHANGED <<unit, done, faults>>

\* syncCustomerProfileVector answers false on every error of its own.
SyncProfile(t) ==
  /\ At(t, "profile", "embedding")
  /\ \/ profile' = [profile EXCEPT !.vector = tasks[t].seen] /\ Goto(t, "embedded")
     \/ UNCHANGED profile /\ Goto(t, "refused")
  /\ UNCHANGED <<unit, done, faults>>

\* Mutant: the outcome is recorded without the version.
RecordProfile_StatusOnly(t) ==
  /\ At(t, "profile", "embedded")
  /\ profile' = [profile EXCEPT !.status = "indexed", !.due = TRUE, !.claimed = FALSE]
  /\ Finish(t)
  /\ UNCHANGED <<unit, faults>>

\* indexed_version becomes the version the row has by now.
RecordProfile(t) ==
  /\ At(t, "profile", "embedded")
  /\ profile' = [profile EXCEPT !.indexed = profile.version, !.dirty = FALSE, !.status = "indexed",
                                !.due = TRUE, !.claimed = FALSE]
  /\ Finish(t)
  /\ UNCHANGED <<unit, faults>>

RefuseProfile(t) ==
  /\ At(t, "profile", "refused")
  /\ profile' = [profile EXCEPT !.status = "failed", !.due = FALSE, !.claimed = FALSE]
  /\ Finish(t)
  /\ UNCHANGED <<unit, faults>>

\* runVectorMemoryUnitReindex
ReadUnit(t) ==
  /\ At(t, "unit", "queued")
  /\ tasks' = [tasks EXCEPT ![t] = [@ EXCEPT !.step = "read", !.seen = unit.version]]
  /\ UNCHANGED <<profile, unit, done, faults>>

BeginUnit(t) ==
  /\ At(t, "unit", "read")
  /\ unit' = [unit EXCEPT !.status = "indexing", !.due = TRUE]
  /\ Goto(t, "embedding")
  /\ UNCHANGED <<profile, done, faults>>

SyncUnit(t) ==
  /\ At(t, "unit", "embedding")
  /\ \/ unit' = [unit EXCEPT !.vector = tasks[t].seen] /\ Goto(t, "embedded")
     \/ UNCHANGED unit /\ Goto(t, "refused")
  /\ UNCHANGED <<profile, done, faults>>

RecordUnit(t) ==
  /\ At(t, "unit", "embedded")
  /\ unit' = [unit EXCEPT !.status = "indexed", !.due = TRUE]
  /\ Finish(t)
  /\ UNCHANGED <<profile, faults>>

RefuseUnit(t) ==
  /\ At(t, "unit", "refused")
  /\ unit' = [unit EXCEPT !.status = "failed", !.due = FALSE]
  /\ Finish(t)
  /\ UNCHANGED <<profile, faults>>

\* The worker dies; BullMQ runs the job again from its start.
WorkerDies(t) ==
  /\ tasks[t].step \notin {"none", "queued"}
  /\ Strike
  /\ Goto(t, "queued")
  /\ UNCHANGED <<profile, unit, done>>

WorkerStep(t) ==
  \/ ReadProfile(t) \/ BeginProfile(t) \/ SyncProfile(t) \/ RecordProfile(t) \/ RefuseProfile(t)
  \/ ReadUnit(t) \/ BeginUnit(t) \/ SyncUnit(t) \/ RecordUnit(t) \/ RefuseUnit(t)

Next ==
  \/ RebuildProfile \/ WriteUnit \/ AskReindex
  \/ ClaimProfile \/ PickUnit \/ ClaimLapses \/ RetryDue
  \/ \E t \in Tasks : WorkerStep(t) \/ WorkerDies(t)

Spec == Init /\ [][Next]_vars

\* The task workers run, the refresh worker looks every ten minutes, leases and
\* retry times pass.
FairSpec ==
  /\ Spec
  /\ \A t \in Tasks : WF_vars(WorkerStep(t))
  /\ SF_vars(ClaimProfile) /\ SF_vars(PickUnit) /\ WF_vars(ClaimLapses) /\ WF_vars(RetryDue)
-----------------------------------------------------------------------------
(* Properties *)

\* A profile that reads as indexed is at rest: its version is the indexed one and
\* nothing is left for the refresh worker, whatever overlapped with the reindex.
IndexedIsSettled ==
  profile.status = "indexed" =>
    profile.indexed = profile.version /\ ~profile.dirty /\ ~Claimable(profile)

\* The profile has changed since it was indexed.
Owing == profile.dirty \/ profile.version > profile.indexed

\* A rebuilt profile is indexed or refused in the end, under the version it has by
\* then, though the call that was to schedule its reindex was lost or a worker
\* died.  The exception is a version the refresh worker has had its attempt at:
\* a published task keeps its key, so that version is claimed again and again
\* but not scheduled, whatever another task left in the row's status since.
PendingIsServed ==
  Owing ~> \/ ~Owing
           \/ profile.status = "failed"
           \/ ProfileKey(profile.version) \in done
=============================================================================
