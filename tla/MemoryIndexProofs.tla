------------------------- MODULE MemoryIndexProofs -------------------------
(***************************************************************************)
(* Theorems about MemoryIndex, for any number of tasks, versions, writes   *)
(* and faults.                                                             *)
(*                                                                         *)
(* IndexedIsSettled needs the shape of the profile row and nothing else: a *)
(* row becomes indexed in one update, which also settles it, and whatever  *)
(* unsettles it makes it pending in the same update.  That this is so of   *)
(* rows, and not of the texts behind them, is why lost updates of the      *)
(* vector are not excluded by it.                                          *)
(***************************************************************************)
EXTENDS MemoryIndex, TLAPS

\* The invariant.
IInv == TypeOK /\ IndexedIsSettled

\* A settled row is not claimable.
Settled(p) == p.status = "indexed" => p.indexed = p.version /\ ~p.dirty

\* On profile rows, to be settled is all that IndexedIsSettled asks.
LEMMA SettledIsEnough ==
  ASSUME NEW p \in Profile, Settled(p), p.status = "indexed"
  PROVE  ~Claimable(p)
<1>1. p.indexed = p.version /\ ~p.dirty /\ p.version \in Nat
  BY IndexAssumption DEF Settled, Profile, Versions
<1> QED  BY <1>1 DEF Claimable

\* A step that replaces the profile row by a settled one keeps the invariant.
LEMMA SettledKept ==
  ASSUME profile' \in Profile, Settled(profile')
  PROVE  IndexedIsSettled'
BY SettledIsEnough DEF IndexedIsSettled, Settled

\* Keys the scheduler is given are keys.
LEMMA KeysTyped ==
  /\ UnitKey \in Keys
  /\ \A v \in Versions : ProfileKey(v) \in Keys
BY DEF Keys

\* A scheduling call keeps the tasks well formed.
LEMMA ScheduledTyped ==
  ASSUME TypeOK, FreeTasks # {}, NEW kind \in {"profile", "unit"}, NEW key \in Keys \cup {None}
  PROVE  Scheduled(tasks, kind, key) \in [Tasks -> Task]
<1>0. 0 \in Texts
  <2>1. MaxVersion \in Nat  BY IndexAssumption
  <2> QED  BY <2>1 DEF Versions, Texts
<1> DEFINE t == CHOOSE x \in Tasks : tasks[x].step = "none"
           new == [step |-> "queued", kind |-> kind, key |-> key, seen |-> 0]
<1>1. tasks \in [Tasks -> Task]  BY DEF TypeOK
<1>2. t \in Tasks  BY DEF FreeTasks
<1>3. new \in Task
  BY <1>0 DEF Task
<1>4. Scheduled(tasks, kind, key) \in {tasks, [tasks EXCEPT ![t] = new]}
  BY DEF Scheduled
<1> HIDE DEF t, new
<1> QED  BY <1>1, <1>2, <1>3, <1>4

\* Moving a task on keeps the tasks well formed, and so does ending one.
LEMMA GotoTyped ==
  ASSUME TypeOK, NEW t \in Tasks,
         NEW step \in {"none", "queued", "read", "embedding", "embedded", "refused"}, Goto(t, step)
  PROVE  tasks' \in [Tasks -> Task]
<1>1. tasks \in [Tasks -> Task]  BY DEF TypeOK
<1>2. [tasks[t] EXCEPT !.step = step] \in Task
  BY <1>1 DEF Task
<1>3. tasks' = [tasks EXCEPT ![t] = [tasks[t] EXCEPT !.step = step]]
  BY DEF Goto
<1> QED  BY <1>1, <1>2, <1>3

\* See GotoTyped; the key of a task is a key or None.
LEMMA FinishTyped ==
  ASSUME TypeOK, NEW t \in Tasks, Finish(t)
  PROVE  tasks' \in [Tasks -> Task] /\ done' \subseteq Keys
<1>1. tasks \in [Tasks -> Task] /\ done \subseteq Keys  BY DEF TypeOK
<1>2. NoTask \in Task
  BY IndexAssumption DEF NoTask, Task, Versions, Texts
<1>3. tasks[t].key \in Keys \cup {None}
  BY <1>1 DEF Task
<1> QED  BY <1>1, <1>2, <1>3 DEF Finish

\* A lost or made scheduling call, as seen by the bounds.
LEMMA ScheduledOrLostTyped ==
  ASSUME TypeOK, FreeTasks # {}, NEW kind \in {"profile", "unit"}, NEW key \in Keys \cup {None},
         ScheduledOrLost(kind, key)
  PROVE  tasks' \in [Tasks -> Task] /\ faults' \in 0..MaxFaults
<1>1. tasks \in [Tasks -> Task] /\ faults \in 0..MaxFaults  BY DEF TypeOK
<1> QED  BY <1>1, ScheduledTyped, IndexAssumption DEF ScheduledOrLost, Strike

\* The initial rows.
LEMMA InvInit == Init => IInv
<1> SUFFICES ASSUME Init PROVE IInv
  OBVIOUS
<1>1. profile \in Profile /\ unit \in Unit
  BY IndexAssumption DEF Init, Profile, Unit, Versions, Writes, Texts, IndexStatus
<1>2. NoTask \in Task
  BY IndexAssumption DEF NoTask, Task, Versions, Texts
<1>3. TypeOK
  BY <1>1, <1>2, IndexAssumption DEF Init, TypeOK
<1> QED  BY <1>3 DEF IInv, Init, IndexedIsSettled

-----------------------------------------------------------------------------
(* Writing and refreshing *)

\* Rebuilding, writing, asking, claiming, picking, lapsing, becoming due.
LEMMA RefreshKeeps ==
  ASSUME IInv,
         \/ RebuildProfile \/ WriteUnit \/ AskReindex
         \/ ClaimProfile \/ PickUnit \/ ClaimLapses \/ RetryDue
  PROVE  IInv'
<1> USE IndexAssumption
<1>1. TypeOK /\ IndexedIsSettled /\ profile \in Profile /\ unit \in Unit
      /\ tasks \in [Tasks -> Task] /\ done \subseteq Keys /\ faults \in 0..MaxFaults
  BY DEF IInv, TypeOK
<1>2. CASE RebuildProfile
  <2>1. profile' = [profile EXCEPT !.version = profile.version + 1, !.dirty = TRUE,
                                   !.status = "pending", !.due = TRUE, !.claimed = FALSE]
        /\ profile.version < MaxVersion
    BY <1>2 DEF RebuildProfile
  <2>2. profile.version + 1 \in Versions
    BY <1>1, <2>1 DEF Profile, Versions
  <2>3. profile' \in Profile /\ profile'.status = "pending"
    BY <1>1, <2>1, <2>2 DEF Profile, IndexStatus
  <2>4. tasks' \in [Tasks -> Task] /\ faults' \in 0..MaxFaults
    BY <1>1, <1>2, ScheduledOrLostTyped DEF RebuildProfile
  <2> QED  BY <1>1, <1>2, <2>3, <2>4, SettledKept DEF IInv, TypeOK, RebuildProfile, Settled
<1>3. CASE WriteUnit
  <2>1. unit' = [unit EXCEPT !.version = unit.version + 1, !.status = "pending", !.due = TRUE]
        /\ unit.version < MaxWrites
    BY <1>3 DEF WriteUnit
  <2>2. unit.version + 1 \in Writes
    BY <1>1, <2>1 DEF Unit, Writes
  <2>3. unit' \in Unit
    BY <1>1, <2>1, <2>2 DEF Unit, IndexStatus
  <2>4. tasks' \in [Tasks -> Task] /\ faults' \in 0..MaxFaults
    BY <1>1, <1>3, ScheduledOrLostTyped, KeysTyped DEF WriteUnit
  <2> QED  BY <1>1, <1>3, <2>3, <2>4 DEF IInv, TypeOK, WriteUnit, IndexedIsSettled
<1>4. CASE AskReindex
  <2>1. tasks' \in [Tasks -> Task]
    BY <1>1, <1>4, ScheduledTyped DEF AskReindex
  <2> QED  BY <1>1, <1>4, <2>1 DEF IInv, TypeOK, AskReindex, IndexedIsSettled
<1>5. CASE PickUnit
  <2>1. tasks' \in [Tasks -> Task]
    BY <1>1, <1>5, ScheduledTyped, KeysTyped DEF PickUnit
  <2> QED  BY <1>1, <1>5, <2>1 DEF IInv, TypeOK, PickUnit, IndexedIsSettled
<1>6. CASE ClaimProfile
  <2>1. profile' = [profile EXCEPT !.claimed = TRUE] /\ Claimable(profile)
    BY <1>6 DEF ClaimProfile
  <2>2. profile' \in Profile /\ profile'.status # "indexed"
    BY <1>1, <2>1 DEF Profile, IndexedIsSettled
  <2>3. ProfileKey(profile.version) \in Keys
    BY <1>1, KeysTyped DEF Profile
  <2>4. tasks' \in [Tasks -> Task] /\ faults' \in 0..MaxFaults
    BY <1>1, <1>6, <2>3, ScheduledOrLostTyped DEF ClaimProfile
  <2> QED  BY <1>1, <1>6, <2>2, <2>4, SettledKept DEF IInv, TypeOK, ClaimProfile, Settled
<1>7. CASE ClaimLapses
  <2>1. profile' = [profile EXCEPT !.claimed = FALSE]
    BY <1>7 DEF ClaimLapses
  <2>2. profile' \in Profile /\ Settled(profile')
    BY <1>1, <2>1 DEF Profile, IndexedIsSettled, Settled
  <2> QED  BY <1>1, <1>7, <2>2, SettledKept DEF IInv, TypeOK, ClaimLapses
<1>8. CASE RetryDue
  <2>1. profile' \in {profile, [profile EXCEPT !.due = TRUE]} /\ unit' \in {unit, [unit EXCEPT !.due = TRUE]}
    BY <1>8 DEF RetryDue
  <2>2. profile' \in Profile /\ Settled(profile') /\ unit' \in Unit
    BY <1>1, <2>1 DEF Profile, Unit, IndexedIsSettled, Settled
  <2> QED  BY <1>1, <1>8, <2>2, SettledKept DEF IInv, TypeOK, RetryDue
<1> QED  BY <1>2, <1>3, <1>4, <1>5, <1>6, <1>7, <1>8

-----------------------------------------------------------------------------
(* Reindexing *)

\* The steps of a reindex of the profile.
LEMMA ProfileTaskKeeps ==
  ASSUME IInv, NEW t \in Tasks,
         ReadProfile(t) \/ BeginProfile(t) \/ SyncProfile(t) \/ RecordProfile(t) \/ RefuseProfile(t)
  PROVE  IInv'
<1> USE IndexAssumption
<1>1. TypeOK /\ IndexedIsSettled /\ profile \in Profile /\ unit \in Unit
      /\ tasks \in [Tasks -> Task] /\ done \subseteq Keys /\ faults \in 0..MaxFaults
  BY DEF IInv, TypeOK
<1>2. CASE ReadProfile(t)
  <2>1. CASE Finish(t)
    BY <1>1, <1>2, <2>1, FinishTyped DEF IInv, TypeOK, ReadProfile, IndexedIsSettled
  <2>2. CASE tasks' = [tasks EXCEPT ![t] = [tasks[t] EXCEPT !.step = "read", !.seen = profile.version]]
             /\ UNCHANGED done
    <3>1. [tasks[t] EXCEPT !.step = "read", !.seen = profile.version] \in Task
      BY <1>1 DEF Task, Profile, Texts
    <3>2. tasks' \in [Tasks -> Task]
      BY <1>1, <2>2, <3>1
    <3> QED  BY <1>1, <1>2, <2>2, <3>2 DEF IInv, TypeOK, ReadProfile, IndexedIsSettled
  <2> QED  BY <1>2, <2>1, <2>2 DEF ReadProfile
<1>3. CASE BeginProfile(t)
  <2>1. profile' = [profile EXCEPT !.status = "indexing", !.due = TRUE]
    BY <1>3 DEF BeginProfile
  <2>2. profile' \in Profile /\ profile'.status # "indexed"
    BY <1>1, <2>1 DEF Profile, IndexStatus
  <2>3. tasks' \in [Tasks -> Task]
    BY <1>1, <1>3, GotoTyped DEF BeginProfile
  <2> QED  BY <1>1, <1>3, <2>2, <2>3, SettledKept DEF IInv, TypeOK, BeginProfile, Settled
<1>4. CASE SyncProfile(t)
  <2>1. tasks' \in [Tasks -> Task]
    BY <1>1, <1>4, GotoTyped DEF SyncProfile
  <2>2. CASE UNCHANGED profile
    BY <1>1, <1>4, <2>1, <2>2 DEF IInv, TypeOK, SyncProfile, IndexedIsSettled
  <2>3. CASE profile' = [profile EXCEPT !.vector = tasks[t].seen]
    <3>1. profile'.status = profile.status /\ profile'.indexed = profile.indexed
          /\ profile'.version = profile.version /\ profile'.dirty = profile.dirty
      BY <1>1, <2>3 DEF Profile
    <3>2. Settled(profile')
      BY <1>1, <3>1 DEF IndexedIsSettled, Settled
    <3>3. profile' \in Profile
      BY <1>1, <2>3 DEF Profile, Task
    <3> QED  BY <1>1, <1>4, <2>1, <3>2, <3>3, SettledKept DEF IInv, TypeOK, SyncProfile
  <2> QED  BY <1>4, <2>2, <2>3 DEF SyncProfile
<1>5. CASE RecordProfile(t)
  <2>1. profile' = [profile EXCEPT !.indexed = profile.version, !.dirty = FALSE, !.status = "indexed",
                                   !.due = TRUE, !.claimed = FALSE]
    BY <1>5 DEF RecordProfile
  <2>2. profile' \in Profile /\ Settled(profile')
    BY <1>1, <2>1 DEF Profile, IndexStatus, Settled
  <2>3. tasks' \in [Tasks -> Task] /\ done' \subseteq Keys
    BY <1>1, <1>5, FinishTyped DEF RecordProfile
  <2> QED  BY <1>1, <1>5, <2>2, <2>3, SettledKept DEF IInv, TypeOK, RecordProfile
<1>6. CASE RefuseProfile(t)
  <2>1. profile' = [profile EXCEPT !.status = "failed", !.due = FALSE, !.claimed = FALSE]
    BY <1>6 DEF RefuseProfile
  <2>2. profile' \in Profile /\ profile'.status # "indexed"
    BY <1>1, <2>1 DEF Profile, IndexStatus
  <2>3. tasks' \in [Tasks -> Task] /\ done' \subseteq Keys
    BY <1>1, <1>6, FinishTyped DEF RefuseProfile
  <2> QED  BY <1>1, <1>6, <2>2, <2>3, SettledKept DEF IInv, TypeOK, RefuseProfile, Settled
<1> QED  BY <1>2, <1>3, <1>4, <1>5, <1>6

\* The steps of a reindex of the unit, and the death of a worker.
LEMMA UnitTaskKeeps ==
  ASSUME IInv, NEW t \in Tasks,
         ReadUnit(t) \/ BeginUnit(t) \/ SyncUnit(t) \/ RecordUnit(t) \/ RefuseUnit(t) \/ WorkerDies(t)
  PROVE  IInv'
<1> USE IndexAssumption
<1>1. TypeOK /\ IndexedIsSettled /\ profile \in Profile /\ unit \in Unit
      /\ tasks \in [Tasks -> Task] /\ done \subseteq Keys /\ faults \in 0..MaxFaults
  BY DEF IInv, TypeOK
<1>2. UNCHANGED profile /\ IndexedIsSettled'
  BY <1>1 DEF ReadUnit, BeginUnit, SyncUnit, RecordUnit, RefuseUnit, WorkerDies, IndexedIsSettled
<1>3. CASE ReadUnit(t)
  <2>1. [tasks[t] EXCEPT !.step = "read", !.seen = unit.version] \in Task
    BY <1>1 DEF Task, Unit, Texts
  <2>2. tasks' \in [Tasks -> Task]
    BY <1>1, <1>3, <2>1 DEF ReadUnit
  <2> QED  BY <1>1, <1>2, <1>3, <2>2 DEF IInv, TypeOK, ReadUnit
<1>4. CASE BeginUnit(t)
  <2>1. unit' \in Unit
    BY <1>1, <1>4 DEF BeginUnit, Unit, IndexStatus
  <2>2. tasks' \in [Tasks -> Task]
    BY <1>1, <1>4, GotoTyped DEF BeginUnit
  <2> QED  BY <1>1, <1>2, <1>4, <2>1, <2>2 DEF IInv, TypeOK, BeginUnit
<1>5. CASE SyncUnit(t)
  <2>1. tasks' \in [Tasks -> Task]
    BY <1>1, <1>5, GotoTyped DEF SyncUnit
  <2>2. tasks[t].seen \in Texts
    BY <1>1 DEF Task
  <2>3. unit' \in Unit
    BY <1>1, <1>5, <2>2 DEF SyncUnit, Unit
  <2> QED  BY <1>1, <1>2, <1>5, <2>1, <2>3 DEF IInv, TypeOK, SyncUnit
<1>6. CASE RecordUnit(t) \/ RefuseUnit(t)
  <2>1. unit' \in Unit
    BY <1>1, <1>6 DEF RecordUnit, RefuseUnit, Unit, IndexStatus
  <2>2. tasks' \in [Tasks -> Task] /\ done' \subseteq Keys
    BY <1>1, <1>6, FinishTyped DEF RecordUnit, RefuseUnit
  <2> QED  BY <1>1, <1>2, <1>6, <2>1, <2>2 DEF IInv, TypeOK, RecordUnit, RefuseUnit
<1>7. CASE WorkerDies(t)
  <2>1. tasks' \in [Tasks -> Task]
    BY <1>1, <1>7, GotoTyped DEF WorkerDies
  <2> QED  BY <1>1, <1>2, <1>7, <2>1 DEF IInv, TypeOK, WorkerDies, Strike
<1> QED  BY <1>3, <1>4, <1>5, <1>6, <1>7

\* Every step keeps the invariant.
LEMMA InvStep == IInv /\ [Next]_vars => IInv'
<1> SUFFICES ASSUME IInv, [Next]_vars PROVE IInv'
  OBVIOUS
<1>1. CASE UNCHANGED vars
  BY <1>1 DEF IInv, TypeOK, IndexedIsSettled, Claimable, vars
<1>2. CASE \E t \in Tasks : WorkerStep(t) \/ WorkerDies(t)
  BY <1>2, ProfileTaskKeeps, UnitTaskKeeps DEF WorkerStep
<1> QED  BY <1>1, <1>2, RefreshKeeps DEF Next

\* The invariant holds in every reachable state.
THEOREM Inductive == Spec => []IInv
<1> QED  BY InvInit, InvStep, PTL DEF Spec

(***************************************************************************)
(* The rows, the tasks and the remembered keys keep their shape.           *)
(***************************************************************************)
THEOREM IndexWellTyped == Spec => []TypeOK
<1>1. IInv => TypeOK  BY DEF IInv
<1> QED  BY <1>1, Inductive, PTL

(***************************************************************************)
(* However rebuilds, claims and the steps of any number of reindex tasks   *)
(* overlap, a profile row that reads as indexed has its own version as the *)
(* indexed one and leaves the refresh worker nothing to do.                *)
(***************************************************************************)
THEOREM IndexedMeansSettled == Spec => []IndexedIsSettled
<1>1. IInv => IndexedIsSettled  BY DEF IInv
<1> QED  BY <1>1, Inductive, PTL
=============================================================================
