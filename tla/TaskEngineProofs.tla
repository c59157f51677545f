-------------------------- MODULE TaskEngineProofs --------------------------
(***************************************************************************)
(* Theorems about TaskEngine, for any number of tasks, clients, attempts   *)
(* and faults.                                                             *)
(***************************************************************************)
EXTENDS TaskEngine, FiniteSetTheorems, TLAPS

\* The kinds whose result is postprocessed.
Sourced == {"work", "archive", "encode"}

LastTry(t) == jobs[t].failures + 1 >= Attempts

\* The shape of a row and of its job.
JobInv(t) ==
  /\ jobs[t].state # "active" <=> jobs[t].step = "none"
  /\ jobs[t].state \in {"waiting", "active"} => jobs[t].failures < Attempts /\ jobs[t].stalls < 2
  /\ jobs[t].state = "none" => jobs[t] = NoJob
  /\ Gone(t) /\ jobs[t] = NoJob => rows[t] = NoRow
  /\ rows[t].kind = "post" => rows[t].source \in Tasks /\ rows[t].key = PostKey(rows[t].source)

\* What the row says at each step of the worker, unless it is gone.  Only a death
\* takes a task that was marked failed back to work.
StepInv(t) ==
  /\ jobs[t].step \in {"execute", "schedule", "publish"} => rows[t].status \in {"running", "none"}
  /\ jobs[t].step \in {"announce", "message", "complete"} => rows[t].status \in {"published", "none"}
  /\ jobs[t].step = "apologise" => rows[t].status \in {"failed", "none"} /\ LastTry(t)
  /\ jobs[t].step = "rethrow" /\ LastTry(t) /\ t \notin struck => rows[t].status \in {"failed", "none"}
  /\ jobs[t].state = "completed" => rows[t].status \in {"published", "none"}
  /\ jobs[t].state = "failed" /\ t \notin struck => rows[t].status \in {"failed", "none"}
  /\ rows[t].status = "failed" /\ jobs[t].stalls = 0 =>
       \/ jobs[t].state = "failed"
       \/ jobs[t].step \in {"apologise", "rethrow"} /\ LastTry(t)

\* How far the worker is once it has told of a failure.
ToldInv(t) ==
  jobs[t].stalls = 0 /\ "failure" \in told[t] =>
    /\ rows[t].status \in {"failed", "none"}
    /\ (jobs[t].step = "rethrow" /\ LastTry(t)) \/ jobs[t].state = "failed"

Adding(c, t) == calls[c].stage \in {"add", "delete"} /\ calls[c].task = t

\* A call has a caller that waits for it, and a row of its own from its insertion
\* to the add or the delete; a derived key is called for by the task it names, or
\* by its postprocessing, and has no holder between lookup and insertion.
CallInv(c) ==
  /\ calls[c].stage = "idle" => calls[c] = NoCall
  /\ c \in Tasks => (calls[c].stage # "idle" <=> jobs[c].step = "schedule")
  /\ c \in Tasks /\ calls[c].stage # "idle" => calls[c].key \in DerivedKeys
  /\ calls[c].stage \in {"add", "delete"} =>
       /\ calls[c].task \in Tasks \ {c}
       /\ ~Gone(calls[c].task)
       /\ rows[calls[c].task].key = calls[c].key
  /\ calls[c].stage = "add" =>
       /\ jobs[calls[c].task] = NoJob
       /\ rows[calls[c].task].status = "queued"
  /\ calls[c].kind = "post" => calls[c].source \in Tasks /\ calls[c].key = PostKey(calls[c].source)
  /\ calls[c].stage # "idle" /\ calls[c].key \in DerivedKeys =>
       /\ c \in Tasks
       /\ \/ calls[c].key = PostKey(c)
          \/ rows[c].kind = "post" /\ calls[c].key = MemoryKey(rows[c].source)
  /\ calls[c].stage = "insert" /\ calls[c].key \in DerivedKeys =>
       Doubled(calls[c].key) \/ Holders(calls[c].key) = {}

\* No two calls add the same job.
AddInv == \A c, d \in Callers : calls[c].stage \in {"add", "delete"} /\ Adding(d, calls[c].task) => c = d

\* A row that waits without a job is about to get one, or to be taken back.
WaitInv ==
  \A t \in Tasks \ struck :
    rows[t].status \in LiveStatuses /\ jobs[t].state = "none" => \E c \in Callers : Adding(c, t)

\* What OneTaskPerDerivedKey says, without counting.
OneHolder == \A k \in DerivedKeys : Doubled(k) \/ \A t, u \in Holders(k) : t = u

\* Whoever is past its scheduling has its postprocessing.
Postprocessed(t) == \E p \in Tasks : rows[p].key = PostKey(t) /\ ~Gone(p)
PastSchedule(t)  ==
  rows[t].status = "published" \/ jobs[t].step \in {"publish", "announce", "message", "complete"}
PostInv == \A t \in Tasks : PastSchedule(t) /\ rows[t].kind \in Sourced => Postprocessed(t)

TaskInv == \A t \in Tasks : JobInv(t) /\ StepInv(t) /\ ToldInv(t)
CallsInv == \A c \in Callers : CallInv(c)

IInv == TypeOK /\ TaskInv /\ CallsInv /\ AddInv /\ WaitInv /\ OneHolder /\ PostInv
-----------------------------------------------------------------------------
(* Keys *)

\* Derived keys are keys, name one task each, and are not the clients'.
LEMMA DerivedKeyFacts ==
  /\ \A t \in Tasks : PostKey(t) \in DerivedKeys /\ MemoryKey(t) \in DerivedKeys
  /\ \A t, u : PostKey(t) = PostKey(u) => t = u
  /\ \A t, u : MemoryKey(t) = MemoryKey(u) => t = u
  /\ \A t, u : PostKey(t) # MemoryKey(u)
  /\ \A t : ~Doubled(PostKey(t))
  /\ DerivedKeys \subseteq Keys
  /\ None \notin DerivedKeys
<1>1. \A t, u : PostKey(t) = PostKey(u) => t = u
  <2>1. \A t : PostKey(t).task = t  BY DEF PostKey
  <2> QED  BY <2>1
<1>2. \A t, u : MemoryKey(t) = MemoryKey(u) => t = u
  <2>1. \A t : MemoryKey(t).task = t  BY DEF MemoryKey
  <2> QED  BY <2>1
<1>3. \A t : PostKey(t).of = "post" /\ MemoryKey(t).of = "memory"
  BY DEF PostKey, MemoryKey
<1>4. \A t \in Tasks : PostKey(t) \in DerivedKeys /\ MemoryKey(t) \in DerivedKeys
  BY DEF PostKey, MemoryKey, DerivedKeys
<1>5. DerivedKeys \subseteq Keys /\ None \notin DerivedKeys
  BY EngineAssumption, SchedulingAssumption
<1> QED
  BY <1>1, <1>2, <1>3, <1>4, <1>5 DEF Doubled

\* One key is asked for by one caller at a time, unless a postprocessing of its
\* result has lost its worker or its row.
LEMMA OneCaller ==
  ASSUME IInv, NEW c \in Callers, NEW d \in Callers,
         calls[c].stage # "idle", calls[d].stage # "idle",
         calls[c].key = calls[d].key, calls[c].key \in DerivedKeys, ~Doubled(calls[c].key)
  PROVE  c = d
<1>1. CallInv(c) /\ CallInv(d)
  BY DEF IInv, CallsInv
<1>2. c \in Tasks /\ d \in Tasks
  BY <1>1 DEF CallInv
<1>3. CASE calls[c].key = PostKey(c) \/ calls[d].key = PostKey(d)
  BY <1>1, <1>2, <1>3, DerivedKeyFacts DEF CallInv
<1>4. CASE /\ rows[c].kind = "post" /\ calls[c].key = MemoryKey(rows[c].source)
           /\ rows[d].kind = "post" /\ calls[d].key = MemoryKey(rows[d].source)
  <2> DEFINE s == rows[c].source
  <2>1. s = rows[d].source
    BY <1>4, DerivedKeyFacts
  <2>2. s \in Tasks /\ rows[c].key = PostKey(s) /\ rows[d].key = PostKey(s)
    BY <1>2, <1>4, <2>1 DEF IInv, TaskInv, JobInv
  <2>3. rows[c].status = "running" /\ rows[d].status = "running"
    <3>1. jobs[c].step = "schedule" /\ jobs[d].step = "schedule"
      BY <1>1, <1>2 DEF CallInv
    <3>2. rows[c].status \in {"running", "none"} /\ rows[d].status \in {"running", "none"}
      BY <1>2, <3>1 DEF IInv, TaskInv, StepInv
    <3>3. calls[c].key.of = "memory" /\ calls[c].key.task = s
      BY <1>4 DEF MemoryKey
    <3>4. ~Gone(c) /\ ~Gone(d)
      BY <1>2, <2>2, <3>3 DEF Doubled
    <3> QED  BY <3>2, <3>4 DEF Gone
  <2>4. jobs[c].stalls = 0 /\ jobs[d].stalls = 0
    <3>1. calls[c].key.of = "memory" /\ calls[c].key.task = s
      BY <1>4 DEF MemoryKey
    <3>2. jobs[c].stalls \in Nat /\ jobs[d].stalls \in Nat
      BY <1>2 DEF IInv, TypeOK, SchedulingTypeOK, Job
    <3>3. ~(jobs[c].stalls > 0) /\ ~(jobs[d].stalls > 0)
      BY <1>2, <2>2, <3>1 DEF Doubled
    <3> QED  BY <3>2, <3>3
  <2>5. c \in Holders(PostKey(s)) /\ d \in Holders(PostKey(s))
    BY <1>2, <2>2, <2>3, <2>4 DEF Holders, HoldingStatuses, LiveStatuses
  <2> QED
    BY <2>2, <2>5, DerivedKeyFacts DEF IInv, OneHolder
<1> QED
  BY <1>1, <1>2, <1>3, <1>4 DEF CallInv

\* A job without a state is no job.
LEMMA TaskNoJob ==
  ASSUME IInv, NEW t \in Tasks
  PROVE  jobs[t].state = "none" <=> jobs[t] = NoJob
BY DEF IInv, TaskInv, JobInv, NoJob
-----------------------------------------------------------------------------
(* A step of one worker *)

\* The step concerns t and its call alone, and neither makes nor adds a job.
Moves(t) ==
  /\ rows' \in [Tasks -> Row] /\ jobs' \in [Tasks -> Job]
  /\ told' \in [Tasks -> SUBSET Messages]
  /\ struck' \subseteq Tasks /\ faults' \in 0..MaxFaults
  /\ \A u \in Tasks \ {t} : rows'[u] = rows[u] /\ jobs'[u] = jobs[u] /\ told'[u] = told[u]
  /\ rows'[t].kind = rows[t].kind /\ rows'[t].key = rows[t].key /\ rows'[t].source = rows[t].source
  /\ rows'[t].status = "none" <=> rows[t].status = "none"
  /\ jobs[t].state # "none" /\ jobs'[t].state # "none"
  /\ jobs'[t].step # "schedule"
  /\ jobs'[t].stalls >= jobs[t].stalls
  /\ calls' = [calls EXCEPT ![t] = NoCall]
  /\ struck \cup Left(t) \subseteq struck'

\* Such a step keeps the invariant if it keeps what the invariant says of t, takes
\* no task back that was marked failed, and passes on only what is postprocessed.
LEMMA MoveKeepsInv ==
  ASSUME IInv, NEW t \in Tasks, Moves(t),
         JobInv(t)', StepInv(t)', ToldInv(t)',
         jobs'[t].stalls = 0 /\ rows'[t].status \in HoldingStatuses => rows[t].status \in HoldingStatuses,
         PastSchedule(t)' /\ rows[t].kind \in Sourced => Postprocessed(t)
  PROVE  IInv'
<1>0. TypeOK /\ t \in Callers
  BY DEF IInv, Callers
<1>1. \A u \in Tasks : rows'[u].key = rows[u].key /\ rows'[u].kind = rows[u].kind /\ rows'[u].source = rows[u].source
  BY DEF Moves
<1>2. \A u \in Tasks : /\ jobs[u].stalls \in Nat /\ jobs'[u].stalls \in Nat
                       /\ jobs'[u].stalls >= jobs[u].stalls
  <2>1. \A u \in Tasks : jobs[u].stalls \in Nat
    BY <1>0 DEF TypeOK, SchedulingTypeOK, Job
  <2>2. \A u \in Tasks : jobs'[u].stalls \in Nat
    BY DEF Moves, Job
  <2> QED  BY <2>1, <2>2 DEF Moves
<1>3. \A k : Doubled(k) => Doubled(k)'
  <2>1. \A u \in Tasks : Gone(u) => Gone(u)'
    BY DEF Moves, Gone
  <2>2. \A u \in Tasks : jobs[u].stalls > 0 => jobs'[u].stalls > 0
    BY <1>2
  <2> QED  BY <1>1, <2>1, <2>2 DEF Doubled
<1>4. \A k : Holders(k)' \subseteq Holders(k)
  <2> SUFFICES ASSUME NEW k, NEW u \in Holders(k)' PROVE u \in Holders(k)
    OBVIOUS
  <2>1. u \in Tasks /\ rows'[u].key = k /\ rows'[u].status \in HoldingStatuses /\ jobs'[u].stalls = 0
    BY DEF Holders
  <2>2. jobs[u].stalls = 0
    BY <1>2, <2>1
  <2>3. rows[u].status \in HoldingStatuses
    BY <2>1 DEF Moves
  <2> QED  BY <1>1, <2>1, <2>2, <2>3 DEF Holders
<1>5. calls' \in [Callers -> Call]
  <2>1. NoCall \in Call
    BY DEF NoCall, Call
  <2> QED  BY <1>0, <2>1 DEF Moves, TypeOK, SchedulingTypeOK
<1>6. /\ calls'[t] = NoCall
      /\ \A c \in Callers \ {t} : calls'[c] = calls[c]
  BY <1>0 DEF Moves, TypeOK, SchedulingTypeOK
<1>7. TypeOK'
  BY <1>5 DEF Moves, TypeOK, SchedulingTypeOK
<1>8. TaskInv'
  <2> SUFFICES ASSUME NEW u \in Tasks, u # t PROVE (JobInv(u) /\ StepInv(u) /\ ToldInv(u))'
    BY DEF TaskInv
  <2>1. JobInv(u) /\ StepInv(u) /\ ToldInv(u)
    BY DEF IInv, TaskInv
  <2>2. rows'[u] = rows[u] /\ jobs'[u] = jobs[u] /\ told'[u] = told[u] /\ (u \notin struck' => u \notin struck)
    BY DEF Moves
  <2>3. JobInv(u)'  BY <2>1, <2>2 DEF JobInv, Gone
  <2>4. StepInv(u)'  BY <2>1, <2>2 DEF StepInv, LastTry
  <2>5. ToldInv(u)'  BY <2>1, <2>2 DEF ToldInv, LastTry
  <2> QED  BY <2>3, <2>4, <2>5
<1>9. CallsInv'
  <2> SUFFICES ASSUME NEW c \in Callers PROVE CallInv(c)'
    BY DEF CallsInv
  <2>1. CASE c = t
    BY <1>6, <2>1, EngineAssumption, SchedulingAssumption DEF CallInv, NoCall, Moves, TaskKinds
  <2>2. CASE c # t
    <3>1. CallInv(c) /\ calls'[c] = calls[c]
      BY <1>6, <2>2 DEF IInv, CallsInv
    <3>2. c \in Tasks => jobs'[c] = jobs[c] /\ rows'[c].kind = rows[c].kind /\ rows'[c].source = rows[c].source
      BY <2>2 DEF Moves
    <3>3. calls[c].stage \in {"add", "delete"} =>
             /\ calls[c].task \in Tasks \ {c}
             /\ ~Gone(calls[c].task)'
             /\ rows'[calls[c].task].key = calls[c].key
      <4>1. \A u \in Tasks : ~Gone(u) => ~Gone(u)'
        BY DEF Moves, Gone
      <4> QED  BY <1>1, <3>1, <4>1 DEF CallInv, Gone
    <3>7. calls[c].stage = "add" =>
             /\ jobs'[calls[c].task] = NoJob
             /\ rows'[calls[c].task].status = "queued"
      <4> SUFFICES ASSUME calls[c].stage = "add"
                   PROVE  calls[c].task \in Tasks \ {t}
        BY <3>1 DEF CallInv, Moves
      <4> QED  BY <3>1 DEF CallInv, Moves, NoJob
    <3>4. calls[c].stage = "insert" /\ calls[c].key \in DerivedKeys =>
             Doubled(calls[c].key)' \/ Holders(calls[c].key)' = {}
      BY <1>3, <1>4, <3>1 DEF CallInv
    <3>5. (Doubled(calls[c].key)' \/ Holders(calls[c].key)' = {}) => (Doubled(calls[c].key) \/ Holders(calls[c].key) = {})'
      BY <3>1 DEF Doubled, Holders, Gone
    <3>6. (~Gone(calls[c].task))' <=> ~Gone(calls[c].task)'
      BY <3>1 DEF Gone
    <3> QED
      BY <3>1, <3>2, <3>3, <3>4, <3>5, <3>6, <3>7 DEF CallInv, Gone
  <2> QED  BY <2>1, <2>2
<1>10. AddInv'
  BY <1>6 DEF IInv, AddInv, Adding, NoCall
<1>11. WaitInv'
  <2> SUFFICES ASSUME NEW u \in Tasks \ struck', rows'[u].status \in LiveStatuses, jobs'[u].state = "none"
               PROVE  \E c \in Callers : Adding(c, u)'
    BY DEF WaitInv
  <2>1. u # t /\ u \notin struck /\ u \notin Left(t) /\ rows'[u] = rows[u] /\ jobs'[u] = jobs[u]
    BY DEF Moves
  <2>2. PICK c \in Callers : Adding(c, u)
    BY <2>1 DEF IInv, WaitInv
  <2>3. c # t
    BY <2>1, <2>2, TaskNoJob DEF Left, Adding
  <2> QED  BY <1>6, <2>2, <2>3 DEF Adding
<1>12. OneHolder'
  BY <1>3, <1>4 DEF IInv, OneHolder
<1>13. PostInv'
  <2> SUFFICES ASSUME NEW u \in Tasks, PastSchedule(u)', rows'[u].kind \in Sourced
               PROVE  Postprocessed(u)
    <3>1. \A p \in Tasks : ~Gone(p) => ~Gone(p)'
      BY DEF Moves, Gone
    <3> QED  BY <1>1, <3>1 DEF PostInv, Postprocessed
  <2>1. CASE u = t
    BY <1>1, <2>1
  <2>2. CASE u # t
    BY <2>2 DEF IInv, PostInv, Moves, PastSchedule
  <2> QED  BY <2>1, <2>2
<1> QED
  BY <1>7, <1>8, <1>9, <1>10, <1>11, <1>12, <1>13 DEF IInv
-----------------------------------------------------------------------------
(* The worker's steps *)

Steps == {"none", "execute", "schedule", "publish", "announce", "message", "complete",
          "catch", "apologise", "rethrow"}

\* What the invariant says of a task.
LEMMA TaskTyped ==
  ASSUME IInv, NEW t \in Tasks
  PROVE  /\ rows \in [Tasks -> Row] /\ rows[t] \in Row
         /\ jobs \in [Tasks -> Job] /\ jobs[t] \in Job
         /\ jobs[t].failures \in 0..Attempts /\ jobs[t].stalls \in 0..2
         /\ rows[t].status \in HoldingStatuses \cup {"none", "failed"}
         /\ told \in [Tasks -> SUBSET Messages] /\ told[t] \subseteq Messages
         /\ struck \subseteq Tasks /\ faults \in 0..MaxFaults
         /\ JobInv(t) /\ StepInv(t) /\ ToldInv(t) /\ CallInv(t)
         /\ t \in Callers
<1>1. rows \in [Tasks -> Row] /\ rows[t] \in Row /\ jobs \in [Tasks -> Job] /\ jobs[t] \in Job
  BY DEF IInv, TypeOK, SchedulingTypeOK
<1>2. jobs[t].failures \in 0..Attempts /\ jobs[t].stalls \in 0..2
  BY <1>1 DEF Job
<1>3. rows[t].status \in HoldingStatuses \cup {"none", "failed"}
  BY <1>1 DEF Row
<1>4. /\ told \in [Tasks -> SUBSET Messages] /\ told[t] \subseteq Messages
      /\ struck \subseteq Tasks /\ faults \in 0..MaxFaults
  BY DEF IInv, TypeOK, SchedulingTypeOK
<1>5. t \in Callers /\ JobInv(t) /\ StepInv(t) /\ ToldInv(t) /\ CallInv(t)
  BY DEF Callers, IInv, TaskInv, CallsInv
<1> QED  BY <1>1, <1>2, <1>3, <1>4, <1>5

\* A worker that is not scheduling makes no call.
LEMMA NotCalling ==
  ASSUME IInv, NEW t \in Tasks, jobs[t].step # "schedule"
  PROVE  calls = [calls EXCEPT ![t] = NoCall] /\ Left(t) = {}
<1>1. calls[t] = NoCall
  BY TaskTyped DEF CallInv
<1>2. calls \in [Callers -> Call]
  BY DEF IInv, TypeOK, SchedulingTypeOK
<1> QED  BY <1>1, <1>2 DEF Left, NoCall

\* A change of the step changes nothing else.
LEMMA GotoFacts ==
  ASSUME IInv, NEW t \in Tasks, NEW s \in Steps, Goto(t, s)
  PROVE  /\ jobs' \in [Tasks -> Job]
         /\ \A u \in Tasks \ {t} : jobs'[u] = jobs[u]
         /\ jobs'[t].state = jobs[t].state /\ jobs'[t].step = s
         /\ jobs'[t].failures = jobs[t].failures /\ jobs'[t].stalls = jobs[t].stalls
<1>1. jobs' = [jobs EXCEPT ![t] = [jobs[t] EXCEPT !.step = s]]
  BY DEF Goto
<1> DEFINE j == [jobs[t] EXCEPT !.step = s]
<1>2. j \in Job
  BY TaskTyped DEF Job, Steps
<1>3. j.state = jobs[t].state /\ j.step = s /\ j.failures = jobs[t].failures /\ j.stalls = jobs[t].stalls
  BY TaskTyped DEF Job
<1> HIDE DEF j
<1> QED  BY <1>1, <1>2, <1>3, TaskTyped DEF j

\* A mark changes the status of a row there is.
LEMMA MarkedFacts ==
  ASSUME IInv, NEW t \in Tasks, NEW status \in HoldingStatuses \cup {"failed"},
         rows' = Marked(t, status)
  PROVE  /\ rows' \in [Tasks -> Row]
         /\ \A u \in Tasks \ {t} : rows'[u] = rows[u]
         /\ rows'[t].kind = rows[t].kind /\ rows'[t].key = rows[t].key /\ rows'[t].source = rows[t].source
         /\ rows'[t].status = IF rows[t].status = "none" THEN "none" ELSE status
         /\ rows'[t].status = "none" <=> rows[t].status = "none"
         /\ rows[t].status = "none" => rows'[t] = rows[t]
<1>0. status # "none"
  BY DEF HoldingStatuses, LiveStatuses
<1>1. CASE rows[t].status = "none"
  BY <1>1, TaskTyped DEF Marked, Gone
<1>2. CASE rows[t].status # "none"
  <2> DEFINE r == [rows[t] EXCEPT !.status = status]
  <2>1. rows' = [rows EXCEPT ![t] = r]
    BY <1>2 DEF Marked, Gone
  <2>2. r \in Row
    BY TaskTyped DEF Row
  <2>3. r.kind = rows[t].kind /\ r.key = rows[t].key /\ r.source = rows[t].source /\ r.status = status
    BY TaskTyped DEF Row
  <2> HIDE DEF r
  <2> QED  BY <1>0, <1>2, <2>1, <2>2, <2>3, TaskTyped
<1> QED  BY <1>1, <1>2

\* BullMQ's reaction to a failure.
LEMMA FailedFacts ==
  ASSUME IInv, NEW t \in Tasks, jobs[t].failures < Attempts, jobs' = Failed(t)
  PROVE  /\ jobs' \in [Tasks -> Job]
         /\ \A u \in Tasks \ {t} : jobs'[u] = jobs[u]
         /\ jobs'[t].state = IF LastTry(t) THEN "failed" ELSE "waiting"
         /\ jobs'[t].step = "none" /\ jobs'[t].stalls = jobs[t].stalls
         /\ jobs'[t].failures = jobs[t].failures + 1
<1> DEFINE n == jobs[t].failures + 1
           x == IF n < Attempts THEN "waiting" ELSE "failed"
           j == [jobs[t] EXCEPT !.failures = n, !.step = "none", !.state = x]
<1>0. Attempts \in Nat /\ jobs[t].failures \in Nat /\ jobs[t].failures < Attempts
  BY TaskTyped, SchedulingAssumption
<1>1. jobs' = [jobs EXCEPT ![t] = j]
  BY DEF Failed
<1>2. n \in 0..Attempts
  BY <1>0
<1>3. x = IF LastTry(t) THEN "failed" ELSE "waiting"
  BY <1>0 DEF LastTry
<1> HIDE DEF n, x
<1>4. j.failures = n /\ j.step = "none" /\ j.stalls = jobs[t].stalls /\ j.state = x
  BY TaskTyped DEF Job
<1>5. j \in Job
  BY <1>2, <1>3, TaskTyped DEF Job
<1> HIDE DEF j
<1> QED  BY <1>1, <1>3, <1>4, <1>5, TaskTyped DEF n

\* A job that starts finds its row waiting, or gone.
LEMMA StartInv ==
  ASSUME IInv, NEW t \in Tasks, Start(t), UNCHANGED told
  PROVE  IInv'
<1> DEFINE j == [jobs[t] EXCEPT !.state = "active", !.step = "execute"]
<1>1. jobs' = [jobs EXCEPT ![t] = j] /\ jobs[t].state = "waiting" /\ jobs[t].step = "none"
  BY TaskTyped DEF Start, JobInv
<1>2. j.failures = jobs[t].failures /\ j.stalls = jobs[t].stalls /\ j.state = "active" /\ j.step = "execute"
  BY TaskTyped DEF Job
<1>3. j \in Job
  BY TaskTyped DEF Job
<1> HIDE DEF j
<1>4. jobs' \in [Tasks -> Job] /\ jobs'[t] = j /\ \A u \in Tasks \ {t} : jobs'[u] = jobs[u]
  BY <1>1, <1>3, TaskTyped
<1>5. rows' = Marked(t, "running") /\ "running" \in HoldingStatuses \cup {"failed"}
  BY DEF Start, HoldingStatuses, LiveStatuses
<1>6. rows'[t].status \in {"running", "none"}
  BY <1>5, MarkedFacts
<1>7. Moves(t)
  BY <1>1, <1>2, <1>4, <1>5, MarkedFacts, TaskTyped, NotCalling DEF Moves, Start
<1>8. JobInv(t)'
  <2>1. jobs'[t] # NoJob
    BY <1>2, <1>4 DEF NoJob
  <2> QED  BY <1>1, <1>2, <1>4, <1>5, <2>1, MarkedFacts, TaskTyped DEF JobInv
<1>9. StepInv(t)'
  BY <1>2, <1>4, <1>6 DEF StepInv
<1>10. ToldInv(t)'
  <2>1. told' = told /\ jobs'[t].stalls = jobs[t].stalls
    BY <1>2, <1>4
  <2>2. ~(jobs[t].stalls = 0 /\ "failure" \in told[t])
    BY <1>1, TaskTyped DEF ToldInv
  <2> QED  BY <2>1, <2>2 DEF ToldInv
<1>11. jobs'[t].stalls = 0 /\ rows'[t].status \in HoldingStatuses => rows[t].status \in HoldingStatuses
  <2>1. jobs'[t].stalls = jobs[t].stalls
    BY <1>2, <1>4
  <2>2. jobs[t].stalls = 0 => rows[t].status # "failed"
    BY <1>1, TaskTyped DEF StepInv
  <2>3. rows'[t].status = "none" <=> rows[t].status = "none"
    BY <1>5, MarkedFacts
  <2> QED  BY <2>1, <2>2, <2>3, TaskTyped DEF HoldingStatuses, LiveStatuses
<1>12. ~PastSchedule(t)'
  BY <1>2, <1>4, <1>6 DEF PastSchedule
<1> QED  BY <1>7, <1>8, <1>9, <1>10, <1>11, <1>12, MoveKeepsInv

\* Lemmas about steps that only change the worker's step and the row's status.
LEMMA StepMoves ==
  ASSUME IInv, NEW t \in Tasks, NEW s \in Steps \ {"schedule"}, Goto(t, s), UNCHANGED calls,
         jobs[t].state = "active", jobs[t].step # "schedule", s # "none",
         rows' = rows \/ \E status \in HoldingStatuses \cup {"failed"} : rows' = Marked(t, status),
         struck \subseteq struck', struck' \subseteq Tasks, faults' \in 0..MaxFaults,
         told' \in [Tasks -> SUBSET Messages],
         \A u \in Tasks \ {t} : told'[u] = told[u]
  PROVE  Moves(t) /\ JobInv(t)'
<1>1. s \in Steps /\ s # "schedule"
  OBVIOUS
<1>2. /\ jobs' \in [Tasks -> Job]
      /\ \A u \in Tasks \ {t} : jobs'[u] = jobs[u]
      /\ jobs'[t].state = "active" /\ jobs'[t].step = s
      /\ jobs'[t].failures = jobs[t].failures /\ jobs'[t].stalls = jobs[t].stalls
  BY <1>1, GotoFacts
<1>3. /\ rows' \in [Tasks -> Row]
      /\ \A u \in Tasks \ {t} : rows'[u] = rows[u]
      /\ rows'[t].kind = rows[t].kind /\ rows'[t].key = rows[t].key /\ rows'[t].source = rows[t].source
      /\ rows'[t].status = "none" <=> rows[t].status = "none"
      /\ rows[t].status = "none" => rows'[t] = rows[t]
  BY MarkedFacts, TaskTyped
<1>4. Moves(t)
  BY <1>1, <1>2, <1>3, NotCalling, TaskTyped DEF Moves
<1>5. JobInv(t)'
  <2>1. jobs'[t] # NoJob
    BY <1>2 DEF NoJob
  <2> QED  BY <1>2, <1>3, <2>1, TaskTyped DEF JobInv
<1> QED  BY <1>4, <1>5

\* Publishing marks the row before anything is said.
LEMMA PublishInv ==
  ASSUME IInv, NEW t \in Tasks, Publish(t), UNCHANGED told
  PROVE  IInv'
<1>1. /\ jobs[t].state = "active" /\ jobs[t].step = "publish" /\ rows' = Marked(t, "published")
      /\ Goto(t, "announce") /\ UNCHANGED <<calls, struck, faults, told>>
  BY DEF Publish, At
<1>2. "published" \in HoldingStatuses /\ "announce" \in Steps \ {"schedule"}
  BY DEF HoldingStatuses, Steps
<1>3. rows[t].status \in {"running", "none"}
  BY <1>1, TaskTyped DEF StepInv
<1>4. rows'[t].status \in {"published", "none"} /\ (rows'[t].status = "none" <=> rows[t].status = "none")
  BY <1>1, <1>2, <1>3, MarkedFacts
<1>5. jobs'[t].state = "active" /\ jobs'[t].step = "announce" /\ jobs'[t].stalls = jobs[t].stalls
  BY <1>1, <1>2, GotoFacts
<1>6. Moves(t) /\ JobInv(t)'
  BY <1>1, <1>2, StepMoves, TaskTyped
<1>7. StepInv(t)'
  BY <1>4, <1>5 DEF StepInv
<1>8. ToldInv(t)'
  BY <1>1, <1>5, TaskTyped DEF ToldInv
<1>9. rows'[t].status \in HoldingStatuses => rows[t].status \in HoldingStatuses
  BY <1>3, <1>4 DEF HoldingStatuses, LiveStatuses
<1>10. rows[t].kind \in Sourced => Postprocessed(t)
  BY <1>1 DEF IInv, PostInv, PastSchedule
<1> QED  BY <1>5, <1>6, <1>7, <1>8, <1>9, <1>10, MoveKeepsInv

\* A job completes with its row published.
LEMMA CompleteInv ==
  ASSUME IInv, NEW t \in Tasks, Complete(t), UNCHANGED told
  PROVE  IInv'
<1> DEFINE j == [jobs[t] EXCEPT !.state = "completed", !.step = "none"]
<1>1. /\ jobs' = [jobs EXCEPT ![t] = j] /\ jobs[t].state = "active" /\ jobs[t].step = "complete"
      /\ UNCHANGED <<rows, calls, struck, faults, told>>
  BY DEF Complete, At
<1>2. j.failures = jobs[t].failures /\ j.stalls = jobs[t].stalls /\ j.state = "completed" /\ j.step = "none"
  BY TaskTyped DEF Job
<1>3. j \in Job
  BY TaskTyped DEF Job
<1> HIDE DEF j
<1>4. jobs' \in [Tasks -> Job] /\ jobs'[t] = j /\ \A u \in Tasks \ {t} : jobs'[u] = jobs[u]
  BY <1>1, <1>3, TaskTyped
<1>5. Moves(t)
  BY <1>1, <1>2, <1>4, TaskTyped, NotCalling DEF Moves
<1>6. JobInv(t)'
  <2>1. jobs'[t] # NoJob
    BY <1>2, <1>4 DEF NoJob
  <2> QED  BY <1>1, <1>2, <1>4, <2>1, TaskTyped DEF JobInv
<1>7. StepInv(t)'
  BY <1>1, <1>2, <1>4, TaskTyped DEF StepInv
<1>8. ToldInv(t)'
  BY <1>1, <1>2, <1>4, TaskTyped DEF ToldInv
<1>9. rows[t].kind \in Sourced => Postprocessed(t)
  BY <1>1 DEF IInv, PostInv, PastSchedule
<1> QED  BY <1>1, <1>5, <1>6, <1>7, <1>8, <1>9, MoveKeepsInv

\* From the catch block the row is marked by the worker's own count of attempts.
LEMMA CatchInv ==
  ASSUME IInv, NEW t \in Tasks, Catch(t), UNCHANGED told
  PROVE  IInv'
<1> DEFINE status == IF Final(t) THEN "failed" ELSE "queued"
           s      == IF Final(t) THEN "apologise" ELSE "rethrow"
<1>1. /\ jobs[t].state = "active" /\ jobs[t].step = "catch" /\ rows' = Marked(t, status)
      /\ Goto(t, s) /\ UNCHANGED <<calls, struck, faults, told>>
  BY DEF Catch, At
<1>2. status \in HoldingStatuses \cup {"failed"} /\ s \in Steps \ {"schedule"} /\ s # "none" /\ s \in Steps
  BY DEF HoldingStatuses, LiveStatuses, Steps
<1>3. rows'[t].status = IF rows[t].status = "none" THEN "none" ELSE status
  BY <1>1, <1>2, MarkedFacts
<1>4. jobs'[t].state = "active" /\ jobs'[t].step = s /\ jobs'[t].stalls = jobs[t].stalls
      /\ jobs'[t].failures = jobs[t].failures
  BY <1>1, <1>2, GotoFacts
<1>5. Moves(t) /\ JobInv(t)'
  <2>1. \E x \in HoldingStatuses \cup {"failed"} : rows' = Marked(t, x)
    BY <1>1, <1>2
  <2>2. struck \subseteq struck' /\ struck' \subseteq Tasks /\ faults' \in 0..MaxFaults
        /\ told' \in [Tasks -> SUBSET Messages] /\ \A u \in Tasks \ {t} : told'[u] = told[u]
    BY <1>1, TaskTyped
  <2>3. UNCHANGED calls /\ Goto(t, s)
    BY <1>1
  <2> HIDE DEF status, s
  <2> QED  BY <1>1, <1>2, <2>1, <2>2, <2>3, StepMoves
<1>6. StepInv(t)'
  BY <1>3, <1>4 DEF StepInv, LastTry, Final
<1>7. ToldInv(t)'
  BY <1>1, <1>4, TaskTyped DEF ToldInv
<1>8. jobs[t].stalls = 0 => rows[t].status # "failed"
  BY <1>1, TaskTyped DEF StepInv
<1>9. jobs'[t].stalls = 0 /\ rows'[t].status \in HoldingStatuses => rows[t].status \in HoldingStatuses
  BY <1>3, <1>4, <1>8, TaskTyped DEF HoldingStatuses, LiveStatuses
<1>10. ~PastSchedule(t)'
  BY <1>3, <1>4 DEF PastSchedule
<1> QED  BY <1>5, <1>6, <1>7, <1>9, <1>10, MoveKeepsInv

\* The error reaches BullMQ with the row marked by the worker's own count.
LEMMA RethrowInv ==
  ASSUME IInv, NEW t \in Tasks, Rethrow(t), UNCHANGED told
  PROVE  IInv'
<1>1. /\ jobs[t].state = "active" /\ jobs[t].step = "rethrow" /\ jobs' = Failed(t)
      /\ UNCHANGED <<rows, calls, struck, faults, told>>
  BY DEF Rethrow, At
<1>2. jobs[t].failures < Attempts /\ Attempts \in Nat /\ jobs[t].failures \in Nat /\ jobs[t].stalls < 2
  BY <1>1, TaskTyped, SchedulingAssumption DEF JobInv
<1>3. /\ jobs' \in [Tasks -> Job]
      /\ \A u \in Tasks \ {t} : jobs'[u] = jobs[u]
      /\ jobs'[t].state = IF LastTry(t) THEN "failed" ELSE "waiting"
      /\ jobs'[t].step = "none" /\ jobs'[t].stalls = jobs[t].stalls
      /\ jobs'[t].failures = jobs[t].failures + 1
  BY <1>1, <1>2, FailedFacts
<1>4. Moves(t)
  BY <1>1, <1>3, TaskTyped, NotCalling DEF Moves
<1>5. JobInv(t)'
  <2>1. ~LastTry(t) => jobs'[t].failures < Attempts
    BY <1>2, <1>3 DEF LastTry
  <2>2. jobs'[t] # NoJob
    BY <1>3 DEF NoJob
  <2> QED  BY <1>1, <1>2, <1>3, <2>1, <2>2, TaskTyped DEF JobInv
<1>6. StepInv(t)'
  BY <1>1, <1>3, TaskTyped DEF StepInv
<1>7. ToldInv(t)'
  BY <1>1, <1>3, TaskTyped DEF ToldInv
<1>8. PastSchedule(t)' => PastSchedule(t)
  BY <1>1, <1>3 DEF PastSchedule
<1>9. PastSchedule(t) /\ rows[t].kind \in Sourced => Postprocessed(t)
  BY DEF IInv, PostInv
<1> QED  BY <1>1, <1>4, <1>5, <1>6, <1>7, <1>8, <1>9, MoveKeepsInv

\* A task that may run next although nobody has put its row right.
LEMMA StartFailsInv ==
  ASSUME IInv, NEW t \in Tasks, StartFails(t), UNCHANGED told
  PROVE  IInv'
<1>1. /\ jobs[t].state = "waiting" /\ jobs' = Failed(t) /\ struck' = struck \cup Unrecorded(t)
      /\ UNCHANGED <<rows, calls, told>> /\ Strike
  BY DEF StartFails
<1>2. /\ jobs[t].failures < Attempts /\ Attempts \in Nat /\ jobs[t].failures \in Nat /\ jobs[t].stalls < 2
      /\ jobs[t].step = "none"
  BY <1>1, TaskTyped, SchedulingAssumption DEF JobInv
<1>3. /\ jobs' \in [Tasks -> Job]
      /\ \A u \in Tasks \ {t} : jobs'[u] = jobs[u]
      /\ jobs'[t].state = IF LastTry(t) THEN "failed" ELSE "waiting"
      /\ jobs'[t].step = "none" /\ jobs'[t].stalls = jobs[t].stalls
      /\ jobs'[t].failures = jobs[t].failures + 1
  BY <1>1, <1>2, FailedFacts
<1>4. LastTry(t) => t \in struck'
  BY <1>1, <1>2 DEF Unrecorded, LastTry
<1>5. Moves(t)
  <2>1. struck' \subseteq Tasks /\ struck \subseteq struck'
    BY <1>1, TaskTyped DEF Unrecorded
  <2>2. faults' \in 0..MaxFaults
    BY <1>1, TaskTyped, SchedulingAssumption DEF Strike
  <2> QED  BY <1>1, <1>2, <1>3, <2>1, <2>2, TaskTyped, NotCalling DEF Moves
<1>6. JobInv(t)'
  <2>1. ~LastTry(t) => jobs'[t].failures < Attempts
    BY <1>2, <1>3 DEF LastTry
  <2>2. jobs'[t] # NoJob
    BY <1>3 DEF NoJob
  <2> QED  BY <1>1, <1>2, <1>3, <2>1, <2>2, TaskTyped DEF JobInv
<1>7. StepInv(t)'
  <2>1. rows[t].status = "failed" => jobs[t].stalls # 0
    BY <1>1, <1>2, TaskTyped DEF StepInv
  <2> QED  BY <1>1, <1>3, <1>4, <2>1 DEF StepInv
<1>8. ToldInv(t)'
  BY <1>1, <1>2, <1>3, TaskTyped DEF ToldInv
<1>9. PastSchedule(t)' => PastSchedule(t)
  BY <1>1, <1>3 DEF PastSchedule
<1>10. PastSchedule(t) /\ rows[t].kind \in Sourced => Postprocessed(t)
  BY DEF IInv, PostInv
<1> QED  BY <1>1, <1>5, <1>6, <1>7, <1>8, <1>9, <1>10, MoveKeepsInv

\* A catch block that fails leaves a last failure unrecorded: the task is struck.
LEMMA CatchFailsInv ==
  ASSUME IInv, NEW t \in Tasks, CatchFails(t), UNCHANGED told
  PROVE  IInv'
<1>1. /\ jobs[t].state = "active" /\ jobs[t].step = "catch" /\ Goto(t, "rethrow")
      /\ struck' = struck \cup Unrecorded(t) /\ UNCHANGED <<rows, calls, told>> /\ Strike
  BY DEF CatchFails, At
<1>2. "rethrow" \in Steps \ {"schedule"} /\ "rethrow" \in Steps
  BY DEF Steps
<1>3. /\ jobs'[t].state = "active" /\ jobs'[t].step = "rethrow" /\ jobs'[t].stalls = jobs[t].stalls
      /\ jobs'[t].failures = jobs[t].failures
  BY <1>1, <1>2, GotoFacts
<1>4. LastTry(t)' => t \in struck'
  <2>1. Attempts \in Nat /\ jobs[t].failures \in Nat
    BY TaskTyped, SchedulingAssumption
  <2> QED  BY <1>1, <1>3, <2>1 DEF Unrecorded, LastTry
<1>5. Moves(t) /\ JobInv(t)'
  <2>1. struck' \subseteq Tasks /\ struck \subseteq struck'
    BY <1>1, TaskTyped DEF Unrecorded
  <2>2. faults' \in 0..MaxFaults
    BY <1>1, TaskTyped, SchedulingAssumption DEF Strike
  <2> QED  BY <1>1, <1>2, <2>1, <2>2, StepMoves, TaskTyped
<1>6. StepInv(t)'
  <2>1. rows[t].status = "failed" => jobs[t].stalls # 0
    BY <1>1, TaskTyped DEF StepInv
  <2> QED  BY <1>1, <1>3, <1>4, <2>1 DEF StepInv
<1>7. ToldInv(t)'
  BY <1>1, <1>3, TaskTyped DEF ToldInv
<1>8. PastSchedule(t)' => PastSchedule(t)
  BY <1>1, <1>3 DEF PastSchedule
<1>9. PastSchedule(t) /\ rows[t].kind \in Sourced => Postprocessed(t)
  BY DEF IInv, PostInv
<1> QED  BY <1>1, <1>5, <1>6, <1>7, <1>8, <1>9, MoveKeepsInv

\* A death takes the call along, and a task in any step back to the queue.
LEMMA WorkerDiesInv ==
  ASSUME IInv, NEW t \in Tasks, WorkerDies(t), UNCHANGED told
  PROVE  IInv'
<1> DEFINE n == jobs[t].stalls + 1
           x == IF jobs[t].stalls = 0 THEN "waiting" ELSE "failed"
           j == [jobs[t] EXCEPT !.stalls = n, !.step = "none", !.state = x]
<1>1. /\ jobs[t].state = "active" /\ jobs' = [jobs EXCEPT ![t] = j]
      /\ calls' = [calls EXCEPT ![t] = NoCall]
      /\ struck' = struck \cup Left(t) \cup (IF jobs[t].stalls = 0 THEN {} ELSE {t})
      /\ UNCHANGED <<rows, told>> /\ Strike
  BY DEF WorkerDies
<1>2. /\ jobs[t].failures < Attempts /\ jobs[t].stalls \in Nat /\ jobs[t].stalls < 2
      /\ n \in 1..2 /\ n \in Nat /\ n # 0 /\ x \in {"waiting", "failed"}
      /\ x = "waiting" => n = 1
  BY <1>1, TaskTyped DEF JobInv
<1>3. x = "failed" => t \in struck'
  BY <1>1
<1>4. n >= jobs[t].stalls
  BY <1>2
<1> HIDE DEF n, x
<1>5. j.failures = jobs[t].failures /\ j.stalls = n /\ j.state = x /\ j.step = "none"
  BY TaskTyped DEF Job
<1>6. j \in Job
  <2>1. n \in 0..2 /\ x \in {"none", "waiting", "active", "completed", "failed"} /\ "none" \in Steps
    BY <1>2 DEF Steps
  <2>2. jobs[t] \in Job
    BY TaskTyped
  <2> QED  BY <2>1, <2>2 DEF Job
<1> HIDE DEF j
<1>7. jobs' \in [Tasks -> Job] /\ jobs'[t] = j /\ \A u \in Tasks \ {t} : jobs'[u] = jobs[u]
  BY <1>1, <1>6, TaskTyped
<1>8. Moves(t)
  <2>1. Left(t) \subseteq Tasks
    BY TaskTyped DEF Left, CallInv
  <2>2. struck' \subseteq Tasks /\ struck \cup Left(t) \subseteq struck'
    BY <1>1, <2>1, TaskTyped
  <2>3. faults' \in 0..MaxFaults
    BY <1>1, TaskTyped, SchedulingAssumption DEF Strike
  <2> QED  BY <1>1, <1>2, <1>4, <1>5, <1>7, <2>2, <2>3, TaskTyped DEF Moves
<1>9. JobInv(t)'
  <2>1. jobs'[t] # NoJob
    BY <1>2, <1>5, <1>7 DEF NoJob
  <2> QED  BY <1>1, <1>2, <1>5, <1>7, <2>1, TaskTyped DEF JobInv
<1>10. StepInv(t)'
  BY <1>1, <1>2, <1>3, <1>5, <1>7 DEF StepInv
<1>11. ToldInv(t)'
  BY <1>2, <1>5, <1>7 DEF ToldInv
<1>12. PastSchedule(t)' => PastSchedule(t)
  BY <1>1, <1>5, <1>7 DEF PastSchedule
<1>13. PastSchedule(t) /\ rows[t].kind \in Sourced => Postprocessed(t)
  BY DEF IInv, PostInv
<1> QED  BY <1>1, <1>8, <1>9, <1>10, <1>11, <1>12, <1>13, MoveKeepsInv

\* A task that has nothing to schedule goes on to publish.
LEMMA ExecutePublishes ==
  ASSUME IInv, NEW t \in Tasks, Execute(t), FollowUp(t).kind = None
  PROVE  IInv'
<1>1. /\ jobs[t].state = "active" /\ jobs[t].step = "execute" /\ ~Gone(t) /\ Goto(t, "publish")
      /\ UNCHANGED <<calls, rows, struck, faults, told>>
  BY DEF Execute, At
<1>2. "publish" \in Steps \ {"schedule"} /\ "publish" \in Steps
  BY DEF Steps
<1>3. /\ jobs'[t].state = "active" /\ jobs'[t].step = "publish" /\ jobs'[t].stalls = jobs[t].stalls
      /\ jobs'[t].failures = jobs[t].failures
  BY <1>1, <1>2, GotoFacts
<1>4. rows[t].status = "running"
  BY <1>1, TaskTyped DEF StepInv, Gone
<1>5. Moves(t) /\ JobInv(t)'
  BY <1>1, <1>2, StepMoves, TaskTyped
<1>6. StepInv(t)'
  BY <1>1, <1>3, <1>4 DEF StepInv
<1>7. ToldInv(t)'
  BY <1>1, <1>3, TaskTyped DEF ToldInv
<1>8. rows[t].kind \notin Sourced
  BY EngineAssumption, SchedulingAssumption DEF FollowUp, Sourced, TaskKinds
<1> QED  BY <1>1, <1>5, <1>6, <1>7, <1>8, MoveKeepsInv

\* An error changes the worker's step only.
LEMMA ExecuteThrowsInv ==
  ASSUME IInv, NEW t \in Tasks, ExecuteThrows(t)
  PROVE  IInv'
<1>1. /\ jobs[t].state = "active" /\ jobs[t].step = "execute" /\ Goto(t, "catch")
      /\ UNCHANGED <<calls, rows, struck, faults, told>>
  BY DEF ExecuteThrows, Throw, At
<1>2. "catch" \in Steps \ {"schedule"} /\ "catch" \in Steps
  BY DEF Steps
<1>3. /\ jobs'[t].state = "active" /\ jobs'[t].step = "catch" /\ jobs'[t].stalls = jobs[t].stalls
      /\ jobs'[t].failures = jobs[t].failures
  BY <1>1, <1>2, GotoFacts
<1>4. rows[t].status \in {"running", "none"}
  BY <1>1, TaskTyped DEF StepInv
<1>5. Moves(t) /\ JobInv(t)'
  BY <1>1, <1>2, StepMoves, TaskTyped
<1>6. StepInv(t)'
  BY <1>1, <1>3, <1>4 DEF StepInv
<1>7. ToldInv(t)'
  BY <1>1, <1>3, TaskTyped DEF ToldInv
<1>8. ~PastSchedule(t)'
  BY <1>1, <1>3, <1>4 DEF PastSchedule
<1> QED  BY <1>1, <1>5, <1>6, <1>7, <1>8, MoveKeepsInv

\* What is told before the failure is told between the publication and the end of
\* the job.
LEMMA AnnounceInv ==
  ASSUME IInv, NEW t \in Tasks, Announce(t) \/ WriteMessage(t)
  PROVE  IInv'
<1>1. /\ jobs[t].state = "active" /\ jobs[t].step \in {"announce", "message"}
      /\ UNCHANGED <<calls, rows, struck, faults>>
  BY DEF Announce, WriteMessage, At
<1>2. PICK s \in {"message", "complete"} : Goto(t, s)
  BY DEF Announce, WriteMessage
<1>3. s \in Steps \ {"schedule"} /\ s \in Steps /\ s # "none"
  BY DEF Steps
<1>4. /\ jobs'[t].state = "active" /\ jobs'[t].step = s /\ jobs'[t].stalls = jobs[t].stalls
      /\ jobs'[t].failures = jobs[t].failures
  BY <1>1, <1>2, <1>3, GotoFacts
<1>5. /\ told' \in [Tasks -> SUBSET Messages]
      /\ \A u \in Tasks \ {t} : told'[u] = told[u]
      /\ "failure" \in told'[t] => "failure" \in told[t]
  BY TaskTyped DEF Announce, WriteMessage, Tell, Messages
<1>6. rows[t].status \in {"published", "none"}
  BY <1>1, TaskTyped DEF StepInv
<1>7. Moves(t) /\ JobInv(t)'
  BY <1>1, <1>2, <1>3, <1>5, StepMoves, TaskTyped
<1>8. StepInv(t)'
  BY <1>1, <1>4, <1>6 DEF StepInv
<1>9. ToldInv(t)'
  BY <1>1, <1>4, <1>5, TaskTyped DEF ToldInv
<1>10. rows[t].kind \in Sourced => Postprocessed(t)
  BY <1>1 DEF IInv, PostInv, PastSchedule
<1> QED  BY <1>1, <1>7, <1>8, <1>9, <1>10, MoveKeepsInv

\* Thrown over or not, what was told by then was no failure.
LEMMA AnnounceThrowsInv ==
  ASSUME IInv, NEW t \in Tasks, AnnounceThrows(t)
  PROVE  IInv'
<1>1. /\ jobs[t].state = "active" /\ jobs[t].step \in {"announce", "message"} /\ Goto(t, "catch")
      /\ UNCHANGED <<calls, rows, struck>> /\ Strike
  BY DEF AnnounceThrows, Throw, At
<1>2. "catch" \in Steps \ {"schedule"} /\ "catch" \in Steps
  BY DEF Steps
<1>3. /\ jobs'[t].state = "active" /\ jobs'[t].step = "catch" /\ jobs'[t].stalls = jobs[t].stalls
      /\ jobs'[t].failures = jobs[t].failures
  BY <1>1, <1>2, GotoFacts
<1>4. /\ told' \in [Tasks -> SUBSET Messages]
      /\ \A u \in Tasks \ {t} : told'[u] = told[u]
      /\ "failure" \in told'[t] => "failure" \in told[t]
  BY TaskTyped DEF AnnounceThrows, Tell, Messages
<1>5. rows[t].status \in {"published", "none"}
  BY <1>1, TaskTyped DEF StepInv
<1>6. faults' \in 0..MaxFaults
  BY <1>1, TaskTyped, SchedulingAssumption DEF Strike
<1>7. Moves(t) /\ JobInv(t)'
  BY <1>1, <1>2, <1>4, <1>6, StepMoves, TaskTyped
<1>8. StepInv(t)'
  BY <1>1, <1>3, <1>5 DEF StepInv
<1>9. ToldInv(t)'
  BY <1>1, <1>3, <1>4, TaskTyped DEF ToldInv
<1>10. rows[t].kind \in Sourced => Postprocessed(t)
  BY <1>1 DEF IInv, PostInv, PastSchedule
<1> QED  BY <1>1, <1>7, <1>8, <1>9, <1>10, MoveKeepsInv

\* The failure is told after the row is marked failed.
LEMMA ApologiseInv ==
  ASSUME IInv, NEW t \in Tasks, Apologise(t)
  PROVE  IInv'
<1>1. /\ jobs[t].state = "active" /\ jobs[t].step = "apologise" /\ Goto(t, "rethrow")
      /\ UNCHANGED <<calls, rows, struck, faults>>
  BY DEF Apologise, At
<1>2. "rethrow" \in Steps \ {"schedule"} /\ "rethrow" \in Steps
  BY DEF Steps
<1>3. /\ jobs'[t].state = "active" /\ jobs'[t].step = "rethrow" /\ jobs'[t].stalls = jobs[t].stalls
      /\ jobs'[t].failures = jobs[t].failures
  BY <1>1, <1>2, GotoFacts
<1>4. /\ told' \in [Tasks -> SUBSET Messages]
      /\ \A u \in Tasks \ {t} : told'[u] = told[u]
  BY TaskTyped DEF Apologise, Tell, Messages
<1>5. rows[t].status \in {"failed", "none"} /\ LastTry(t)
  BY <1>1, TaskTyped DEF StepInv
<1>6. Moves(t) /\ JobInv(t)'
  BY <1>1, <1>2, <1>4, StepMoves, TaskTyped
<1>7. StepInv(t)'
  BY <1>1, <1>3, <1>5 DEF StepInv, LastTry
<1>8. ToldInv(t)'
  BY <1>1, <1>3, <1>5 DEF ToldInv, LastTry
<1>9. ~PastSchedule(t)'
  BY <1>1, <1>3, <1>5 DEF PastSchedule
<1> QED  BY <1>1, <1>6, <1>7, <1>8, <1>9, MoveKeepsInv
-----------------------------------------------------------------------------
(* Calls *)

\* What the invariant says of a call.
LEMMA CallTyped ==
  ASSUME IInv, NEW c \in Callers
  PROVE  /\ calls \in [Callers -> Call] /\ calls[c] \in Call
         /\ calls[c].stage \in {"idle", "lookup", "insert", "add", "delete"}
         /\ calls[c].kind \in Kinds \cup {None} /\ calls[c].key \in Keys \cup {None}
         /\ calls[c].source \in Tasks \cup {None} /\ calls[c].task \in Tasks \cup {None}
         /\ CallInv(c)
         /\ NoCall \in Call
<1>1. calls \in [Callers -> Call] /\ calls[c] \in Call
  BY DEF IInv, TypeOK, SchedulingTypeOK
<1>2. NoCall \in Call
  BY DEF NoCall, Call
<1>3. CallInv(c)
  BY DEF IInv, CallsInv
<1> QED  BY <1>1, <1>2, <1>3 DEF Call

\* A call that begins, or is to insert what it looked for, leaves the rows alone.
LEMMA CallKeepsInv ==
  ASSUME IInv, NEW c \in Callers, NEW call \in Call,
         calls' = [calls EXCEPT ![c] = call], call.stage \in {"lookup", "insert"},
         calls[c].stage \notin {"add", "delete"}, CallInv(c)',
         UNCHANGED <<rows, struck, faults, told>>,
         jobs' = jobs \/ (c \in Tasks /\ jobs[c].step = "execute" /\ rows[c].status = "running" /\ Goto(c, "schedule"))
  PROVE  IInv'
<1>1. calls' \in [Callers -> Call] /\ calls'[c] = call /\ \A d \in Callers \ {c} : calls'[d] = calls[d]
  BY CallTyped
<1>2. /\ jobs' \in [Tasks -> Job]
      /\ \A u \in Tasks : jobs'[u].state = jobs[u].state
      /\ \A u \in Tasks : jobs'[u].stalls = jobs[u].stalls
      /\ \A u \in Tasks : jobs'[u].failures = jobs[u].failures
      /\ \A u \in Tasks \ {c} : jobs'[u] = jobs[u]
      /\ \/ jobs' = jobs
         \/ /\ c \in Tasks /\ rows[c].status = "running"
            /\ jobs[c].step = "execute" /\ jobs'[c].step = "schedule"
  <2>1. CASE jobs' = jobs
    BY <2>1 DEF IInv, TypeOK, SchedulingTypeOK
  <2>2. CASE c \in Tasks /\ jobs[c].step = "execute" /\ rows[c].status = "running" /\ Goto(c, "schedule")
    <3>1. "schedule" \in Steps
      BY DEF Steps
    <3> QED  BY <2>2, <3>1, GotoFacts
  <2> QED  BY <2>1, <2>2
<1>3. TypeOK'
  BY <1>1, <1>2 DEF IInv, TypeOK, SchedulingTypeOK
<1>4. TaskInv'
  <2> SUFFICES ASSUME NEW u \in Tasks PROVE (JobInv(u) /\ StepInv(u) /\ ToldInv(u))'
    BY DEF TaskInv
  <2>1. JobInv(u) /\ StepInv(u) /\ ToldInv(u)
    BY TaskTyped
  <2>2. CASE jobs'[u] = jobs[u]
    BY <2>1, <2>2 DEF JobInv, StepInv, ToldInv, LastTry, Gone
  <2>3. CASE u = c /\ jobs[u].step = "execute" /\ jobs'[u].step = "schedule" /\ rows[u].status = "running"
    <3>1. JobInv(u)'
      BY <1>2, <2>1, <2>3 DEF JobInv, NoJob, Gone
    <3>2. StepInv(u)'
      BY <1>2, <2>1, <2>3 DEF StepInv, JobInv
    <3>3. ToldInv(u)'
      BY <1>2, <2>1, <2>3 DEF ToldInv, JobInv
    <3> QED  BY <3>1, <3>2, <3>3
  <2> QED  BY <1>2, <2>2, <2>3
<1>5. \A k : (Doubled(k)' <=> Doubled(k)) /\ Holders(k)' = Holders(k)
  BY <1>2 DEF Doubled, Holders, Gone
<1>6. CallsInv'
  <2> SUFFICES ASSUME NEW d \in Callers, d # c PROVE CallInv(d)'
    BY DEF CallsInv
  <2>1. calls'[d] = calls[d] /\ CallInv(d)
    BY <1>1, CallTyped
  <2>2. d \in Tasks => jobs'[d] = jobs[d]
    BY <1>2
  <2>3. calls[d].stage = "add" => jobs'[calls[d].task] = NoJob
    BY <1>2, <2>1 DEF CallInv, NoJob
  <2>4. (Doubled(calls[d].key)' <=> Doubled(calls[d].key)) /\ Holders(calls[d].key)' = Holders(calls[d].key)
    BY <1>5
  <2>5. (Doubled(calls[d].key) \/ Holders(calls[d].key) = {})' <=> (Doubled(calls[d].key)' \/ Holders(calls[d].key)' = {})
    BY <2>1 DEF Doubled, Holders, Gone
  <2>6. (~Gone(calls[d].task))' <=> ~Gone(calls[d].task)
    BY <2>1 DEF Gone
  <2> QED  BY <2>1, <2>2, <2>3, <2>4, <2>5, <2>6 DEF CallInv
<1>7. AddInv'
  BY <1>1 DEF IInv, AddInv, Adding
<1>8. WaitInv'
  <2> SUFFICES ASSUME NEW u \in Tasks \ struck, rows[u].status \in LiveStatuses, jobs'[u].state = "none"
               PROVE  \E d \in Callers : Adding(d, u)'
    BY DEF WaitInv
  <2>1. PICK d \in Callers : Adding(d, u)
    BY <1>2 DEF IInv, WaitInv
  <2> QED  BY <1>1, <2>1 DEF Adding
<1>9. OneHolder'
  BY <1>5 DEF IInv, OneHolder
<1>10. PostInv'
  <2> SUFFICES ASSUME NEW u \in Tasks, PastSchedule(u)', rows[u].kind \in Sourced PROVE Postprocessed(u)
    BY DEF PostInv, Postprocessed, Gone
  <2>1. PastSchedule(u)
    BY <1>2 DEF PastSchedule
  <2> QED  BY <2>1 DEF IInv, PostInv
<1> QED
  BY <1>3, <1>4, <1>6, <1>7, <1>8, <1>9, <1>10 DEF IInv

\* A client calls with a key of its own, never with a derived one.
LEMMA RequestInv ==
  ASSUME IInv, NEW c \in Clients, Request(c)
  PROVE  IInv'
<1>1. c \in Callers /\ c \notin Tasks
  BY SchedulingAssumption DEF Callers
<1>2. PICK kind \in ClientKinds, key \in ClientKeys : calls' = Calling(c, kind, key, None)
  BY DEF Request
<1> DEFINE call == [NoCall EXCEPT !.stage = "lookup", !.kind = kind, !.key = key, !.source = None]
<1>3. /\ kind \in Kinds /\ kind # "post"
      /\ key \in Keys \cup {None} /\ key \notin DerivedKeys
  BY EngineAssumption DEF TaskKinds
<1>4. calls' = [calls EXCEPT ![c] = call]
  BY <1>2 DEF Calling
<1>5. call.stage = "lookup" /\ call.kind = kind /\ call.key = key
  BY DEF NoCall
<1>6. call \in Call
  BY <1>3 DEF NoCall, Call
<1>7. calls[c].stage = "idle" /\ UNCHANGED <<rows, jobs, struck, faults, told>>
  BY DEF Request
<1> HIDE DEF call
<1>8. calls'[c] = call
  BY <1>1, <1>4, CallTyped
<1>9. CallInv(c)'
  BY <1>1, <1>3, <1>5, <1>8 DEF CallInv
<1> QED  BY <1>1, <1>4, <1>5, <1>6, <1>7, <1>9, CallKeepsInv

\* The task that a task schedules has a key of its own.
LEMMA ExecuteSchedules ==
  ASSUME IInv, NEW t \in Tasks, Execute(t), FollowUp(t).kind # None
  PROVE  IInv'
<1> DEFINE kind == FollowUp(t).kind
           key  == FollowUp(t).key
           call == [NoCall EXCEPT !.stage = "lookup", !.kind = kind, !.key = key, !.source = t]
<1>1. /\ jobs[t].step = "execute" /\ ~Gone(t) /\ Goto(t, "schedule")
      /\ calls' = [calls EXCEPT ![t] = call]
      /\ UNCHANGED <<rows, struck, faults, told>>
  BY DEF Execute, At, Calling
<1>2. rows[t].status = "running"
  BY <1>1, TaskTyped DEF StepInv, Gone
<1>3. \/ kind = "post" /\ key = PostKey(t)
      \/ kind = "encode" /\ rows[t].kind = "post" /\ key = MemoryKey(rows[t].source)
  BY DEF FollowUp
<1>4. rows[t].kind = "post" => rows[t].source \in Tasks
  BY TaskTyped DEF JobInv
<1>5. kind \in Kinds /\ key \in DerivedKeys /\ key \in Keys
  BY <1>3, <1>4, EngineAssumption, DerivedKeyFacts DEF TaskKinds
<1>6. call.stage = "lookup" /\ call.kind = kind /\ call.key = key /\ call.source = t
  BY DEF NoCall
<1> HIDE DEF kind, key
<1>7. call \in Call
  BY <1>5 DEF NoCall, Call
<1> HIDE DEF call
<1>8. calls'[t] = call /\ t \in Callers
  BY <1>1, CallTyped, TaskTyped
<1>9. jobs'[t].step = "schedule"
  <2>1. "schedule" \in Steps
    BY DEF Steps
  <2> QED  BY <1>1, <2>1, GotoFacts
<1>10. CallInv(t)'
  BY <1>1, <1>3, <1>5, <1>6, <1>8, <1>9 DEF CallInv
<1>11. calls[t].stage = "idle"
  BY <1>1, TaskTyped DEF CallInv
<1> QED  BY <1>1, <1>2, <1>6, <1>7, <1>8, <1>10, <1>11, CallKeepsInv

\* Nobody holds the key: the caller goes on to insert.
LEMMA LookUpMisses ==
  ASSUME IInv, NEW c \in Callers, LookUp(c), UNCHANGED told, ~KeyHeld(calls[c].key)
  PROVE  IInv'
<1> DEFINE call == [calls[c] EXCEPT !.stage = "insert"]
<1>1. /\ calls[c].stage = "lookup" /\ calls' = [calls EXCEPT ![c] = call]
      /\ UNCHANGED <<rows, jobs, struck, faults, told>>
  BY DEF LookUp
<1>2. /\ call.stage = "insert" /\ call.kind = calls[c].kind /\ call.key = calls[c].key
      /\ call.source = calls[c].source
  BY CallTyped DEF Call
<1>3. call \in Call
  BY CallTyped DEF Call
<1> HIDE DEF call
<1>4. calls'[c] = call
  BY <1>1, CallTyped
<1>5. calls[c].key \in DerivedKeys => Holders(calls[c].key) = {}
  BY DerivedKeyFacts DEF KeyHeld, Holders
<1>6. CallInv(c)'
  BY <1>1, <1>2, <1>4, <1>5, CallTyped DEF CallInv, Holders, Doubled, Gone
<1> QED  BY <1>1, <1>2, <1>3, <1>6, CallKeepsInv

\* A client that is done, or dies.
LEMMA ClientEnds ==
  ASSUME IInv, NEW c \in Clients, calls' = [calls EXCEPT ![c] = NoCall],
         UNCHANGED <<rows, jobs, told>>, faults' \in 0..MaxFaults,
         struck' \subseteq Tasks, struck \cup Left(c) \subseteq struck'
  PROVE  IInv'
<1>1. c \in Callers /\ c \notin Tasks
  BY SchedulingAssumption DEF Callers
<1>2. calls' \in [Callers -> Call] /\ calls'[c] = NoCall /\ \A d \in Callers \ {c} : calls'[d] = calls[d]
  BY <1>1, CallTyped
<1>3. TypeOK'
  BY <1>2 DEF IInv, TypeOK, SchedulingTypeOK
<1>4. TaskInv'
  <2> SUFFICES ASSUME NEW u \in Tasks PROVE (JobInv(u) /\ StepInv(u) /\ ToldInv(u))'
    BY DEF TaskInv
  <2> QED  BY TaskTyped DEF JobInv, StepInv, ToldInv, LastTry, Gone
<1>5. CallsInv'
  <2> SUFFICES ASSUME NEW d \in Callers PROVE CallInv(d)'
    BY DEF CallsInv
  <2>1. CASE d = c
    BY <1>1, <1>2, <2>1, EngineAssumption, SchedulingAssumption DEF CallInv, NoCall, TaskKinds
  <2>2. CASE d # c
    BY <1>2, <2>2, CallTyped DEF CallInv, Doubled, Holders, Gone
  <2> QED  BY <2>1, <2>2
<1>6. AddInv'
  BY <1>2 DEF IInv, AddInv, Adding, NoCall
<1>7. WaitInv'
  <2> SUFFICES ASSUME NEW u \in Tasks \ struck', rows[u].status \in LiveStatuses, jobs[u].state = "none"
               PROVE  \E d \in Callers : Adding(d, u)'
    BY DEF WaitInv
  <2>1. PICK d \in Callers : Adding(d, u)
    BY DEF IInv, WaitInv
  <2>2. d # c
    BY <2>1, TaskNoJob DEF Left, Adding
  <2> QED  BY <1>2, <2>1, <2>2 DEF Adding
<1>8. OneHolder'
  BY DEF IInv, OneHolder, Doubled, Holders, Gone
<1>9. PostInv'
  BY DEF IInv, PostInv, PastSchedule, Postprocessed, Gone
<1> QED
  BY <1>3, <1>4, <1>5, <1>6, <1>7, <1>8, <1>9 DEF IInv

\* Somebody holds the key: a worker goes on to publish, a client returns.
LEMMA LookUpFinds ==
  ASSUME IInv, NEW c \in Callers, LookUp(c), UNCHANGED told, KeyHeld(calls[c].key)
  PROVE  IInv'
<1>1. /\ calls[c].stage = "lookup" /\ calls' = [calls EXCEPT ![c] = NoCall] /\ jobs' = Resumed(c, "publish")
      /\ UNCHANGED <<rows, struck, faults, told>>
  BY DEF LookUp
<1>2. Left(c) = {}
  BY <1>1 DEF Left
<1>3. CASE c \notin Tasks
  <2>1. c \in Clients /\ UNCHANGED jobs
    BY <1>1, <1>3 DEF Callers, Resumed
  <2>2. struck' \subseteq Tasks /\ faults' \in 0..MaxFaults
    BY <1>1 DEF IInv, TypeOK, SchedulingTypeOK
  <2> QED  BY <1>1, <1>2, <2>1, <2>2, ClientEnds
<1>4. CASE c \in Tasks
  <2>1. jobs[c].step = "schedule" /\ jobs[c].state = "active" /\ rows[c].status \in {"running", "none"}
    BY <1>1, <1>4, TaskTyped DEF CallInv, JobInv, StepInv
  <2>2. Goto(c, "publish") /\ "publish" \in Steps
    BY <1>1, <1>4 DEF Resumed, Goto, Steps
  <2>3. /\ jobs' \in [Tasks -> Job] /\ \A u \in Tasks \ {c} : jobs'[u] = jobs[u]
        /\ jobs'[c].state = "active" /\ jobs'[c].step = "publish"
        /\ jobs'[c].stalls = jobs[c].stalls /\ jobs'[c].failures = jobs[c].failures
    BY <1>4, <2>1, <2>2, GotoFacts
  <2>4. Moves(c)
    BY <1>1, <1>2, <1>4, <2>1, <2>3, TaskTyped DEF Moves
  <2>5. JobInv(c)'
    BY <1>1, <1>4, <2>1, <2>3, TaskTyped DEF JobInv, NoJob
  <2>6. StepInv(c)'
    BY <1>1, <2>1, <2>3 DEF StepInv
  <2>7. ToldInv(c)'
    BY <1>1, <1>4, <2>1, <2>3, TaskTyped DEF ToldInv
  <2>8. rows[c].kind \in Sourced => Postprocessed(c)
    <3>1. \A p \in Tasks : rows[p].status \in HoldingStatuses => ~Gone(p)
      BY DEF Gone, HoldingStatuses, LiveStatuses
    <3> QED  BY <1>1, <1>4, <3>1, CallTyped DEF CallInv, Sourced, KeyHeld, Postprocessed
  <2> QED  BY <1>1, <1>4, <2>4, <2>5, <2>6, <2>7, <2>8, MoveKeepsInv
<1> QED  BY <1>3, <1>4

\* A client that dies may leave a row without a job: the task is struck.
LEMMA ClientDiesInv ==
  ASSUME IInv, NEW c \in Clients, ClientDies(c), UNCHANGED told
  PROVE  IInv'
<1>1. c \in Callers
  BY DEF Callers
<1>2. Left(c) \subseteq Tasks
  BY <1>1, CallTyped DEF Left, CallInv
<1>3. struck' \subseteq Tasks /\ faults' \in 0..MaxFaults
  BY <1>2, SchedulingAssumption DEF ClientDies, Strike, IInv, TypeOK, SchedulingTypeOK
<1> QED  BY <1>3, ClientEnds DEF ClientDies

\* A key that is inserted has one row: no other caller has come between.
LEMMA InsertRowInv ==
  ASSUME IInv, NEW c \in Callers, InsertRow(c), UNCHANGED told
  PROVE  IInv'
<1> DEFINE t    == CHOOSE x \in FreeTasks : TRUE
           row  == [status |-> "queued", kind |-> calls[c].kind,
                    key |-> calls[c].key, source |-> calls[c].source]
           call == [calls[c] EXCEPT !.stage = "add", !.task = t]
           k    == calls[c].key
<1>1. /\ calls[c].stage = "insert" /\ t \in Tasks /\ rows[t] = NoRow /\ jobs[t] = NoJob
      /\ rows' = [rows EXCEPT ![t] = row] /\ calls' = [calls EXCEPT ![c] = call]
      /\ UNCHANGED <<jobs, struck, faults, told>>
  BY DEF InsertRow, FreeTasks
<1> HIDE DEF t
<1>2. row \in Row /\ row.status = "queued" /\ row.kind = calls[c].kind /\ row.key = k /\ row.source = calls[c].source
  <2>1. "queued" \in HoldingStatuses
    BY DEF HoldingStatuses, LiveStatuses
  <2> QED  BY <2>1, CallTyped DEF Row
<1>3. /\ call.stage = "add" /\ call.task = t /\ call.kind = calls[c].kind /\ call.key = k
      /\ call.source = calls[c].source
  BY CallTyped DEF Call
<1>4. call \in Call
  BY <1>1, CallTyped DEF Call
<1> HIDE DEF row, call
<1>5. calls' \in [Callers -> Call] /\ calls'[c] = call /\ \A d \in Callers \ {c} : calls'[d] = calls[d]
  BY <1>1, <1>4, CallTyped
<1>6. rows' \in [Tasks -> Row] /\ rows'[t] = row /\ \A u \in Tasks \ {t} : rows'[u] = rows[u]
  BY <1>1, <1>2, TaskTyped
<1>7. rows[t].status = "none" /\ rows[t].kind = None /\ rows[t].key = None
  BY <1>1 DEF NoRow
<1>8. jobs[t].state = "none" /\ jobs[t].step = "none" /\ jobs[t].stalls = 0
  BY <1>1 DEF NoJob
<1>9. c # t
  BY <1>1, <1>8, CallTyped DEF CallInv
<1>10. \A d \in Callers : calls[d].stage \in {"add", "delete"} => calls[d].task # t
  BY <1>7, CallTyped DEF CallInv, Gone
<1>11. \A d \in Callers : d \in Tasks /\ calls[d].stage # "idle" => d # t
  BY <1>8, CallTyped DEF CallInv
<1>12. TypeOK'
  BY <1>1, <1>5, <1>6 DEF IInv, TypeOK, SchedulingTypeOK
<1>13. TaskInv'
  <2> SUFFICES ASSUME NEW u \in Tasks PROVE (JobInv(u) /\ StepInv(u) /\ ToldInv(u))'
    BY DEF TaskInv
  <2>1. JobInv(u) /\ StepInv(u) /\ ToldInv(u)
    BY TaskTyped
  <2>2. ToldInv(u)'
    <3>1. jobs' = jobs /\ told' = told /\ (u # t => rows'[u] = rows[u])
      BY <1>1, <1>6
    <3>2. u = t => ~("failure" \in told[u] /\ jobs[u].stalls = 0)
      BY <1>8, <2>1 DEF ToldInv
    <3> QED  BY <2>1, <3>1, <3>2 DEF ToldInv, LastTry
  <2>3. CASE u # t
    <3>1. rows'[u] = rows[u] /\ jobs'[u] = jobs[u] /\ struck' = struck
      BY <1>1, <1>6, <2>3
    <3>2. JobInv(u)'  BY <2>1, <3>1 DEF JobInv, Gone
    <3>3. StepInv(u)'  BY <2>1, <3>1 DEF StepInv, LastTry
    <3> QED  BY <2>2, <3>2, <3>3
  <2>4. CASE u = t
    <3>1. JobInv(u)'
      BY <1>1, <1>2, <1>6, <2>1, <2>4, CallTyped DEF JobInv, CallInv, Gone
    <3>2. StepInv(u)'
      BY <1>1, <1>2, <1>6, <1>8, <2>4 DEF StepInv
    <3> QED  BY <2>2, <3>1, <3>2
  <2> QED  BY <2>3, <2>4
<1>14. \A x \in DerivedKeys : Doubled(x) => Doubled(x)'
  <2> SUFFICES ASSUME NEW x \in DerivedKeys, x.of = "memory",
                      NEW p \in Tasks, rows[p].key = PostKey(x.task), jobs[p].stalls > 0 \/ Gone(p)
               PROVE  Doubled(x)'
    BY DEF Doubled
  <2>1. x.task \in Tasks
    BY DEF DerivedKeys
  <2>2. p # t
    BY <1>7, <2>1, DerivedKeyFacts
  <2>3. rows'[p] = rows[p] /\ jobs' = jobs
    BY <1>1, <1>6, <2>2
  <2> QED  BY <2>3 DEF Doubled, Gone
<1>15. \A x \in DerivedKeys : x # k => Holders(x)' \subseteq Holders(x)
  BY <1>1, <1>2, <1>6 DEF Holders
<1>16. \A x : Holders(x)' \subseteq Holders(x) \cup {t}
  BY <1>1, <1>6 DEF Holders
<1>17. k \in DerivedKeys => Doubled(k) \/ Holders(k) = {}
  BY <1>1, CallTyped DEF CallInv
<1>18. CallsInv'
  <2> SUFFICES ASSUME NEW d \in Callers PROVE CallInv(d)'
    BY DEF CallsInv
  <2>1. d \in Tasks /\ calls[d].stage # "idle" => rows'[d] = rows[d]
    BY <1>6, <1>11
  <2>2. CallInv(d)
    BY CallTyped
  <2>3. CASE d = c
    <3>1. /\ calls'[d].stage = "add" /\ calls'[d].task = t /\ calls'[d].kind = calls[d].kind
          /\ calls'[d].key = calls[d].key /\ calls'[d].source = calls[d].source
      BY <1>3, <1>5, <2>3
    <3>2. jobs' = jobs /\ jobs[t] = NoJob /\ t \in Tasks /\ calls[d].stage = "insert"
      BY <1>1, <2>3
    <3>3. rows'[t].status = "queued" /\ rows'[t].key = calls[d].key /\ d # t
      BY <1>2, <1>6, <1>9, <2>3
    <3> QED  BY <2>1, <2>2, <3>1, <3>2, <3>3 DEF CallInv, Gone
  <2>4. CASE d # c
    <3>1. calls'[d] = calls[d] /\ jobs' = jobs
      BY <1>1, <1>5, <2>4
    <3>2. calls[d].stage \in {"add", "delete"} => rows'[calls[d].task] = rows[calls[d].task]
      BY <1>6, <1>10, <2>2 DEF CallInv
    <3>3. \A x \in DerivedKeys :
            calls[d].stage = "insert" /\ calls[d].key = x => Doubled(x)' \/ Holders(x)' = {}
      <4> SUFFICES ASSUME NEW x \in DerivedKeys, calls[d].stage = "insert",
                          calls[d].key = x, ~Doubled(x)
                   PROVE  Holders(x)' = {}
        BY <1>14
      <4>1. x # k
        BY <1>1, <2>4, OneCaller
      <4>2. Holders(x) = {}
        BY <2>2 DEF CallInv
      <4> QED  BY <1>15, <4>1, <4>2
    <3>4. (calls[d].stage = "insert" /\ calls[d].key \in DerivedKeys =>
             Doubled(calls[d].key) \/ Holders(calls[d].key) = {})'
      BY <3>1, <3>3 DEF Doubled, Holders, Gone
    <3> QED  BY <2>1, <2>2, <3>1, <3>2, <3>3, <3>4 DEF CallInv, Gone
  <2> QED  BY <2>3, <2>4
<1>19. AddInv'
  BY <1>3, <1>5, <1>10 DEF IInv, AddInv, Adding
<1>20. WaitInv'
  <2> SUFFICES ASSUME NEW u \in Tasks \ struck, rows'[u].status \in LiveStatuses, jobs[u].state = "none"
               PROVE  \E d \in Callers : Adding(d, u)'
    BY <1>1 DEF WaitInv
  <2>1. CASE u = t
    BY <1>3, <1>5, <2>1 DEF Adding
  <2>2. CASE u # t
    <3>1. PICK d \in Callers : Adding(d, u)
      BY <1>6, <2>2 DEF IInv, WaitInv
    <3>2. d # c
      BY <1>1, <3>1 DEF Adding
    <3> QED  BY <1>5, <3>1, <3>2 DEF Adding
  <2> QED  BY <2>1, <2>2
<1>21. OneHolder'
  <2> SUFFICES ASSUME NEW x \in DerivedKeys, ~Doubled(x), NEW u \in Holders(x)', NEW v \in Holders(x)'
               PROVE  u = v
    BY <1>14 DEF OneHolder
  <2>1. CASE x = k
    BY <1>16, <1>17, <2>1
  <2>2. CASE x # k
    BY <1>15, <2>2 DEF IInv, OneHolder
  <2> QED  BY <2>1, <2>2
<1>22. PostInv'
  <2> SUFFICES ASSUME NEW u \in Tasks, PastSchedule(u)', rows'[u].kind \in Sourced PROVE Postprocessed(u)'
    BY DEF PostInv
  <2>1. u # t
    BY <1>1, <1>2, <1>6, <1>8 DEF PastSchedule
  <2>2. PICK p \in Tasks : rows[p].key = PostKey(u) /\ ~Gone(p)
    BY <1>1, <1>6, <2>1 DEF IInv, PostInv, PastSchedule, Postprocessed
  <2>3. p # t
    BY <1>7, <2>2 DEF Gone
  <2> QED  BY <1>6, <2>2, <2>3 DEF Postprocessed, Gone
<1> QED
  BY <1>12, <1>13, <1>18, <1>19, <1>20, <1>21, <1>22 DEF IInv

\* What the end of an insertion does to the caller's own job.
LEMMA ResumedFacts ==
  ASSUME IInv, NEW c \in Callers, NEW s \in Steps, calls[c].stage \in {"add", "delete"}
  PROVE  /\ Resumed(c, s) \in [Tasks -> Job]
         /\ \A u \in Tasks \ {c} : Resumed(c, s)[u] = jobs[u]
         /\ c \in Tasks => /\ Resumed(c, s)[c].state = "active" /\ Resumed(c, s)[c].step = s
                           /\ Resumed(c, s)[c].stalls = jobs[c].stalls
                           /\ Resumed(c, s)[c].failures = jobs[c].failures
                           /\ jobs[c].state = "active" /\ jobs[c].step = "schedule"
                           /\ rows[c].status \in {"running", "none"} /\ c # calls[c].task
         /\ c \notin Tasks => Resumed(c, s) = jobs
<1>1. CASE c \notin Tasks
  BY <1>1 DEF Resumed, IInv, TypeOK, SchedulingTypeOK
<1>2. CASE c \in Tasks
  <2> DEFINE j == [jobs[c] EXCEPT !.step = s]
  <2>1. Resumed(c, s) = [jobs EXCEPT ![c] = j]
    BY <1>2 DEF Resumed
  <2>2. j \in Job
    BY <1>2, TaskTyped DEF Job, Steps
  <2>3. j.state = jobs[c].state /\ j.step = s /\ j.stalls = jobs[c].stalls /\ j.failures = jobs[c].failures
    BY <1>2, TaskTyped DEF Job
  <2> HIDE DEF j
  <2>4. jobs[c].step = "schedule" /\ jobs[c].state = "active" /\ rows[c].status \in {"running", "none"}
    BY <1>2, TaskTyped DEF CallInv, JobInv, StepInv
  <2>5. c # calls[c].task
    BY CallTyped DEF CallInv
  <2> QED  BY <1>2, <2>1, <2>2, <2>3, <2>4, <2>5, TaskTyped
<1> QED  BY <1>1, <1>2

\* A job that has just been added.
LEMMA WaitingJob ==
  LET job == [NoJob EXCEPT !.state = "waiting"] IN
    /\ job \in Job /\ job.state = "waiting" /\ job.step = "none" /\ job.stalls = 0 /\ job.failures = 0
    /\ NoJob \in Job /\ NoJob.state = "none" /\ NoJob.step = "none" /\ NoJob.stalls = 0 /\ NoJob.failures = 0
<1>1. 0 \in 0..Attempts
  BY SchedulingAssumption
<1> QED  BY <1>1 DEF NoJob, Job

\* The add: the row has its job, or none because the call threw.  The caller goes on
\* to publish, or to delete the row.
LEMMA AddKeepsInv ==
  ASSUME IInv, NEW c \in Callers, calls[c].stage = "add", NEW t \in Tasks, t = calls[c].task,
         jobs' \in [Tasks -> Job],
         jobs'[t].step = "none", jobs'[t].stalls = 0, jobs'[t].failures = 0,
         jobs'[t].state = "waiting" \/ jobs'[t] = NoJob,
         \A u \in Tasks \ {c, t} : jobs'[u] = jobs[u],
         NEW call \in Call, calls' = [calls EXCEPT ![c] = call],
         \/ /\ call = NoCall /\ jobs'[t].state = "waiting"
            /\ c \in Tasks => /\ jobs'[c].state = "active" /\ jobs'[c].step = "publish"
                              /\ jobs'[c].stalls = jobs[c].stalls /\ jobs'[c].failures = jobs[c].failures
         \/ /\ call.stage = "delete" /\ call.task = t /\ call.kind = calls[c].kind
            /\ call.key = calls[c].key /\ call.source = calls[c].source
            /\ c \in Tasks => jobs'[c] = jobs[c],
         UNCHANGED <<rows, struck, told>>, faults' \in 0..MaxFaults
  PROVE  IInv'
<1>1. call.stage = "idle" \/ call.stage = "delete"
  BY DEF NoCall
<1>2. c \in Tasks => /\ jobs[c].state = "active" /\ jobs[c].step = "schedule"
                     /\ rows[c].status \in {"running", "none"}
  BY CallTyped, TaskTyped DEF CallInv, JobInv, StepInv
<1>3. /\ jobs[t] = NoJob /\ rows[t].status = "queued" /\ rows[t].key = calls[c].key /\ c # t
      /\ jobs[t].stalls = 0 /\ jobs[t].state = "none" /\ jobs[t].step = "none"
  BY CallTyped DEF CallInv, NoJob
<1>4. c \in Tasks => /\ jobs'[c].state = "active" /\ jobs'[c].step \in {"schedule", "publish"}
                     /\ jobs'[c].stalls = jobs[c].stalls /\ jobs'[c].failures = jobs[c].failures
  BY <1>2
<1>5. calls' \in [Callers -> Call] /\ calls'[c] = call /\ \A d \in Callers \ {c} : calls'[d] = calls[d]
  BY CallTyped
<1>6. \A u \in Tasks : jobs'[u].stalls = jobs[u].stalls
  BY <1>3, <1>4
<1>7. \A x : (Doubled(x)' <=> Doubled(x)) /\ Holders(x)' = Holders(x)
  BY <1>6 DEF Doubled, Holders, Gone
<1>8. \A u \in Tasks : Gone(u)' <=> Gone(u)
  BY DEF Gone
<1>9. TypeOK'
  BY <1>5 DEF IInv, TypeOK, SchedulingTypeOK
<1>10. TaskInv'
  <2> SUFFICES ASSUME NEW u \in Tasks PROVE (JobInv(u) /\ StepInv(u) /\ ToldInv(u))'
    BY DEF TaskInv
  <2>1. JobInv(u) /\ StepInv(u) /\ ToldInv(u)
    BY TaskTyped
  <2>2. CASE u = t
    <3>1. JobInv(u)'
      <4>1. 0 < Attempts
        BY SchedulingAssumption
      <4>2. jobs'[u].state # "active" /\ (jobs'[u].state = "none" => jobs'[u] = NoJob) /\ ~Gone(u)
        BY <1>3, <2>2 DEF Gone
      <4> QED  BY <1>8, <2>1, <2>2, <4>1, <4>2 DEF JobInv
    <3>2. StepInv(u)'
      <4>1. jobs'[u].state \in {"waiting", "none"}
        BY <2>2 DEF NoJob
      <4> QED  BY <1>3, <2>2, <4>1 DEF StepInv
    <3>3. ToldInv(u)'
      BY <1>3, <2>1, <2>2 DEF ToldInv
    <3> QED  BY <3>1, <3>2, <3>3
  <2>3. CASE u = c
    <3>1. jobs'[u] # NoJob
      BY <1>4, <2>3 DEF NoJob
    <3>2. JobInv(u)'
      BY <1>2, <1>4, <2>1, <2>3, <3>1 DEF JobInv
    <3>3. StepInv(u)'
      BY <1>2, <1>4, <2>3 DEF StepInv
    <3>4. ToldInv(u)'
      BY <1>2, <1>4, <2>1, <2>3 DEF ToldInv
    <3> QED  BY <3>2, <3>3, <3>4
  <2>4. CASE u # c /\ u # t
    <3>1. jobs'[u] = jobs[u]
      BY <2>4
    <3>2. JobInv(u)'  BY <2>1, <3>1 DEF JobInv, Gone
    <3>3. StepInv(u)'  BY <2>1, <3>1 DEF StepInv, LastTry
    <3>4. ToldInv(u)'  BY <2>1, <3>1 DEF ToldInv, LastTry
    <3> QED  BY <3>2, <3>3, <3>4
  <2> QED  BY <2>2, <2>3, <2>4
<1>11. CallsInv'
  <2> SUFFICES ASSUME NEW d \in Callers PROVE CallInv(d)'
    BY DEF CallsInv
  <2>1. CallInv(d)
    BY CallTyped
  <2>2. CASE d = c /\ call = NoCall
    <3>1. d \in Tasks => jobs'[d].step # "schedule"
      BY <2>2 DEF NoCall
    <3> QED  BY <1>5, <2>2, <3>1, EngineAssumption, SchedulingAssumption DEF CallInv, NoCall, TaskKinds
  <2>3. CASE d = c /\ call.stage = "delete"
    <3>1. /\ calls'[d].stage = "delete" /\ calls'[d].task = t /\ calls'[d].kind = calls[d].kind
          /\ calls'[d].key = calls[d].key /\ calls'[d].source = calls[d].source
          /\ d \in Tasks => jobs'[d] = jobs[d]
      BY <1>5, <2>3 DEF NoCall
    <3>2. ~Gone(t) /\ rows[t].key = calls[d].key /\ t # d /\ calls[d].stage = "add"
      BY <1>3, <2>3 DEF Gone
    <3> QED  BY <2>1, <3>1, <3>2 DEF CallInv, Gone
  <2>4. CASE d # c
    <3>1. calls'[d] = calls[d]
      BY <1>5, <2>4
    <3>2. d \in Tasks => (calls[d].stage # "idle" <=> jobs'[d].step = "schedule")
      <4>1. CASE d = t
        BY <1>3, <2>1, <4>1 DEF CallInv
      <4>2. CASE d # t
        BY <2>1, <2>4, <4>2 DEF CallInv
      <4> QED  BY <4>1, <4>2
    <3>3. calls[d].stage = "add" => jobs'[calls[d].task] = NoJob
      <4> SUFFICES ASSUME calls[d].stage = "add"
                   PROVE  calls[d].task \in Tasks \ {c, t} /\ jobs[calls[d].task] = NoJob
        OBVIOUS
      <4>1. calls[d].task \in Tasks /\ jobs[calls[d].task] = NoJob
        BY <2>1 DEF CallInv
      <4>2. calls[d].task # c
        BY <1>2, <4>1 DEF NoJob
      <4>3. calls[d].task # t
        BY <2>4 DEF IInv, AddInv, Adding
      <4> QED  BY <4>1, <4>2, <4>3
    <3>4. (Doubled(calls[d].key) \/ Holders(calls[d].key) = {})' <=> (Doubled(calls[d].key)' \/ Holders(calls[d].key)' = {})
      BY <3>1 DEF Doubled, Holders, Gone
    <3>5. (~Gone(calls[d].task))' <=> ~Gone(calls[d].task)
      BY <3>1 DEF Gone
    <3> QED  BY <1>7, <2>1, <3>1, <3>2, <3>3, <3>4, <3>5 DEF CallInv
  <2> QED  BY <1>1, <2>2, <2>3, <2>4
<1>12. AddInv'
  <2> SUFFICES ASSUME NEW d \in Callers, NEW e \in Callers,
                      calls'[d].stage \in {"add", "delete"}, calls'[e].stage \in {"add", "delete"},
                      calls'[e].task = calls'[d].task
               PROVE  d = e
    BY DEF AddInv, Adding
  <2>1. ASSUME NEW f \in Callers, calls'[f].stage \in {"add", "delete"}
        PROVE  calls[f].stage \in {"add", "delete"} /\ calls'[f].task = calls[f].task
    BY <1>5, <2>1 DEF NoCall
  <2>2. calls[d].stage \in {"add", "delete"} /\ calls'[d].task = calls[d].task
    BY <2>1
  <2>3. calls[e].stage \in {"add", "delete"} /\ calls[e].task = calls[d].task
    BY <2>1, <2>2
  <2> QED  BY <2>2, <2>3 DEF IInv, AddInv, Adding
<1>13. WaitInv'
  <2> SUFFICES ASSUME NEW u \in Tasks \ struck, rows[u].status \in LiveStatuses, jobs'[u].state = "none"
               PROVE  \E d \in Callers : Adding(d, u)'
    BY DEF WaitInv
  <2>1. CASE u = t
    <3>1. call.stage = "delete" /\ call.task = t
      BY <2>1
    <3> QED  BY <1>5, <2>1, <3>1 DEF Adding
  <2>2. CASE u # t
    <3>1. u # c
      BY <1>4
    <3>2. PICK d \in Callers : Adding(d, u)
      BY <2>2, <3>1 DEF IInv, WaitInv
    <3>3. d # c
      BY <2>2, <3>2 DEF Adding
    <3> QED  BY <1>5, <3>2, <3>3 DEF Adding
  <2> QED  BY <2>1, <2>2
<1>14. OneHolder'
  BY <1>7 DEF IInv, OneHolder
<1>15. PostInv'
  <2> SUFFICES ASSUME NEW u \in Tasks, PastSchedule(u)', rows[u].kind \in Sourced PROVE Postprocessed(u)
    BY <1>8 DEF PostInv, Postprocessed
  <2>1. CASE u = c /\ jobs'[u].step = "publish"
    <3>1. calls[c].key = PostKey(c)
      BY <2>1, CallTyped DEF CallInv, Sourced
    <3> QED  BY <1>3, <2>1, <3>1 DEF Postprocessed, Gone
  <2>2. CASE ~(u = c /\ jobs'[u].step = "publish")
    <3>1. PastSchedule(u)
      BY <1>4, <2>2 DEF PastSchedule
    <3> QED  BY <3>1 DEF IInv, PostInv
  <2> QED  BY <2>1, <2>2
<1> QED
  BY <1>9, <1>10, <1>11, <1>12, <1>13, <1>14, <1>15 DEF IInv

\* The job is added under the row's id, and its caller's worker goes on.
LEMMA AddJobInv ==
  ASSUME IInv, NEW c \in Callers, AddJob(c), UNCHANGED told
  PROVE  IInv'
<1> DEFINE job == [NoJob EXCEPT !.state = "waiting"]
           t   == calls[c].task
<1>1. /\ calls[c].stage = "add" /\ jobs' = [Resumed(c, "publish") EXCEPT ![t] = job]
      /\ calls' = [calls EXCEPT ![c] = NoCall] /\ UNCHANGED <<rows, struck, faults, told>>
  BY DEF AddJob
<1>2. t \in Tasks /\ t # c
  BY <1>1, CallTyped DEF CallInv
<1>3. job \in Job /\ job.state = "waiting" /\ job.step = "none" /\ job.stalls = 0 /\ job.failures = 0
  BY WaitingJob
<1>4. faults' \in 0..MaxFaults /\ NoCall \in Call
  BY <1>1, CallTyped DEF IInv, TypeOK, SchedulingTypeOK
<1>5. "publish" \in Steps
  BY DEF Steps
<1> HIDE DEF job
<1>6. /\ jobs' \in [Tasks -> Job] /\ jobs'[t] = job
      /\ \A u \in Tasks \ {t} : jobs'[u] = Resumed(c, "publish")[u]
  BY <1>1, <1>2, <1>3, <1>5, ResumedFacts
<1>7. /\ \A u \in Tasks \ {c, t} : jobs'[u] = jobs[u]
      /\ c \in Tasks => /\ jobs'[c].state = "active" /\ jobs'[c].step = "publish"
                        /\ jobs'[c].stalls = jobs[c].stalls /\ jobs'[c].failures = jobs[c].failures
  BY <1>1, <1>2, <1>5, <1>6, ResumedFacts
<1> HIDE DEF t
<1> QED  BY <1>1, <1>2, <1>3, <1>4, <1>6, <1>7, AddKeepsInv DEF t

\* A call that threw: the row is to be deleted, whether or not its job is there.
LEMMA AddJobThrowsInv ==
  ASSUME IInv, NEW c \in Callers, AddJobThrows(c), UNCHANGED told
  PROVE  IInv'
<1> DEFINE job  == [NoJob EXCEPT !.state = "waiting"]
           t    == calls[c].task
           call == [calls[c] EXCEPT !.stage = "delete"]
<1>1. /\ calls[c].stage = "add"
      /\ jobs' = jobs \/ jobs' = [jobs EXCEPT ![t] = job]
      /\ calls' = [calls EXCEPT ![c] = call] /\ UNCHANGED <<rows, struck, told>> /\ Strike
  BY DEF AddJobThrows
<1>2. t \in Tasks /\ t # c /\ jobs[t] = NoJob
  BY <1>1, CallTyped DEF CallInv
<1>3. /\ job \in Job /\ job.state = "waiting" /\ job.step = "none" /\ job.stalls = 0 /\ job.failures = 0
      /\ NoJob.step = "none" /\ NoJob.stalls = 0 /\ NoJob.failures = 0
  BY WaitingJob
<1>4. faults' \in 0..MaxFaults
  BY <1>1, SchedulingAssumption DEF Strike, IInv, TypeOK, SchedulingTypeOK
<1>5. /\ call \in Call /\ call.stage = "delete" /\ call.task = t /\ call.kind = calls[c].kind
      /\ call.key = calls[c].key /\ call.source = calls[c].source
  BY CallTyped DEF Call
<1> HIDE DEF job, call
<1>6. /\ jobs' \in [Tasks -> Job] /\ jobs'[t] \in {NoJob, job}
      /\ \A u \in Tasks \ {t} : jobs'[u] = jobs[u]
  BY <1>1, <1>2, <1>3 DEF IInv, TypeOK, SchedulingTypeOK
<1>7. /\ jobs'[t].step = "none" /\ jobs'[t].stalls = 0 /\ jobs'[t].failures = 0
      /\ jobs'[t].state = "waiting" \/ jobs'[t] = NoJob
  BY <1>3, <1>6
<1>8. (\A u \in Tasks \ {c, t} : jobs'[u] = jobs[u]) /\ (c \in Tasks => jobs'[c] = jobs[c])
  BY <1>2, <1>6
<1> HIDE DEF t
<1> QED  BY <1>1, <1>2, <1>4, <1>5, <1>6, <1>7, <1>8, AddKeepsInv DEF t

\* A delete that fails ends the call, with the row left.
LEMMA DeleteFailsInv ==
  ASSUME IInv, NEW c \in Callers, DeleteFails(c), UNCHANGED told
  PROVE  IInv'
<1>1. /\ calls[c].stage = "delete" /\ calls' = [calls EXCEPT ![c] = NoCall] /\ jobs' = Resumed(c, "catch")
      /\ struck' = struck \cup Left(c) /\ UNCHANGED <<rows, told>> /\ Strike
  BY DEF DeleteFails
<1>2. Left(c) \subseteq Tasks
  BY CallTyped DEF Left, CallInv
<1>3. struck' \subseteq Tasks /\ faults' \in 0..MaxFaults
  BY <1>1, <1>2, SchedulingAssumption DEF Strike, IInv, TypeOK, SchedulingTypeOK
<1>4. "catch" \in Steps
  BY DEF Steps
<1>5. CASE c \notin Tasks
  <2>1. c \in Clients /\ UNCHANGED jobs
    BY <1>1, <1>5 DEF Callers, Resumed
  <2> QED  BY <1>1, <1>3, <2>1, ClientEnds
<1>6. CASE c \in Tasks
  <2>1. /\ jobs' \in [Tasks -> Job] /\ \A u \in Tasks \ {c} : jobs'[u] = jobs[u]
        /\ jobs'[c].state = "active" /\ jobs'[c].step = "catch"
        /\ jobs'[c].stalls = jobs[c].stalls /\ jobs'[c].failures = jobs[c].failures
        /\ jobs[c].state = "active" /\ jobs[c].step = "schedule" /\ rows[c].status \in {"running", "none"}
    BY <1>1, <1>4, <1>6, ResumedFacts
  <2>2. Moves(c)
    BY <1>1, <1>3, <1>6, <2>1, TaskTyped DEF Moves
  <2>3. JobInv(c)'
    BY <1>1, <1>6, <2>1, TaskTyped DEF JobInv, NoJob
  <2>4. StepInv(c)'
    BY <1>1, <2>1 DEF StepInv
  <2>5. ToldInv(c)'
    BY <1>1, <1>6, <2>1, TaskTyped DEF ToldInv
  <2>6. ~PastSchedule(c)'
    BY <1>1, <2>1 DEF PastSchedule
  <2> QED  BY <1>1, <1>6, <2>2, <2>3, <2>4, <2>5, <2>6, MoveKeepsInv
<1> QED  BY <1>5, <1>6

\* What a delete does to the rows.
LEMMA DeletedFacts ==
  ASSUME IInv, NEW t \in Tasks, rows' = Deleted(t)
  PROVE  /\ rows' \in [Tasks -> Row] /\ \A u \in Tasks \ {t} : rows'[u] = rows[u]
         /\ rows'[t].status = "none"
         /\ jobs[t] = NoJob => rows'[t] = NoRow
         /\ jobs[t] # NoJob => /\ rows'[t].kind = rows[t].kind /\ rows'[t].key = rows[t].key
                               /\ rows'[t].source = rows[t].source
<1> DEFINE r == [rows[t] EXCEPT !.status = "none"]
           x == IF jobs[t] = NoJob THEN NoRow ELSE r
<1>1. NoRow \in Row /\ NoRow.status = "none"
  BY DEF NoRow, Row
<1>2. /\ r \in Row /\ r.status = "none" /\ r.kind = rows[t].kind /\ r.key = rows[t].key
      /\ r.source = rows[t].source
  BY TaskTyped DEF Row
<1>3. rows' = [rows EXCEPT ![t] = x]
  BY DEF Deleted
<1> HIDE DEF r
<1>4. x \in Row
  BY <1>1, <1>2
<1> QED  BY <1>1, <1>2, <1>3, <1>4, TaskTyped

\* The row is deleted however far its job has come, and the caller's worker is in
\* its catch block.
LEMMA DeleteRowInv ==
  ASSUME IInv, NEW c \in Callers, DeleteRow(c), UNCHANGED told
  PROVE  IInv'
<1> DEFINE t == calls[c].task
<1>1. /\ calls[c].stage = "delete" /\ rows' = Deleted(t) /\ jobs' = Resumed(c, "catch")
      /\ calls' = [calls EXCEPT ![c] = NoCall] /\ UNCHANGED <<struck, faults, told>>
  BY DEF DeleteRow
<1>2. t \in Tasks /\ t # c /\ ~Gone(t) /\ rows[t].key = calls[c].key
  BY <1>1, CallTyped DEF CallInv
<1>3. "catch" \in Steps
  BY DEF Steps
<1>4. /\ jobs' \in [Tasks -> Job] /\ \A u \in Tasks \ {c} : jobs'[u] = jobs[u]
      /\ c \in Tasks => /\ jobs'[c].state = "active" /\ jobs'[c].step = "catch"
                        /\ jobs'[c].stalls = jobs[c].stalls /\ jobs'[c].failures = jobs[c].failures
                        /\ jobs[c].state = "active" /\ jobs[c].step = "schedule"
                        /\ rows[c].status \in {"running", "none"}
  <2>1. c \notin Tasks => jobs' = jobs
    BY <1>1, <1>3, ResumedFacts
  <2> QED  BY <1>1, <1>3, <2>1, ResumedFacts
<1>5. /\ rows' \in [Tasks -> Row] /\ \A u \in Tasks \ {t} : rows'[u] = rows[u]
      /\ rows'[t].status = "none"
      /\ jobs[t] = NoJob => rows'[t] = NoRow
      /\ jobs[t] # NoJob => /\ rows'[t].kind = rows[t].kind /\ rows'[t].key = rows[t].key
                            /\ rows'[t].source = rows[t].source
  BY <1>1, <1>2, DeletedFacts
<1>6. calls' \in [Callers -> Call] /\ calls'[c] = NoCall /\ \A d \in Callers \ {c} : calls'[d] = calls[d]
  BY <1>1, CallTyped
<1>7. \A d \in Callers \ {c} : calls[d].stage \in {"add", "delete"} => calls[d].task # t
  BY <1>1 DEF IInv, AddInv, Adding
<1>8. (\A u \in Tasks : jobs'[u].stalls = jobs[u].stalls) /\ jobs'[t] = jobs[t]
  BY <1>2, <1>4
<1> HIDE DEF t
<1>9. TypeOK'
  BY <1>1, <1>4, <1>5, <1>6 DEF IInv, TypeOK, SchedulingTypeOK
<1>10. TaskInv'
  <2> SUFFICES ASSUME NEW u \in Tasks PROVE (JobInv(u) /\ StepInv(u) /\ ToldInv(u))'
    BY DEF TaskInv
  <2>1. JobInv(u) /\ StepInv(u) /\ ToldInv(u)
    BY TaskTyped
  <2>2. CASE u = t
    <3>1. jobs'[u] = jobs[u] /\ rows'[u].status = "none" /\ told' = told /\ struck' = struck
      BY <1>1, <1>5, <1>8, <2>2
    <3>2. rows'[u].kind = "post" => rows'[u].source \in Tasks /\ rows'[u].key = PostKey(rows'[u].source)
      <4>1. NoRow.kind # "post"
        BY EngineAssumption, SchedulingAssumption DEF NoRow, TaskKinds
      <4> QED  BY <1>5, <2>1, <2>2, <4>1 DEF JobInv
    <3>3. JobInv(u)'
      BY <1>5, <2>1, <2>2, <3>1, <3>2 DEF JobInv
    <3>4. StepInv(u)'  BY <2>1, <3>1 DEF StepInv, LastTry
    <3>5. ToldInv(u)'  BY <2>1, <3>1 DEF ToldInv, LastTry
    <3> QED  BY <3>3, <3>4, <3>5
  <2>3. CASE u = c
    <3>1. rows'[u] = rows[u] /\ jobs'[u] # NoJob
      BY <1>2, <1>4, <1>5, <2>3 DEF t, NoJob
    <3>2. JobInv(u)'
      BY <1>4, <2>1, <2>3, <3>1 DEF JobInv
    <3>3. StepInv(u)'
      BY <1>4, <2>3, <3>1 DEF StepInv
    <3>4. ToldInv(u)'
      BY <1>1, <1>4, <2>1, <2>3 DEF ToldInv
    <3> QED  BY <3>2, <3>3, <3>4
  <2>4. CASE u # c /\ u # t
    <3>1. rows'[u] = rows[u] /\ jobs'[u] = jobs[u] /\ told' = told /\ struck' = struck
      BY <1>1, <1>4, <1>5, <2>4
    <3>2. JobInv(u)'  BY <2>1, <3>1 DEF JobInv, Gone
    <3>3. StepInv(u)'  BY <2>1, <3>1 DEF StepInv, LastTry
    <3>4. ToldInv(u)'  BY <2>1, <3>1 DEF ToldInv, LastTry
    <3> QED  BY <3>2, <3>3, <3>4
  <2> QED  BY <2>2, <2>3, <2>4
<1>11. \A x \in DerivedKeys : Doubled(x) => Doubled(x)'
  <2> SUFFICES ASSUME NEW x \in DerivedKeys, x.of = "memory",
                      NEW p \in Tasks, rows[p].key = PostKey(x.task), jobs[p].stalls > 0 \/ Gone(p)
               PROVE  Doubled(x)'
    BY DEF Doubled
  <2>1. CASE p # t
    <3>1. rows'[p] = rows[p]
      BY <1>5, <2>1
    <3> QED  BY <1>8, <3>1 DEF Doubled, Gone
  <2>2. CASE p = t
    <3>1. jobs[t] # NoJob
      BY <1>2, <2>2 DEF NoJob
    <3>2. rows'[p].key = PostKey(x.task) /\ Gone(p)'
      BY <1>5, <2>2, <3>1 DEF Gone
    <3> QED  BY <3>2 DEF Doubled
  <2> QED  BY <2>1, <2>2
<1>12. \A x : Holders(x)' \subseteq Holders(x)
  <2> SUFFICES ASSUME NEW x, NEW u \in Holders(x)' PROVE u \in Holders(x)
    OBVIOUS
  <2>1. u \in Tasks /\ rows'[u].key = x /\ rows'[u].status \in HoldingStatuses /\ jobs'[u].stalls = 0
    BY DEF Holders
  <2>2. u # t
    BY <1>5, <2>1 DEF HoldingStatuses, LiveStatuses
  <2>3. rows'[u] = rows[u]
    BY <1>5, <2>1, <2>2
  <2> QED  BY <1>8, <2>1, <2>3 DEF Holders
<1>13. CallsInv'
  <2> SUFFICES ASSUME NEW d \in Callers PROVE CallInv(d)'
    BY DEF CallsInv
  <2>1. CASE d = c
    <3>1. d \in Tasks => jobs'[d].step # "schedule"
      BY <1>4, <2>1
    <3> QED  BY <1>6, <2>1, <3>1, EngineAssumption, SchedulingAssumption DEF CallInv, NoCall, TaskKinds
  <2>2. CASE d # c
    <3>1. calls'[d] = calls[d] /\ CallInv(d) /\ (d \in Tasks => jobs'[d] = jobs[d])
      BY <1>4, <1>6, <2>2, CallTyped
    <3>2. d \in Tasks /\ calls[d].stage # "idle" =>
            rows'[d].kind = rows[d].kind /\ rows'[d].source = rows[d].source
      <4> SUFFICES ASSUME d \in Tasks, calls[d].stage # "idle"
                   PROVE  rows'[d].kind = rows[d].kind /\ rows'[d].source = rows[d].source
        OBVIOUS
      <4>1. jobs[d] # NoJob
        BY <3>1 DEF CallInv, NoJob
      <4> QED  BY <1>5, <4>1
    <3>3. calls[d].stage \in {"add", "delete"} =>
            calls[d].task \in Tasks \ {d} /\ rows'[calls[d].task] = rows[calls[d].task]
      BY <1>5, <1>7, <2>2, <3>1 DEF CallInv
    <3>4. calls[d].stage = "add" => jobs'[calls[d].task] = NoJob
      <4> SUFFICES ASSUME calls[d].stage = "add" PROVE jobs'[calls[d].task] = NoJob
        OBVIOUS
      <4>1. calls[d].task \in Tasks /\ jobs[calls[d].task] = NoJob
        BY <3>1 DEF CallInv
      <4>2. calls[d].task # c
        BY <1>4, <4>1 DEF NoJob
      <4> QED  BY <1>4, <4>1, <4>2
    <3>5. calls[d].stage = "insert" /\ calls[d].key \in DerivedKeys =>
            Doubled(calls[d].key)' \/ Holders(calls[d].key)' = {}
      BY <1>11, <1>12, <3>1 DEF CallInv
    <3>6. (Doubled(calls[d].key) \/ Holders(calls[d].key) = {})' <=> (Doubled(calls[d].key)' \/ Holders(calls[d].key)' = {})
      BY <3>1 DEF Doubled, Holders, Gone
    <3> QED  BY <3>1, <3>2, <3>3, <3>4, <3>5, <3>6 DEF CallInv, Gone
  <2> QED  BY <2>1, <2>2
<1>14. AddInv'
  BY <1>6 DEF IInv, AddInv, Adding, NoCall
<1>15. WaitInv'
  <2> SUFFICES ASSUME NEW u \in Tasks \ struck, rows'[u].status \in LiveStatuses, jobs'[u].state = "none"
               PROVE  \E d \in Callers : Adding(d, u)'
    BY <1>1 DEF WaitInv
  <2>1. u # t
    BY <1>5 DEF LiveStatuses
  <2>2. u # c
    BY <1>4
  <2>3. PICK d \in Callers : Adding(d, u)
    BY <1>4, <1>5, <2>1, <2>2 DEF IInv, WaitInv
  <2>4. d # c
    BY <2>1, <2>3 DEF Adding, t
  <2> QED  BY <1>6, <2>3, <2>4 DEF Adding
<1>16. OneHolder'
  BY <1>11, <1>12 DEF IInv, OneHolder
<1>17. PostInv'
  <2> SUFFICES ASSUME NEW u \in Tasks, PastSchedule(u)', rows'[u].kind \in Sourced PROVE Postprocessed(u)'
    BY DEF PostInv
  <2>1. u # c
    BY <1>2, <1>4, <1>5 DEF PastSchedule, t
  <2>2. PastSchedule(u)
    <3>1. jobs'[u] = jobs[u]
      BY <1>4, <2>1
    <3>2. u = t \/ rows'[u] = rows[u]
      BY <1>5
    <3> QED  BY <1>5, <3>1, <3>2 DEF PastSchedule
  <2>3. rows[u].kind \in Sourced
    <3>1. u = t => rows'[u].kind \in {rows[u].kind, None}
      BY <1>5 DEF NoRow
    <3>2. None \notin Sourced
      BY EngineAssumption, SchedulingAssumption DEF Sourced, TaskKinds
    <3> QED  BY <1>5, <3>1, <3>2
  <2>4. PICK p \in Tasks : rows[p].key = PostKey(u) /\ ~Gone(p)
    BY <2>2, <2>3 DEF IInv, PostInv, Postprocessed
  <2>5. p # t
    <3> SUFFICES ASSUME p = t PROVE FALSE
      OBVIOUS
    <3>1. calls[c].key = PostKey(u)
      BY <1>2, <2>4
    <3> QED  BY <1>1, <2>1, <3>1, CallTyped, DerivedKeyFacts DEF CallInv
  <2> QED  BY <1>5, <2>4, <2>5 DEF Postprocessed, Gone
<1> QED
  BY <1>9, <1>10, <1>13, <1>14, <1>15, <1>16, <1>17 DEF IInv
-----------------------------------------------------------------------------
(* The invariant *)

\* Nothing has been scheduled.
LEMMA InitIInv == Init => IInv
<1> SUFFICES ASSUME Init PROVE IInv
  OBVIOUS
<1> USE DEF Init, SchedulingInit
<1>1. TypeOK
  <2>1. NoRow \in Row /\ NoJob \in Job /\ NoCall \in Call
    BY WaitingJob DEF NoRow, Row, NoCall, Call
  <2>2. 0 \in 0..MaxFaults
    BY SchedulingAssumption
  <2> QED  BY <2>1, <2>2 DEF TypeOK, SchedulingTypeOK
<1>2. TaskInv
  <2> SUFFICES ASSUME NEW t \in Tasks PROVE JobInv(t) /\ StepInv(t) /\ ToldInv(t)
    BY DEF TaskInv
  <2>1. rows[t] = NoRow /\ jobs[t] = NoJob /\ told[t] = {}
    OBVIOUS
  <2> QED  BY <2>1, EngineAssumption, SchedulingAssumption
            DEF JobInv, StepInv, ToldInv, NoRow, NoJob, TaskKinds, Gone
<1>3. CallsInv
  <2> SUFFICES ASSUME NEW c \in Callers PROVE CallInv(c)
    BY DEF CallsInv
  <2>1. calls[c] = NoCall /\ (c \in Tasks => jobs[c] = NoJob)
    OBVIOUS
  <2> QED  BY <2>1, EngineAssumption, SchedulingAssumption DEF CallInv, NoCall, NoJob, TaskKinds
<1>4. AddInv
  BY DEF AddInv, NoCall
<1>5. WaitInv
  BY DEF WaitInv, NoRow, LiveStatuses
<1>6. OneHolder
  BY DerivedKeyFacts DEF OneHolder, Holders, NoRow
<1>7. PostInv
  BY DEF PostInv, PastSchedule, NoRow, NoJob
<1> QED  BY <1>1, <1>2, <1>3, <1>4, <1>5, <1>6, <1>7 DEF IInv

\* A step that leaves the variables alone.
LEMMA StutterInv ==
  ASSUME IInv, UNCHANGED vars
  PROVE  IInv'
<1> USE DEF vars
<1>1. TypeOK'  BY DEF IInv, TypeOK, SchedulingTypeOK
<1>2. TaskInv'  BY DEF IInv, TaskInv, JobInv, StepInv, ToldInv, LastTry, Gone
<1>3. CallsInv'  BY DEF IInv, CallsInv, CallInv, Doubled, Holders, Gone
<1>4. AddInv' /\ WaitInv'  BY DEF IInv, AddInv, WaitInv, Adding
<1>5. OneHolder' /\ PostInv'  BY DEF IInv, OneHolder, Doubled, Holders, PostInv, PastSchedule, Postprocessed, Gone
<1> QED  BY <1>1, <1>2, <1>3, <1>4, <1>5 DEF IInv

\* The steps of scheduleLongTask.
LEMMA CallStepInv ==
  ASSUME IInv, NEW c \in Callers, CallStep(c)
  PROVE  IInv'
BY LookUpMisses, LookUpFinds, InsertRowInv, AddJobInv, DeleteRowInv DEF CallStep

\* The steps of a worker.
LEMMA WorkerStepInv ==
  ASSUME IInv, NEW t \in Tasks, WorkerStep(t)
  PROVE  IInv'
BY StartInv, PublishInv, CompleteInv, CatchInv, RethrowInv, ExecutePublishes, ExecuteSchedules,
   ExecuteThrowsInv, AnnounceInv, ApologiseInv DEF WorkerStep

\* Failed statements, failed calls and deaths.
LEMMA FaultInv ==
  ASSUME IInv, Fault
  PROVE  IInv'
BY StartFailsInv, CatchFailsInv, WorkerDiesInv, AddJobThrowsInv, DeleteFailsInv, ClientDiesInv DEF Fault

\* The invariant is inductive.
LEMMA NextIInv == IInv /\ [Next]_vars => IInv'
BY RequestInv, CallStepInv, WorkerStepInv, AnnounceThrowsInv, FaultInv, StutterInv DEF Next

\* The invariant holds in every behaviour: row, job and call of a task keep in step.
THEOREM Inductive == Spec => []IInv
<1>1. Init => IInv
  BY InitIInv
<1>2. IInv /\ [Next]_vars => IInv'
  BY NextIInv
<1> QED  BY <1>1, <1>2, PTL DEF Spec

\* Rows, jobs and calls keep their shape; no job is tried more often than it may be.
THEOREM EngineWellTyped == Spec => []TypeOK
<1>1. IInv => TypeOK
  BY DEF IInv
<1> QED  BY <1>1, Inductive, PTL

\* async_tasks and BullMQ agree about every task that no fault left unrecorded.
THEOREM RowsFollowJobs == Spec => []RowFollowsJob
<1>1. IInv => RowFollowsJob
  <2> SUFFICES ASSUME IInv, NEW t \in Tasks \ struck
               PROVE  /\ rows[t].status \in LiveStatuses =>
                           \/ jobs[t].state \in {"waiting", "active"}
                           \/ \E c \in Callers : calls[c].stage \in {"add", "delete"} /\ calls[c].task = t
                      /\ jobs[t].state = "completed" => rows[t].status \in {"published", "none"}
                      /\ jobs[t].state = "failed" => rows[t].status \in {"failed", "none"}
    BY DEF RowFollowsJob
  <2>1. jobs[t].state \in {"none", "waiting", "active", "completed", "failed"}
    BY TaskTyped DEF Job
  <2>2. /\ jobs[t].state = "completed" => rows[t].status \in {"published", "none"}
        /\ jobs[t].state = "failed" => rows[t].status \in {"failed", "none"}
    BY TaskTyped DEF StepInv
  <2>3. rows[t].status \in LiveStatuses /\ jobs[t].state = "none" =>
          \E c \in Callers : calls[c].stage \in {"add", "delete"} /\ calls[c].task = t
    BY DEF IInv, WaitInv, Adding
  <2> QED  BY <2>1, <2>2, <2>3 DEF LiveStatuses
<1> QED  BY <1>1, Inductive, PTL

\* Neither retries nor reruns schedule the work that follows a task twice.
THEOREM DerivedOnce == Spec => []OneTaskPerDerivedKey
<1>1. IInv => OneTaskPerDerivedKey
  <2> SUFFICES ASSUME IInv, NEW k \in DerivedKeys, ~Doubled(k)
               PROVE  Cardinality(Holders(k)) <= 1
    BY DEF OneTaskPerDerivedKey
  <2>1. \A t, u \in Holders(k) : t = u
    BY DEF IInv, OneHolder
  <2>2. CASE Holders(k) = {}
    <3>1. Cardinality(Holders(k)) = 0
      BY <2>2, FS_EmptySet
    <3> QED  BY <3>1
  <2>3. CASE Holders(k) # {}
    <3>1. PICK t : Holders(k) = {t}
      BY <2>1, <2>3
    <3>2. Cardinality(Holders(k)) = 1
      BY <3>1, FS_Singleton
    <3> QED  BY <3>2
  <2> QED  BY <2>2, <2>3
<1> QED  BY <1>1, Inductive, PTL

\* What is published has its postprocessing.
THEOREM PublishedHasPost == Spec => []PublishedIsPostprocessed
<1>1. IInv => PublishedIsPostprocessed
  BY DEF IInv, PostInv, PastSchedule, Postprocessed, Sourced, PublishedIsPostprocessed
<1> QED  BY <1>1, Inductive, PTL

\* Once the conversation has been told of the failure of a task, for any number of
\* attempts and faults no result follows it and the row stays as it is or goes.
THEOREM FailureStaysLast == Spec => FailureIsLastWord
<1>1. IInv /\ IInv' /\ [Next]_vars =>
        \A t \in Tasks : "failure" \in told[t] /\ jobs[t].stalls = 0 =>
          told'[t] = told[t] /\ rows'[t].status \in {"failed", "none"}
  <2> SUFFICES ASSUME IInv, IInv', [Next]_vars, NEW t \in Tasks, "failure" \in told[t], jobs[t].stalls = 0
               PROVE  told'[t] = told[t] /\ rows'[t].status \in {"failed", "none"}
    OBVIOUS
  <2>1. /\ rows[t].status \in {"failed", "none"}
        /\ jobs[t].state = "failed" \/ (jobs[t].state = "active" /\ jobs[t].step = "rethrow")
    BY TaskTyped DEF ToldInv, JobInv
  <2>2. jobs[t].step \in {"none", "rethrow"}
    BY <2>1, TaskTyped DEF JobInv
  <2>3. told'[t] = told[t]
    <3>1. \A u \in Tasks : \A m : u # t /\ Tell(u, m) => told'[t] = told[t]
      BY TaskTyped DEF Tell
    <3>2. ~At(t, "announce") /\ ~At(t, "message") /\ ~At(t, "apologise")
      BY <2>2 DEF At
    <3>3. ASSUME NEW u \in Tasks, Announce(u) \/ WriteMessage(u) \/ Apologise(u) \/ AnnounceThrows(u)
          PROVE  told'[t] = told[t]
      BY <3>1, <3>2, <3>3 DEF Announce, WriteMessage, Apologise, AnnounceThrows
    <3>4. ASSUME NEW u \in Tasks, WorkerStep(u) PROVE told'[t] = told[t]
      BY <3>3, <3>4 DEF WorkerStep, Execute, ExecuteThrows
    <3> QED  BY <3>3, <3>4 DEF Next, Request, CallStep, Fault, vars
  <2>4. rows'[t] = rows[t] \/ rows'[t].status = "none"
    <3>1. \A u \in Tasks : \A status : u # t /\ rows' = Marked(u, status) => rows'[t] = rows[t]
      BY TaskTyped DEF Marked
    <3>2. jobs[t].state # "waiting" /\ ~At(t, "publish") /\ ~At(t, "catch")
      BY <2>1, <2>2 DEF At
    <3>3. ASSUME NEW u \in Tasks, Start(u) \/ Publish(u) \/ Catch(u) PROVE rows'[t] = rows[t]
      BY <3>1, <3>2, <3>3 DEF Start, Publish, Catch
    <3>4. ASSUME NEW c \in Callers, InsertRow(c) PROVE rows'[t] = rows[t]
      <4>1. t \notin FreeTasks
        BY <2>1 DEF FreeTasks, NoJob
      <4>2. PICK x \in FreeTasks : \E row : rows' = [rows EXCEPT ![x] = row]
        BY <3>4 DEF InsertRow
      <4> QED  BY <4>1, <4>2, TaskTyped
    <3>5. ASSUME NEW c \in Callers, DeleteRow(c) PROVE rows'[t] = rows[t] \/ rows'[t].status = "none"
      <4>1. calls[c].task \in Tasks /\ rows' = Deleted(calls[c].task)
        BY <3>5, CallTyped DEF DeleteRow, CallInv
      <4> QED  BY <4>1, DeletedFacts
    <3>6. ASSUME NEW u \in Tasks, WorkerStep(u) PROVE rows'[t] = rows[t]
      BY <3>3, <3>6 DEF WorkerStep, Complete, Rethrow, Execute, ExecuteThrows, Announce, WriteMessage, Apologise
    <3>7. ASSUME NEW c \in Callers, CallStep(c) PROVE rows'[t] = rows[t] \/ rows'[t].status = "none"
      BY <3>4, <3>5, <3>7 DEF CallStep, LookUp, AddJob
    <3>8. CASE Fault
      BY <3>8 DEF Fault, StartFails, CatchFails, WorkerDies, AddJobThrows, DeleteFails, ClientDies
    <3> QED  BY <3>6, <3>7, <3>8 DEF Next, Request, AnnounceThrows, vars
  <2> QED  BY <2>1, <2>3, <2>4
<1> QED  BY <1>1, Inductive, PTL DEF Spec, FailureIsLastWord
-----------------------------------------------------------------------------
(* The end of a task *)

\* A transition of one task that brings it nearer to its end.
Descends(t) ==
  jobs'[t] # jobs[t] \/ calls'[t] # calls[t] =>
    Remaining(jobs'[t], calls'[t]) \in 0..(Remaining(jobs[t], calls[t]) - 1)

\* The steps to the end of an attempt.
LEMMA StepsAheadFacts ==
  ASSUME NEW job \in Job, NEW call
  PROVE  LET n == StepsAhead(job, call)
         IN  /\ n \in 1..13
             /\ job.step = "none" => n = 13
             /\ job.step = "execute" => n = 12
             /\ job.step = "schedule" => /\ n \in 8..11
                                         /\ call.stage = "lookup" => n = 11
                                         /\ call.stage = "insert" => n = 10
                                         /\ call.stage = "add" => n = 9
                                         /\ call.stage = "delete" => n = 8
             /\ job.step = "publish" => n = 7
             /\ job.step = "announce" => n = 6
             /\ job.step = "message" => n = 5
             /\ job.step = "complete" => n = 4
             /\ job.step = "catch" => n = 3
             /\ job.step = "apologise" => n = 2
             /\ job.step = "rethrow" => n = 1
<1>1. job.step \in {"none", "execute", "schedule", "publish", "announce", "message", "complete",
                    "catch", "apologise", "rethrow"}
  BY DEF Job
<1>2. job.step = "none" => StepsAhead(job, call) = 13
  BY DEF StepsAhead
<1>3. job.step = "execute" => StepsAhead(job, call) = 12
  BY DEF StepsAhead
<1>4. job.step = "publish" => StepsAhead(job, call) = 7
  BY DEF StepsAhead
<1>5. job.step = "announce" => StepsAhead(job, call) = 6
  BY DEF StepsAhead
<1>6. job.step = "message" => StepsAhead(job, call) = 5
  BY DEF StepsAhead
<1>7. job.step = "complete" => StepsAhead(job, call) = 4
  BY DEF StepsAhead
<1>8. job.step = "catch" => StepsAhead(job, call) = 3
  BY DEF StepsAhead
<1>9. job.step = "apologise" => StepsAhead(job, call) = 2
  BY DEF StepsAhead
<1>10. job.step = "rethrow" => StepsAhead(job, call) = 1
  BY DEF StepsAhead
<1>11. job.step = "schedule" => StepsAhead(job, call) = CASE call.stage = "lookup" -> 11
                                                          [] call.stage = "insert" -> 10
                                                          [] call.stage = "add" -> 9
                                                          [] OTHER -> 8
  BY DEF StepsAhead
<1> QED  BY <1>1, <1>2, <1>3, <1>4, <1>5, <1>6, <1>7, <1>8, <1>9, <1>10, <1>11

\* A step within an attempt leads forward.
LEMMA Forward ==
  ASSUME IInv, NEW t \in Tasks, jobs[t].state \in {"waiting", "active"}, jobs'[t] \in Job,
         jobs'[t].failures = jobs[t].failures, jobs'[t].stalls = jobs[t].stalls,
         jobs'[t].state \in {"waiting", "active"} =>
           StepsAhead(jobs'[t], calls'[t]) < StepsAhead(jobs[t], calls[t])
  PROVE  Descends(t)
<1> DEFINE n == StepsAhead(jobs[t], calls[t])
           m == StepsAhead(jobs'[t], calls'[t])
           rounds == (Attempts - jobs[t].failures) + (2 - jobs[t].stalls)
<1>1. n \in 1..13 /\ m \in 1..13
  BY TaskTyped, StepsAheadFacts
<1>2. rounds \in Nat
  BY TaskTyped, SchedulingAssumption
<1>3. Remaining(jobs[t], calls[t]) = 14 * rounds + n
  BY DEF Remaining
<1>4. Remaining(jobs'[t], calls'[t]) = IF jobs'[t].state \in {"waiting", "active"} THEN 14 * rounds + m ELSE 0
  BY DEF Remaining
<1>5. jobs'[t].state \in {"waiting", "active"} => m < n
  OBVIOUS
<1> HIDE DEF n, m, rounds
<1> QED  BY <1>1, <1>2, <1>3, <1>4, <1>5 DEF Descends

\* The rounds that are left before and after a failure or a death.
LEMMA OneRoundLess ==
  ASSUME NEW f \in 0..Attempts, NEW g \in 0..Attempts, NEW d \in 0..2, NEW e \in 0..2,
         (g = f + 1 /\ e = d) \/ (g = f /\ e = d + 1)
  PROVE  /\ (Attempts - f) + (2 - d) \in Nat /\ (Attempts - g) + (2 - e) \in Nat
         /\ (Attempts - f) + (2 - d) = (Attempts - g) + (2 - e) + 1
BY SchedulingAssumption

\* One that starts over costs a failure or a death.
LEMMA StartsOver ==
  ASSUME IInv, NEW t \in Tasks, jobs[t].state \in {"waiting", "active"}, jobs'[t] \in Job,
         \/ jobs'[t].failures = jobs[t].failures + 1 /\ jobs'[t].stalls = jobs[t].stalls
         \/ jobs'[t].failures = jobs[t].failures /\ jobs'[t].stalls = jobs[t].stalls + 1
  PROVE  Descends(t)
<1> DEFINE n == StepsAhead(jobs[t], calls[t])
           m == StepsAhead(jobs'[t], calls'[t])
           rounds  == (Attempts - jobs[t].failures) + (2 - jobs[t].stalls)
           rounds2 == (Attempts - jobs'[t].failures) + (2 - jobs'[t].stalls)
<1>1. n \in 1..13 /\ m \in 1..13
  BY TaskTyped, StepsAheadFacts
<1>2. rounds \in Nat /\ rounds2 \in Nat /\ rounds = rounds2 + 1
  <2>1. jobs'[t].failures \in 0..Attempts /\ jobs'[t].stalls \in 0..2
    BY DEF Job
  <2> QED  BY <2>1, TaskTyped, OneRoundLess
<1>3. Remaining(jobs[t], calls[t]) = 14 * rounds + n
  BY DEF Remaining
<1>4. Remaining(jobs'[t], calls'[t]) = IF jobs'[t].state \in {"waiting", "active"} THEN 14 * rounds2 + m ELSE 0
  BY DEF Remaining
<1> HIDE DEF n, m, rounds, rounds2
<1> QED  BY <1>1, <1>2, <1>3, <1>4 DEF Descends

\* Job and call after a step.
LEMMA NextTyped ==
  ASSUME IInv', NEW t \in Tasks
  PROVE  /\ jobs'[t] \in Job
         /\ jobs'[t].step # "schedule" => calls'[t].stage = "idle"
<1>1. t \in Callers
  BY DEF Callers
<1> QED  BY <1>1 DEF IInv, TypeOK, SchedulingTypeOK, CallsInv, CallInv

\* The worker goes on, or throws.
LEMMA GotoDescends ==
  ASSUME IInv, IInv', NEW t \in Tasks, NEW r \in Steps \ {"schedule"}, NEW s \in Steps \ {"schedule"},
         At(t, r), Goto(t, s),
         \/ r = "execute" /\ s \in {"publish", "catch"}
         \/ r = "publish" /\ s = "announce"
         \/ r = "announce" /\ s \in {"message", "complete", "catch"}
         \/ r = "message" /\ s \in {"complete", "catch"}
         \/ r = "catch" /\ s \in {"apologise", "rethrow"}
         \/ r = "apologise" /\ s = "rethrow"
  PROVE  Descends(t)
<1>0. s \in Steps
  OBVIOUS
<1>1. /\ jobs[t].state = "active" /\ jobs[t].step = r /\ calls[t].stage = "idle"
      /\ jobs[t] \in Job
  BY TaskTyped DEF At, CallInv
<1>2. /\ jobs'[t].state = "active" /\ jobs'[t].step = s
      /\ jobs'[t].failures = jobs[t].failures /\ jobs'[t].stalls = jobs[t].stalls
  BY <1>0, <1>1, GotoFacts
<1>3. jobs'[t] \in Job /\ calls'[t].stage = "idle"
  BY <1>2, NextTyped
<1>4. StepsAhead(jobs'[t], calls'[t]) < StepsAhead(jobs[t], calls[t])
  BY <1>1, <1>2, <1>3, StepsAheadFacts
<1> QED  BY <1>1, <1>2, <1>3, <1>4, Forward

OthersRest(t) == \A u \in Tasks \ {t} : jobs'[u] = jobs[u] /\ calls'[u] = calls[u]

\* Every step of a task's worker.
LEMMA WorkerDescends ==
  ASSUME IInv, IInv', NEW t \in Tasks,
         \/ WorkerStep(t) \/ AnnounceThrows(t)
         \/ StartFails(t) \/ CatchFails(t) \/ WorkerDies(t)
  PROVE  Descends(t) /\ OthersRest(t)
<1>0. /\ "execute" \in Steps /\ "publish" \in Steps /\ "announce" \in Steps /\ "complete" \in Steps /\ "message" \in Steps
      /\ "catch" \in Steps /\ "apologise" \in Steps /\ "rethrow" \in Steps
  BY DEF Steps
<1>1. \A s \in Steps : Goto(t, s) /\ UNCHANGED calls => OthersRest(t)
  BY GotoFacts DEF OthersRest
<1>2. ASSUME NEW r \in Steps, NEW s \in Steps, r # "schedule", s # "schedule",
             At(t, r), Goto(t, s), UNCHANGED calls,
             \/ r = "execute" /\ s \in {"publish", "catch"}
             \/ r = "publish" /\ s = "announce"
             \/ r = "announce" /\ s \in {"message", "complete", "catch"}
             \/ r = "message" /\ s \in {"complete", "catch"}
             \/ r = "catch" /\ s \in {"apologise", "rethrow"}
             \/ r = "apologise" /\ s = "rethrow"
      PROVE  Descends(t) /\ OthersRest(t)
  BY <1>1, <1>2, GotoDescends
<1>3. CASE Start(t)
  <2> DEFINE j == [jobs[t] EXCEPT !.state = "active", !.step = "execute"]
  <2>1. /\ jobs[t].state = "waiting" /\ UNCHANGED calls
        /\ jobs' = [jobs EXCEPT ![t] = j]
    BY <1>3 DEF Start
  <2>2. j.state = "active" /\ j.step = "execute" /\ j.failures = jobs[t].failures /\ j.stalls = jobs[t].stalls
    BY TaskTyped DEF Job
  <2> HIDE DEF j
  <2>3. jobs'[t] = j /\ OthersRest(t)
    BY <2>1, TaskTyped DEF OthersRest
  <2>4. StepsAhead(jobs'[t], calls'[t]) < StepsAhead(jobs[t], calls[t])
    <3>1. StepsAhead(jobs[t], calls[t]) = 13
      BY <2>1, TaskTyped, StepsAheadFacts DEF JobInv
    <3>2. StepsAhead(jobs'[t], calls'[t]) = 12
      BY <2>2, <2>3, NextTyped, StepsAheadFacts
    <3> QED  BY <3>1, <3>2
  <2> QED  BY <2>1, <2>2, <2>3, <2>4, NextTyped, Forward
<1>4. CASE Publish(t)
  BY <1>0, <1>2, <1>4 DEF Publish
<1>5. CASE Complete(t)
  <2> DEFINE j == [jobs[t] EXCEPT !.state = "completed", !.step = "none"]
  <2>1. /\ jobs[t].state = "active" /\ UNCHANGED calls
        /\ jobs' = [jobs EXCEPT ![t] = j]
    BY <1>5 DEF Complete, At
  <2>2. j.state = "completed" /\ j.failures = jobs[t].failures /\ j.stalls = jobs[t].stalls
    BY TaskTyped DEF Job
  <2> HIDE DEF j
  <2>3. jobs'[t] = j /\ OthersRest(t)
    BY <2>1, TaskTyped DEF OthersRest
  <2> QED  BY <2>1, <2>2, <2>3, NextTyped, Forward
<1>6. CASE Catch(t)
  BY <1>0, <1>2, <1>6 DEF Catch
<1>7. ASSUME jobs[t].state \in {"waiting", "active"}, jobs' = Failed(t), UNCHANGED calls
      PROVE  Descends(t) /\ OthersRest(t)
  <2>1. jobs[t].failures < Attempts
    BY <1>7, TaskTyped DEF JobInv
  <2>2. /\ jobs'[t].failures = jobs[t].failures + 1 /\ jobs'[t].stalls = jobs[t].stalls
        /\ \A u \in Tasks \ {t} : jobs'[u] = jobs[u]
    BY <1>7, <2>1, FailedFacts
  <2> QED  BY <1>7, <2>2, NextTyped, StartsOver DEF OthersRest
<1>8. CASE Rethrow(t) \/ StartFails(t)
  <2>1. jobs[t].state \in {"waiting", "active"} /\ jobs' = Failed(t) /\ UNCHANGED calls
    BY <1>8 DEF Rethrow, At, StartFails
  <2> QED  BY <1>7, <2>1
<1>9. CASE Execute(t)
  <2>1. At(t, "execute")
    BY <1>9 DEF Execute
  <2>2. CASE FollowUp(t).kind = None
    BY <1>0, <1>2, <1>9, <2>1, <2>2 DEF Execute
  <2>3. CASE FollowUp(t).kind # None
    <3>1. Goto(t, "schedule") /\ calls' = Calling(t, FollowUp(t).kind, FollowUp(t).key, t)
      BY <1>9, <2>3 DEF Execute
    <3>2. "schedule" \in Steps
      BY DEF Steps
    <3>3. /\ jobs'[t].state = "active" /\ jobs'[t].step = "schedule"
          /\ jobs'[t].failures = jobs[t].failures /\ jobs'[t].stalls = jobs[t].stalls
          /\ \A u \in Tasks \ {t} : jobs'[u] = jobs[u]
      BY <2>1, <3>1, <3>2, GotoFacts DEF At
    <3>4. calls'[t].stage = "lookup" /\ \A u \in Tasks \ {t} : calls'[u] = calls[u]
      <4>1. calls \in [Callers -> Call] /\ Tasks \subseteq Callers
        BY DEF IInv, TypeOK, SchedulingTypeOK, Callers
      <4> QED  BY <3>1, <4>1 DEF Calling, NoCall
    <3>5. jobs[t].state = "active" /\ StepsAhead(jobs[t], calls[t]) = 12
      BY <2>1, TaskTyped, StepsAheadFacts DEF At
    <3>6. jobs'[t] \in Job /\ StepsAhead(jobs'[t], calls'[t]) = 11
      BY <3>3, <3>4, NextTyped, StepsAheadFacts
    <3> QED  BY <3>3, <3>4, <3>5, <3>6, Forward DEF OthersRest
  <2> QED  BY <2>2, <2>3
<1>10. CASE ExecuteThrows(t)
  BY <1>0, <1>2, <1>10 DEF ExecuteThrows, Throw
<1>11. CASE Announce(t)
  BY <1>0, <1>2, <1>11 DEF Announce
<1>16. CASE WriteMessage(t)
  BY <1>0, <1>2, <1>16 DEF WriteMessage
<1>12. CASE AnnounceThrows(t)
  BY <1>0, <1>2, <1>12 DEF AnnounceThrows, Throw
<1>13. CASE Apologise(t)
  BY <1>0, <1>2, <1>13 DEF Apologise
<1>14. CASE CatchFails(t)
  BY <1>0, <1>2, <1>14 DEF CatchFails
<1>15. CASE WorkerDies(t)
  <2> DEFINE n == jobs[t].stalls + 1
             x == IF jobs[t].stalls = 0 THEN "waiting" ELSE "failed"
             j == [jobs[t] EXCEPT !.stalls = n, !.step = "none", !.state = x]
  <2>1. /\ jobs[t].state = "active" /\ calls' = [calls EXCEPT ![t] = NoCall]
        /\ jobs' = [jobs EXCEPT ![t] = j]
    BY <1>15 DEF WorkerDies
  <2> HIDE DEF n, x
  <2>2. j.failures = jobs[t].failures /\ j.stalls = n
    BY TaskTyped DEF Job
  <2> HIDE DEF j
  <2>3. jobs'[t] = j /\ OthersRest(t)
    <3>1. calls \in [Callers -> Call]
      BY DEF IInv, TypeOK, SchedulingTypeOK
    <3> QED  BY <2>1, <3>1, TaskTyped DEF OthersRest
  <2> QED  BY <2>1, <2>2, <2>3, NextTyped, StartsOver DEF n
<1> QED
  BY <1>3, <1>4, <1>5, <1>6, <1>8, <1>9, <1>10, <1>11, <1>12, <1>13, <1>14, <1>15, <1>16 DEF WorkerStep

\* A call moves its caller alone, and touches no job that is there.
LEMMA CallDescends ==
  ASSUME IInv, IInv', NEW c \in Callers, CallStep(c) \/ AddJobThrows(c) \/ DeleteFails(c),
         NEW t \in Tasks, jobs[t].state # "none"
  PROVE  Descends(t)
<1>1. calls \in [Callers -> Call] /\ calls[c].stage # "idle"
  BY CallTyped DEF CallStep, LookUp, InsertRow, AddJob, AddJobThrows, DeleteRow, DeleteFails
<1>2. ASSUME c = t PROVE /\ jobs[t].state = "active" /\ jobs[t].step = "schedule"
                         /\ jobs[t] \in Job /\ jobs \in [Tasks -> Job]
  BY <1>1, <1>2, TaskTyped DEF CallInv, JobInv
<1>3. ASSUME c = t, UNCHANGED jobs, StepsAhead(jobs[t], calls'[t]) < StepsAhead(jobs[t], calls[t])
      PROVE  Descends(t)
  BY <1>2, <1>3, NextTyped, Forward
<1>4. ASSUME c = t, NEW s \in {"publish", "catch"}, jobs'[t] = [jobs[t] EXCEPT !.step = s],
             calls'[t].stage = "idle"
      PROVE  Descends(t)
  <2> DEFINE j == [jobs[t] EXCEPT !.step = s]
  <2>1. j.state = "active" /\ j.step = s /\ j.failures = jobs[t].failures /\ j.stalls = jobs[t].stalls
    BY <1>2, <1>4 DEF Job
  <2>2. jobs'[t] = j
    BY <1>4
  <2> HIDE DEF j
  <2>3. StepsAhead(jobs'[t], calls'[t]) \in {3, 7}
    BY <1>4, <2>1, <2>2, NextTyped, StepsAheadFacts
  <2>4. StepsAhead(jobs[t], calls[t]) \in 8..11
    BY <1>1, <1>2, <1>4, CallTyped, StepsAheadFacts
  <2>5. StepsAhead(jobs'[t], calls'[t]) < StepsAhead(jobs[t], calls[t])
    BY <2>3, <2>4
  <2> QED  BY <1>2, <1>4, <2>1, <2>2, <2>5, NextTyped, Forward
<1>5. CASE LookUp(c)
  <2>1. CASE KeyHeld(calls[c].key)
    <3>1. calls' = [calls EXCEPT ![c] = NoCall] /\ jobs' = Resumed(c, "publish")
      BY <1>5, <2>1 DEF LookUp
    <3>2. CASE c = t
      BY <1>1, <1>2, <1>4, <3>1, <3>2 DEF Resumed, NoCall
    <3>3. CASE c # t
      BY <1>1, <3>1, <3>3, TaskTyped DEF Resumed, Descends
    <3> QED  BY <3>2, <3>3
  <2>2. CASE ~KeyHeld(calls[c].key)
    <3>1. calls' = [calls EXCEPT ![c].stage = "insert"] /\ UNCHANGED jobs /\ calls[c].stage = "lookup"
      BY <1>5, <2>2 DEF LookUp
    <3>2. CASE c = t
      <4>1. calls'[t].stage = "insert"
        BY <1>1, <3>1, <3>2 DEF Call
      <4>2. StepsAhead(jobs[t], calls'[t]) = 10
        BY <1>2, <3>2, <4>1, StepsAheadFacts
      <4>3. StepsAhead(jobs[t], calls[t]) = 11
        BY <1>2, <3>1, <3>2, StepsAheadFacts
      <4> QED  BY <1>3, <3>1, <3>2, <4>2, <4>3
    <3>3. CASE c # t
      BY <1>1, <3>1, <3>3, TaskTyped DEF Descends
    <3> QED  BY <3>2, <3>3
  <2> QED  BY <2>1, <2>2
<1>6. CASE InsertRow(c)
  <2>1. PICK r : /\ calls' = [calls EXCEPT ![c] = [calls[c] EXCEPT !.stage = "add", !.task = r]]
                 /\ UNCHANGED jobs /\ calls[c].stage = "insert"
    BY <1>6 DEF InsertRow
  <2>2. CASE c = t
    <3>1. calls'[t].stage = "add"
      BY <1>1, <2>1, <2>2 DEF Call
    <3>2. StepsAhead(jobs[t], calls'[t]) = 9
      BY <1>2, <2>2, <3>1, StepsAheadFacts
    <3>3. StepsAhead(jobs[t], calls[t]) = 10
      BY <1>2, <2>1, <2>2, StepsAheadFacts
    <3> QED  BY <1>3, <2>1, <2>2, <3>2, <3>3
  <2>3. CASE c # t
    BY <1>1, <2>1, <2>3, TaskTyped DEF Descends
  <2> QED  BY <2>2, <2>3
<1>7. CASE AddJob(c) \/ DeleteRow(c) \/ DeleteFails(c)
  <2>1. PICK s \in {"publish", "catch"} :
          /\ calls[c].stage \in {"add", "delete"} /\ calls' = [calls EXCEPT ![c] = NoCall]
          /\ \/ jobs' = Resumed(c, s)
             \/ calls[c].stage = "add" /\ \E j : jobs' = [Resumed(c, s) EXCEPT ![calls[c].task] = j]
    BY <1>7 DEF AddJob, DeleteRow, DeleteFails
  <2>2. s \in Steps
    BY DEF Steps
  <2>3. calls[c].stage = "add" => t # calls[c].task
    BY CallTyped DEF CallInv, NoJob
  <2>4. jobs'[t] = Resumed(c, s)[t]
    BY <2>1, <2>2, <2>3, ResumedFacts
  <2>5. CASE c = t
    <3>1. jobs'[t] = [jobs[t] EXCEPT !.step = s]
      BY <1>2, <2>4, <2>5 DEF Resumed
    <3> QED  BY <1>1, <1>4, <2>1, <2>5, <3>1 DEF NoCall
  <2>6. CASE c # t
    <3>1. jobs'[t] = jobs[t]
      BY <2>1, <2>2, <2>4, <2>6, ResumedFacts
    <3> QED  BY <1>1, <2>1, <2>6, <3>1, TaskTyped DEF Descends
  <2> QED  BY <2>5, <2>6
<1>8. CASE AddJobThrows(c)
  <2>1. /\ calls[c].stage = "add" /\ calls' = [calls EXCEPT ![c].stage = "delete"]
        /\ \/ UNCHANGED jobs
           \/ \E j : jobs' = [jobs EXCEPT ![calls[c].task] = j]
    BY <1>8 DEF AddJobThrows
  <2>2. t # calls[c].task
    BY <2>1, CallTyped DEF CallInv, NoJob
  <2>3. jobs'[t] = jobs[t]
    BY <2>1, <2>2, TaskTyped
  <2>4. CASE c = t
    <3>1. calls'[t].stage = "delete"
      BY <1>1, <2>1, <2>4 DEF Call
    <3>2. StepsAhead(jobs'[t], calls'[t]) = 8
      BY <1>2, <2>3, <2>4, <3>1, StepsAheadFacts
    <3>3. StepsAhead(jobs[t], calls[t]) = 9
      BY <1>2, <2>1, <2>4, StepsAheadFacts
    <3> QED  BY <1>2, <2>3, <2>4, <3>2, <3>3, Forward
  <2>5. CASE c # t
    BY <1>1, <2>1, <2>3, <2>5, TaskTyped DEF Descends
  <2> QED  BY <2>4, <2>5
<1> QED  BY <1>5, <1>6, <1>7, <1>8 DEF CallStep

\* Every step of the system.
LEMMA NextDescends ==
  ASSUME IInv, IInv', [Next]_vars, NEW t \in Tasks, jobs[t].state # "none"
  PROVE  Descends(t)
<1>1. calls \in [Callers -> Call] /\ t \in Callers /\ t \notin Clients
  BY TaskTyped, SchedulingAssumption DEF IInv, TypeOK, SchedulingTypeOK
<1>2. ASSUME NEW u \in Tasks,
             \/ WorkerStep(u) \/ AnnounceThrows(u)
             \/ StartFails(u) \/ CatchFails(u) \/ WorkerDies(u)
      PROVE  Descends(t)
  <2>1. CASE u = t
    BY <1>2, <2>1, WorkerDescends
  <2>2. CASE u # t
    <3>1. jobs'[t] = jobs[t] /\ calls'[t] = calls[t]
      BY <1>2, <2>2, WorkerDescends DEF OthersRest
    <3> QED  BY <3>1 DEF Descends
  <2> QED  BY <2>1, <2>2
<1>3. CASE \E c \in Clients : Request(c) \/ ClientDies(c)
  BY <1>1, <1>3 DEF Request, Calling, ClientDies, Descends
<1>4. CASE UNCHANGED vars
  BY <1>4 DEF vars, Descends
<1> QED  BY <1>2, <1>3, <1>4, CallDescends DEF Next, Fault

\* Every step of a task brings it nearer to its end, for any number of tasks,
\* attempts and faults: no throw, failed statement, death, call of another task
\* or late add starts it over for nothing, and no ended job runs again.
THEOREM EveryTaskDescends == Spec => TasksDescend
<1>1. IInv /\ IInv' /\ [Next]_vars =>
        \A t \in Tasks :
          jobs[t].state # "none" /\ (jobs'[t] # jobs[t] \/ calls'[t] # calls[t]) =>
            Remaining(jobs'[t], calls'[t]) \in 0..(Remaining(jobs[t], calls[t]) - 1)
  BY NextDescends DEF Descends
<1> QED  BY <1>1, Inductive, PTL DEF Spec, TasksDescend
=============================================================================
