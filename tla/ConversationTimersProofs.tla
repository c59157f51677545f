---------------------- MODULE ConversationTimersProofs ----------------------
(***************************************************************************)
(* Theorems about ConversationTimers, for any number of handlers, events   *)
(* and restarts and every policy.                                          *)
(***************************************************************************)
EXTENDS ConversationTimers, SequenceTheorems, TLAPS

\* What a list of Redis calls does to the close timer, if it touches it: perhaps
\* remove it; remove it and then, at the end, set it; set it.
NotSetting(s)  == \A i \in 1..Len(s) : s[i].add # "followUp"
Replacing(s)   ==
  /\ Len(s) >= 2
  /\ s[Len(s)].add = "followUp"
  /\ s[Len(s) - 1].add = None /\ "followUp" \in s[Len(s) - 1].remove
  /\ \A i \in 1..(Len(s) - 1) : s[i].add # "followUp"
Setting(s)     == Len(s) = 1 /\ s[1].add = "followUp"
-----------------------------------------------------------------------------
(* Lists of calls *)

\* The calls, one by one.
LEMMA OneCall ==
  /\ \A ids \in SUBSET TimerIds :
       /\ Remove(ids) \in Seq(Op) /\ Len(Remove(ids)) = 1
       /\ Remove(ids)[1] \in Op /\ Remove(ids)[1].remove = ids /\ Remove(ids)[1].add = None
  /\ \A id \in TimerIds :
       /\ Add(id) \in Seq(Op) /\ Len(Add(id)) = 1
       /\ Add(id)[1] \in Op /\ Add(id)[1].remove = {} /\ Add(id)[1].add = id
<1>1. ASSUME NEW ids \in SUBSET TimerIds
      PROVE  /\ Remove(ids) \in Seq(Op) /\ Len(Remove(ids)) = 1
             /\ Remove(ids)[1] \in Op /\ Remove(ids)[1].remove = ids /\ Remove(ids)[1].add = None
  <2> DEFINE op == [remove |-> ids, add |-> None]
  <2>1. op \in Op /\ op.remove = ids /\ op.add = None
    BY DEF Op
  <2>2. Remove(ids) = <<op>>
    BY DEF Remove
  <2> HIDE DEF op
  <2> QED  BY <2>1, <2>2
<1>2. ASSUME NEW id \in TimerIds
      PROVE  /\ Add(id) \in Seq(Op) /\ Len(Add(id)) = 1
             /\ Add(id)[1] \in Op /\ Add(id)[1].remove = {} /\ Add(id)[1].add = id
  <2> DEFINE op == [remove |-> {}, add |-> id]
  <2>1. op \in Op /\ op.remove = {} /\ op.add = id
    BY DEF Op
  <2>2. Add(id) = <<op>>
    BY DEF Add
  <2> HIDE DEF op
  <2> QED  BY <2>1, <2>2
<1> QED  BY <1>1, <1>2

\* Lists that follow each other.
LEMMA JoinedCalls ==
  ASSUME NEW s \in Seq(Op), NEW t \in Seq(Op)
  PROVE  /\ s \o t \in Seq(Op)
         /\ Untouching(s) /\ Untouching(t) => Untouching(s \o t)
         /\ NotSetting(s) /\ NotSetting(t) => NotSetting(s \o t)
         /\ NotSetting(s) /\ Replacing(t) => Replacing(s \o t)
<1> DEFINE u == s \o t
<1>1. /\ u \in Seq(Op) /\ Len(u) = Len(s) + Len(t)
      /\ Len(s) \in Nat /\ Len(t) \in Nat
      /\ \A i \in 1..Len(s) : u[i] = s[i]
  BY ConcatProperties, LenProperties
<1>2. ASSUME NEW i \in 1..Len(u), i > Len(s)
      PROVE  i - Len(s) \in 1..Len(t) /\ u[i] = t[i - Len(s)]
  BY <1>1, <1>2, ConcatProperties
<1> HIDE DEF u
<1>3. ASSUME NEW i \in 1..Len(u)
      PROVE  (\E k \in 1..Len(s) : u[i] = s[k]) \/ (\E k \in 1..Len(t) : u[i] = t[k])
  <2>1. CASE i > Len(s)
    BY <1>2, <2>1
  <2>2. CASE ~(i > Len(s))
    <3>1. i \in 1..Len(s)
      BY <1>1, <2>2
    <3> QED  BY <1>1, <3>1
  <2> QED  BY <2>1, <2>2
<1>4. Untouching(s) /\ Untouching(t) => Untouching(u)
  BY <1>3 DEF Untouching
<1>5. NotSetting(s) /\ NotSetting(t) => NotSetting(u)
  BY <1>3 DEF NotSetting
<1>6. ASSUME NotSetting(s), Replacing(t) PROVE Replacing(u)
  <2>1. Len(u) >= 2 /\ Len(u) \in 1..Len(u) /\ Len(u) - 1 \in 1..Len(u) /\ Len(u) - 1 > Len(s)
    BY <1>1, <1>6 DEF Replacing
  <2>2. u[Len(u)] = t[Len(t)]
    <3>1. u[Len(u)] = t[Len(u) - Len(s)]
      BY <1>1, <1>2, <2>1
    <3> QED  BY <1>1, <3>1
  <2>3. u[Len(u) - 1] = t[Len(t) - 1]
    <3>1. u[Len(u) - 1] = t[(Len(u) - 1) - Len(s)]
      BY <1>1, <1>2, <2>1
    <3>2. (Len(u) - 1) - Len(s) = Len(t) - 1
      BY <1>1
    <3> QED  BY <3>1, <3>2
  <2>4. ASSUME NEW i \in 1..(Len(u) - 1) PROVE u[i].add # "followUp"
    <3>1. CASE i > Len(s)
      <4>1. i - Len(s) \in 1..(Len(t) - 1) /\ i \in 1..Len(u)
        BY <1>1, <3>1
      <4> QED  BY <1>2, <1>6, <3>1, <4>1 DEF Replacing
    <3>2. CASE ~(i > Len(s))
      <4>1. i \in 1..Len(s)
        BY <1>1, <3>2
      <4> QED  BY <1>1, <1>6, <4>1 DEF NotSetting
    <3> QED  BY <3>1, <3>2
  <2> QED  BY <1>6, <2>1, <2>2, <2>3, <2>4 DEF Replacing
<1> QED  BY <1>1, <1>4, <1>5, <1>6 DEF u

\* One call and another.
LEMMA TwoCalls ==
  ASSUME NEW s \in Seq(Op), NEW t \in Seq(Op), Len(s) = 1, Len(t) = 1
  PROVE  s \o t \in Seq(Op) /\ Len(s \o t) = 2 /\ (s \o t)[1] = s[1] /\ (s \o t)[2] = t[1]
<1>1. /\ s \o t \in Seq(Op) /\ Len(s \o t) = Len(s) + Len(t)
      /\ \A i \in 1..(Len(s) + Len(t)) : (s \o t)[i] = IF i <= Len(s) THEN s[i] ELSE t[i - Len(s)]
  BY ConcatProperties
<1>2. 1 \in 1..(Len(s) + Len(t)) /\ 2 \in 1..(Len(s) + Len(t)) /\ 2 - Len(s) = 1 /\ 1 <= Len(s) /\ ~(2 <= Len(s))
  OBVIOUS
<1>3. (s \o t)[1] = s[1]
  BY <1>1, <1>2
<1>4. (s \o t)[2] = t[1]
  BY <1>1, <1>2
<1> QED  BY <1>1, <1>3, <1>4

\* What is left of a list after its first call.
LEMMA FirstCall ==
  ASSUME NEW s \in Seq(Op), s # <<>>
  PROVE  /\ Head(s) \in Op /\ Tail(s) \in Seq(Op)
         /\ Untouching(s) => ~Touches(Head(s)) /\ Untouching(Tail(s))
         /\ NotSetting(s) => Head(s).add # "followUp" /\ NotSetting(Tail(s))
         /\ Replacing(s) => /\ Head(s).add # "followUp"
                            /\ \/ Replacing(Tail(s))
                               \/ /\ Setting(Tail(s))
                                  /\ Head(s).add = None /\ "followUp" \in Head(s).remove
         /\ Setting(s) => Head(s).add = "followUp" /\ Tail(s) = <<>>
<1> DEFINE u == Tail(s)
<1>1. /\ u \in Seq(Op) /\ Len(u) = Len(s) - 1 /\ Len(s) \in Nat \ {0} /\ Len(u) \in Nat
      /\ Head(s) = s[1] /\ Head(s) \in Op
      /\ \A i \in 1..Len(u) : u[i] = s[i + 1]
  BY HeadTailProperties, LenProperties, EmptySeq
<1> HIDE DEF u
<1>2. ASSUME NEW i \in 1..Len(u) PROVE \E k \in 1..Len(s) : u[i] = s[k]
  <2>1. i + 1 \in 1..Len(s)
    BY <1>1
  <2> QED  BY <1>1, <2>1
<1>3. 1 \in 1..Len(s)
  BY <1>1
<1>4. Untouching(s) => ~Touches(Head(s)) /\ Untouching(u)
  BY <1>1, <1>2, <1>3 DEF Untouching
<1>5. NotSetting(s) => Head(s).add # "followUp" /\ NotSetting(u)
  BY <1>1, <1>2, <1>3 DEF NotSetting
<1>6. ASSUME Replacing(s), Len(s) > 2 PROVE Head(s).add # "followUp" /\ Replacing(u)
  <2>1. Len(u) >= 2
    BY <1>1, <1>6
  <2>2. u[Len(u)] = s[Len(s)] /\ u[Len(u) - 1] = s[Len(s) - 1]
    <3>1. Len(u) \in 1..Len(u) /\ Len(u) - 1 \in 1..Len(u)
      BY <1>1, <2>1
    <3>2. (Len(u) - 1) + 1 = Len(s) - 1 /\ Len(u) + 1 = Len(s)
      BY <1>1
    <3> QED  BY <1>1, <3>1, <3>2
  <2>3. ASSUME NEW i \in 1..Len(u) - 1 PROVE u[i].add # "followUp"
    <3>1. i \in 1..Len(u) /\ i + 1 \in 1..Len(s) - 1
      BY <1>1
    <3>2. u[i] = s[i + 1]
      BY <1>1, <3>1
    <3> QED  BY <1>6, <3>1, <3>2 DEF Replacing
  <2>4. 1 \in 1..Len(s) - 1
    BY <1>1, <1>6
  <2>5. Head(s).add # "followUp"
    BY <1>1, <1>6, <2>4 DEF Replacing
  <2>6. u[Len(u)].add = "followUp" /\ u[Len(u) - 1].add = None /\ "followUp" \in u[Len(u) - 1].remove
    BY <1>6, <2>2 DEF Replacing
  <2> QED  BY <2>1, <2>3, <2>5, <2>6 DEF Replacing
<1>7. ASSUME Replacing(s), Len(s) = 2
      PROVE  Setting(u) /\ Head(s).add = None /\ "followUp" \in Head(s).remove /\ Head(s).add # "followUp"
  BY <1>1, <1>7 DEF Replacing, Setting
<1>8. Setting(s) => Head(s).add = "followUp" /\ u = <<>>
  BY <1>1, EmptySeq DEF Setting
<1> QED  BY <1>1, <1>4, <1>5, <1>6, <1>7, <1>8 DEF u, Replacing

\* The lists the handlers leave.
LEMMA CallLists ==
  /\ <<>> \in Seq(Op) /\ Untouching(<<>>) /\ NotSetting(<<>>)
  /\ \A q \in {CancelAccept, CancelSubsequent, Add("acceptA")} :
       q \in Seq(Op) /\ Untouching(q) /\ NotSetting(q)
  /\ \A timed \in BOOLEAN :
       /\ \A q \in {ScheduleSubsequent(timed), ScheduleAccept(None, timed)} :
            q \in Seq(Op) /\ Untouching(q) /\ NotSetting(q)
       /\ ScheduleFollowUp(timed) \in Seq(Op)
       /\ ReplyCalls(timed) \in Seq(Op)
  /\ CancelFollowUp \in Seq(Op) /\ NotSetting(CancelFollowUp)
  /\ ScheduleFollowUp(FALSE) = <<>>
  /\ Replacing(ScheduleFollowUp(TRUE)) /\ Replacing(ReplyCalls(TRUE))
<1>1. <<>> \in Seq(Op) /\ Untouching(<<>>) /\ NotSetting(<<>>)
  BY EmptySeq DEF Untouching, NotSetting
<1>2. ASSUME NEW ids \in SUBSET TimerIds
      PROVE  /\ Remove(ids) \in Seq(Op) /\ NotSetting(Remove(ids))
             /\ "followUp" \notin ids => Untouching(Remove(ids))
  <2>1. /\ Remove(ids) \in Seq(Op) /\ Len(Remove(ids)) = 1
        /\ Remove(ids)[1].remove = ids /\ Remove(ids)[1].add = None
    BY OneCall
  <2> QED  BY <2>1, TimersAssumption DEF NotSetting, Untouching, Touches
<1>3. ASSUME NEW id \in TimerIds \ {"followUp"}
      PROVE  Add(id) \in Seq(Op) /\ NotSetting(Add(id)) /\ Untouching(Add(id))
  <2>1. /\ Add(id) \in Seq(Op) /\ Len(Add(id)) = 1
        /\ Add(id)[1].remove = {} /\ Add(id)[1].add = id
    BY OneCall
  <2> QED  BY <2>1 DEF NotSetting, Untouching, Touches
<1>4. /\ Slots \in SUBSET TimerIds /\ "followUp" \notin Slots
      /\ Slots \ {None, NextSlot(None)} \in SUBSET TimerIds
      /\ "followUp" \notin Slots \ {None, NextSlot(None)}
      /\ NextSlot(None) \in TimerIds \ {"followUp"}
      /\ {"followUp"} \in SUBSET TimerIds
      /\ {"subsequent"} \in SUBSET TimerIds /\ "subsequent" \in TimerIds \ {"followUp"}
      /\ "acceptA" \in TimerIds \ {"followUp"} /\ "followUp" \in TimerIds
  BY DEF TimerIds, Slots, NextSlot
<1>5. /\ CancelAccept \in Seq(Op) /\ Untouching(CancelAccept) /\ NotSetting(CancelAccept)
      /\ CancelSubsequent \in Seq(Op) /\ Untouching(CancelSubsequent) /\ NotSetting(CancelSubsequent)
      /\ Add("acceptA") \in Seq(Op) /\ Untouching(Add("acceptA")) /\ NotSetting(Add("acceptA"))
      /\ CancelFollowUp \in Seq(Op) /\ NotSetting(CancelFollowUp)
  BY <1>2, <1>3, <1>4 DEF CancelAccept, CancelSubsequent, CancelFollowUp
<1>6. ASSUME NEW timed \in BOOLEAN
      PROVE  /\ ScheduleSubsequent(timed) \in Seq(Op)
             /\ Untouching(ScheduleSubsequent(timed)) /\ NotSetting(ScheduleSubsequent(timed))
  <2>1. CASE timed
    <3>1. ScheduleSubsequent(timed) = Remove({"subsequent"}) \o Add("subsequent")
      BY <2>1 DEF ScheduleSubsequent, Replace
    <3> QED  BY <1>2, <1>3, <1>4, <3>1, JoinedCalls
  <2>2. CASE ~timed
    BY <1>1, <2>2 DEF ScheduleSubsequent, Replace
  <2> QED  BY <2>1, <2>2
<1>7. ASSUME NEW timed \in BOOLEAN
      PROVE  /\ ScheduleAccept(None, timed) \in Seq(Op)
             /\ Untouching(ScheduleAccept(None, timed)) /\ NotSetting(ScheduleAccept(None, timed))
  <2>1. CASE timed
    <3>1. ScheduleAccept(None, timed) = Remove(Slots \ {None, NextSlot(None)}) \o Add(NextSlot(None))
      BY <2>1 DEF ScheduleAccept
    <3> QED  BY <1>2, <1>3, <1>4, <3>1, JoinedCalls
  <2>2. CASE ~timed
    BY <1>1, <2>2 DEF ScheduleAccept
  <2> QED  BY <2>1, <2>2
<1>8. ScheduleFollowUp(TRUE) \in Seq(Op) /\ Replacing(ScheduleFollowUp(TRUE))
  <2> DEFINE r == Remove({"followUp"})
             a == Add("followUp")
             u == r \o a
  <2>1. /\ r \in Seq(Op) /\ Len(r) = 1 /\ r[1].remove = {"followUp"} /\ r[1].add = None
        /\ a \in Seq(Op) /\ Len(a) = 1 /\ a[1].remove = {} /\ a[1].add = "followUp"
    BY <1>4, OneCall
  <2>2. u = ScheduleFollowUp(TRUE)
    BY DEF ScheduleFollowUp, Replace
  <2> HIDE DEF r, a
  <2>3. u \in Seq(Op) /\ Len(u) = 2 /\ u[1] = r[1] /\ u[2] = a[1]
    BY <2>1, TwoCalls
  <2> HIDE DEF u
  <2>4. Replacing(u)
    BY <2>1, <2>3, TimersAssumption DEF Replacing
  <2> QED  BY <2>2, <2>3, <2>4
<1>9. ScheduleFollowUp(FALSE) = <<>>
  BY DEF ScheduleFollowUp, Replace
<1>10. /\ ReplyCalls(TRUE) \in Seq(Op) /\ Replacing(ReplyCalls(TRUE))
       /\ ReplyCalls(FALSE) \in Seq(Op)
  <2>1. ReplyCalls(TRUE) \in Seq(Op) /\ Replacing(ReplyCalls(TRUE))
    BY <1>5, <1>8, JoinedCalls DEF ReplyCalls
  <2>2. ReplyCalls(FALSE) \in Seq(Op)
    BY <1>1, <1>5, <1>9, JoinedCalls DEF ReplyCalls
  <2> QED  BY <2>1, <2>2
<1>11. ASSUME NEW timed \in BOOLEAN
       PROVE  ScheduleFollowUp(timed) \in Seq(Op) /\ ReplyCalls(timed) \in Seq(Op)
  <2>1. timed = TRUE \/ timed = FALSE
    OBVIOUS
  <2> QED  BY <1>1, <1>8, <1>9, <1>10, <2>1
<1> QED  BY <1>1, <1>5, <1>6, <1>7, <1>8, <1>9, <1>10, <1>11
-----------------------------------------------------------------------------
(* The invariant *)

\* The conversation waits for its customer.
Waiting == turn = "customer" /\ status \in Live

CloseTimer == timers["followUp"]

OthersLeaveIt(p) == \A q \in Tails \ {p} : Untouching(tails[q].ops)

\* The close timer stands, or one handler has still to set it, and will replace
\* the old one first.
Standing == WillAct /\ \A p \in Tails : Untouching(tails[p].ops)

Underway(p) ==
  /\ OthersLeaveIt(p)
  /\ \/ Replacing(tails[p].ops)
     \/ Setting(tails[p].ops) /\ CloseTimer.state = "none" /\ tails[p].quiet

CloseInv == Waiting /\ ~overlap /\ gone = "no" => Standing \/ \E p \in Tails : Underway(p)

\* While the customer waits for the service nobody sets the close timer, and the one
\* there is is stale.
ServiceInv ==
  turn = "service" /\ ~overlap => ~CloseTimer.quiet /\ \A p \in Tails : NotSetting(tails[p].ops)

IInv == TypeOK /\ CloseInv /\ ServiceInv
-----------------------------------------------------------------------------
(* Types *)

\* The four timers.
LEMMA TimerNames ==
  /\ Slots \subseteq TimerIds /\ "followUp" \in TimerIds /\ "subsequent" \in TimerIds
  /\ "followUp" \notin Slots /\ "subsequent" \notin Slots
  /\ QueueActivity = Slots /\ QueueActivity \subseteq TimerIds
  /\ MessageActivity \subseteq TimerIds /\ AgentActivity \subseteq TimerIds
  /\ InboundActivity = MessageActivity
  /\ "followUp" \in MessageActivity /\ "followUp" \in AgentActivity
  /\ \A i \in Slots : NextSlot(i) \in Slots /\ NextSlot(i) # i
BY DEF Slots, TimerIds, QueueActivity, MessageActivity, AgentActivity, InboundActivity, NextSlot

\* What BullMQ and the activities make of the jobs, job by job.
LEMMA JobTypes ==
  ASSUME NEW ts \in [TimerIds -> Timer], NEW ids \in SUBSET TimerIds, NEW id \in TimerIds,
         NEW quiet \in BOOLEAN
  PROVE  /\ Removed(ts, ids) \in [TimerIds -> Timer]
         /\ Added(ts, id, quiet) \in [TimerIds -> Timer]
         /\ Stale(ts, ids) \in [TimerIds -> Timer]
         /\ Ended(ts, id) \in [TimerIds -> Timer]
         /\ [ts EXCEPT ![id].state = "active"] \in [TimerIds -> Timer]
         /\ [ts EXCEPT ![id].state = "evaluating"] \in [TimerIds -> Timer]
         /\ [ts EXCEPT ![id] = NoTimer] \in [TimerIds -> Timer]
<1>1. NoTimer \in Timer /\ \A i \in TimerIds : ts[i] \in Timer
  BY DEF NoTimer, Timer
<1>2. Removed(ts, ids) \in [TimerIds -> Timer]
  BY <1>1 DEF Removed
<1>3. Added(ts, id, quiet) \in [TimerIds -> Timer]
  BY <1>1 DEF Added, Timer
<1>4. \A i \in TimerIds : [ts[i] EXCEPT !.quiet = FALSE] \in Timer
  BY <1>1 DEF Timer
<1>5. Stale(ts, ids) \in [TimerIds -> Timer]
  BY <1>1, <1>4 DEF Stale
<1>6. Ended(ts, id) \in [TimerIds -> Timer]
  BY <1>1 DEF Ended, Timer
<1>7. /\ [ts EXCEPT ![id].state = "active"] \in [TimerIds -> Timer]
      /\ [ts EXCEPT ![id].state = "evaluating"] \in [TimerIds -> Timer]
  BY <1>1 DEF Timer
<1>8. [ts EXCEPT ![id] = NoTimer] \in [TimerIds -> Timer]
  BY <1>1
<1> QED  BY <1>2, <1>3, <1>5, <1>6, <1>7, <1>8

\* An activity makes calls stale and leaves them as they are otherwise.
LEMMA StaleTailsFacts ==
  ASSUME TypeOK, NEW ids \in SUBSET TimerIds
  PROVE  /\ StaleTails(ids) \in [Tails -> Calls]
         /\ \A p \in Tails : StaleTails(ids)[p].ops = tails[p].ops
         /\ \A p \in Tails : tails[p].ops = <<>> => StaleTails(ids)[p] = tails[p]
         /\ "followUp" \notin ids =>
              \A p \in Tails : Setting(tails[p].ops) => StaleTails(ids)[p] = tails[p]
<1>1. \A p \in Tails : tails[p] \in Calls /\ tails[p].ops \in Seq(Op)
  BY DEF TypeOK, Calls
<1>2. \A p \in Tails : /\ [tails[p] EXCEPT !.quiet = FALSE] \in Calls
                       /\ [tails[p] EXCEPT !.quiet = FALSE].ops = tails[p].ops
  BY <1>1 DEF Calls
<1>3. \A p \in Tails : StaleTails(ids)[p] \in {tails[p], [tails[p] EXCEPT !.quiet = FALSE]}
  BY DEF StaleTails
<1>4. StaleTails(ids) \in [Tails -> Calls]
  BY <1>1, <1>2 DEF StaleTails
<1>5. \A p \in Tails : tails[p].ops = <<>> => StaleTails(ids)[p] = tails[p]
  BY DEF StaleTails
<1>6. ASSUME "followUp" \notin ids, NEW p \in Tails, Setting(tails[p].ops)
      PROVE  StaleTails(ids)[p] = tails[p]
  <2>1. tails[p].ops # <<>>
    BY <1>6, EmptySeq DEF Setting
  <2>2. Head(tails[p].ops).add = "followUp"
    BY <1>1, <1>6, <2>1, FirstCall
  <2> QED  BY <1>6, <2>2 DEF StaleTails
<1> QED  BY <1>2, <1>3, <1>4, <1>5, <1>6

\* An event makes jobs stale and leaves its calls in a tail that was idle.
LEMMA EventFacts ==
  ASSUME TypeOK, NEW ids \in SUBSET TimerIds, NEW ops \in Seq(Op), Event(ids, ops)
  PROVE  /\ timers' = Stale(timers, ids)
         /\ timers' \in [TimerIds -> Timer] /\ tails' \in [Tails -> Calls]
         /\ events' \in 0..MaxEvents
         /\ \E p \in IdleTails : tails' = [StaleTails(ids) EXCEPT ![p] = [ops |-> ops, quiet |-> FALSE]]
<1>1. IdleTails # {} /\ events' \in 0..MaxEvents
  BY TimersAssumption DEF Event, TypeOK
<1>2. PICK p \in IdleTails : tails' = [StaleTails(ids) EXCEPT ![p] = [ops |-> ops, quiet |-> FALSE]]
  BY <1>1 DEF Event
<1>3. [ops |-> ops, quiet |-> FALSE] \in Calls
  BY DEF Calls
<1>4. tails' \in [Tails -> Calls]
  BY <1>2, <1>3, StaleTailsFacts
<1>5. timers' = Stale(timers, ids) /\ timers' \in [TimerIds -> Timer]
  <2>1. timers \in [TimerIds -> Timer] /\ "followUp" \in TimerIds /\ TRUE \in BOOLEAN
    BY TimerNames DEF TypeOK
  <2>2. Stale(timers, ids) \in [TimerIds -> Timer]
    BY <2>1, JobTypes
  <2> QED  BY <2>2 DEF Event
<1> QED  BY <1>1, <1>2, <1>4, <1>5 DEF Event

\* The lists of the events are lists of calls.
LEMMA EventLists ==
  /\ \A timed \in BOOLEAN : CancelAccept \o CancelSubsequent \o ReplyCalls(timed) \in Seq(Op)
  /\ Replacing(CancelAccept \o CancelSubsequent \o ReplyCalls(TRUE))
  /\ \A timed \in BOOLEAN :
       LET ops == CancelAccept \o CancelFollowUp \o ScheduleAccept(None, timed) IN
         ops \in Seq(Op) /\ NotSetting(ops)
  /\ \A preserved, answered, timed \in BOOLEAN :
       /\ InboundOps(preserved, answered, timed) \in Seq(Op)
       /\ NotSetting(InboundOps(preserved, answered, timed))
<1> DEFINE c == CancelAccept \o CancelSubsequent
           f == CancelAccept \o CancelFollowUp
<1>1. c \in Seq(Op) /\ NotSetting(c) /\ f \in Seq(Op) /\ NotSetting(f)
  BY CallLists, JoinedCalls
<1> HIDE DEF c, f
<1>2. \A timed \in BOOLEAN : c \o ReplyCalls(timed) \in Seq(Op)
  BY <1>1, CallLists, JoinedCalls
<1>3. Replacing(c \o ReplyCalls(TRUE))
  <2>1. ReplyCalls(TRUE) \in Seq(Op) /\ Replacing(ReplyCalls(TRUE))
    BY CallLists
  <2> QED  BY <1>1, <2>1, JoinedCalls
<1>4. ASSUME NEW timed \in BOOLEAN
      PROVE  f \o ScheduleAccept(None, timed) \in Seq(Op) /\ NotSetting(f \o ScheduleAccept(None, timed))
  <2>1. ScheduleAccept(None, timed) \in Seq(Op) /\ NotSetting(ScheduleAccept(None, timed))
    BY CallLists
  <2> QED  BY <1>1, <2>1, JoinedCalls
<1>5. ASSUME NEW preserved \in BOOLEAN, NEW answered \in BOOLEAN, NEW timed \in BOOLEAN
      PROVE  /\ InboundOps(preserved, answered, timed) \in Seq(Op)
             /\ NotSetting(InboundOps(preserved, answered, timed))
  BY CallLists DEF InboundOps
<1> QED  BY <1>2, <1>3, <1>4, <1>5 DEF c, f

\* The customer's message leaves its calls in tails that were idle.
LEMMA InboundFacts ==
  ASSUME TypeOK, Inbound
  PROVE  /\ tails' \in [Tails -> Calls] /\ status' \in Statuses
         /\ \A q \in Tails : NotSetting(tails[q].ops) => NotSetting(tails'[q].ops)
<1> DEFINE stale == StaleTails(InboundActivity)
           given(ops) == [ops |-> ops, quiet |-> FALSE]
           first  == CHOOSE p \in IdleTails : TRUE
           others == IdleTails \ {first}
           second == CHOOSE p \in others : TRUE
           cancel == [stale EXCEPT ![first] = given(CancelFollowUp)]
<1>1. PICK preserved \in {FALSE, status = "human_active"}, timed \in Targets :
         /\ status' = IF preserved THEN status ELSE "queued"
         /\ \/ InboundOps(preserved, replied, timed) = <<>> /\ tails' = cancel
            \/ /\ InboundOps(preserved, replied, timed) # <<>> /\ others # {}
               /\ tails' = [cancel EXCEPT ![second] = given(InboundOps(preserved, replied, timed))]
  BY DEF Inbound
<1> DEFINE ops == InboundOps(preserved, replied, timed)
<1>2. /\ status' = IF preserved THEN status ELSE "queued"
      /\ \/ tails' = cancel
         \/ others # {} /\ tails' = [cancel EXCEPT ![second] = given(ops)]
  BY <1>1
<1>3. preserved \in BOOLEAN /\ replied \in BOOLEAN /\ timed \in BOOLEAN
  BY TimersAssumption DEF TypeOK
<1>4. /\ given(ops) \in Calls /\ given(ops).ops = ops /\ NotSetting(ops)
      /\ given(CancelFollowUp) \in Calls /\ given(CancelFollowUp).ops = CancelFollowUp
      /\ NotSetting(CancelFollowUp)
  BY <1>3, EventLists, CallLists DEF Calls
<1>5. stale \in [Tails -> Calls] /\ \A q \in Tails : stale[q].ops = tails[q].ops
  BY TimerNames, StaleTailsFacts
<1>6. status' \in Statuses
  BY <1>2, <1>3 DEF TypeOK, Statuses, Live
<1>7. first \in Tails /\ (others # {} => second \in Tails)
  BY DEF Inbound, IdleTails
<1> HIDE DEF ops, first, others, second, stale, given
<1>8. /\ cancel \in [Tails -> Calls]
      /\ \A q \in Tails : NotSetting(tails[q].ops) => NotSetting(cancel[q].ops)
  BY <1>4, <1>5, <1>7
<1> HIDE DEF cancel
<1>9. /\ tails' \in [Tails -> Calls]
      /\ \A q \in Tails : NotSetting(tails[q].ops) => NotSetting(tails'[q].ops)
  <2>1. CASE tails' = cancel
    BY <1>8, <2>1
  <2>2. CASE others # {} /\ tails' = [cancel EXCEPT ![second] = given(ops)]
    BY <1>4, <1>7, <1>8, <2>2
  <2> QED  BY <1>2, <2>1, <2>2
<1> QED  BY <1>6, <1>9

\* A restart leaves the calls of the sweeps, which set the close timer anew or do not
\* touch it.
LEMMA RestartFacts ==
  ASSUME TypeOK, Restart
  PROVE  /\ tails' \in [Tails -> Calls] /\ overlap' \in BOOLEAN /\ gone' \in Reasons
         /\ \/ /\ turn = "customer"
               /\ \E p \in Tails : /\ Replacing(tails'[p].ops)
                                   /\ \A q \in Tails \ {p} : Untouching(tails'[q].ops)
            \/ /\ \A q \in Tails : Untouching(tails'[q].ops) /\ NotSetting(tails'[q].ops)
               /\ overlap' = overlap
               /\ gone' = "no" => gone = "no" /\ Quiet
<1>1. PICK overdue \in BOOLEAN :
       LET accept == overdue /\ status = "queued"
           close  == overdue /\ status \in Live /\ turn = "customer"
           sweep  == CHOOSE p \in Tails : TRUE IN
         /\ tails' = [p \in Tails |-> IF p # sweep THEN NoCalls ELSE
                        [NoCalls EXCEPT !.ops = (IF accept THEN CancelAccept \o Add("acceptA") ELSE <<>>)
                                            \o ScheduleFollowUp(close)]]
         /\ overlap' = (overlap /\ ~close)
         /\ gone' = IF close THEN "no" ELSE IF Quiet THEN gone ELSE Gone("lost")
  BY DEF Restart
<1> DEFINE close == overdue /\ status \in Live /\ turn = "customer"
           sweep == CHOOSE p \in Tails : TRUE
           a == IF overdue /\ status = "queued" THEN CancelAccept \o Add("acceptA") ELSE <<>>
           b == ScheduleFollowUp(close)
           left == [NoCalls EXCEPT !.ops = a \o b]
<1>2. /\ tails' = [p \in Tails |-> IF p # sweep THEN NoCalls ELSE left]
      /\ overlap' = (overlap /\ ~close)
      /\ gone' = IF close THEN "no" ELSE IF Quiet THEN gone ELSE Gone("lost")
  BY <1>1
<1>3. a \in Seq(Op) /\ Untouching(a) /\ NotSetting(a)
  BY CallLists, JoinedCalls
<1>4. /\ close \in BOOLEAN /\ b \in Seq(Op)
      /\ close => Replacing(b)
      /\ ~close => Untouching(b) /\ NotSetting(b)
  BY CallLists
<1>5. sweep \in Tails
  BY TimersAssumption
<1>6. close => turn = "customer"
  OBVIOUS
<1>7. a \o b \in Seq(Op)
  BY <1>3, <1>4, JoinedCalls
<1>8. left \in Calls /\ left.ops = a \o b /\ NoCalls \in Calls /\ NoCalls.ops = <<>>
  BY <1>7, CallLists DEF NoCalls, Calls
<1> HIDE DEF close, sweep, a, b, left
<1>9. /\ close => Replacing(a \o b)
      /\ ~close => Untouching(a \o b) /\ NotSetting(a \o b)
  BY <1>3, <1>4, JoinedCalls
<1>10. tails' \in [Tails -> Calls] /\ \A q \in Tails : tails'[q].ops = IF q = sweep THEN a \o b ELSE <<>>
  BY <1>2, <1>5, <1>8
<1>11. overlap' \in BOOLEAN /\ gone' \in Reasons
  BY <1>2 DEF TypeOK, Reasons, Gone
<1>12. CASE close
  <2>1. Replacing(tails'[sweep].ops) /\ \A q \in Tails \ {sweep} : Untouching(tails'[q].ops)
    BY <1>5, <1>9, <1>10, <1>12, CallLists
  <2> QED  BY <1>5, <1>6, <1>10, <1>11, <1>12, <2>1
<1>13. CASE ~close
  <2>1. \A q \in Tails : Untouching(tails'[q].ops) /\ NotSetting(tails'[q].ops)
    BY <1>9, <1>10, <1>13, CallLists
  <2>2. overlap' = overlap
    BY <1>2, <1>13 DEF TypeOK
  <2>3. gone' = "no" => gone = "no" /\ Quiet
    BY <1>2, <1>13 DEF Gone
  <2> QED  BY <1>10, <1>11, <2>1, <2>2, <2>3
<1> QED  BY <1>12, <1>13

\* Every step keeps the types.
LEMMA TypeInv == TypeOK /\ [Next]_vars => TypeOK'
<1> SUFFICES ASSUME TypeOK, [Next]_vars PROVE TypeOK'
  OBVIOUS
<1>1. /\ timers \in [TimerIds -> Timer] /\ tails \in [Tails -> Calls]
      /\ \A p \in Tails : tails[p] \in Calls /\ tails[p].ops \in Seq(Op) /\ tails[p].quiet \in BOOLEAN
      /\ NoCalls \in Calls
  BY CallLists DEF TypeOK, Calls, NoCalls
<1>2. /\ TRUE \in BOOLEAN /\ FALSE \in BOOLEAN
      /\ {"followUp"} \in SUBSET TimerIds /\ {"subsequent"} \in SUBSET TimerIds
      /\ Slots \in SUBSET TimerIds /\ MessageActivity \in SUBSET TimerIds /\ AgentActivity \in SUBSET TimerIds
      /\ "followUp" \in TimerIds /\ "subsequent" \in TimerIds /\ QueueActivity \in SUBSET TimerIds
  BY TimerNames
<1>3. ASSUME NEW ids \in SUBSET TimerIds, NEW id \in TimerIds, NEW quiet \in BOOLEAN
      PROVE  Ended(Added(Removed(timers, ids), id, quiet), id) \in [TimerIds -> Timer]
  <2>1. Removed(timers, ids) \in [TimerIds -> Timer]
    BY <1>1, JobTypes
  <2>2. Added(Removed(timers, ids), id, quiet) \in [TimerIds -> Timer]
    BY <1>2, <2>1, JobTypes
  <2> QED  BY <1>2, <2>2, JobTypes
<1>4. ASSUME NEW id \in TimerIds
      PROVE  /\ Ended(Stale(timers, QueueActivity), id) \in [TimerIds -> Timer]
             /\ Stale(timers, QueueActivity) \in [TimerIds -> Timer]
  <2>1. Stale(timers, QueueActivity) \in [TimerIds -> Timer]
    BY <1>1, <1>2, JobTypes
  <2> QED  BY <1>2, <2>1, JobTypes
<1>5. ASSUME NEW p \in Tails, Advance(p) PROVE TypeOK'
  <2> DEFINE op   == Head(tails[p].ops)
             rest == Tail(tails[p].ops)
             left == [ops |-> rest, quiet |-> rest # <<>> /\ Head(rest).add # None]
  <2>1. op \in Op /\ rest \in Seq(Op)
    BY <1>1, <1>5, FirstCall DEF Advance
  <2>2. op.remove \in SUBSET TimerIds /\ (op.add # None => op.add \in TimerIds)
    BY <2>1 DEF Op
  <2>3. timers' = IF op.add = None THEN Removed(timers, op.remove) ELSE Added(timers, op.add, tails[p].quiet)
    BY <1>5 DEF Advance
  <2>5. left \in Calls
    BY <2>1 DEF Calls
  <2>6. tails' = [tails EXCEPT ![p] = left]
    BY <1>5 DEF Advance
  <2>7. gone' \in Reasons
    BY <1>5 DEF Advance, Gone, TypeOK, Reasons
  <2> HIDE DEF op, rest, left
  <2>4. timers' \in [TimerIds -> Timer]
    <3>1. CASE op.add = None
      BY <1>1, <1>2, <2>2, <2>3, <3>1, JobTypes
    <3>2. CASE op.add # None
      BY <1>1, <1>2, <2>2, <2>3, <3>2, JobTypes
    <3> QED  BY <3>1, <3>2
  <2>8. tails' \in [Tails -> Calls]
    BY <1>1, <2>5, <2>6
  <2> QED  BY <1>5, <2>4, <2>7, <2>8 DEF Advance, TypeOK
<1>6. ASSUME Inbound PROVE TypeOK'
  <2>1. tails' \in [Tails -> Calls] /\ status' \in Statuses
    BY <1>6, InboundFacts
  <2>2. timers' \in [TimerIds -> Timer]
    <3>1. timers' = Stale(timers, MessageActivity)
      BY <1>6, TimerNames DEF Inbound
    <3> QED  BY <1>1, <1>2, <3>1, JobTypes
  <2>3. events' \in 0..MaxEvents /\ overlap' \in BOOLEAN
    BY <1>6, TimersAssumption DEF Inbound, Unfinished, TypeOK
  <2> QED  BY <1>6, <2>1, <2>2, <2>3 DEF Inbound, TypeOK
<1>7. ASSUME AgentReply PROVE TypeOK'
  <2>1. PICK timed \in Targets :
          Event(AgentActivity, CancelAccept \o CancelSubsequent \o ReplyCalls(timed)) /\ Reply(timed)
    BY <1>7 DEF AgentReply
  <2>2. CancelAccept \o CancelSubsequent \o ReplyCalls(timed) \in Seq(Op)
    BY EventLists, TimersAssumption
  <2>3. timers' \in [TimerIds -> Timer] /\ tails' \in [Tails -> Calls] /\ events' \in 0..MaxEvents
    BY <1>2, <2>1, <2>2, EventFacts
  <2>4. overlap' \in BOOLEAN /\ gone' \in Reasons
    BY <2>1 DEF Reply, Unfinished, Reasons
  <2> QED  BY <1>7, <2>1, <2>3, <2>4 DEF AgentReply, Reply, TypeOK, Statuses, Live
<1>8. ASSUME BotReply PROVE TypeOK'
  <2>1. PICK timed \in Targets : Event({"followUp"}, ReplyCalls(timed)) /\ Reply(timed)
    BY <1>8 DEF BotReply
  <2>2. ReplyCalls(timed) \in Seq(Op)
    BY CallLists, TimersAssumption
  <2>3. timers' \in [TimerIds -> Timer] /\ tails' \in [Tails -> Calls] /\ events' \in 0..MaxEvents
    BY <1>2, <2>1, <2>2, EventFacts
  <2>4. overlap' \in BOOLEAN /\ gone' \in Reasons
    BY <2>1 DEF Reply, Unfinished, Reasons
  <2> QED  BY <1>8, <2>1, <2>3, <2>4 DEF BotReply, Reply, TypeOK, Statuses, Live
<1>9. ASSUME Release PROVE TypeOK'
  <2>1. PICK timed \in Targets : Event(QueueActivity, ScheduleAccept(None, timed))
    BY <1>9 DEF Release
  <2>2. ScheduleAccept(None, timed) \in Seq(Op)
    BY CallLists, TimersAssumption
  <2>3. timers' \in [TimerIds -> Timer] /\ tails' \in [Tails -> Calls] /\ events' \in 0..MaxEvents
    BY <1>2, <2>1, <2>2, EventFacts
  <2> QED  BY <1>9, <2>3 DEF Release, TypeOK, Statuses, Live
<1>10. ASSUME Handoff PROVE TypeOK'
  <2> DEFINE list(timed) == CancelAccept \o CancelFollowUp \o ScheduleAccept(None, timed)
  <2>1. PICK timed \in BOOLEAN : Event(QueueActivity, list(timed))
    BY <1>10, TimersAssumption DEF Handoff
  <2>2. list(timed) \in Seq(Op)
    BY EventLists
  <2> HIDE DEF list
  <2>3. timers' \in [TimerIds -> Timer] /\ tails' \in [Tails -> Calls] /\ events' \in 0..MaxEvents
    BY <1>2, <2>1, <2>2, EventFacts
  <2> QED  BY <1>10, <2>3 DEF Handoff, TypeOK, Statuses, Live
<1>11. ASSUME Accept PROVE TypeOK'
  <2>1. CancelAccept \in Seq(Op)
    BY CallLists
  <2>2. timers' \in [TimerIds -> Timer] /\ tails' \in [Tails -> Calls] /\ events' \in 0..MaxEvents
    BY <1>2, <1>11, <2>1, EventFacts DEF Accept
  <2> QED  BY <1>11, <2>2 DEF Accept, TypeOK, Statuses, Live
<1>24. ASSUME TaskMessage PROVE TypeOK'
  <2>1. timers' \in [TimerIds -> Timer] /\ tails' \in [Tails -> Calls] /\ events' \in 0..MaxEvents
    BY <1>2, <1>24, EventFacts, EmptySeq DEF TaskMessage
  <2>2. turn' \in {turn, "noted"}
    BY <1>24 DEF TaskMessage
  <2> QED  BY <1>24, <2>1, <2>2 DEF TaskMessage, TypeOK
<1>12. ASSUME Resolve PROVE TypeOK'
  <2>1. tails' \in [Tails -> Calls] /\ timers' \in [TimerIds -> Timer]
    BY <1>2, <1>4, <1>12, StaleTailsFacts DEF Resolve
  <2>2. events' \in 0..MaxEvents
    BY <1>12, TimersAssumption DEF Resolve, TypeOK
  <2> QED  BY <1>12, <2>1, <2>2 DEF Resolve, TypeOK, Statuses
<1>13. ASSUME NEW i \in TimerIds, Fire(i) PROVE TypeOK'
  BY <1>1, <1>2, <1>13, JobTypes DEF Fire, TypeOK
<1>14. ASSUME NEW i \in TimerIds, Skip(i) PROVE TypeOK'
  BY <1>1, <1>2, <1>14, JobTypes DEF Skip, TypeOK
<1>23. ASSUME NEW i \in TimerIds, Pass(i) PROVE TypeOK'
  <2>1. gone' \in Reasons
    BY <1>23 DEF Pass, Gone, Reasons, TypeOK
  <2>2. timers' \in [TimerIds -> Timer]
    BY <1>1, <1>23, JobTypes DEF Pass
  <2> QED  BY <1>23, <2>1, <2>2 DEF Pass, TypeOK
<1>15. ASSUME FollowUpCloses PROVE TypeOK'
  BY <1>2, <1>4, <1>15, StaleTailsFacts DEF FollowUpCloses, Closed, TypeOK, Statuses
<1>16. ASSUME FollowUpEvaluates PROVE TypeOK'
  BY <1>1, <1>2, <1>16, JobTypes DEF FollowUpEvaluates, TypeOK
<1>17. ASSUME FollowUpVerdict PROVE TypeOK'
  <2>1. Ended(Added(Removed(timers, {"followUp"}), "followUp", TRUE), "followUp") \in [TimerIds -> Timer]
    BY <1>2, <1>3
  <2>2. StaleTails(QueueActivity) \in [Tails -> Calls] /\ Closed(timers) \in [TimerIds -> Timer]
    BY <1>2, <1>4, StaleTailsFacts DEF Closed
  <2>3. timers' \in [TimerIds -> Timer] /\ tails' \in [Tails -> Calls] /\ status' \in Statuses
    BY <1>1, <1>17, <2>1, <2>2 DEF FollowUpVerdict, TypeOK, Statuses
  <2>4. gone' \in Reasons
    BY <1>17 DEF FollowUpVerdict, Gone, Reasons, TypeOK
  <2> QED  BY <1>17, <2>3, <2>4 DEF FollowUpVerdict, TypeOK
<1>18. ASSUME SubsequentActs PROVE TypeOK'
  <2>1. Ended(Added(Removed(timers, {"subsequent"}), "subsequent", TRUE), "subsequent") \in [TimerIds -> Timer]
    BY <1>2, <1>3
  <2>2. /\ StaleTails(QueueActivity) \in [Tails -> Calls]
        /\ Ended(Stale(timers, QueueActivity), "subsequent") \in [TimerIds -> Timer]
    BY <1>2, <1>4, StaleTailsFacts
  <2>3. timers' \in [TimerIds -> Timer] /\ tails' \in [Tails -> Calls] /\ status' \in Statuses
    BY <1>1, <1>18, <2>1, <2>2 DEF SubsequentActs, TypeOK, Statuses, Live
  <2> QED  BY <1>18, <2>3 DEF SubsequentActs, TypeOK
<1>19. ASSUME NEW i \in Slots, AcceptActs(i) PROVE TypeOK'
  <2> DEFINE stale == Stale(timers, QueueActivity)
             next  == NextSlot(i)
  <2>1. stale \in [TimerIds -> Timer] /\ i \in TimerIds /\ next \in TimerIds
        /\ Slots \ {i, next} \in SUBSET TimerIds
    BY <1>2, <1>4, <1>19, TimerNames
  <2>2. timers' \in {Ended(stale, i), Ended(Added(Removed(stale, Slots \ {i, next}), next, TRUE), i)}
    BY <1>19 DEF AcceptActs
  <2> HIDE DEF stale, next
  <2>3. Removed(stale, Slots \ {i, next}) \in [TimerIds -> Timer]
    BY <1>2, <2>1, JobTypes
  <2>4. Added(Removed(stale, Slots \ {i, next}), next, TRUE) \in [TimerIds -> Timer]
    BY <1>2, <2>1, <2>3, JobTypes
  <2>5. timers' \in [TimerIds -> Timer]
    <3>1. Ended(stale, i) \in [TimerIds -> Timer]
      BY <1>2, <2>1, JobTypes
    <3>2. Ended(Added(Removed(stale, Slots \ {i, next}), next, TRUE), i) \in [TimerIds -> Timer]
      BY <1>2, <2>1, <2>4, JobTypes
    <3> QED  BY <2>2, <3>1, <3>2
  <2>6. tails' \in [Tails -> Calls]
    BY <1>2, <1>19, StaleTailsFacts DEF AcceptActs
  <2> QED  BY <1>19, <2>5, <2>6 DEF AcceptActs, TypeOK
<1>20. ASSUME NEW i \in Slots, Evict(i) PROVE TypeOK'
  BY <1>1, <1>2, <1>20, JobTypes, TimerNames DEF Evict, TypeOK
<1>21. ASSUME Restart PROVE TypeOK'
  <2>1. tails' \in [Tails -> Calls] /\ overlap' \in BOOLEAN /\ gone' \in Reasons
    BY <1>21, RestartFacts
  <2>2. timers' \in [TimerIds -> Timer]
    BY <1>1, <1>21 DEF Restart, Timer
  <2>3. restarts' \in 0..MaxRestarts
    BY <1>21, TimersAssumption DEF Restart, TypeOK
  <2> QED  BY <1>21, <2>1, <2>2, <2>3 DEF Restart, TypeOK
<1>22. CASE UNCHANGED vars
  BY <1>22 DEF vars, TypeOK
<1> QED  BY <1>5, <1>6, <1>7, <1>8, <1>9, <1>10, <1>11, <1>12, <1>13, <1>14, <1>15, <1>16, <1>17,
            <1>18, <1>19, <1>20, <1>21, <1>22, <1>23, <1>24 DEF Next
-----------------------------------------------------------------------------
(* The close timer *)

\* The calls and activities that name other jobs leave the close timer alone.
LEMMA OtherJobs ==
  ASSUME NEW ts \in [TimerIds -> Timer], NEW ids \in SUBSET TimerIds, NEW id \in TimerIds,
         NEW quiet \in BOOLEAN
  PROVE  /\ "followUp" \notin ids => /\ Removed(ts, ids)["followUp"] = ts["followUp"]
                                     /\ Stale(ts, ids)["followUp"] = ts["followUp"]
         /\ "followUp" # id => /\ Added(ts, id, quiet)["followUp"] = ts["followUp"]
                               /\ Ended(ts, id)["followUp"] = ts["followUp"]
         /\ "followUp" \in ids => /\ Stale(ts, ids)["followUp"].quiet = FALSE
                                  /\ Removed(ts, ids)["followUp"].state \in {"none", "active", "evaluating"}
<1>1. "followUp" \in TimerIds /\ ts["followUp"] \in Timer
  BY TimerNames
<1> QED  BY <1>1 DEF Removed, Stale, Added, Ended, NoTimer, Timer

\* The close timer's job ends.
LEMMA CloseTimerEnds ==
  ASSUME NEW ts \in [TimerIds -> Timer]
  PROVE  /\ Ended(ts, "followUp")["followUp"].state = "completed"
         /\ Ended(ts, "followUp")["followUp"].quiet = ts["followUp"].quiet
<1>1. "followUp" \in TimerIds /\ ts["followUp"] \in Timer
  BY TimerNames
<1> QED  BY <1>1 DEF Ended, Timer

\* No step that leaves the calls to make, and the close timer but for its progress,
\* disturbs the invariant.
LEMMA StepKeeps ==
  ASSUME IInv, Waiting' => Waiting, turn' = turn, overlap' = overlap, gone' = "no" => gone = "no",
         \A p \in Tails : /\ tails'[p].ops = tails[p].ops
                          /\ Setting(tails[p].ops) => tails'[p].quiet = tails[p].quiet,
         timers'["followUp"].quiet = timers["followUp"].quiet,
         timers'["followUp"].state = "none" <=> timers["followUp"].state = "none",
         WillAct /\ Waiting' /\ gone' = "no" => WillAct'
  PROVE  CloseInv' /\ ServiceInv'
<1>1. ServiceInv'
  BY DEF IInv, ServiceInv, NotSetting, CloseTimer
<1>2. ASSUME Waiting', ~overlap', gone' = "no" PROVE Standing' \/ \E p \in Tails : Underway(p)'
  <2>1. Standing \/ \E p \in Tails : Underway(p)
    BY <1>2 DEF IInv, CloseInv
  <2>2. CASE Standing
    <3>1. \A p \in Tails : Untouching(tails'[p].ops)
      BY <2>2 DEF Standing
    <3>2. WillAct'
      BY <1>2, <2>2 DEF Standing
    <3> QED  BY <3>1, <3>2 DEF Standing
  <2>3. ASSUME NEW p \in Tails, Underway(p) PROVE Underway(p)'
    <3>1. \A q \in Tails \ {p} : Untouching(tails'[q].ops)
      BY <2>3 DEF Underway, OthersLeaveIt
    <3>2. \/ Replacing(tails'[p].ops)
          \/ Setting(tails'[p].ops) /\ timers'["followUp"].state = "none" /\ tails'[p].quiet
      BY <2>3 DEF Underway, CloseTimer
    <3> QED  BY <3>1, <3>2 DEF Underway, OthersLeaveIt, CloseTimer
  <2> QED  BY <2>1, <2>2, <2>3
<1> QED  BY <1>1, <1>2 DEF CloseInv

\* The steps of the timeout worker, and closing by the agent.
LEMMA WorkerKeeps ==
  ASSUME IInv, \/ \E i \in TimerIds : Fire(i) \/ Skip(i) \/ Pass(i)
               \/ \E i \in Slots : AcceptActs(i) \/ Evict(i)
               \/ FollowUpCloses \/ FollowUpEvaluates \/ FollowUpVerdict \/ SubsequentActs \/ Resolve
  PROVE  CloseInv' /\ ServiceInv'
<1> DEFINE stale == Stale(timers, QueueActivity)
<1>1. /\ timers \in [TimerIds -> Timer] /\ "followUp" \in TimerIds /\ "subsequent" \in TimerIds
      /\ \A i \in TimerIds : timers[i] \in Timer
      /\ Slots \in SUBSET TimerIds /\ "followUp" \notin Slots /\ QueueActivity \in SUBSET TimerIds
      /\ "followUp" \notin QueueActivity /\ TRUE \in BOOLEAN
      /\ {"followUp"} \in SUBSET TimerIds /\ {"subsequent"} \in SUBSET TimerIds
  BY TimerNames DEF IInv, TypeOK
<1>2. stale \in [TimerIds -> Timer] /\ stale["followUp"] = timers["followUp"]
  BY <1>1, JobTypes, OtherJobs
<1>3. \A p \in Tails : /\ StaleTails(QueueActivity)[p].ops = tails[p].ops
                       /\ Setting(tails[p].ops) => StaleTails(QueueActivity)[p].quiet = tails[p].quiet
  BY <1>1, StaleTailsFacts DEF IInv
<1> HIDE DEF stale
<1>4. ASSUME NEW i \in TimerIds, Fire(i) PROVE CloseInv' /\ ServiceInv'
  <2>1. /\ timers'["followUp"].quiet = timers["followUp"].quiet
        /\ timers'["followUp"].state = "none" <=> timers["followUp"].state = "none"
        /\ WillAct => WillAct'
    BY <1>1, <1>4 DEF Fire, Timer, WillAct
  <2> QED  BY <1>4, <2>1, StepKeeps DEF Fire, Waiting
<1>5. ASSUME NEW i \in TimerIds, Skip(i) PROVE CloseInv' /\ ServiceInv'
  <2>1. /\ timers'["followUp"].quiet = timers["followUp"].quiet
        /\ timers'["followUp"].state = "none" <=> timers["followUp"].state = "none"
        /\ i # "followUp" => timers'["followUp"] = timers["followUp"]
    BY <1>1, <1>5 DEF Skip, Running, Ended, Timer
  <2>2. ASSUME WillAct, Waiting' PROVE WillAct'
    <3>1. i # "followUp"
      BY <1>5, <2>2 DEF Skip, Stands, FollowUpStands, WillAct, Waiting
    <3> QED  BY <2>1, <2>2, <3>1 DEF WillAct
  <2> QED  BY <1>5, <2>1, <2>2, StepKeeps DEF Skip, Waiting
<1>14. ASSUME NEW i \in TimerIds, Pass(i) PROVE CloseInv' /\ ServiceInv'
  <2>1. /\ timers'["followUp"].quiet = timers["followUp"].quiet
        /\ timers'["followUp"].state = "none" <=> timers["followUp"].state = "none"
        /\ i # "followUp" => timers'["followUp"] = timers["followUp"]
    BY <1>1, <1>14 DEF Pass, Running, Ended, Timer
  <2>2. gone' = "no" => gone = "no" /\ i # "followUp"
    BY <1>14 DEF Pass, Gone
  <2>3. WillAct /\ gone' = "no" => WillAct'
    BY <2>1, <2>2 DEF WillAct
  <2> QED  BY <1>14, <2>1, <2>2, <2>3, StepKeeps DEF Pass, Waiting
<1>6. ASSUME NEW i \in Slots, AcceptActs(i) PROVE CloseInv' /\ ServiceInv'
  <2> DEFINE next == NextSlot(i)
  <2>1. /\ i \in TimerIds /\ next \in TimerIds /\ i # "followUp" /\ next # "followUp"
        /\ Slots \ {i, next} \in SUBSET TimerIds /\ "followUp" \notin Slots \ {i, next}
    BY <1>1, TimerNames
  <2>2. timers' \in {Ended(stale, i), Ended(Added(Removed(stale, Slots \ {i, next}), next, TRUE), i)}
    BY <1>6 DEF AcceptActs, stale
  <2> HIDE DEF next
  <2>3. /\ Removed(stale, Slots \ {i, next}) \in [TimerIds -> Timer]
        /\ Removed(stale, Slots \ {i, next})["followUp"] = timers["followUp"]
    BY <1>1, <1>2, <2>1, JobTypes, OtherJobs
  <2>4. /\ Added(Removed(stale, Slots \ {i, next}), next, TRUE) \in [TimerIds -> Timer]
        /\ Added(Removed(stale, Slots \ {i, next}), next, TRUE)["followUp"] = timers["followUp"]
    <3>1. Added(Removed(stale, Slots \ {i, next}), next, TRUE) \in [TimerIds -> Timer]
      BY <1>1, <2>1, <2>3, JobTypes
    <3>2. Added(Removed(stale, Slots \ {i, next}), next, TRUE)["followUp"]
            = Removed(stale, Slots \ {i, next})["followUp"]
      BY <1>1, <2>1, <2>3, OtherJobs
    <3> QED  BY <2>3, <3>1, <3>2
  <2>5. Ended(stale, i)["followUp"] = timers["followUp"]
    BY <1>1, <1>2, <2>1, OtherJobs
  <2>6. Ended(Added(Removed(stale, Slots \ {i, next}), next, TRUE), i)["followUp"] = timers["followUp"]
    BY <1>1, <2>1, <2>4, OtherJobs
  <2>7. timers'["followUp"] = timers["followUp"]
    BY <2>2, <2>5, <2>6
  <2> QED  BY <1>3, <1>6, <2>7, StepKeeps DEF AcceptActs, Waiting, WillAct
<1>7. ASSUME NEW i \in Slots, Evict(i) PROVE CloseInv' /\ ServiceInv'
  <2>1. timers'["followUp"] = timers["followUp"]
    BY <1>1, <1>7 DEF Evict
  <2> QED  BY <1>7, <2>1, StepKeeps DEF Evict, Waiting, WillAct
<1>8. /\ Closed(timers)["followUp"].quiet = timers["followUp"].quiet
      /\ Closed(timers)["followUp"].state = "completed"
  <2>1. Closed(timers) = Ended(stale, "followUp")
    BY DEF Closed, stale
  <2> QED  BY <1>2, <2>1, CloseTimerEnds
<1>9. ASSUME FollowUpCloses PROVE CloseInv' /\ ServiceInv'
  <2>1. timers["followUp"].state # "none" /\ Waiting' = FALSE
    BY <1>9 DEF FollowUpCloses, Running, Waiting, Live
  <2> QED  BY <1>3, <1>8, <1>9, <2>1, StepKeeps DEF FollowUpCloses
<1>10. ASSUME FollowUpEvaluates PROVE CloseInv' /\ ServiceInv'
  <2>1. /\ timers'["followUp"].quiet = timers["followUp"].quiet
        /\ timers'["followUp"].state # "none" /\ timers["followUp"].state # "none"
        /\ WillAct => WillAct'
    BY <1>1, <1>10 DEF FollowUpEvaluates, Running, Timer, WillAct
  <2> QED  BY <1>10, <2>1, StepKeeps DEF FollowUpEvaluates, Waiting
<1>11. ASSUME FollowUpVerdict PROVE CloseInv' /\ ServiceInv'
  <2>1. timers["followUp"].state = "evaluating"
    BY <1>11 DEF FollowUpVerdict
  <2>2. CASE /\ status' = "resolved" /\ timers' = Closed(timers) /\ tails' = StaleTails(QueueActivity)
             /\ gone' = gone
    <3>1. ~Waiting'
      BY <2>2 DEF Waiting, Live
    <3> QED  BY <1>3, <1>8, <1>11, <2>1, <2>2, <3>1, StepKeeps DEF FollowUpVerdict
  <2>3. CASE /\ timers' = Ended(Added(Removed(timers, {"followUp"}), "followUp", TRUE), "followUp")
             /\ gone' = IF timers["followUp"].quiet THEN Gone("verdict") ELSE gone
             /\ UNCHANGED <<status, tails>>
    <3>1. Removed(timers, {"followUp"})["followUp"] = timers["followUp"]
      BY <1>1, <2>1 DEF Removed
    <3>2. Added(Removed(timers, {"followUp"}), "followUp", TRUE) = Removed(timers, {"followUp"})
      BY <2>1, <3>1 DEF Added
    <3>3. Removed(timers, {"followUp"}) \in [TimerIds -> Timer]
      BY <1>1, JobTypes
    <3>4. timers'["followUp"].state = "completed" /\ timers'["followUp"].quiet = timers["followUp"].quiet
      <4>1. timers' = Ended(Removed(timers, {"followUp"}), "followUp")
        BY <2>3, <3>2
      <4> QED  BY <3>1, <3>3, <4>1, CloseTimerEnds
    <3>5. (gone' = "no" => gone = "no") /\ (WillAct => gone' # "no")
      BY <2>3 DEF Gone, WillAct
    <3> QED  BY <1>11, <2>1, <2>3, <3>4, <3>5, StepKeeps DEF FollowUpVerdict, Waiting
  <2> QED  BY <1>11, <2>2, <2>3 DEF FollowUpVerdict
<1>12. ASSUME SubsequentActs PROVE CloseInv' /\ ServiceInv'
  <2>1. CASE /\ timers' = Ended(Added(Removed(timers, {"subsequent"}), "subsequent", TRUE), "subsequent")
             /\ UNCHANGED <<status, tails>>
    <3>1. /\ Removed(timers, {"subsequent"}) \in [TimerIds -> Timer]
          /\ Removed(timers, {"subsequent"})["followUp"] = timers["followUp"]
      BY <1>1, JobTypes, OtherJobs
    <3>2. /\ Added(Removed(timers, {"subsequent"}), "subsequent", TRUE) \in [TimerIds -> Timer]
          /\ Added(Removed(timers, {"subsequent"}), "subsequent", TRUE)["followUp"] = timers["followUp"]
      <4>1. Added(Removed(timers, {"subsequent"}), "subsequent", TRUE) \in [TimerIds -> Timer]
        BY <1>1, <3>1, JobTypes
      <4>2. Added(Removed(timers, {"subsequent"}), "subsequent", TRUE)["followUp"]
              = Removed(timers, {"subsequent"})["followUp"]
        BY <1>1, <3>1, OtherJobs
      <4> QED  BY <3>1, <4>1, <4>2
    <3>3. timers'["followUp"] = timers["followUp"]
      BY <1>1, <2>1, <3>2, OtherJobs
    <3> QED  BY <1>12, <2>1, <3>3, StepKeeps DEF SubsequentActs, Waiting, WillAct
  <2>2. CASE /\ status' = "queued"
             /\ timers' = Ended(Stale(timers, QueueActivity), "subsequent")
             /\ tails' = StaleTails(QueueActivity)
    <3>1. timers'["followUp"] = timers["followUp"]
      BY <1>1, <1>2, <2>2, OtherJobs DEF stale
    <3>2. Waiting' => Waiting
      BY <1>12 DEF SubsequentActs, SubsequentStands, Waiting, Live
    <3> QED  BY <1>3, <1>12, <2>2, <3>1, <3>2, StepKeeps DEF SubsequentActs, WillAct
  <2> QED  BY <1>12, <2>1, <2>2 DEF SubsequentActs
<1>13. ASSUME Resolve PROVE CloseInv' /\ ServiceInv'
  <2>1. timers'["followUp"] = timers["followUp"] /\ ~Waiting'
    BY <1>2, <1>13 DEF Resolve, stale, Waiting, Live
  <2> QED  BY <1>3, <1>13, <2>1, StepKeeps DEF Resolve
<1> QED  BY <1>4, <1>5, <1>6, <1>7, <1>9, <1>10, <1>11, <1>12, <1>13, <1>14
-----------------------------------------------------------------------------
(* Events *)

\* An event leaves its calls in a tail that was idle, and the other tails theirs.
LEMMA EventTails ==
  ASSUME IInv, NEW ids \in SUBSET TimerIds, NEW ops \in Seq(Op), Event(ids, ops)
  PROVE  /\ \E p \in Tails : /\ tails[p].ops = <<>> /\ tails'[p].ops = ops
                             /\ \A q \in Tails \ {p} : tails'[q].ops = tails[q].ops
                             /\ "followUp" \notin ids =>
                                  \A q \in Tails \ {p} : Setting(tails[q].ops) => tails'[q].quiet = tails[q].quiet
         /\ "followUp" \notin ids => timers'["followUp"] = timers["followUp"]
<1>1. /\ timers' = Stale(timers, ids)
      /\ \E p \in IdleTails : tails' = [StaleTails(ids) EXCEPT ![p] = [ops |-> ops, quiet |-> FALSE]]
  BY EventFacts DEF IInv
<1>2. PICK p \in IdleTails : tails' = [StaleTails(ids) EXCEPT ![p] = [ops |-> ops, quiet |-> FALSE]]
  BY <1>1
<1>3. /\ StaleTails(ids) \in [Tails -> Calls]
      /\ \A q \in Tails : StaleTails(ids)[q].ops = tails[q].ops
      /\ "followUp" \notin ids => \A q \in Tails : Setting(tails[q].ops) => StaleTails(ids)[q] = tails[q]
  BY StaleTailsFacts DEF IInv
<1>4. p \in Tails /\ tails[p].ops = <<>> /\ tails'[p].ops = ops
  BY <1>2, <1>3 DEF IdleTails
<1>5. \A q \in Tails \ {p} : tails'[q] = StaleTails(ids)[q]
  BY <1>2, <1>3
<1>6. "followUp" \notin ids => timers'["followUp"] = timers["followUp"]
  <2>1. timers \in [TimerIds -> Timer] /\ "followUp" \in TimerIds /\ TRUE \in BOOLEAN
    BY TimerNames DEF IInv, TypeOK
  <2> QED  BY <1>1, <2>1, OtherJobs
<1> QED  BY <1>3, <1>4, <1>5, <1>6

\* An event whose calls do not touch the close timer leaves it as it is.
LEMMA QuietEvent ==
  ASSUME IInv, NEW ops \in Seq(Op), Event(QueueActivity, ops), Untouching(ops), NotSetting(ops),
         Waiting' => Waiting, turn' = turn, overlap' = overlap, gone' = gone
  PROVE  CloseInv' /\ ServiceInv'
<1>1. QueueActivity \in SUBSET TimerIds /\ "followUp" \notin QueueActivity
  BY TimerNames
<1>2. PICK p \in Tails :
        /\ tails[p].ops = <<>> /\ tails'[p].ops = ops
        /\ \A q \in Tails \ {p} : tails'[q].ops = tails[q].ops
        /\ \A q \in Tails \ {p} : Setting(tails[q].ops) => tails'[q].quiet = tails[q].quiet
  BY <1>1, EventTails
<1>3. timers'["followUp"] = timers["followUp"]
  BY <1>1, EventTails
<1>4. \A q \in Tails : /\ Untouching(tails[q].ops) => Untouching(tails'[q].ops)
                       /\ NotSetting(tails[q].ops) => NotSetting(tails'[q].ops)
  BY <1>2
<1>5. ServiceInv'
  BY <1>3, <1>4 DEF IInv, ServiceInv, CloseTimer
<1>6. ASSUME Waiting', ~overlap', gone' = "no" PROVE Standing' \/ \E q \in Tails : Underway(q)'
  <2>1. Standing \/ \E q \in Tails : Underway(q)
    BY <1>6 DEF IInv, CloseInv
  <2>2. CASE Standing
    BY <1>3, <1>4, <2>2 DEF Standing, WillAct
  <2>3. ASSUME NEW r \in Tails, Underway(r) PROVE Underway(r)'
    <3>1. r # p
      BY <1>2, <2>3, EmptySeq DEF Underway, Replacing, Setting
    <3>2. tails'[r].ops = tails[r].ops /\ (Setting(tails[r].ops) => tails'[r].quiet = tails[r].quiet)
      BY <1>2, <3>1
    <3>3. \A q \in Tails \ {r} : Untouching(tails'[q].ops)
      BY <1>4, <2>3 DEF Underway, OthersLeaveIt
    <3>4. \/ Replacing(tails'[r].ops)
          \/ Setting(tails'[r].ops) /\ timers'["followUp"].state = "none" /\ tails'[r].quiet
      BY <1>3, <2>3, <3>2 DEF Underway, CloseTimer
    <3> QED  BY <3>3, <3>4 DEF Underway, OthersLeaveIt, CloseTimer
  <2> QED  BY <2>1, <2>2, <2>3
<1> QED  BY <1>5, <1>6 DEF CloseInv

\* A reply leaves calls that replace the close timer, unless it has no time.
LEMMA ReplyEvent ==
  ASSUME IInv, NEW ids \in SUBSET TimerIds, NEW ops \in Seq(Op), NEW timed \in BOOLEAN,
         Event(ids, ops), Reply(timed), timed => Replacing(ops)
  PROVE  CloseInv' /\ ServiceInv'
<1>1. PICK p \in Tails : tails'[p].ops = ops /\ \A q \in Tails \ {p} : tails'[q].ops = tails[q].ops
  BY EventTails
<1>2. ASSUME ~overlap', gone' = "no" PROVE Underway(p)'
  <2>1. timed /\ \A q \in Tails : Untouching(tails[q].ops)
    BY <1>2 DEF Reply, Unfinished
  <2>2. (\A q \in Tails \ {p} : Untouching(tails'[q].ops)) /\ Replacing(tails'[p].ops)
    BY <1>1, <2>1
  <2> QED  BY <2>2 DEF Underway, OthersLeaveIt
<1>3. turn' = "customer"
  BY DEF Reply
<1> QED  BY <1>2, <1>3 DEF CloseInv, ServiceInv

\* The events.
LEMMA EventKeeps ==
  ASSUME IInv, Inbound \/ AgentReply \/ BotReply \/ TaskMessage \/ Release \/ Handoff \/ Accept
  PROVE  CloseInv' /\ ServiceInv'
<1>1. /\ QueueActivity \in SUBSET TimerIds /\ MessageActivity \in SUBSET TimerIds
      /\ AgentActivity \in SUBSET TimerIds /\ {"followUp"} \in SUBSET TimerIds
      /\ "followUp" \notin QueueActivity /\ InboundActivity = MessageActivity /\ "followUp" \in MessageActivity
      /\ timers \in [TimerIds -> Timer] /\ "followUp" \in TimerIds /\ TRUE \in BOOLEAN
      /\ Targets \subseteq BOOLEAN
  BY TimerNames, TimersAssumption DEF IInv, TypeOK
<1>2. ASSUME Inbound PROVE CloseInv' /\ ServiceInv'
  <2>1. ASSUME ~overlap', NEW q \in Tails PROVE NotSetting(tails'[q].ops)
    <3>1. Untouching(tails[q].ops)
      BY <1>2, <2>1 DEF Inbound, Unfinished
    <3>2. NotSetting(tails[q].ops)
      BY <3>1 DEF Untouching, Touches, NotSetting
    <3> QED  BY <1>2, <3>2, InboundFacts DEF IInv
  <2>2. ~timers'["followUp"].quiet
    <3>1. timers' = Stale(timers, MessageActivity)
      BY <1>1, <1>2 DEF Inbound
    <3> QED  BY <1>1, <3>1, OtherJobs
  <2>3. turn' = "service"
    BY <1>2 DEF Inbound
  <2> QED  BY <2>1, <2>2, <2>3 DEF CloseInv, ServiceInv, Waiting, CloseTimer
<1>3. ASSUME AgentReply PROVE CloseInv' /\ ServiceInv'
  <2>1. PICK timed \in Targets :
          Event(AgentActivity, CancelAccept \o CancelSubsequent \o ReplyCalls(timed)) /\ Reply(timed)
    BY <1>3 DEF AgentReply
  <2>2. /\ timed \in BOOLEAN
        /\ CancelAccept \o CancelSubsequent \o ReplyCalls(timed) \in Seq(Op)
        /\ timed => Replacing(CancelAccept \o CancelSubsequent \o ReplyCalls(timed))
    BY <1>1, EventLists
  <2> QED  BY <1>1, <2>1, <2>2, ReplyEvent
<1>4. ASSUME BotReply PROVE CloseInv' /\ ServiceInv'
  <2>1. PICK timed \in Targets : Event({"followUp"}, ReplyCalls(timed)) /\ Reply(timed)
    BY <1>4 DEF BotReply
  <2>2. timed \in BOOLEAN /\ ReplyCalls(timed) \in Seq(Op) /\ (timed => Replacing(ReplyCalls(timed)))
    BY <1>1, CallLists
  <2> QED  BY <1>1, <2>1, <2>2, ReplyEvent
<1>5. ASSUME Release PROVE CloseInv' /\ ServiceInv'
  <2>1. PICK timed \in Targets : Event(QueueActivity, ScheduleAccept(None, timed))
    BY <1>5 DEF Release
  <2>2. /\ ScheduleAccept(None, timed) \in Seq(Op)
        /\ Untouching(ScheduleAccept(None, timed)) /\ NotSetting(ScheduleAccept(None, timed))
    BY <1>1, CallLists
  <2>3. Waiting' => Waiting
    BY <1>5 DEF Release, Waiting, Live
  <2> QED  BY <1>5, <2>1, <2>2, <2>3, QuietEvent DEF Release
<1>6. ASSUME Handoff PROVE CloseInv' /\ ServiceInv'
  <2> DEFINE list(timed) == CancelAccept \o CancelFollowUp \o ScheduleAccept(None, timed)
  <2>1. PICK timed \in BOOLEAN : Event(QueueActivity, list(timed))
    BY <1>1, <1>6 DEF Handoff
  <2>2. list(timed) \in Seq(Op) /\ NotSetting(list(timed))
    BY EventLists
  <2> HIDE DEF list
  <2>3. PICK p \in Tails : /\ tails'[p].ops = list(timed)
                          /\ \A q \in Tails \ {p} : tails'[q].ops = tails[q].ops
    BY <1>1, <2>1, <2>2, EventTails
  <2>4. \A q \in Tails : NotSetting(tails[q].ops) => NotSetting(tails'[q].ops)
    BY <2>2, <2>3
  <2>5. timers'["followUp"] = timers["followUp"]
    BY <1>1, <2>1, <2>2, EventTails
  <2>6. turn' # "customer" /\ (turn' = "service" => turn = "service") /\ overlap' = overlap
    BY <1>6 DEF Handoff
  <2> QED  BY <2>4, <2>5, <2>6 DEF CloseInv, ServiceInv, Waiting, CloseTimer, IInv
<1>7. ASSUME Accept PROVE CloseInv' /\ ServiceInv'
  <2>1. Waiting' => Waiting
    BY <1>7 DEF Accept, Waiting, Live
  <2>2. CancelAccept \in Seq(Op) /\ Untouching(CancelAccept) /\ NotSetting(CancelAccept)
    BY CallLists
  <2> QED  BY <1>7, <2>1, <2>2, QuietEvent DEF Accept
<1>8. ASSUME TaskMessage PROVE CloseInv' /\ ServiceInv'
  <2> DEFINE none == <<>>
  <2>1. none \in Seq(Op) /\ NotSetting(none) /\ Event({"followUp"}, none)
    BY <1>8, EmptySeq DEF NotSetting, TaskMessage
  <2> HIDE DEF none
  <2>2. PICK p \in Tails : /\ tails'[p].ops = none
                          /\ \A q \in Tails \ {p} : tails'[q].ops = tails[q].ops
    BY <1>1, <2>1, EventTails
  <2>3. \A q \in Tails : NotSetting(tails[q].ops) => NotSetting(tails'[q].ops)
    BY <2>1, <2>2
  <2>4. ~timers'["followUp"].quiet
    <3>1. timers' = Stale(timers, {"followUp"})
      BY <1>8 DEF TaskMessage, Event
    <3> QED  BY <1>1, <3>1, OtherJobs
  <2>5. turn' # "customer" /\ (turn' = "service" => turn = "service") /\ overlap' = overlap
    BY <1>8 DEF TaskMessage
  <2> QED  BY <2>3, <2>4, <2>5 DEF CloseInv, ServiceInv, Waiting, CloseTimer, IInv
<1> QED  BY <1>2, <1>3, <1>4, <1>5, <1>6, <1>7, <1>8
-----------------------------------------------------------------------------
(* Calls and restarts *)

\* A handler makes its next call.
LEMMA AdvanceKeeps ==
  ASSUME IInv, NEW p \in Tails, Advance(p)
  PROVE  CloseInv' /\ ServiceInv'
<1> DEFINE op == Head(tails[p].ops)
           rest == Tail(tails[p].ops)
<1>1. /\ timers \in [TimerIds -> Timer] /\ "followUp" \in TimerIds /\ CloseTimer \in Timer
      /\ tails \in [Tails -> Calls] /\ tails[p].ops \in Seq(Op) /\ tails[p].ops # <<>>
      /\ tails[p].quiet \in BOOLEAN
  BY TimerNames DEF IInv, TypeOK, Calls, CloseTimer, Advance
<1>2. /\ op \in Op /\ rest \in Seq(Op)
      /\ Untouching(tails[p].ops) => ~Touches(op) /\ Untouching(rest)
      /\ NotSetting(tails[p].ops) => op.add # "followUp" /\ NotSetting(rest)
      /\ Replacing(tails[p].ops) => /\ op.add # "followUp"
                                    /\ \/ Replacing(rest)
                                       \/ Setting(rest) /\ op.add = None /\ "followUp" \in op.remove
      /\ Setting(tails[p].ops) => op.add = "followUp" /\ rest = <<>>
  BY <1>1, FirstCall
<1> DEFINE left == [ops |-> rest, quiet |-> rest # <<>> /\ Head(rest).add # None]
<1>3. /\ timers' = IF op.add = None THEN Removed(timers, op.remove) ELSE Added(timers, op.add, tails[p].quiet)
      /\ tails' = [tails EXCEPT ![p] = left]
      /\ gone' = IF Touches(op) /\ Busy("followUp") THEN Gone("lost") ELSE gone
      /\ UNCHANGED <<status, turn, overlap>>
  BY DEF Advance
<1>4. left.ops = rest /\ (Setting(rest) => left.quiet)
  <2> HIDE DEF rest
  <2>1. Setting(rest) => rest # <<>>
    BY EmptySeq DEF Setting
  <2>2. Setting(rest) => Head(rest).add = "followUp"
    BY <1>2, <2>1, FirstCall
  <2> QED  BY <2>1, <2>2, TimersAssumption
<1> HIDE DEF op, rest, left
<1>11. /\ tails'[p].ops = rest /\ (Setting(rest) => tails'[p].quiet)
       /\ \A q \in Tails \ {p} : tails'[q] = tails[q]
  BY <1>1, <1>3, <1>4
<1>5. op.remove \in SUBSET TimerIds /\ (op.add # None => op.add \in TimerIds)
  BY <1>2 DEF Op
<1>6. ASSUME ~Touches(op) PROVE timers'["followUp"] = timers["followUp"]
  <2>1. "followUp" \notin op.remove /\ op.add # "followUp"
    BY <1>6 DEF Touches
  <2> QED  BY <1>1, <1>3, <1>5, <2>1 DEF Removed, Added
<1>7. ASSUME op.add # "followUp" PROVE timers'["followUp"].quiet => timers["followUp"].quiet
  BY <1>1, <1>3, <1>5, <1>7 DEF Removed, Added, NoTimer, Timer
<1>8. ServiceInv'
  <2>1. ASSUME turn = "service", ~overlap
        PROVE  ~timers'["followUp"].quiet /\ \A q \in Tails : NotSetting(tails'[q].ops)
    <3>1. (\A q \in Tails : NotSetting(tails[q].ops)) /\ ~timers["followUp"].quiet
      BY <2>1 DEF IInv, ServiceInv, CloseTimer
    <3> QED  BY <1>2, <1>7, <1>11, <3>1
  <2> QED  BY <1>3, <2>1 DEF ServiceInv, CloseTimer
<1>10. ASSUME Waiting', ~overlap', gone' = "no" PROVE Standing' \/ \E q \in Tails : Underway(q)'
  <2>1. /\ gone = "no" /\ ~(Touches(op) /\ Busy("followUp"))
        /\ Standing \/ \E q \in Tails : Underway(q)
    BY <1>3, <1>10 DEF IInv, CloseInv, Waiting, Gone
  <2>2. CASE Standing
    <3>1. \A q \in Tails : Untouching(tails'[q].ops)
      BY <1>2, <1>11, <2>2 DEF Standing
    <3>2. timers'["followUp"] = timers["followUp"]
      BY <1>2, <1>6, <2>2 DEF Standing
    <3> QED  BY <2>2, <3>1, <3>2 DEF Standing, WillAct
  <2>3. ASSUME NEW r \in Tails \ {p}, Underway(r) PROVE Underway(r)'
    <3>1. Untouching(tails[p].ops)
      BY <2>3 DEF Underway, OthersLeaveIt
    <3>2. timers'["followUp"] = timers["followUp"] /\ Untouching(rest)
      BY <1>2, <1>6, <3>1
    <3>3. \A q \in Tails \ {r} : Untouching(tails'[q].ops)
      BY <1>11, <2>3, <3>2 DEF Underway, OthersLeaveIt
    <3>4. \/ Replacing(tails'[r].ops)
          \/ Setting(tails'[r].ops) /\ timers'["followUp"].state = "none" /\ tails'[r].quiet
      BY <1>11, <2>3, <3>2 DEF Underway, CloseTimer
    <3> QED  BY <3>3, <3>4 DEF Underway, OthersLeaveIt, CloseTimer
  <2>4. ASSUME Underway(p) PROVE Standing' \/ Underway(p)'
    <3>1. \A q \in Tails \ {p} : Untouching(tails'[q].ops)
      BY <1>11, <2>4 DEF Underway, OthersLeaveIt
    <3>2. CASE Replacing(tails[p].ops) /\ Replacing(rest)
      <4>1. Replacing(tails'[p].ops)
        BY <1>11, <3>2
      <4> QED  BY <3>1, <4>1 DEF Underway, OthersLeaveIt
    <3>3. CASE Setting(rest) /\ op.add = None /\ "followUp" \in op.remove
      <4>1. timers["followUp"].state \in {"none", "delayed", "completed"}
        BY <1>1, <2>1, <3>3 DEF Touches, Busy, Timer, CloseTimer
      <4>2. timers'["followUp"].state = "none"
        BY <1>1, <1>3, <3>3, <4>1 DEF Removed, NoTimer
      <4>3. Setting(tails'[p].ops) /\ tails'[p].quiet
        BY <1>11, <3>3
      <4> QED  BY <3>1, <4>2, <4>3 DEF Underway, OthersLeaveIt, CloseTimer
    <3>4. CASE Setting(tails[p].ops) /\ timers["followUp"].state = "none" /\ tails[p].quiet
      <4>1. op.add = "followUp" /\ op.add # None /\ rest = <<>>
        BY <1>2, <3>4, TimersAssumption
      <4>2. timers'["followUp"].state = "delayed" /\ timers'["followUp"].quiet
        BY <1>1, <1>3, <3>4, <4>1 DEF Added
      <4>3. Untouching(tails'[p].ops)
        BY <1>11, <4>1, CallLists
      <4>4. \A q \in Tails : Untouching(tails'[q].ops)
        BY <3>1, <4>3
      <4> QED  BY <4>2, <4>4 DEF Standing, WillAct
    <3> QED  BY <1>2, <2>4, <3>2, <3>3, <3>4 DEF Underway, CloseTimer
  <2> QED  BY <2>1, <2>2, <2>3, <2>4
<1> QED  BY <1>8, <1>10 DEF CloseInv

\* A restart loses the calls that were to be made and may set the close timer anew.
LEMMA RestartKeeps ==
  ASSUME IInv, Restart
  PROVE  CloseInv' /\ ServiceInv'
<1>1. /\ timers'["followUp"].quiet = timers["followUp"].quiet
      /\ WillAct => WillAct'
  <2>1. timers \in [TimerIds -> Timer] /\ "followUp" \in TimerIds /\ timers["followUp"] \in Timer
    BY TimerNames DEF IInv, TypeOK
  <2> QED  BY <2>1 DEF Restart, Timer, WillAct
<1>2. turn' = turn /\ status' = status
  BY DEF Restart
<1>3. ASSUME turn = "customer", NEW p \in Tails, Replacing(tails'[p].ops),
             \A q \in Tails \ {p} : Untouching(tails'[q].ops)
      PROVE  CloseInv' /\ ServiceInv'
  <2>1. Underway(p)'
    BY <1>3 DEF Underway, OthersLeaveIt
  <2> QED  BY <1>2, <1>3, <2>1 DEF CloseInv, ServiceInv
<1>4. ASSUME \A q \in Tails : Untouching(tails'[q].ops) /\ NotSetting(tails'[q].ops),
             overlap' = overlap, gone' = "no" => gone = "no" /\ Quiet
      PROVE  CloseInv' /\ ServiceInv'
  <2>1. ServiceInv'
    BY <1>1, <1>2, <1>4 DEF IInv, ServiceInv, CloseTimer
  <2>2. ASSUME Waiting', ~overlap', gone' = "no" PROVE Standing'
    <3>1. gone = "no" /\ \A q \in Tails : tails[q].ops = <<>>
      BY <1>4, <2>2 DEF Quiet, IdleTails
    <3>2. \A q \in Tails : ~Underway(q)
      BY <3>1, EmptySeq DEF Underway, Replacing, Setting
    <3>3. Standing
      BY <1>2, <1>4, <2>2, <3>1, <3>2 DEF IInv, CloseInv, Waiting
    <3> QED  BY <1>1, <1>4, <3>3 DEF Standing
  <2> QED  BY <2>1, <2>2 DEF CloseInv
<1> QED  BY <1>3, <1>4, RestartFacts DEF IInv
-----------------------------------------------------------------------------
(* Theorems *)

\* The initial state satisfies the invariant.
LEMMA InitInv == Init => IInv
<1> SUFFICES ASSUME Init PROVE IInv
  OBVIOUS
<1>1. \A p \in Tails : tails[p].ops = <<>>
  BY DEF Init, NoCalls
<1>2. NoTimer \in Timer /\ NoCalls \in Calls
  BY CallLists DEF NoTimer, Timer, NoCalls, Calls
<1>3. TypeOK
  <2>1. timers \in [TimerIds -> Timer] /\ tails \in [Tails -> Calls]
    BY <1>2 DEF Init
  <2>2. events \in 0..MaxEvents /\ restarts \in 0..MaxRestarts
    BY TimersAssumption DEF Init
  <2> QED  BY <2>1, <2>2 DEF Init, TypeOK, Statuses, Reasons
<1> QED  BY <1>3 DEF Init, IInv, CloseInv, ServiceInv, Waiting

\* Every step keeps it.
LEMMA NextInv == ASSUME IInv, [Next]_vars PROVE IInv'
<1>1. TypeOK'
  BY TypeInv DEF IInv
<1>2. CASE Next
  <2>1. ASSUME NEW p \in Tails, Advance(p) PROVE CloseInv' /\ ServiceInv'
    BY <2>1, AdvanceKeeps
  <2>2. ASSUME Inbound \/ AgentReply \/ BotReply \/ TaskMessage \/ Release \/ Handoff \/ Accept
        PROVE  CloseInv' /\ ServiceInv'
    BY <2>2, EventKeeps
  <2>3. ASSUME \/ \E i \in TimerIds : Fire(i) \/ Skip(i) \/ Pass(i)
               \/ \E i \in Slots : AcceptActs(i) \/ Evict(i)
               \/ FollowUpCloses \/ FollowUpEvaluates \/ FollowUpVerdict \/ SubsequentActs \/ Resolve
        PROVE  CloseInv' /\ ServiceInv'
    BY <2>3, WorkerKeeps
  <2>4. ASSUME Restart PROVE CloseInv' /\ ServiceInv'
    BY <2>4, RestartKeeps
  <2>5. CloseInv' /\ ServiceInv'
    BY <1>2, <2>1, <2>2, <2>3, <2>4 DEF Next
  <2> QED  BY <1>1, <2>5 DEF IInv
<1>3. CASE UNCHANGED vars
  <2>1. /\ timers' = timers /\ tails' = tails /\ turn' = turn /\ overlap' = overlap /\ gone' = gone
        /\ Waiting' => Waiting
        /\ WillAct => WillAct'
    BY <1>3 DEF vars, Waiting, WillAct
  <2>2. CloseInv' /\ ServiceInv'
    BY <2>1, StepKeeps
  <2> QED  BY <1>1, <2>2 DEF IInv
<1> QED  BY <1>2, <1>3

\* The timers and the calls that set them keep their types, whatever the handlers'
\* calls interleave with.
THEOREM TimersWellTyped == Spec => []TypeOK
<1>1. Init => TypeOK
  BY InitInv DEF IInv
<1> QED  BY <1>1, TypeInv, PTL DEF Spec

\* However the handlers' calls, the worker's jobs and the restarts interleave and
\* whatever the policy, a conversation that waits for its customer's answer keeps a
\* close timer that will act, but for the exceptions that AnsweredHasTimer lists.
THEOREM AnsweredConversationHasTimer == Spec => []AnsweredHasTimer
<1>1. IInv => AnsweredHasTimer
  <2> SUFFICES ASSUME IInv, turn = "customer", status \in Live, Quiet, ~overlap, gone = "no"
               PROVE  WillAct
    BY DEF AnsweredHasTimer, IInv, TypeOK
  <2>1. \A p \in Tails : tails[p].ops = <<>>
    BY DEF Quiet, IdleTails
  <2>2. \A p \in Tails : ~Underway(p)
    BY <2>1, EmptySeq DEF Underway, Replacing, Setting
  <2> QED  BY <2>2 DEF IInv, CloseInv, Waiting, Standing
<1>2. IInv /\ [Next]_vars => IInv'
  BY NextInv
<1> QED  BY <1>1, <1>2, InitInv, PTL DEF Spec

\* The close timer never closes a conversation whose last message is the customer's,
\* but by the verdict on a thread read before it, or when a handler of an earlier
\* reply set the timer after it.
THEOREM ClosingFollowsAnswer == Spec => ClosesOnlyAnswered
<1> DEFINE Closes == (FollowUpCloses \/ FollowUpVerdict) /\ status' = "resolved" /\ turn = "service" =>
                       overlap \/ (timers["followUp"].state = "evaluating" /\ ~timers["followUp"].quiet)
<1>1. IInv /\ [Next]_vars => [Closes]_vars
  BY DEF IInv, ServiceInv, CloseTimer, FollowUpCloses, FollowUpStands, FollowUpVerdict
<1>2. IInv /\ [Next]_vars => IInv'
  BY NextInv
<1> QED  BY <1>1, <1>2, InitInv, PTL DEF Spec, ClosesOnlyAnswered
=============================================================================
