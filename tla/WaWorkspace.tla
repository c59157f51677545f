----------------------------- MODULE WaWorkspace -----------------------------
(***************************************************************************)
(* What Baileys brings in beside the replies of WaReplies, and how the two *)
(* meet in wa_messages: the account's own message comes back as an event   *)
(* (its echo) and is stored as a new row unless a row already holds its    *)
(* id, and a customer's message may quote a message whose id no row holds  *)
(* yet, which leaves a gap.  The arrival of the target closes no gap:      *)
(* resolveGapsForArrivedMessage passes the id under a name that            *)
(* resolveWaMessageGapsByTarget does not read.  A gap is handed to manual  *)
(* review by a reconciliation, which the timer starts every five minutes   *)
(* for an account that is online, and the internal route on request.       *)
(*                                                                         *)
(* Contacts, groups, unread counts and receipts are not part of the state, *)
(* and the route runs one reconciliation at a time.                        *)
(***************************************************************************)
EXTENDS WaReplies

CONSTANT Quotes     \* bound: customer messages that quote a reply

VARIABLES quotes,   \* the quoting message: what its look-up found, and its gap
          scans,    \* reconcileWaConversation, by who called it
          online,   \* wa_accounts.account_status is "online"
          left      \* history: gaps a reconciliation that died has left behind

inVars == <<quotes, scans, online, left>>
vars   == <<lockVars, replyVars, inVars>>

Callers    == {"timer", "route"}
OpenStates == {"open", "reconciling"}

QuoteStates == OpenStates \cup {"none", "found", "missing", "linked", "manual_review"}

\* Every variable holds a value of the tables and steps the code goes through;
\* the stall count in it never passes BullMQ's limit.
TypeOK ==
  /\ RepliesTypeOK
  /\ quotes \in [Quotes -> QuoteStates]
  /\ scans \subseteq Callers
  /\ online \in BOOLEAN
  /\ left \subseteq Quotes

Init ==
  /\ RepliesInit
  /\ quotes = [q \in Quotes |-> "none"]
  /\ scans = {}
  /\ online \in BOOLEAN
  /\ left = {}
-----------------------------------------------------------------------------
(* ingestSingleBaileysMessage *)

Stored(r, id) == ids[r] = id \/ id \in copies[r]

IngestEcho(r, id) ==
  /\ up
  /\ id \in 1..sent[r]
  /\ ~Stored(r, id)
  /\ copies' = [copies EXCEPT ![r] = @ \cup {id}]
  /\ UNCHANGED <<lockVars, jobs, ids, sent, up, crashes, startup, missed, inVars>>

\* The quoting message's transaction looks its target up, and commits its row
\* and the gap later: the target may be committed in between.
LookUpQuoted(q, r, id) ==
  /\ up
  /\ quotes[q] = "none"
  /\ id \in 1..sent[r]
  /\ quotes' = [quotes EXCEPT ![q] = IF Stored(r, id) THEN "found" ELSE "missing"]
  /\ UNCHANGED <<lockVars, replyVars, scans, online, left>>

CommitQuote(q) ==
  /\ quotes[q] \in {"found", "missing"}
  /\ quotes' = [quotes EXCEPT ![q] = IF quotes[q] = "found" THEN "linked" ELSE "open"]
  /\ UNCHANGED <<lockVars, replyVars, scans, online, left>>
-----------------------------------------------------------------------------
(* The account, and reconcileWaConversation *)

\* The runtime manager records what Baileys says of the connection.
ConnectionChanges ==
  /\ up
  /\ online' = ~online
  /\ UNCHANGED <<lockVars, replyVars, quotes, scans, left>>

Gaps == {q \in Quotes : quotes[q] \in OpenStates}

Marked(gaps, state) ==
  quotes' = [q \in Quotes |-> IF q \in gaps THEN state ELSE quotes[q]]

\* The first transaction lists the gaps, those another caller works on included.
MarkGaps(c) ==
  /\ up
  /\ c \notin scans
  /\ Gaps # {}
  /\ Marked(Gaps, "reconciling")
  /\ scans' = scans \cup {c}
  /\ UNCHANGED <<lockVars, replyVars, online, left>>

\* The timer looks at accounts that are online, and there at conversations with a
\* gap nobody works on; the route asks for neither.
Reconcile ==
  /\ online
  /\ \E q \in Quotes : quotes[q] = "open"
  /\ MarkGaps("timer")

ReconcileOnRequest == MarkGaps("route")

\* Mutant: what is left is what is still "open".
Remaining_OpenOnly == {q \in Quotes : quotes[q] = "open"}

Remaining == Gaps

\* The history sync brought messages in through the ingestion above.
ReviewGaps(c) ==
  /\ c \in scans
  /\ Marked(Remaining, "manual_review")
  /\ scans' = scans \ {c}
  /\ UNCHANGED <<lockVars, replyVars, online, left>>

\* The gaps marked "reconciling" that no other caller is still to list.
Abandons(c) == {q \in Quotes : quotes[q] = "reconciling" /\ scans \subseteq {c}}

\* The history sync throws.
SyncFails(c) ==
  /\ c \in scans
  /\ scans' = scans \ {c}
  /\ left' = left \cup Abandons(c)
  /\ UNCHANGED <<lockVars, replyVars, quotes, online>>

\* A gap that was only open is found again by the next start's timer.
Crash ==
  /\ CrashReplies
  /\ quotes' = [q \in Quotes |-> IF quotes[q] \in {"found", "missing"} THEN "none"
                                                                  ELSE quotes[q]]
  /\ scans' = {}
  /\ left' = left \cup {q \in Quotes : quotes[q] = "reconciling"}
  /\ UNCHANGED online
-----------------------------------------------------------------------------
Ingestion ==
  \/ \E r \in Replies, id \in 1..MaxSends :
        \/ IngestEcho(r, id)
        \/ \E q \in Quotes : LookUpQuoted(q, r, id)
  \/ \E q \in Quotes : CommitQuote(q)

ReconciliationStep(c) == ReviewGaps(c) \/ SyncFails(c)

Reconciliation ==
  \/ ConnectionChanges \/ Reconcile \/ ReconcileOnRequest
  \/ \E c \in Callers : ReconciliationStep(c)

Next ==
  \/ RepliesNext /\ UNCHANGED inVars
  \/ Ingestion
  \/ Reconciliation
  \/ Crash

Spec == Init /\ [][Next]_vars

\* Handlers, workers, timers and the supervisor that restarts the process go on;
\* members, customers, the route and Baileys need not.  The timer's scan is owed
\* only to an account that stays online.
Fairness ==
  /\ \A r \in Replies :
        /\ WF_vars(EnqueueReply(r) /\ UNCHANGED inVars)
        /\ WF_vars(WorkerStep(r) /\ UNCHANGED inVars)
        /\ WF_vars(StartupStep(r) /\ UNCHANGED inVars)
  /\ WF_vars((\E old \in SUBSET Stuck : Restart(old)) /\ UNCHANGED inVars)
  /\ \A q \in Quotes : WF_vars(CommitQuote(q))
  /\ WF_vars(Reconcile)
  /\ \A c \in Callers : WF_vars(ReconciliationStep(c))

FairSpec == Spec /\ Fairness
-----------------------------------------------------------------------------
(* Properties *)

\* The conversation names the member its lock names as long as the lock is
\* held, and nobody otherwise, however takeovers and releases that read an
\* older lock are interleaved.
ReplierMirrorsLock ==
  replier = IF lock.status \in {"none", "released"} THEN None ELSE lock.member

\* One provider message is one row: the echo of a reply is never stored beside
\* a reply's row that holds the same id, whichever comes first.
IdsAreUnique == \A r \in Replies : ids[r] \notin copies[r]

\* A reply is called sent only with the id of a copy the provider took, so that
\* receipts, edits and deletions find it.
SentHasId == \A r \in Replies : jobs[r].row = "sent" => ids[r] \in 1..sent[r]

\* A reply recorded as sent is not sent again by a retry, by a job whose worker
\* died before BullMQ knew, or by a second job; only startup takes it back.
RecordedIsFinal ==
  [][\A r \in Replies : jobs[r].row = "sent" =>
        /\ sent'[r] = sent[r]
        /\ \/ jobs'[r].row = "sent"
           \/ startup.step = "next" /\ r \in startup.todo]_vars

\* Somebody will see to the reply: the route that accepted it, BullMQ, or startup.
Served(r) ==
  \/ jobs[r].route = "enqueue"
  \/ jobs[r].bull \in {"waiting", "active"}
  \/ r \in startup.todo
  \/ startup.job = r

\* While the process is up, a reply whose row waits to be sent and of which no copy
\* has gone out is never without somebody to see to it, across deaths in every
\* place, unless startup has passed it by: the row and BullMQ's job share no
\* transaction, and a job under an id that BullMQ knows is not added.
UnsentIsServed ==
  up => \A r \in Stuck \ missed : sent[r] = 0 => Served(r)

\* An accepted reply reaches the provider or is marked failed, across deaths of
\* the process, unless startup has passed the row by, or left it to a job that was ending.
NoReplyLost ==
  \A r \in Replies :
    jobs[r].row = "queued" ~> sent[r] > 0 \/ jobs[r].row = "failed" \/ r \in missed

\* A gap marked "reconciling", which the timer does not look for, is one that a
\* reconciliation underway is still to list, however the timer's and the route's
\* overlap, or one that a reconciliation has died over.
GapIsWatched ==
  \A q \in Quotes \ left : quotes[q] = "reconciling" => scans # {}

\* Once the account stays online, an open gap is put before a human, across deaths
\* of the process before its reconciliation, unless a reconciliation that had
\* marked it died or its history sync threw.
GapSettles ==
  <>[]online =>
    \A q \in Quotes :
      quotes[q] = "open" ~> quotes[q] = "manual_review" \/ q \in left
=============================================================================
