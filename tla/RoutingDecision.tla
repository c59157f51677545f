-------------------------- MODULE RoutingDecision --------------------------
(***************************************************************************)
(* The decision part of the routing engine of the API: given what the      *)
(* routing context holds about a conversation and how many human and AI    *)
(* agents can take it, which side owns the next turn, and the routing plan *)
(* that the inbound worker, the agent handoff and the timeout worker apply.*)
(*                                                                         *)
(* Everything here is an operator on data.  A plan keeps the fields that   *)
(* ownership depends on; department, team, priority, queue position, wait  *)
(* estimate, reason texts and the audit trace are left out.                *)
(***************************************************************************)
EXTENDS Integers

CONSTANTS Agents,    \* human agents of the tenant
          AIAgents,  \* AI agents of the tenant
          None       \* SQL NULL / JavaScript null

ASSUME RoutingAssumption ==
  None \notin Agents /\ None \notin AIAgents /\ None \notin {"human", "ai"}

RoutingPlanMode == {"human_only", "human_first", "ai_only", "ai_first", "hybrid"}

RequestMode == {"normal", "human_requested", "ai_opt_in"}

Sides == {"human", "ai"}

Actions == {"preserve_existing_owner", "assign_specific_owner",
            "enqueue_for_human", "assign_ai_owner"}

AgentOrNone   == Agents \cup {None}
AIAgentOrNone == AIAgents \cup {None}

RoutingPlan ==
  [action : Actions, owner : Sides, agent : AgentOrNone, ai : AIAgentOrNone,
   reserved : AgentOrNone, requestMode : RequestMode,
   fallback : BOOLEAN, locked : BOOLEAN]

(***************************************************************************)
(* What the customer's latest message says.  wantsHuman is the intent that *)
(* the memory encoder left in the snapshot, optIn the literal "#AI"        *)
(* command, priority the VIP, negative or adversarial signals of           *)
(* isHumanPriorityConversation.                                            *)
(***************************************************************************)
Signals == [wantsHuman : BOOLEAN, optIn : BOOLEAN, priority : BOOLEAN]

(***************************************************************************)
(* resolveOverride: the reason that overrides the tenant's mode, or "none".*)
(* row is the queue assignment (its requestMode already normalised: NULL   *)
(* reads as "normal").                                                     *)
(***************************************************************************)
ResolveOverride(sig, row) ==
  LET asked == row.requestMode = "human_requested"
  IN  CASE sig.wantsHuman                             -> "customer_requested_human"
        [] ~sig.wantsHuman /\ asked /\ sig.optIn      -> "customer_explicit_ai_opt_in"
        [] ~sig.wantsHuman /\ asked /\ ~sig.optIn
                           /\ row.locked              -> "human_handoff_queue_active"
        [] OTHER                                      -> "none"

OverrideSide(reason) ==
  CASE reason \in {"customer_requested_human", "human_handoff_queue_active"} -> "human"
    [] reason = "customer_explicit_ai_opt_in" -> "ai"
    [] OTHER -> None

ResolveServiceRequestMode(sig, row, reason) ==
  LET asked == row.requestMode = "human_requested"
  IN  CASE reason = "customer_requested_human" -> "human_requested"
        [] reason # "customer_requested_human" /\ asked /\ sig.optIn -> "ai_opt_in"
        [] reason # "customer_requested_human" /\ asked /\ ~sig.optIn
             /\ row.locked -> "human_requested"
        [] OTHER -> "normal"

(***************************************************************************)
(* resolveOwnerSide.  available says of each side whether somebody can take*)
(* the conversation, load is the side's load in percent, None if unknown.  *)
(***************************************************************************)
LoadOr100(load) == IF load = None THEN 100 ELSE load

Other(side) == IF side = "human" THEN "ai" ELSE "human"

\* The side asked for, unless only the other one has somebody available.
Prefer(side, available) ==
  IF ~available[side] /\ available[Other(side)] THEN Other(side) ELSE side

ResolveSmartOwnerSide(sig, available, load) ==
  CASE ~available["ai"] -> "human"
    [] available["ai"] /\ ~available["human"] -> "ai"
    [] available["ai"] /\ available["human"] /\ sig.priority -> "human"
    [] OTHER -> IF LoadOr100(load["ai"]) < LoadOr100(load["human"]) THEN "ai" ELSE "human"

ResolveOwnerSide(mode, sig, reason, available, load) ==
  CASE OverrideSide(reason) # None -> Prefer(OverrideSide(reason), available)
    [] OverrideSide(reason) = None /\ mode = "human_only"  -> "human"
    [] OverrideSide(reason) = None /\ mode = "ai_only"     -> "ai"
    [] OverrideSide(reason) = None /\ mode = "human_first" -> Prefer("human", available)
    [] OverrideSide(reason) = None /\ mode = "ai_first"    -> Prefer("ai", available)
    [] OTHER -> ResolveSmartOwnerSide(sig, available, load)

(***************************************************************************)
(* Dispatch.  assignWithinScope passes over the excluded agents unless     *)
(* nobody else is eligible; selectForTarget keeps the AI agent already on  *)
(* the queue row while it is active.  Which of several eligible agents the *)
(* load strategies choose is left open: the result is the set of possible  *)
(* choices.                                                                *)
(***************************************************************************)
Pick(S) == IF S = {} THEN {None} ELSE S

DecideForTarget(eligible, excluded) ==
  Pick(IF eligible \subseteq excluded THEN eligible ELSE eligible \ excluded)

SelectForTarget(row, active) ==
  IF row.ai \in active THEN {row.ai} ELSE Pick(active)

(***************************************************************************)
(* buildPreservedHumanPlan: the human owner stays, the queue row's service *)
(* mode is carried over.                                                   *)
(***************************************************************************)
PreservedHumanPlan(agent, row) ==
  [action |-> "preserve_existing_owner", owner |-> "human", agent |-> agent,
   ai |-> None, reserved |-> None, requestMode |-> row.requestMode,
   fallback |-> row.fallback, locked |-> row.locked]

(***************************************************************************)
(* createPlan for an inbound message or a timeout: h is the human dispatch *)
(* decision, m the AI selection (None when the human side is chosen).      *)
(***************************************************************************)
InboundPlan(side, request, h, m) ==
  [action      |-> CASE side = "ai" -> "assign_ai_owner"
                     [] side = "human" /\ h # None -> "assign_specific_owner"
                     [] OTHER -> "enqueue_for_human",
   owner       |-> side,
   agent       |-> IF side = "human" THEN h ELSE None,
   ai          |-> IF side = "ai" THEN m ELSE None,
   reserved    |-> h,
   requestMode |-> request,
   fallback    |-> request = "human_requested",
   locked      |-> request = "human_requested" /\ side = "human"]

CreatePlan(mode, sig, row, load, eligible, active, excluded) ==
  LET reason    == ResolveOverride(sig, row)
      request   == ResolveServiceRequestMode(sig, row, reason)
      available == [human |-> eligible # {}, ai |-> active # {}]
      side      == ResolveOwnerSide(mode, sig, reason, available, load)
  IN  { InboundPlan(side, request, h, m) :
          h \in DecideForTarget(eligible, excluded), m \in SelectForTarget(row, active) }

(***************************************************************************)
(* createAgentHandoffPlanInternal: an agent gives the conversation back; an*)
(* active AI agent takes it, otherwise a human agent or the queue.         *)
(***************************************************************************)
AgentHandoffPlan(h, m) ==
  [action      |-> CASE m # None -> "assign_ai_owner"
                     [] m = None /\ h # None -> "assign_specific_owner"
                     [] OTHER -> "enqueue_for_human",
   owner       |-> IF m # None THEN "ai" ELSE "human",
   agent       |-> IF m # None THEN None ELSE h,
   ai          |-> m,
   reserved    |-> h,
   requestMode |-> "normal", fallback |-> FALSE, locked |-> FALSE]

CreateAgentHandoffPlan(row, eligible, active) ==
  { AgentHandoffPlan(h, m) :
      h \in DecideForTarget(eligible, {}), m \in SelectForTarget(row, active) }
=============================================================================
