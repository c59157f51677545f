------------------------ MODULE ConversationSessions ------------------------
(***************************************************************************)
(* What the conversation promises to reports, quality control and billing, *)
(* which count its cases: a conversation is served in sessions, one after  *)
(* the other, each of which begins once, ends once and is over for good.   *)
(*                                                                         *)
(* ConversationOwnership implements this with conversation_cases rows that *)
(* seven workers and a dozen routes write.                                 *)
(***************************************************************************)
CONSTANTS None,  \* no session
          Ids    \* the sessions there can be

VARIABLES current,  \* the session the conversation is in
          past      \* sessions that are over

vars == <<current, past>>

Init == current = None /\ past = {}

Begin(k) ==
  /\ current = None
  /\ k \in Ids \ past
  /\ current' = k
  /\ UNCHANGED past

End ==
  /\ current # None
  /\ past' = past \cup {current}
  /\ current' = None

Next == End \/ \E k \in Ids : Begin(k)

Spec == Init /\ [][Next]_vars
=============================================================================
