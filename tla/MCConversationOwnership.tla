---------------------- MODULE MCConversationOwnership ----------------------
(***************************************************************************)
(* Values of the constants of ConversationOwnership for TLC.               *)
(***************************************************************************)
EXTENDS ConversationOwnership

Says(wantsHuman, optIn) == [wantsHuman |-> wantsHuman, optIn |-> optIn, priority |-> FALSE]

\* Messages without a wish.
PlainMessages == {Says(FALSE, FALSE)}

\* Messages that ask for a human, then perhaps for the AI again.
HandoffMessages == {Says(FALSE, FALSE), Says(TRUE, FALSE), Says(FALSE, TRUE)}

AIFirst    == {"ai_first"}
HumanFirst == {"human_first"}
EitherFirst == {"ai_first", "human_first"}
============================================================================
