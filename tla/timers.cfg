CONSTANTS
  None = None
  Tails = {p1, p2}
  Modes = {"waiting_customer", "semantic", "none"}
  Reassigns = {TRUE, FALSE}
  Targets = {TRUE, FALSE}
  MaxEvents = 4
  MaxRestarts = 1

CHECK_DEADLOCK FALSE

SPECIFICATION FairSpec

INVARIANTS
  TypeOK
  AnsweredHasTimer

PROPERTIES
  ClosesOnlyAnswered
  AnsweredIsSettled
