CONSTANTS
  None = None
  Tails = {p1, p2}
  Modes = {"semantic"}
  Reassigns = {FALSE}
  Targets = {TRUE}
  MaxEvents = 4
  MaxRestarts = 0

CHECK_DEADLOCK FALSE

SPECIFICATION FairSpec

INVARIANT
  ContinuedHasTimer
