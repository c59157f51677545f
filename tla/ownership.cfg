CONSTANTS
  None = None
  Agents = {a1, a2}
  AIAgents = {m1}
  CaseIds = {c1, c2}
  SegmentIds = {s1, s2, s3}
  Admins = {}
  Jobs = {j1}
  PlanModes <- EitherFirst
  CustomerSignals <- HandoffMessages
  StaleQueue = FALSE
  AgentRemoval = FALSE
  WorkerCrashes = FALSE

SPECIFICATION FairSpec

INVARIANTS
  TypeOK
  CaseCurrency
  OneLiveSegment
  HandlerOwnsSegment
  ReservationMirrored
  WaitingIsQueued
  WaitIsServed

PROPERTIES
  StaleJobHarmless
  ClosedStaysClosed
  ReopenStartsFreshCase
  OneSessionAtATime
  WaitForAIEnds
