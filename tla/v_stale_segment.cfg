CONSTANTS
  None = None
  Agents = {a1}
  AIAgents = {m1}
  CaseIds = {c1, c2}
  SegmentIds = {s1, s2, s3, s4}
  Admins = {}
  Jobs = {j1}
  PlanModes <- AIFirst
  CustomerSignals <- PlainMessages
  StaleQueue = TRUE
  AgentRemoval = FALSE
  WorkerCrashes = FALSE

SPECIFICATION Spec

INVARIANT OneLiveSegment
