CONSTANTS
  None = None
  Agents = {a1}
  AIAgents = {m1}
  CaseIds = {c1, c2}
  SegmentIds = {s1, s2, s3}
  Admins = {}
  Jobs = {j1}
  PlanModes <- HumanFirst
  CustomerSignals <- PlainMessages
  StaleQueue = FALSE
  AgentRemoval = FALSE
  WorkerCrashes = FALSE

SPECIFICATION Spec

INVARIANT CaseOwnerMatchesSegment
