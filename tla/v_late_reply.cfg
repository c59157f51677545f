CONSTANTS
  None = None
  Agents = {a1, a2}
  AIAgents = {m1}
  CaseIds = {c1, c2}
  SegmentIds = {s1, s2, s3}
  Admins = {}
  Jobs = {j1}
  PlanModes <- AIFirst
  CustomerSignals <- PlainMessages
  StaleQueue = FALSE
  AgentRemoval = FALSE
  WorkerCrashes = FALSE

SPECIFICATION Spec

PROPERTY OnlyAssigneeReplies
