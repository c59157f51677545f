CONSTANTS
  None = None
  t1 = t1
  t2 = t2
  t3 = t3
  k1 = k1
  Tasks <- ThreeTasks
  Clients = {c1}
  Kinds <- AllKinds
  Keys <- AllKeys
  ClientKeys <- OneKey
  ClientKinds <- Requestable
  RequestRoom = 3
  Attempts = 2
  MaxFaults = 2

SPECIFICATION FairSpec

INVARIANTS
  TypeOK
  RowFollowsJob
  OneTaskPerDerivedKey
  PublishedIsPostprocessed

PROPERTIES
  FailureIsLastWord
  EveryTaskSettles
  TasksDescend

CHECK_DEADLOCK FALSE
