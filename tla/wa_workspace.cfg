CONSTANTS
  None = None
  Members = {m1, m2}
  Replies = {r1}
  Quotes = {q1}
  Attempts = 2
  MaxSends = 2
  MaxLocks = 3
  MaxCrashes = 2

SPECIFICATION FairSpec

INVARIANTS
  TypeOK
  ReplierMirrorsLock
  IdsAreUnique
  SentHasId
  UnsentIsServed
  GapIsWatched

PROPERTIES
  RecordedIsFinal
  NoReplyLost
  GapSettles

CHECK_DEADLOCK FALSE
