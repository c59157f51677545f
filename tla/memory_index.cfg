CONSTANTS
  None = None
  Tasks = {t1, t2}
  MaxVersion = 2
  MaxWrites = 1
  MaxFaults = 1

SPECIFICATION FairSpec

INVARIANTS
  TypeOK
  IndexedIsSettled

PROPERTY PendingIsServed
