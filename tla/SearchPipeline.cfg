SPECIFICATION Spec
CONSTANTS
  Threads = {t1, t2}
  MaxQueries = 2
  MaxResults = 2
  Details <- MCDetails
CHECK_DEADLOCK FALSE
INVARIANTS
  TypeOK
  OneEventPerCollector
  NoLostWakeup
  ExactlyOnce
  EndedIsComplete
  NoEventToDeletedScope
PROPERTIES
  ImplementsDelivery
