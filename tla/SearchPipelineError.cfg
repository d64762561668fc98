SPECIFICATION Spec
CONSTANTS
  Threads = {t1, t2}
  MaxQueries = 2
  MaxResults = 1
  Details <- MCErrorDetails
CHECK_DEADLOCK FALSE
PROPERTIES
  NoRefreshAfterError
