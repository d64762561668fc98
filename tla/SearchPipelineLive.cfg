SPECIFICATION FairSpec
CONSTANTS
  Threads = {t1, t2}
  MaxQueries = 2
  MaxResults = 1
  Details <- MCFewDetails
CHECK_DEADLOCK FALSE
PROPERTIES
  FinishedSearchEnds
  PartialResultsAreShown
