SPECIFICATION FairSpec
CONSTANTS
  MaxRequests = 2
  MaxPreviews = 1
  MaxSearches = 1
  MaxFaults = 2
CHECK_DEADLOCK FALSE
INVARIANTS
  BarStops
PROPERTIES
  SupersededStaysSilent
  BusyEnds
