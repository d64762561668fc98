SPECIFICATION DrivenSpec
CONSTANTS
  Texts <- MCTexts
  Departments = {"d1"}
  FilterStates = {"f1"}
  CannedQueries <- MCCannedQueries
  Null = Null
  MaxQueryId = 2
INVARIANTS
  TypeOK
  CleanMeansCurrent
  ShownIsClean
  IdsTellTexts
  UserDataOfItsQuery
  TextAnnounced
  TestsSeeFinishedSearches
PROPERTIES
  HiddenIsQuiet
