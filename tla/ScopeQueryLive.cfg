SPECIFICATION FairSpec
CONSTANTS
  Texts <- MCFewTexts
  Departments = {}
  FilterStates = {"f1"}
  CannedQueries <- MCFewCannedQueries
  Null = Null
  MaxQueryId = 1
PROPERTIES
  TypedIsSearched
  ChoiceIsSearched
