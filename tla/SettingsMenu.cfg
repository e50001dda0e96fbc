SPECIFICATION Spec
CONSTANTS
  Groups <- MCGroups
  Tokens <- MCTokens
  Cuts <- MCCuts
  MaxEdits = 1
INVARIANTS
  CleanMeansSaved
  RuntimeFollowsSettings
PROPERTY ResetIsExact
