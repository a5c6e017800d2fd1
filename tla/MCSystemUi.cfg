SPECIFICATION FairSpec
CONSTANTS
  FlagSets = {{}, {1}, {2}, {2, 4}, {1, 2}, {1, 2, 4}}
  MaxDepth = 2
  MaxReports = 2
INVARIANTS SettledAgrees HideStays
PROPERTY EventuallyTrue
