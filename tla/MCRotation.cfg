SPECIFICATION FairSpec
CONSTANTS
  s1 = s1
  s2 = s2
  Null = Null
  Symbol <- MCSymbol
  ChangeType = {"+", "-"}
  News <- MCNews
  MaxInst = 2
  MaxEvents = 3
CHECK_DEADLOCK FALSE
INVARIANT NoOvertaking
PROPERTIES RefinesSearchScreen SearchAnswered
