SPECIFICATION Spec
CONSTANTS
  s1 = s1
  s2 = s2
  Null = Null
  Symbol <- MCSymbol
  ChangeType = {"-"}
  News <- MCNews
  MaxInst = 1
  MaxEvents = 4
SYMMETRY Symmetry
CHECK_DEADLOCK FALSE
INVARIANTS ViewsConsistent JObjectOwn LatestWins ChartSettles
PROPERTY NewsOpensShown
