SPECIFICATION Spec
CONSTANTS
  s1 = s1
  s2 = s2
  Null = Null
  Symbol <- MCSymbol
  MaxReq = 3
  MaxEvents = 4
SYMMETRY Symmetry
CHECK_DEADLOCK FALSE
INVARIANTS NewestShown TabsMatch TabsNotLost
PROPERTIES NoStaleHeader PostsShown
