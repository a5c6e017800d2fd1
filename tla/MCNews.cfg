SPECIFICATION Spec
CONSTANTS
  Count = 3
  Matches = {{}, {1}, {2, 3}, {1, 3}, {1, 2, 3}}
  MaxDialogs = 2
INVARIANTS TypeOK ViewOpensRow
