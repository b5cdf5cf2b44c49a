CONSTANTS
  x = x
  y = y
  i1 = i1
  i2 = i2
  m1 = m1
  m2 = m2
  VNames = {x, y}
  INames = {i1, i2}
  MNames = {m1, m2}
  MaxDefs = 2
  MaxCalls = 6
SYMMETRY Names
SPECIFICATION CoreSpec
CHECK_DEADLOCK FALSE
INVARIANTS CoreTypeOK CopyExact FlattenExact ExtractExact JsonExact
PROPERTIES DefinitionsStable
