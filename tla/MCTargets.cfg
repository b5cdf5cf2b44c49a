SPECIFICATION TargetsSpec
CONSTANTS
  Designs <- MCDesigns
  Targets <- MCTargetSet
  Data <- Bit
  Addrs <- Bit
  ChildBound = 4
  Width = 2
  Vals <- Bit
  Slack = 2
  ResetCycles = 2
  Goals <- MCGoals
INVARIANTS
  SimExact
  VlgExact
  CounterExact
  TargetDecides
CHECK_DEADLOCK FALSE
