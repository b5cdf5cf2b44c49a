SPECIFICATION PassSpec
CONSTANTS
  Leaves <- MCLeaves
  MaxWidth = 5
  MaxPasses = 2
  Imms <- MCImms
INVARIANTS
  SmtAndJsonAgree
  RewriteExact
  VerilogFragment
  SystemCFragment
  LoweringMeans
  PassesPreserveMeaning
  SharedOnce
CHECK_DEADLOCK FALSE
