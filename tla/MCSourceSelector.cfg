SPECIFICATION Spec
CONSTANTS
  Path <- MCPath
  Requests <- MCRequests
  FileOrders <- MCFileOrders
  MaxCasesPerComposer = 3
  MaxCasesPerItem = 2
  MinComposers = 2
INVARIANTS
  RefusesOnlyTheImpossible
  ComposersTakeTurns
\* The call returns or raises.
CHECK_DEADLOCK FALSE
