SPECIFICATION Spec
CONSTANTS
  Plan <- MCPlan
  Library <- MCLibrary
INVARIANT
  PassesExactlyTheSeparated
\* The assignment is full.
CHECK_DEADLOCK FALSE
