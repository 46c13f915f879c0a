CONSTANTS
  maxWorkflows = 2
  Sizes = {3, 5}
  branchLens = {0, 1, 2}
SPECIFICATION Spec
INVARIANTS
  Acyclic
  OneBeginningOneEnd
CHECK_DEADLOCK FALSE
