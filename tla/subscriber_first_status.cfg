SPECIFICATION Spec
CONSTANTS
  Provider = {l1, r1}
  LocalProvider = {l1}
INVARIANTS ReadsLocal
CHECK_DEADLOCK FALSE
