SPECIFICATION Spec
CONSTANTS
  Tests = {t1}
  MaxRecoveries = 2
INVARIANT CatchesTampering
CHECK_DEADLOCK FALSE
