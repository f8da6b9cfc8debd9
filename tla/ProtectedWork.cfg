SPECIFICATION FairSpec
CONSTANTS
  Tests = {t1, t2}
  MaxRecoveries = 2
INVARIANTS TypeOK CallEndsRightly NeverSilentlyWeakened
PROPERTIES CallEnds
CHECK_DEADLOCK FALSE
