SPECIFICATION Spec
CONSTANTS
  Loops = 1
  GatedLoops = {1}
  MaxRounds = 2
  RetryMax = 1
INVARIANT OmittingReviewerLoses
CHECK_DEADLOCK FALSE
