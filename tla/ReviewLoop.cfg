SPECIFICATION FairSpec
CONSTANTS
  Loops = 2
  GatedLoops = {2}
  MaxRounds = 3
  RetryMax = 1
INVARIANTS TypeOK EndsRightly ReviewerSeesReplies
PROPERTIES Terminates
CHECK_DEADLOCK FALSE
