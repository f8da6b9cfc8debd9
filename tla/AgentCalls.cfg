SPECIFICATION FairSpec
CONSTANTS
  Refs <- MCRefs
  MaxLives = 2
  RetryMax = 2
  BaseWait = 300
  MaxWait = 3600
  MaxResetWait = 21600
  Moments <- MCMoments
  Reports <- MCReports
  None = None
INVARIANTS
  TypeOK
  ResumesOwnConversation
  WaitHonoured
PROPERTY
  CallEnds
\* After the last life no stage is begun any more.
CHECK_DEADLOCK FALSE
