SPECIFICATION FairSpec
CONSTANTS
  NPhases = 2
  NTasks = 2
  RegressionGuards = {2}
  NoFile = NoFile
  MaxRounds = 2
INVARIANTS
  TypeOK
  ArmedForPhase
  ReviewedAndRed
  NoFalseAlarm
  RecordedPhasesHold
  NothingLaundered
  PhasesSurvive
PROPERTY
  AttemptEnds
\* The flow is over at "done".
CHECK_DEADLOCK FALSE
