SPECIFICATION FairSpec
CONSTANTS
  NTests = 1
  NTasks = 2
  NoFile = NoFile
  MaxStops = 2
INVARIANTS TypeOK RecordedStagesHold ArmedWhileImplementing PoppedTasksSettled DeliveredWhole
PROPERTIES RunFinishes
CHECK_DEADLOCK FALSE
