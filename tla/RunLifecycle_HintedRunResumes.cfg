SPECIFICATION Spec
CONSTANTS
  Runs = {r1}
  Procs = {p1}
  NoRun = NoRun
  AutoBranch = {r1}
  Stages = 2
  MaxFailures = 2
  MaxEdits = 2
PROPERTY HintedRunResumes
CHECK_DEADLOCK FALSE
