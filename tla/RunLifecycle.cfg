SPECIFICATION FairSpec
CONSTANTS
  Runs = {r1, r2}
  Procs = {p1, p2}
  NoRun = NoRun
  AutoBranch = {r1}
  Stages = 2
  MaxFailures = 1
  MaxEdits = 1
INVARIANTS TypeOK MutualExclusion CompletedIsFinal
PROPERTIES NoStageOnRewrittenBranch ImplementsOwnership ResumedRunFinishes
CHECK_DEADLOCK FALSE
