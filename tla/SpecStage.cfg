SPECIFICATION FairSpec
CONSTANTS
  None = None
  MaxRounds = 2
  MaxStops = 2
INVARIANTS TypeOK CrossReviewFresh FinalSpecAsChosen RolesFollowHuman PhasesByConsent OneFlow ImportedIsValid
PROPERTIES FlowReached
CHECK_DEADLOCK FALSE
