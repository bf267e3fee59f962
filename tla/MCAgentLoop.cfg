CONSTANTS
  MaxToolSteps = 6
  OpenTools <- PlainTools
  Stray = {"unknown", "confirm_offer"}
SPECIFICATION Spec
INVARIANTS TypeOK AnsweredOnce OutcomeTold CallPromised OffersFollowRecord
PROPERTIES RunEnds ImplementsAgentRun
