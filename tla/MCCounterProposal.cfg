CONSTANTS
  MaxToolSteps = 6
  OpenTools <- PlainTools
  Stray = {"unknown", "confirm_offer"}
SPECIFICATION Spec
INVARIANT CounterProposalRecorded
