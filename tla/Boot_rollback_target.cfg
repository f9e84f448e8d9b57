\* Attempts run out.
SPECIFICATION Spec
CONSTANTS
  v1 = v1
  v2 = v2
  hung = hung
  torn = torn
  Image = {v1, v2}
  ImageCounter <- MCCounter
  BadTlv = {}
  Hung = {}
  FactoryImage = v1
  Blank = Blank
  MaxAttempts = 2
  MaxStep = 16
  Modes = {"TEST"}
  StagedSurvives = FALSE
  Corrupt = Corrupt
  MaxCuts = 0
  MaxFlashFaults = 0
  ForcedRecovery = FALSE
PROPERTY
  RollsBackToConfirmed
