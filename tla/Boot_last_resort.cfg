\* An image that is signed but whose TLV area is damaged.
SPECIFICATION Spec
CONSTANTS
  v1 = v1
  v2 = v2
  hung = hung
  torn = torn
  Image = {v1, torn}
  ImageCounter <- MCCounter
  BadTlv = {torn}
  Hung = {}
  FactoryImage = v1
  Blank = Blank
  MaxAttempts = 2
  MaxStep = 16
  Modes = {"TEST"}
  StagedSurvives = FALSE
  Corrupt = Corrupt
  MaxCuts = 0
  MaxFlashFaults = 0
  ForcedRecovery = FALSE
PROPERTY
  RecoveryIsLastResort
