\* Test-mode updates with every kind of image, no flash errors, power loss anywhere but not for ever.
SPECIFICATION FairSpec
CONSTANTS
  v1 = v1
  v2 = v2
  hung = hung
  torn = torn
  Image = {v1, hung, torn}
  ImageCounter <- MCCounter
  BadTlv = {torn}
  Hung = {hung}
  FactoryImage = v1
  Blank = Blank
  MaxAttempts = 2
  MaxStep = 16
  Modes = {"TEST"}
  StagedSurvives = FALSE
  Corrupt = Corrupt
  MaxCuts = 1
  MaxFlashFaults = 0
  ForcedRecovery = TRUE
INVARIANTS
  BoundedTrials
  RunningSlotIntact
PROPERTIES
  ConfirmNamesRunning
  HungImageReplaced
  FactoryResetCompletes
