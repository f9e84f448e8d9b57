\* Everything an application and an operator can do, one flash error, power loss anywhere.
SPECIFICATION Spec
CONSTANTS
  v1 = v1
  v2 = v2
  hung = hung
  torn = torn
  Image = {v1, v2}
  ImageCounter <- MCCounter
  BadTlv = {}
  Hung = {}
  FactoryImage = v1
  Blank = Blank
  MaxAttempts = 1
  MaxStep = 1
  Modes = {"TEST", "PERMANENT"}
  StagedSurvives = TRUE
  Corrupt = Corrupt
  MaxCuts = 1
  MaxFlashFaults = 1
  ForcedRecovery = TRUE
INVARIANTS
  TypeOK
  FloorWithinProven
PROPERTIES
  FactoryResetHonoured
