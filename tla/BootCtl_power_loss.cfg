\* Power loss in two saves in a row, no flash errors.
SPECIFICATION CtlSpec
CONSTANTS
  CtlBlock = {d, v1, v2, v3}
  CtlDefaults = d
  Corrupt = Corrupt
  MaxFaults = 2
  HalErrors = FALSE
PROPERTY
  LoadReturnsDurable
