SPECIFICATION Spec
CONSTANTS
  N = 2
  FdInstances = {}
  MaxLag = 1
  MaxSteps = 0
  GetCanFail = FALSE
  Ctrl = {}
  StatusCanFail = FALSE
PROPERTY
  PolledInstanceSeesTimeOfDayLoss
