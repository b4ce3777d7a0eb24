SPECIFICATION Spec
CONSTANTS
  UseFd = TRUE
  OutlierFilter = FALSE
  ClockCtrl = "STEP_AT_STARTUP"
  SeqMod = 3
  MaxSteps = 0
  CompareCanFail = FALSE
PROPERTY
  SlaveTimesOut
