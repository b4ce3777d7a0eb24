SPECIFICATION Spec
CONSTANTS
  UseFd = FALSE
  OutlierFilter = FALSE
  ClockCtrl = "SLEW_AND_STEP"
  SeqMod = 3
  MaxSteps = 0
  CompareCanFail = FALSE
INVARIANT
  SynchronizedOnlyWhenClean
