SPECIFICATION Spec
CONSTANTS
  UseFd = FALSE
  OutlierFilter = TRUE
  ClockCtrl = "SLEW_AND_STEP"
  SeqMod = 3
  MaxSteps = 1
  CompareCanFail = FALSE
INVARIANTS
  PeriodWithinEpoch
  BadSignalMeansFewGood
