CONSTANTS
  r1 = r1
  r2 = r2
  Readers <- OneReader
  MAX_CLOCK_SAMPLES = 4
  MaxWrites = 7
  MaxAge = 2
SPECIFICATION Spec
INVARIANTS
  OutputsFromOneSample
