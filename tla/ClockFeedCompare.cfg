SPECIFICATION Spec
CONSTANTS
  NsPerSec = 2
  MaxSec = 2
INVARIANTS
  TypeOK
  ResultMatchesLegs
