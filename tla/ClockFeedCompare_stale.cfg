SPECIFICATION Spec
CONSTANTS
  NsPerSec = 2
  MaxSec = 2
INVARIANT
  StaleLegsRejected
