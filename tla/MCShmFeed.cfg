CONSTANTS
  c1 = c1  c2 = c2
  s1 = s1  s2 = s2
  u1 = u1  u2 = u2  u3 = u3
  NULL = NULL
  Clocks <- MCClocks
  SrcIds <- MCSrcIds
  SubIds <- MCSubIds
  K = 2
INIT ShmInit
NEXT ShmNext
\* The feed thread stops for good once clockfeed_on_shutdown has run, and
\* the SHM module once it has failed, shut down or aborted.
CHECK_DEADLOCK FALSE
INVARIANTS
  TypeOK
  NoDanglingSubscription
  ZombiesReaped
  ShutdownLeavesOnlySubscribed
  ShmClocksDistinct
  ShmLeavesNoSubscription
