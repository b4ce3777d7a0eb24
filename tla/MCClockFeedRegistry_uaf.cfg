CONSTANTS
  c1 = c1  c2 = c2
  s1 = s1  s2 = s2  s3 = s3
  u1 = u1  u2 = u2  u3 = u3
  NULL = NULL
  Clocks <- MCClocks
  SrcIds <- MCSrcIds
  SubIds <- MCSubIds
SPECIFICATION Spec
\* The feed thread stops for good once clockfeed_on_shutdown has run.
CHECK_DEADLOCK FALSE
INVARIANT NoUseAfterFree
