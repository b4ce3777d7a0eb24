\* Two subscriber threads, each able to take several slots.
CONSTANTS
  Threads = {t1, t2}
  NULL = NULL
SPECIFICATION Spec
INVARIANT TypeOK
PROPERTIES NoEventAfterUnsubscribe NoDropWithoutBacklog
\* A full table ends the feed thread; once the mailboxes drain nothing
\* more happens (clockfeed.c:597).
CHECK_DEADLOCK FALSE
