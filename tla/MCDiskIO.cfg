SPECIFICATION FairSpec
CONSTANTS
  t1 = t1  t2 = t2  k1 = k1
  Task = {t1, t2}
  Thread = {k1}
  NoTask = NoTask
  sched_id <- OneThread
  boot_q <- OneThreadBoot
  Ring = {k1}
  Depth = 2
  MaxFails = 2
INVARIANTS StrandedOnlyByFailure
PROPERTY CallReturns
CHECK_DEADLOCK FALSE
