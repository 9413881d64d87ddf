SPECIFICATION Spec
CONSTANTS
  t1 = t1  t2 = t2  t3 = t3  k1 = k1  k2 = k2
  Task = {t1, t2, t3}
  Thread = {k1, k2}
  NoTask = NoTask
  sched_id <- TwoThreads
  boot_q <- TwoThreadsBoot
INVARIANTS MutualExclusion
