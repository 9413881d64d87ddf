SPECIFICATION FairSpec
CONSTANTS
  t1 = t1  t2 = t2  k1 = k1  k2 = k2  lfd = lfd  fd = fd
  Task = {t1, t2}
  Thread = {k1, k2}
  NoTask = NoTask
  sched_id <- TwoThreads
  boot_q <- TwoThreadsBoot
  Fd = {lfd, fd}
  uses <- Shared
  Listening = {lfd}
  ReqSize = 2
  MaxAddr = 1
INVARIANTS OneWaker WholeWrite
PROPERTY CompletionReturns
