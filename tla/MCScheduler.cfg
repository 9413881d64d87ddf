SPECIFICATION FairSpec
CONSTANTS
  t1 = t1  t2 = t2  t3 = t3
  Task = {t1, t2, t3}
  N = 2
  NULL = NULL
INVARIANTS FreedIsGone ExitIsFinal SecondUnlockAlone
PROPERTY ProgramEnds
