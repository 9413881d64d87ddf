CONSTANTS
  m = m
  u = u
  v = v
  a = a
  b = b
  Task = {m, u, v}
  Obj = {a, b}
  Nil = Nil
  Main = m
SPECIFICATION FairMarkSpec
PROPERTIES StackKept GarbageGone MarkingEnds
