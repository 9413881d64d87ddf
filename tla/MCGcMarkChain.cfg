CONSTANTS
  m = m
  a = a
  b = b
  Task = {m}
  Obj = {a, b}
  Nil = Nil
  Main = m
SPECIFICATION MarkSpec
INVARIANT ReachableKept
