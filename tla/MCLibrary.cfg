CONSTANTS
  Threads = {t1,t2,t3}
  MAX_ARENAS = 3
  NoArena = NoArena
  Users = {u1,u2}
  Size8 = 4
  Size16 = 4
  Size32 = 4
  Size64 = 8
  BitAnd <- MCAnd
  BitOr <- MCOr
  BitXor <- MCXor
  Arguments = {0,1,3,7}
  f1 = f1
  f2 = f2
  f3 = f3
  k1 = k1
  k2 = k2
  Kernel = {k1,k2}
  Fiber = {f1,f2,f3}
  Pin <- MCPin
  Word = {wa,wb}
  Bit = {lo,hi}
  Counts = {1,2}
  NoFiber = NoFiber
  Str = {s1,s2}
  Texts <- MCTexts
  MaxLen = 2
  Buffer = {1,2,3,4}
  StructBytes = 2
  MinPayload = 1
  FirstCap = 2
  WordBits = 8
  Nothing = Nothing
  Pointer = 2
  Sizes = {1,2}
  Values = {"v","w"}
  MaxCount = 4
  NoArray = NoArray
  Caller = {u1,u2}
  Files = {fa,fb}
  Fds = {3}
  Amounts = {2}
  Offsets = {1}
  Content <- MCContent
  MaxSize = 2
  Idle = Idle
  User = {u1,u2}
  Key = {"p","q"}
  Inherited <- MCInherited
  MaxEntry = 4
  NoEntry = NoEntry
  Pkg = {"start","a","b"}
  MAIN = "start"
  NewProject <- MCProject
  Imports <- MCImports
  MaxTime = 4
  NoFile = NoFile
SPECIFICATION LibrarySpec
INVARIANTS
  ArenasRegistered 
  ResultsExplainCell 
  StringsAgree 
  ArrayKeepsElements 
   
CHECK_DEADLOCK FALSE
