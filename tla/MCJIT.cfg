SPECIFICATION FairSpec
CONSTANTS
  Main = Main
  Even = Even
  Odd = Odd
  Puts = Puts
  T1 = T1
  T2 = T2
  Null = Null
  Absent = Absent
  None = None
  NoThread = NoThread
  Resolver = Resolver
  Globals <- MCGlobals
  Addrs <- MCAddrs
  Threads <- MCThreads
  Memory <- MCMemory
  Programs <- MCPrograms
  FreeStubbed = FALSE
INVARIANTS
  ReturnedCodeIsComplete
  OneBodyPerFunction
  DestroyedCodeIsFreed
  PointersReachCurrentCode
  TablesAgree
PROPERTIES
  CallsReturn
