SPECIFICATION Spec
CONSTANTS
  T1 = T1
  T2 = T2
  Lock = Lock
  Registry = Registry
  Context = Context
  NoThread = NoThread
  Main = T1
  Threads <- MCThreads
  Statics <- MCStatics
  CtorUses <- MCCtorUses
  DtorUses <- MCDtorUses
  MaxShutdowns = 2
INVARIANTS
  OneObjectPerStatic
  AccessorReturnsLiveObject
  OutlivesItsUsers
PROPERTIES
  ShutdownLeaksNothing
  ShutdownTerminates
  CallsReturn
