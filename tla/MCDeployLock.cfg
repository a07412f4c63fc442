SPECIFICATION FairSpec
CONSTANTS
  t1 = t1
  t2 = t2
  t3 = t3
  p1 = p1
  p2 = p2
  f1 = f1
  f2 = f2
  f3 = f3
  f4 = f4
  f5 = f5
  a = a
  host = host
  Thread <- MCThread
  Process <- MCProcess
  ProcOf <- MCProcOf
  Key <- MCKey
  Host = host
  Fd <- MCFd
  Calls <- SafetyCalls
  NoCall = NoCall
  NoFd = NoFd
  NoEntry = NoEntry
  Closed = Closed
INVARIANTS ProcessExclusion HostExcludesSurfaceLocks IInv NoLeak
  LateModeNeverDiffers SomeoneMoves
PROPERTIES ImplementsSpec BoundedCallsReturn
