\* One goroutine starts and stops the monitor; another one reports.
SPECIFICATION Spec
CONSTANTS
  c1 = c1
  c2 = c2
  s1 = s1
  Callers <- BothCallers
  Lifecycle <- Owner
  Subs <- OneSub
  MaxRuns = 2
  MaxClock = 1
INVARIANTS
  TypeOK
  NoDoubleClose
  StopIsSound
PROPERTIES
  InOrder
  StopReturns
  ImplementsService
