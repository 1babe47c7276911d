\* Two goroutines start and stop the monitor at the same time.
SPECIFICATION Spec
CONSTANTS
  c1 = c1
  c2 = c2
  s1 = s1
  Callers <- BothCallers
  Lifecycle <- BothCallers
  Subs <- OneSub
  MaxRuns = 2
  MaxClock = 0
INVARIANT
  NoDoubleClose
