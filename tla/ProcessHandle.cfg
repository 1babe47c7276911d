\* Any subprocess, two goroutines that stop it.
SPECIFICATION Spec
CONSTANTS
  t1 = t1
  t2 = t2
  Starter = starter
  Stoppers <- TwoStoppers
  Handshakes <- AnyHandshake
  Lines <- AnyLines
  Obedience <- Either
  MayRefuse = TRUE
  PipeCap = 1
  MaxLines = 2
CHECK_DEADLOCK FALSE
INVARIANTS
  TypeOK
  ProcessSafe
PROPERTIES
  NobodyStuck
  ImplementsHandle
