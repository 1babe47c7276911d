\* A subprocess that ignores SIGTERM.
SPECIFICATION Spec
CONSTANTS
  t1 = t1
  t2 = t2
  Starter = starter
  Stoppers <- OneStopper
  Handshakes <- AnyHandshake
  Lines <- NoLines
  Obedience <- Never
  MayRefuse = FALSE
  PipeCap = 1
  MaxLines = 0
CHECK_DEADLOCK FALSE
PROPERTY
  StartReturns
