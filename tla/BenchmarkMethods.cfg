\* Runtimes that exit on SIGTERM, or ignore it, and may die at any other time.
SPECIFICATION Spec
CHECK_DEADLOCK FALSE
INVARIANTS
  TypeOK
  ReturnsClean
PROPERTIES
  BenchmarkReturns
  WithinHandle
