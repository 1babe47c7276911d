\* Runtimes that obey either signal, both or none.
SPECIFICATION Spec
CONSTANTS
  Obedience <- AnyRuntime
  MaxSignals = 3
CHECK_DEADLOCK FALSE
INVARIANTS
  TypeOK
  ServeSafe
PROPERTIES
  SignalsHeeded
  WithinHandle
