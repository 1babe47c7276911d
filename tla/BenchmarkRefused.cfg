\* Runtimes that the operating system may refuse to signal.
SPECIFICATION Spec
CHECK_DEADLOCK FALSE
INVARIANT
  NeverTwoInstances
