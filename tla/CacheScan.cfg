\* Two models of two files, pulled and deleted by two callers under a scan.
SPECIFICATION Spec
CONSTANTS
  m1 = m1
  m2 = m2
  f1 = f1
  f2 = f2
  c1 = c1
  c2 = c2
  Models <- TwoModels
  Files <- TwoFiles
  Callers <- TwoCallers
SYMMETRY Symmetry
CHECK_DEADLOCK FALSE
INVARIANTS
  TypeOK
  RestingModelsAreRight
PROPERTY
  SuccessMeansDone
