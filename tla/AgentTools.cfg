\* The registry and the tool-calling loop, which may use it from within a tool.
SPECIFICATION Spec
CONSTANTS
  a = a
  b = b
  x1 = x1
  x2 = x2
  x3 = x3
  Names <- TwoNames
  Sources <- ThreeSources
  Owned <- TwoSources
  Reuse = FALSE
  MaxSteps = 2
  MaxCalls = 2
  MaxListed = 2
  MaxUses = 2
  MaxRuns = 1
CHECK_DEADLOCK FALSE
INVARIANTS
  TypeOK
  RegistrySound
  TranscriptIsWhole
PROPERTY
  RunEnds
