\* Every wish and question of a small set, on any amount of memory.
SPECIFICATION Spec
CONSTANTS
  Registry <- SmallRegistry
  Overhead = 3
  DefaultContext = 2
  Tasks <- AllTasks
  Pins <- AllPins
  Shapes <- AllShapes
  Contexts <- AllContexts
  Totals <- AllTotals
  Memories <- AllMemories
CHECK_DEADLOCK FALSE
INVARIANTS
  TypeOK
  HardwareIsRight
  SelectionIsRight
  AdviceIsConsistent
  AdviceIsMonotone
