----------------------------- MODULE MCPlanner -----------------------------
(* A small instance of Planner for TLC.  The registry has a curated model, *)
(* an uncurated twin of it that comes first, a smaller uncurated one, one  *)
(* with more layers than parameters, and an unsupported one that would be  *)
(* the smallest.  The shapes have one, two or no layers, and a parameter   *)
(* count that is odd, even or derived from the dimensions.                 *)
EXTENDS Planner

Shape(layers, headDim, params) ==
  [layers |-> layers, kvHeads |-> 1, headDim |-> headDim, hidden |-> 1, params |-> params]

Model(name, arch, tasks, supported, recommended) ==
  [name |-> name, arch |-> arch, tasks |-> tasks, supported |-> supported,
   recommended |-> recommended]

SmallRegistry ==
  << Model("twin", Shape(2, 1, 8), {"chat", "agent"}, TRUE, FALSE),
     Model("curated", Shape(2, 1, 8), {"chat", "agent"}, TRUE, TRUE),
     Model("small", Shape(1, 1, 6), {"chat", "coding"}, TRUE, FALSE),
     Model("wide", Shape(4, 1, 4), {"agent"}, TRUE, FALSE),
     Model("old", Shape(1, 1, 1), {"chat", "vision"}, FALSE, TRUE) >>

AllTasks == {"", "chat", "coding", "agent", "vision"}
AllPins == {"curated", "old", "unheard-of"}
AllShapes == {Shape(l, 2, p) : l \in 0 .. 2, p \in {0, 3, 8}}
AllContexts == {0, 1, 4}
AllTotals == {0, 9, 24, 120}
AllMemories == (0 .. 25) \cup {4 * i : i \in 7 .. 30}

============================================================================
