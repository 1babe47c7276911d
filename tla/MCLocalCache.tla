--------------------------- MODULE MCLocalCache ---------------------------
(* A small instance of LocalCache for TLC. *)
EXTENDS LocalCache, TLC

CONSTANTS m1, m2, f1, f2, c1, c2

TwoModels == {m1, m2}
TwoFiles == {f1, f2}
TwoCallers == {c1, c2}

Symmetry ==
  Permutations(TwoModels) \cup Permutations(TwoFiles) \cup Permutations(TwoCallers)

============================================================================
