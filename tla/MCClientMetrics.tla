-------------------------- MODULE MCClientMetrics --------------------------
(* A small instance of ClientMetrics for TLC. *)
EXTENDS ClientMetrics, TLC

CONSTANTS m1, m2, g1, g2

TwoMonitors == {m1, m2}
TwoRequesters == {g1, g2}

Interchangeable == Permutations(TwoMonitors) \cup Permutations(TwoRequesters)

============================================================================
