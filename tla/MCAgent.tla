------------------------------ MODULE MCAgent ------------------------------
(* A small instance of Agent for TLC: two sources that own their connection,
   and one that does not. *)
EXTENDS Agent

CONSTANTS a, b, x1, x2, x3

TwoNames == {a, b}
TwoSources == {x1, x2}
ThreeSources == {x1, x2, x3}

============================================================================
