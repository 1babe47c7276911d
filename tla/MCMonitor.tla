----------------------------- MODULE MCMonitor -----------------------------
(* Small instances of Monitor for TLC. *)
EXTENDS Monitor

CONSTANTS c1, c2, s1

Owner == {c1}
BothCallers == {c1, c2}
OneSub == {s1}

============================================================================
