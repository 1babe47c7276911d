----------------------------- MODULE MCProcess -----------------------------
(* Small instances of Process for TLC. *)
EXTENDS Process

CONSTANTS t1, t2

TwoStoppers == {t1, t2}
OneStopper == {t1}
AnyHandshake == {"ready", "malformed"}
AnyLines == {"text", "long"}
NoLines == {}
Either == BOOLEAN
Never == {FALSE}

============================================================================
