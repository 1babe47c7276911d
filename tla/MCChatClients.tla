--------------------------- MODULE MCChatClients ---------------------------
(* A small instance of ChatClients for TLC. *)
EXTENDS ChatClients

CONSTANTS s1, s2

TwoStreams == {s1, s2}
OneStream == {s2}
Either == BOOLEAN

============================================================================
