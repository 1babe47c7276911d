------------------------------ MODULE TurnLog ------------------------------
(***************************************************************************)
(* What a Conversation promises: a log of turns that only grows, each turn *)
(* (a prompt with its reply) in it at most once.                           *)
(***************************************************************************)
EXTENDS Sequences

CONSTANT Turns

VARIABLE log

Init == log = <<>>

Add(t) == /\ \A i \in DOMAIN log : log[i] # t
          /\ log' = Append(log, t)

Next == \E t \in Turns : Add(t)

Spec == Init /\ [][Next]_log

============================================================================
