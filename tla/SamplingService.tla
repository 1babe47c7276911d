-------------------------- MODULE SamplingService --------------------------
(***************************************************************************)
(* What a monitor promises to the goroutine that owns it, without threads, *)
(* channels or locks: sampling is off, on, or ending, and the newest       *)
(* published sample never becomes an older one.  Monitor.tla implements    *)
(* this specification when a single goroutine starts and stops it.         *)
(***************************************************************************)
EXTENDS Naturals

VARIABLES
  phase,    \* "off", "on", or "ending" (asked to stop, still winding down)
  newest    \* time stamp of the newest sample published so far

vars == <<phase, newest>>

Init == phase = "off" /\ newest = 0

Begin == phase = "off" /\ phase' = "on" /\ UNCHANGED newest

\* Winding down may still publish: a sample may be on its way.
Publish == /\ phase \in {"on", "ending"}
           /\ newest' \in Nat /\ newest' >= newest
           /\ UNCHANGED phase

AskToEnd == phase = "on" /\ phase' = "ending" /\ UNCHANGED newest

End == phase = "ending" /\ phase' = "off" /\ UNCHANGED newest

Next == Begin \/ Publish \/ AskToEnd \/ End

\* Once asked to end, sampling does end.
Spec == Init /\ [][Next]_vars /\ WF_vars(End)

============================================================================
