--------------------------- MODULE RuntimeHandle ---------------------------
(***************************************************************************)
(* What runtime.StartProcess and Process.Stop promise their callers, with  *)
(* no pipe, goroutine, channel or signal: StartProcess ends ready or       *)
(* failed, it fails only when no subprocess is left behind, and Stop       *)
(* returns only when the subprocess is gone.  The exception is a signal    *)
(* the operating system refuses: Stop then returns that error, and         *)
(* StartProcess its own, with the subprocess perhaps alive.                *)
(***************************************************************************)
CONSTANT Stoppers     \* the goroutines that call Stop

VARIABLES
  start,    \* StartProcess: "idle", "starting", "ready", "failed" or "abandoned"
  alive,    \* the subprocess exists
  stop      \* Stop, per caller: "idle", "stopping", "returned" or "refused"

vars == <<start, alive, stop>>

Init == start = "idle" /\ alive = FALSE /\ stop = [t \in Stoppers |-> "idle"]

Launch == start = "idle" /\ start' = "starting" /\ alive' = TRUE /\ UNCHANGED stop

CannotLaunch == start = "idle" /\ start' = "failed" /\ UNCHANGED <<alive, stop>>

BecomeReady == start = "starting" /\ start' = "ready" /\ UNCHANGED <<alive, stop>>

GiveUp == /\ start = "starting" /\ ~ alive
          /\ start' = "failed" /\ UNCHANGED <<alive, stop>>

\* StartProcess returns an error after a Stop that was refused its signal.
Abandon == start = "starting" /\ start' = "abandoned" /\ UNCHANGED <<alive, stop>>

Die == alive /\ alive' = FALSE /\ UNCHANGED <<start, stop>>

CallStop(t) == /\ start = "ready" /\ stop[t] # "stopping"
               /\ stop' = [stop EXCEPT ![t] = "stopping"] /\ UNCHANGED <<start, alive>>

ReturnStop(t) == /\ stop[t] = "stopping" /\ ~ alive
                 /\ stop' = [stop EXCEPT ![t] = "returned"] /\ UNCHANGED <<start, alive>>

\* Stop is refused its signal.
RefuseStop(t) == /\ stop[t] = "stopping"
                 /\ stop' = [stop EXCEPT ![t] = "refused"] /\ UNCHANGED <<start, alive>>

\* Stop finds the subprocess gone already.
StopAtOnce(t) == /\ start = "ready" /\ stop[t] # "stopping" /\ ~ alive
                 /\ stop' = [stop EXCEPT ![t] = "returned"] /\ UNCHANGED <<start, alive>>

Next == \/ Launch \/ CannotLaunch \/ BecomeReady \/ GiveUp \/ Abandon \/ Die
        \/ \E t \in Stoppers :
             CallStop(t) \/ ReturnStop(t) \/ RefuseStop(t) \/ StopAtOnce(t)

Safety == Init /\ [][Next]_vars

\* What that comes to for a caller who looks at the results alone: a StartProcess
\* that failed and a Stop that returned leave no subprocess, for good, unless they
\* were refused the signal, and only a subprocess that was ready is ever stopped.
Promise ==
  /\ start \in {"idle", "failed"} => ~ alive
  /\ \A t \in Stoppers : stop[t] = "returned" => ~ alive
  /\ \A t \in Stoppers : stop[t] # "idle" => start = "ready"

DieFor(t) == stop[t] = "stopping" /\ Die

\* A subprocess that a Stop waits for goes, and that Stop then returns.
Fairness == \A t \in Stoppers : WF_vars(DieFor(t)) /\ WF_vars(ReturnStop(t))

Spec == Init /\ [][Next]_vars /\ Fairness

============================================================================
