------------------------------- MODULE Serve -------------------------------
(***************************************************************************)
(* cmd/vq/serve.go: vq serve starts a runtime, waits for a signal or for   *)
(* the runtime's exit, and stops it.  StartProcess and Stop are abstracted *)
(* to what RuntimeHandle promises.                                         *)
(*                                                                         *)
(* The terminal sends Ctrl+C to vq and to its subprocess, which shares its *)
(* process group; SIGTERM is sent to vq alone.  Until signal.Notify, line  *)
(* 79, a signal ends vq at once.                                           *)
(***************************************************************************)
EXTENDS Naturals

CONSTANTS
  Obedience,    \* the sets of signals the runtime may be obeying
  MaxSignals    \* bound: signals sent by the user

ASSUME ServeAssumption == Obedience \subseteq SUBSET {"INT", "TERM"} /\ MaxSignals \in Nat

VARIABLES
  vq,       \* where vq is, or how it ended
  start,    \* StartProcess, as its caller sees it
  child,    \* the runtime
  obeys,    \* the signals it exits on, SIGKILL aside
  pending,  \* the signals it was sent
  sigCh,    \* the channel holds a signal (capacity 1)
  expired,  \* stopCtx is done
  sent,     \* how many signals the user sent
  ctrlC     \* Ctrl+C was pressed

vars == <<vq, start, child, obeys, pending, sigCh, expired, sent, ctrlC>>

\* "refused" is an exit with status 1, too, on Stop's error that it could not signal
\* the runtime.
Ended == {"exit0", "exit1", "refused", "killed"}
Unnotified == {"flags", "launching", "giveUp", "prompt"}

TypeOK ==
  /\ vq \in Unnotified \cup Ended \cup {"serving", "asking", "stopping", "killing"}
  /\ start \in {"idle", "starting", "ready", "failed", "abandoned"}
  /\ child \in {"none", "alive", "gone"} /\ (child = "none" => pending = {})
  /\ obeys \in Obedience /\ pending \subseteq {"INT", "TERM", "KILL"}
  /\ sigCh \in BOOLEAN /\ expired \in BOOLEAN /\ ctrlC \in BOOLEAN
  /\ sent \in 0 .. MaxSignals
  /\ sigCh => vq \notin Unnotified

Init ==
  /\ vq = "flags" /\ start = "idle" /\ child = "none" /\ obeys \in Obedience
  /\ pending = {} /\ sigCh = FALSE /\ expired = FALSE /\ sent = 0 /\ ctrlC = FALSE

Alive == child = "alive"

\* A signal for the runtime; a process that is gone gets none.
Send(signal) == pending' = IF Alive THEN pending \cup {signal} ELSE pending

----------------------------------------------------------------------------
(* runServe and launchRuntime.                                             *)

\* Lines 25-31 and 35-55: bad flags, or no --model: vq only reports.
Report ==
  /\ vq = "flags" /\ vq' \in {"exit0", "exit1"}
  /\ UNCHANGED <<start, child, obeys, pending, sigCh, expired, sent, ctrlC>>

\* Lines 58-70.
Launch ==
  /\ vq = "flags" /\ vq' = "launching" /\ start' = "starting" /\ child' = "alive"
  /\ UNCHANGED <<obeys, pending, sigCh, expired, sent, ctrlC>>

CannotLaunch ==
  /\ vq = "flags" /\ vq' = "exit1" /\ start' = "failed"
  /\ UNCHANGED <<child, obeys, pending, sigCh, expired, sent, ctrlC>>

\* The handshake arrived, and "Press Ctrl+C to stop." is printed, line 76.
Ready ==
  /\ vq = "launching" /\ vq' = "prompt" /\ start' = "ready"
  /\ UNCHANGED <<child, obeys, pending, sigCh, expired, sent, ctrlC>>

\* StartProcess stops the runtime, with a context that is never done, after a
\* malformed handshake or five minutes.
GiveUp ==
  /\ vq = "launching" /\ vq' = "giveUp" /\ Send("TERM")
  /\ UNCHANGED <<start, child, obeys, sigCh, expired, sent, ctrlC>>

\* The same, but the signal to the runtime is refused: StartProcess returns its error
\* with the runtime alive, lines 71-73.
Abandon ==
  /\ vq = "launching" /\ Alive /\ vq' = "exit1" /\ start' = "abandoned"
  /\ UNCHANGED <<child, obeys, pending, sigCh, expired, sent, ctrlC>>

\* A bug: vq goes on to serve what did not start.
StartFailsIgnored ==
  /\ vq \in {"launching", "giveUp"} /\ child = "gone"
  /\ vq' = "prompt" /\ start' = "failed"
  /\ UNCHANGED <<child, obeys, pending, sigCh, expired, sent, ctrlC>>

\* Lines 71-73.
StartFails ==
  /\ vq \in {"launching", "giveUp"} /\ child = "gone"
  /\ vq' = "exit1" /\ start' = "failed"
  /\ UNCHANGED <<child, obeys, pending, sigCh, expired, sent, ctrlC>>

\* Lines 78-79.
Notify ==
  /\ vq = "prompt" /\ vq' = "serving"
  /\ UNCHANGED <<start, child, obeys, pending, sigCh, expired, sent, ctrlC>>

\* Lines 82-86: Stop is called.
TakeSignal ==
  /\ vq = "serving" /\ sigCh
  /\ vq' = "asking" /\ sigCh' = FALSE /\ expired' = FALSE
  /\ UNCHANGED <<start, child, obeys, pending, sent, ctrlC>>

\* Stop asks the runtime to exit.
Ask ==
  /\ vq = "asking" /\ vq' = "stopping" /\ Send("TERM")
  /\ UNCHANGED <<start, child, obeys, sigCh, expired, sent, ctrlC>>

\* The signal is refused, and line 86 returns that error.
AskRefused ==
  /\ vq = "asking" /\ Alive /\ vq' = "refused"
  /\ UNCHANGED <<start, child, obeys, pending, sigCh, expired, sent, ctrlC>>

\* Lines 87-88.
RuntimeExited ==
  /\ vq = "serving" /\ child = "gone" /\ vq' = "exit1"
  /\ UNCHANGED <<start, child, obeys, pending, sigCh, expired, sent, ctrlC>>

\* A bug: Stop is given a context without a deadline.
KillNever == FALSE

\* A bug: Stop only asks again.
KillPolitely ==
  /\ vq = "stopping" /\ expired /\ vq' = "killing" /\ Send("TERM")
  /\ UNCHANGED <<start, child, obeys, sigCh, expired, sent, ctrlC>>

\* Stop's context is done after 15 seconds.
Kill ==
  /\ vq = "stopping" /\ expired /\ vq' = "killing" /\ Send("KILL")
  /\ UNCHANGED <<start, child, obeys, sigCh, expired, sent, ctrlC>>

\* A bug: vq does not wait for the runtime it killed.
StoppedEarly ==
  /\ \/ vq = "stopping" /\ child = "gone" /\ vq' = "exit0"
     \/ vq = "killing" /\ vq' = "exit1"
  /\ UNCHANGED <<start, child, obeys, pending, sigCh, expired, sent, ctrlC>>

\* The runtime is gone: Stop returns nil, or its context's error if it had to kill.
Stopped ==
  /\ vq \in {"stopping", "killing"} /\ child = "gone"
  /\ vq' = IF vq = "killing" THEN "exit1" ELSE "exit0"
  /\ UNCHANGED <<start, child, obeys, pending, sigCh, expired, sent, ctrlC>>

----------------------------------------------------------------------------
(* The user, the runtime and time.                                         *)

\* A bug: signals are caught from the start, but looked at only when serving.
DeliverQueued == sigCh' = TRUE /\ UNCHANGED vq

\* A second signal finds the channel full, or the first one gone from it.
Deliver ==
  IF vq \in Unnotified THEN vq' = "killed" /\ UNCHANGED sigCh
  ELSE sigCh' = TRUE /\ UNCHANGED vq

Signal == vq \notin Ended /\ sent < MaxSignals /\ sent' = sent + 1 /\ Deliver

CtrlC ==
  /\ Signal /\ Send("INT") /\ ctrlC' = TRUE
  /\ UNCHANGED <<start, child, obeys, expired>>

Terminate == Signal /\ UNCHANGED <<start, child, obeys, pending, expired, ctrlC>>

\* The runtime fails, or ends for reasons of its own.
RuntimeDies ==
  /\ Alive /\ child' = "gone"
  /\ UNCHANGED <<vq, start, obeys, pending, sigCh, expired, sent, ctrlC>>

RuntimeObeys ==
  /\ Alive /\ pending \cap (obeys \cup {"KILL"}) # {} /\ child' = "gone"
  /\ UNCHANGED <<vq, start, obeys, pending, sigCh, expired, sent, ctrlC>>

Expire ==
  /\ vq \in {"asking", "stopping"} /\ ~ expired /\ expired' = TRUE
  /\ UNCHANGED <<vq, start, child, obeys, pending, sigCh, sent, ctrlC>>

----------------------------------------------------------------------------
\* What vq does once StartProcess has returned.
Step ==
  \/ StartFails \/ Notify \/ TakeSignal \/ Ask \/ AskRefused \/ RuntimeExited
  \/ Kill \/ Stopped

Next ==
  \/ Report \/ Launch \/ CannotLaunch \/ Ready \/ GiveUp \/ Abandon \/ Step
  \/ CtrlC \/ Terminate \/ RuntimeDies \/ RuntimeObeys \/ Expire

\* vq runs, its deadlines pass and the runtime exits on the signals it obeys.
\* Nobody need send a signal, and StartProcess need never return.
Spec ==
  /\ Init /\ [][Next]_vars
  /\ WF_vars(Step) /\ WF_vars(Expire) /\ WF_vars(RuntimeObeys)

----------------------------------------------------------------------------
\* However vq returns from launchRuntime, it leaves no runtime behind but one it was
\* refused a signal for, and then its status is 1; besides, a signal before
\* signal.Notify can end it with the runtime alive.
LeavesNothing == vq \in {"exit0", "exit1"} /\ Alive => vq = "exit1" /\ start = "abandoned"

\* No signal is lost: once one was sent, it waits in the channel, or the runtime is
\* being stopped, or vq has ended.
SignalIsKept == sent > 0 => sigCh \/ vq \in {"asking", "stopping", "killing"} \cup Ended

\* A runtime that vq waits for was sent what vq counts on, and one that outlives
\* a Ctrl+C was sent that as well.
RuntimeIsTold ==
  Alive => /\ vq \in {"giveUp", "stopping"} => "TERM" \in pending
           /\ vq = "killing" => "KILL" \in pending
           /\ ctrlC => "INT" \in pending

\* Whatever signals come and when, the end they are sent for is on its way.
EndIsComing == SignalIsKept /\ RuntimeIsTold

\* Until vq ends, its end is on its way if a signal asked for it, and when it has
\* ended nothing is left that it could stop.
ServeSafe == LeavesNothing /\ EndIsComing

\* A signal vq has taken notice of ends it, whatever the runtime obeys: Stop
\* has a deadline and a second signal does not get in its way.
SignalEndsServe == sigCh ~> vq \in Ended

\* "Press Ctrl+C to stop it": Ctrl+C stops vq at any point, and with it a
\* runtime that exits on SIGINT, also during the five minutes StartProcess may
\* take.  (A runtime that ignores SIGINT is left behind by a Ctrl+C before
\* signal.Notify, and any runtime by a SIGTERM then.)
CtrlCStopsAll ==
  ("INT" \in obeys /\ ctrlC) ~> (vq \in Ended /\ ~ Alive)

\* A signal does what it is sent for, whenever it comes.
SignalsHeeded == SignalEndsServe /\ CtrlCStopsAll

\* The runtime as StartProcess and Stop present it; to a caller that finds it
\* gone, it is as if it had been stopped.
Handle == INSTANCE RuntimeHandle WITH
  Stoppers <- {"main"}, alive <- Alive,
  stop <- [t \in {"main"} |->
            CASE vq \in {"asking", "stopping", "killing"} -> "stopping"
              [] vq = "refused" -> "refused"
              [] vq \in {"exit0", "exit1"} /\ start = "ready" -> "returned"
              [] OTHER -> "idle"]

\* vq sees nothing of the runtime that RuntimeHandle, which Process.tla
\* implements, does not promise, and stops only one that became ready.
WithinHandle == Handle!Safety

============================================================================
