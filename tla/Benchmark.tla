----------------------------- MODULE Benchmark -----------------------------
(***************************************************************************)
(* benchmark.go: Benchmark measures a model under two methods, each in a   *)
(* runtime process of its own that runOneMethod starts, uses and stops.    *)
(* What StartProcess and Stop do is abstracted to what RuntimeHandle       *)
(* promises; Stop is called with a context that is never done, so nothing  *)
(* but the subprocess's own exit, or a refused signal, ends it.            *)
(***************************************************************************)
EXTENDS Naturals

Methods == 1 .. 2       \* the default method is measured first

VARIABLES
  pc,           \* where Benchmark is, within the run of one method
  run,          \* that method
  start,        \* StartProcess, per method, as its caller sees it
  child,        \* the subprocess, per method
  termed,       \* the subprocesses that were sent SIGTERM
  stop,         \* the deferred Stop, per method, and how it ended
  resident,     \* what getResidentBytes returned, per method
  timing,       \* timeGeneration's measurement of the default method
  err,          \* runOneMethod is about to return an error
  expired,      \* ctx is done
  obeys         \* whether the subprocesses exit on SIGTERM

vars == <<pc, run, start, child, termed, stop, resident, timing, err, expired, obeys>>

\* Not called yet, or done, of the process of a method.
Idle == [m \in Methods |-> "idle"]

Init ==
  /\ pc = "info" /\ run = 1 /\ start = Idle /\ stop = Idle
  /\ child = [m \in Methods |-> "none"] /\ termed = {}
  /\ resident = [m \in Methods |-> "unmeasured"] /\ timing = "none"
  /\ err = FALSE /\ expired = FALSE /\ obeys \in BOOLEAN

Goto(to) == pc' = to

\* Lines 171-178: no model, or System.Info fails.
Refuse ==
  /\ pc = "info" /\ Goto("failed")
  /\ UNCHANGED <<run, start, child, termed, stop, resident, timing, err, expired, obeys>>

Begin ==
  /\ pc = "info" /\ Goto("launch")
  /\ UNCHANGED <<run, start, child, termed, stop, resident, timing, err, expired, obeys>>

----------------------------------------------------------------------------
(* runOneMethod.                                                           *)

\* Line 136: StartProcess creates the subprocess and waits for it.
Launch ==
  /\ pc = "launch" /\ Goto("starting")
  /\ start' = [start EXCEPT ![run] = "starting"]
  /\ child' = [child EXCEPT ![run] = "alive"]
  /\ UNCHANGED <<run, termed, stop, resident, timing, err, expired, obeys>>

\* Lines 137-139: it could not be created at all.
CannotLaunch ==
  /\ pc = "launch" /\ Goto("failed")
  /\ start' = [start EXCEPT ![run] = "failed"]
  /\ UNCHANGED <<run, child, termed, stop, resident, timing, err, expired, obeys>>

\* The handshake arrived.
Ready ==
  /\ pc = "starting" /\ Goto("measure")
  /\ start' = [start EXCEPT ![run] = "ready"]
  /\ UNCHANGED <<run, child, termed, stop, resident, timing, err, expired, obeys>>

\* StartProcess gives up on the context and stops the subprocess itself.
StartTimesOut ==
  /\ pc = "starting" /\ expired /\ Goto("giveUp")
  /\ termed' = termed \cup {run}
  /\ UNCHANGED <<run, start, child, stop, resident, timing, err, expired, obeys>>

\* StartProcess gives up on a malformed handshake, in the same way.
StartScanFails ==
  /\ pc = "starting" /\ Goto("giveUp")
  /\ termed' = termed \cup (IF child[run] = "alive" THEN {run} ELSE {})
  /\ UNCHANGED <<run, start, child, stop, resident, timing, err, expired, obeys>>

\* The same, but the signal is refused: StartProcess returns its error with the
\* subprocess alive (process.go, lines 192 and 200).
StartAbandoned ==
  /\ pc = "starting" /\ child[run] = "alive" /\ Goto("failed")
  /\ start' = [start EXCEPT ![run] = "abandoned"]
  /\ UNCHANGED <<run, child, termed, stop, resident, timing, err, expired, obeys>>

\* A bug: the error of StartProcess is not looked at.
StartFailsIgnored ==
  /\ pc \in {"starting", "giveUp"} /\ child[run] = "gone" /\ Goto("measure")
  /\ start' = [start EXCEPT ![run] = "failed"]
  /\ UNCHANGED <<run, child, termed, stop, resident, timing, err, expired, obeys>>

\* Lines 137-139: the subprocess is gone before it was ready.
StartFails ==
  /\ pc \in {"starting", "giveUp"} /\ child[run] = "gone" /\ Goto("failed")
  /\ start' = [start EXCEPT ![run] = "failed"]
  /\ UNCHANGED <<run, child, termed, stop, resident, timing, err, expired, obeys>>

\* Lines 142-143 and getResidentBytes: ps finds nothing of a dead process,
\* and may fail in any case.
Measure ==
  /\ pc = "measure"
  /\ \E bytes \in IF child[run] = "alive" THEN {"nil", "bytes"} ELSE {"nil"} :
       resident' = [resident EXCEPT ![run] = bytes]
  /\ Goto(IF run = 1 THEN "generate" ELSE "stop")
  /\ UNCHANGED <<run, start, child, termed, stop, timing, err, expired, obeys>>

\* Lines 145-150: one generation from start to end.
Generate ==
  /\ pc = "generate" /\ child[run] = "alive" /\ ~ expired
  /\ timing' = "measured"
  /\ Goto("stop")
  /\ UNCHANGED <<run, start, child, termed, stop, resident, err, expired, obeys>>

\* A bug: the early return comes before the deferred Stop is in place.
GenerateFailsLeaks ==
  /\ pc = "generate"
  /\ Goto("failed")
  /\ UNCHANGED <<run, start, child, termed, stop, resident, timing, err, expired, obeys>>

\* Lines 147-149 and 151-153.
GenerateFails ==
  /\ pc = "generate"
  /\ err' = TRUE
  /\ Goto("stop")
  /\ UNCHANGED <<run, start, child, termed, stop, resident, timing, expired, obeys>>

\* Line 140: the deferred Stop, with context.Background().
StopBegins ==
  /\ pc = "stop" /\ Goto("stopping")
  /\ stop' = [stop EXCEPT ![run] = "stopping"]
  /\ UNCHANGED <<run, start, child, termed, resident, timing, err, expired, obeys>>

\* A bug: Stop waits for a process it has not asked to exit.
StopSignalsNothing ==
  /\ pc = "stopping" /\ Goto("waiting")
  /\ UNCHANGED <<run, start, child, termed, stop, resident, timing, err, expired, obeys>>

StopSignals ==
  /\ pc = "stopping" /\ Goto("waiting")
  /\ termed' = termed \cup (IF child[run] = "alive" THEN {run} ELSE {})
  /\ UNCHANGED <<run, start, child, stop, resident, timing, err, expired, obeys>>

\* runOneMethod returns after Stop, and Benchmark goes on (lines 180-200).
Leave(stopped) ==
  /\ stop' = [stop EXCEPT ![run] = stopped]
  /\ IF err THEN Goto("failed") /\ UNCHANGED run
     ELSE IF run = 1 THEN Goto("launch") /\ run' = 2
     ELSE Goto("result") /\ UNCHANGED run
  /\ UNCHANGED <<start, child, termed, resident, timing, err, expired, obeys>>

\* A bug: runOneMethod does not wait for Stop.
StopReturnsEarly == pc = "waiting" /\ Leave("returned")

\* The subprocess is gone.
StopReturns == pc = "waiting" /\ child[run] = "gone" /\ Leave("returned")

\* The signal is refused; line 140 drops the error, so Benchmark goes on just the
\* same.
StopRefused == pc = "stopping" /\ child[run] = "alive" /\ Leave("refused")

----------------------------------------------------------------------------
(* The subprocesses and the clock.                                         *)

Die(m) ==
  /\ child[m] = "alive"
  /\ child' = [child EXCEPT ![m] = "gone"]
  /\ UNCHANGED <<pc, run, start, termed, stop, resident, timing, err, expired, obeys>>

DieOfTerm(m) == obeys /\ m \in termed /\ Die(m)

Expire ==
  /\ ~ expired /\ expired' = TRUE
  /\ UNCHANGED <<pc, run, start, child, termed, stop, resident, timing, err, obeys>>

Step == \/ Refuse \/ Begin \/ Launch \/ CannotLaunch \/ StartTimesOut \/ StartFails
        \/ Measure \/ GenerateFails \/ StopBegins \/ StopSignals \/ StopReturns \/ StopRefused

Next == \/ Step \/ Ready \/ StartScanFails \/ StartAbandoned \/ Generate
        \/ \E m \in Methods : Die(m)
        \/ Expire

\* Benchmark goes on, its context has a deadline, and a signaled subprocess
\* dies, unless it is one that does not.
\* A runtime need not become ready, and a generation need not succeed: the
\* HTTP client's timeout ends it if nothing else does.
Fairness ==
  /\ WF_vars(Step) /\ WF_vars(Expire)
  /\ \A m \in Methods : WF_vars(DieOfTerm(m))

Spec == Init /\ [][Next]_vars /\ Fairness

----------------------------------------------------------------------------
Returned == pc \in {"failed", "result"}

\* A resident size is only ever reported of a method that was ready.
TypeOK ==
  /\ run \in Methods /\ termed \subseteq Methods
  /\ start \in [Methods -> {"idle", "starting", "ready", "failed", "abandoned"}]
  /\ child \in [Methods -> {"none", "alive", "gone"}]
  /\ stop \in [Methods -> {"idle", "stopping", "returned", "refused"}]
  /\ resident \in [Methods -> {"unmeasured", "nil", "bytes"}]
  /\ timing \in {"none", "measured"} /\ err \in BOOLEAN
  /\ expired \in BOOLEAN /\ obeys \in BOOLEAN
  /\ \A m \in Methods : resident[m] # "unmeasured" => start[m] = "ready"

\* "never runs two model instances concurrently", lines 132-133, and "fully stops
\* each one before starting the next", lines 164-165.
NeverTwoInstances == ~ \E m, n \in Methods : m # n /\ child[m] = "alive" /\ child[n] = "alive"

\* The operating system refused to signal the process of method m.
SignalRefused(m) == stop[m] = "refused" \/ start[m] = "abandoned"

\* What does hold: only a first process that could not be signaled runs beside the
\* second.
OneAtATime == NeverTwoInstances \/ SignalRefused(1)

\* However Benchmark returns, it leaves no subprocess behind but one it could not
\* signal.
NothingLeftRunning == Returned => \A m \in Methods : child[m] = "alive" => SignalRefused(m)

\* A result is the whole of it: both methods were ready, and the default one
\* was timed.
ResultIsComplete ==
  pc = "result" => timing = "measured" /\ \A m \in Methods : start[m] = "ready"

\* As long as the runtimes can be signaled never two of them run at once, and
\* whatever fails on the way, none is left; a half result never is.
ReturnsClean == OneAtATime /\ NothingLeftRunning /\ ResultIsComplete

\* Benchmark returns, though no Stop it makes has a deadline, as long as the
\* subprocesses obey SIGTERM.
BenchmarkReturns == obeys => <> Returned

\* Each method's process as StartProcess and Stop present it.
Default == INSTANCE RuntimeHandle WITH
  Stoppers <- {"deferred"}, start <- start[1], alive <- child[1] = "alive",
  stop <- [t \in {"deferred"} |-> stop[1]]

Optimized == INSTANCE RuntimeHandle WITH
  Stoppers <- {"deferred"}, start <- start[2], alive <- child[2] = "alive",
  stop <- [t \in {"deferred"} |-> stop[2]]

\* Of each process, Benchmark sees nothing that RuntimeHandle, which
\* Process.tla implements, does not promise.
WithinHandle == Default!Safety /\ Optimized!Safety

============================================================================
