------------------------------ MODULE Process ------------------------------
(***************************************************************************)
(* runtime/process.go: starting a local runtime subprocess, waiting for    *)
(* its stdout handshake, and stopping it.                                  *)
(*                                                                         *)
(* Five kinds of actors: the caller of StartProcess (Starter), the callers *)
(* of Stop on the handle it returns (Stoppers), the goroutines scanStdout  *)
(* and wait, and the subprocess itself, which is not part of src/ and is   *)
(* modelled from what process.go and its tests say of it.  A line of       *)
(* output is abstracted to how scanStdout treats it.                       *)
(***************************************************************************)
EXTENDS Naturals, Sequences

CONSTANTS
  Starter,      \* the goroutine that calls StartProcess
  Stoppers,     \* goroutines that call Stop on the returned handle
  Handshakes,   \* first handshakes the subprocess may print: "ready", "malformed"
  Lines,        \* other lines it may print: "text", "long" (over 1 MiB)
  Obedience,    \* whether the subprocess may exit on SIGTERM: a set of Booleans
  MayRefuse,    \* the operating system may refuse to deliver a signal
  PipeCap,      \* bound: lines the stdout pipe holds
  MaxLines      \* bound: lines the subprocess prints besides the handshake

ASSUME KindsAssumption == Handshakes \subseteq {"ready", "malformed"} /\ Lines \subseteq {"text", "long"}
ASSUME BoundsAssumption == PipeCap \in Nat \ {0} /\ MaxLines \in Nat
ASSUME ActorsAssumption ==
  Starter \notin Stoppers /\ Obedience \subseteq BOOLEAN /\ MayRefuse \in BOOLEAN

Callers == {Starter} \cup Stoppers

VARIABLES
  child,        \* the subprocess: "none", "running", "zombie", "reaped"
  obeys,        \* it exits on SIGTERM
  signals,      \* signals delivered to it
  printed,      \* it has printed its handshake
  written,      \* how many other lines it has printed
  pipe,         \* what stands in the stdout pipe
  pipeClosed,   \* our end of the pipe is closed (by cmd.Wait)
  scan,         \* goroutine scanStdout: "none", "scan", "send", "dead"
  buf,          \* lines in the scanner's buffer
  sawReady,     \* sawReady, line 209
  readyCh,      \* readyCh holds a ReadyInfo (capacity 1)
  scanErrCh,    \* scanErrCh holds an error (capacity 1)
  forwarded,    \* lines passed on to cfg.Stdout
  waiter,       \* goroutine wait: "none", "wait", "gotErr", "setErr", "dead"
  err,          \* p.err has the exit status
  done,         \* p.done is closed
  expired,      \* callers whose context is done (readyCtx for the Starter)
  pc            \* where each caller is

childVars == <<child, obeys, signals, printed, written>>
scanVars == <<scan, buf, sawReady, forwarded>>
waitVars == <<waiter, err, done>>
chanVars == <<readyCh, scanErrCh>>
vars == <<childVars, pipe, pipeClosed, scanVars, chanVars, waitVars, expired, pc>>

StarterPC ==
  {"idle", "select", "ready", "failed", "check", "signal", "wait", "killed", "abandoned"}
StopperPC == {"idle", "signal", "wait", "killed", "returned", "refused"}

\* The two result channels hold at most the one value they have room for, the
\* pipe never overflows, and scanStdout passes on no more than was printed.
TypeOK ==
  /\ child \in {"none", "running", "zombie", "reaped"}
  /\ obeys \in Obedience /\ signals \subseteq {"TERM", "KILL"}
  /\ printed \in BOOLEAN /\ written \in 0 .. MaxLines
  /\ pipe \in Seq(Handshakes \cup Lines) /\ Len(pipe) <= PipeCap
  /\ pipeClosed \in BOOLEAN
  /\ scan \in {"none", "scan", "send", "dead"}
  /\ buf \in Seq(Handshakes \cup Lines)
  /\ sawReady \in BOOLEAN /\ readyCh \in BOOLEAN /\ scanErrCh \in BOOLEAN
  /\ forwarded \in 0 .. MaxLines
  /\ waiter \in {"none", "wait", "gotErr", "setErr", "dead"}
  /\ err \in BOOLEAN /\ done \in BOOLEAN
  /\ expired \subseteq Callers
  /\ pc \in [Callers -> StarterPC \cup StopperPC]
  /\ pc[Starter] \in StarterPC /\ \A t \in Stoppers : pc[t] \in StopperPC

Init ==
  /\ child = "none" /\ obeys \in Obedience /\ signals = {} /\ printed = FALSE
  /\ written = 0 /\ pipe = <<>> /\ pipeClosed = FALSE
  /\ scan = "none" /\ buf = <<>> /\ sawReady = FALSE /\ forwarded = 0
  /\ readyCh = FALSE /\ scanErrCh = FALSE
  /\ waiter = "none" /\ err = FALSE /\ done = FALSE
  /\ expired = {}
  /\ pc = [t \in Callers |-> "idle"]

Goto(t, to) == pc' = [pc EXCEPT ![t] = to]

----------------------------------------------------------------------------
(* The subprocess.                                                         *)

Emit(line) == Len(pipe) < PipeCap /\ pipe' = Append(pipe, line)

\* The handshake is printed "immediately before it binds its listen port".
ChildHandshake(line) ==
  /\ child = "running" /\ ~ printed /\ Emit(line)
  /\ printed' = TRUE
  /\ UNCHANGED <<child, obeys, signals, written, pipeClosed, scanVars, chanVars,
                 waitVars, expired, pc>>

ChildPrint(line) ==
  /\ child = "running" /\ written < MaxLines /\ Emit(line)
  /\ written' = written + 1
  /\ UNCHANGED <<child, obeys, signals, printed, pipeClosed, scanVars, chanVars,
                 waitVars, expired, pc>>

Gone == child' = "zombie"

ChildExit ==
  /\ child = "running" /\ Gone
  /\ UNCHANGED <<obeys, signals, printed, written, pipe, pipeClosed, scanVars, chanVars,
                 waitVars, expired, pc>>

ChildSignaled ==
  /\ child = "running" /\ Gone
  /\ "KILL" \in signals \/ ("TERM" \in signals /\ obeys)
  /\ UNCHANGED <<obeys, signals, printed, written, pipe, pipeClosed, scanVars, chanVars,
                 waitVars, expired, pc>>

----------------------------------------------------------------------------
(* scanStdout, lines 205-231.                                              *)

\* The scanner reads what the pipe holds.
ScanRead ==
  /\ scan = "scan" /\ buf = <<>> /\ ~ pipeClosed /\ pipe # <<>>
  /\ buf' = pipe /\ pipe' = <<>>
  /\ UNCHANGED <<childVars, pipeClosed, scan, sawReady, forwarded, chanVars, waitVars,
                 expired, pc>>

\* Lines 212-222: the first well-formed handshake.
ScanReady ==
  /\ scan = "scan" /\ buf # <<>> /\ ~ sawReady /\ Head(buf) = "ready"
  /\ ~ readyCh
  /\ buf' = Tail(buf) /\ sawReady' = TRUE /\ readyCh' = TRUE
  /\ UNCHANGED <<childVars, pipe, pipeClosed, scan, forwarded, scanErrCh, waitVars,
                 expired, pc>>

\* Lines 215-217 and 228-230: a malformed handshake, a line longer than the
\* scanner's buffer, or a pipe closed under the scanner.
ScanFails ==
  /\ scan = "scan"
  /\ \/ buf # <<>> /\ Head(buf) = "malformed" /\ ~ sawReady
     \/ buf # <<>> /\ Head(buf) = "long"
     \/ buf = <<>> /\ pipeClosed
  /\ scan' = "send"
  /\ UNCHANGED <<childVars, pipe, pipeClosed, buf, sawReady, forwarded, chanVars,
                 waitVars, expired, pc>>

\* A bug: the error channel has no buffer.
ScanSendUnbuffered ==
  /\ scan = "send" /\ pc[Starter] = "select"
  /\ scanErrCh' = TRUE /\ scan' = "dead"
  /\ UNCHANGED <<childVars, pipe, pipeClosed, buf, sawReady, forwarded, readyCh,
                 waitVars, expired, pc>>

\* A bug: the goroutine goes on after its error.
ScanSendGoesOn ==
  /\ scan = "send" /\ ~ scanErrCh
  /\ scanErrCh' = TRUE /\ scan' = "scan"
  /\ UNCHANGED <<childVars, pipe, pipeClosed, buf, sawReady, forwarded, readyCh,
                 waitVars, expired, pc>>

\* errCh <- ..., into a channel of capacity one; the goroutine then returns.
ScanSend ==
  /\ scan = "send" /\ ~ scanErrCh
  /\ scanErrCh' = TRUE /\ scan' = "dead"
  /\ UNCHANGED <<childVars, pipe, pipeClosed, buf, sawReady, forwarded, readyCh,
                 waitVars, expired, pc>>

\* A bug: the line passed on is not consumed.
ScanForwardAgain ==
  /\ scan = "scan" /\ buf # <<>> /\ Head(buf) = "text"
  /\ forwarded' = forwarded + 1
  /\ UNCHANGED <<childVars, pipe, pipeClosed, scan, buf, sawReady, chanVars, waitVars,
                 expired, pc>>

\* Lines 224-226: any other line is passed on.
ScanForward ==
  /\ scan = "scan" /\ buf # <<>> /\ Head(buf) = "text"
  /\ buf' = Tail(buf) /\ forwarded' = forwarded + 1
  /\ UNCHANGED <<childVars, pipe, pipeClosed, scan, sawReady, chanVars, waitVars,
                 expired, pc>>

\* The subprocess is gone and everything it wrote has been read.
ScanEOF ==
  /\ scan = "scan" /\ buf = <<>> /\ ~ pipeClosed /\ pipe = <<>>
  /\ child \in {"zombie", "reaped"}
  /\ scan' = "dead"
  /\ UNCHANGED <<childVars, pipe, pipeClosed, buf, sawReady, forwarded, chanVars,
                 waitVars, expired, pc>>

ScanStep == ScanRead \/ ScanReady \/ ScanFails \/ ScanSend \/ ScanForward \/ ScanEOF

----------------------------------------------------------------------------
(* wait, lines 233-239.                                                    *)

\* cmd.Wait reaps the subprocess and closes our end of the pipe.
WaitReap ==
  /\ waiter = "wait" /\ child = "zombie"
  /\ child' = "reaped" /\ pipeClosed' = TRUE
  /\ waiter' = "gotErr"
  /\ UNCHANGED <<obeys, signals, printed, written, pipe, scanVars, chanVars, err,
                 done, expired, pc>>

WaitSetErr ==
  /\ waiter = "gotErr"
  /\ err' = TRUE /\ waiter' = "setErr"
  /\ UNCHANGED <<childVars, pipe, pipeClosed, scanVars, chanVars, done, expired, pc>>

WaitClose ==
  /\ waiter = "setErr"
  /\ done' = TRUE /\ waiter' = "dead"
  /\ UNCHANGED <<childVars, pipe, pipeClosed, scanVars, chanVars, err, expired, pc>>

WaitStep == WaitReap \/ WaitSetErr \/ WaitClose

----------------------------------------------------------------------------
(* StartProcess, lines 151-203.                                            *)

\* Lines 152-171: no model, no pipe, or the command cannot be started.
StartFails ==
  /\ pc[Starter] = "idle"
  /\ Goto(Starter, "failed")
  /\ UNCHANGED <<childVars, pipe, pipeClosed, scanVars, chanVars, waitVars, expired>>

\* Lines 169-181.
StartLaunch ==
  /\ pc[Starter] = "idle"
  /\ child' = "running" /\ scan' = "scan" /\ waiter' = "wait"
  /\ Goto(Starter, "select")
  /\ UNCHANGED <<obeys, signals, printed, written, pipe, pipeClosed, buf, sawReady,
                 forwarded, chanVars, err, done, expired>>

\* Lines 184-190.
SelectReady ==
  /\ pc[Starter] = "select" /\ readyCh
  /\ readyCh' = FALSE
  /\ Goto(Starter, "ready")
  /\ UNCHANGED <<childVars, pipe, pipeClosed, scanVars, scanErrCh, waitVars, expired>>

\* A bug: a failed scan returns the error without stopping the subprocess.
SelectScanErrLeaks ==
  /\ pc[Starter] = "select" /\ scanErrCh
  /\ scanErrCh' = FALSE
  /\ Goto(Starter, "failed")
  /\ UNCHANGED <<childVars, pipe, pipeClosed, scanVars, readyCh, waitVars, expired>>

\* Lines 191-193, before Stop.
SelectScanErr ==
  /\ pc[Starter] = "select" /\ scanErrCh
  /\ scanErrCh' = FALSE
  /\ Goto(Starter, "check")
  /\ UNCHANGED <<childVars, pipe, pipeClosed, scanVars, readyCh, waitVars, expired>>

\* Lines 194-198.
SelectDone ==
  /\ pc[Starter] = "select" /\ done
  /\ Goto(Starter, "failed")
  /\ UNCHANGED <<childVars, pipe, pipeClosed, scanVars, chanVars, waitVars, expired>>

\* Lines 199-201, before Stop.
SelectTimeout ==
  /\ pc[Starter] = "select" /\ Starter \in expired
  /\ Goto(Starter, "check")
  /\ UNCHANGED <<childVars, pipe, pipeClosed, scanVars, chanVars, waitVars, expired>>

SelectStep == SelectReady \/ SelectScanErr \/ SelectDone \/ SelectTimeout

----------------------------------------------------------------------------
(* Stop, lines 281-300, called by the Starter with a context that is never *)
(* done and by the Stoppers with one that will be.                         *)

Returned(t) == IF t = Starter THEN "failed" ELSE "returned"
Refused(t) == IF t = Starter THEN "abandoned" ELSE "refused"

\* Lines 282-286.
StopCheck(t) ==
  /\ IF t = Starter THEN pc[t] = "check"
     ELSE pc[t] \in {"idle", "returned", "refused"} /\ pc[Starter] = "ready"
  /\ Goto(t, IF done THEN Returned(t) ELSE "signal")
  /\ expired' = IF t = Starter THEN expired ELSE expired \ {t}
  /\ UNCHANGED <<childVars, pipe, pipeClosed, scanVars, chanVars, waitVars>>

\* Lines 288-290: a reaped subprocess gets no signal (os.ErrProcessDone).
StopSignal(t) ==
  /\ pc[t] = "signal"
  /\ signals' = IF child = "reaped" THEN signals ELSE signals \cup {"TERM"}
  /\ Goto(t, "wait")
  /\ UNCHANGED <<child, obeys, printed, written, pipe, pipeClosed, scanVars,
                 chanVars, waitVars, expired>>

\* A bug: Stop does not look at the error of terminate, and returns as if it had
\* stopped the subprocess.
StopRefusedSilently(t) ==
  /\ MayRefuse /\ pc[t] = "signal" /\ child # "reaped"
  /\ Goto(t, Returned(t))
  /\ UNCHANGED <<childVars, pipe, pipeClosed, scanVars, chanVars, waitVars, expired>>

\* Lines 288-290: the signal is refused (EPERM, or access denied on Windows), and
\* Stop returns that error at once.  A Stopper sees it; StartProcess drops it, line
\* 192 or 200, and returns its own.
StopRefused(t) ==
  /\ MayRefuse /\ pc[t] = "signal" /\ child # "reaped"
  /\ Goto(t, Refused(t))
  /\ UNCHANGED <<childVars, pipe, pipeClosed, scanVars, chanVars, waitVars, expired>>

\* A bug: when its context is done, Stop waits on without killing.
StopKillNever(t) ==
  /\ pc[t] = "wait" /\ t \in Stoppers /\ t \in expired
  /\ Goto(t, "killed")
  /\ UNCHANGED <<childVars, pipe, pipeClosed, scanVars, chanVars, waitVars, expired>>

\* Lines 295-296; the Starter's context.Background() is never done.  Kill is taken
\* to succeed where terminate did: its error is not looked at.
StopKill(t) ==
  /\ pc[t] = "wait" /\ t \in Stoppers /\ t \in expired
  /\ signals' = IF child = "reaped" THEN signals ELSE signals \cup {"KILL"}
  /\ Goto(t, "killed")
  /\ UNCHANGED <<child, obeys, printed, written, pipe, pipeClosed, scanVars,
                 chanVars, waitVars, expired>>

\* Lines 293-294 and 297-298: <-p.done.
StopReturn(t) ==
  /\ pc[t] \in {"wait", "killed"} /\ done
  /\ Goto(t, Returned(t))
  /\ UNCHANGED <<childVars, pipe, pipeClosed, scanVars, chanVars, waitVars, expired>>

\* A caller already inside Stop goes on.
StopStep(t) == StopSignal(t) \/ StopRefused(t) \/ StopKill(t) \/ StopReturn(t)

\* A context reaches its deadline or is canceled.
Expire(t) ==
  /\ t \notin expired /\ pc[t] \in {"select", "signal", "wait"}
  /\ expired' = expired \cup {t}
  /\ UNCHANGED <<childVars, pipe, pipeClosed, scanVars, chanVars, waitVars, pc>>

----------------------------------------------------------------------------
Next ==
  \/ \E line \in Handshakes : ChildHandshake(line)
  \/ \E line \in Lines : ChildPrint(line)
  \/ ChildExit \/ ChildSignaled
  \/ ScanStep \/ WaitStep
  \/ StartFails \/ StartLaunch \/ SelectStep
  \/ \E t \in Callers : StopCheck(t) \/ StopStep(t) \/ Expire(t)

(***************************************************************************)
(* Goroutines run, a signaled subprocess dies and every context with a     *)
(* deadline expires.  Nothing makes the subprocess print or exit, and      *)
(* nothing makes anybody call Stop.                                        *)
(***************************************************************************)
Fairness ==
  /\ WF_vars(ChildSignaled) /\ WF_vars(ScanStep) /\ WF_vars(WaitStep)
  /\ WF_vars(SelectStep) /\ WF_vars(StopCheck(Starter))
  /\ \A t \in Callers : WF_vars(StopStep(t)) /\ WF_vars(Expire(t))

Spec == Init /\ [][Next]_vars /\ Fairness

----------------------------------------------------------------------------
\* "waits for it to exit": a Stop that returned nil or its context's error leaves no
\* subprocess, running or unreaped, and a StartProcess that returned an error leaves
\* none, unless a Stop that was refused its signal cut it short.
NoOrphan ==
  /\ pc[Starter] = "failed" => child \in {"none", "reaped"}
  /\ \A t \in Stoppers : pc[t] = "returned" => child = "reaped"

\* Whoever sees p.done closed (Wait, the third case of StartProcess) finds
\* the exit status in p.err.
DoneMeansErr == done => err /\ child = "reaped"

\* "SIGTERM, then SIGKILL if it doesn't exit before ctx is done": no caller
\* kills a subprocess that it, or another caller, has not asked to exit.
TermBeforeKill == "KILL" \in signals => "TERM" \in signals

\* Whoever may wait for p.done finds it closed, or goroutine wait on its way to
\* close it, if the subprocess exits; and who waits in Stop has told the subprocess
\* to, with SIGKILL from the end of its context on.
DoneIsComing ==
  /\ (\E t \in Callers : pc[t] \in {"select", "signal", "wait", "killed"}) =>
       \/ done
       \/ waiter \in {"gotErr", "setErr"}
       \/ waiter = "wait" /\ child \in {"running", "zombie"}
  /\ (\E t \in Callers : pc[t] = "wait") => "TERM" \in signals \/ child = "reaped"
  /\ (\E t \in Callers : pc[t] = "killed") => "KILL" \in signals \/ child = "reaped"

\* scanStdout never waits for somebody to read from its channels, whatever
\* StartProcess does meanwhile.
SendsNeverBlock ==
  /\ scan = "send" => ~ scanErrCh
  /\ scan = "scan" /\ ~ sawReady => ~ readyCh

\* No goroutine of this file waits for an event that is not on its way.
WaitsAreAnswered == DoneIsComing /\ SendsNeverBlock

\* StartProcess blocks at most until its readyCtx is done, "killing the
\* process".
StartReturns == (pc[Starter] = "select") ~> (pc[Starter] \in {"ready", "failed", "abandoned"})

\* It does, if the subprocess exits on SIGTERM.
StartReturnsIfObeyed ==
  (pc[Starter] = "select" /\ obeys) ~> (pc[Starter] \in {"ready", "failed", "abandoned"})

\* scanStdout does not outlive the subprocess: it is never left blocked on a
\* channel StartProcess no longer reads.
ScannerEnds == (child = "reaped") ~> (scan = "dead")

\* A line the scanner gave up on stays in its buffer.
GaveUp == buf # <<>> /\ Head(buf) \in {"malformed", "long"}

\* The subprocess is never wedged on a full stdout pipe: scanStdout keeps
\* reading as long as the subprocess runs, unless it met a line it gave up on.
OutputDrained ==
  (Len(pipe) = PipeCap) ~> (Len(pipe) < PipeCap \/ child # "running" \/ GaveUp)

\* cfg.Stdout receives all the output: when scanStdout ends at the end of the
\* pipe, every line the subprocess printed was passed on.  (If cmd.Wait closes
\* the pipe first, what was not read yet is lost.)
OutputComplete == scan = "dead" /\ ~ GaveUp /\ ~ pipeClosed => forwarded = written

\* What callers of StartProcess and Stop, readers of p.err and of cfg.Stdout,
\* and the subprocess may rely on, whoever does what first.
ProcessSafe ==
  NoOrphan /\ DoneMeansErr /\ TermBeforeKill /\ OutputComplete /\ WaitsAreAnswered

\* Neither StartProcess, nor scanStdout, nor a subprocess that prints is left
\* waiting for one of the others.
NobodyStuck == StartReturnsIfObeyed /\ ScannerEnds /\ OutputDrained

\* The handle as its callers see it.
Handle == INSTANCE RuntimeHandle WITH
  start <- CASE pc[Starter] = "idle" -> "idle"
             [] pc[Starter] \in {"ready", "failed", "abandoned"} -> pc[Starter]
             [] OTHER -> "starting",
  alive <- child \in {"running", "zombie"},
  stop <- [t \in Stoppers |-> IF pc[t] \in {"idle", "returned", "refused"} THEN pc[t]
                             ELSE "stopping"]

\* StartProcess and Stop keep the promises of RuntimeHandle, liveness
\* included, whether or not the subprocess obeys SIGTERM.
ImplementsHandle == Handle!Spec

============================================================================
