-------------------------- MODULE Launchers_proofs --------------------------
(***************************************************************************)
(* Theorems about the two programs that launch a runtime and rely on what  *)
(* RuntimeHandle promises of it: Serve, for any runtime and any number of  *)
(* signals, and Benchmark.                                                 *)
(***************************************************************************)
EXTENDS Serve, TLAPS

\* Where StartProcess is, by where vq is.
StartInv ==
  /\ vq = "flags" => start = "idle" /\ child = "none"
  /\ vq \in {"launching", "giveUp"} => start = "starting" /\ child # "none"
  /\ vq \in {"prompt", "serving", "asking", "stopping", "killing"} => start = "ready"

ServeInv == TypeOK /\ StartInv /\ LeavesNothing

----------------------------------------------------------------------------
LEMMA InitIsGood == Init => ServeInv
<1> SUFFICES ASSUME Init PROVE ServeInv
  OBVIOUS
<1>1. /\ vq = "flags" /\ start = "idle" /\ child = "none" /\ obeys \in Obedience
      /\ pending = {} /\ sigCh = FALSE /\ expired = FALSE /\ sent = 0 /\ ctrlC = FALSE
  BY DEF Init
<1>2. 0 \in 0 .. MaxSignals
  BY ServeAssumption
<1>3. sigCh \in BOOLEAN /\ expired \in BOOLEAN /\ ctrlC \in BOOLEAN
  BY <1>1
<1>4. TypeOK
  BY <1>1, <1>2, <1>3 DEF TypeOK, Unnotified, Ended
<1> QED
  BY <1>1, <1>4 DEF ServeInv, StartInv, LeavesNothing, Alive

\* What a signal sent to the runtime leaves pending.
LEMMA SendType ==
  ASSUME TypeOK, NEW signal \in {"INT", "TERM", "KILL"}, Send(signal)
  PROVE  pending' \subseteq {"INT", "TERM", "KILL"} /\ (child = "none" => pending' = {})
BY DEF TypeOK, Send, Alive

\* What a signal sent to vq does.
LEMMA DeliverType ==
  ASSUME TypeOK, Signal
  PROVE  /\ sent' \in 0 .. MaxSignals /\ sigCh' \in BOOLEAN /\ vq \notin Ended
         /\ \/ vq \in Unnotified /\ vq' = "killed" /\ sigCh' = sigCh /\ ~ sigCh
            \/ vq \notin Unnotified /\ vq' = vq
<1>1. CASE vq \in Unnotified
  BY <1>1, ServeAssumption DEF TypeOK, Signal, Deliver
<1>2. CASE vq \notin Unnotified
  <2>1. sigCh' = TRUE /\ vq' = vq /\ sent' = sent + 1 /\ sent < MaxSignals /\ vq \notin Ended
    BY <1>2 DEF Signal, Deliver
  <2>2. sent' \in 0 .. MaxSignals
    BY <2>1, ServeAssumption DEF TypeOK
  <2>3. sigCh' \in BOOLEAN
    BY <2>1
  <2> QED
    BY <1>2, <2>1, <2>2, <2>3
<1> QED
  BY <1>1, <1>2

LEMMA StepIsGood == ServeInv /\ [Next]_vars => ServeInv'
<1> SUFFICES ASSUME ServeInv, [Next]_vars PROVE ServeInv'
  OBVIOUS
<1> USE DEF ServeInv, TypeOK, StartInv, LeavesNothing, Alive, Unnotified, Ended
<1>1. CASE Report
  BY <1>1 DEF Report
<1>2. CASE Launch
  BY <1>2 DEF Launch
<1>3. CASE CannotLaunch
  BY <1>3 DEF CannotLaunch
<1>4. CASE Ready
  BY <1>4 DEF Ready
<1>5. CASE GiveUp
  BY <1>5, SendType DEF GiveUp
<1>6. CASE StartFails
  BY <1>6 DEF StartFails
<1>7. CASE Notify
  BY <1>7 DEF Notify
<1>8. CASE TakeSignal
  <2>1. sigCh' \in BOOLEAN /\ expired' \in BOOLEAN
    BY <1>8 DEF TakeSignal
  <2> QED
    BY <1>8, <2>1 DEF TakeSignal
<1>9. CASE RuntimeExited
  BY <1>9 DEF RuntimeExited
<1>10. CASE Kill
  BY <1>10, SendType DEF Kill
<1>11. CASE Stopped
  BY <1>11 DEF Stopped
<1>12. CASE CtrlC
  <2>1. ctrlC' \in BOOLEAN
    BY <1>12 DEF CtrlC
  <2> QED
    BY <1>12, <2>1, SendType, DeliverType DEF CtrlC
<1>13. CASE Terminate
  BY <1>13, DeliverType DEF Terminate
<1>14. CASE RuntimeDies
  BY <1>14 DEF RuntimeDies
<1>15. CASE RuntimeObeys
  BY <1>15 DEF RuntimeObeys
<1>16. CASE Expire
  <2>1. expired' \in BOOLEAN
    BY <1>16 DEF Expire
  <2> QED
    BY <1>16, <2>1 DEF Expire
<1>17. CASE UNCHANGED vars
  BY <1>17 DEF vars
<1>18. CASE Abandon
  BY <1>18 DEF Abandon
<1>19. CASE Ask
  BY <1>19, SendType DEF Ask
<1>20. CASE AskRefused
  BY <1>20 DEF AskRefused
<1> QED
  BY <1>1, <1>2, <1>3, <1>4, <1>5, <1>6, <1>7, <1>8, <1>9, <1>10, <1>11, <1>12, <1>13,
     <1>14, <1>15, <1>16, <1>17, <1>18, <1>19, <1>20 DEF Next, Step

LEMMA ServeInvariant == Spec => []ServeInv
BY InitIsGood, StepIsGood, PTL DEF Spec

\* Every variable of vq serve has its type, and no signal waits in the channel
\* before signal.Notify.
THEOREM ServeTypes == Spec => []TypeOK
<1>1. ServeInv => TypeOK
  BY DEF ServeInv
<1> QED
  BY <1>1, ServeInvariant, PTL

\* vq serve returns with no runtime behind it, whatever the runtime obeys, but one
\* that could not be signaled, and then with status 1.
THEOREM NothingLeftBehind == Spec => []LeavesNothing
<1>1. ServeInv => LeavesNothing
  BY DEF ServeInv
<1> QED
  BY <1>1, ServeInvariant, PTL

----------------------------------------------------------------------------
(* The signals.                                                            *)

SignalInv == EndIsComing /\ (ctrlC => sent > 0)

\* A runtime alive keeps the signals it was sent.
LEMMA SendTells ==
  ASSUME NEW signal, Send(signal)
  PROVE  Alive => pending \subseteq pending' /\ signal \in pending'
BY DEF Send

\* Before signal.Notify a signal ends vq, and after it one fits into the channel,
\* which is emptied only to stop the runtime.
LEMMA SignalInvStep == ASSUME ServeInv, SignalInv, [Next]_vars PROVE SignalInv'
<1> USE ServeAssumption
    DEF ServeInv, TypeOK, StartInv, SignalInv, EndIsComing, SignalIsKept, RuntimeIsTold,
        Alive, Unnotified, Ended
<1>1. CASE Report \/ Launch \/ CannotLaunch
  BY <1>1 DEF Report, Launch, CannotLaunch
<1>2. CASE Ready \/ StartFails \/ Notify
  BY <1>2 DEF Ready, StartFails, Notify
<1>3. CASE GiveUp
  BY <1>3, SendTells DEF GiveUp
<1>4. CASE TakeSignal \/ Abandon \/ AskRefused
  BY <1>4 DEF TakeSignal, Abandon, AskRefused
<1>5. CASE Kill
  BY <1>5, SendTells DEF Kill
<1>6. CASE RuntimeExited \/ Stopped
  BY <1>6 DEF RuntimeExited, Stopped
<1>7. CASE CtrlC
  BY <1>7, SendTells DEF CtrlC, Signal, Deliver
<1>8. CASE Terminate
  BY <1>8 DEF Terminate, Signal, Deliver
<1>9. CASE RuntimeDies \/ RuntimeObeys \/ Expire
  BY <1>9 DEF RuntimeDies, RuntimeObeys, Expire
<1>10. CASE UNCHANGED vars
  BY <1>10 DEF vars
<1>11. CASE Ask
  BY <1>11, SendTells DEF Ask
<1> QED
  BY <1>1, <1>2, <1>3, <1>4, <1>5, <1>6, <1>7, <1>8, <1>9, <1>10, <1>11 DEF Next, Step

\* No signal is lost, and no wait for the runtime begins without the signal that
\* is to end it, whatever the runtime obeys.
THEOREM EndIsOnItsWay == Spec => []EndIsComing
<1>1. Init => SignalInv
  BY DEF Init, SignalInv, EndIsComing, SignalIsKept, RuntimeIsTold, Alive
<1>2. SignalInv => EndIsComing
  BY DEF SignalInv
<1> QED
  BY <1>1, <1>2, SignalInvStep, InitIsGood, StepIsGood, PTL DEF Spec

\* Whatever signals come and when, and whatever the runtime obeys: nothing is left
\* behind, and no wait is in vain.
THEOREM ServeIsSafe == Spec => []ServeSafe
BY NothingLeftBehind, EndIsOnItsWay, PTL DEF ServeSafe

----------------------------------------------------------------------------
(* The refinement of RuntimeHandle.                                        *)

\* What vq's one call of Stop comes to.
StopState ==
  CASE vq \in {"asking", "stopping", "killing"} -> "stopping"
    [] vq = "refused" -> "refused"
    [] vq \in {"exit0", "exit1"} /\ start = "ready" -> "returned"
    [] OTHER -> "idle"

LEMMA HandleInit == Init => Handle!Init
<1> SUFFICES ASSUME Init PROVE Handle!Init
  OBVIOUS
<1>1. StopState = "idle" /\ start = "idle" /\ Alive = FALSE
  BY DEF Init, StopState, Alive
<1> QED
  BY <1>1 DEF Handle!Init, StopState

\* A step of vq is one step of a handle, or none.
LEMMA HandleStep ==
  ASSUME ServeInv, [Next]_vars
  PROVE  [Handle!Next]_(Handle!vars)
<1> DEFINE stop == [t \in {"main"} |-> StopState]
<1> USE DEF ServeInv, TypeOK, StartInv, LeavesNothing, Unnotified, Ended
<1>0. /\ stop["main"] = StopState
      /\ \A s : StopState' = s => stop' = [stop EXCEPT !["main"] = s]
  OBVIOUS
<1>1. ASSUME start' = start, Alive' = Alive, StopState' = StopState
      PROVE  UNCHANGED Handle!vars
  BY <1>1 DEF Handle!vars, StopState
<1>2. CASE Report
  <2>1. start' = start /\ Alive' = Alive /\ StopState' = StopState
    BY <1>2 DEF Report, Alive, StopState
  <2> QED
    BY <1>1, <2>1
<1>3. CASE Launch
  <2>1. start = "idle" /\ start' = "starting" /\ Alive' = TRUE /\ StopState' = StopState
    BY <1>3 DEF Launch, Alive, StopState
  <2>2. Handle!Launch
    BY <2>1 DEF Handle!Launch, StopState
  <2> QED
    BY <2>2 DEF Handle!Next
<1>4. CASE CannotLaunch
  <2>1. start = "idle" /\ start' = "failed" /\ Alive' = Alive /\ StopState' = StopState
    BY <1>4 DEF CannotLaunch, Alive, StopState
  <2>2. Handle!CannotLaunch
    BY <2>1 DEF Handle!CannotLaunch, StopState
  <2> QED
    BY <2>2 DEF Handle!Next
<1>5. CASE Ready
  <2>1. start = "starting" /\ start' = "ready" /\ Alive' = Alive /\ StopState' = StopState
    BY <1>5 DEF Ready, Alive, StopState
  <2>2. Handle!BecomeReady
    BY <2>1 DEF Handle!BecomeReady, StopState
  <2> QED
    BY <2>2 DEF Handle!Next
<1>6. CASE StartFails
  <2>1. /\ start = "starting" /\ start' = "failed" /\ ~ Alive /\ Alive' = Alive
        /\ StopState' = StopState
    BY <1>6 DEF StartFails, Alive, StopState
  <2>2. Handle!GiveUp
    BY <2>1 DEF Handle!GiveUp, StopState
  <2> QED
    BY <2>2 DEF Handle!Next
<1>7. CASE TakeSignal
  <2>1. /\ start = "ready" /\ start' = start /\ Alive' = Alive
        /\ StopState = "idle" /\ StopState' = "stopping"
    BY <1>7 DEF TakeSignal, Alive, StopState
  <2>2. Handle!CallStop("main")
    BY <1>0, <2>1 DEF Handle!CallStop, StopState
  <2> QED
    BY <2>2 DEF Handle!Next
<1>8. CASE RuntimeExited
  <2>1. /\ start = "ready" /\ start' = start /\ ~ Alive /\ Alive' = Alive
        /\ StopState = "idle" /\ StopState' = "returned"
    BY <1>8 DEF RuntimeExited, Alive, StopState
  <2>2. Handle!StopAtOnce("main")
    BY <1>0, <2>1 DEF Handle!StopAtOnce, StopState
  <2> QED
    BY <2>2 DEF Handle!Next
<1>9. CASE Stopped
  <2>1. /\ start = "ready" /\ start' = start /\ ~ Alive /\ Alive' = Alive
        /\ StopState = "stopping" /\ StopState' = "returned"
    BY <1>9 DEF Stopped, Alive, StopState
  <2>2. Handle!ReturnStop("main")
    BY <1>0, <2>1 DEF Handle!ReturnStop, StopState
  <2> QED
    BY <2>2 DEF Handle!Next
<1>10. CASE RuntimeDies \/ RuntimeObeys
  <2>1. Alive /\ Alive' = FALSE /\ start' = start /\ StopState' = StopState
    BY <1>10 DEF RuntimeDies, RuntimeObeys, Alive, StopState
  <2>2. Handle!Die
    BY <2>1 DEF Handle!Die, StopState
  <2> QED
    BY <2>2 DEF Handle!Next
<1>11. CASE CtrlC \/ Terminate
  <2>1. Signal /\ start' = start /\ child' = child
    BY <1>11 DEF CtrlC, Terminate
  <2>2. vq' = vq \/ (vq \in Unnotified /\ vq' = "killed")
    BY <2>1, DeliverType
  <2>3. StopState' = StopState /\ Alive' = Alive
    BY <2>1, <2>2 DEF StopState, Alive
  <2> QED
    BY <1>1, <2>1, <2>3
<1>12. CASE GiveUp \/ Notify \/ Ask \/ Kill \/ Expire \/ UNCHANGED vars
  <2>1. start' = start /\ Alive' = Alive /\ StopState' = StopState
    BY <1>12 DEF GiveUp, Notify, Ask, Kill, Expire, vars, Alive, StopState
  <2> QED
    BY <1>1, <2>1
<1>13. CASE Abandon
  <2>1. /\ start = "starting" /\ start' = "abandoned" /\ Alive' = Alive
        /\ StopState' = StopState
    BY <1>13 DEF Abandon, Alive, StopState
  <2>2. Handle!Abandon
    BY <2>1 DEF Handle!Abandon, StopState
  <2> QED
    BY <2>2 DEF Handle!Next
<1>14. CASE AskRefused
  <2>1. /\ start' = start /\ Alive' = Alive
        /\ StopState = "stopping" /\ StopState' = "refused"
    BY <1>14 DEF AskRefused, Alive, StopState
  <2>2. Handle!RefuseStop("main")
    BY <1>0, <2>1 DEF Handle!RefuseStop, StopState
  <2> QED
    BY <2>2 DEF Handle!Next
<1> QED
  BY <1>2, <1>3, <1>4, <1>5, <1>6, <1>7, <1>8, <1>9, <1>10, <1>11, <1>12, <1>13, <1>14
  DEF Next, Step

\* vq serve meets the runtime only as RuntimeHandle presents it, and stops
\* only one that became ready.
THEOREM ServeKeepsToHandle == Spec => WithinHandle
<1>1. ServeInv /\ [Next]_vars => [Handle!Next]_(Handle!vars)
  BY HandleStep
<1> QED
  BY <1>1, HandleInit, ServeInvariant, PTL DEF Spec, WithinHandle, Handle!Safety

----------------------------------------------------------------------------
(* Benchmark, whose variables are named apart from those of Serve.         *)

VARIABLES pc, run, starts, children, termed, stops, resident, timing, err, deadline, obedient

B == INSTANCE Benchmark WITH
  start <- starts, child <- children, stop <- stops, expired <- deadline, obeys <- obedient

\* The deferred Stop of method m's process has returned.
HasStopped(m) ==
  \/ children[m] = "gone" /\ stops[m] = "returned"
  \/ children[m] \in {"alive", "gone"} /\ stops[m] = "refused"

\* What Benchmark knows of the process of the method it measures: where
\* StartProcess and the deferred Stop are, and whether there is a subprocess.
AtMethod ==
  /\ pc \in {"info", "launch"} =>
       starts[run] = "idle" /\ children[run] = "none" /\ stops[run] = "idle"
  /\ pc \in {"starting", "giveUp"} =>
       starts[run] = "starting" /\ children[run] # "none" /\ stops[run] = "idle"
  /\ pc \in {"measure", "generate", "stop"} =>
       starts[run] = "ready" /\ children[run] # "none" /\ stops[run] = "idle"
  /\ pc \in {"stopping", "waiting"} =>
       starts[run] = "ready" /\ children[run] # "none" /\ stops[run] = "stopping"
  /\ pc = "failed" /\ children[run] = "alive" => B!SignalRefused(run)
  /\ pc = "result" => starts[run] = "ready" /\ HasStopped(run)

\* The second method's process is untouched while the first is measured, and
\* the first's is gone or could not be signaled, and its measurement complete, when
\* the second begins.
OneAfterTheOther ==
  /\ run = 1 => starts[2] = "idle" /\ children[2] = "none" /\ stops[2] = "idle"
  /\ run = 2 => starts[1] = "ready" /\ HasStopped(1) /\ timing = "measured"

\* Without an error the deferred Stop of the first method finds it timed.
Timed ==
  /\ pc \in {"info", "generate"} => run = 1
  /\ pc = "result" => run = 2
  /\ pc \in {"stop", "stopping", "waiting"} => err \/ timing = "measured"

\* Where Benchmark is says where each of the two processes is.
BenchInv ==
  /\ B!TypeOK /\ AtMethod /\ OneAfterTheOther /\ Timed
  /\ pc \in {"info", "launch", "starting", "giveUp", "measure", "generate", "stop", "stopping",
             "waiting", "failed", "result"}

\* No runtime has been started yet.
LEMMA BenchInit == B!Init => BenchInv
<1> SUFFICES ASSUME B!Init PROVE BenchInv
  OBVIOUS
<1>0. B!Methods = {1, 2}
  BY DEF B!Methods
<1> USE <1>0 DEF B!Init, B!Idle
<1>1. err = FALSE /\ deadline = FALSE /\ obedient \in BOOLEAN
  OBVIOUS
<1>2. err \in BOOLEAN /\ deadline \in BOOLEAN
  BY <1>1, Zenon
<1>3. B!TypeOK
  BY <1>1, <1>2 DEF B!TypeOK
<1>4. AtMethod /\ OneAfterTheOther /\ Timed
  BY DEF AtMethod, OneAfterTheOther, Timed
<1> QED
  BY <1>3, <1>4 DEF BenchInv

\* Each early return of runOneMethod goes through the deferred Stop, or comes
\* before there is a process to stop.
LEMMA BenchStep == BenchInv /\ [B!Next]_(B!vars) => BenchInv'
<1> SUFFICES ASSUME BenchInv, [B!Next]_(B!vars) PROVE BenchInv'
  OBVIOUS
<1>0. B!Methods = {1, 2}
  BY DEF B!Methods
<1> USE <1>0 DEF BenchInv, B!TypeOK, AtMethod, OneAfterTheOther, Timed, HasStopped,
                 B!SignalRefused, B!Goto
<1>1. CASE B!Refuse
  BY <1>1 DEF B!Refuse
<1>2. CASE B!Begin
  BY <1>2 DEF B!Begin
<1>3. CASE B!Launch
  BY <1>3 DEF B!Launch
<1>4. CASE B!CannotLaunch
  BY <1>4 DEF B!CannotLaunch
<1>5. CASE B!StartTimesOut
  BY <1>5 DEF B!StartTimesOut
<1>6. CASE B!StartFails
  BY <1>6 DEF B!StartFails
<1>7. CASE B!Measure
  BY <1>7 DEF B!Measure
<1>8. CASE B!GenerateFails
  BY <1>8 DEF B!GenerateFails
<1>9. CASE B!StopBegins
  BY <1>9 DEF B!StopBegins
<1>10. CASE B!StopReturns
  BY <1>10 DEF B!StopReturns, B!Leave
<1>11. CASE B!Ready
  BY <1>11 DEF B!Ready
<1>12. CASE B!StartScanFails
  BY <1>12 DEF B!StartScanFails
<1>13. CASE B!Generate
  BY <1>13 DEF B!Generate
<1>14. ASSUME NEW m \in B!Methods, B!Die(m) PROVE BenchInv'
  BY <1>14 DEF B!Die
<1>15. CASE B!Expire
  BY <1>15 DEF B!Expire
<1>16. CASE UNCHANGED B!vars
  BY <1>16 DEF B!vars
<1>17. CASE B!StartAbandoned
  BY <1>17 DEF B!StartAbandoned
<1>18. CASE B!StopSignals
  BY <1>18 DEF B!StopSignals
<1>19. CASE B!StopRefused
  BY <1>19 DEF B!StopRefused, B!Leave
<1> QED
  BY <1>1, <1>2, <1>3, <1>4, <1>5, <1>6, <1>7, <1>8, <1>9, <1>10, <1>11, <1>12, <1>13,
     <1>14, <1>15, <1>16, <1>17, <1>18, <1>19 DEF B!Next, B!Step

\* The invariant holds in every state.
LEMMA BenchInvariant == B!Spec => []BenchInv
BY BenchInit, BenchStep, PTL DEF B!Spec

\* Every variable of Benchmark has its type, and a size is reported only of a
\* runtime that was ready.
THEOREM BenchmarkTypes == B!Spec => []B!TypeOK
<1>1. BenchInv => B!TypeOK
  BY DEF BenchInv
<1> QED
  BY <1>1, BenchInvariant, PTL

\* Benchmark never runs two runtimes at once, and leaves none, unless a runtime
\* could not be signaled, and never leaves half a result, whatever fails on the way.
THEOREM BenchmarkReturnsClean == B!Spec => []B!ReturnsClean
<1>1. BenchInv => B!ReturnsClean
  BY DEF BenchInv, B!TypeOK, AtMethod, OneAfterTheOther, Timed, B!ReturnsClean,
     HasStopped, B!OneAtATime, B!SignalRefused, B!NeverTwoInstances,
     B!NothingLeftRunning, B!ResultIsComplete, B!Returned, B!Methods
<1> QED
  BY <1>1, BenchInvariant, PTL

\* What a step of Benchmark can do to one method's process.
Moves(m) ==
  \/ /\ starts[m] = "idle" /\ starts'[m] = "starting" /\ children'[m] = "alive"
     /\ stops'[m] = stops[m]
  \/ /\ starts[m] = "idle" /\ starts'[m] = "failed" /\ children'[m] = children[m]
     /\ stops'[m] = stops[m]
  \/ /\ starts[m] = "starting" /\ starts'[m] = "ready" /\ children'[m] = children[m]
     /\ stops'[m] = stops[m]
  \/ /\ starts[m] = "starting" /\ starts'[m] = "failed" /\ children[m] = "gone"
     /\ children'[m] = children[m] /\ stops'[m] = stops[m]
  \/ /\ starts[m] = "starting" /\ starts'[m] = "abandoned" /\ children'[m] = children[m]
     /\ stops'[m] = stops[m]
  \/ /\ children[m] = "alive" /\ children'[m] = "gone"
     /\ starts'[m] = starts[m] /\ stops'[m] = stops[m]
  \/ /\ starts[m] = "ready" /\ stops[m] = "idle" /\ stops'[m] = "stopping"
     /\ children'[m] = children[m] /\ starts'[m] = starts[m]
  \/ /\ stops[m] = "stopping" /\ children[m] = "gone" /\ stops'[m] = "returned"
     /\ children'[m] = children[m] /\ starts'[m] = starts[m]
  \/ /\ stops[m] = "stopping" /\ stops'[m] = "refused"
     /\ children'[m] = children[m] /\ starts'[m] = starts[m]
  \/ starts'[m] = starts[m] /\ children'[m] = children[m] /\ stops'[m] = stops[m]

\* No step of Benchmark does anything else to it.
LEMMA BenchMoves ==
  ASSUME BenchInv, [B!Next]_(B!vars), NEW m \in B!Methods
  PROVE  Moves(m)
<1>0. B!Methods = {1, 2}
  BY DEF B!Methods
<1> USE <1>0 DEF BenchInv, B!TypeOK, AtMethod, B!Goto
<1>1. CASE B!Launch
  BY <1>1 DEF B!Launch, Moves
<1>2. CASE B!CannotLaunch
  BY <1>2 DEF B!CannotLaunch, Moves
<1>3. CASE B!StartFails
  BY <1>3 DEF B!StartFails, Moves
<1>4. CASE B!StopBegins
  BY <1>4 DEF B!StopBegins, Moves
<1>5. CASE B!StopReturns
  BY <1>5 DEF B!StopReturns, B!Leave, Moves
<1>6. CASE B!Ready
  BY <1>6 DEF B!Ready, Moves
<1>7. ASSUME NEW n \in B!Methods, B!Die(n) PROVE Moves(m)
  BY <1>7 DEF B!Die, Moves
<1>8. CASE \/ B!Refuse \/ B!Begin \/ B!StartTimesOut \/ B!Measure \/ B!GenerateFails
           \/ B!StartScanFails \/ B!StopSignals \/ B!Generate \/ B!Expire \/ UNCHANGED B!vars
  BY <1>8 DEF B!Refuse, B!Begin, B!StartTimesOut, B!Measure, B!GenerateFails,
              B!StartScanFails, B!StopSignals, B!Generate, B!Expire, B!vars, Moves
<1>9. CASE B!StartAbandoned
  BY <1>9 DEF B!StartAbandoned, Moves
<1>10. CASE B!StopRefused
  BY <1>10 DEF B!StopRefused, B!Leave, Moves
<1> QED
  BY <1>1, <1>2, <1>3, <1>4, <1>5, <1>6, <1>7, <1>8, <1>9, <1>10 DEF B!Next, B!Step

\* Each such move is a step of RuntimeHandle for the first method, or none.
LEMMA DefaultStep == ASSUME Moves(1) PROVE [B!Default!Next]_(B!Default!vars)
BY DEF Moves, B!Default!Next, B!Default!vars, B!Default!Launch, B!Default!CannotLaunch,
   B!Default!BecomeReady, B!Default!GiveUp, B!Default!Abandon, B!Default!Die,
   B!Default!CallStop, B!Default!ReturnStop, B!Default!RefuseStop

\* And for the second.
LEMMA OptimizedStep == ASSUME Moves(2) PROVE [B!Optimized!Next]_(B!Optimized!vars)
BY DEF Moves, B!Optimized!Next, B!Optimized!vars, B!Optimized!Launch, B!Optimized!CannotLaunch,
   B!Optimized!BecomeReady, B!Optimized!GiveUp, B!Optimized!Abandon, B!Optimized!Die,
   B!Optimized!CallStop, B!Optimized!ReturnStop, B!Optimized!RefuseStop

\* Of each method's process, Benchmark sees nothing that RuntimeHandle does not
\* promise: it stops only one that is ready, and once.
THEOREM BenchmarkKeepsToHandle == B!Spec => B!WithinHandle
<1>1. B!Init => B!Default!Init /\ B!Optimized!Init
  BY DEF B!Init, B!Idle, B!Methods, B!Default!Init, B!Optimized!Init
<1>2. BenchInv /\ [B!Next]_(B!vars)
        => [B!Default!Next]_(B!Default!vars) /\ [B!Optimized!Next]_(B!Optimized!vars)
  <2> SUFFICES ASSUME BenchInv, [B!Next]_(B!vars)
               PROVE  [B!Default!Next]_(B!Default!vars) /\ [B!Optimized!Next]_(B!Optimized!vars)
    OBVIOUS
  <2>1. Moves(1) /\ Moves(2)
    BY BenchMoves DEF B!Methods
  <2> QED
    BY <2>1, DefaultStep, OptimizedStep
<1> QED
  BY <1>1, <1>2, BenchInvariant, PTL
     DEF B!Spec, B!WithinHandle, B!Default!Safety, B!Optimized!Safety

=============================================================================
