--------------------------- MODULE Process_proofs ---------------------------
(***************************************************************************)
(* Theorems about Process, for any number of goroutines that call Stop,    *)
(* any length of output, any size of the pipe, and any subprocess.         *)
(***************************************************************************)
EXTENDS Process, TLAPS

Kinds == Handshakes \cup Lines

\* The handshake, which is printed once, stands in a sequence of lines.
Holds(lines) == \E i \in 1 .. Len(lines) : lines[i] \in Handshakes

Ones(b) == IF b THEN 1 ELSE 0

\* Where the subprocess and wait stand.  p.err is set between cmd.Wait and
\* close(p.done), and there is no subprocess before StartProcess runs.
LifeInv ==
  /\ pc[Starter] = "idle" => child = "none"
  /\ waiter \in {"gotErr", "setErr", "dead"} => child = "reaped"
  /\ waiter \in {"setErr", "dead"} => err
  /\ done => waiter = "dead"

\* Who waits in Stop has signaled, or came too late to.
SignalInv ==
  /\ \A t \in Callers : pc[t] \in {"wait", "killed"} => "TERM" \in signals \/ child = "reaped"
  /\ TermBeforeKill

\* No line is lost or made up on the way from the subprocess to cfg.Stdout.
FlowInv ==
  /\ sawReady => printed
  /\ printed /\ ~ sawReady => Holds(buf) \/ Holds(pipe)
  /\ Holds(buf) \/ Holds(pipe) => printed
  /\ forwarded <= written
  /\ forwarded + Len(buf) + Len(pipe) + Ones(sawReady) = written + Ones(printed)

\* Why scanStdout has ended.
ScanInv ==
  scan \in {"send", "dead"} =>
    \/ GaveUp
    \/ pipeClosed
    \/ scan = "dead" /\ buf = <<>> /\ pipe = <<>> /\ child \in {"zombie", "reaped"}

\* Whose turn it is.  Nobody waits before goroutine wait is there; it ends only
\* after closing p.done; scanStdout sends on each of its channels once.
WaitInv ==
  /\ waiter = "none" => \A t \in Callers : pc[t] \in {"idle", "failed"}
  /\ waiter = "wait" => child \in {"running", "zombie"}
  /\ waiter = "dead" => done
  /\ \A t \in Callers : pc[t] = "killed" => "KILL" \in signals \/ child = "reaped"
  /\ pc[Starter] = "idle" => scan = "none"
  /\ scanErrCh => scan = "dead"
  /\ readyCh => sawReady

ProcessInv == TypeOK /\ LifeInv /\ SignalInv /\ FlowInv /\ ScanInv /\ WaitInv /\ NoOrphan

----------------------------------------------------------------------------
(* The lines between the subprocess and cfg.Stdout.                        *)

\* A line at the end of a sequence leaves what it holds.
LEMMA HoldsAppend ==
  ASSUME NEW s \in Seq(Kinds), NEW e \in Kinds, Holds(s) \/ e \in Handshakes
  PROVE  Holds(Append(s, e))
<1>1. Append(s, e) \in Seq(Kinds) /\ Len(Append(s, e)) = Len(s) + 1
  OBVIOUS
<1>2. CASE Holds(s)
  <2>1. PICK i \in 1 .. Len(s) : s[i] \in Handshakes
    BY <1>2 DEF Holds
  <2>2. i \in 1 .. Len(Append(s, e)) /\ Append(s, e)[i] = s[i]
    OBVIOUS
  <2> QED
    BY <2>1, <2>2 DEF Holds
<1>3. CASE e \in Handshakes
  <2>1. Len(s) + 1 \in 1 .. Len(Append(s, e)) /\ Append(s, e)[Len(s) + 1] = e
    BY <1>1
  <2> QED
    BY <1>3, <2>1 DEF Holds
<1> QED
  BY <1>2, <1>3

\* A first line that is no handshake leaves the handshake behind it.
LEMMA HoldsTail ==
  ASSUME NEW s \in Seq(Kinds), s # <<>>, Head(s) \notin Handshakes, Holds(s)
  PROVE  Holds(Tail(s))
<1>1. PICK i \in 1 .. Len(s) : s[i] \in Handshakes
  BY DEF Holds
<1>2. i # 1
  BY <1>1
<1>3. i - 1 \in 1 .. Len(Tail(s)) /\ Tail(s)[i - 1] = s[i]
  BY <1>2
<1> QED
  BY <1>1, <1>3 DEF Holds

\* The rest of a sequence holds nothing that the sequence does not.
LEMMA HoldsLess ==
  /\ \A s \in Seq(Kinds) : s # <<>> /\ Holds(Tail(s)) => Holds(s)
  /\ \A s \in Seq(Kinds), e \in Lines : Holds(Append(s, e)) => Holds(s)
<1>1. ASSUME NEW s \in Seq(Kinds), s # <<>>, Holds(Tail(s)) PROVE Holds(s)
  <2>1. PICK i \in 1 .. Len(Tail(s)) : Tail(s)[i] \in Handshakes
    BY <1>1 DEF Holds
  <2>2. i + 1 \in 1 .. Len(s) /\ s[i + 1] = Tail(s)[i]
    BY <1>1
  <2> QED
    BY <2>1, <2>2 DEF Holds
<1>2. ASSUME NEW s \in Seq(Kinds), NEW e \in Lines, Holds(Append(s, e)) PROVE Holds(s)
  <2>1. PICK i \in 1 .. Len(Append(s, e)) : Append(s, e)[i] \in Handshakes
    BY <1>2 DEF Holds
  <2>2. e \in Kinds /\ e \notin Handshakes
    BY KindsAssumption DEF Kinds
  <2>3. i \in 1 .. Len(s) /\ s[i] = Append(s, e)[i]
    BY <2>1, <2>2
  <2> QED
    BY <2>1, <2>3 DEF Holds
<1> QED
  BY <1>1, <1>2

\* Lines are neither lost nor made up, whatever is printed and read, and
\* the handshake stays in the pipe or the buffer until scanStdout meets it.
LEMMA FlowStep == ASSUME TypeOK, FlowInv, [Next]_vars PROVE FlowInv'
<1> USE DEF TypeOK, FlowInv, Ones
<1>1. ASSUME NEW line \in Handshakes, ChildHandshake(line) PROVE FlowInv'
  <2>1. /\ ~ printed /\ printed' /\ pipe' = Append(pipe, line)
        /\ UNCHANGED <<buf, sawReady, written, forwarded>>
    BY <1>1 DEF ChildHandshake, Emit, childVars, scanVars
  <2>2. Holds(pipe') /\ Len(pipe') = Len(pipe) + 1
    BY <2>1, HoldsAppend DEF Kinds
  <2> QED
    BY <2>1, <2>2
<1>2. ASSUME NEW line \in Lines, ChildPrint(line) PROVE FlowInv'
  <2>1. /\ pipe' = Append(pipe, line) /\ written' = written + 1
        /\ UNCHANGED <<buf, sawReady, printed, forwarded>>
    BY <1>2 DEF ChildPrint, Emit, scanVars
  <2>2. (Holds(pipe) <=> Holds(pipe')) /\ Len(pipe') = Len(pipe) + 1
    BY <2>1, HoldsAppend, HoldsLess DEF Kinds
  <2>3. Holds(buf)' <=> Holds(buf)
    BY <2>1 DEF Holds
  <2> QED
    BY <2>1, <2>2, <2>3, BoundsAssumption
<1>3. CASE ScanRead
  <2>1. /\ buf = <<>> /\ buf' = pipe /\ pipe' = <<>>
        /\ UNCHANGED <<sawReady, printed, written, forwarded>>
    BY <1>3 DEF ScanRead, childVars
  <2>2. ~ Holds(buf) /\ (Holds(buf)' <=> Holds(pipe))
    BY <2>1 DEF Holds
  <2> QED
    BY <2>1, <2>2
<1>4. CASE ScanReady
  <2>1. /\ buf # <<>> /\ ~ sawReady /\ sawReady' /\ buf' = Tail(buf) /\ Head(buf) = "ready"
        /\ UNCHANGED <<pipe, printed, written, forwarded>>
    BY <1>4 DEF ScanReady, childVars
  <2>2. Len(buf') = Len(buf) - 1
    BY <2>1
  <2>3. Head(buf) \in Handshakes /\ Head(buf) = buf[1] /\ 1 \in 1 .. Len(buf)
    BY <2>1, KindsAssumption
  <2>4. printed
    BY <2>3 DEF Holds
  <2> QED
    BY <2>1, <2>2, <2>4
<1>5. CASE ScanForward
  <2>1. /\ buf # <<>> /\ Head(buf) = "text" /\ buf' = Tail(buf) /\ forwarded' = forwarded + 1
        /\ UNCHANGED <<pipe, printed, written, sawReady>>
    BY <1>5 DEF ScanForward, childVars
  <2>2. Len(buf') = Len(buf) - 1
    BY <2>1
  <2>3. Holds(buf) <=> Holds(buf')
    BY <2>1, HoldsTail, HoldsLess, KindsAssumption DEF Kinds
  <2>4. Holds(pipe)' <=> Holds(pipe)
    BY <2>1 DEF Holds
  <2>5. (Holds(buf') => Len(buf') > 0) /\ (Holds(pipe') => Len(pipe') > 0)
    BY DEF Holds
  <2>6. forwarded' <= written
    BY <2>1, <2>2, <2>3, <2>4, <2>5
  <2> QED
    BY <2>1, <2>2, <2>3, <2>4, <2>6
<1>6. CASE UNCHANGED <<buf, pipe, printed, written, sawReady, forwarded>>
  BY <1>6 DEF Holds
<1> QED
  BY <1>1, <1>2, <1>3, <1>4, <1>5, <1>6
  DEF Next, vars, ScanStep, WaitStep, SelectStep, StopStep, ChildExit, ChildSignaled,
      ScanFails, ScanSend, ScanEOF, WaitReap, WaitSetErr, WaitClose, StartFails,
      StartLaunch, SelectReady, SelectScanErr, SelectDone, SelectTimeout, StopCheck,
      StopSignal, StopRefused, StopKill, StopReturn, Expire, childVars, scanVars

----------------------------------------------------------------------------
(* Type correctness.                                                       *)

USE DEF Goto, Callers

\* Every step keeps the types.  Only for what is passed on to cfg.Stdout does
\* it matter where the lines come from.
LEMMA TypeStep == ASSUME TypeOK, FlowInv, [Next]_vars PROVE TypeOK'
<1> USE BoundsAssumption, KindsAssumption, ActorsAssumption
<1> USE DEF TypeOK, childVars, scanVars, chanVars, waitVars
<1>1. ASSUME NEW line \in Handshakes, ChildHandshake(line) PROVE TypeOK'
  BY <1>1 DEF ChildHandshake, Emit
<1>2. ASSUME NEW line \in Lines, ChildPrint(line) PROVE TypeOK'
  BY <1>2 DEF ChildPrint, Emit
<1>3. CASE ChildExit \/ ChildSignaled
  <2>1. child' = "zombie" /\ UNCHANGED <<obeys, signals, printed, written, pipe, pipeClosed,
          scanVars, chanVars, waitVars, expired, pc>>
    BY <1>3 DEF ChildExit, ChildSignaled, Gone
  <2> QED
    BY <2>1
<1>4. CASE ScanRead
  BY <1>4 DEF ScanRead
<1>5. CASE ScanReady
  BY <1>5 DEF ScanReady
<1>6. CASE ScanFails \/ ScanSend \/ ScanEOF
  <2>1. CASE ScanFails
    BY <2>1 DEF ScanFails
  <2>2. CASE ScanSend
    BY <2>2 DEF ScanSend
  <2>3. CASE ScanEOF
    BY <2>3 DEF ScanEOF
  <2> QED
    BY <1>6, <2>1, <2>2, <2>3
<1>7. CASE ScanForward
  <2>1. /\ forwarded' = forwarded + 1 /\ buf # <<>> /\ buf' = Tail(buf)
        /\ UNCHANGED <<childVars, pipe, pipeClosed, scan, sawReady, chanVars, waitVars,
                       expired, pc>>
    BY <1>7 DEF ScanForward
  <2>2. buf' \in Seq(Handshakes \cup Lines)
    BY <2>1
  <2>3. forwarded' \in 0 .. MaxLines + 1
    BY <2>1
  <2>4. FlowInv'
    BY FlowStep
  <2>5. forwarded' <= written'
    BY <2>4 DEF FlowInv
  <2> QED
    BY <2>1, <2>2, <2>3, <2>5
<1>8. CASE WaitStep
  <2>1. CASE WaitReap
    BY <2>1 DEF WaitReap
  <2>2. CASE WaitSetErr
    BY <2>2 DEF WaitSetErr
  <2>3. CASE WaitClose
    BY <2>3 DEF WaitClose
  <2> QED
    BY <1>8, <2>1, <2>2, <2>3 DEF WaitStep
<1>9. CASE StartFails \/ StartLaunch
  <2>1. CASE StartFails
    BY <2>1 DEF StartFails, StarterPC
  <2>2. CASE StartLaunch
    BY <2>2 DEF StartLaunch, StarterPC
  <2> QED
    BY <1>9, <2>1, <2>2
<1>10. CASE SelectStep
  <2>1. CASE SelectReady
    <3>1. readyCh' \in BOOLEAN
      BY <2>1 DEF SelectReady
    <3>2. /\ pc' = [pc EXCEPT ![Starter] = "ready"]
          /\ UNCHANGED <<childVars, pipe, pipeClosed, scanVars, scanErrCh, waitVars, expired>>
      BY <2>1 DEF SelectReady
    <3> QED
      BY <3>1, <3>2 DEF StarterPC
  <2>2. CASE SelectScanErr
    <3>1. scanErrCh' \in BOOLEAN
      BY <2>2 DEF SelectScanErr
    <3>2. /\ pc' = [pc EXCEPT ![Starter] = "check"]
          /\ UNCHANGED <<childVars, pipe, pipeClosed, scanVars, readyCh, waitVars, expired>>
      BY <2>2 DEF SelectScanErr
    <3> QED
      BY <3>1, <3>2 DEF StarterPC
  <2>3. CASE SelectDone
    BY <2>3 DEF SelectDone, StarterPC
  <2>4. CASE SelectTimeout
    BY <2>4 DEF SelectTimeout, StarterPC
  <2> QED
    BY <1>10, <2>1, <2>2, <2>3, <2>4 DEF SelectStep
<1>11. ASSUME NEW t \in Callers, StopCheck(t) \/ StopStep(t) \/ Expire(t) PROVE TypeOK'
  <2>1. CASE StopCheck(t)
    <3>1. /\ pc' = [pc EXCEPT ![t] = IF done THEN Returned(t) ELSE "signal"]
          /\ expired' \subseteq Callers
          /\ UNCHANGED <<childVars, pipe, pipeClosed, scanVars, chanVars, waitVars>>
      BY <2>1 DEF StopCheck
    <3>2. pc'[t] \in {Returned(t), "signal"} /\ \A u \in Callers \ {t} : pc'[u] = pc[u]
      BY <3>1
    <3>3. /\ pc' \in [Callers -> StarterPC \cup StopperPC]
          /\ pc'[Starter] \in StarterPC /\ \A u \in Stoppers : pc'[u] \in StopperPC
      BY <3>1, <3>2 DEF Returned, StarterPC, StopperPC
    <3> QED
      BY <3>1, <3>3
  <2>2. CASE StopSignal(t)
    <3>1. /\ pc' = [pc EXCEPT ![t] = "wait"] /\ signals' \subseteq {"TERM", "KILL"}
          /\ UNCHANGED <<child, obeys, printed, written, pipe, pipeClosed, scanVars,
                         chanVars, waitVars, expired>>
      BY <2>2 DEF StopSignal
    <3> QED
      BY <3>1 DEF StarterPC, StopperPC
  <2>3. CASE StopKill(t)
    BY <2>3 DEF StopKill, Returned, StarterPC, StopperPC
  <2>4. CASE StopReturn(t)
    BY <2>4 DEF StopReturn, Returned, StarterPC, StopperPC
  <2>5. CASE Expire(t)
    BY <2>5 DEF Expire, Returned, StarterPC, StopperPC
  <2>6. CASE StopRefused(t)
    BY <2>6 DEF StopRefused, Refused, StarterPC, StopperPC
  <2> QED
    BY <1>11, <2>1, <2>2, <2>3, <2>4, <2>5, <2>6 DEF StopStep
<1>12. CASE UNCHANGED vars
  BY <1>12 DEF vars
<1> QED
  BY <1>1, <1>2, <1>3, <1>4, <1>5, <1>6, <1>7, <1>8, <1>9, <1>10, <1>11, <1>12
  DEF Next, ScanStep

----------------------------------------------------------------------------
(* The life of the subprocess, and who may signal it.                      *)

\* A subprocess that is gone stays gone, and only a subprocess that was
\* reaped is reported to be (process.go lines 233-239).
LEMMA LifeStep == ASSUME TypeOK, LifeInv, [Next]_vars PROVE LifeInv'
<1> USE DEF TypeOK, LifeInv, childVars, waitVars
<1>1. CASE ChildExit \/ ChildSignaled
  BY <1>1 DEF ChildExit, ChildSignaled, Gone
<1>2. CASE WaitReap
  BY <1>2 DEF WaitReap
<1>3. CASE WaitSetErr
  BY <1>3 DEF WaitSetErr
<1>4. CASE WaitClose
  BY <1>4 DEF WaitClose
<1>5. CASE StartLaunch
  BY <1>5 DEF StartLaunch
<1>6. CASE UNCHANGED <<child, waiter, err, done>> /\ (pc'[Starter] = "idle" => pc[Starter] = "idle")
  BY <1>6
<1>7. ASSUME NEW t \in Callers, NEW to \in StarterPC \cup StopperPC, to # "idle",
             pc' = [pc EXCEPT ![t] = to]
      PROVE  pc'[Starter] = "idle" => pc[Starter] = "idle"
  BY <1>7
<1>8. Starter \in Callers
  OBVIOUS
<1>9. CASE StartFails \/ SelectStep
  BY <1>6, <1>7, <1>8, <1>9 DEF StartFails, SelectStep, SelectReady, SelectScanErr, SelectDone,
     SelectTimeout, StarterPC
<1>10. ASSUME NEW t \in Callers, StopCheck(t) \/ StopStep(t) \/ Expire(t) PROVE LifeInv'
  <2>1. CASE StopCheck(t)
    BY <1>6, <1>7, <2>1 DEF StopCheck, Returned, StarterPC, StopperPC
  <2>2. CASE StopStep(t)
    BY <1>6, <1>7, <2>2 DEF StopStep, StopSignal, StopRefused, StopKill, StopReturn,
       Returned, Refused, StarterPC, StopperPC
  <2>3. CASE Expire(t)
    BY <1>6, <2>3 DEF Expire
  <2> QED
    BY <1>10, <2>1, <2>2, <2>3
<1> QED
  BY <1>1, <1>2, <1>3, <1>4, <1>5, <1>6, <1>9, <1>10
  DEF Next, vars, ScanStep, WaitStep, ChildHandshake, ChildPrint, ScanRead, ScanReady,
      ScanFails, ScanSend, ScanForward, ScanEOF

\* What has become of the subprocess, and what it was told, is not undone.
LEMMA Onwards ==
  ASSUME TypeOK, LifeInv, [Next]_vars
  PROVE  /\ child = "reaped" => child' = "reaped"
         /\ child \in {"zombie", "reaped"} => child' \in {"zombie", "reaped"}
         /\ signals \subseteq signals'
<1> USE DEF TypeOK, LifeInv, childVars
<1>1. CASE ChildExit \/ ChildSignaled
  BY <1>1 DEF ChildExit, ChildSignaled, Gone
<1>2. CASE WaitReap
  BY <1>2 DEF WaitReap
<1>3. CASE StartLaunch
  BY <1>3 DEF StartLaunch
<1>4. ASSUME NEW t \in Callers, StopSignal(t) \/ StopKill(t)
      PROVE  UNCHANGED child /\ signals \subseteq signals'
  BY <1>4 DEF StopSignal, StopKill
<1>5. CASE UNCHANGED <<child, signals>>
  BY <1>5
<1> QED
  BY <1>1, <1>2, <1>3, <1>4, <1>5
  DEF Next, vars, ScanStep, WaitStep, ChildHandshake, ChildPrint, ScanRead, ScanReady,
      ScanFails, ScanSend, ScanForward, ScanEOF, WaitSetErr, WaitClose, StartFails,
      SelectStep, SelectReady, SelectScanErr, SelectDone, SelectTimeout, StopStep,
      StopCheck, StopRefused, StopReturn, Expire

\* Only a Stop that is waiting kills, and it has asked first (lines 288-296).
LEMMA SignalStep == ASSUME TypeOK, LifeInv, SignalInv, [Next]_vars PROVE SignalInv'
<1> USE DEF TypeOK, SignalInv, TermBeforeKill
<1> DEFINE Told == "TERM" \in signals \/ child = "reaped"
<1>1. Told => Told'
  BY Onwards
<1>2. ASSUME UNCHANGED signals,
             \A t \in Callers : pc'[t] \in {"wait", "killed"} => pc[t] \in {"wait", "killed"}
      PROVE  SignalInv'
  BY <1>1, <1>2
<1>3. ASSUME NEW t \in Callers, NEW to, to \notin {"wait", "killed"}, UNCHANGED signals,
             pc' = [pc EXCEPT ![t] = to]
      PROVE  SignalInv'
  BY <1>2, <1>3
<1>4. Starter \in Callers
  OBVIOUS
<1>5. ASSUME NEW t \in Callers, StopSignal(t) PROVE SignalInv'
  <2>1. /\ pc' = [pc EXCEPT ![t] = "wait"] /\ UNCHANGED child
        /\ signals' = IF child = "reaped" THEN signals ELSE signals \cup {"TERM"}
    BY <1>5 DEF StopSignal
  <2>2. Told'
    BY <2>1
  <2> QED
    BY <2>1, <2>2
<1>6. ASSUME NEW t \in Callers, StopKill(t) PROVE SignalInv'
  <2>1. /\ pc' = [pc EXCEPT ![t] = "killed"] /\ pc[t] = "wait" /\ UNCHANGED child
        /\ signals' = IF child = "reaped" THEN signals ELSE signals \cup {"KILL"}
    BY <1>6 DEF StopKill
  <2>2. Told
    BY <2>1
  <2>3. TermBeforeKill'
    BY <2>1, <2>2
  <2> QED
    BY <1>1, <2>1, <2>2, <2>3
<1>7. ASSUME NEW t \in Callers, StopCheck(t) \/ StopRefused(t) \/ StopReturn(t)
      PROVE  SignalInv'
  BY <1>3, <1>7 DEF StopCheck, StopRefused, StopReturn, Returned, Refused, childVars
<1>8. CASE StartFails \/ StartLaunch \/ SelectStep
  BY <1>3, <1>4, <1>8 DEF StartFails, StartLaunch, SelectStep, SelectReady, SelectScanErr,
     SelectDone, SelectTimeout, childVars
<1>9. CASE UNCHANGED <<signals, pc>>
  BY <1>2, <1>9
<1> QED
  BY <1>5, <1>6, <1>7, <1>8, <1>9
  DEF Next, vars, ScanStep, WaitStep, ChildHandshake, ChildPrint, ChildExit, ChildSignaled,
      ScanRead, ScanReady, ScanFails, ScanSend, ScanForward, ScanEOF, WaitReap, WaitSetErr,
      WaitClose, StopStep, Expire, childVars

\* Neither StartProcess nor a Stop that was not refused its signal returns to a
\* subprocess that lives, and none is launched after they have.
LEMMA OrphanStep == ASSUME TypeOK, LifeInv, NoOrphan, [Next]_vars PROVE NoOrphan'
<1> USE ActorsAssumption DEF TypeOK, LifeInv, NoOrphan
<1>1. child = "reaped" => child' = "reaped"
  BY Onwards
<1>2. CASE UNCHANGED pc
  <2>1. child = "none" => child' = "none"
    BY <1>2 DEF Next, vars, ScanStep, WaitStep, SelectStep, StopStep, ChildHandshake,
       ChildPrint, ChildExit, ChildSignaled, ScanRead, ScanReady, ScanFails, ScanSend,
       ScanForward, ScanEOF, WaitReap, WaitSetErr, WaitClose, StartFails, StartLaunch,
       SelectReady, SelectScanErr, SelectDone, SelectTimeout, StopCheck, StopSignal,
       StopRefused, StopKill, StopReturn, Expire, Returned, childVars
  <2> QED
    BY <1>1, <1>2, <2>1
<1>3. ASSUME NEW t \in Callers, NEW to, UNCHANGED child, pc' = [pc EXCEPT ![t] = to],
             to \in {"failed", "returned"} => child = "reaped" \/ (t = Starter /\ child = "none")
      PROVE  NoOrphan'
  BY <1>3
<1>4. Starter \in Callers
  OBVIOUS
<1>5. CASE StartFails \/ SelectStep
  BY <1>3, <1>4, <1>5 DEF StartFails, SelectStep, SelectReady, SelectScanErr, SelectDone,
     SelectTimeout, childVars
<1>6. CASE StartLaunch
  <2>1. child = "none" /\ pc' = [pc EXCEPT ![Starter] = "select"]
    BY <1>6 DEF StartLaunch
  <2> QED
    BY <2>1
<1>7. ASSUME NEW t \in Callers, StopCheck(t) \/ StopStep(t) PROVE NoOrphan'
  BY <1>3, <1>7 DEF StopCheck, StopStep, StopSignal, StopRefused, StopKill, StopReturn,
     Returned, Refused, childVars
<1> QED
  BY <1>2, <1>5, <1>6, <1>7
  DEF Next, vars, ScanStep, WaitStep, ChildHandshake, ChildPrint, ChildExit, ChildSignaled,
      ScanRead, ScanReady, ScanFails, ScanSend, ScanForward, ScanEOF, WaitReap, WaitSetErr,
      WaitClose, Expire

----------------------------------------------------------------------------
(* The end of scanStdout.                                                  *)

\* scanStdout gives up for one of three reasons, each of which lasts: it
\* consumes nothing more, nobody reopens the pipe, and a subprocess that is
\* gone prints nothing.
LEMMA ScanInvStep == ASSUME TypeOK, LifeInv, ScanInv, [Next]_vars PROVE ScanInv'
<1> USE DEF TypeOK, ScanInv, GaveUp, childVars, scanVars
<1>1. child \in {"zombie", "reaped"} => child' \in {"zombie", "reaped"}
  BY Onwards
<1>2. ASSUME NEW line, ChildHandshake(line) \/ ChildPrint(line) PROVE ScanInv'
  BY <1>2 DEF ChildHandshake, ChildPrint
<1>3. CASE ScanRead \/ ScanReady \/ ScanForward
  BY <1>3 DEF ScanRead, ScanReady, ScanForward
<1>4. CASE ScanFails
  BY <1>4 DEF ScanFails
<1>5. CASE ScanSend
  BY <1>5 DEF ScanSend
<1>6. CASE ScanEOF
  BY <1>6 DEF ScanEOF
<1>7. CASE WaitReap
  BY <1>7 DEF WaitReap
<1>8. CASE StartLaunch
  BY <1>8 DEF StartLaunch
<1>9. CASE UNCHANGED <<scan, buf, pipe, pipeClosed>>
  BY <1>1, <1>9
<1> QED
  BY <1>2, <1>3, <1>4, <1>5, <1>6, <1>7, <1>8, <1>9
  DEF Next, vars, ScanStep, WaitStep, ChildExit, ChildSignaled, WaitSetErr, WaitClose,
      StartFails, SelectStep, SelectReady, SelectScanErr, SelectDone, SelectTimeout,
      StopStep, StopCheck, StopSignal, StopRefused, StopKill, StopReturn, Expire

----------------------------------------------------------------------------
(* Who waits for whom.                                                     *)

\* Only the two goroutines and their starting end their being awaited; a caller
\* moves on without touching what the others wait for.
LEMMA WaitInvStep == ASSUME TypeOK, LifeInv, WaitInv, [Next]_vars PROVE WaitInv'
<1> USE ActorsAssumption DEF TypeOK, LifeInv, WaitInv, childVars, scanVars, waitVars, chanVars
<1> DEFINE Killed == "KILL" \in signals \/ child = "reaped"
<1>1. Killed => Killed'
  BY Onwards
<1>2. Starter \in Callers /\ \A t \in Callers : t # Starter => t \in Stoppers
  BY DEF Callers
<1>3. CASE ChildExit \/ ChildSignaled
  BY <1>3 DEF ChildExit, ChildSignaled, Gone
<1>4. ASSUME NEW line, ChildHandshake(line) \/ ChildPrint(line) PROVE WaitInv'
  BY <1>4 DEF ChildHandshake, ChildPrint
<1>5. CASE ScanStep
  BY <1>5 DEF ScanStep, ScanRead, ScanReady, ScanFails, ScanSend, ScanForward, ScanEOF
<1>6. CASE WaitReap
  BY <1>6 DEF WaitReap
<1>7. CASE WaitSetErr \/ WaitClose
  BY <1>7 DEF WaitSetErr, WaitClose
<1>8. CASE StartLaunch
  <2>1. /\ pc' = [pc EXCEPT ![Starter] = "select"] /\ waiter' = "wait" /\ child' = "running"
        /\ pc[Starter] = "idle" /\ scan = "none" /\ UNCHANGED <<signals, chanVars, sawReady>>
    BY <1>8 DEF StartLaunch
  <2>2. pc'[Starter] = "select" /\ \A t \in Callers \ {Starter} : pc'[t] = pc[t]
    BY <1>2, <2>1
  <2>3. child = "none"
    BY <2>1
  <2> QED
    BY <2>1, <2>2, <2>3
<1>9. ASSUME NEW t \in Callers, NEW to \in StarterPC \cup StopperPC, to # "idle",
             pc' = [pc EXCEPT ![t] = to],
             waiter = "none" => to = "failed",
             to = "killed" => Killed',
             UNCHANGED <<child, waiter, done, scan, sawReady, scanErrCh>>,
             readyCh' => readyCh
      PROVE  WaitInv'
  <2>1. pc'[t] = to /\ \A u \in Callers \ {t} : pc'[u] = pc[u]
    BY <1>9
  <2>2. \A u \in Callers : pc'[u] = "killed" => Killed'
    BY <1>1, <1>9, <2>1
  <2>3. waiter' = "none" => \A u \in Callers : pc'[u] \in {"idle", "failed"}
    BY <1>9, <2>1
  <2>4. pc'[Starter] = "idle" => scan' = "none"
    BY <1>2, <1>9, <2>1
  <2> QED
    BY <1>9, <2>2, <2>3, <2>4
<1>10. CASE StartFails
  BY <1>2, <1>9, <1>10 DEF StartFails, StarterPC
<1>11. CASE SelectReady
  BY <1>2, <1>9, <1>11 DEF SelectReady, StarterPC
<1>12. CASE SelectScanErr
  <2>1. /\ pc[Starter] = "select" /\ pc' = [pc EXCEPT ![Starter] = "check"] /\ ~ scanErrCh'
        /\ UNCHANGED <<child, signals, waiter, done, scan, sawReady, readyCh>>
    BY <1>12 DEF SelectScanErr
  <2>2. pc'[Starter] = "check" /\ \A u \in Callers \ {Starter} : pc'[u] = pc[u]
    BY <1>2, <2>1
  <2>3. waiter # "none"
    BY <1>2, <2>1
  <2> QED
    BY <2>1, <2>2, <2>3
<1>13. CASE SelectDone \/ SelectTimeout
  BY <1>2, <1>9, <1>13 DEF SelectDone, SelectTimeout, StarterPC
<1>14. ASSUME NEW t \in Callers, StopCheck(t) PROVE WaitInv'
  <2>1. \E to \in {"failed", "returned", "signal"} : pc' = [pc EXCEPT ![t] = to]
    BY <1>14 DEF StopCheck, Returned
  <2>2. waiter # "none"
    BY <1>2, <1>14 DEF StopCheck
  <2> QED
    BY <1>9, <1>14, <2>1, <2>2 DEF StopCheck, StarterPC, StopperPC
<1>15. ASSUME NEW t \in Callers, StopSignal(t) PROVE WaitInv'
  BY <1>9, <1>15 DEF StopSignal, StarterPC
<1>16. ASSUME NEW t \in Callers, StopKill(t) PROVE WaitInv'
  <2>1. /\ pc[t] = "wait" /\ pc' = [pc EXCEPT ![t] = "killed"]
        /\ signals' = IF child = "reaped" THEN signals ELSE signals \cup {"KILL"}
        /\ UNCHANGED <<child, waiter, done, scan, sawReady, scanErrCh, readyCh>>
    BY <1>16 DEF StopKill
  <2>2. Killed'
    BY <2>1
  <2> QED
    BY <1>9, <2>1, <2>2 DEF StarterPC
<1>17. ASSUME NEW t \in Callers, StopReturn(t) PROVE WaitInv'
  <2>1. \E to \in {"failed", "returned"} : pc' = [pc EXCEPT ![t] = to]
    BY <1>17 DEF StopReturn, Returned
  <2>2. waiter # "none"
    BY <1>17 DEF StopReturn
  <2> QED
    BY <1>9, <1>17, <2>1, <2>2 DEF StopReturn, StarterPC, StopperPC
<1>18. CASE UNCHANGED vars \/ \E t \in Callers : Expire(t)
  BY <1>18 DEF vars, Expire
<1>19. ASSUME NEW t \in Callers, StopRefused(t) PROVE WaitInv'
  <2>1. \E to \in {"abandoned", "refused"} : pc' = [pc EXCEPT ![t] = to]
    BY <1>19 DEF StopRefused, Refused
  <2>2. waiter # "none"
    BY <1>19 DEF StopRefused
  <2> QED
    BY <1>9, <1>19, <2>1, <2>2 DEF StopRefused, StarterPC, StopperPC
<1> QED
  BY <1>3, <1>4, <1>5, <1>6, <1>7, <1>8, <1>10, <1>11, <1>12, <1>13, <1>14, <1>15, <1>16,
     <1>17, <1>18, <1>19 DEF Next, WaitStep, SelectStep, StopStep

----------------------------------------------------------------------------
(* The theorems.                                                           *)

\* Nothing has been started yet.
LEMMA ProcessInit == Init => ProcessInv
<1> SUFFICES ASSUME Init PROVE ProcessInv
  OBVIOUS
<1> USE BoundsAssumption, ActorsAssumption DEF Init
<1>1. \A t \in Callers : pc[t] = "idle"
  OBVIOUS
<1>2. printed \in BOOLEAN /\ pipeClosed \in BOOLEAN /\ sawReady \in BOOLEAN
      /\ readyCh \in BOOLEAN /\ scanErrCh \in BOOLEAN /\ err \in BOOLEAN /\ done \in BOOLEAN
  OBVIOUS
<1>3. TypeOK
  BY <1>1, <1>2 DEF TypeOK, StarterPC, StopperPC
<1>4. LifeInv /\ SignalInv /\ NoOrphan
  BY <1>1 DEF LifeInv, SignalInv, NoOrphan, TermBeforeKill
<1>5. FlowInv
  BY DEF FlowInv, Holds, Ones
<1>6. ScanInv
  BY DEF ScanInv
<1>7. WaitInv
  BY <1>1 DEF WaitInv
<1> QED
  BY <1>3, <1>4, <1>5, <1>6, <1>7 DEF ProcessInv

\* Every step keeps the inductive invariant.
LEMMA ProcessStep == ProcessInv /\ [Next]_vars => ProcessInv'
<1> SUFFICES ASSUME ProcessInv, [Next]_vars PROVE ProcessInv'
  OBVIOUS
<1> QED
  BY TypeStep, FlowStep, LifeStep, SignalStep, OrphanStep, ScanInvStep, WaitInvStep DEF ProcessInv

\* The inductive invariant holds in every state.
LEMMA ProcessInvariant == Spec => []ProcessInv
  BY ProcessInit, ProcessStep, PTL DEF Spec

\* Every variable of the runtime handle keeps its type; in particular
\* scanStdout never passes on more lines than were printed.
THEOREM ProcessTypes == Spec => []TypeOK
<1>1. ProcessInv => TypeOK
  BY DEF ProcessInv
<1> QED
  BY <1>1, ProcessInvariant, PTL

\* Nobody waits for what is not on its way: p.done is going to be closed once the
\* subprocess exits, which everybody in Stop has told it to, and scanStdout finds
\* room for what it sends.
THEOREM ProcessWaitsAreAnswered == Spec => []WaitsAreAnswered
<1>1. ProcessInv => WaitsAreAnswered
  <2> SUFFICES ASSUME ProcessInv PROVE WaitsAreAnswered
    OBVIOUS
  <2> USE DEF ProcessInv
  <2>1. ASSUME NEW t \in Callers, pc[t] \in {"select", "signal", "wait", "killed"}
        PROVE  \/ done
               \/ waiter \in {"gotErr", "setErr"}
               \/ waiter = "wait" /\ child \in {"running", "zombie"}
    BY <2>1 DEF WaitInv, TypeOK
  <2>2. ASSUME NEW t \in Callers, pc[t] = "wait" PROVE "TERM" \in signals \/ child = "reaped"
    BY <2>2 DEF SignalInv
  <2>3. ASSUME NEW t \in Callers, pc[t] = "killed" PROVE "KILL" \in signals \/ child = "reaped"
    BY <2>3 DEF WaitInv
  <2>4. SendsNeverBlock
    BY DEF WaitInv, SendsNeverBlock
  <2> QED
    BY <2>1, <2>2, <2>3, <2>4 DEF WaitsAreAnswered, DoneIsComing
<1> QED
  BY <1>1, ProcessInvariant, PTL

\* Only a refused signal leaves a subprocess behind, p.done is closed after p.err is set, SIGKILL
\* comes after SIGTERM, all the output is passed on, and no wait is in vain, whoever
\* stops the subprocess, however often, and whatever it does.
THEOREM ProcessIsSafe == Spec => []ProcessSafe
<1>1. ProcessInv => NoOrphan /\ DoneMeansErr /\ TermBeforeKill /\ OutputComplete
  <2> SUFFICES ASSUME ProcessInv
               PROVE  NoOrphan /\ DoneMeansErr /\ TermBeforeKill /\ OutputComplete
    OBVIOUS
  <2> USE DEF ProcessInv
  <2>1. DoneMeansErr
    BY DEF LifeInv, DoneMeansErr
  <2>2. TermBeforeKill
    BY DEF SignalInv
  <2>3. ASSUME scan = "dead", ~ GaveUp, ~ pipeClosed PROVE forwarded = written
    <3>1. buf = <<>> /\ pipe = <<>>
      BY <2>3 DEF ScanInv
    <3>2. ~ Holds(buf) /\ ~ Holds(pipe) /\ Len(buf) = 0 /\ Len(pipe) = 0
      BY <3>1 DEF Holds
    <3>3. printed <=> sawReady
      BY <3>2 DEF FlowInv
    <3> QED
      BY <3>2, <3>3, BoundsAssumption DEF FlowInv, Ones, TypeOK
  <2> QED
    BY <2>1, <2>2, <2>3 DEF OutputComplete
<1> QED
  BY <1>1, ProcessInvariant, ProcessWaitsAreAnswered, PTL DEF ProcessSafe

----------------------------------------------------------------------------
(* The handle that StartProcess returns, as its callers see it.            *)

start == CASE pc[Starter] = "idle" -> "idle"
           [] pc[Starter] \in {"ready", "failed", "abandoned"} -> pc[Starter]
           [] OTHER -> "starting"
alive == child \in {"running", "zombie"}
stop == [t \in Stoppers |-> IF pc[t] \in {"idle", "returned", "refused"} THEN pc[t]
                            ELSE "stopping"]

\* The initial states of the process are initial states of the handle.
LEMMA HandleInit == Init => Handle!Init
<1> SUFFICES ASSUME Init PROVE Handle!Init
  OBVIOUS
<1>1. \A t \in Callers : pc[t] = "idle"
  BY DEF Init
<1>2. start = "idle" /\ alive = FALSE
  BY <1>1 DEF Init, start, alive
<1>3. stop = [t \in Stoppers |-> "idle"]
  BY <1>1 DEF stop
<1> QED
  BY <1>2, <1>3 DEF Handle!Init, start, alive, stop

\* Each step is a step of the handle, or none.
LEMMA HandleStep == ASSUME ProcessInv, [Next]_vars PROVE [Handle!Next]_(Handle!vars)
<1> DEFINE Step == [Handle!Next]_(Handle!vars)
<1> USE ActorsAssumption DEF ProcessInv, TypeOK, LifeInv
<1>1. ASSUME UNCHANGED <<start, alive, stop>> PROVE Step
  BY <1>1 DEF Handle!vars, start, alive, stop
<1>2. ASSUME NEW to \in StarterPC, pc' = [pc EXCEPT ![Starter] = to]
      PROVE  /\ UNCHANGED stop
             /\ start' = CASE to = "idle" -> "idle"
                           [] to \in {"ready", "failed", "abandoned"} -> to
                           [] OTHER -> "starting"
  BY <1>2 DEF start, stop
<1>3. ASSUME NEW t \in Stoppers, NEW to \in StopperPC, pc' = [pc EXCEPT ![t] = to]
      PROVE  /\ UNCHANGED start
             /\ stop' = [stop EXCEPT ![t] = IF to \in {"idle", "returned", "refused"} THEN to
                                            ELSE "stopping"]
  BY <1>3 DEF start, stop
<1>4. ASSUME UNCHANGED <<pc, alive>> PROVE Step
  BY <1>1, <1>4 DEF start, stop
<1>5. UNCHANGED child => UNCHANGED alive
  BY DEF alive
<1>6. done => ~ alive
  BY DEF alive
\* The subprocess.
<1>7. ASSUME NEW line, ChildHandshake(line) \/ ChildPrint(line) PROVE Step
  BY <1>4, <1>5, <1>7 DEF ChildHandshake, ChildPrint
<1>8. CASE ChildExit \/ ChildSignaled
  <2>1. UNCHANGED <<pc, alive>>
    BY <1>8 DEF ChildExit, ChildSignaled, Gone, alive
  <2> QED
    BY <1>4, <2>1
\* scanStdout and wait.
<1>9. CASE ScanStep \/ WaitSetErr \/ WaitClose
  BY <1>4, <1>5, <1>9 DEF ScanStep, ScanRead, ScanReady, ScanFails, ScanSend, ScanForward,
     ScanEOF, WaitSetErr, WaitClose, childVars
<1>10. CASE WaitReap
  <2>1. alive /\ alive' = FALSE /\ UNCHANGED pc
    BY <1>10 DEF WaitReap, alive
  <2>2. UNCHANGED <<start, stop>>
    BY <2>1 DEF start, stop
  <2>3. Handle!Die
    BY <2>1, <2>2 DEF Handle!Die, start, alive, stop
  <2> QED
    BY <2>3 DEF Handle!Next
\* StartProcess.
<1>11. CASE StartFails
  <2>1. pc[Starter] = "idle" /\ pc' = [pc EXCEPT ![Starter] = "failed"] /\ UNCHANGED child
    BY <1>11 DEF StartFails, childVars
  <2>2. start = "idle" /\ start' = "failed" /\ UNCHANGED <<alive, stop>>
    BY <1>2, <1>5, <2>1 DEF StarterPC, start
  <2>3. Handle!CannotLaunch
    BY <2>2 DEF Handle!CannotLaunch, start, alive, stop
  <2> QED
    BY <2>3 DEF Handle!Next
<1>12. CASE StartLaunch
  <2>1. pc[Starter] = "idle" /\ pc' = [pc EXCEPT ![Starter] = "select"] /\ child' = "running"
    BY <1>12 DEF StartLaunch
  <2>2. start = "idle" /\ start' = "starting" /\ alive' = TRUE /\ UNCHANGED stop
    BY <1>2, <2>1 DEF StarterPC, start, alive
  <2>3. Handle!Launch
    BY <2>2 DEF Handle!Launch, start, alive, stop
  <2> QED
    BY <2>3 DEF Handle!Next
<1>13. CASE SelectReady
  <2>1. pc[Starter] = "select" /\ pc' = [pc EXCEPT ![Starter] = "ready"] /\ UNCHANGED child
    BY <1>13 DEF SelectReady, childVars
  <2>2. start = "starting" /\ start' = "ready" /\ UNCHANGED <<alive, stop>>
    BY <1>2, <1>5, <2>1 DEF StarterPC, start
  <2>3. Handle!BecomeReady
    BY <2>2 DEF Handle!BecomeReady, start, alive, stop
  <2> QED
    BY <2>3 DEF Handle!Next
<1>14. CASE SelectScanErr \/ SelectTimeout
  <2>1. pc[Starter] = "select" /\ pc' = [pc EXCEPT ![Starter] = "check"] /\ UNCHANGED child
    BY <1>14 DEF SelectScanErr, SelectTimeout, childVars
  <2>2. start = "starting" /\ UNCHANGED <<start, alive, stop>>
    BY <1>2, <1>5, <2>1 DEF StarterPC, start
  <2> QED
    BY <1>1, <2>2
\* StartProcess returns an error, from its select or from Stop.
<1>15. ASSUME pc[Starter] \in {"select", "check", "wait", "killed"}, done, UNCHANGED child,
              pc' = [pc EXCEPT ![Starter] = "failed"]
       PROVE  Step
  <2>1. start = "starting" /\ start' = "failed" /\ ~ alive /\ UNCHANGED <<alive, stop>>
    BY <1>2, <1>5, <1>6, <1>15 DEF StarterPC, start
  <2>2. Handle!GiveUp
    BY <2>1 DEF Handle!GiveUp, start, alive, stop
  <2> QED
    BY <2>2 DEF Handle!Next
<1>16. CASE SelectDone
  BY <1>15, <1>16 DEF SelectDone, childVars
\* Stop, called by the Starter.
<1>17. CASE StopCheck(Starter) \/ StopReturn(Starter)
  <2>1. CASE done
    BY <1>15, <1>17, <2>1 DEF StopCheck, StopReturn, Returned, childVars
  <2>2. CASE ~ done
    <3>1. pc[Starter] = "check" /\ pc' = [pc EXCEPT ![Starter] = "signal"] /\ UNCHANGED child
      BY <1>17, <2>2 DEF StopCheck, StopReturn, childVars
    <3>2. start = "starting" /\ UNCHANGED <<start, alive, stop>>
      BY <1>2, <1>5, <3>1 DEF StarterPC, start
    <3> QED
      BY <1>1, <3>2
  <2> QED
    BY <2>1, <2>2
<1>18. CASE StopSignal(Starter)
  <2>1. pc[Starter] = "signal" /\ pc' = [pc EXCEPT ![Starter] = "wait"] /\ UNCHANGED child
    BY <1>18 DEF StopSignal
  <2>2. start = "starting" /\ UNCHANGED <<start, alive, stop>>
    BY <1>2, <1>5, <2>1 DEF StarterPC, start
  <2> QED
    BY <1>1, <2>2
\* Stop, called by anybody else.
<1>19. ASSUME NEW t \in Stoppers, StopCheck(t) PROVE Step
  <2>1. /\ pc[t] \in {"idle", "returned", "refused"} /\ pc[Starter] = "ready" /\ UNCHANGED child
        /\ pc' = [pc EXCEPT ![t] = IF done THEN "returned" ELSE "signal"]
    BY <1>19 DEF StopCheck, Returned, childVars
  <2>2. start = "ready" /\ UNCHANGED <<start, alive>> /\ stop[t] # "stopping"
    BY <1>3, <1>5, <2>1 DEF StopperPC, start, stop
  <2>3. CASE done
    <3>1. stop' = [stop EXCEPT ![t] = "returned"] /\ ~ alive
      BY <1>3, <1>6, <2>1, <2>3 DEF StopperPC
    <3>2. Handle!StopAtOnce(t)
      BY <2>2, <3>1 DEF Handle!StopAtOnce, start, alive, stop
    <3> QED
      BY <3>2 DEF Handle!Next
  <2>4. CASE ~ done
    <3>1. stop' = [stop EXCEPT ![t] = "stopping"]
      BY <1>3, <2>1, <2>4 DEF StopperPC
    <3>2. Handle!CallStop(t)
      BY <2>2, <3>1 DEF Handle!CallStop, start, alive, stop
    <3> QED
      BY <3>2 DEF Handle!Next
  <2> QED
    BY <2>3, <2>4
<1>20. ASSUME NEW t \in Stoppers, StopSignal(t) \/ StopKill(t) PROVE Step
  <2>1. PICK to \in {"wait", "killed"} :
          pc[t] \in {"signal", "wait"} /\ pc' = [pc EXCEPT ![t] = to] /\ UNCHANGED child
    BY <1>20 DEF StopSignal, StopKill
  <2>2. stop' = [stop EXCEPT ![t] = "stopping"] /\ stop[t] = "stopping" /\ UNCHANGED start
    BY <1>3, <2>1 DEF StopperPC, stop
  <2>3. UNCHANGED stop
    BY <2>2 DEF stop
  <2> QED
    BY <1>1, <1>5, <2>1, <2>2, <2>3
<1>21. ASSUME NEW t \in Stoppers, StopReturn(t) PROVE Step
  <2>1. /\ pc[t] \in {"wait", "killed"} /\ done /\ pc' = [pc EXCEPT ![t] = "returned"]
        /\ UNCHANGED child
    BY <1>21 DEF StopReturn, Returned, childVars
  <2>2. /\ stop[t] = "stopping" /\ stop' = [stop EXCEPT ![t] = "returned"] /\ ~ alive
        /\ UNCHANGED <<start, alive>>
    BY <1>3, <1>5, <1>6, <2>1 DEF StopperPC, stop
  <2>3. Handle!ReturnStop(t)
    BY <2>2 DEF Handle!ReturnStop, start, alive, stop
  <2> QED
    BY <2>3 DEF Handle!Next
<1>22. ASSUME NEW t \in Callers, Expire(t) PROVE Step
  BY <1>4, <1>5, <1>22 DEF Expire, childVars
<1>23. CASE UNCHANGED vars
  BY <1>4, <1>5, <1>23 DEF vars, childVars
<1>24. ~ StopKill(Starter)
  BY DEF StopKill
\* A signal is refused.
<1>25. CASE StopRefused(Starter)
  <2>1. pc[Starter] = "signal" /\ pc' = [pc EXCEPT ![Starter] = "abandoned"] /\ UNCHANGED child
    BY <1>25 DEF StopRefused, Refused, childVars
  <2>2. start = "starting" /\ start' = "abandoned" /\ UNCHANGED <<alive, stop>>
    BY <1>2, <1>5, <2>1 DEF StarterPC, start
  <2>3. Handle!Abandon
    BY <2>2 DEF Handle!Abandon, start, alive, stop
  <2> QED
    BY <2>3 DEF Handle!Next
<1>26. ASSUME NEW t \in Stoppers, StopRefused(t) PROVE Step
  <2>1. pc[t] = "signal" /\ pc' = [pc EXCEPT ![t] = "refused"] /\ UNCHANGED child
    BY <1>26 DEF StopRefused, Refused, childVars
  <2>2. /\ stop[t] = "stopping" /\ stop' = [stop EXCEPT ![t] = "refused"]
        /\ UNCHANGED <<start, alive>>
    BY <1>3, <1>5, <2>1 DEF StopperPC, stop
  <2>3. Handle!RefuseStop(t)
    BY <2>2 DEF Handle!RefuseStop, start, alive, stop
  <2> QED
    BY <2>3 DEF Handle!Next
<1> QED
  BY <1>7, <1>8, <1>9, <1>10, <1>11, <1>12, <1>13, <1>14, <1>16, <1>17, <1>18, <1>19, <1>20,
     <1>21, <1>22, <1>23, <1>24, <1>25, <1>26 DEF Next, WaitStep, SelectStep, StopStep

\* Whatever the scheduling and the subprocess, StartProcess and Stop start as
\* RuntimeHandle says, and each step is one of RuntimeHandle's or invisible to
\* the callers: StartProcess fails, and Stop returns, only when no subprocess
\* is left behind, or when the signal to it was refused.
THEOREM ProcessImplementsHandle == Spec => Handle!Safety
<1>1. Init => Handle!Init
  BY HandleInit
<1>2. ProcessInv /\ [Next]_vars => [Handle!Next]_(Handle!vars)
  BY HandleStep
<1> QED
  BY <1>1, <1>2, ProcessInvariant, PTL DEF Spec, Handle!Safety
----------------------------------------------------------------------------
(* What RuntimeHandle comes to.                                            *)

\* No step of RuntimeHandle breaks its promise: a subprocess is created once, and
\* it does not come back.
LEMMA PromiseStep ==
  ASSUME Handle!Promise, [Handle!Next]_(Handle!vars) PROVE Handle!Promise'
<1> USE DEF Handle!Promise
<1>1. CASE Handle!Launch \/ Handle!CannotLaunch
  BY <1>1 DEF Handle!Launch, Handle!CannotLaunch
<1>2. CASE Handle!BecomeReady \/ Handle!GiveUp \/ Handle!Abandon \/ Handle!Die
  BY <1>2 DEF Handle!BecomeReady, Handle!GiveUp, Handle!Abandon, Handle!Die
<1>3. ASSUME NEW t \in Stoppers,
             \/ Handle!CallStop(t) \/ Handle!ReturnStop(t) \/ Handle!RefuseStop(t)
             \/ Handle!StopAtOnce(t)
      PROVE  Handle!Promise'
  BY <1>3 DEF Handle!CallStop, Handle!ReturnStop, Handle!RefuseStop, Handle!StopAtOnce
<1>4. CASE UNCHANGED Handle!vars
  BY <1>4 DEF Handle!vars
<1> QED
  BY <1>1, <1>2, <1>3, <1>4 DEF Handle!Next

\* Whatever keeps to the steps of RuntimeHandle keeps its promise to those who look
\* at results only, which is all that Serve and Benchmark look at.
THEOREM HandleKeepsPromise == Handle!Safety => []Handle!Promise
<1>1. Handle!Init => Handle!Promise
  BY DEF Handle!Init, Handle!Promise
<1> QED
  BY <1>1, PromiseStep, PTL DEF Handle!Safety

\* StartProcess and Stop keep the promise.
THEOREM ProcessKeepsPromise == Spec => []Handle!Promise
BY ProcessImplementsHandle, HandleKeepsPromise, PTL

============================================================================
