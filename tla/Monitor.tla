------------------------------ MODULE Monitor ------------------------------
(***************************************************************************)
(* monitor/monitor.go: a Monitor samples Metrics from a background         *)
(* goroutine and hands each snapshot to its subscribers.                   *)
(*                                                                         *)
(* Threads are the application goroutines that call the Monitor (Callers)  *)
(* and the sampling goroutines it launches (Runs).  One step is one        *)
(* critical section of m.mu, one channel operation, one call of the        *)
(* Sampler or one call of a Subscriber.  The r-th launch of Start owns     *)
(* context r and channel r, so that m.cancel and m.done hold a run or      *)
(* NoRun (nil).  A Metrics value is abstracted to where it comes from and  *)
(* the time at which it was read.                                          *)
(***************************************************************************)
EXTENDS Naturals, Sequences

CONSTANTS
  Callers,      \* application goroutines
  Lifecycle,    \* the callers that call Start and Stop
  Subs,         \* subscriber functions
  MaxRuns,      \* bound: launches of the sampling goroutine
  MaxClock      \* bound: distinct times at which metrics are read

ASSUME LifecycleAssumption == Lifecycle \subseteq Callers
ASSUME BoundsAssumption == MaxRuns \in Nat /\ MaxClock \in Nat

Runs == 1 .. MaxRuns
NoRun == 0

ASSUME ThreadsAssumption == Callers \cap (0 .. MaxRuns) = {}

Threads == Callers \cup Runs

VARIABLES
  cancel,       \* m.cancel: the run whose context it cancels, or NoRun
  done,         \* m.done: the channel, named after the run it was made for
  latest,       \* m.latest
  subscribers,  \* m.subscribers
  launched,     \* number of sampling goroutines launched so far
  ctxDone,      \* runs whose context is canceled
  closed,       \* channels that are closed
  panicked,     \* a channel was closed twice
  clock,        \* the time
  pc,           \* where each thread is
  metric,       \* the Metrics (its time) a thread is about to store or deliver
  queue,        \* the rest of a thread's private copy of m.subscribers
  deferred,     \* the channel a run's deferred close will close
  stopRun,      \* a stopping caller's local copy of m.cancel
  stopDone,     \* a stopping caller's local copy of m.done
  stored,       \* history: time of the last sample a run stored in m.latest
  got           \* history: time of the last sample delivered to a subscriber

lifecycleVars == <<cancel, done, launched>>
dataVars == <<latest, subscribers, metric, queue, stored, got>>
stopVars == <<stopRun, stopDone>>
vars == <<cancel, done, latest, subscribers, launched, ctxDone, closed,
          panicked, clock, pc, metric, queue, deferred, stopRun, stopDone,
          stored, got>>

Sources == {"none", "sample", "report"}
CallerPC == {"idle", "deliver", "stopCancel", "stopWait"}
RunPC == {"none", "spawned", "sample", "store", "deliver", "select", "gone"}

Init ==
  /\ cancel = NoRun /\ done = NoRun /\ launched = 0
  /\ latest = [src |-> "none", at |-> 0]
  /\ subscribers = <<>>
  /\ ctxDone = {} /\ closed = {} /\ panicked = FALSE
  /\ clock = 0
  /\ pc = [t \in Threads |-> IF t \in Runs THEN "none" ELSE "idle"]
  /\ metric = [t \in Threads |-> 0]
  /\ queue = [t \in Threads |-> <<>>]
  /\ deferred = [r \in Runs |-> NoRun]
  /\ stopRun = [c \in Callers |-> NoRun]
  /\ stopDone = [c \in Callers |-> NoRun]
  /\ stored = 0
  /\ got = [s \in Subs |-> 0]

\* A panic in any goroutine ends them all.
At(t, from) == ~ panicked /\ pc[t] = from
Goto(t, to) == pc' = [pc EXCEPT ![t] = to]

----------------------------------------------------------------------------
(* Start, Stop and the caller's side of the lifecycle.                     *)

\* A bug: Start does not look at m.cancel.
StartUnguarded(c) ==
  /\ At(c, "idle") /\ launched < MaxRuns
  /\ launched' = launched + 1
  /\ cancel' = launched' /\ done' = launched'
  /\ Goto(launched', "spawned")
  /\ UNCHANGED <<ctxDone, closed, panicked, clock, deferred, dataVars, stopVars>>

\* Start, lines 43-55: a call that finds m.cancel set changes nothing.
Start(c) ==
  /\ At(c, "idle") /\ cancel = NoRun /\ launched < MaxRuns
  /\ launched' = launched + 1
  /\ cancel' = launched' /\ done' = launched'
  /\ Goto(launched', "spawned")
  /\ UNCHANGED <<ctxDone, closed, panicked, clock, deferred, dataVars, stopVars>>

\* The context given to Start is canceled by its owner, at any time.
ParentCancel(r) ==
  /\ r <= launched /\ r \notin ctxDone
  /\ ctxDone' = ctxDone \cup {r}
  /\ UNCHANGED <<lifecycleVars, closed, panicked, clock, pc, deferred, dataVars,
                 stopVars>>

\* Stop, lines 112-120.
StopLock(c) ==
  /\ At(c, "idle")
  /\ stopRun' = [stopRun EXCEPT ![c] = cancel]
  /\ stopDone' = [stopDone EXCEPT ![c] = done]
  /\ cancel' = NoRun
  /\ Goto(c, IF cancel = NoRun THEN "idle" ELSE "stopCancel")
  /\ UNCHANGED <<done, launched, ctxDone, closed, panicked, clock, deferred,
                 dataVars>>

\* A bug: Stop cancels the context but does not wait for m.done.
StopNoWait(c) ==
  /\ At(c, "stopCancel")
  /\ ctxDone' = ctxDone \cup {stopRun[c]}
  /\ Goto(c, "idle")
  /\ UNCHANGED <<lifecycleVars, closed, panicked, clock, deferred, dataVars,
                 stopVars>>

\* A bug: Stop waits for a goroutine it has not asked to end.
StopUncanceled(c) ==
  /\ At(c, "stopCancel")
  /\ Goto(c, "stopWait")
  /\ UNCHANGED <<lifecycleVars, ctxDone, closed, panicked, clock, deferred, dataVars,
                 stopVars>>

\* Stop, line 121: cancel().
StopCancel(c) ==
  /\ At(c, "stopCancel")
  /\ ctxDone' = ctxDone \cup {stopRun[c]}
  /\ Goto(c, "stopWait")
  /\ UNCHANGED <<lifecycleVars, closed, panicked, clock, deferred, dataVars,
                 stopVars>>

\* Stop, line 123: <-done.
StopReturn(c) ==
  /\ At(c, "stopWait") /\ stopDone[c] \in closed
  /\ Goto(c, "idle")
  /\ UNCHANGED <<lifecycleVars, ctxDone, closed, panicked, clock, deferred,
                 dataVars, stopVars>>

----------------------------------------------------------------------------
(* run and sampleAndNotify: the sampling goroutine.                        *)

\* A bug: the channel to close is not captured when the run begins.
RunBeginUncaptured(r) ==
  /\ At(r, "spawned")
  /\ Goto(r, "sample")
  /\ UNCHANGED <<lifecycleVars, ctxDone, closed, panicked, clock, deferred,
                 dataVars, stopVars>>

\* run, line 58: the argument of the deferred close is read now, unlocked.
RunBegin(r) ==
  /\ At(r, "spawned")
  /\ deferred' = [deferred EXCEPT ![r] = done]
  /\ Goto(r, "sample")
  /\ UNCHANGED <<lifecycleVars, ctxDone, closed, panicked, clock, dataVars, stopVars>>

\* sampleAndNotify, line 76: the Sampler reads the system.
Sample(r) ==
  /\ At(r, "sample")
  /\ metric' = [metric EXCEPT ![r] = clock]
  /\ Goto(r, "store")
  /\ UNCHANGED <<lifecycleVars, ctxDone, closed, panicked, clock, deferred, latest,
                 subscribers, queue, stored, got, stopVars>>

\* sampleAndNotify, lines 77-79: the Sampler fails.
SampleFails(r) ==
  /\ At(r, "sample")
  /\ Goto(r, "select")
  /\ UNCHANGED <<lifecycleVars, ctxDone, closed, panicked, clock, deferred,
                 dataVars, stopVars>>

\* sampleAndNotify, lines 81-85.
Store(r) ==
  /\ At(r, "store")
  /\ latest' = [src |-> "sample", at |-> metric[r]]
  /\ stored' = metric[r]
  /\ queue' = [queue EXCEPT ![r] = subscribers]
  /\ Goto(r, "deliver")
  /\ UNCHANGED <<lifecycleVars, ctxDone, closed, panicked, clock, deferred,
                 subscribers, metric, got, stopVars>>

\* run, lines 68-70: the ticker fires, whether or not ctx is done too.
RunTick(r) ==
  /\ At(r, "select")
  /\ Goto(r, "sample")
  /\ UNCHANGED <<lifecycleVars, ctxDone, closed, panicked, clock, deferred,
                 dataVars, stopVars>>

\* A bug: the goroutine returns without closing its channel.
RunExitSilently(r) ==
  /\ At(r, "select") /\ r \in ctxDone
  /\ Goto(r, "gone")
  /\ UNCHANGED <<lifecycleVars, ctxDone, closed, panicked, clock, deferred,
                 dataVars, stopVars>>

\* run, lines 67-68 and the deferred close; closing a closed channel panics.
RunExit(r) ==
  /\ At(r, "select") /\ r \in ctxDone
  /\ panicked' = (deferred[r] \in closed)
  /\ closed' = closed \cup {deferred[r]}
  /\ Goto(r, "gone")
  /\ UNCHANGED <<lifecycleVars, ctxDone, clock, deferred, dataVars, stopVars>>

----------------------------------------------------------------------------
(* Report, Subscribe, and the delivery loop Report and the run share.      *)

\* Report, lines 97-102; its Metrics were read by the caller at some time.
Report(c, at) ==
  /\ At(c, "idle")
  /\ latest' = [src |-> "report", at |-> at]
  /\ metric' = [metric EXCEPT ![c] = at]
  /\ queue' = [queue EXCEPT ![c] = subscribers]
  /\ Goto(c, "deliver")
  /\ UNCHANGED <<lifecycleVars, ctxDone, closed, panicked, clock, deferred,
                 subscribers, stored, got, stopVars>>

\* Lines 87-89 and 104-106: one call of one subscriber, outside the lock.
Deliver(t) ==
  /\ At(t, "deliver") /\ queue[t] # <<>>
  /\ got' = IF t \in Runs THEN [got EXCEPT ![Head(queue[t])] = metric[t]] ELSE got
  /\ queue' = [queue EXCEPT ![t] = Tail(@)]
  /\ UNCHANGED <<lifecycleVars, ctxDone, closed, panicked, clock, pc, deferred,
                 latest, subscribers, metric, stored, stopVars>>

DeliverEnd(t) ==
  /\ At(t, "deliver") /\ queue[t] = <<>>
  /\ Goto(t, IF t \in Runs THEN "select" ELSE "idle")
  /\ UNCHANGED <<lifecycleVars, ctxDone, closed, panicked, clock, deferred,
                 dataVars, stopVars>>

\* Subscribe; Subs bounds how often.
Subscribe(s) ==
  /\ \A i \in DOMAIN subscribers : subscribers[i] # s
  /\ subscribers' = Append(subscribers, s)
  /\ UNCHANGED <<lifecycleVars, ctxDone, closed, panicked, clock, pc, deferred,
                 latest, metric, queue, stored, got, stopVars>>

Tick ==
  /\ clock < MaxClock /\ clock' = clock + 1
  /\ UNCHANGED <<lifecycleVars, ctxDone, closed, panicked, pc, deferred, dataVars,
                 stopVars>>

----------------------------------------------------------------------------
CallerStep(c) ==
  \/ c \in Lifecycle /\ (Start(c) \/ StopLock(c) \/ StopCancel(c) \/ StopReturn(c))
  \/ \E at \in 0 .. clock : Report(c, at)

RunStep(r) ==
  RunBegin(r) \/ Sample(r) \/ SampleFails(r) \/ Store(r) \/ RunTick(r) \/ RunExit(r)

Next ==
  \/ \E c \in Callers : CallerStep(c)
  \/ \E r \in Runs : RunStep(r) \/ ParentCancel(r)
  \/ \E t \in Threads : Deliver(t) \/ DeliverEnd(t)
  \/ \E s \in Subs : Subscribe(s)
  \/ Tick

(***************************************************************************)
(* Samplers and subscribers return, so that a thread that can take a step  *)
(* of its own does.  select picks at random among the ready cases, so a    *)
(* run that waits with its context done again and again takes that case.   *)
(***************************************************************************)
Fairness ==
  /\ \A c \in Lifecycle : WF_vars(StopCancel(c) \/ StopReturn(c))
  /\ \A r \in Runs : /\ WF_vars(RunStep(r))
                     /\ SF_vars(RunExit(r))
  /\ \A t \in Threads : WF_vars(Deliver(t) \/ DeliverEnd(t))

Spec == Init /\ [][Next]_vars /\ Fairness

----------------------------------------------------------------------------
\* Every channel a run closes is one that Start made: m.done is never nil when
\* a run captures it, and m.cancel and the copies a Stop takes name real runs.
TypeOK ==
  /\ cancel \in Runs \cup {NoRun} /\ done \in Runs \cup {NoRun}
  /\ latest \in [src : Sources, at : Nat]
  /\ subscribers \in Seq(Subs)
  /\ launched \in 0 .. MaxRuns
  /\ ctxDone \subseteq Runs /\ closed \subseteq Runs
  /\ panicked \in BOOLEAN
  /\ clock \in Nat
  /\ pc \in [Threads -> CallerPC \cup RunPC]
  /\ \A c \in Callers : pc[c] \in CallerPC
  /\ \A r \in Runs : pc[r] \in RunPC
  /\ metric \in [Threads -> Nat]
  /\ queue \in [Threads -> Seq(Subs)]
  /\ deferred \in [Runs -> Runs \cup {NoRun}]
  /\ stopRun \in [Callers -> Runs \cup {NoRun}]
  /\ stopDone \in [Callers -> Runs \cup {NoRun}]
  /\ stored \in Nat
  /\ got \in [Subs -> Nat]

Alive(r) == pc[r] \notin {"none", "gone"}

\* No channel is closed twice, which would end the program with a panic
\* (run's deferred close of whatever m.done holds when the run begins).
NoDoubleClose == ~ panicked

\* Stop "waits for the background goroutine to exit": when no Stop is under
\* way and none is owed (m.cancel is nil), no sampling goroutine is alive.
StoppedMeansQuiet ==
  (cancel = NoRun /\ \A c \in Lifecycle : pc[c] \in {"idle", "deliver"})
     => \A r \in Runs : ~ Alive(r)

\* A run that will, once its context is done, close the channel ch: the one it
\* captured, or the one m.done holds if it has not begun.
WillClose(r, ch) ==
  Alive(r) /\ ch = IF pc[r] = "spawned" THEN done ELSE deferred[r]

\* A Stop that waits is answered: its channel is closed, or a goroutine that
\* was told to end is going to close that very channel.
StopIsAnswered ==
  \A c \in Lifecycle : pc[c] = "stopWait" =>
    stopDone[c] \in closed \/ \E r \in ctxDone : WillClose(r, stopDone[c])

\* However many goroutines start and stop the Monitor, none of them loses a
\* sampling goroutine: until its context is done m.cancel holds its cancel
\* function, or a Stop does that is about to call it.
NoRunForgotten ==
  \A r \in Runs : Alive(r) =>
    \/ r \in ctxDone
    \/ cancel = r
    \/ \E c \in Lifecycle : pc[c] = "stopCancel" /\ stopRun[c] = r

\* What a Stop achieves, whatever happens while it waits: it ends, and nothing
\* goes on behind it.
StopIsSound == StoppedMeansQuiet /\ StopIsAnswered /\ NoRunForgotten

\* A stored sample never replaces a newer one, across restarts as well: two
\* sampling goroutines never write m.latest side by side.
SamplesInOrder == [][stored' >= stored]_vars

\* A subscriber never gets a sample older than one it already has.
DeliveredInOrder == [][\A s \in Subs : got'[s] >= got[s]]_vars

\* Neither the samples that are stored nor what a subscriber is given go back
\* in time.  (m.latest itself may: Report stores what its caller measured.)
InOrder == SamplesInOrder /\ DeliveredInOrder

\* Every Stop returns.
StopReturns ==
  \A c \in Lifecycle : (pc[c] \in {"stopCancel", "stopWait"}) ~> (pc[c] = "idle")

\* The Monitor, seen from outside, is the sampling service of its owner.
Sampling == {r \in Runs : Alive(r)}

Phase == IF Sampling = {} THEN "off"
         ELSE IF Sampling \subseteq ctxDone THEN "ending" ELSE "on"

Service == INSTANCE SamplingService WITH phase <- Phase, newest <- stored

\* Sampling is off, on or ending; samples are published in order and only
\* while it is not off; and sampling that is asked to end does end.
ImplementsService == Service!Spec

============================================================================
