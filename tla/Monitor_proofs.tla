--------------------------- MODULE Monitor_proofs ---------------------------
(***************************************************************************)
(* Theorems about Monitor, for every number of callers, subscribers,       *)
(* launches and clock readings.                                            *)
(***************************************************************************)
EXTENDS Monitor, TLAPS

Begun(r) == pc[r] \in {"sample", "store", "deliver", "select"}
Stopping(c) == pc[c] \in {"stopCancel", "stopWait"}

USE DEF NoRun, Runs, Threads, Sources, CallerPC, RunPC, At, Goto

----------------------------------------------------------------------------
(* Type correctness, whoever calls Start and Stop.                         *)

\* No caller is also a sampling goroutine.
LEMMA CallersAreNoRuns == \A c \in Callers : c \notin Runs
<1> SUFFICES ASSUME NEW c \in Callers, c \in Runs PROVE FALSE
  OBVIOUS
<1>1. c \in 0 .. MaxRuns
  BY BoundsAssumption
<1>2. c \in Callers \cap (0 .. MaxRuns)
  BY <1>1
<1> QED
  BY <1>2, ThreadsAssumption

TypeInv ==
  /\ TypeOK
  /\ launched > 0 => done \in Runs
  /\ \A r \in Runs : pc[r] # "none" => r <= launched
  /\ \A r \in Runs : Begun(r) => deferred[r] \in Runs
  /\ \A c \in Callers : Stopping(c) => stopRun[c] \in Runs

\* The initial state has the right types.
LEMMA TypeInit == Init => TypeInv
<1> SUFFICES ASSUME Init PROVE TypeInv
  OBVIOUS
<1> USE BoundsAssumption, ThreadsAssumption DEF Init
<1>1. /\ cancel = 0 /\ done = 0 /\ launched = 0 /\ launched \in 0 .. MaxRuns
      /\ clock \in Nat /\ stored \in Nat /\ ctxDone = {} /\ closed = {}
  OBVIOUS
<1>2. latest \in [src : Sources, at : Nat]
  OBVIOUS
<1>3. subscribers \in Seq(Subs) /\ queue \in [Threads -> Seq(Subs)]
  OBVIOUS
<1>4. /\ \A c \in Callers : pc[c] = "idle"
      /\ \A r \in Runs : pc[r] = "none"
      /\ pc \in [Threads -> CallerPC \cup RunPC]
  <2>1. pc = [t \in Threads |-> IF t \in Runs THEN "none" ELSE "idle"]
    BY DEF Init
  <2>2. \A c \in Callers : c \notin Runs
    BY CallersAreNoRuns
  <2> QED
    BY <2>1, <2>2
<1>5. panicked \in BOOLEAN
  <2>1. panicked = FALSE
    BY DEF Init
  <2> QED
    BY <2>1, Zenon
<1>6. metric \in [Threads -> Nat] /\ got \in [Subs -> Nat]
  OBVIOUS
<1>7. /\ deferred \in [Runs -> Runs \cup {NoRun}]
      /\ stopRun \in [Callers -> Runs \cup {NoRun}]
      /\ stopDone \in [Callers -> Runs \cup {NoRun}]
  OBVIOUS
<1>8. TypeOK
  BY <1>1, <1>2, <1>3, <1>4, <1>5, <1>6, <1>7 DEF TypeOK
<1>9. launched > 0 => done \in Runs
  BY <1>1
<1>10. \A c \in Callers : ~ Stopping(c)
  BY <1>4 DEF Stopping
<1>11. \A r \in Runs : ~ Begun(r)
  BY <1>4 DEF Begun
<1> QED
  BY <1>4, <1>8, <1>9, <1>10, <1>11 DEF TypeInv

\* Every step keeps the types; the strengthening says that a channel is
\* closed and a context canceled only after they were made.
LEMMA TypeStep == TypeInv /\ [Next]_vars => TypeInv'
<1> SUFFICES ASSUME TypeInv, [Next]_vars PROVE TypeInv'
  OBVIOUS
<1> USE BoundsAssumption, ThreadsAssumption, LifecycleAssumption
<1> USE DEF TypeInv, TypeOK, Begun, Stopping, lifecycleVars, dataVars, stopVars
<1>1. ASSUME NEW c \in Callers, Start(c) PROVE TypeInv'
  <2> DEFINE k == launched + 1
  <2>1. k \in Runs /\ k \notin Callers
    BY <1>1 DEF Start
  <2>2. cancel' = k /\ done' = k /\ launched' = k /\ pc' = [pc EXCEPT ![k] = "spawned"]
    BY <1>1 DEF Start
  <2>3. UNCHANGED <<ctxDone, closed, panicked, clock, deferred, latest, subscribers,
                    metric, queue, stored, got, stopRun, stopDone>>
    BY <1>1 DEF Start
  <2>4. pc'[k] = "spawned" /\ \A t \in Threads \ {k} : pc'[t] = pc[t]
    BY <2>1, <2>2
  <2>5. TypeOK'
    BY SMTT(60), <2>1, <2>2, <2>3
  <2>6. \A r \in Runs : pc'[r] # "none" => r <= launched'
    BY <2>1, <2>2, <2>4
  <2>7. \A r \in Runs : Begun(r)' => deferred'[r] \in Runs
    BY <2>1, <2>3, <2>4
  <2>8. \A d \in Callers : Stopping(d)' => stopRun'[d] \in Runs
    BY <2>1, <2>3, <2>4
  <2> QED
    BY <2>1, <2>2, <2>5, <2>6, <2>7, <2>8
<1>2. ASSUME NEW r \in Runs, ParentCancel(r) PROVE TypeInv'
  BY <1>2 DEF ParentCancel
<1>3. ASSUME NEW c \in Callers, StopLock(c) PROVE TypeInv'
  BY SMTT(60), <1>3 DEF StopLock
<1>4. ASSUME NEW c \in Callers, StopCancel(c) PROVE TypeInv'
  <2>1. /\ pc[c] = "stopCancel" /\ pc' = [pc EXCEPT ![c] = "stopWait"]
        /\ ctxDone' = ctxDone \cup {stopRun[c]}
        /\ UNCHANGED <<cancel, done, launched, closed, panicked, clock, deferred, latest,
                       subscribers, metric, queue, stored, got, stopRun, stopDone>>
    BY <1>4 DEF StopCancel
  <2>2. stopRun[c] \in Runs /\ c \notin Runs
    BY <2>1, CallersAreNoRuns
  <2>3. ctxDone' \subseteq Runs
    BY <2>1, <2>2
  <2>4. \A r \in Runs : pc'[r] = pc[r]
    BY <2>1, <2>2
  <2>5. pc' \in [Threads -> CallerPC \cup RunPC] /\ \A d \in Callers : pc'[d] \in CallerPC
    BY <2>1 DEF CallerPC, RunPC
  <2>6. \A d \in Callers : Stopping(d)' => Stopping(d)
    BY <2>1
  <2>7. TypeOK'
    BY <2>1, <2>3, <2>4, <2>5
  <2> QED
    BY <2>1, <2>4, <2>6, <2>7
<1>5. ASSUME NEW c \in Callers, StopReturn(c) PROVE TypeInv'
  BY <1>5 DEF StopReturn
<1>6. ASSUME NEW r \in Runs, RunBegin(r) PROVE TypeInv'
  BY <1>6 DEF RunBegin
<1>7. ASSUME NEW r \in Runs, Sample(r) PROVE TypeInv'
  BY <1>7 DEF Sample
<1>8. ASSUME NEW r \in Runs, SampleFails(r) PROVE TypeInv'
  BY <1>8 DEF SampleFails
<1>9. ASSUME NEW r \in Runs, Store(r) PROVE TypeInv'
  BY <1>9 DEF Store
<1>10. ASSUME NEW r \in Runs, RunTick(r) PROVE TypeInv'
  BY <1>10 DEF RunTick
<1>11. ASSUME NEW r \in Runs, RunExit(r) PROVE TypeInv'
  <2>1. panicked' \in BOOLEAN
    BY <1>11 DEF RunExit
  <2>2. deferred[r] \in Runs
    BY <1>11 DEF RunExit
  <2>3. /\ closed' = closed \cup {deferred[r]}
        /\ pc' = [pc EXCEPT ![r] = "gone"] /\ pc[r] = "select"
        /\ UNCHANGED <<cancel, done, launched, ctxDone, clock, deferred, latest,
                       subscribers, metric, queue, stored, got, stopRun, stopDone>>
    BY <1>11 DEF RunExit
  <2> QED
    BY <2>1, <2>2, <2>3
<1>12. ASSUME NEW c \in Callers, NEW at \in 0 .. clock, Report(c, at) PROVE TypeInv'
  BY SMTT(60), <1>12 DEF Report
<1>13. ASSUME NEW t \in Threads, Deliver(t) PROVE TypeInv'
  BY SMTT(60), <1>13 DEF Deliver
<1>14. ASSUME NEW t \in Threads, DeliverEnd(t) PROVE TypeInv'
  BY <1>14 DEF DeliverEnd
<1>15. ASSUME NEW s \in Subs, Subscribe(s) PROVE TypeInv'
  BY <1>15 DEF Subscribe
<1>16. CASE Tick
  BY <1>16 DEF Tick
<1>17. CASE UNCHANGED vars
  BY <1>17 DEF vars
<1> QED
  BY <1>1, <1>2, <1>3, <1>4, <1>5, <1>6, <1>7, <1>8, <1>9, <1>10, <1>11, <1>12,
     <1>13, <1>14, <1>15, <1>16, <1>17 DEF Next, CallerStep, RunStep

\* Every variable of the Monitor keeps its type, whoever uses it and however.
THEOREM TypeCorrect == Spec => []TypeOK
<1>1. TypeInv => TypeOK
  BY DEF TypeInv
<1> QED
  BY <1>1, TypeInit, TypeStep, PTL DEF Spec

----------------------------------------------------------------------------
(* Whoever starts and stops the Monitor, every run can be ended.           *)

\* A step that leaves the contexts, m.cancel and the stopping callers alone, and
\* brings no run to life, forgets none.
LEMMA ForgottenFrame ==
  ASSUME NoRunForgotten, UNCHANGED <<cancel, ctxDone, stopRun>>,
         \A r \in Runs : Alive(r)' => Alive(r),
         \A c \in Lifecycle : pc[c] = "stopCancel" => pc'[c] = "stopCancel"
  PROVE  NoRunForgotten'
<1> SUFFICES ASSUME NEW r \in Runs, Alive(r)', r \notin ctxDone', cancel' # r
             PROVE  \E c \in Lifecycle : pc'[c] = "stopCancel" /\ stopRun'[c] = r
  BY DEF NoRunForgotten
<1>1. Alive(r) /\ r \notin ctxDone /\ cancel # r
  OBVIOUS
<1>2. PICK c \in Lifecycle : pc[c] = "stopCancel" /\ stopRun[c] = r
  BY <1>1 DEF NoRunForgotten
<1> QED
  BY <1>2

\* Start finds m.cancel empty before it fills it; Stop takes over what it finds
\* there, and calls it.
LEMMA ForgottenStep == ASSUME TypeInv, NoRunForgotten, [Next]_vars PROVE NoRunForgotten'
<1> USE BoundsAssumption, LifecycleAssumption, CallersAreNoRuns
<1> USE DEF TypeInv, TypeOK, lifecycleVars, dataVars, stopVars
<1>1. ASSUME NEW c \in Lifecycle, Start(c) PROVE NoRunForgotten'
  <2> DEFINE k == launched + 1
  <2>0. k \in Runs /\ k \notin Callers
    <3>1. launched \in 0 .. MaxRuns /\ launched < MaxRuns
      BY <1>1 DEF Start
    <3>2. k \in Runs
      BY <3>1
    <3> QED
      BY <3>2
  <2>1. /\ pc[c] = "idle" /\ cancel = NoRun /\ cancel' = k
        /\ pc' = [pc EXCEPT ![k] = "spawned"] /\ UNCHANGED <<ctxDone, stopRun>>
    BY <1>1 DEF Start
  <2>2. \A t \in Threads \ {k} : pc'[t] = pc[t]
    BY <2>0, <2>1
  <2> HIDE DEF k, TypeInv
  <2> SUFFICES ASSUME NEW r \in Runs, Alive(r)', r \notin ctxDone', cancel' # r
               PROVE  \E d \in Lifecycle : pc'[d] = "stopCancel" /\ stopRun'[d] = r
    BY DEF NoRunForgotten
  <2>3. Alive(r) /\ r \notin ctxDone /\ cancel # r
    BY <2>1, <2>2 DEF Alive
  <2>4. PICK d \in Lifecycle : pc[d] = "stopCancel" /\ stopRun[d] = r
    BY <2>3 DEF NoRunForgotten
  <2>5. pc'[d] = "stopCancel" /\ stopRun'[d] = r
    BY <2>0, <2>1, <2>2, <2>4
  <2> QED
    BY <2>5
<1>2. ASSUME NEW q \in Runs, ParentCancel(q) PROVE NoRunForgotten'
  BY <1>2 DEF ParentCancel, NoRunForgotten, Alive
<1>3. ASSUME NEW c \in Lifecycle, StopLock(c) PROVE NoRunForgotten'
  <2>1. /\ pc[c] = "idle" /\ pc' = [pc EXCEPT ![c] = IF cancel = NoRun THEN "idle" ELSE "stopCancel"]
        /\ stopRun' = [stopRun EXCEPT ![c] = cancel] /\ cancel' = NoRun /\ UNCHANGED ctxDone
    BY <1>3 DEF StopLock
  <2>2. c \in Callers /\ c \notin Runs
    OBVIOUS
  <2> SUFFICES ASSUME NEW r \in Runs, Alive(r)', r \notin ctxDone'
               PROVE  \E d \in Lifecycle : pc'[d] = "stopCancel" /\ stopRun'[d] = r
    BY DEF NoRunForgotten
  <2>3. Alive(r) /\ r \notin ctxDone
    BY <2>1, <2>2 DEF Alive
  <2>4. CASE cancel = r
    BY <2>1, <2>2, <2>4
  <2>5. CASE cancel # r
    <3>1. PICK d \in Lifecycle : pc[d] = "stopCancel" /\ stopRun[d] = r
      BY <2>3, <2>5 DEF NoRunForgotten
    <3>2. pc'[d] = "stopCancel" /\ stopRun'[d] = r
      BY <2>1, <3>1
    <3> QED
      BY <3>2
  <2> QED
    BY <2>4, <2>5
<1>4. ASSUME NEW c \in Lifecycle, StopCancel(c) PROVE NoRunForgotten'
  <2>1. /\ pc[c] = "stopCancel" /\ pc' = [pc EXCEPT ![c] = "stopWait"]
        /\ ctxDone' = ctxDone \cup {stopRun[c]} /\ UNCHANGED <<cancel, stopRun>>
    BY <1>4 DEF StopCancel
  <2>2. c \in Callers /\ c \notin Runs
    OBVIOUS
  <2> SUFFICES ASSUME NEW r \in Runs, Alive(r)', r \notin ctxDone', cancel' # r
               PROVE  \E d \in Lifecycle : pc'[d] = "stopCancel" /\ stopRun'[d] = r
    BY DEF NoRunForgotten
  <2>3. Alive(r) /\ r \notin ctxDone /\ cancel # r /\ stopRun[c] # r
    BY <2>1, <2>2 DEF Alive
  <2>4. PICK d \in Lifecycle : pc[d] = "stopCancel" /\ stopRun[d] = r
    BY <2>3 DEF NoRunForgotten
  <2>5. pc'[d] = "stopCancel" /\ stopRun'[d] = r
    BY <2>1, <2>3, <2>4
  <2> QED
    BY <2>5
<1>5. ASSUME NEW c \in Lifecycle, StopReturn(c) PROVE NoRunForgotten'
  <2>1. /\ pc[c] = "stopWait" /\ pc' = [pc EXCEPT ![c] = "idle"]
        /\ UNCHANGED <<cancel, ctxDone, stopRun>>
    BY <1>5 DEF StopReturn
  <2> QED
    BY <2>1, ForgottenFrame DEF Alive
<1>6. ASSUME NEW r \in Runs, RunStep(r) PROVE NoRunForgotten'
  <2>1. /\ pc[r] \in {"spawned", "sample", "store", "select"} /\ UNCHANGED <<cancel, ctxDone, stopRun>>
        /\ \E to \in RunPC : pc' = [pc EXCEPT ![r] = to]
    BY <1>6 DEF RunStep, RunBegin, Sample, SampleFails, Store, RunTick, RunExit
  <2>2. \A q \in Runs : Alive(q)' => Alive(q)
    BY <2>1 DEF Alive
  <2>3. \A c \in Lifecycle : pc'[c] = pc[c]
    BY <2>1
  <2> QED
    BY <2>1, <2>2, <2>3, ForgottenFrame
<1>7. ASSUME NEW c \in Callers, NEW at \in 0 .. clock, Report(c, at) PROVE NoRunForgotten'
  <2>1. /\ pc[c] = "idle" /\ pc' = [pc EXCEPT ![c] = "deliver"]
        /\ UNCHANGED <<cancel, ctxDone, stopRun>>
    BY <1>7 DEF Report
  <2> QED
    BY <2>1, ForgottenFrame DEF Alive
<1>8. ASSUME NEW t \in Threads, Deliver(t) PROVE NoRunForgotten'
  BY <1>8, ForgottenFrame DEF Deliver, Alive
<1>9. ASSUME NEW t \in Threads, DeliverEnd(t) PROVE NoRunForgotten'
  <2>1. /\ pc[t] = "deliver" /\ \E to \in {"select", "idle"} : pc' = [pc EXCEPT ![t] = to]
        /\ UNCHANGED <<cancel, ctxDone, stopRun>>
    BY <1>9 DEF DeliverEnd
  <2>2. \A q \in Runs : Alive(q)' => Alive(q)
    BY <2>1 DEF Alive
  <2>3. \A c \in Lifecycle : pc[c] = "stopCancel" => pc'[c] = "stopCancel"
    BY <2>1
  <2> QED
    BY <2>1, <2>2, <2>3, ForgottenFrame
<1>10. CASE Tick \/ (\E s \in Subs : Subscribe(s)) \/ UNCHANGED vars
  BY <1>10, ForgottenFrame DEF Tick, Subscribe, vars, Alive
<1> QED
  BY <1>1, <1>2, <1>3, <1>4, <1>5, <1>6, <1>7, <1>8, <1>9, <1>10 DEF Next, CallerStep

\* No sampling goroutine is beyond the reach of everybody who could end it,
\* though Start and Stop are called by any number of goroutines at once.
THEOREM EveryRunCanBeEnded == Spec => []NoRunForgotten
<1>1. Init => NoRunForgotten
  <2> SUFFICES ASSUME Init PROVE NoRunForgotten
    OBVIOUS
  <2>1. \A r \in Runs : pc[r] = "none"
    BY DEF Init
  <2> QED
    BY <2>1 DEF NoRunForgotten, Alive
<1> QED
  BY <1>1, TypeInit, TypeStep, ForgottenStep, PTL DEF Spec

----------------------------------------------------------------------------
(* The owner's monitor: a single caller starts and stops it.               *)

OneOwner == \A a, b \in Lifecycle : a = b

\* Only a context that exists is canceled, or about to be.
CancelInv ==
  /\ cancel <= launched
  /\ \A r \in ctxDone : r <= launched
  /\ \A c \in Callers : stopRun[c] <= launched

\* Contexts are made by Start alone, which only ever adds one.
LEMMA CancelStep ==
  ASSUME TypeInv, TypeInv', CancelInv, [Next]_vars PROVE CancelInv'
<1> USE BoundsAssumption, LifecycleAssumption
<1> USE DEF TypeInv, TypeOK, CancelInv, lifecycleVars, dataVars, stopVars
<1>1. ASSUME NEW c \in Callers, Start(c) PROVE CancelInv'
  <2>1. cancel' = launched' /\ launched <= launched' /\ UNCHANGED <<ctxDone, stopRun>>
    BY <1>1 DEF Start
  <2>2. \A r \in ctxDone : r <= launched'
    BY <2>1
  <2>3. \A d \in Callers : stopRun[d] <= launched'
    <3>0. stopRun \in [Callers -> Runs \cup {0}] /\ Runs \cup {0} \subseteq Nat
      BY SMTT(60)
    <3>1. launched \in Nat /\ launched' \in Nat
      OBVIOUS
    <3>3. \A d \in Callers : stopRun[d] \in Nat
      BY <3>0
    <3>2. \A d \in Callers : stopRun[d] <= launched
      BY DEF CancelInv
    <3> HIDE DEF CancelInv, TypeInv, TypeOK
    <3> QED
      BY <2>1, <3>1, <3>2, <3>3
  <2> QED
    BY <2>1, <2>2, <2>3
<1>2. ASSUME NEW r \in Runs, ParentCancel(r) PROVE CancelInv'
  BY <1>2 DEF ParentCancel
<1>3. ASSUME NEW c \in Callers, StopLock(c) PROVE CancelInv'
  BY <1>3 DEF StopLock
<1>4. ASSUME NEW c \in Callers, StopCancel(c) PROVE CancelInv'
  BY <1>4 DEF StopCancel
<1>5. CASE UNCHANGED <<cancel, launched, ctxDone, stopRun>>
  BY <1>5
<1>6. \/ UNCHANGED <<cancel, launched, ctxDone, stopRun>>
      \/ \E c \in Callers : Start(c) \/ StopLock(c) \/ StopCancel(c)
      \/ \E r \in Runs : ParentCancel(r)
  BY DEF Next, CallerStep, RunStep, StopReturn, RunBegin, Sample, SampleFails, Store,
         RunTick, RunExit, Report, Deliver, DeliverEnd, Subscribe, Tick, vars
<1> QED
  BY <1>1, <1>2, <1>3, <1>4, <1>5, <1>6

\* The last launched run is the only one alive, and somebody will end it.
OwnerInv ==
  /\ TypeInv
  /\ CancelInv
  /\ done = launched
  /\ cancel \in {NoRun, launched}
  /\ \A r \in Runs : pc[r] = "none" => r > launched
  /\ \A r \in Runs : Alive(r) =>
       /\ r = launched
       /\ cancel = r \/ \E c \in Lifecycle : Stopping(c)
  /\ \A r \in Runs : Begun(r) => deferred[r] = r
  /\ \A r \in closed : pc[r] = "gone"
  /\ \A c \in Callers : Stopping(c) =>
       c \in Lifecycle /\ cancel = NoRun /\ stopDone[c] = launched
  /\ ~ panicked

\* Nothing has been launched yet.
LEMMA OwnerInit == Init => OwnerInv
<1> SUFFICES ASSUME Init PROVE OwnerInv
  OBVIOUS
<1>1. TypeInv
  BY TypeInit
<1>2. \A c \in Callers : c \notin Runs
  BY CallersAreNoRuns
<1>3. /\ \A c \in Callers : pc[c] = "idle"
      /\ \A r \in Runs : pc[r] = "none"
  <2>1. pc = [t \in Threads |-> IF t \in Runs THEN "none" ELSE "idle"]
    BY DEF Init
  <2> QED
    BY <1>2, <2>1
<1>4. done = 0 /\ launched = 0 /\ cancel = 0 /\ closed = {}
  BY DEF Init
<1>5. ~ panicked
  BY DEF Init
<1>6. \A c \in Callers : ~ Stopping(c)
  BY <1>3 DEF Stopping
<1>7. \A r \in Runs : ~ Begun(r) /\ ~ Alive(r)
  BY <1>3 DEF Begun, Alive
<1>8. \A r \in Runs : r > launched
  BY <1>4, BoundsAssumption
<1>9. CancelInv
  BY <1>4, BoundsAssumption DEF CancelInv, Init
<1> QED
  BY <1>1, <1>3, <1>4, <1>5, <1>6, <1>7, <1>8, <1>9 DEF OwnerInv

\* A step that moves a thread within its code, and nothing else of the
\* lifecycle, keeps the invariant.
LEMMA OwnerFrame ==
  ASSUME OwnerInv, TypeInv', CancelInv',
         UNCHANGED <<cancel, done, launched, closed, panicked, deferred, stopDone>>,
         \A r \in Runs : Begun(r)' <=> Begun(r),
         \A r \in Runs : (pc'[r] = "none") <=> (pc[r] = "none"),
         \A r \in Runs : (pc'[r] = "gone") <=> (pc[r] = "gone"),
         \A c \in Callers : Stopping(c)' <=> Stopping(c)
  PROVE  OwnerInv'
<1>1. \A r \in Runs : Alive(r)' <=> Alive(r)
  BY DEF Alive
<1>2. closed \subseteq Runs
  BY DEF OwnerInv, TypeInv, TypeOK
<1>3. \A r \in Runs : Alive(r)' => r = launched' /\ (cancel' = r \/ \E c \in Lifecycle : Stopping(c)')
  BY <1>1, LifecycleAssumption DEF OwnerInv
<1> QED
  BY <1>1, <1>2, <1>3 DEF OwnerInv

\* With one owner, the next launch waits until the owner's Stop has seen the
\* previous run close its channel.
LEMMA OwnerStep == ASSUME OneOwner PROVE OwnerInv /\ [Next]_vars => OwnerInv'
<1> SUFFICES ASSUME OwnerInv, [Next]_vars PROVE OwnerInv'
  OBVIOUS
<1>0. TypeInv' /\ CancelInv'
  BY TypeStep, CancelStep DEF OwnerInv
<1> USE BoundsAssumption, LifecycleAssumption, CallersAreNoRuns, <1>0
<1> USE DEF OneOwner, OwnerInv, TypeInv, TypeOK, Alive, Begun, Stopping,
            lifecycleVars, dataVars, stopVars
<1>1. ASSUME NEW c \in Lifecycle, Start(c) PROVE OwnerInv'
  <2> DEFINE k == launched + 1
  <2>1. k \in Runs /\ k \notin Callers
    BY <1>1 DEF Start
  <2>2. cancel' = k /\ done' = k /\ launched' = k /\ pc' = [pc EXCEPT ![k] = "spawned"]
    BY <1>1 DEF Start
  <2>3. UNCHANGED <<closed, panicked, deferred, stopDone>>
    BY <1>1 DEF Start
  <2>4. pc'[k] = "spawned" /\ \A t \in Threads \ {k} : pc'[t] = pc[t]
    BY <2>1, <2>2
  <2>5. cancel = NoRun /\ \A d \in Lifecycle : ~ Stopping(d)
    <3>1. pc[c] = "idle" /\ cancel = NoRun
      BY <1>1 DEF Start
    <3>2. \A d \in Lifecycle : d = c
      BY DEF OneOwner
    <3> QED
      BY <3>1, <3>2
  <2>6. \A r \in Runs : ~ Alive(r)
    BY <2>5
  <2>8. \A d \in Callers : pc'[d] = pc[d] /\ ~ Stopping(d)
    BY <2>1, <2>4, <2>5
  <2>7. pc[k] = "none" /\ k \notin closed
    BY <2>1
  <2>9. \A r \in Runs : Alive(r)' => r = k
    BY <2>1, <2>2, <2>4, <2>6
  <2>10. \A r \in Runs : ~ Begun(r)'
    BY <2>1, <2>2, <2>4, <2>6
  <2>11. \A r \in Runs : pc'[r] = "none" => r > launched'
    BY <2>1, <2>2, <2>4
  <2>12. \A r \in closed' : pc'[r] = "gone"
    BY <2>2, <2>3, <2>4, <2>7
  <2> HIDE DEF k
  <2> QED
    BY <2>2, <2>3, <2>8, <2>9, <2>10, <2>11, <2>12
<1>2. ASSUME NEW r \in Runs, ParentCancel(r) PROVE OwnerInv'
  BY <1>2 DEF ParentCancel
<1>3. ASSUME NEW c \in Lifecycle, StopLock(c) PROVE OwnerInv'
  BY SMTT(60), <1>3 DEF StopLock
<1>4. ASSUME NEW c \in Lifecycle, StopCancel(c) PROVE OwnerInv'
  BY <1>4 DEF StopCancel
<1>5. ASSUME NEW c \in Lifecycle, StopReturn(c) PROVE OwnerInv'
  <2>1. launched \in Runs /\ pc[launched] = "gone"
    BY <1>5 DEF StopReturn
  <2>2. \A r \in Runs : ~ Alive(r)
    BY <2>1
  <2>3. /\ pc' = [pc EXCEPT ![c] = "idle"]
        /\ UNCHANGED <<cancel, done, launched, closed, panicked, deferred, stopDone>>
    BY <1>5 DEF StopReturn
  <2>4. \A r \in Runs : pc'[r] = pc[r]
    BY <2>3
  <2>5. \A d \in Callers : Stopping(d)' => Stopping(d)
    BY <2>3
  <2> QED
    BY SMTT(60), <2>2, <2>3, <2>4, <2>5
<1>6. ASSUME NEW r \in Runs, RunBegin(r) PROVE OwnerInv'
  <2>1. /\ pc[r] = "spawned" /\ pc' = [pc EXCEPT ![r] = "sample"]
        /\ deferred' = [deferred EXCEPT ![r] = done]
        /\ UNCHANGED <<cancel, done, launched, closed, panicked, stopDone>>
    BY <1>6 DEF RunBegin
  <2>2. deferred'[r] = r
    BY <2>1
  <2>3. \A q \in Runs : (Begun(q)' => deferred'[q] = q) /\ (Alive(q)' => Alive(q))
    BY <2>1, <2>2
  <2>4. \A c \in Callers : pc'[c] = pc[c]
    BY <2>1
  <2>5. \A q \in closed' : pc'[q] = "gone"
    BY <2>1
  <2>6. \A q \in Runs : pc'[q] = "none" => q > launched'
    BY <2>1
  <2> QED
    <3>1. \A q \in Runs : Alive(q)' =>
            /\ q = launched'
            /\ cancel' = q \/ \E c \in Lifecycle : Stopping(c)'
      BY <2>1, <2>3, <2>4
    <3>2. \A c \in Callers : Stopping(c)' =>
            c \in Lifecycle /\ cancel' = NoRun /\ stopDone'[c] = launched'
      BY <2>1, <2>4
    <3>3. /\ done' = launched' /\ cancel' \in {NoRun, launched'} /\ ~ panicked'
          /\ \A q \in Runs : Begun(q)' => deferred'[q] = q
      BY <2>1, <2>3
    <3> QED
      BY <3>1, <3>2, <3>3, <2>5, <2>6 DEF OwnerInv
<1>7. ASSUME NEW r \in Runs, Sample(r) PROVE OwnerInv'
  <2>1. /\ pc[r] = "sample" /\ pc' = [pc EXCEPT ![r] = "store"]
        /\ UNCHANGED <<cancel, done, launched, closed, panicked, deferred, stopDone>>
    BY <1>7 DEF Sample
  <2>2. \A q \in Runs : Begun(q)' <=> Begun(q)
    BY <2>1
  <2>3. \A q \in Runs : (pc'[q] = "none") <=> (pc[q] = "none")
    BY <2>1
  <2>4. \A q \in Runs : (pc'[q] = "gone") <=> (pc[q] = "gone")
    BY <2>1
  <2>5. \A d \in Callers : Stopping(d)' <=> Stopping(d)
    BY <2>1
  <2> QED
    BY <2>2, <2>3, <2>4, <2>5, <2>1, OwnerFrame
<1>8. ASSUME NEW r \in Runs, SampleFails(r) PROVE OwnerInv'
  <2>1. /\ pc[r] = "sample" /\ pc' = [pc EXCEPT ![r] = "select"]
        /\ UNCHANGED <<cancel, done, launched, closed, panicked, deferred, stopDone>>
    BY <1>8 DEF SampleFails
  <2>2. \A q \in Runs : Begun(q)' <=> Begun(q)
    BY <2>1
  <2>3. \A q \in Runs : (pc'[q] = "none") <=> (pc[q] = "none")
    BY <2>1
  <2>4. \A q \in Runs : (pc'[q] = "gone") <=> (pc[q] = "gone")
    BY <2>1
  <2>5. \A d \in Callers : Stopping(d)' <=> Stopping(d)
    BY <2>1
  <2> QED
    BY <2>2, <2>3, <2>4, <2>5, <2>1, OwnerFrame
<1>9. ASSUME NEW r \in Runs, Store(r) PROVE OwnerInv'
  <2>1. /\ pc[r] = "store" /\ pc' = [pc EXCEPT ![r] = "deliver"]
        /\ UNCHANGED <<cancel, done, launched, closed, panicked, deferred, stopDone>>
    BY <1>9 DEF Store
  <2>2. \A q \in Runs : Begun(q)' <=> Begun(q)
    BY <2>1
  <2>3. \A q \in Runs : (pc'[q] = "none") <=> (pc[q] = "none")
    BY <2>1
  <2>4. \A q \in Runs : (pc'[q] = "gone") <=> (pc[q] = "gone")
    BY <2>1
  <2>5. \A d \in Callers : Stopping(d)' <=> Stopping(d)
    BY <2>1
  <2> QED
    BY <2>2, <2>3, <2>4, <2>5, <2>1, OwnerFrame
<1>10. ASSUME NEW r \in Runs, RunTick(r) PROVE OwnerInv'
  <2>1. /\ pc[r] = "select" /\ pc' = [pc EXCEPT ![r] = "sample"]
        /\ UNCHANGED <<cancel, done, launched, closed, panicked, deferred, stopDone>>
    BY <1>10 DEF RunTick
  <2>2. \A q \in Runs : Begun(q)' <=> Begun(q)
    BY <2>1
  <2>3. \A q \in Runs : (pc'[q] = "none") <=> (pc[q] = "none")
    BY <2>1
  <2>4. \A q \in Runs : (pc'[q] = "gone") <=> (pc[q] = "gone")
    BY <2>1
  <2>5. \A d \in Callers : Stopping(d)' <=> Stopping(d)
    BY <2>1
  <2> QED
    BY <2>2, <2>3, <2>4, <2>5, <2>1, OwnerFrame
<1>11. ASSUME NEW r \in Runs, RunExit(r) PROVE OwnerInv'
  <2>1. pc[r] = "select" /\ deferred[r] = r /\ r \notin closed
    BY <1>11 DEF RunExit
  <2>2. ~ panicked'
    BY <1>11, <2>1 DEF RunExit
  <2> QED
    BY SMTT(60), <1>11, <2>1, <2>2 DEF RunExit
<1>12. ASSUME NEW c \in Callers, NEW at \in 0 .. clock, Report(c, at) PROVE OwnerInv'
  <2>1. /\ pc[c] = "idle" /\ pc' = [pc EXCEPT ![c] = "deliver"]
        /\ UNCHANGED <<cancel, done, launched, closed, panicked, deferred, stopDone>>
    BY <1>12 DEF Report
  <2>2. \A q \in Runs : pc'[q] = pc[q]
    BY <2>1
  <2>3. \A d \in Callers : Stopping(d)' <=> Stopping(d)
    BY <2>1
  <2> QED
    BY <2>1, <2>2, <2>3, OwnerFrame
<1>13. ASSUME NEW t \in Threads, Deliver(t) PROVE OwnerInv'
  BY <1>13 DEF Deliver
<1>14. ASSUME NEW t \in Threads, DeliverEnd(t) PROVE OwnerInv'
  <2>1. /\ pc[t] = "deliver" /\ pc' = [pc EXCEPT ![t] = IF t \in Runs THEN "select" ELSE "idle"]
        /\ UNCHANGED <<cancel, done, launched, closed, panicked, deferred, stopDone>>
    BY <1>14 DEF DeliverEnd
  <2>2. \A q \in Runs : Begun(q)' <=> Begun(q)
    BY <2>1
  <2>3. \A q \in Runs : (pc'[q] = "none") <=> (pc[q] = "none")
    BY <2>1
  <2>4. \A q \in Runs : (pc'[q] = "gone") <=> (pc[q] = "gone")
    BY <2>1
  <2>5. \A d \in Callers : Stopping(d)' <=> Stopping(d)
    BY <2>1
  <2> QED
    BY <2>1, <2>2, <2>3, <2>4, <2>5, OwnerFrame
<1>15. ASSUME NEW s \in Subs, Subscribe(s) PROVE OwnerInv'
  BY <1>15 DEF Subscribe
<1>16. CASE Tick
  BY <1>16 DEF Tick
<1>17. CASE UNCHANGED vars
  BY <1>17 DEF vars
<1> QED
  BY <1>1, <1>2, <1>3, <1>4, <1>5, <1>6, <1>7, <1>8, <1>9, <1>10, <1>11, <1>12,
     <1>13, <1>14, <1>15, <1>16, <1>17 DEF Next, CallerStep, RunStep

\* A monitor started and stopped by one goroutine never closes a channel
\* twice, so that its sampling goroutine never panics.
THEOREM OwnerNeverPanics == ASSUME OneOwner PROVE Spec => []NoDoubleClose
<1>1. OwnerInv => NoDoubleClose
  BY DEF OwnerInv, NoDoubleClose
<1> QED
  BY <1>1, OwnerInit, OwnerStep, PTL DEF Spec

\* When that goroutine is outside Stop and m.cancel is nil, no sampling
\* goroutine is left.
THEOREM OwnerStopIsQuiet == ASSUME OneOwner PROVE Spec => []StoppedMeansQuiet
<1>1. OwnerInv => StoppedMeansQuiet
  BY DEF OwnerInv, StoppedMeansQuiet, Stopping
<1> QED
  BY <1>1, OwnerInit, OwnerStep, PTL DEF Spec

----------------------------------------------------------------------------
(* The owner's Stop is answered.                                           *)

\* A run does not end without closing its channel, and a Stop cancels the run
\* whose channel it waits for.
AnswerInv ==
  /\ \A r \in Runs : pc[r] = "gone" => r \in closed
  /\ \A c \in Callers : Stopping(c) => stopRun[c] = stopDone[c]
  /\ \A c \in Callers : pc[c] = "stopWait" => stopDone[c] \in ctxDone

\* A step in which no run ends and no Stop goes on keeps it.
LEMMA AnswerFrame ==
  ASSUME AnswerInv, UNCHANGED <<stopRun, stopDone>>,
         closed \subseteq closed', ctxDone \subseteq ctxDone',
         \A r \in Runs : pc'[r] = "gone" => pc[r] = "gone",
         \A c \in Callers : Stopping(c)' => pc'[c] = pc[c]
  PROVE  AnswerInv'
<1>1. \A c \in Callers : Stopping(c)' => Stopping(c)
  BY DEF Stopping
<1>2. \A c \in Callers : pc'[c] = "stopWait" => pc[c] = "stopWait"
  BY DEF Stopping
<1> QED
  BY <1>1, <1>2 DEF AnswerInv

\* What a run closes when it ends is its own channel, which needs the owner's
\* invariant.
LEMMA AnswerStep == ASSUME OwnerInv, AnswerInv, [Next]_vars PROVE AnswerInv'
<1> USE BoundsAssumption, LifecycleAssumption, CallersAreNoRuns
<1> USE DEF OwnerInv, TypeInv, TypeOK, lifecycleVars, dataVars, stopVars
<1>1. ASSUME NEW c \in Lifecycle, Start(c) PROVE AnswerInv'
  <2> DEFINE k == launched + 1
  <2>1. k \in Runs /\ k \notin Callers
    <3>1. launched \in 0 .. MaxRuns /\ launched < MaxRuns
      BY <1>1 DEF Start
    <3>2. k \in Runs
      BY <3>1
    <3> QED
      BY <3>2
  <2>2. pc' = [pc EXCEPT ![k] = "spawned"] /\ UNCHANGED <<closed, ctxDone, stopRun, stopDone>>
    BY <1>1 DEF Start
  <2>3. pc'[k] = "spawned" /\ \A t \in Threads \ {k} : pc'[t] = pc[t]
    BY <2>1, <2>2
  <2> HIDE DEF k, OwnerInv, TypeInv
  <2> QED
    BY <2>1, <2>2, <2>3, AnswerFrame
<1>2. ASSUME NEW q \in Runs, ParentCancel(q) PROVE AnswerInv'
  BY <1>2, AnswerFrame DEF ParentCancel
<1>3. ASSUME NEW c \in Lifecycle, StopLock(c) PROVE AnswerInv'
  <2>1. /\ pc[c] = "idle" /\ pc' = [pc EXCEPT ![c] = IF cancel = NoRun THEN "idle" ELSE "stopCancel"]
        /\ stopRun' = [stopRun EXCEPT ![c] = cancel] /\ stopDone' = [stopDone EXCEPT ![c] = done]
        /\ UNCHANGED <<closed, ctxDone>>
    BY <1>3 DEF StopLock
  <2>2. cancel # NoRun => cancel = done
    OBVIOUS
  <2>3. \A r \in Runs : pc'[r] = pc[r]
    BY <2>1
  <2>4. \A d \in Callers \ {c} : pc'[d] = pc[d] /\ stopRun'[d] = stopRun[d] /\ stopDone'[d] = stopDone[d]
    BY <2>1
  <2>5. Stopping(c)' => stopRun'[c] = stopDone'[c] /\ pc'[c] # "stopWait"
    BY <2>1, <2>2 DEF Stopping
  <2>6. pc'[c] # "stopWait"
    BY <2>1
  <2> QED
    BY <2>1, <2>3, <2>4, <2>5, <2>6 DEF AnswerInv, Stopping
<1>4. ASSUME NEW c \in Lifecycle, StopCancel(c) PROVE AnswerInv'
  <2>1. /\ pc[c] = "stopCancel" /\ pc' = [pc EXCEPT ![c] = "stopWait"]
        /\ ctxDone' = ctxDone \cup {stopRun[c]} /\ UNCHANGED <<closed, stopRun, stopDone>>
    BY <1>4 DEF StopCancel
  <2>2. stopRun[c] = stopDone[c]
    BY <2>1 DEF AnswerInv, Stopping
  <2>3. \A r \in Runs : pc'[r] = pc[r]
    BY <2>1
  <2>4. \A d \in Callers \ {c} : pc'[d] = pc[d]
    BY <2>1
  <2> QED
    BY <2>1, <2>2, <2>3, <2>4 DEF AnswerInv, Stopping
<1>5. ASSUME NEW c \in Lifecycle, StopReturn(c) PROVE AnswerInv'
  <2>1. pc' = [pc EXCEPT ![c] = "idle"] /\ UNCHANGED <<closed, ctxDone, stopRun, stopDone>>
    BY <1>5 DEF StopReturn
  <2>2. \A d \in Callers : Stopping(d)' => pc'[d] = pc[d]
    BY <2>1 DEF Stopping
  <2>3. \A r \in Runs : pc'[r] = pc[r]
    BY <2>1
  <2> QED
    BY <2>1, <2>2, <2>3, AnswerFrame
<1>6. ASSUME NEW r \in Runs, RunExit(r) PROVE AnswerInv'
  <2>1. /\ pc[r] = "select" /\ pc' = [pc EXCEPT ![r] = "gone"]
        /\ closed' = closed \cup {deferred[r]} /\ UNCHANGED <<ctxDone, stopRun, stopDone>>
    BY <1>6 DEF RunExit
  <2>2. deferred[r] = r
    BY <2>1 DEF Begun
  <2>3. \A c \in Callers : pc'[c] = pc[c]
    BY <2>1
  <2>4. \A q \in Runs \ {r} : pc'[q] = pc[q]
    BY <2>1
  <2> QED
    BY <2>1, <2>2, <2>3, <2>4 DEF AnswerInv, Stopping
<1>7. ASSUME NEW r \in Runs,
             RunBegin(r) \/ Sample(r) \/ SampleFails(r) \/ Store(r) \/ RunTick(r)
      PROVE  AnswerInv'
  <2>1. /\ UNCHANGED <<closed, ctxDone, stopRun, stopDone>>
        /\ \E to \in RunPC \ {"gone"} : pc' = [pc EXCEPT ![r] = to]
    BY <1>7 DEF RunBegin, Sample, SampleFails, Store, RunTick
  <2>2. \A q \in Runs : pc'[q] = "gone" => pc[q] = "gone"
    BY <2>1
  <2>3. \A c \in Callers : pc'[c] = pc[c]
    <3>1. pc \in [Threads -> CallerPC \cup RunPC]
      OBVIOUS
    <3> HIDE DEF OwnerInv, TypeInv, TypeOK
    <3> QED
      BY <2>1, <3>1
  <2> QED
    BY <2>1, <2>2, <2>3, AnswerFrame
<1>8. ASSUME NEW c \in Callers, NEW at \in 0 .. clock, Report(c, at) PROVE AnswerInv'
  <2>1. pc' = [pc EXCEPT ![c] = "deliver"] /\ UNCHANGED <<closed, ctxDone, stopRun, stopDone>>
    BY <1>8 DEF Report
  <2>2. \A d \in Callers : Stopping(d)' => pc'[d] = pc[d]
    BY <2>1 DEF Stopping
  <2>3. \A r \in Runs : pc'[r] = pc[r]
    BY <2>1
  <2> QED
    BY <2>1, <2>2, <2>3, AnswerFrame
<1>9. ASSUME NEW t \in Threads, DeliverEnd(t) PROVE AnswerInv'
  <2>1. /\ UNCHANGED <<closed, ctxDone, stopRun, stopDone>>
        /\ \E to \in {"select", "idle"} : pc' = [pc EXCEPT ![t] = to]
    BY <1>9 DEF DeliverEnd
  <2>2. \A q \in Runs : pc'[q] = "gone" => pc[q] = "gone"
    BY <2>1
  <2>3. \A d \in Callers : Stopping(d)' => pc'[d] = pc[d]
    BY <2>1 DEF Stopping
  <2> QED
    BY <2>1, <2>2, <2>3, AnswerFrame
<1>10. CASE \/ \E t \in Threads : Deliver(t)
            \/ \E s \in Subs : Subscribe(s)
            \/ Tick \/ UNCHANGED vars
  BY <1>10, AnswerFrame DEF Deliver, Subscribe, Tick, vars
<1> QED
  BY <1>1, <1>2, <1>3, <1>4, <1>5, <1>6, <1>7, <1>8, <1>9, <1>10 DEF Next, CallerStep, RunStep

\* The owner's Stop never waits for a channel that nobody will close: the run it
\* canceled is there to close it, or has done so.
THEOREM OwnerStopIsAnswered == ASSUME OneOwner PROVE Spec => []StopIsAnswered
<1>1. Init => AnswerInv
  <2> SUFFICES ASSUME Init PROVE AnswerInv
    OBVIOUS
  <2>1. (\A r \in Runs : pc[r] = "none") /\ \A c \in Callers : pc[c] = "idle"
    BY CallersAreNoRuns DEF Init
  <2> QED
    BY <2>1 DEF AnswerInv, Stopping
<1>2. OwnerInv /\ AnswerInv => StopIsAnswered
  <2> SUFFICES ASSUME OwnerInv, AnswerInv, NEW c \in Lifecycle, pc[c] = "stopWait",
                      stopDone[c] \notin closed
               PROVE  \E r \in ctxDone : WillClose(r, stopDone[c])
    BY DEF StopIsAnswered
  <2> DEFINE r == stopDone[c]
  <2>1. c \in Callers /\ r = launched /\ r = done /\ r \in ctxDone
    BY LifecycleAssumption DEF OwnerInv, AnswerInv, Stopping
  <2>2. r \in Runs
    BY <2>1 DEF OwnerInv, TypeInv, TypeOK
  <2>3. pc[r] # "gone"
    BY <2>2 DEF AnswerInv
  <2>4. pc[r] # "none"
    BY <2>1, <2>2, BoundsAssumption DEF OwnerInv, TypeInv, TypeOK
  <2>5. pc[r] \in RunPC /\ (Begun(r) => deferred[r] = r)
    BY <2>2 DEF OwnerInv, TypeInv, TypeOK
  <2> HIDE DEF r
  <2>6. WillClose(r, r)
    BY <2>1, <2>3, <2>4, <2>5 DEF WillClose, Alive, Begun
  <2> QED
    BY <2>1, <2>6 DEF r
<1> QED
  BY <1>1, <1>2, OwnerInit, OwnerStep, AnswerStep, PTL DEF Spec

\* An owner's Stop returns to quiet, never waits in vain, and no sampling goroutine
\* gets lost before it comes.
THEOREM OwnerStopIsSound == ASSUME OneOwner PROVE Spec => []StopIsSound
BY OwnerStopIsQuiet, OwnerStopIsAnswered, EveryRunCanBeEnded, PTL DEF StopIsSound

----------------------------------------------------------------------------
(* The order of samples.                                                   *)

\* What a run is about to store is no older than what is stored, and what it
\* delivers is the newest sample.
OrderInv ==
  /\ OwnerInv
  /\ stored <= clock
  /\ \A r \in Runs : metric[r] <= clock
  /\ \A r \in Runs : pc[r] = "store" => stored <= metric[r]
  /\ \A r \in Runs : pc[r] = "deliver" => metric[r] = stored
  /\ \A s \in Subs : got[s] <= stored

\* No sample has been taken yet.
LEMMA OrderInit == Init => OrderInv
<1> SUFFICES ASSUME Init PROVE OrderInv
  OBVIOUS
<1>1. OwnerInv
  BY OwnerInit
<1>2. /\ stored = 0 /\ clock = 0
      /\ \A r \in Runs : metric[r] = 0
      /\ \A s \in Subs : got[s] = 0
  BY DEF Init
<1>3. \A r \in Runs : pc[r] \notin {"store", "deliver"}
  BY DEF Init
<1> QED
  BY <1>1, <1>2, <1>3 DEF OrderInv

\* Only the one run that is alive stores and delivers samples.
LEMMA OrderStep == ASSUME OneOwner PROVE OrderInv /\ [Next]_vars => OrderInv'
<1> SUFFICES ASSUME OrderInv, [Next]_vars PROVE OrderInv'
  OBVIOUS
<1>0. OwnerInv' /\ TypeOK /\ TypeOK'
  BY OwnerStep DEF OrderInv, OwnerInv, TypeInv
<1>a. \A q, r \in Runs : Alive(q) /\ Alive(r) => q = r
  BY DEF OrderInv, OwnerInv
<1> USE <1>0, CallersAreNoRuns DEF OrderInv, TypeOK, lifecycleVars, dataVars, stopVars
<1>1. ASSUME NEW c \in Lifecycle, Start(c) PROVE OrderInv'
  <2> DEFINE k == launched + 1
  <2>1. k \in Runs /\ pc' = [pc EXCEPT ![k] = "spawned"]
    BY <1>1, BoundsAssumption DEF Start
  <2>2. UNCHANGED <<clock, metric, stored, got>>
    BY <1>1 DEF Start
  <2> HIDE DEF k
  <2> QED
    BY <2>1, <2>2
<1>2. ASSUME NEW r \in Runs, ParentCancel(r) PROVE OrderInv'
  BY <1>2 DEF ParentCancel
<1>3. ASSUME NEW c \in Lifecycle, StopLock(c) PROVE OrderInv'
  BY <1>3, LifecycleAssumption DEF StopLock
<1>4. ASSUME NEW c \in Lifecycle, StopCancel(c) PROVE OrderInv'
  BY <1>4, LifecycleAssumption DEF StopCancel
<1>5. ASSUME NEW c \in Lifecycle, StopReturn(c) PROVE OrderInv'
  BY <1>5, LifecycleAssumption DEF StopReturn
<1>6. ASSUME NEW r \in Runs, RunBegin(r) PROVE OrderInv'
  BY <1>6 DEF RunBegin
<1>7. ASSUME NEW r \in Runs, Sample(r) PROVE OrderInv'
  BY <1>7 DEF Sample
<1>8. ASSUME NEW r \in Runs, SampleFails(r) PROVE OrderInv'
  BY <1>8 DEF SampleFails
<1>9. ASSUME NEW r \in Runs, Store(r) PROVE OrderInv'
  <2>1. \A q \in Runs : pc[q] \in {"store", "deliver"} => q = r
    BY <1>9, <1>a DEF Store, Alive
  <2>2. stored' = metric[r] /\ stored <= metric[r] /\ pc' = [pc EXCEPT ![r] = "deliver"]
    BY <1>9 DEF Store
  <2>3. UNCHANGED <<clock, metric, got>>
    BY <1>9 DEF Store
  <2> QED
    BY <2>1, <2>2, <2>3
<1>10. ASSUME NEW r \in Runs, RunTick(r) PROVE OrderInv'
  BY <1>10 DEF RunTick
<1>11. ASSUME NEW r \in Runs, RunExit(r) PROVE OrderInv'
  BY <1>11 DEF RunExit
<1>12. ASSUME NEW c \in Callers, NEW at \in 0 .. clock, Report(c, at) PROVE OrderInv'
  <2>1. \A q \in Runs : pc'[q] = pc[q] /\ metric'[q] = metric[q]
    BY <1>12 DEF Report
  <2>2. UNCHANGED <<clock, stored, got>>
    BY <1>12 DEF Report
  <2> QED
    BY <2>1, <2>2
<1>13. ASSUME NEW t \in Threads, Deliver(t) PROVE OrderInv'
  BY <1>13 DEF Deliver
<1>14. ASSUME NEW t \in Threads, DeliverEnd(t) PROVE OrderInv'
  <2>1. \A q \in Runs : pc'[q] \in {"store", "deliver"} => pc'[q] = pc[q]
    BY <1>14 DEF DeliverEnd
  <2>2. UNCHANGED <<clock, metric, stored, got>>
    BY <1>14 DEF DeliverEnd
  <2> QED
    BY <2>1, <2>2
<1>15. ASSUME NEW s \in Subs, Subscribe(s) PROVE OrderInv'
  BY <1>15 DEF Subscribe
<1>16. CASE Tick
  <2>1. clock' = clock + 1 /\ UNCHANGED <<pc, metric, stored, got>>
    BY <1>16 DEF Tick
  <2>2. \A r \in Runs : metric[r] \in Nat /\ metric[r] <= clock
    OBVIOUS
  <2> QED
    BY <2>1, <2>2
<1>17. CASE UNCHANGED vars
  BY <1>17 DEF vars
<1> QED
  BY <1>1, <1>2, <1>3, <1>4, <1>5, <1>6, <1>7, <1>8, <1>9, <1>10, <1>11, <1>12,
     <1>13, <1>14, <1>15, <1>16, <1>17 DEF Next, CallerStep, RunStep

\* A step that changes the newest stored sample is a Store of a newer one.
LEMMA StoredGrows == OrderInv /\ [Next]_vars => stored' >= stored
<1> SUFFICES ASSUME OrderInv, [Next]_vars PROVE stored' >= stored
  OBVIOUS
<1>1. stored \in Nat /\ \A r \in Runs : metric[r] \in Nat
  BY DEF OrderInv, OwnerInv, TypeInv, TypeOK
<1>2. ASSUME NEW r \in Runs, Store(r) PROVE stored' >= stored
  BY <1>1, <1>2 DEF Store, OrderInv
<1>3. CASE UNCHANGED stored
  BY <1>1, <1>3
<1>4. UNCHANGED stored \/ \E r \in Runs : Store(r)
  BY DEF Next, CallerStep, RunStep, Start, ParentCancel, StopLock, StopCancel, StopReturn,
         RunBegin, Sample, SampleFails, RunTick, RunExit, Report, Deliver, DeliverEnd,
         Subscribe, Tick, dataVars, vars
<1> QED
  BY <1>2, <1>3, <1>4

\* In an owner's monitor a stored sample never replaces a newer one, however
\* often it is stopped and started again.
THEOREM OwnerSamplesInOrder == ASSUME OneOwner PROVE Spec => SamplesInOrder
<1>1. OrderInv /\ [Next]_vars => [stored' >= stored]_vars
  BY StoredGrows
<1> QED
  BY <1>1, OrderInit, OrderStep, PTL DEF Spec, SamplesInOrder

\* What a subscriber has got changes only when a run delivers to it.
LEMMA GotGrows == OrderInv /\ [Next]_vars => \A s \in Subs : got'[s] >= got[s]
<1> SUFFICES ASSUME OrderInv, [Next]_vars PROVE \A s \in Subs : got'[s] >= got[s]
  OBVIOUS
<1>1. /\ got \in [Subs -> Nat] /\ stored \in Nat /\ metric \in [Threads -> Nat]
      /\ queue \in [Threads -> Seq(Subs)]
  BY DEF OrderInv, OwnerInv, TypeInv, TypeOK
<1>2. ASSUME NEW t \in Threads, Deliver(t) PROVE \A s \in Subs : got'[s] >= got[s]
  <2>1. CASE t \in Runs
    <3>1. metric[t] = stored /\ \A s \in Subs : got[s] <= stored
      BY <1>2, <2>1 DEF Deliver, OrderInv
    <3>2. got' = [got EXCEPT ![Head(queue[t])] = metric[t]]
      BY <1>2, <2>1 DEF Deliver
    <3> QED
      BY <1>1, <3>1, <3>2
  <2>2. CASE t \notin Runs
    BY <1>1, <1>2, <2>2 DEF Deliver
  <2> QED
    BY <2>1, <2>2
<1>3. CASE UNCHANGED got
  BY <1>1, <1>3
<1>4. UNCHANGED got \/ \E t \in Threads : Deliver(t)
  BY DEF Next, CallerStep, RunStep, Start, ParentCancel, StopLock, StopCancel, StopReturn,
         RunBegin, Sample, SampleFails, Store, RunTick, RunExit, Report, DeliverEnd,
         Subscribe, Tick, dataVars, vars
<1> QED
  BY <1>2, <1>3, <1>4

\* No subscriber of an owner's monitor gets a sample older than one it has.
THEOREM OwnerDeliversInOrder == ASSUME OneOwner PROVE Spec => DeliveredInOrder
<1>1. OrderInv /\ [Next]_vars => [\A s \in Subs : got'[s] >= got[s]]_vars
  BY GotGrows
<1> QED
  BY <1>1, OrderInit, OrderStep, PTL DEF Spec, DeliveredInOrder

\* Under a single owner the Monitor never goes back in time, neither in the
\* samples it stores nor in what subscribers are given.
THEOREM OwnerInOrder == ASSUME OneOwner PROVE Spec => InOrder
  BY OwnerSamplesInOrder, OwnerDeliversInOrder, PTL DEF InOrder

----------------------------------------------------------------------------
(* An owner's Monitor implements SamplingService, fairness aside.          *)

\* The last launched run is alive.
Live == launched \in Runs /\ Alive(launched)

\* The phase is that of the last launched run.
PhaseIsThatOfLast ==
  /\ Live => Phase = IF launched \in ctxDone THEN "ending" ELSE "on"
  /\ ~ Live => Phase = "off"

\* No other run is alive.
LEMMA PhaseOfLast == OwnerInv => PhaseIsThatOfLast
<1> SUFFICES ASSUME OwnerInv PROVE PhaseIsThatOfLast
  OBVIOUS
<1>1. Sampling \subseteq {launched}
  BY DEF OwnerInv, Sampling
<1>2. CASE Live
  <2>1. Sampling = {launched}
    BY <1>1, <1>2 DEF Sampling, Live
  <2> QED
    BY <1>2, <2>1 DEF Phase, PhaseIsThatOfLast
<1>3. CASE ~ Live
  <2>1. Sampling = {}
    BY <1>1, <1>3 DEF Sampling, Live
  <2> QED
    BY <1>3, <2>1 DEF Phase, PhaseIsThatOfLast
<1> QED
  BY <1>2, <1>3

\* The same, after a step.
LEMMA PhaseOfLastNext == OwnerInv' => PhaseIsThatOfLast'
  BY PhaseOfLast, PTL

\* Every step of the Monitor is a step of the service, or leaves it alone.
LEMMA StepSimulation ==
  ASSUME OneOwner, OrderInv, OrderInv', [Next]_vars
  PROVE  [Service!Next]_(Service!vars)
<1>0. /\ OwnerInv /\ OwnerInv' /\ TypeInv /\ CancelInv /\ TypeOK /\ TypeOK'
      /\ stored' \in Nat /\ stored' >= stored
  BY StoredGrows DEF OrderInv, OwnerInv, TypeInv, TypeOK
<1>a. PhaseIsThatOfLast /\ PhaseIsThatOfLast'
  BY <1>0, PhaseOfLast, PhaseOfLastNext
<1> USE CallersAreNoRuns, BoundsAssumption, LifecycleAssumption
<1> USE DEF lifecycleVars, dataVars, stopVars
<1>s. ASSUME UNCHANGED <<Phase, stored>> PROVE [Service!Next]_(Service!vars)
  BY <1>s DEF Service!vars
<1>q. ASSUME Live' <=> Live, UNCHANGED <<launched, ctxDone>> PROVE UNCHANGED Phase
  BY <1>a, <1>q DEF PhaseIsThatOfLast
<1>1. ASSUME NEW c \in Lifecycle, Start(c) PROVE [Service!Next]_(Service!vars)
  <2>1. ~ Live
    BY <1>0, <1>1 DEF Start, OwnerInv, OneOwner, Stopping, Live
  <2>2. launched' \in Runs /\ launched' \notin ctxDone
    BY <1>0, <1>1 DEF Start, CancelInv, TypeOK
  <2>3. UNCHANGED <<ctxDone, stored>>
    BY <1>1 DEF Start
  <2>4. Live'
    BY <1>0, <1>1, <2>2 DEF Start, Live, Alive, TypeOK
  <2>5. Phase = "off" /\ Phase' = "on"
    BY <1>a, <2>1, <2>2, <2>3, <2>4 DEF PhaseIsThatOfLast
  <2> QED
    BY <2>3, <2>5 DEF Service!Next, Service!Begin
<1>2. ASSUME NEW r \in Runs, ctxDone' = ctxDone \cup {r}, UNCHANGED <<launched, stored>>,
             Live' <=> Live
      PROVE  [Service!Next]_(Service!vars)
  <2>1. CASE Live /\ r = launched /\ r \notin ctxDone
    <3>1. Phase = "on" /\ Phase' = "ending"
      BY <1>a, <1>2, <2>1 DEF PhaseIsThatOfLast
    <3> QED
      BY <1>2, <3>1 DEF Service!Next, Service!AskToEnd
  <2>2. CASE ~ Live \/ r # launched \/ r \in ctxDone
    <3>1. UNCHANGED Phase
      BY <1>a, <1>2, <2>2 DEF PhaseIsThatOfLast
    <3> QED
      BY <1>2, <1>s, <3>1
  <2> QED
    BY <2>1, <2>2
<1>3. ASSUME NEW r \in Runs, ParentCancel(r) PROVE [Service!Next]_(Service!vars)
  <2>1. Live' <=> Live
    BY <1>3 DEF ParentCancel, Live, Alive
  <2> QED
    BY <1>2, <1>3, <2>1 DEF ParentCancel
<1>4. ASSUME NEW c \in Lifecycle, StopLock(c) PROVE [Service!Next]_(Service!vars)
  <2>1. UNCHANGED <<launched, ctxDone, stored>>
    BY <1>4 DEF StopLock
  <2>2. Live' <=> Live
    BY <1>0, <1>4, <2>1 DEF StopLock, Live, Alive, TypeOK
  <2> QED
    BY <1>q, <1>s, <2>1, <2>2
<1>5. ASSUME NEW c \in Lifecycle, StopCancel(c) PROVE [Service!Next]_(Service!vars)
  <2>1. stopRun[c] \in Runs
    BY <1>0, <1>5 DEF StopCancel, TypeInv, Stopping
  <2>2. Live' <=> Live
    BY <1>0, <1>5 DEF StopCancel, Live, Alive, TypeOK
  <2> QED
    BY <1>2, <1>5, <2>1, <2>2 DEF StopCancel
<1>6. ASSUME NEW c \in Lifecycle, StopReturn(c) PROVE [Service!Next]_(Service!vars)
  <2>1. UNCHANGED <<launched, ctxDone, stored>>
    BY <1>6 DEF StopReturn
  <2>2. Live' <=> Live
    BY <1>0, <1>6, <2>1 DEF StopReturn, Live, Alive, TypeOK
  <2> QED
    BY <1>q, <1>s, <2>1, <2>2
<1>7. ASSUME NEW r \in Runs, RunBegin(r) PROVE [Service!Next]_(Service!vars)
  <2>1. UNCHANGED <<launched, ctxDone, stored>>
    BY <1>7 DEF RunBegin
  <2>2. Live' <=> Live
    BY <1>0, <1>7, <2>1 DEF RunBegin, Live, Alive, TypeOK
  <2> QED
    BY <1>q, <1>s, <2>1, <2>2
<1>8. ASSUME NEW r \in Runs, Sample(r) PROVE [Service!Next]_(Service!vars)
  <2>1. UNCHANGED <<launched, ctxDone, stored>>
    BY <1>8 DEF Sample
  <2>2. Live' <=> Live
    BY <1>0, <1>8, <2>1 DEF Sample, Live, Alive, TypeOK
  <2> QED
    BY <1>q, <1>s, <2>1, <2>2
<1>9. ASSUME NEW r \in Runs, SampleFails(r) PROVE [Service!Next]_(Service!vars)
  <2>1. UNCHANGED <<launched, ctxDone, stored>>
    BY <1>9 DEF SampleFails
  <2>2. Live' <=> Live
    BY <1>0, <1>9, <2>1 DEF SampleFails, Live, Alive, TypeOK
  <2> QED
    BY <1>q, <1>s, <2>1, <2>2
<1>10. ASSUME NEW r \in Runs, RunTick(r) PROVE [Service!Next]_(Service!vars)
  <2>1. UNCHANGED <<launched, ctxDone, stored>>
    BY <1>10 DEF RunTick
  <2>2. Live' <=> Live
    BY <1>0, <1>10, <2>1 DEF RunTick, Live, Alive, TypeOK
  <2> QED
    BY <1>q, <1>s, <2>1, <2>2
<1>11. ASSUME NEW c \in Callers, NEW at \in 0 .. clock, Report(c, at) PROVE [Service!Next]_(Service!vars)
  <2>1. UNCHANGED <<launched, ctxDone, stored>>
    BY <1>11 DEF Report
  <2>2. Live' <=> Live
    BY <1>0, <1>11, <2>1 DEF Report, Live, Alive, TypeOK
  <2> QED
    BY <1>q, <1>s, <2>1, <2>2
<1>12. ASSUME NEW t \in Threads, Deliver(t) PROVE [Service!Next]_(Service!vars)
  <2>1. UNCHANGED <<launched, ctxDone, stored>>
    BY <1>12 DEF Deliver
  <2>2. Live' <=> Live
    BY <1>0, <1>12, <2>1 DEF Deliver, Live, Alive, TypeOK
  <2> QED
    BY <1>q, <1>s, <2>1, <2>2
<1>13. ASSUME NEW t \in Threads, DeliverEnd(t) PROVE [Service!Next]_(Service!vars)
  <2>1. UNCHANGED <<launched, ctxDone, stored>>
    BY <1>13 DEF DeliverEnd
  <2>2. Live' <=> Live
    BY <1>0, <1>13, <2>1 DEF DeliverEnd, Live, Alive, TypeOK
  <2> QED
    BY <1>q, <1>s, <2>1, <2>2
<1>14. ASSUME NEW s \in Subs, Subscribe(s) PROVE [Service!Next]_(Service!vars)
  <2>1. UNCHANGED <<launched, ctxDone, stored>>
    BY <1>14 DEF Subscribe
  <2>2. Live' <=> Live
    BY <1>0, <1>14, <2>1 DEF Subscribe, Live, Alive, TypeOK
  <2> QED
    BY <1>q, <1>s, <2>1, <2>2
<1>15. ASSUME Tick PROVE [Service!Next]_(Service!vars)
  <2>1. UNCHANGED <<launched, ctxDone, stored>>
    BY <1>15 DEF Tick
  <2>2. Live' <=> Live
    BY <1>0, <1>15, <2>1 DEF Tick, Live, Alive, TypeOK
  <2> QED
    BY <1>q, <1>s, <2>1, <2>2
<1>16. ASSUME UNCHANGED vars PROVE [Service!Next]_(Service!vars)
  <2>1. UNCHANGED <<launched, ctxDone, stored>>
    BY <1>16 DEF vars
  <2>2. Live' <=> Live
    BY <1>0, <1>16, <2>1 DEF vars, Live, Alive, TypeOK
  <2> QED
    BY <1>q, <1>s, <2>1, <2>2
<1>17. ASSUME NEW r \in Runs, Store(r) PROVE [Service!Next]_(Service!vars)
  <2>1. r = launched /\ Live
    BY <1>0, <1>17 DEF Store, OwnerInv, Live, Alive
  <2>2. UNCHANGED <<launched, ctxDone>> /\ Live'
    BY <1>0, <1>17, <2>1 DEF Store, Live, Alive, TypeOK
  <2>3. Phase \in {"on", "ending"} /\ UNCHANGED Phase
    BY <1>a, <2>1, <2>2 DEF PhaseIsThatOfLast
  <2> QED
    BY <1>0, <2>3 DEF Service!Next, Service!Publish
<1>18. ASSUME NEW r \in Runs, RunExit(r) PROVE [Service!Next]_(Service!vars)
  <2>1. r = launched /\ Live
    BY <1>0, <1>18 DEF RunExit, OwnerInv, Live, Alive
  <2>2. launched \in ctxDone /\ UNCHANGED <<launched, stored>> /\ ~ Live'
    BY <1>0, <1>18, <2>1 DEF RunExit, Live, Alive, TypeOK
  <2>3. Phase = "ending" /\ Phase' = "off"
    BY <1>a, <2>1, <2>2 DEF PhaseIsThatOfLast
  <2> QED
    BY <2>2, <2>3 DEF Service!Next, Service!End
<1> QED
  BY <1>1, <1>3, <1>4, <1>5, <1>6, <1>7, <1>8, <1>9, <1>10, <1>11, <1>12, <1>13, <1>14, <1>15, <1>16, <1>17, <1>18
  DEF Next, CallerStep, RunStep

\* A monitor owned by one goroutine starts as the service does, and each of
\* its steps is one of the service's or invisible to its owner.
THEOREM OwnerImplementsService ==
  ASSUME OneOwner PROVE Spec => Service!Init /\ [][Service!Next]_(Service!vars)
<1>1. Init => Service!Init
  <2> SUFFICES ASSUME Init PROVE Service!Init
    OBVIOUS
  <2>1. \A r \in Runs : ~ Alive(r)
    BY DEF Init, Alive
  <2>2. Phase = "off" /\ stored = 0
    BY <2>1 DEF Init, Phase, Sampling
  <2> QED
    BY <2>2 DEF Service!Init
<1>2. OrderInv /\ OrderInv' /\ [Next]_vars => [Service!Next]_(Service!vars)
  BY StepSimulation
<1> QED
  BY <1>1, <1>2, OrderInit, OrderStep, PTL DEF Spec

============================================================================
