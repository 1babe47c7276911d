------------------------ MODULE ClientMetrics_proofs ------------------------
(***************************************************************************)
(* Theorems about ClientMetrics, for any number of monitors, of goroutines *)
(* that make requests, of requests and of clock readings.                  *)
(***************************************************************************)
EXTENDS ClientMetrics, TLAPS

Active(g) == requester[g] # "idle"
Reports(g) == requester[g] \in {"sink", "merged"}

\* Once there is a monitor there is a sink, and who has taken up a sink to
\* report to has taken up that of a monitor.
SinkInv ==
  /\ made # {} => sink # NoMonitor
  /\ owed # {} => made # {}
  /\ \A g \in Requesters : Reports(g) => target[g] # NoMonitor
  /\ \A g \in Requesters : Reporting(g) => reported[g]

\* The number of a request under way is its own, and nothing is reported under
\* it until its one report.
NumberInv ==
  /\ \A g \in Requesters : Active(g) => request[g] \in Requests /\ request[g] <= requests
  /\ \A g, h \in Requesters : g # h /\ Active(g) /\ Active(h) => request[g] # request[h]
  /\ \A g \in Requesters :
       Active(g) /\ (reported[g] => Reporting(g)) => reports[request[g]] = 0
  /\ \A q \in Requests : q > requests => reports[q] = 0 /\ q \notin owed
  /\ \A q \in Requests : reports[q] <= 1 /\ (reports[q] = 0 => recipients[q] = {})
  /\ \A m \in Monitors : latest[m].req # 0 =>
       latest[m].req \in Requests /\ reports[latest[m].req] = 1

\* A report under way is bound for a monitor that is still current, or was when
\* the request ended, or was made since.
TargetInv ==
  /\ ToCurrent
  /\ \A q \in Requests : replaced[q] \subseteq made
  /\ \A g \in Requesters : requester[g] = "ended" => sink \notin replaced[request[g]]
  /\ \A g \in Requesters : Reports(g) => target[g] \notin replaced[request[g]]

\* What a monitor's sampler stored gets newer, and a report carries what was
\* stored since its request ended.
MemoryInv ==
  /\ \A m \in Monitors : lastMem[m] <= sample[m] /\ sample[m] <= clock
  /\ \A m \in Monitors : lastMem[m] \in stored[m] \cup {0} /\ latest[m].mem \in stored[m] \cup {0}
  /\ \A q \in Requests, m \in Monitors : known[q][m] <= lastMem[m]
  /\ \A m \in Monitors : latest[m].req # 0 => known[latest[m].req][m] <= latest[m].mem
  /\ \A g \in Requesters : requester[g] = "merged" =>
       /\ merged[g] \in stored[target[g]] \cup {0}
       /\ known[request[g]][target[g]] <= merged[g]

MetricsInv == TypeOK /\ SinkInv /\ NumberInv /\ NoneLost /\ TargetInv /\ MemoryInv

\* What the arithmetic of the proofs needs of the types.
Typed ==
  /\ NoMonitor \notin Monitors /\ Requests \subseteq Nat
  /\ made \subseteq Monitors /\ sink \in made \cup {NoMonitor}
  /\ clock \in Nat /\ requests \in Nat
  /\ lastMem \in [Monitors -> Nat] /\ sample \in [Monitors -> Nat]
  /\ \A m \in Monitors : latest[m].mem \in Nat /\ latest[m].req \in Nat
  /\ latest = [m \in Monitors |-> latest[m]]
  /\ requester = [g \in Requesters |-> requester[g]]
  /\ request \in [Requesters -> Nat] /\ reported \in [Requesters -> BOOLEAN]
  /\ target \in [Requesters -> Monitors \cup {NoMonitor}]
  /\ merged \in [Requesters -> Nat]
  /\ reports \in [Requests -> Nat] /\ recipients \in [Requests -> SUBSET Monitors]
  /\ owed \subseteq Requests /\ replaced \in [Requests -> SUBSET Monitors]
  /\ known \in [Requests -> [Monitors -> Nat]] /\ stored \in [Monitors -> SUBSET Nat]

USE DEF Now, Becomes, samplerVars, requestVars, historyVars
----------------------------------------------------------------------------
(* Each part of the invariant.                                             *)


\* The types, as the steps below use them.
LEMMA Typing == TypeOK => Typed
<1> SUFFICES ASSUME TypeOK PROVE Typed
  OBVIOUS
<1>1. Times \subseteq Nat /\ Requests \subseteq Nat /\ 0 .. MaxRequests \subseteq Nat
  BY BoundsAssumption DEF Times, Requests
<1>2. /\ lastMem \in [Monitors -> Nat] /\ sample \in [Monitors -> Nat]
      /\ merged \in [Requesters -> Nat] /\ clock \in Nat
  BY <1>1 DEF TypeOK
<1>3. request \in [Requesters -> Nat] /\ requests \in Nat
  BY <1>1 DEF TypeOK
<1>4. /\ \A m \in Monitors : latest[m].mem \in Nat /\ latest[m].req \in Nat
      /\ latest = [m \in Monitors |-> latest[m]]
  BY <1>1 DEF TypeOK
<1>5. known \in [Requests -> [Monitors -> Nat]]
  BY <1>1 DEF TypeOK
<1>8. stored \in [Monitors -> SUBSET Nat]
  BY <1>1 DEF TypeOK
<1>6. target \in [Requesters -> Monitors \cup {NoMonitor}]
  BY DEF TypeOK
<1>7. /\ requester = [g \in Requesters |-> requester[g]]
      /\ reports \in [Requests -> Nat] /\ recipients \in [Requests -> SUBSET Monitors]
      /\ owed \subseteq Requests /\ replaced \in [Requests -> SUBSET Monitors]
      /\ reported \in [Requesters -> BOOLEAN]
      /\ made \subseteq Monitors /\ sink \in made \cup {NoMonitor}
  BY DEF TypeOK
<1> QED
  BY <1>1, <1>2, <1>3, <1>4, <1>5, <1>6, <1>7, <1>8, NoMonitorAssumption DEF Typed

\* The one report of a request.
LEMMA PublishOnce ==
  ASSUME TypeOK, SinkInv, NumberInv, NEW g \in Requesters, Publish(g)
  PROVE  /\ request[g] \in Requests /\ target[g] \in Monitors
         /\ request[g] <= requests
         /\ reports[request[g]] = 0 /\ recipients[request[g]] = {}
         /\ reports' = [reports EXCEPT ![request[g]] = 1]
         /\ recipients' = [recipients EXCEPT ![request[g]] = {target[g]}]
         /\ \A h \in Requesters : h # g /\ Active(h) =>
              request[h] \in Requests /\ request[h] # request[g]
<1> USE Typing DEF Typed, SinkInv, NumberInv, Active, Reports, Reporting
<1>1. /\ request[g] \in Requests /\ request[g] <= requests
      /\ target[g] \in Monitors /\ reports[request[g]] = 0
  BY DEF Publish
<1>2. /\ recipients[request[g]] = {}
      /\ reports' = [reports EXCEPT ![request[g]] = 1]
      /\ recipients' = [recipients EXCEPT ![request[g]] = {target[g]}]
  <2>1. recipients[request[g]] = {} /\ reports[request[g]] + 1 = 1
    BY <1>1
  <2> QED
    BY <1>1, <2>1 DEF Publish
<1>3. \A h \in Requesters : h # g /\ Active(h) =>
        request[h] \in Requests /\ request[h] # request[g]
  BY DEF Publish
<1> QED
  BY <1>1, <1>2, <1>3

\* What RequestEnds does to the histories of its request.
LEMMA EndsOnce ==
  ASSUME TypeOK, SinkInv, NumberInv, NEW g \in Requesters, RequestEnds(g)
  PROVE  /\ request[g] \in Requests
         /\ reports[request[g]] = 0 /\ recipients[request[g]] = {}
         /\ UNCHANGED <<reports, recipients, latest, lastMem>>
         /\ \A m \in Monitors : latest[m].req # 0 =>
              latest[m].req \in Requests /\ latest[m].req # request[g]
         /\ \A h \in Requesters : h # g /\ Active(h) =>
              request[h] \in Requests /\ request[h] # request[g]
<1> USE Typing DEF Typed, SinkInv, NumberInv, Active, Reports, Reporting
<1>1. request[g] \in Requests /\ reports[request[g]] = 0 /\ recipients[request[g]] = {}
  BY DEF RequestEnds
<1>2. UNCHANGED <<reports, recipients, latest, lastMem>>
  BY DEF RequestEnds, Ends
<1>3. \A m \in Monitors : latest[m].req # 0 =>
        latest[m].req \in Requests /\ latest[m].req # request[g]
  BY <1>1
<1>4. \A h \in Requesters : h # g /\ Active(h) =>
        request[h] \in Requests /\ request[h] # request[g]
  BY DEF RequestEnds
<1> QED
  BY <1>1, <1>2, <1>3, <1>4

\* Every step keeps the types; a request is published under its own number to a
\* monitor that was made.
LEMMA TypeStep == ASSUME TypeOK, NumberInv, SinkInv, [Next]_vars PROVE TypeOK'
<1> USE BoundsAssumption, NoMonitorAssumption
        DEF TypeOK, NumberInv, SinkInv, Active, Reports, Reporting, Times, Requests
<1>1. ASSUME NEW m \in Monitors, Monitor(m) PROVE TypeOK'
  BY <1>1 DEF Monitor
<1>2. ASSUME NEW m \in Monitors, SampleRead(m) PROVE TypeOK'
  BY <1>2 DEF SampleRead
<1>3. ASSUME NEW m \in Monitors, SampleStore(m) PROVE TypeOK'
  <2>1. lastMem' \in [Monitors -> Times]
    BY <1>3 DEF SampleStore
  <2>2. stored' \in [Monitors -> SUBSET Times]
    BY <1>3 DEF SampleStore
  <2>3. sampler' \in [Monitors -> {"wait", "read", "stored"}]
    BY <1>3 DEF SampleStore
  <2>4. UNCHANGED <<made, sink, clock, latest, sample, requester, request, reported,
                    target, merged, requests, reports, recipients, owed, replaced,
                    known>>
    BY <1>3 DEF SampleStore
  <2> HIDE DEF NumberInv, SinkInv, Requests, Times
  <2> QED
    BY <2>1, <2>2, <2>3, <2>4
<1>4. ASSUME NEW m \in Monitors, SamplePublish(m) PROVE TypeOK'
  <2>1. latest' \in [Monitors -> [mem : Times, req : 0 .. MaxRequests]]
    BY <1>4 DEF SamplePublish
  <2>2. sampler' \in [Monitors -> {"wait", "read", "stored"}]
    BY <1>4 DEF SamplePublish
  <2>3. UNCHANGED <<made, sink, clock, lastMem, sample, requester, request, reported,
                    target, merged, requests, reports, recipients, owed, replaced,
                    known, stored>>
    BY <1>4 DEF SamplePublish
  <2> HIDE DEF NumberInv, SinkInv, Requests, Times
  <2> QED
    BY <2>1, <2>2, <2>3
<1>5. ASSUME NEW g \in Requesters, Ask(g) PROVE TypeOK'
  <2>1. requests' \in 0 .. MaxRequests
    BY <1>5 DEF Ask
  <2>2. request' \in [Requesters -> 0 .. MaxRequests]
    BY <1>5 DEF Ask
  <2>3. reported' \in [Requesters -> BOOLEAN]
    BY <1>5 DEF Ask
  <2>4. requester' \in [Requesters -> {"idle", "asked", "ended", "sink", "merged"}]
    BY <1>5 DEF Ask
  <2>5. UNCHANGED <<made, sink, clock, lastMem, latest, sampler, sample, target, merged,
                    reports, recipients, owed, replaced, known, stored>>
    BY <1>5 DEF Ask
  <2> HIDE DEF NumberInv, SinkInv, Requests, Times
  <2> QED
    BY <2>1, <2>2, <2>3, <2>4, <2>5
<1>6. ASSUME NEW g \in Requesters, RequestEnds(g) PROVE TypeOK'
  <2>1. request[g] \in Requests
    BY <1>6 DEF RequestEnds
  <2>2. reported' \in [Requesters -> BOOLEAN]
    BY <1>6, <2>1 DEF RequestEnds, Ends
  <2>3. owed' \subseteq Requests
    BY <1>6, <2>1 DEF RequestEnds, Ends
  <2>4. replaced' \in [Requests -> SUBSET Monitors]
    BY <1>6, <2>1 DEF RequestEnds, Ends
  <2>5. known' \in [Requests -> [Monitors -> Times]]
    BY <1>6, <2>1 DEF RequestEnds, Ends
  <2>6. requester' \in [Requesters -> {"idle", "asked", "ended", "sink", "merged"}]
    BY <1>6, <2>1 DEF RequestEnds, Ends
  <2>7. UNCHANGED <<made, sink, clock, lastMem, latest, sampler, sample, request,
                    target, merged, requests, reports, recipients, stored>>
    BY <1>6 DEF RequestEnds, Ends
  <2> HIDE DEF NumberInv, SinkInv, Requests, Times
  <2> QED
    BY <2>2, <2>3, <2>4, <2>5, <2>6, <2>7
<1>7. ASSUME NEW g \in Requesters, RequestDropped(g) PROVE TypeOK'
  BY <1>7 DEF RequestDropped
<1>8. ASSUME NEW g \in Requesters, ReadSink(g) PROVE TypeOK'
  BY <1>8 DEF ReadSink, TakeSink
<1>9. ASSUME NEW g \in Requesters, Merge(g) PROVE TypeOK'
  BY <1>9 DEF Merge, Merges
<1>10. ASSUME NEW g \in Requesters, Publish(g) PROVE TypeOK'
  <2>1. target[g] \in Monitors /\ request[g] \in Requests
    BY <1>10 DEF Publish
  <2>2. latest' \in [Monitors -> [mem : Times, req : 0 .. MaxRequests]]
    BY <1>10, <2>1 DEF Publish
  <2>3. reports' \in [Requests -> Nat]
    <3>1. reports' = [reports EXCEPT ![request[g]] = 1] /\ reports \in [Requests -> Nat]
      BY <1>10, PublishOnce
    <3> HIDE DEF TypeOK, NumberInv, SinkInv
    <3> QED
      BY <3>1
  <2>4. recipients' \in [Requests -> SUBSET Monitors]
    BY <1>10, <2>1 DEF Publish
  <2>5. merged' \in [Requesters -> Times]
    BY <1>10, <2>1 DEF Publish
  <2>6. requester' \in [Requesters -> {"idle", "asked", "ended", "sink", "merged"}]
    BY <1>10, <2>1 DEF Publish
  <2>7. UNCHANGED <<made, sink, clock, lastMem, sampler, sample, request, reported,
                    target, requests, owed, replaced, known, stored>>
    BY <1>10 DEF Publish
  <2> HIDE DEF NumberInv, SinkInv, Requests, Times
  <2> QED
    BY <2>2, <2>3, <2>4, <2>5, <2>6, <2>7
<1>11. CASE Tick
  <2>1. clock' \in Times
    BY <1>11 DEF Tick
  <2>2. UNCHANGED <<made, sink, lastMem, latest, sampler, sample, requester, request,
                    reported, target, merged, requests, reports, recipients, owed,
                    replaced, known, stored>>
    BY <1>11 DEF Tick
  <2> HIDE DEF NumberInv, SinkInv, Requests, Times
  <2> QED
    BY <2>1, <2>2
<1>12. CASE UNCHANGED vars
  BY <1>12 DEF vars
<1> QED
  BY <1>1, <1>2, <1>3, <1>4, <1>5, <1>6, <1>7, <1>8, <1>9, <1>10, <1>11, <1>12 DEF Next

\* The sink is never taken away again.
LEMMA SinkStep == ASSUME TypeOK, SinkInv, [Next]_vars PROVE SinkInv'
<1> USE BoundsAssumption, NoMonitorAssumption DEF TypeOK, SinkInv, Reports, Reporting, Requests
<1>1. ASSUME NEW m \in Monitors, Monitor(m) PROVE SinkInv'
  BY <1>1 DEF Monitor
<1>2. ASSUME NEW m \in Monitors, SampleRead(m) PROVE SinkInv'
  BY <1>2 DEF SampleRead
<1>3. ASSUME NEW m \in Monitors, SampleStore(m) PROVE SinkInv'
  BY <1>3 DEF SampleStore
<1>4. ASSUME NEW m \in Monitors, SamplePublish(m) PROVE SinkInv'
  BY <1>4 DEF SamplePublish
<1>5. ASSUME NEW g \in Requesters, Ask(g) PROVE SinkInv'
  BY <1>5 DEF Ask
<1>6. ASSUME NEW g \in Requesters, RequestEnds(g) PROVE SinkInv'
  BY <1>6 DEF RequestEnds, Ends
<1>7. ASSUME NEW g \in Requesters, RequestDropped(g) PROVE SinkInv'
  BY <1>7 DEF RequestDropped
<1>8. ASSUME NEW g \in Requesters, ReadSink(g) PROVE SinkInv'
  BY <1>8 DEF ReadSink, TakeSink
<1>9. ASSUME NEW g \in Requesters, Merge(g) PROVE SinkInv'
  BY <1>9 DEF Merge, Merges
<1>10. ASSUME NEW g \in Requesters, Publish(g) PROVE SinkInv'
  BY <1>10 DEF Publish
<1>11. CASE Tick
  BY <1>11 DEF Tick
<1>12. CASE UNCHANGED vars
  BY <1>12 DEF vars
<1> QED
  BY <1>1, <1>2, <1>3, <1>4, <1>5, <1>6, <1>7, <1>8, <1>9, <1>10, <1>11, <1>12 DEF Next

\* A number is given out once and reported once.
LEMMA NumberStep == ASSUME TypeOK, SinkInv, NumberInv, [Next]_vars PROVE NumberInv'
<1> USE Typing DEF Typed, SinkInv, NumberInv, Active, Reports, Reporting
<1>1. ASSUME NEW m \in Monitors, Monitor(m) PROVE NumberInv'
  BY <1>1 DEF Monitor
<1>2. ASSUME NEW m \in Monitors, SampleRead(m) PROVE NumberInv'
  BY <1>2 DEF SampleRead
<1>3. ASSUME NEW m \in Monitors, SampleStore(m) PROVE NumberInv'
  BY <1>3 DEF SampleStore
<1>4. ASSUME NEW m \in Monitors, SamplePublish(m) PROVE NumberInv'
  BY <1>4 DEF SamplePublish
<1>5. ASSUME NEW g \in Requesters, Ask(g) PROVE NumberInv'
  <2>1. /\ requests' \in Requests /\ requests' = requests + 1 /\ request'[g] = requests'
        /\ \A h \in Requesters : h # g => request'[h] = request[h] /\ (Active(h)' => Active(h))
        /\ \A h \in Requesters : Active(h) => request[h] < requests'
    BY <1>5, BoundsAssumption DEF Ask, Requests
  <2>2. \A h \in Requesters : Active(h)' =>
         request'[h] \in Requests /\ request'[h] <= requests'
    BY <1>5, <2>1 DEF Ask
  <2>3. \A h, k \in Requesters : h # k /\ Active(h)' /\ Active(k)' => request'[h] # request'[k]
    BY <2>1
  <2>4. \A h \in Requesters :
         Active(h)' /\ (reported'[h] => Reporting(h)') => reports'[request'[h]] = 0
    BY <1>5, <2>1 DEF Ask
  <2>5. \A q \in Requests : q > requests' => reports'[q] = 0 /\ q \notin owed'
    BY <1>5, <2>1 DEF Ask
  <2>6. \A q \in Requests : reports'[q] <= 1 /\ (reports'[q] = 0 => recipients'[q] = {})
    BY <1>5, <2>1 DEF Ask
  <2>7. \A m \in Monitors : latest'[m].req # 0 =>
         latest'[m].req \in Requests /\ reports'[latest'[m].req] = 1
    BY <1>5, <2>1 DEF Ask
  <2> QED
    BY <2>2, <2>3, <2>4, <2>5, <2>6, <2>7
<1>6. ASSUME NEW g \in Requesters, RequestEnds(g) PROVE NumberInv'
  BY <1>6 DEF RequestEnds, Ends
<1>7. ASSUME NEW g \in Requesters, RequestDropped(g) PROVE NumberInv'
  BY <1>7 DEF RequestDropped
<1>8. ASSUME NEW g \in Requesters, ReadSink(g) PROVE NumberInv'
  BY <1>8 DEF ReadSink, TakeSink
<1>9. ASSUME NEW g \in Requesters, Merge(g) PROVE NumberInv'
  BY <1>9 DEF Merge, Merges
<1>10. ASSUME NEW g \in Requesters, Publish(g) PROVE NumberInv'
  <2>1. /\ request[g] \in Requests /\ request[g] <= requests /\ target[g] \in Monitors
        /\ reports[request[g]] = 0 /\ recipients[request[g]] = {}
        /\ reports' = [reports EXCEPT ![request[g]] = 1]
        /\ recipients' = [recipients EXCEPT ![request[g]] = {target[g]}]
        /\ \A h \in Requesters : h # g /\ Active(h) =>
             request[h] \in Requests /\ request[h] # request[g]
    BY <1>10, PublishOnce
  <2>2. \A h \in Requesters : Active(h)' =>
         request'[h] \in Requests /\ request'[h] <= requests'
    BY <1>10, <2>1 DEF Publish
  <2>3. \A h, k \in Requesters : h # k /\ Active(h)' /\ Active(k)' => request'[h] # request'[k]
    BY <1>10, <2>1 DEF Publish
  <2>4. \A h \in Requesters :
         Active(h)' /\ (reported'[h] => Reporting(h)') => reports'[request'[h]] = 0
    BY <1>10, <2>1 DEF Publish
  <2>5. \A q \in Requests : q > requests' => reports'[q] = 0 /\ q \notin owed'
    BY <1>10, <2>1 DEF Publish
  <2>6. \A q \in Requests : reports'[q] <= 1 /\ (reports'[q] = 0 => recipients'[q] = {})
    BY <1>10, <2>1 DEF Publish
  <2>7. \A m \in Monitors : latest'[m].req # 0 =>
         latest'[m].req \in Requests /\ reports'[latest'[m].req] = 1
    BY <1>10, <2>1 DEF Publish
  <2> QED
    BY <2>2, <2>3, <2>4, <2>5, <2>6, <2>7
<1>11. CASE Tick
  BY <1>11 DEF Tick
<1>12. CASE UNCHANGED vars
  BY <1>12 DEF vars
<1> QED
  BY <1>1, <1>2, <1>3, <1>4, <1>5, <1>6, <1>7, <1>8, <1>9, <1>10, <1>11, <1>12 DEF Next

\* A request that is owed a report is under way until it has one.
LEMMA OwedStep == ASSUME TypeOK, SinkInv, NumberInv, NoneLost, [Next]_vars PROVE NoneLost'
<1> USE Typing DEF Typed, SinkInv, NumberInv, NoneLost, Active, Reports, Reporting
<1>1. ASSUME NEW m \in Monitors, Monitor(m) PROVE NoneLost'
  BY <1>1 DEF Monitor
<1>2. ASSUME NEW m \in Monitors, SampleRead(m) PROVE NoneLost'
  BY <1>2 DEF SampleRead
<1>3. ASSUME NEW m \in Monitors, SampleStore(m) PROVE NoneLost'
  BY <1>3 DEF SampleStore
<1>4. ASSUME NEW m \in Monitors, SamplePublish(m) PROVE NoneLost'
  BY <1>4 DEF SamplePublish
<1>5. ASSUME NEW g \in Requesters, Ask(g) PROVE NoneLost'
  BY <1>5 DEF Ask
<1>6. ASSUME NEW g \in Requesters, RequestEnds(g) PROVE NoneLost'
  BY <1>6 DEF RequestEnds, Ends
<1>7. ASSUME NEW g \in Requesters, RequestDropped(g) PROVE NoneLost'
  BY <1>7 DEF RequestDropped
<1>8. ASSUME NEW g \in Requesters, ReadSink(g) PROVE NoneLost'
  <2>1. /\ UNCHANGED <<owed, reports, request>>
        /\ \A h \in Requesters : h # g => requester'[h] = requester[h]
    BY <1>8 DEF ReadSink, TakeSink
  <2>2. request[g] \in owed => Reporting(g)'
    BY <1>8 DEF ReadSink, TakeSink
  <2>3. ASSUME NEW q \in owed, NEW h \in Requesters, Reporting(h), request[h] = q
        PROVE  Reporting(h)' /\ request'[h] = q
    BY <2>1, <2>2, <2>3
  <2>4. ASSUME NEW q \in owed
        PROVE  reports'[q] > 0 \/ \E h \in Requesters : Reporting(h)' /\ request'[h] = q
    BY <2>1, <2>3, <2>4
  <2> QED
    BY <2>1, <2>4
<1>9. ASSUME NEW g \in Requesters, Merge(g) PROVE NoneLost'
  BY <1>9 DEF Merge, Merges
<1>10. ASSUME NEW g \in Requesters, Publish(g) PROVE NoneLost'
  <2>1. /\ UNCHANGED <<owed, request>> /\ reports'[request[g]] > 0
        /\ \A q \in Requests : q # request[g] => reports'[q] = reports[q]
        /\ \A h \in Requesters : h # g => requester'[h] = requester[h]
    BY <1>10, PublishOnce DEF Publish
  <2>2. ASSUME NEW q \in owed, q # request[g], NEW h \in Requesters, Reporting(h), request[h] = q
        PROVE  Reporting(h)' /\ request'[h] = q
    BY <2>1, <2>2
  <2>3. ASSUME NEW q \in owed, q # request[g]
        PROVE  reports'[q] > 0 \/ \E h \in Requesters : Reporting(h)' /\ request'[h] = q
    BY <2>1, <2>2, <2>3
  <2>4. \A q \in owed' :
          reports'[q] > 0 \/ \E h \in Requesters : Reporting(h)' /\ request'[h] = q
    BY <2>1, <2>3
  <2> QED
    BY <2>4
<1>11. CASE Tick
  BY <1>11 DEF Tick
<1>12. CASE UNCHANGED vars
  BY <1>12 DEF vars
<1> QED
  BY <1>1, <1>2, <1>3, <1>4, <1>5, <1>6, <1>7, <1>8, <1>9, <1>10, <1>11, <1>12 DEF Next

\* Who is replaced is so for good, and no report under way is bound for it.
LEMMA TargetStep == ASSUME TypeOK, SinkInv, NumberInv, TargetInv, [Next]_vars PROVE TargetInv'
<1> USE Typing DEF Typed, SinkInv, NumberInv, TargetInv, ToCurrent, Active, Reports, Reporting
<1>1. ASSUME NEW m \in Monitors, Monitor(m) PROVE TargetInv'
  BY <1>1 DEF Monitor
<1>2. ASSUME NEW m \in Monitors, SampleRead(m) PROVE TargetInv'
  BY <1>2 DEF SampleRead
<1>3. ASSUME NEW m \in Monitors, SampleStore(m) PROVE TargetInv'
  BY <1>3 DEF SampleStore
<1>4. ASSUME NEW m \in Monitors, SamplePublish(m) PROVE TargetInv'
  BY <1>4 DEF SamplePublish
<1>5. ASSUME NEW g \in Requesters, Ask(g) PROVE TargetInv'
  BY <1>5 DEF Ask
<1>6. ASSUME NEW g \in Requesters, RequestEnds(g) PROVE TargetInv'
  <2>1. /\ request[g] \in Requests
        /\ reports[request[g]] = 0 /\ recipients[request[g]] = {}
        /\ UNCHANGED <<reports, recipients, latest, lastMem>>
        /\ \A m \in Monitors : latest[m].req # 0 =>
             latest[m].req \in Requests /\ latest[m].req # request[g]
        /\ \A h \in Requesters : h # g /\ Active(h) =>
             request[h] \in Requests /\ request[h] # request[g]
    BY <1>6, EndsOnce
  <2>2. ToCurrent'
    BY <1>6, <2>1 DEF RequestEnds, Ends
  <2>3. \A q \in Requests : replaced'[q] \subseteq made'
    BY <1>6, <2>1 DEF RequestEnds, Ends
  <2>4. \A h \in Requesters : requester'[h] = "ended" => sink' \notin replaced'[request'[h]]
    BY <1>6, <2>1 DEF RequestEnds, Ends
  <2>5. \A h \in Requesters : Reports(h)' => target'[h] \notin replaced'[request'[h]]
    BY <1>6, <2>1 DEF RequestEnds, Ends
  <2> QED
    BY <2>2, <2>3, <2>4, <2>5
<1>7. ASSUME NEW g \in Requesters, RequestDropped(g) PROVE TargetInv'
  BY <1>7 DEF RequestDropped
<1>8. ASSUME NEW g \in Requesters, ReadSink(g) PROVE TargetInv'
  BY <1>8 DEF ReadSink, TakeSink
<1>9. ASSUME NEW g \in Requesters, Merge(g) PROVE TargetInv'
  BY <1>9 DEF Merge, Merges
<1>10. ASSUME NEW g \in Requesters, Publish(g) PROVE TargetInv'
  <2>1. /\ request[g] \in Requests /\ request[g] <= requests /\ target[g] \in Monitors
        /\ reports[request[g]] = 0 /\ recipients[request[g]] = {}
        /\ reports' = [reports EXCEPT ![request[g]] = 1]
        /\ recipients' = [recipients EXCEPT ![request[g]] = {target[g]}]
        /\ \A h \in Requesters : h # g /\ Active(h) =>
             request[h] \in Requests /\ request[h] # request[g]
    BY <1>10, PublishOnce
  <2>2. ToCurrent'
    BY <1>10, <2>1 DEF Publish
  <2>3. \A q \in Requests : replaced'[q] \subseteq made'
    BY <1>10, <2>1 DEF Publish
  <2>4. \A h \in Requesters : requester'[h] = "ended" => sink' \notin replaced'[request'[h]]
    BY <1>10, <2>1 DEF Publish
  <2>5. \A h \in Requesters : Reports(h)' => target'[h] \notin replaced'[request'[h]]
    BY <1>10, <2>1 DEF Publish
  <2> QED
    BY <2>2, <2>3, <2>4, <2>5
<1>11. CASE Tick
  BY <1>11 DEF Tick
<1>12. CASE UNCHANGED vars
  BY <1>12 DEF vars
<1> QED
  BY <1>1, <1>2, <1>3, <1>4, <1>5, <1>6, <1>7, <1>8, <1>9, <1>10, <1>11, <1>12 DEF Next

\* Memory samples only get newer, wherever they are kept.
LEMMA MemoryStep == ASSUME TypeOK, SinkInv, NumberInv, MemoryInv, [Next]_vars PROVE MemoryInv'
<1> USE Typing DEF Typed, SinkInv, NumberInv, MemoryInv, Active, Reports, Reporting
<1>1. ASSUME NEW m \in Monitors, Monitor(m) PROVE MemoryInv'
  BY <1>1 DEF Monitor
<1>2. ASSUME NEW m \in Monitors, SampleRead(m) PROVE MemoryInv'
  BY <1>2 DEF SampleRead
<1>3. ASSUME NEW m \in Monitors, SampleStore(m) PROVE MemoryInv'
  <2>1. sample[m] \in Nat /\ lastMem[m] <= sample[m]
    BY DEF SampleStore
  <2>2. \A n \in Monitors : lastMem'[n] <= sample'[n] /\ sample'[n] <= clock'
    BY <1>3, <2>1 DEF SampleStore
  <2>3. \A n \in Monitors :
         lastMem'[n] \in stored'[n] \cup {0} /\ latest'[n].mem \in stored'[n] \cup {0}
    BY <1>3, <2>1 DEF SampleStore
  <2>4. \A q \in Requests, n \in Monitors : known'[q][n] <= lastMem'[n]
    BY <1>3, <2>1 DEF SampleStore
  <2>5. \A n \in Monitors :
         latest'[n].req # 0 => known'[latest'[n].req][n] <= latest'[n].mem
    BY <1>3, <2>1 DEF SampleStore
  <2>6. \A h \in Requesters : requester'[h] = "merged" =>
         merged'[h] \in stored'[target'[h]] \cup {0}
    BY <1>3, <2>1 DEF SampleStore
  <2>7. \A h \in Requesters : requester'[h] = "merged" =>
         known'[request'[h]][target'[h]] <= merged'[h]
    BY <1>3, <2>1 DEF SampleStore
  <2> QED
    BY <2>2, <2>3, <2>4, <2>5, <2>6, <2>7
<1>4. ASSUME NEW m \in Monitors, SamplePublish(m) PROVE MemoryInv'
  BY <1>4 DEF SamplePublish
<1>5. ASSUME NEW g \in Requesters, Ask(g) PROVE MemoryInv'
  BY <1>5 DEF Ask
<1>6. ASSUME NEW g \in Requesters, RequestEnds(g) PROVE MemoryInv'
  <2>1. /\ request[g] \in Requests
        /\ reports[request[g]] = 0 /\ recipients[request[g]] = {}
        /\ UNCHANGED <<reports, recipients, latest, lastMem>>
        /\ \A m \in Monitors : latest[m].req # 0 =>
             latest[m].req \in Requests /\ latest[m].req # request[g]
        /\ \A h \in Requesters : h # g /\ Active(h) =>
             request[h] \in Requests /\ request[h] # request[g]
    BY <1>6, EndsOnce
  <2>2. \A n \in Monitors : lastMem'[n] <= sample'[n] /\ sample'[n] <= clock'
    BY <1>6, <2>1 DEF RequestEnds, Ends
  <2>3. \A n \in Monitors :
         lastMem'[n] \in stored'[n] \cup {0} /\ latest'[n].mem \in stored'[n] \cup {0}
    BY <1>6, <2>1 DEF RequestEnds, Ends
  <2>4. \A q \in Requests, n \in Monitors : known'[q][n] <= lastMem'[n]
    BY <1>6, <2>1 DEF RequestEnds, Ends
  <2>5. \A n \in Monitors :
         latest'[n].req # 0 => known'[latest'[n].req][n] <= latest'[n].mem
    BY <1>6, <2>1 DEF RequestEnds, Ends
  <2>6. \A h \in Requesters : requester'[h] = "merged" =>
         merged'[h] \in stored'[target'[h]] \cup {0}
    BY <1>6, <2>1 DEF RequestEnds, Ends
  <2>7. \A h \in Requesters : requester'[h] = "merged" =>
         known'[request'[h]][target'[h]] <= merged'[h]
    BY <1>6, <2>1 DEF RequestEnds, Ends
  <2> QED
    BY <2>2, <2>3, <2>4, <2>5, <2>6, <2>7
<1>7. ASSUME NEW g \in Requesters, RequestDropped(g) PROVE MemoryInv'
  BY <1>7 DEF RequestDropped
<1>8. ASSUME NEW g \in Requesters, ReadSink(g) PROVE MemoryInv'
  BY <1>8 DEF ReadSink, TakeSink
<1>9. ASSUME NEW g \in Requesters, Merge(g) PROVE MemoryInv'
  BY <1>9 DEF Merge, Merges
<1>10. ASSUME NEW g \in Requesters, Publish(g) PROVE MemoryInv'
  <2>1. /\ request[g] \in Requests /\ request[g] <= requests /\ target[g] \in Monitors
        /\ reports[request[g]] = 0 /\ recipients[request[g]] = {}
        /\ reports' = [reports EXCEPT ![request[g]] = 1]
        /\ recipients' = [recipients EXCEPT ![request[g]] = {target[g]}]
        /\ \A h \in Requesters : h # g /\ Active(h) =>
             request[h] \in Requests /\ request[h] # request[g]
    BY <1>10, PublishOnce
  <2>2. \A n \in Monitors : lastMem'[n] <= sample'[n] /\ sample'[n] <= clock'
    BY <1>10, <2>1 DEF Publish
  <2>3. \A n \in Monitors :
         lastMem'[n] \in stored'[n] \cup {0} /\ latest'[n].mem \in stored'[n] \cup {0}
    BY <1>10, <2>1 DEF Publish
  <2>4. \A q \in Requests, n \in Monitors : known'[q][n] <= lastMem'[n]
    BY <1>10, <2>1 DEF Publish
  <2>5. \A n \in Monitors :
         latest'[n].req # 0 => known'[latest'[n].req][n] <= latest'[n].mem
    BY <1>10, <2>1 DEF Publish
  <2>6. \A h \in Requesters : requester'[h] = "merged" =>
         merged'[h] \in stored'[target'[h]] \cup {0}
    BY <1>10, <2>1 DEF Publish
  <2>7. \A h \in Requesters : requester'[h] = "merged" =>
         known'[request'[h]][target'[h]] <= merged'[h]
    BY <1>10, <2>1 DEF Publish
  <2> QED
    BY <2>2, <2>3, <2>4, <2>5, <2>6, <2>7
<1>11. CASE Tick
  BY <1>11 DEF Tick
<1>12. CASE UNCHANGED vars
  BY <1>12 DEF vars
<1> QED
  BY <1>1, <1>2, <1>3, <1>4, <1>5, <1>6, <1>7, <1>8, <1>9, <1>10, <1>11, <1>12 DEF Next

----------------------------------------------------------------------------
(* The theorems.                                                           *)

\* No monitor has been made and nothing asked.
LEMMA MetricsInit == Init => MetricsInv
<1> SUFFICES ASSUME Init PROVE MetricsInv
  OBVIOUS
<1> USE BoundsAssumption, NoMonitorAssumption DEF Init, Requests, Times
<1>1. TypeOK
  BY DEF TypeOK
<1>2. SinkInv /\ MemoryInv
  BY DEF SinkInv, MemoryInv, Reporting, Reports
<1>3. NumberInv /\ NoneLost
  BY DEF NumberInv, NoneLost, Active
<1>4. TargetInv
  BY DEF TargetInv, ToCurrent, Reports
<1> QED
  BY <1>1, <1>2, <1>3, <1>4 DEF MetricsInv

\* The inductive invariant holds in every state.
LEMMA MetricsInvariant == Spec => []MetricsInv
<1>1. MetricsInv /\ [Next]_vars => MetricsInv'
  BY TypeStep, SinkStep, NumberStep, OwedStep, TargetStep, MemoryStep DEF MetricsInv
<1> QED
  BY <1>1, MetricsInit, PTL DEF Spec

\* Whoever asks and whenever monitors are made, a report goes to a monitor that
\* Client.Monitor returned, and every variable keeps its type.
THEOREM MetricsTypes == Spec => []TypeOK
<1>1. MetricsInv => TypeOK
  BY DEF MetricsInv
<1> QED
  BY <1>1, MetricsInvariant, PTL

\* However many monitors take over from one another and however many requests
\* end at the same time, none that ended while there was a monitor is forgotten,
\* none is reported twice, and none to a monitor that had been replaced when it
\* ended (client.go lines 248-254, 415-425 and 548-554).
THEOREM EveryRequestReportedOnce == Spec => []ReportedOnce
<1>1. MetricsInv => ReportedOnce
  BY DEF MetricsInv, NumberInv, TargetInv, ReportedOnce, NeverTwice
<1> QED
  BY <1>1, MetricsInvariant, PTL

\* The memory a monitor shows is one of the samples its own sampler stored, or
\* the zeroes from before the first, and that of a live update is no older than
\* what was stored when the request ended, for any interleaving of samplers and
\* sinks (client.go lines 531-553).
THEOREM MemoryIsAlwaysRight == Spec => []MemoryIsRight
<1>1. MetricsInv => MemoryIsRight
  <2> SUFFICES ASSUME MetricsInv PROVE MemoryIsRight
    OBVIOUS
  <2>1. MemoryIsOwn
    BY DEF MetricsInv, MemoryInv, MemoryIsOwn
  <2>2. UpdateIsFresh
    <3> SUFFICES ASSUME NEW m \in Monitors, latest[m].req # 0
                 PROVE  latest[m].mem >= known[latest[m].req][m]
      BY DEF UpdateIsFresh
    <3>1. latest[m].req \in Requests
      BY DEF MetricsInv, NumberInv
    <3>2. latest[m].mem \in Nat /\ known[latest[m].req][m] \in Nat
      BY <3>1 DEF MetricsInv, TypeOK, Times
    <3> QED
      BY <3>2 DEF MetricsInv, MemoryInv
  <2> QED
    BY <2>1, <2>2 DEF MemoryIsRight
<1> QED
  BY <1>1, MetricsInvariant, PTL

=============================================================================
