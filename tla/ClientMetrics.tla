--------------------------- MODULE ClientMetrics ---------------------------
(***************************************************************************)
(* client.go: how inference metrics and memory samples meet.  A monitor    *)
(* made by Client.Monitor samples memory on its own goroutine and installs *)
(* the Client's metrics sink; every request reports to the sink installed  *)
(* at that moment, which merges in the last memory sample and calls        *)
(* Monitor.Report.                                                         *)
(*                                                                         *)
(* What a Monitor does with a sample or a report is Monitor.tla's matter;  *)
(* here it is one step that replaces m.latest.  A memory sample is its     *)
(* time; 0 stands for the zeroes that are there before the first sample.   *)
(* A request is its number.                                                *)
(***************************************************************************)
EXTENDS Naturals

CONSTANTS
  Monitors,     \* monitors Client.Monitor may make
  Requesters,   \* goroutines that call Chat and ChatStream
  MaxRequests,  \* bound: requests
  MaxClock      \* bound: times at which memory is read

ASSUME BoundsAssumption == MaxRequests \in Nat /\ MaxClock \in Nat \ {0}

NoMonitor == "none"
ASSUME NoMonitorAssumption == NoMonitor \notin Monitors

VARIABLES
  made,         \* monitors made so far
  sink,         \* c.metricsSink, named after its monitor
  clock,        \* the time
  lastMem,      \* lastMemUsed and lastMemAvailable, per monitor
  latest,       \* m.latest: the memory sample and the request it carries
  sampler,      \* the sampling goroutine of a monitor
  sample,       \* the memory it has read
  requester,    \* where a requester is
  request,      \* the request it has made
  reported,     \* s.reported: it has ended, and the caller may still hold it
  target,       \* the sink it has read from the Client
  merged,       \* the memory sample merged into its report
  requests,     \* requests made so far
  reports,      \* history: how often a request was reported
  recipients,   \* history: the monitors it was reported to
  owed,         \* history: requests that ended while there was a sink
  replaced,     \* history: monitors no longer current when the request ended
  known,        \* history: every monitor's last sample when the request ended
  stored        \* history: the samples a monitor's own sampler has stored

samplerVars == <<lastMem, sampler, sample>>
requestVars == <<requester, request, reported, target, merged, requests>>
historyVars == <<reports, recipients, owed, replaced, known, stored>>
vars == <<made, sink, clock, latest, samplerVars, requestVars, historyVars>>

Times == 0 .. MaxClock
Requests == 1 .. MaxRequests

\* The sink, and every sink a request has picked up, belongs to a monitor that
\* Client.Monitor returned.
TypeOK ==
  /\ made \subseteq Monitors /\ sink \in made \cup {NoMonitor} /\ clock \in Times
  /\ lastMem \in [Monitors -> Times] /\ sample \in [Monitors -> Times]
  /\ latest \in [Monitors -> [mem : Times, req : 0 .. MaxRequests]]
  /\ sampler \in [Monitors -> {"wait", "read", "stored"}]
  /\ requester \in [Requesters -> {"idle", "asked", "ended", "sink", "merged"}]
  /\ request \in [Requesters -> 0 .. MaxRequests] /\ requests \in 0 .. MaxRequests
  /\ reported \in [Requesters -> BOOLEAN]
  /\ target \in [Requesters -> made \cup {NoMonitor}]
  /\ merged \in [Requesters -> Times]
  /\ reports \in [Requests -> Nat] /\ recipients \in [Requests -> SUBSET Monitors]
  /\ owed \subseteq Requests /\ replaced \in [Requests -> SUBSET Monitors]
  /\ known \in [Requests -> [Monitors -> Times]] /\ stored \in [Monitors -> SUBSET Times]

Init ==
  /\ made = {} /\ sink = NoMonitor /\ clock = 1
  /\ lastMem = [m \in Monitors |-> 0]
  /\ latest = [m \in Monitors |-> [mem |-> 0, req |-> 0]]
  /\ sampler = [m \in Monitors |-> "wait"]
  /\ sample = [m \in Monitors |-> 0]
  /\ requester = [g \in Requesters |-> "idle"]
  /\ request = [g \in Requesters |-> 0]
  /\ reported = [g \in Requesters |-> FALSE]
  /\ target = [g \in Requesters |-> NoMonitor]
  /\ merged = [g \in Requesters |-> 0]
  /\ requests = 0
  /\ reports = [q \in Requests |-> 0] /\ owed = {}
  /\ recipients = [q \in Requests |-> {}] /\ replaced = recipients
  /\ known = [q \in Requests |-> lastMem]
  /\ stored = [m \in Monitors |-> {}]

Now(g, from) == requester[g] = from
Becomes(g, to) == requester' = [requester EXCEPT ![g] = to]

\* A bug: the sink is installed for a monitor the caller never gets.
MonitorUnmade(m) ==
  /\ m \notin made
  /\ sink' = m
  /\ UNCHANGED <<made, clock, latest, samplerVars, requestVars, historyVars>>

\* Client.Monitor, lines 517-557: the new monitor's sink replaces any other.
Monitor(m) ==
  /\ m \notin made
  /\ made' = made \cup {m} /\ sink' = m
  /\ UNCHANGED <<clock, latest, samplerVars, requestVars, historyVars>>

Tick == clock < MaxClock /\ clock' = clock + 1
        /\ UNCHANGED <<made, sink, latest, samplerVars, requestVars, historyVars>>

----------------------------------------------------------------------------
(* The sampler, lines 531-544, on its monitor's goroutine.                 *)

\* c.System.Info; a failure leaves everything as it was.
SampleRead(m) ==
  /\ m \in made /\ sampler[m] = "wait"
  /\ sample' = [sample EXCEPT ![m] = clock]
  /\ sampler' = [sampler EXCEPT ![m] = "read"]
  /\ UNCHANGED <<made, sink, clock, lastMem, latest, requestVars, historyVars>>

\* Lines 536-539.
SampleStore(m) ==
  /\ sampler[m] = "read"
  /\ lastMem' = [lastMem EXCEPT ![m] = sample[m]]
  /\ stored' = [stored EXCEPT ![m] = @ \cup {sample[m]}]
  /\ sampler' = [sampler EXCEPT ![m] = "stored"]
  /\ UNCHANGED <<made, sink, clock, latest, sample, requestVars, reports, recipients,
                 owed, replaced, known>>

\* Lines 540-543, then sampleAndNotify: m.latest carries no inference.
SamplePublish(m) ==
  /\ sampler[m] = "stored"
  /\ latest' = [latest EXCEPT ![m] = [mem |-> lastMem[m], req |-> 0]]
  /\ sampler' = [sampler EXCEPT ![m] = "wait"]
  /\ UNCHANGED <<made, sink, clock, lastMem, sample, requestVars, historyVars>>

----------------------------------------------------------------------------
(* Requests.                                                               *)

Ask(g) ==
  /\ Now(g, "idle") /\ requests < MaxRequests
  /\ requests' = requests + 1
  /\ request' = [request EXCEPT ![g] = requests']
  /\ reported' = [reported EXCEPT ![g] = FALSE]
  /\ Becomes(g, "asked")
  /\ UNCHANGED <<made, sink, clock, latest, samplerVars, target, merged, historyVars>>

\* The request is over: what it is owed is known from here on.
Ends(g) ==
  /\ reported' = [reported EXCEPT ![g] = TRUE]
  /\ owed' = owed \cup (IF sink = NoMonitor THEN {} ELSE {request[g]})
  /\ replaced' = [replaced EXCEPT ![request[g]] = made \ {sink}]
  /\ known' = [known EXCEPT ![request[g]] = lastMem]
  /\ Becomes(g, "ended")
  /\ UNCHANGED <<made, sink, clock, latest, samplerVars, request, target,
                 merged, requests, reports, recipients, stored>>

\* A bug: Next reports whenever it returns false.
RequestEndsAgain(g) == Now(g, "asked") /\ Ends(g)

\* Chat succeeds, or ChatStream.Next returns false.  When it does so again the
\* flag of lines 416-419 keeps it from reporting, and nothing changes.
RequestEnds(g) == Now(g, "asked") /\ ~reported[g] /\ Ends(g)

\* The caller is done with the request: Chat has returned, with an error (lines
\* 304-306) or after its report, or a stream is closed, before its end or after.
RequestDropped(g) ==
  /\ Now(g, "asked")
  /\ Becomes(g, "idle")
  /\ UNCHANGED <<made, sink, clock, latest, samplerVars, request, reported,
                 target, merged, requests, historyVars>>

\* reportMetrics with a sink, or with none.
TakeSink(g, s, next) ==
  /\ Now(g, "ended")
  /\ target' = [target EXCEPT ![g] = s]
  /\ Becomes(g, next)
  /\ UNCHANGED <<made, sink, clock, latest, samplerVars, request, reported,
                 merged, requests, historyVars>>

\* A bug: the sink is called only when nobody else is reporting.
ReadSinkBusy(g) ==
  TakeSink(g, sink, IF sink = NoMonitor \/ \E h \in Requesters : requester[h] = "merged"
                    THEN "asked" ELSE "sink")

\* A bug: the sink is looked up once.
ReadSinkCached(g) ==
  LET s == IF target[g] = NoMonitor THEN sink ELSE target[g]
  IN  TakeSink(g, s, IF s = NoMonitor THEN "asked" ELSE "sink")

\* reportMetrics, lines 248-254.  A stream holds the method, not the sink (line 441).
ReadSink(g) == TakeSink(g, sink, IF sink = NoMonitor THEN "asked" ELSE "sink")

\* The memory of the sink's own monitor, or by a bug another, is merged in.
Merges(g, mem) ==
  /\ Now(g, "sink")
  /\ merged' = [merged EXCEPT ![g] = mem]
  /\ Becomes(g, "merged")
  /\ UNCHANGED <<made, sink, clock, latest, samplerVars, request, reported,
                 target, requests, historyVars>>

\* A bug: the memory merged in is the one last published.
MergeLatest(g) == Merges(g, latest[target[g]].mem)

\* A bug: the memory merged in is that of the current monitor.
MergeCurrent(g) == Merges(g, lastMem[sink])

\* The sink, lines 549-552; lastMem is still zero before the first sample.
Merge(g) == Merges(g, lastMem[target[g]])

\* The sink, line 553: m.Report.
Publish(g) ==
  /\ Now(g, "merged")
  /\ latest' = [latest EXCEPT ![target[g]] = [mem |-> merged[g], req |-> request[g]]]
  /\ reports' = [reports EXCEPT ![request[g]] = @ + 1]
  /\ recipients' = [recipients EXCEPT ![request[g]] = @ \cup {target[g]}]
  /\ merged' = [merged EXCEPT ![g] = 0]
  /\ Becomes(g, "asked")
  /\ UNCHANGED <<made, sink, clock, samplerVars, request, reported, target, requests,
                 owed, replaced, known, stored>>

----------------------------------------------------------------------------
Next ==
  \/ \E m \in Monitors :
       Monitor(m) \/ SampleRead(m) \/ SampleStore(m) \/ SamplePublish(m)
  \/ \E g \in Requesters :
       Ask(g) \/ RequestEnds(g) \/ RequestDropped(g) \/ ReadSink(g) \/ Merge(g) \/ Publish(g)
  \/ Tick

Spec == Init /\ [][Next]_vars

----------------------------------------------------------------------------
Reporting(g) == requester[g] \in {"ended", "sink", "merged"}

\* A request is reported at most once, however often Next returns false.
NeverTwice == \A q \in Requests : reports[q] <= 1

\* A request that ended while a monitor was there to report to has been reported,
\* or somebody is still at it; monitors that take over meanwhile lose none.
NoneLost == \A q \in owed :
  \/ reports[q] > 0
  \/ \E g \in Requesters : Reporting(g) /\ request[g] = q

\* It is reported to the monitor that was current when it ended or to one made
\* since, never to one that another had replaced by then.
ToCurrent == \A q \in Requests : recipients[q] \cap replaced[q] = {}

\* "any Chat or ChatStream call made through this Client also pushes a live
\* update" (client.go:513-514): one update, and it reaches the right monitor.
ReportedOnce == NeverTwice /\ NoneLost /\ ToCurrent

\* The memory a monitor shows is a sample its own sampler stored, or the zeroes
\* from before any.
MemoryIsOwn == \A m \in Monitors : latest[m].mem \in stored[m] \cup {0}

\* A live update's memory is at least as new as the last sample its monitor's
\* sampler had stored when the request ended: zeroes only if there was none.
UpdateIsFresh == \A m \in Monitors :
  latest[m].req # 0 => latest[m].mem >= known[latest[m].req][m]

\* The memory in an update is its monitor's own, and no older than it must be.
MemoryIsRight == MemoryIsOwn /\ UpdateIsFresh

============================================================================
