# veloxquant-go: a verification project

TLA+ models of the stateful parts of the VeloxQuant Go SDK, the TLC runs that
check them, and TLAPS proofs of their safety properties. Paths below are
relative to the repository's root (`src/` in the mappings of `PROJECT.json`).

`PROJECT.json` lists the components, the runs, for every property a mutant of
the code that violates it, the lines each definition translates, the hazards
and the theorems. To repeat a run: `tlc -config ProcessHandle.cfg MCProcess`;
to repeat the proofs of a module: `tlapm Process_proofs.tla`, and likewise for
the other seven `*_proofs.tla`.

## 1. The system

The SDK is a client library and a command (`vq`) around a local inference
server, `veloxquant serve`, which is a separate program and not in this
repository.

| Component | State | Operations | Interacts with |
|---|---|---|---|
| Monitor (`monitor/monitor.go`) | `cancel`, `done`, `latest`, `subscribers` under one mutex; one sampling goroutine per launch | `Start`, `Stop`, `Report`, `Subscribe`, `Metrics` | a Sampler and Subscribers, called outside the mutex |
| Runtime process (`runtime/process.go`) | the subprocess, its stdout pipe, `readyCh`, `errCh`, `done`, `err` | `StartProcess`, `Stop`, `Wait`, `Done`; goroutines `scanStdout` and `wait` | the operating system; used by Benchmark and `vq serve` |
| Conversation (`conversation.go`, `openai/streaming.go`) | `messages`; per stream `pending`, `text`, `done`, and the reader's `done` and `err` | `Send`, `SendStream`, three layers of `Next`, `Close` | `Client.Chat`, `Client.ChatStream`, the metrics sink |
| LangChain adapter (`langchain/langchain.go`) | none beyond a call's locals | `GenerateContent`, `Call` | `Client.Chat`, `Client.ChatStream`, a streaming function |
| HTTP clients (`internal/httpclient`, `openai/client.go`) | none; a response body per stream | `DoJSON`, `Do`, `ChatCompletion`, `ChatCompletionStream` | the runtime |
| System detection (`system/`) | none | `Info`, one `memoryStats` per platform | AutoPilot, the monitor's sampler |
| Agent (`agent/`, `mcp/`) | `tools`, `toolOrder`, `sources`; a Run's transcript and steps | `RegisterTool`, `UseMcpServer`, `Close`, `Run` | `Client.Chat`, tools, MCP connections |
| Client metrics (`client.go`) | `metricsSink` under a mutex; per monitor `lastMemUsed`, `lastMemAvailable` under another | `Client.Monitor`, `reportMetrics`, the sampler and sink closures | every request, and `Monitor.Report` |
| Memory estimation (`memory/`) | none | `Estimate`, `RecommendStrategy` | used by ranking and optimizer |
| Optimizer (`optimize/`) | none | `Recommend` | uses memory estimation |
| Ranking and AutoPilot (`models/recommend.go`, `autopilot.go`) | none beyond a call's locals | `RecommendScored`, `selectModel`, `AutoPilot` | system detection, optimizer |
| Benchmark (`benchmark.go`) | two runtime processes, one after the other | `Benchmark`, `runOneMethod` | `StartProcess`, `Stop`, one generation |
| `vq serve` (`cmd/vq/serve.go`) | one runtime process, `sigCh` | `launchRuntime` | signals, `StartProcess`, `Stop` |
| Local model cache (`models/local.go`, `models/pull.go`) | the cache directory | `ScanLocal`, `Pull`, `Delete` | a Python helper that runs `huggingface_hub` |
| Options and types, the other commands, the examples | none worth a state machine | | section 8 |

What is hard in each, and what makes it correct:

* **Monitor.** Sampling goroutines outlive the critical sections that launch
  and stop them: `run` reads `m.done` without the lock, and samples and
  delivers outside it. Correct means: no channel is closed twice, `Stop` means
  quiet, every `Stop` returns, samples are stored and delivered in order.
* **Runtime process.** Four goroutines and a subprocess race: handshake against
  exit against timeout, `cmd.Wait` against the scanner on one pipe, two `Stop`s
  against each other. Correct means: no orphan that could have been signaled, no
  goroutine left blocked, an exit status that is there when it is announced, and
  a caller that gets an answer.
* **Conversation.** The commit of a stream happens at the last `Next`, long
  after the history it extends was copied. Correct means: only whole turns are
  in the history, once each, with the reply the server sent.
* **LangChain adapter.** A streamed call can fail before its stream, in the
  middle of it, in the streaming function, or at its end. Correct means: the
  text it returns is all the runtime sent, and no connection stays open.
* **System detection.** Every platform has its own way of not knowing. Correct
  means: never more available than a known total, which would wrap around in
  a monitor's samples, and "unknown" only for what is unknown.
* **Agent.** Registering a source can fail after some of its tools were
  looked at, and a tool may use the Agent during a Run. Correct means: all or
  nothing, one namespace, no leaked and no wrongly closed connection even if
  closing one fails, every call answered in the transcript, and a bounded
  number of requests.
* **Client metrics.** Memory is copied under one mutex, the sink read under
  another, and the report made under neither. Correct means: no request lost
  or reported twice, also while one monitor takes over from another, and
  memory that is the monitor's own and as fresh as the request.
* **Estimation, optimizer, ranking, AutoPilot.** Boundaries at equality and
  zero, three tables that must agree, two defaults that must agree. Correct
  means: advice that is true, monotone and stable; a selected model that fits.
* **Benchmark.** Early returns around a deferred `Stop` whose error is dropped.
  Correct means: never two runtimes, none left, no half result.
* **vq serve.** A signal may come at any point. Correct means: no runtime left
  behind, and the command ends.
* **Local cache.** Helpers change the directory under a walk that takes no
  lock and passes over what it cannot read. Correct means: a scan right about
  what was left alone and readable, and no success for what was not done.

## 2. The modules

| Module | Stands for | Abstract specification above it |
|---|---|---|
| `Monitor` | `monitor/monitor.go` | `SamplingService` |
| `Monitor_proofs` | theorems about `Monitor` | |
| `SamplingService` | what a Monitor promises its owner | |
| `Process` | `runtime/process.go` and the subprocess | `RuntimeHandle` |
| `Process_proofs` | theorems about `Process` | |
| `RuntimeHandle` | what `StartProcess` and `Stop` promise | |
| `Reader` | `openai.Stream`, `ChatStream`, and how `internal/httpclient` tells success from failure | |
| `Conversation` | `conversation.go` (extends `Reader`) | `TurnLog` |
| `LangChain` | `langchain/langchain.go` (extends `Reader`) | |
| `ChatClients` | a Conversation and calls of the adapter, side by side | |
| `ChatClients_proofs` | theorems about `ChatClients` and the three modules it is made of | |
| `TurnLog` | "accumulates chat history across turns" | |
| `Agent` | `agent/agent.go`, `agent/mcp.go`, and sources as `mcp/mcp.go` has them | |
| `Agent_proofs` | theorems about `Agent` | |
| `ClientMetrics` | the metrics sink and `Client.Monitor` in `client.go` | |
| `ClientMetrics_proofs` | theorems about `ClientMetrics` | |
| `Sizing` | the operators of `memory`, `optimize`, `models/recommend.go` | |
| `Detection` | the operators of `system` | |
| `Planner` | `AutoPilot` and `optimizer.Recommend` as calls (extends `Sizing` and `Detection`) | |
| `Planner_proofs` | theorems about `Planner`, `Sizing` and `Detection` | |
| `Benchmark` | `benchmark.go`, over `RuntimeHandle` | `RuntimeHandle`, twice |
| `Serve` | `cmd/vq/serve.go`, over `RuntimeHandle` | `RuntimeHandle` |
| `Launchers_proofs` | theorems about `Serve` and `Benchmark` | |
| `LocalCache` | `models/local.go`, `models/pull.go` | |
| `LocalCache_proofs` | theorems about `LocalCache` | |
| `MC*` | constants for TLC | |

Composition goes through the abstract specification: `Process` is shown to
implement `RuntimeHandle`, liveness included, and `Benchmark` and `Serve`,
which take only its steps for a runtime process, are shown to stay within it
(`WithinHandle`). They add what is theirs: who may be signaled, and deadlines.
`ChatClients` composes the two users of the streaming reader by interleaving:
each stream has one user, and the server writes to all of them.

### How state and actions correspond to the code

* **Monitor.** One step is one critical section of `m.mu`, one channel
  operation, or one call of the Sampler or a Subscriber. The r-th launch owns
  context r and channel r, so `cancel` and `done` hold the number of a launch,
  0 for nil. `StopLock`, `StopCancel`, `StopReturn` are the three parts of
  `Stop`; `RunBegin` is the moment `defer close(m.done)` reads its argument,
  without the lock; `RunExit` executes it. A panic ends the program: nothing
  is enabled after `panicked`. `Lifecycle` says which callers use `Start` and
  `Stop`: one (an owner) or more. A metric is the time it was read at.
* **Process.** `StartProcess` is `StartLaunch` and then one `Select*` action per
  case of its select, all of which may be enabled together; `SelectScanErr` and
  `SelectTimeout` go on into `Stop`. `Stop` is `StopCheck`, `StopSignal`,
  `StopKill`, `StopReturn`, for its callers and for `StartProcess`, whose
  context is never done. `StopRefused` is a `Stop` whose signal the operating
  system refuses: it returns that error at once, without waiting, and
  `StartProcess` drops it and returns its own; `pc` is then `refused`, or
  `abandoned` for `StartProcess`. `scanStdout` and `wait` are goroutines with
  one action per read, send, or close. A line is what `scanStdout` makes of it:
  `ready`, `malformed`, `text` or `long`. What the subprocess does is external,
  and taken from what `process.go` says of it: it prints its handshake at most
  once, may exit at any time and may ignore SIGTERM.
* **Reader.** A stream is one record: the connection, the lines the server has
  written and the scanner has not read, how the body ends, and the fields of
  `openai.Stream` and `ChatStream`. A line is what `Stream.Next` makes of it.
  One call of `Next` is any number of `Skip`s and then a `Chunk` or a `Finish`;
  `Finish` is the three nested `Next`s returning false, together with the
  metrics report, as the code does. After a `CloseStream` the scanner still
  holds the lines it had buffered, any prefix of the body. `Outcomes` are the
  ways a request fares, and `ChatResults` and `StreamResults` what a caller may
  see of them.
* **Conversation.** `Send` is one step, because one goroutine owns the
  Conversation and `Send` only touches it after `Chat` has returned.
  `NextFalse` commits in the step that finishes the stream.
* **LangChain.** A call is named after the stream it may open. `Gather` and
  `GatherFails` are the streaming function taking a chunk and refusing it; the
  deferred `stream.Close` is part of every way to return.
* **Agent.** One goroutine; `pc = "tool"` is inside `tool.Execute`, where
  application code may call the Agent again, so that registry actions are
  enabled there as well. A tool registered in this way is dispatched to at
  once, but offered to the model only by the next Run; the model may name any
  tool in either case. Sources own their connection (`mcp.Connect`) or not
  (`mcp.FromSession`), and list any sequence of names, repetitions included.
  Responses are any list of calls; a call is the name of a tool, registered or
  not, or `garbled` if its arguments are not JSON. `Close` is `CloseBegins` and then
  a `CloseOne` per source, each of which may fail, also from within a tool; so
  may the closing of a source that `UseMcpServer` rejects. What a tool returns
  is left out.
* **ClientMetrics.** Each lock region of the sampler and of the sink closure is
  an action; `RequestEnds` is a Chat that succeeds or a stream's `Next` that
  returns false, which a caller may call again (`reported` is the flag against
  that). A `Monitor` here only replaces `latest`; its insides are `Monitor`'s.
  What a request is owed is written down when it ends: whether there was a
  sink (`owed`), which monitors were no longer current (`replaced`), and what
  every sampler had stored (`known`).
* **Sizing and Planner.** Byte sizes are natural numbers, element sizes are in
  half bytes, so that 4-bit weights are exact and the truncation to `uint64` is
  an integer division. The score of the ranking is scaled by twice the
  available memory, which keeps its order. `float64` rounding is left out:
  footprints of real models are far below 2^53.
* **Detection.** A reading is what a platform's interface gives, zero for a
  figure that is missing; `Readings` says which readings there are. `Inspect`
  of `Planner` takes any of them.
* **Benchmark and Serve.** A runtime is alive or gone; `StartProcess` fails,
  and `Stop` returns, only once it is gone, or with the error of a refused
  signal: `StartAbandoned` and `StopRefused` of `Benchmark`, `Abandon` and
  `AskRefused` of `Serve`. Serve's terminal delivers Ctrl+C to `vq` and, as they
  share a process group, to the runtime.
* **LocalCache.** A helper changes one file per step; a scan reads a directory's
  names in one step and the size of each file in another. Every file has size
  one. `ScanCannotList` and `ScanFileFails` are a directory and a file that cannot
  be read, which the code passes over, and `missed` remembers which models that
  concerned. Callers may work on the same model: `crossed` remembers that one pulled
  what another deleted, which is when neither can promise anything.

## 3. The runs

| Run | Question | Shows |
|---|---|---|
| `monitor_owner` | one goroutine starts and stops, another reports | all safety, order and liveness properties, that no `Stop` waits in vain, and the refinement of `SamplingService`, across a restart |
| `monitor_race` | two goroutines start and stop | **a violation**: a double close (section 6) |
| `process_handle` | any subprocess, two stoppers | no orphan, no stuck goroutine, nobody waits in vain, SIGTERM before SIGKILL, and an orphan only where its signal was refused; implements `RuntimeHandle` |
| `process_hang` | a late subprocess that ignores SIGTERM | **a violation**: `StartProcess` never returns |
| `chat_clients` | turns one at a time, or overlapping; a call of the adapter beside the former | the history is made of whole turns; without overlap it only grows; a call returns the whole text or an error, and closes its stream; every stream that is read ends |
| `agent_tools` | registry and Run together, tools using the Agent | registry, ownership and transcript properties, with sources that fail to list or to close, and that Run ends |
| `metrics_monitors` | two monitors, two requesting goroutines | each request is reported once, to a monitor that is current, with fresh memory of that monitor |
| `planner_answers` | AutoPilot on every platform's figures, and the optimizer, on a grid | available memory is sane; what is selected fits and is best; advice is true, stable, monotone |
| `benchmark_methods` | runtimes that die at any time, obey SIGTERM or do not, or cannot be signaled | never two runtimes and none left but one that could not be signaled, no half result; Benchmark returns if they obey |
| `benchmark_refused` | a first runtime that cannot be signaled | **a violation**: the second is launched beside it (section 6) |
| `serve_signals` | signals at any point | no runtime left by a return but one that could not be signaled, a signal taken ends `vq`, after the runtime was told, and Ctrl+C stops everything that heeds it |
| `cache_scan` | helpers of two callers under a scan | a scan is right about what was left alone, and never lists too much of what it cannot read; success means done |

Every property has a mutant in `PROJECT.json`: a definition of the model with a
plausible bug of the code in it (they stand next to the definition they
change, under a comment "A bug: ..."), under which TLC finds that property
violated by the same run. Runs with `CHECK_DEADLOCK FALSE` are of systems that
do stop: a process has exited, the bounded number of turns is used up, the
benchmark has returned. `monitor_owner` does check deadlock: an owner can
always call `Stop` again.

### Bounds, and why they are enough

* Monitor: two launches, since every hazard is between a run and its successor;
  two callers; one subscriber; two times (older and newer). The theorems of
  section 5 need none of these bounds, nor those of the modules below.
  `Benchmark` has no bounds: two methods, one runtime each.
* Process: a pipe of one line, so that it fills; two lines besides the
  handshake, so that one can stand behind the other in the scanner's buffer
  while the pipe is full again; two stoppers, since the properties relate at
  most two.
* ChatClients: two turns and two streams (one overwrites the other), two lines
  per body (a reply, then its end or its failure). One stream may be opened by
  the adapter instead, while the conversation has the other, in the behaviours
  without overlap (`Adapted`): the two users share no state but the server.
* Agent: two names and three sources, two owning and one not, of which two may
  be used in one behaviour (`MaxUses`): a source whose tools partly collide
  needs two names; one that closes after another has failed to needs two
  owned ones. One Run of two round trips, with up to two calls in all: the
  first trip is followed by another, the second is the last. Two names listed:
  the second may repeat the first.
* ClientMetrics: two monitors, of which one takes over from the other; two
  requesters and two requests, so that reports overlap; two times, an older
  and a newer sample. Monitors and requesters are symmetric: nothing tells one
  from another but what it does.
* Planner: five models (`MCPlanner` says which and why), three context lengths,
  and memory amounts that cover every footprint, one by one where they lie
  close together; four sizes of memory: zero, as where `/proc/meminfo` lacks its
  total, and below, among and above the footprints, so that what vm_stat adds
  up to may lie on either side.
* Serve: three signals: one taken, one that fills the channel, one dropped.
* LocalCache: two models, so that a total could carry over; two files, so that
  a model can be there in part; two callers, on one model or on two.

### Fairness

* Goroutines that can step do (`WF`), Samplers, Subscribers, tools, `Chat` and
  the closing of a source return. `Chat` has the HTTP client's timeout, 60
  seconds by default.
* `RunStep` of the Agent has strong fairness: a tool may call `Close` of the Agent
  it runs in, again and again, but not for ever.
* `RunExit` of a Monitor has strong fairness: Go's `select` picks at random
  among ready cases, so a run that returns to its `select` with its context
  done takes that case in the end.
* A context with a deadline expires. `context.Background()` never does.
* A signaled subprocess that obeys the signal dies, and SIGKILL is always
  obeyed, and not refused where SIGTERM was accepted: the code does not look
  at the error of `Kill` (`process.go:296`).
* A response body ends (`ServerEnds`): the same HTTP timeout covers reading it,
  and `NewClient` refuses a timeout that is not positive (`client.go:266`).
* Whoever reads a stream goes on reading it, or closes it; a streaming function
  returns.
* Nothing is assumed of what a subprocess prints or whether it exits by
  itself, of a user pressing Ctrl+C, of anybody calling `Stop`, or of a
  download ever finishing.

## 4. What the properties say

Each is stated in natural language above its definition. Several are
conjunctions of named parts, which a reader finds just above them:

* Monitor. `StopIsSound` has three parts. `StoppedMeansQuiet`: with no `Stop`
  owed or under way, no sampling goroutine is alive. `StopIsAnswered`: a `Stop`
  waits for a channel that is closed, or that a canceled run is about to close.
  `NoRunForgotten`: until a run is canceled somebody holds its `cancel`.
  `InOrder`: the samples stored in `m.latest` (`SamplesInOrder`) and those a
  subscriber gets (`DeliveredInOrder`) do not go back in time.
  `ImplementsService` contains that a canceled run ends.
* Process. `ProcessSafe`: an error from `StartProcess`, or a return from `Stop`,
  means the subprocess is reaped, unless the signal was refused (`NoOrphan`);
  `done` announces an exit status that is there (`DoneMeansErr`); SIGTERM comes
  before SIGKILL (`TermBeforeKill`); output read to its end was all passed on
  (`OutputComplete`); and nobody waits in vain (`WaitsAreAnswered`): while
  somebody may wait for `done`, there is one who will close it if the subprocess
  exits, which a caller in `Stop` has told it to (`DoneIsComing`), and a send of
  the scanner never blocks (`SendsNeverBlock`). `NobodyStuck`: `StartProcess`
  returns if the subprocess obeys SIGTERM, the scanner does not outlive it, and
  does not wedge it short of a line it gave up on.
* Conversation. `HistoryIsTurns`; `AccumulatesTurns`.
* ChatClients. `StreamsAreRight` (a failed or unfinished stream leaves nothing in
  the history, a finished one its whole reply; a finished one is reported
  once); `GenerateIsFaithful` of the adapter; `StreamsEnd`.
* Agent. `RegistrySound`: one namespace (`RegistryAgrees`); a rejected source is
  closed unless its own Close fails (`RejectedIsClosed`); a connection the Agent
  was lent is left alone (`OwnershipRespected`); one source that does not close
  keeps no other open, and `Close` says so (`CloseReaches`); `Close` knows every
  tool's source (`OriginsRemembered`), and does not come for its connection
  before it is called (`ToolsStayConnected`). `TranscriptIsWhole` (one answer per
  call, in order, before the next request; at most `MaxSteps` requests; every
  executed tool reported); `RunEnds`.
* ClientMetrics. `ReportedOnce`: no request is reported twice, however often
  `Next` returns false (`NeverTwice`); one that ends while there is a monitor is
  reported, whichever monitor takes over meanwhile (`NoneLost`); and to the
  monitor that was current then or a later one (`ToCurrent`). `MemoryIsRight`: the
  memory a monitor shows is a sample its own sampler stored, or the zeroes
  from before the first (`MemoryIsOwn`), and an update's is no older than what
  was stored when its request ended (`UpdateIsFresh`), so that zeroes are shown
  only to requests that ended before the first sample.
* Planner. `HardwareIsRight` (where the total is known, no more is available;
  and nothing is available only where nothing is known); `SelectionIsRight`
  (what is selected fits, nothing better is passed over, and a refusal means
  nothing fits); `AdviceIsConsistent` (the reason is true of the estimates, and
  pinning the advised profile changes nothing); `AdviceIsMonotone`.
* Benchmark. `ReturnsClean`: never two runtimes at once (`OneAtATime`) and none
  left (`NothingLeftRunning`), but for one that could not be signaled; no half
  result (`ResultIsComplete`). `BenchmarkReturns`; `WithinHandle`.
  `NeverTwoInstances`, without the exception, is what the comments of
  `benchmark.go` say.
* Serve. `ServeSafe`: no runtime is left by a return but one that could not be
  signaled, and then the status is 1 (`LeavesNothing`); no signal is lost before
  `vq` takes it (`SignalIsKept`), and a runtime `vq` waits for was sent what is
  to end it (`RuntimeIsTold`). `SignalsHeeded`: a signal taken ends `vq`; Ctrl+C
  stops everything that heeds it.
* LocalCache. `RestingModelsAreRight`: a completed scan is right about models no
  helper changed meanwhile; of those it could not read, it lists none at all,
  or less than their size. `SuccessMeansDone`: a Delete that succeeds left
  nothing, a Pull that reports a size the whole model, unless another call
  worked against it.

## 5. What is proved

Every safety property of a passing run is a theorem: it holds for every value of
the constants that satisfies the assumptions of its module, hence without the
bounds of section 3. The assumptions are what the code
provides: bounds are natural numbers, a pipe holds at least one line, a name
that stands for "nobody" is nobody's, sets of kinds are made of the kinds there
are, the dimensions of an architecture are natural numbers and no two models
share a name. Some theorems take one more, which is named below and is the caller's
part of the contract: `OneOwner` of the Monitor, `~ Reuse` of the Agent (no
source is passed to `UseMcpServer` again), and
`~ overlap` of a conversation, which `AccumulatesTurns` contains itself.

Each proof follows one argument: an inductive invariant that holds initially,
is kept by every action (one lemma or step each) and implies the property. Why
the property alone is not inductive says most about the code.

**`Monitor_proofs`**, for every number of goroutines, launches, subscribers and
times:

* `TypeCorrect`: `Spec => []TypeOK`, whoever starts and stops the Monitor. It
  says, among other things, that no run ever closes a nil channel. The
  inductive invariant adds to `TypeOK` what each program counter implies about
  the locals: a launch that exists has a number at most `launched`, a run past
  its beginning has captured a channel, a stopping caller holds a run.
* `EveryRunCanBeEnded`: `Spec => []NoRunForgotten`, again whoever starts and stops
  it, from the type invariant alone: `Start` fills `m.cancel` only when it is
  empty, and the `Stop` that empties it takes it over, both under the mutex. It
  is what is left when two goroutines manage one Monitor: channels can be
  mixed up then, contexts cannot.
* Under `OneOwner` (at most one goroutine calls `Start` and `Stop`):
  * `OwnerStopIsAnswered`, from `OwnerInv` (below) and `AnswerInv`: a run does not
    end without closing its channel, and a `Stop` cancels the run whose channel
    it waits for. It is false without `OneOwner`. With the next two it makes
    `OwnerStopIsSound`.
  * `OwnerNeverPanics` and `OwnerStopIsQuiet`, from the inductive invariant
    `OwnerInv`: while `m.cancel` is set or a `Stop` is under way only the last
    launch is alive, it has captured or will capture its own channel, and that
    channel is closed exactly when the run is gone. `NoDoubleClose` alone is
    not inductive: it needs to know that a run that is spawned will find its
    own channel in `m.done`, which needs that nobody launches another before
    this one is gone, which needs that the owner waits.
  * `OwnerInOrder`, from `OrderInv`, which adds that whatever a run holds was
    read at a time not before the last one stored, and what it delivers is the
    last one stored.
  * `OwnerImplementsService`: the initial states of `Monitor` are initial
    states of `SamplingService`, and each of its steps is a step of
    `SamplingService` or leaves its variables unchanged.

`OneOwner` is needed: `monitor_race` shows what happens without it.

**`Process_proofs`**, for any set of stoppers, pipe, amount of output and
subprocess:

* `ProcessIsSafe`, from `ProcessInv` and the next theorem. `NoOrphan` needs to
  know why a caller may return (`SignalInv`: who waits in `Stop` has signaled,
  or came when the subprocess was reaped; `LifeInv`: `done` is closed last). It
  says nothing of callers that were refused the signal: they return at once.
  `OutputComplete` needs a conservation law, `FlowInv`: lines forwarded,
  buffered and in the pipe, with the handshake if it was seen, are the lines
  written, with the handshake if it was printed; and `ScanInv`, why the scanner
  has ended.
* `ProcessWaitsAreAnswered`, from `WaitInv`: nobody waits before the goroutine
  `wait` is there, it ends only after closing `done`, and the scanner sends on
  each of its channels once, so that a buffer of one is enough.
* `ProcessImplementsHandle`: each step of the goroutines and the subprocess is a
  step of `RuntimeHandle` or invisible to its callers. `Serve` and `Benchmark`
  rest on it.
* `HandleKeepsPromise` and `ProcessKeepsPromise`: what the steps of `RuntimeHandle`
  come to for a caller who looks at the results alone. A `StartProcess` that
  failed and a `Stop` that returned leave no subprocess, for good, unless their
  signal was refused.

**`ChatClients_proofs`**, for any streams, turns and lines, and whatever the
server writes and when a body fails. The invariant has two halves. `StreamsInv`
relates a stream to whoever reads it: the chunks of text gathered and those
still in the body are the chunks that were sent, unless the reader knows of an
error or is bound to meet one (`Counted`, `Doomed`: a body cut short by `Close`
ends in one). `HistoryInv` says of every pending list that it was a good history
once, with one prompt added; that a turn has one stream at most; and that
without overlap an unfinished stream was opened on the history of now.

* `AdapterIsFaithful` and `StreamsLeaveWhatTheyShould`, from `Counted` at the end of
  a body.
* `HistoryIsMadeOfTurns`: a commit overwrites the history with a list that was
  one, so that its shape must be known of all pending lists, not of the history
  alone.
* `ConversationAccumulates`: without overlap the list that is committed extends
  the history by one turn, which is a step of `TurnLog`.

**`Agent_proofs`**, for any names, sources, responses, and numbers of steps and
runs, whichever sources fail to list or to close:

* `NoCallUnanswered`, from `RunInv`: the ids of the calls made are those of the
  answers, followed by those still queued; requests are counted by the step;
  a call that executes is the head of the queue. Lemmas say what flattening a
  transcript does when a message is appended.
* `RegistryStaysSound`, from `RegistryInv`, under `~ Reuse`: a source used once
  cannot be rejected after its tools were registered (`SourcesUsed`). `CloseReaches`
  is not inductive: it speaks of the end of a loop, and the invariant of the
  steps before adds that what is open and not to be closed any more has failed
  to close (`ClosingInv`). Only `ToolsStayConnected` needs the assumption
  (section 6 says why); the other parts hold without it
  (`ReuseCostsConnectionsOnly`).

**`ClientMetrics_proofs`**, for any number of monitors, requesters and requests:
`EveryRequestReportedOnce` and `MemoryIsAlwaysRight`, from `MetricsInv`. It says
that a request under way has a number of its own, under which nothing has been
reported until its turn (`NumberInv`); that a sink that was picked up is of a
monitor not yet replaced when the request ended (`TargetInv`), though it may be
by the time it is called; and that what a monitor shows or a sink is about to
show was stored by that monitor's sampler, no earlier than the request ended
(`MemoryInv`).

**`Planner_proofs`**, for any registry, architectures, context lengths and amounts
of memory, and from what `Readings` says of a platform (a kernel that counts the
available memory itself keeps it below the total, if it gives a total):

* `HardwareCorrect`, from `DetectedIsSane`, a lemma about `DetectedMemory` with a
  case for each platform. On darwin it rests on the clamp of
  `availableMemoryFromVMStat`.
* Lemmas about the operators of `Sizing`: what `Estimate` consists of
  (`EstimateIs`), that fewer bits are never more bytes, truncation included
  (`NarrowerIsSmaller`), the strategy and the profile by the amount of memory
  (`StrategyIs`, `ProfileIs`), together what an advice means (`RecommendMeans`).
  From it `AdviceAgreesWithItself` and `AdviceGrowsWithMemory`.
* `SelectionIsOptimal`, from lemmas about the ranking: some model that fits
  comes before all others (`SomeIsFirst`), the ranking starts with it and is
  empty only if nothing fits (`RankingStarts`), and what comes first is not
  beaten in both footprint and curation (`FirstIsBest`).

The invariant `PlanInv` only carries these facts along: what AutoPilot knows at
each point, and which question the advice at hand answers.

**`Launchers_proofs`**, of `Serve` for any number of signals and any runtime:
`NothingLeftBehind`, from where `StartProcess` is at each point of
`launchRuntime`, with the refused signal as its exception; `EndIsOnItsWay`,
which needs that a Ctrl+C counts among the signals sent, and that a signal
before `signal.Notify` ends `vq`; `ServeIsSafe`, which is both; and
`ServeKeepsToHandle`, the step simulation of `RuntimeHandle`.

Of `Benchmark`, which the module instantiates: `BenchmarkReturnsClean`, from
`BenchInv`, which says where each of the two processes is by where `Benchmark` is,
and that the first is gone, or was refused its signal, and measured when the
second begins; and
`BenchmarkKeepsToHandle`, since what a step does to one process (`BenchMoves`) is a
step of `RuntimeHandle` or nothing. It has no constants, so that the run, too,
visits every state there is; the proof adds why.

**`LocalCache_proofs`**, for any models, any finite set of files and any callers:

* `RestingModelsListedRight`, from `RestInv`: a model that no helper touched is
  still to be listed, or under way with the files counted and those left making
  up its size, or listed as it is; short of that only if it was missed.
* `SuccessIsEarned`, an action property, from `WorkInv`: what a helper has not
  done yet is all that is left to do, unless another works against it, which
  then both know (`CrossInv`).

What is only model-checked, and why:

* All liveness: `StopReturns`, `NobodyStuck`, `StreamsEnd`, `RunEnds`,
  `BenchmarkReturns`, `SignalsHeeded`, and the fairness part of
  `ImplementsService` and `ImplementsHandle`. The prover handles neither
  fairness nor `ENABLED`. Of `StopReturns`, `NobodyStuck` and `SignalsHeeded` the
  safety half is proved: what is waited for has happened, or somebody is there
  who brings it about (`StopIsAnswered`, `WaitsAreAnswered`, `EndIsComing`). That
  it then arrives is left to TLC.

The models avoid `RECURSIVE`, which the prover cannot handle. Nor can it
instantiate an induction theorem with a predicate; where a proof needs
induction, it takes the least element of the set of counterexamples instead
(`LeastNumber`), which is enough for what is proved of transcripts and of the
ranking.

## 6. Where code and documentation differ

Three have a run of their own, in which TLC finds the documented property
violated by what the code does:

* `monitor_race`: "All methods are safe for concurrent use." A run reads
  `m.done` when it begins, not when it is launched. After `Start`, `Stop` and
  `Start` by two goroutines, the first run may find the second's channel; both
  close it, which panics. Before that, and for good if nobody stops the second
  run, the `Stop` of the first waits for a channel that no run will close:
  `StopIsAnswered` fails as well if `MonitorRace.cfg` is given it.
* `process_hang`: `ReadyTimeout` is how long to wait "before giving up and
  killing the process", but `StartProcess` gives up with
  `Stop(context.Background())`, which never gets to SIGKILL.
* `benchmark_refused`: "this benchmark never runs two model instances
  concurrently" (`benchmark.go:132`). A `Stop` whose signal the operating system
  refuses returns that error at once, without waiting or killing
  (`process.go:288`); the deferred `_ = proc.Stop(...)` drops it
  (`benchmark.go:140`), and the second runtime is launched beside the first.

Others were met while modelling. They are what restricts a property's
statement, and its comment says so:

* A signal that is refused leaves the subprocess alive in every caller:
  `StartProcess` drops the error and returns its own (`process.go:192`, `:200`),
  and `vq serve` returns it (`serve.go:86`). `NoOrphan`, `RuntimeHandle` and
  `LeavesNothing` name that exception.
* A second `Monitor.Stop`, concurrent with a first that waits, returns at once
  (`monitor.go:118`), though `Stop` is documented to wait; and a Monitor whose
  context was canceled takes `Start` for a no-op until `Stop` is called
  (`monitor.go:45`), though it is "not already running".
* `cmd.Wait` closes the stdout pipe under the scanner, so that lines a
  subprocess printed just before it exited may not reach `cfg.Stdout`
  (`process.go:234`); `OutputComplete` excludes that case.
* After a line over 1 MiB nobody reads the pipe (`process.go:228`);
  `OutputDrained` excludes that case.
* `StartProcess` returns on a handshake that is printed before the port is
  bound (`process.go:19`, `:145`).
* A stream's commit overwrites turns made since it was opened
  (`conversation.go:106`); `AccumulatesTurns` speaks of turns made one at a
  time.
* A body that ends cleanly without `[DONE]` is taken for a full reply
  (`conversation.go:104`), and a 2xx response without a body for an empty one
  (`httpclient.go:80`); `ReplyIntact` speaks of what was written, not of what
  the model meant to say. The HTTP client's timeout covers the whole body, so
  that it also cuts off a long stream that is making progress.
* The adapter reports `StopReason: "stop"` whatever the runtime's finish reason
  was (`langchain.go:70`, `:105`).
* `runtime.ErrUnavailable` is "`ErrRuntimeUnavailable`-compatible"
  (`runtime/client.go:41`), but `veloxquant.ErrRuntimeUnavailable`
  (`errors.go:12`) is another value that nothing returns; and a request whose
  context was canceled is classified as unavailable.
* "A usable (if conservative) number" (`system/darwin.go:53`) is the total, the
  least conservative there is; on Linux, too, no `MemAvailable` means that all
  memory is available.
* Passing a source to `UseMcpServer` again, to "pick up more tools mid-session"
  (`mcp.go:21`), finds its own tools taken, or fails to list them; either way it
  is closed and its tools stay registered. The documentation does not say that
  a source may be passed twice; `RegistrySound` is checked for sources that are
  not.
* A tool result with structured content is told without its other blocks
  (`unwrap.go:26`).
* An update made before the first sample carries zeroes, though updates are
  "merged onto the most recent memory sample" (`client.go:515`). On Linux, a
  missing `MemTotal` with a readable `MemAvailable` makes the amount in use wrap
  around (`client.go:537`).
* A cache directory that cannot be read is listed as empty, as documented
  (`local.go:36`), and files that cannot be read are left out of a model's size
  (`local.go:86`), which is not; `RestingModelsAreRight` tells the three cases
  apart.
* A pull that fails with an exception without a message is reported as a
  success of size zero (`pull.go:73`, `:175`); `SuccessMeansDone` speaks of a
  `Pull` that reports a size.
* A monitor that was replaced by a second `Client.Monitor` gets no more live
  updates (`client.go:548`), and an update may carry memory that is older than
  a sample published meanwhile (`client.go:552`).
* AutoPilot computes its safety margin but compares nothing with it, and
  estimates 16-bit weights for a model selected for its 4-bit ones
  (`autopilot.go:105`); it has no way to tell the optimizer how much memory is
  available (`client.go:92`), so that its advice always is that of "unknown".
* `vq serve` prints "Press Ctrl+C to stop." before it catches signals
  (`serve.go:76`, `:79`); a signal in between leaves a runtime behind that does
  not heed it.

## 7. The plan

Done, in this order: `Monitor` with its theorems; `Process` with
`RuntimeHandle`; `Conversation`; `Agent`; `ClientMetrics`; `Sizing` and
`Planner`; `Benchmark` and `Serve` over `RuntimeHandle`; `LocalCache`; then
`Reader`, `LangChain` and `ChatClients`, repeated names in `Agent`, `Detection`,
runtimes that ignore SIGTERM in `Benchmark`, and concurrent callers in
`LocalCache`; then the failures the code passes over: signals that are refused,
sources that do not close, and caches that cannot be read.

Left to extend the model: a subscriber that calls the Monitor it is subscribed
to (the self-deadlock of `monitor.go:88`), and `ClientMetrics` over an
interface module that `Monitor` is shown to implement, the way `Benchmark` and
`Serve` sit on `RuntimeHandle`.

Proved, in this order: `Monitor`, `Process` with the step simulation of
`RuntimeHandle`, `ClientMetrics`, `Agent`, `Serve`, `LocalCache`, `ChatClients`
with `TurnLog`, `Planner` with `Sizing`, and `Benchmark`; then, of `Monitor`,
`Process` and `Serve`, that what is waited for is on its way.

Next, to prove: the simulation for `ClientMetrics` over a Monitor's interface,
once there is one; and what the last step did for `ChatClients` and `Agent`,
whose liveness rests on a measure rather than on somebody else's step.

## 8. What is not modelled

* `runtime/client.go`, `runtime/health.go`, and embeddings and the model list of
  `openai/client.go`: single requests through the modelled `DoJSON`, without
  state.
* Of `system/`, the CPU model, `FormatBytes`, and `recommendProfile`, whose
  result only the command line prints.
* Of `mcp/`, `Connect` and the transports, which are the MCP SDK's, and
  `unwrap.go`, a function of one tool result: what tools return is left out of
  `Agent`.
* `config.go`, `types.go`, `errors.go`: options and data types.
* `cmd/vq` other than `serve.go`: flags and printing.
* `examples/`: sample programs.
* Within the modelled parts: the wording of reasons and reports, percentages,
  modification times, the environment of the subprocess, `ToMarkdown`, and
  `Embed` and `NewClient` of `client.go`.
