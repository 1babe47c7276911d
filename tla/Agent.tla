------------------------------- MODULE Agent -------------------------------
(***************************************************************************)
(* agent/agent.go and agent/mcp.go, with mcp/mcp.go: a tool registry       *)
(* shared by manual tools and MCP sources, and Run, the loop that lets a   *)
(* model call them.                                                        *)
(*                                                                         *)
(* An Agent has no lock: one goroutine uses it.  A tool runs inside Run    *)
(* and may itself call the Agent's methods.  The model, the tools and the  *)
(* MCP servers are the environment: any list of calls may come back from   *)
(* Chat, any list of tools from ListTools, and Close of a source may fail. *)
(* A call is abstracted to the tool it names, or to why it is refused;     *)
(* what a tool returns is left out.                                        *)
(***************************************************************************)
EXTENDS Naturals, SequencesExt, FiniteSets

CONSTANTS
  Names,        \* tool names that may be registered
  Sources,      \* tool sources
  Owned,        \* the sources that own their connection (mcp.Connect)
  Reuse,        \* the application may pass a source to UseMcpServer again
  MaxSteps,     \* RunOptions.MaxSteps, after its default is applied
  MaxCalls,     \* bound: tool calls in one Run
  MaxListed,    \* bound: tools a source lists
  MaxUses,      \* bound: sources that become registered or rejected
  MaxRuns       \* bound: calls of Run

ASSUME NamesAssumption == "garbled" \notin Names
ASSUME BoundsAssumption ==
  MaxSteps \in Nat \ {0} /\ {MaxCalls, MaxListed, MaxUses, MaxRuns} \subseteq Nat

None == "none"
Manual == "manual"

ASSUME SourcesAssumption ==
  Owned \subseteq Sources /\ Reuse \in BOOLEAN /\ {None, Manual} \cap Sources = {}

VARIABLES
  tools,        \* a.tools: where the tool of each name comes from, or None
  toolOrder,    \* a.toolOrder
  sources,      \* a.sources
  connected,    \* sources whose connection is open
  rejected,     \* history: sources UseMcpServer returned an error for
  uses,         \* how often a source was passed to UseMcpServer
  closing,      \* sources the Agent.Close under way has yet to close
  closeFailed,  \* its firstErr is not nil, or that of the last one was not
  toClose,      \* history: sources an Agent.Close was called for
  stubborn,     \* history: sources whose own Close failed
  runs,         \* calls of Run so far
  run           \* the locals of Run

registryVars == <<tools, toolOrder, sources>>
sourceVars == <<connected, rejected, uses, closing, closeFailed, toClose, stubborn>>
vars == <<registryVars, sourceVars, runs, run>>

SeqsUpTo(S, n) == UNION {[1 .. k -> S] : k \in 0 .. n}

\* A transcript entry; ids are the calls it makes or answers.
Message(role, ids) == [role |-> role, ids |-> ids]

\* pc: "idle", "request", "dispatch" or "tool" (Execute runs); step: round trips
\* completed; messages: the transcript; queue: calls of the last response not
\* answered yet; nextID: call IDs handed out; steps: the calls RunResult.Steps
\* tells of; executed: history, the calls whose tool's Execute was called;
\* result: how it ended.
Idle == [pc |-> "idle", step |-> 0, messages |-> <<>>, queue |-> <<>>, nextID |-> 0,
         steps |-> <<>>, executed |-> <<>>, result |-> "none"]

\* A call names a tool, registered or not, or its arguments are no JSON.
Targets == Names \cup {"garbled"}

\* Run never counts more round trips than MaxSteps, and the registry holds
\* only names and sources it was given.
TypeOK ==
  /\ tools \in [Names -> {None, Manual} \cup Sources]
  /\ toolOrder \in Seq(Names) /\ sources \in Seq(Sources)
  /\ {connected, rejected, toClose, stubborn} \subseteq SUBSET Sources
  /\ closing \in Seq(Sources) /\ closeFailed \in BOOLEAN
  /\ uses \in [Sources -> 0 .. 2] /\ runs \in 0 .. MaxRuns
  /\ run \in [pc : {"idle", "request", "dispatch", "tool"}, step : 0 .. MaxSteps - 1,
              messages : Seq([role : {"user", "assistant", "tool"}, ids : Seq(Nat)]),
              queue : Seq([id : Nat, name : Targets]), nextID : Nat,
              steps : Seq(Nat), executed : Seq(Nat),
              result : {"none", "text", "error", "maxSteps"}]

Init ==
  /\ tools = [n \in Names |-> None] /\ toolOrder = <<>> /\ sources = <<>>
  /\ connected = Sources /\ rejected = {} /\ uses = [s \in Sources |-> 0]
  /\ closing = <<>> /\ closeFailed = FALSE /\ toClose = {} /\ stubborn = {}
  /\ runs = 0 /\ run = Idle

\* The goroutine is in application code: outside Run and Close, or in a tool.
InApplication == run.pc \in {"idle", "tool"} /\ closing = <<>>

----------------------------------------------------------------------------
(* The registry.                                                           *)

\* RegisterTool; with a name already taken nothing changes.
RegisterTool(n) ==
  /\ InApplication /\ tools[n] = None
  /\ tools' = [tools EXCEPT ![n] = Manual]
  /\ toolOrder' = Append(toolOrder, n)
  /\ UNCHANGED <<sources, sourceVars, runs, run>>

\* ToolSource.Close: the connection of an owned source is closed, unless that fails.
SourceCloses(s, ok) ==
  /\ s \notin Owned => ok
  /\ connected' = IF ok THEN connected \ ({s} \cap Owned) ELSE connected
  /\ stubborn' = IF ok THEN stubborn ELSE stubborn \cup {s}

MayUse(s) ==
  /\ InApplication /\ uses[s] < (IF Reuse THEN 2 ELSE 1)
  /\ Len(sources) + Cardinality(rejected) < MaxUses

\* The source is closed; what its Close returns is ignored.
Rejects(s, ok) ==
  /\ uses' = [uses EXCEPT ![s] = @ + 1]
  /\ SourceCloses(s, ok)
  /\ rejected' = rejected \cup {s}
  /\ UNCHANGED <<closing, closeFailed, toClose, runs, run>>

Taken(list) == \E i \in DOMAIN list : tools[list[i]] # None

\* ListTools fails, as it does when the connection is closed.
UseListFails(s, ok) == MayUse(s) /\ Rejects(s, ok) /\ UNCHANGED registryVars

\* A bug: tools are registered one by one until a name is found taken.
UseCollidesPartway(s, list, ok) ==
  /\ MayUse(s) /\ s \in connected /\ Taken(list) /\ Rejects(s, ok)
  /\ tools' = [n \in Names |-> IF n \in ToSet(list) /\ tools[n] = None THEN s ELSE tools[n]]
  /\ UNCHANGED <<toolOrder, sources>>

\* UseMcpServer: one of the tools listed has a name already registered.
UseCollides(s, list, ok) ==
  /\ MayUse(s) /\ s \in connected /\ Taken(list) /\ Rejects(s, ok)
  /\ UNCHANGED registryVars

\* UseMcpServer: the tools are registered, a name listed twice twice.
UseMcpServer(s, list) ==
  /\ MayUse(s) /\ s \in connected /\ ~ Taken(list)
  /\ uses' = [uses EXCEPT ![s] = @ + 1]
  /\ tools' = [n \in Names |-> IF n \in ToSet(list) THEN s ELSE tools[n]]
  /\ toolOrder' = toolOrder \o list
  /\ sources' = Append(sources, s)
  /\ UNCHANGED <<connected, rejected, closing, closeFailed, toClose, stubborn, runs, run>>

\* Agent.Close is called.
CloseBegins ==
  /\ InApplication
  /\ closing' = sources /\ closeFailed' = FALSE
  /\ toClose' = toClose \cup ToSet(sources)
  /\ UNCHANGED <<registryVars, connected, rejected, uses, stubborn, runs, run>>

\* One turn of its loop.
CloseTurn(ok, left, failed) ==
  /\ closing # <<>> /\ SourceCloses(Head(closing), ok)
  /\ closing' = left /\ closeFailed' = failed
  /\ UNCHANGED <<registryVars, rejected, uses, toClose, runs, run>>

\* A bug: the first error ends the loop.
CloseStopsEarly(ok) ==
  CloseTurn(ok, IF ok THEN Tail(closing) ELSE <<>>, closeFailed \/ ~ ok)

\* A bug: the error of one source is forgotten at the next.
CloseForgets(ok) == CloseTurn(ok, Tail(closing), ~ ok)

\* Every source is closed, whatever the others return, and the first error kept.
CloseOne(ok) == CloseTurn(ok, Tail(closing), closeFailed \/ ~ ok)

----------------------------------------------------------------------------
(* Run.                                                                    *)

RunStart ==
  /\ run.pc = "idle" /\ closing = <<>> /\ runs < MaxRuns
  /\ runs' = runs + 1
  /\ run' = [Idle EXCEPT !.pc = "request", !.messages = <<Message("user", <<>>)>>]

Returned(how) == [Idle EXCEPT !.result = how]

\* The context is done, or the request fails: no result but the error.
RunFails == run.pc = "request" /\ run' = Returned("error") /\ UNCHANGED runs

\* The model answers without calling a tool.
RunAnswers ==
  /\ run.pc = "request" /\ UNCHANGED runs
  /\ run' = [Returned("text") EXCEPT !.steps = run.steps, !.executed = run.executed]

\* The model calls tools.
RunCalls(calls) ==
  LET ids == [i \in DOMAIN calls |-> run.nextID + i] IN
  /\ run.pc = "request" /\ UNCHANGED runs
  /\ run.nextID + Len(calls) <= MaxCalls
  /\ run' = [run EXCEPT
       !.pc = "dispatch", !.nextID = @ + Len(calls),
       !.queue = [i \in DOMAIN calls |-> [id |-> ids[i], name |-> calls[i]]],
       !.messages = Append(@, Message("assistant", ids))]

\* The first call of the queue is answered.
Answered ==
  [run EXCEPT !.pc = "dispatch", !.queue = Tail(@),
              !.messages = Append(@, Message("tool", <<Head(run.queue).id>>))]

Known(n) == n \in Names /\ tools[n] # None
Dispatching == run.pc = "dispatch" /\ run.queue # <<>>

\* A bug: a call that cannot be dispatched is dropped.
DispatchDrops ==
  /\ Dispatching /\ ~ Known(Head(run.queue).name)
  /\ run' = [run EXCEPT !.queue = Tail(@)] /\ UNCHANGED runs

\* No such tool, or arguments that are not JSON.
DispatchRefuses ==
  /\ Dispatching /\ ~ Known(Head(run.queue).name)
  /\ run' = Answered /\ UNCHANGED runs

\* Execute is called.
ToolStarts ==
  /\ Dispatching /\ Known(Head(run.queue).name)
  /\ run' = [run EXCEPT !.pc = "tool", !.executed = Append(@, Head(run.queue).id)]
  /\ UNCHANGED runs

\* Execute returns a value or an error, the step is recorded, and the answer, which
\* may be that the value does not marshal, appended to the transcript.
ToolAnswers ==
  /\ run.pc = "tool" /\ closing = <<>> /\ UNCHANGED runs
  /\ run' = [Answered EXCEPT !.steps = Append(@, Head(run.queue).id)]

RoundOver == run.pc = "dispatch" /\ run.queue = <<>>

\* A bug: the loop runs once more than MaxSteps says.
RoundEndsLate ==
  /\ RoundOver /\ UNCHANGED runs
  /\ run' = IF run.step = MaxSteps THEN Returned("maxSteps")
            ELSE [run EXCEPT !.step = @ + 1, !.pc = "request"]

\* A bug: the round trip is not counted.
RoundEndsUncounted ==
  /\ RoundOver /\ UNCHANGED runs
  /\ run' = [Idle EXCEPT !.pc = "request", !.messages = <<Message("user", <<>>)>>]

RoundEnds ==
  /\ RoundOver /\ UNCHANGED runs
  /\ run' = IF run.step + 1 = MaxSteps THEN Returned("maxSteps")
            ELSE [run EXCEPT !.step = @ + 1, !.pc = "request"]

CallLists == SeqsUpTo(Targets, MaxCalls) \ {<<>>}

RunStep ==
  /\ \/ RunFails \/ RunAnswers \/ DispatchRefuses \/ ToolStarts \/ ToolAnswers \/ RoundEnds
     \/ \E calls \in CallLists : RunCalls(calls)
  /\ UNCHANGED <<registryVars, sourceVars>>

----------------------------------------------------------------------------
Next ==
  \/ \E n \in Names : RegisterTool(n)
  \/ \E s \in Sources, ok \in BOOLEAN :
       \/ UseListFails(s, ok)
       \/ \E list \in SeqsUpTo(Names, MaxListed) : UseCollides(s, list, ok)
  \/ \E s \in Sources, list \in SeqsUpTo(Names, MaxListed) : UseMcpServer(s, list)
  \/ CloseBegins
  \/ \E ok \in BOOLEAN : CloseOne(ok)
  \/ RunStart /\ UNCHANGED <<registryVars, sourceVars>>
  \/ RunStep

\* Chat, tools and what Close waits for return, so that Run goes on; a tool may
\* call Close, but not for ever.
Fairness == SF_vars(RunStep) /\ WF_vars(\E ok \in BOOLEAN : CloseOne(ok))

Spec == Init /\ [][Next]_vars /\ Fairness

----------------------------------------------------------------------------
Registered == {n \in Names : tools[n] # None}

\* One namespace: the tools advertised are the tools dispatched to (a name
\* without a tool would make toolDefinitions panic), and one advertised twice
\* was listed twice by its source.
RegistryAgrees ==
  /\ ToSet(toolOrder) = Registered
  /\ \A i, j \in DOMAIN toolOrder :
       i # j /\ toolOrder[i] = toolOrder[j] => tools[toolOrder[i]] \in Sources

IdsOf(role) ==
  FlattenSeq([i \in DOMAIN run.messages |->
                IF run.messages[i].role = role THEN run.messages[i].ids ELSE <<>>])

\* Every call is answered by one tool message, in order, before the model is
\* asked again, whatever the calls are and whatever the tools do.
EveryCallAnswered ==
  LET answered == IdsOf("tool")
      asked == IdsOf("assistant")
  IN IsPrefix(answered, asked) /\ (run.pc = "request" => answered = asked)

\* "whichever comes first": the model is asked at most MaxSteps times.
RequestsBounded ==
  run.pc = "request" =>
    Cardinality({i \in DOMAIN run.messages : run.messages[i].role = "assistant"}) < MaxSteps

\* A Run that succeeds reports every tool it executed, in order.
StepsTellAll == run.result = "text" => run.steps = run.executed

\* "a rejected registration doesn't leak the connection it just opened": it is
\* closed, unless its own Close fails.
RejectedIsClosed == rejected \cap Owned \cap connected \subseteq stubborn

\* A connection "belongs to whoever created it": the Agent leaves those of
\* FromSession alone.
OwnershipRespected == Sources \ Owned \subseteq connected

\* One source that does not close keeps no other open: when Close has returned,
\* an owned connection is left of those it was called for only if its own Close
\* failed, and Close has said so.
CloseReaches ==
  closing = <<>> => \A s \in toClose \cap Owned \cap connected : s \in stubborn /\ closeFailed

\* Whatever a tool came from, Close will reach: no connection behind a
\* registered tool is forgotten.
OriginsRemembered == \A n \in Registered : tools[n] \in {Manual} \cup ToSet(sources)

\* A registered tool can be dispatched: its connection stays open until Close is
\* called for it.
ToolsStayConnected ==
  \A n \in Registered : tools[n] \in Owned \ toClose => tools[n] \in connected

\* However registrations succeed, collide and fail, and whenever Close comes:
\* one namespace, and every connection closed by whoever it belongs to, and not
\* before its time.
RegistrySound ==
  /\ RegistryAgrees /\ RejectedIsClosed /\ OwnershipRespected /\ CloseReaches
  /\ OriginsRemembered /\ ToolsStayConnected

\* The transcript sent to the model and the result given to the caller are
\* both complete, and there are no more requests than were allowed.
TranscriptIsWhole == EveryCallAnswered /\ RequestsBounded /\ StepsTellAll

\* Run returns.
RunEnds == (run.pc # "idle") ~> (run.pc = "idle")

============================================================================
