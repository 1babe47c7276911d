----------------------------- MODULE LangChain -----------------------------
(***************************************************************************)
(* langchain/langchain.go over the reader: calls of GenerateContent, with  *)
(* and without a streaming function.  A call is named by the stream it may *)
(* open; it runs on its caller's goroutine, closes its stream when it      *)
(* returns, and returns a text or an error.                                *)
(***************************************************************************)
EXTENDS Reader

VARIABLE
  gen           \* per call: where it is, what it gathered and what it told
                \* the streaming function

GenTypeOK ==
  gen \in [Streams ->
    [pc : {"idle", "reading", "text", "error"}, full : 0 .. MaxLines,
     told : 0 .. MaxLines]]

GenInit == gen = [s \in Streams |-> [pc |-> "idle", full |-> 0, told |-> 0]]

MessageTypes == {"system", "human", "ai", "generic", "function", "tool", "unknown"}

\* toRole: the role a message is sent with.
ToRole(type) ==
  CASE type = "system" -> "system"
    [] type \in {"human", "generic"} -> "user"
    [] type = "ai" -> "assistant"
    [] OTHER -> "unsupported"

\* toChatMessages: a message needs a role, and parts that are all text.
Converts(type, allText) == ToRole(type) # "unsupported" /\ allText

Conversions == {Converts(t, allText) : t \in MessageTypes, allText \in BOOLEAN}

\* GenerateContent without a streaming function.
Generate(s, converted, replied) ==
  /\ gen[s].pc = "idle" /\ ~ Opened(s)
  /\ gen' = [gen EXCEPT ![s].pc = IF converted /\ replied THEN "text" ELSE "error"]
  /\ UNCHANGED stream

\* generateStreaming as far as its loop.
GenerateStream(s, converted, opened) ==
  /\ gen[s].pc = "idle" /\ ~ Opened(s)
  /\ IF converted /\ opened
     THEN OpenStream(s) /\ gen' = [gen EXCEPT ![s].pc = "reading"]
     ELSE gen' = [gen EXCEPT ![s].pc = "error"] /\ UNCHANGED stream

GenSkips(s) == gen[s].pc = "reading" /\ Skip(s) /\ UNCHANGED gen

\* A chunk with text is gathered and handed to the streaming function, which
\* takes it.
Gather(s) ==
  /\ gen[s].pc = "reading" /\ Chunk(s)
  /\ gen' = [gen EXCEPT ![s].full = @ + 1, ![s].told = @ + 1]

\* The call ends with an error and its stream unfinished.
GatherFailsWith(s, remains) ==
  /\ gen[s].pc = "reading" /\ Waiting(s, {"text"})
  /\ \E r \in remains : stream' = [stream EXCEPT ![s] = r]
  /\ gen' = [gen EXCEPT ![s].full = @ + 1, ![s].told = @ + 1, ![s].pc = "error"]

\* A bug: the stream is closed where the loop ends, not when the call returns.
GatherFailsOpen(s) == GatherFailsWith(s, {stream[s]})

\* The streaming function does not take the chunk, and the call fails.
GatherFails(s) == GatherFailsWith(s, Closed(stream[s]))

\* The stream ends: the call returns its error or the whole text.
GenReturns(s) ==
  /\ gen[s].pc = "reading" /\ AtEnd(s)
  /\ \E r \in Closed(Finished(s)) :
       /\ stream' = [stream EXCEPT ![s] = r]
       /\ gen' = [gen EXCEPT ![s].pc = IF r.err THEN "error" ELSE "text"]

GenStreamStep(s) ==
  GenSkips(s) \/ Gather(s) \/ GatherFails(s) \/ GenReturns(s)

GenStep(s) ==
  \/ \E converted \in Conversions :
       \/ \E opened \in StreamResults : GenerateStream(s, converted, opened)
       \/ \E replied \in ChatResults : Generate(s, converted, replied)
  \/ GenStreamStep(s)

----------------------------------------------------------------------------
\* What a streaming call returns is what the runtime sent: a text is all of
\* it, each piece handed to the streaming function, and a call that lost a
\* piece, or whose function failed, returns an error; either way it leaves no
\* connection behind.
GenerateIsFaithful ==
  \A s \in Streams : gen[s].pc \in {"text", "error"} /\ Opened(s) =>
    /\ stream[s].conn = "closed"
    /\ gen[s].pc = "text" =>
         gen[s].full = stream[s].chunks /\ gen[s].told = gen[s].full /\ ~ stream[s].err

============================================================================
