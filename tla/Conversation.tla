---------------------------- MODULE Conversation ----------------------------
(***************************************************************************)
(* conversation.go over the reader: a chat history built from blocking     *)
(* turns (Send) and streamed turns (SendStream, then Next until it returns *)
(* false).  One goroutine owns the Conversation.  A turn is named by a     *)
(* number.                                                                 *)
(***************************************************************************)
EXTENDS Reader

CONSTANTS
  Seeded,       \* NewConversation was given a system prompt
  Overlap,      \* whether the application may start a turn while a stream is
                \* unfinished: a set of Booleans
  MaxTurns      \* bound: turns started

ASSUME ConfigAssumption == Seeded \in BOOLEAN /\ Overlap \subseteq BOOLEAN
ASSUME TurnsAssumption == MaxTurns \in Nat

VARIABLES
  overlap,      \* the application does
  messages,     \* conv.messages
  turn,         \* turns started so far
  reply         \* per stream, the rest of its ConversationStream

convVars == <<overlap, messages, turn, reply>>

Message(role, t, n) == [role |-> role, turn |-> t, text |-> n]
Messages == [role : {"system", "user", "assistant"}, turn : 0 .. MaxTurns, text : 0 .. MaxLines]

ConvTypeOK ==
  /\ overlap \in Overlap
  /\ messages \in Seq(Messages) /\ turn \in 0 .. MaxTurns
  /\ reply \in [Streams -> [pending : Seq(Messages), text : 0 .. MaxLines, done : BOOLEAN]]

ConvInit ==
  /\ overlap \in Overlap /\ turn = 0
  /\ messages = IF Seeded THEN <<Message("system", 0, 0)>> ELSE <<>>
  /\ reply = [s \in Streams |-> [pending |-> <<>>, text |-> 0, done |-> FALSE]]

\* The streams of the conversation, and the turn one of them is for.
Mine(s) == reply[s].pending # <<>>
TurnOf(s) == Last(reply[s].pending).turn

Unfinished(s) == Mine(s) /\ ~ stream[s].over /\ stream[s].conn = "open"

\* Whether the application starts a turn now, and uses a stream it closed.
MayStart == turn < MaxTurns /\ (overlap \/ \A s \in Streams : ~ Unfinished(s))
MayRead(s) == Mine(s) /\ (overlap \/ stream[s].conn = "open")

----------------------------------------------------------------------------
\* A bug: the prompt goes into the history before the request is sent.
SendEager(replied) ==
  /\ MayStart /\ turn' = turn + 1
  /\ messages' = Append(messages, Message("user", turn', 0))
                   \o (IF replied THEN <<Message("assistant", turn', 0)>> ELSE <<>>)
  /\ UNCHANGED <<overlap, reply, stream>>

\* A blocking turn: a failed one leaves the history as it was.
Send(replied) ==
  /\ MayStart /\ turn' = turn + 1
  /\ messages' = IF replied
                 THEN messages \o <<Message("user", turn', 0), Message("assistant", turn', 0)>>
                 ELSE messages
  /\ UNCHANGED <<overlap, reply, stream>>

SendStream(s, opened) ==
  /\ MayStart /\ turn' = turn + 1
  /\ IF opened
     THEN /\ OpenStream(s)
          /\ reply' = [reply EXCEPT ![s].pending = Append(messages, Message("user", turn', 0))]
     ELSE UNCHANGED <<stream, reply>>
  /\ UNCHANGED <<overlap, messages>>

NextSkips(s) == MayRead(s) /\ Skip(s) /\ UNCHANGED convVars

\* ConversationStream.Next returns true, and gathers the text.
NextChunk(s) ==
  /\ MayRead(s) /\ Chunk(s)
  /\ reply' = [reply EXCEPT ![s].text = @ + 1]
  /\ UNCHANGED <<overlap, messages, turn>>

Commit(s) ==
  /\ messages' = Append(reply[s].pending, Message("assistant", TurnOf(s), reply[s].text))
  /\ reply' = [reply EXCEPT ![s].done = TRUE]

\* A bug: the reply is committed each time Next returns false.
NextFalseAgain(s) ==
  /\ MayRead(s) /\ Finish(s)
  /\ IF stream'[s].err THEN UNCHANGED <<messages, reply>>
     ELSE /\ messages' = messages \o <<Last(reply[s].pending),
                                       Message("assistant", TurnOf(s), reply[s].text)>>
          /\ reply' = [reply EXCEPT ![s].done = TRUE]
  /\ UNCHANGED <<overlap, turn>>

\* ConversationStream.Next returns false, and commits a reply read to its end.
NextFalse(s) ==
  /\ MayRead(s) /\ Finish(s)
  /\ IF stream'[s].err \/ reply[s].done THEN UNCHANGED <<messages, reply>> ELSE Commit(s)
  /\ UNCHANGED <<overlap, turn>>

Close(s) == Mine(s) /\ stream[s].conn = "open" /\ CloseStream(s) /\ UNCHANGED convVars

ConvTurn == \E replied \in ChatResults : Send(replied)

ConvStreamStep(s) ==
  \/ \E opened \in StreamResults : SendStream(s, opened)
  \/ NextSkips(s) \/ NextChunk(s) \/ NextFalse(s) \/ Close(s)

\* The application reads a stream it has opened until Next returns false.
Reads(s) == ~ stream[s].over /\ (NextSkips(s) \/ NextChunk(s) \/ NextFalse(s))

----------------------------------------------------------------------------
Seed == IF Seeded THEN 1 ELSE 0

\* The turns of the history, in which every second message is a prompt.
TurnsLogged ==
  [k \in 1 .. (Len(messages) - Seed) \div 2 |-> messages[Seed + 2 * k - 1].turn]

\* "the failed turn is not recorded", and neither is half of one: after the
\* system prompt the history is made of prompts, each with its own reply.
HistoryIsTurns ==
  /\ (Len(messages) - Seed) % 2 = 0
  /\ Seeded => messages[1].role = "system"
  /\ \A i \in Seed + 1 .. Len(messages) :
       IF (i - Seed) % 2 = 1
       THEN messages[i].role = "user" /\ messages[i + 1].turn = messages[i].turn
       ELSE messages[i].role = "assistant"

\* A stream that failed, or has not finished, has left nothing in the history.
OnlyFinishedStreams ==
  \A s \in Streams : Mine(s) /\ (stream[s].err \/ ~ stream[s].over) =>
    \A i \in DOMAIN messages : messages[i].turn # TurnOf(s)

\* All the server wrote is what the history holds as the reply.
ReplyIntact ==
  \A s \in Streams : Mine(s) =>
    \A i \in DOMAIN messages :
      messages[i].role = "assistant" /\ messages[i].turn = TurnOf(s)
        => messages[i].text = stream[s].chunks

\* What a stream leaves behind: the reply it read, if it read it to the end
\* without an error, and nothing otherwise.
StreamsLeaveTheirReply == OnlyFinishedStreams /\ ReplyIntact

\* "Conversation accumulates chat history across turns": a turn that is in
\* the history stays in it, and no turn enters it twice, as long as the
\* application finishes one turn before the next.  (A stream that commits
\* overwrites the history with the one it was opened on.)
Accumulates == INSTANCE TurnLog WITH
  Turns <- 1 .. MaxTurns, log <- IF overlap THEN <<>> ELSE TurnsLogged

AccumulatesTurns == Accumulates!Spec

============================================================================
