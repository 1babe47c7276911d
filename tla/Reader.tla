------------------------------- MODULE Reader -------------------------------
(***************************************************************************)
(* What the chat clients share: one request to the runtime                 *)
(* (internal/httpclient) and the reader of a streamed reply                *)
(* (openai/streaming.go under client.go's ChatStream).                     *)
(*                                                                         *)
(* The server writes the body of each open stream on its own.  A line of a *)
(* body is named by how Stream.Next treats it, the text of a streamed      *)
(* reply by how many non-empty chunks it is made of.                       *)
(***************************************************************************)
EXTENDS Naturals, SequencesExt

CONSTANTS
  Streams,      \* streams that may be opened
  MaxLines      \* bound: lines the server writes to one stream

ASSUME LinesAssumption == MaxLines \in Nat

VARIABLE
  stream        \* per stream, the connection, its body and its reader

\* How a request fares: it is not built, the runtime is not reached, the
\* status is not 2xx, the body breaks off, is not JSON, is empty, or is right.
Outcomes == {"unsent", "unreachable", "refused", "cut", "garbled", "empty", "right"}

\* DoJSON: an empty 2xx body leaves the zero response, which is a success.
DoJSONSucceeds(outcome) == outcome \in {"empty", "right"}

\* Do: the status alone decides; the body is read later, as the stream.
DoSucceeds(outcome) == outcome \notin {"unsent", "unreachable", "refused"}

\* Whether Chat may return a reply, and ChatStream a stream.
ChatResults == {DoJSONSucceeds(o) : o \in Outcomes}
StreamResults == {DoSucceeds(o) : o \in Outcomes}

\* "text" is a chunk with content; "other" a chunk with none, a blank line, a
\* comment or another field; "bad" a data line that is not JSON, or any line
\* longer than the scanner's buffer of 64 KiB; "done" is [DONE].
LineKinds == {"other", "text", "bad", "done"}

\* conn: "none", "open" or "closed" by this side; body: what the server wrote
\* and the scanner has not read; ended: how the body ends, "no" (not yet),
\* "eof" or "error"; sent, chunks: lines and non-empty chunks the server wrote;
\* done, err: of Stream; over: Next has returned false; reports: calls of the
\* metrics sink.
Unopened == [conn |-> "none", body |-> <<>>, ended |-> "no", sent |-> 0, chunks |-> 0,
             done |-> FALSE, err |-> FALSE, over |-> FALSE, reports |-> 0]

ReaderTypeOK ==
  stream \in [Streams ->
    [conn : {"none", "open", "closed"}, body : Seq(LineKinds), ended : {"no", "eof", "error"},
     sent : 0 .. MaxLines, chunks : 0 .. MaxLines, done : BOOLEAN, err : BOOLEAN,
     over : BOOLEAN, reports : {0, 1}]]

ReaderInit == stream = [s \in Streams |-> Unopened]

Opened(s) == stream[s].conn # "none"

\* Client.ChatStream and ChatCompletionStream, once Do has succeeded.
OpenStream(s) ==
  /\ ~ Opened(s)
  /\ stream' = [stream EXCEPT ![s].conn = "open"]

\* The server writes a line: nothing after [DONE], and nothing that matters
\* once the reader has seen the end.
ServerWrites(s, line) ==
  LET r == stream[s] IN
  /\ Opened(s) /\ ~ r.over /\ r.ended = "no" /\ r.sent < MaxLines
  /\ r.body # <<>> => Last(r.body) # "done"
  /\ stream' = [stream EXCEPT ![s].body = Append(@, line), ![s].sent = @ + 1,
                              ![s].chunks = IF line = "text" THEN @ + 1 ELSE @]

\* The body ends, cleanly or because the connection breaks, ctx is done or
\* the client's timeout has passed.
ServerEnds(s, how) ==
  /\ Opened(s) /\ ~ stream[s].over /\ stream[s].ended = "no"
  /\ stream' = [stream EXCEPT ![s].ended = how]

Running(s) == Opened(s) /\ ~ stream[s].done /\ ~ stream[s].err
Waiting(s, kinds) == Running(s) /\ stream[s].body # <<>> /\ Head(stream[s].body) \in kinds

\* A bug: a line without text is not passed over.
SkipsNothing(s) == FALSE /\ UNCHANGED stream

\* Stream.Next goes on past a line that is no data, or ChatStream.Next returns
\* true with a chunk of no text.
Skip(s) ==
  /\ Waiting(s, {"other"})
  /\ stream' = [stream EXCEPT ![s].body = Tail(@)]

\* Next returns true with a chunk of text.
Chunk(s) ==
  /\ Waiting(s, {"text"})
  /\ stream' = [stream EXCEPT ![s].body = Tail(@)]

\* Stream.Next returns false: it had before, the body says [DONE], a line is
\* malformed or too long (what follows it is never read), or the body has
\* ended.
Ending(s) ==
  LET r == stream[s] IN
  IF ~ Running(s) THEN r
  ELSE IF r.body # <<>> THEN [r EXCEPT !.body = <<>>, !.done = Head(r.body) = "done",
                                       !.err = Head(r.body) = "bad"]
  ELSE [r EXCEPT !.err = r.ended = "error"]

AtEnd(s) ==
  \/ Opened(s) /\ ~ Running(s)
  \/ Waiting(s, {"done", "bad"})
  \/ Running(s) /\ stream[s].body = <<>> /\ stream[s].ended # "no"

\* A bug: the sink is called each time Next returns false.
FinishedAgain(s) == [Ending(s) EXCEPT !.over = TRUE, !.reports = @ + 1]

\* A bug: a broken connection ends the stream like its last line.
FinishedQuietly(s) == [Ending(s) EXCEPT !.over = TRUE, !.reports = 1, !.err = FALSE]

\* ChatStream.Next returns false: the first time, it reports the metrics.
Finished(s) == [Ending(s) EXCEPT !.over = TRUE, !.reports = 1]

Finish(s) == AtEnd(s) /\ stream' = [stream EXCEPT ![s] = Finished(s)]

\* The body is closed: the lines the scanner has buffered stay readable, and
\* what follows them is an error, unless the scanner has met the end already.
Closed(r) ==
  IF r.over THEN {[r EXCEPT !.conn = "closed"]}
  ELSE {[r EXCEPT !.conn = "closed", !.ended = "error", !.body = SubSeq(@, 1, k)] :
          k \in 0 .. Len(r.body)}
       \cup {w \in {[r EXCEPT !.conn = "closed"]} : r.ended = "eof"}

CloseStream(s) == \E r \in Closed(stream[s]) : stream' = [stream EXCEPT ![s] = r]

ServerStep(s) ==
  \/ \E line \in LineKinds : ServerWrites(s, line)
  \/ \E how \in {"eof", "error"} : ServerEnds(s, how)

============================================================================
