---------------------------- MODULE ChatClients ----------------------------
(***************************************************************************)
(* The users of the streaming reader together: a Conversation and calls of *)
(* the LangChain adapter, on goroutines of their own, against a runtime    *)
(* that writes its replies when it likes.  Each stream has one user.       *)
(***************************************************************************)
EXTENDS Conversation, LangChain

\* Bound: the streams calls of the adapter may open, in the behaviours whose
\* conversation has one turn at a time.
CONSTANT Adapted

ASSUME AdaptedAssumption == Adapted \subseteq Streams

vars == <<stream, convVars, gen>>

\* What is said and read belongs to turns that were started, and a stream
\* reports its metrics at most once.
TypeOK == ReaderTypeOK /\ ConvTypeOK /\ GenTypeOK

Init == ReaderInit /\ ConvInit /\ GenInit

Next ==
  \/ \E s \in Streams : ServerStep(s) /\ UNCHANGED <<convVars, gen>>
  \/ \E s \in Streams : gen[s].pc = "idle" /\ ConvStreamStep(s) /\ UNCHANGED gen
  \/ ConvTurn /\ UNCHANGED gen
  \/ \E s \in Adapted : ~ overlap /\ ~ Mine(s) /\ GenStep(s) /\ UNCHANGED convVars

\* A body ends at the latest when the client's timeout, which is positive,
\* has passed; the application reads the streams it opens to their end, the
\* adapter always does, and a streaming function returns.
Fairness ==
  \A s \in Streams :
    /\ WF_vars(\E how \in {"eof", "error"} : ServerEnds(s, how) /\ UNCHANGED <<convVars, gen>>)
    /\ WF_vars(\/ Reads(s) /\ UNCHANGED gen
               \/ ~ Mine(s) /\ GenStreamStep(s) /\ UNCHANGED convVars)

Spec == Init /\ [][Next]_vars /\ Fairness

\* A finished stream is reported to the metrics sink exactly once, an
\* abandoned one never.
ReportedOnce == \A s \in Streams : stream[s].reports = IF stream[s].over THEN 1 ELSE 0

\* What a stream leaves to its user, and to the metrics.
StreamsAreRight == StreamsLeaveTheirReply /\ ReportedOnce

\* Every stream the application keeps reading ends, and every call of the
\* adapter returns and closes the stream it opened.
StreamsEnd ==
  \A s \in Streams :
    Opened(s) ~> IF Mine(s) THEN stream[s].over \/ stream[s].conn = "closed"
                 ELSE stream[s].conn = "closed" /\ gen[s].pc \in {"text", "error"}

============================================================================
