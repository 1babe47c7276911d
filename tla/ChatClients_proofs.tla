------------------------- MODULE ChatClients_proofs -------------------------
(***************************************************************************)
(* Theorems about ChatClients, for any streams, turns and lines, and any   *)
(* use an application makes of its conversation.                           *)
(***************************************************************************)
EXTENDS ChatClients, FiniteSetTheorems, SequenceTheorems, TLAPS

----------------------------------------------------------------------------
(* The invariant of a stream and its user.                                 *)

Bodies ==
  [conn : {"none", "open", "closed"}, body : Seq(LineKinds), ended : {"no", "eof", "error"},
   sent : 0 .. MaxLines, chunks : 0 .. MaxLines, done : BOOLEAN, err : BOOLEAN,
   over : BOOLEAN, reports : {0, 1}]

Replies == [pending : Seq(Messages), text : 0 .. MaxLines, done : BOOLEAN]

Gens == [pc : {"idle", "reading", "text", "error"}, full : 0 .. MaxLines, told : 0 .. MaxLines]

\* The chunks of text a body still holds.
Texts(body) == Cardinality({i \in 1 .. Len(body) : body[i] = "text"})

\* What has been read, and how the reader ended.
BodyOK(r) ==
  /\ r.done \/ r.err => r.over
  /\ r.over => r.reports = 1 /\ (r.err \/ (r.body = <<>> /\ (r.done \/ r.ended = "eof")))
  /\ ~ r.over => r.reports = 0
  /\ r.conn = "closed" /\ ~ r.over => r.ended # "no"
  /\ \A i \in 1 .. Len(r.body) : r.body[i] = "done" => i = Len(r.body)
  /\ r.chunks <= r.sent

\* A reader that is bound to end with an error.
Doomed(r) ==
  ~ r.over /\ r.ended = "error" /\ \A i \in 1 .. Len(r.body) : r.body[i] # "done"

\* A reader that has gathered n chunks of text, and has lost none without
\* knowing it.
Counted(r, n) ==
  /\ n + Texts(r.body) <= r.chunks
  /\ r.err \/ Doomed(r) \/ n + Texts(r.body) = r.chunks

\* A stream belongs to the conversation or to a call of the adapter.
Sound(r, p, g) ==
  LET mine == p.pending # <<>>
      opened == r.conn # "none"
  IN /\ BodyOK(r)
     /\ ~ opened => r = Unopened /\ ~ mine /\ g.pc # "reading"
     /\ mine => g.pc = "idle" /\ Counted(r, p.text) /\ (p.done <=> r.over /\ ~ r.err)
     /\ ~ mine => p.text = 0 /\ ~ p.done
     /\ g.told = g.full
     /\ g.pc = "idle" => g.full = 0 /\ (opened => mine)
     /\ g.pc = "reading" => r.conn = "open" /\ ~ r.over /\ Counted(r, g.full)
     /\ g.pc \in {"text", "error"} /\ opened => r.conn = "closed"
     /\ g.pc = "text" /\ opened => g.full = r.chunks /\ r.over /\ ~ r.err

StreamsInv ==
  /\ stream \in [Streams -> Bodies] /\ reply \in [Streams -> Replies]
  /\ gen \in [Streams -> Gens]
  /\ \A s \in Streams : Sound(stream[s], reply[s], gen[s])

----------------------------------------------------------------------------
(* The invariant of the history.                                           *)

\* A system prompt, if there is one, and k prompts with their replies.
Shaped(list) ==
  /\ list \in Seq(Messages)
  /\ \E k \in Nat : Len(list) = Seed + 2 * k
  /\ Seeded => list[1].role = "system"
  /\ \A j \in Nat \ {0} : Seed + 2 * j <= Len(list) =>
       /\ list[Seed + 2 * j - 1].role = "user" /\ list[Seed + 2 * j].role = "assistant"
       /\ list[Seed + 2 * j].turn = list[Seed + 2 * j - 1].turn

\* Of a stream's turn a list holds nothing until the stream has ended well,
\* and then its whole reply.
Settled(r, m) == r.over /\ ~ r.err /\ (m.role = "assistant" => m.text = r.chunks)

\* A history that holds n turns at most, beside streams and what they are for.
Good(list, streams, replies, n) ==
  /\ Shaped(list)
  /\ \A i \in 1 .. Len(list) :
       /\ list[i].turn <= n
       /\ \A s \in Streams :
            replies[s].pending # <<>> /\ list[i].turn = Last(replies[s].pending).turn
              => Settled(streams[s], list[i])

\* A stream will leave the history it was opened on, which was good, its
\* prompt and its reply; a turn has at most one stream.  If turns do not
\* overlap, it was opened on the history of now.
HistoryInv ==
  /\ overlap \in Overlap /\ turn \in 0 .. MaxTurns /\ Good(messages, stream, reply, turn)
  /\ \A s \in Streams : Mine(s) =>
       /\ TurnOf(s) \in 1 .. turn
       /\ \E list \in Seq(Messages) :
            /\ Good(list, stream, reply, turn)
            /\ reply[s].pending = Append(list, Message("user", TurnOf(s), 0))
  /\ \A s, z \in Streams : Mine(s) /\ Mine(z) /\ TurnOf(s) = TurnOf(z) => s = z
  /\ ~ overlap => \A s \in Streams : Unfinished(s) =>
       reply[s].pending = Append(messages, Message("user", turn, 0))

ClientsInv == StreamsInv /\ HistoryInv

----------------------------------------------------------------------------
(* Counting chunks of text.                                                *)

LEMMA TextsType ==
  ASSUME NEW body \in Seq(LineKinds)
  PROVE  /\ Texts(body) \in Nat /\ Texts(<<>>) = 0
         /\ IsFiniteSet({i \in 1 .. Len(body) : body[i] = "text"})
<1> DEFINE T == {i \in 1 .. Len(body) : body[i] = "text"}
<1>1. IsFiniteSet(1 .. Len(body))
  <2>1. 1 \in Int /\ Len(body) \in Int
    OBVIOUS
  <2> QED
    BY ONLY <2>1, FS_Interval
<1>2. IsFiniteSet(T)
  <2>1. T \subseteq 1 .. Len(body)
    OBVIOUS
  <2> QED
    BY ONLY <1>1, <2>1, FS_Subset
<1>3. Cardinality(T) \in Nat
  BY ONLY <1>2, FS_CardinalityType
<1>4. Texts(<<>>) = 0
  <2>1. {i \in 1 .. Len(<<>>) : <<>>[i] = "text"} = {}
    OBVIOUS
  <2>2. Cardinality({}) = 0
    BY FS_EmptySet
  <2> QED
    BY <2>1, <2>2 DEF Texts
<1> QED
  BY <1>2, <1>3, <1>4 DEF Texts

LEMMA TextsAppend ==
  ASSUME NEW body \in Seq(LineKinds), NEW line \in LineKinds
  PROVE  Texts(Append(body, line)) = Texts(body) + (IF line = "text" THEN 1 ELSE 0)
<1> DEFINE all == Append(body, line)
           T == {i \in 1 .. Len(body) : body[i] = "text"}
           n == Len(body) + 1
<1>1. /\ Len(body) \in Nat /\ 1 .. Len(all) = (1 .. Len(body)) \cup {n} /\ n \notin 1 .. Len(body)
      /\ all[n] = line /\ \A i \in 1 .. Len(body) : all[i] = body[i]
  OBVIOUS
<1> HIDE DEF all, n
<1>2. {i \in 1 .. Len(all) : all[i] = "text"} = IF line = "text" THEN T \cup {n} ELSE T
  BY <1>1
<1>3. IsFiniteSet(T) /\ Cardinality(T) \in Nat
  BY TextsType DEF Texts
<1>4. n \notin T
  BY <1>1
<1>5. Cardinality(T \cup {n}) = Cardinality(T) + 1
  <2> HIDE DEF T
  <2> QED
    BY <1>3, <1>4, FS_AddElement
<1>6. /\ Texts(all) = Cardinality({i \in 1 .. Len(all) : all[i] = "text"})
      /\ Texts(body) = Cardinality(T)
  BY DEF Texts
<1> HIDE DEF T
<1>7. Texts(all) = Texts(body) + (IF line = "text" THEN 1 ELSE 0)
  <2>1. CASE line = "text"
    BY <1>2, <1>5, <1>6, <2>1
  <2>2. CASE line # "text"
    <3>1. Texts(all) = Texts(body)
      BY <1>2, <1>6, <2>2
    <3> QED
      BY <1>3, <1>6, <2>2, <3>1
  <2> QED
    BY <2>1, <2>2
<1> QED
  BY <1>7 DEF all

\* What is kept of a body has no more text than all of it.
LEMMA TextsPrefix ==
  ASSUME NEW body \in Seq(LineKinds), NEW k \in 0 .. Len(body)
  PROVE  Texts(SubSeq(body, 1, k)) <= Texts(body)
<1> DEFINE b == SubSeq(body, 1, k)
           T == {i \in 1 .. Len(body) : body[i] = "text"}
           U == {i \in 1 .. Len(b) : b[i] = "text"}
<1>1. Len(b) = k /\ k <= Len(body) /\ \A i \in 1 .. k : b[i] = body[i]
  OBVIOUS
<1>2. U \subseteq T
  <2> HIDE DEF b
  <2> QED
    BY <1>1
<1>3. IsFiniteSet(T)
  BY TextsType
<1> HIDE DEF b, T, U
<1>4. Cardinality(U) <= Cardinality(T)
  BY <1>2, <1>3, FS_Subset
<1> QED
  BY <1>4 DEF Texts, b, T, U

\* One read from the front, the others move up.
LEMMA TextsTail ==
  ASSUME NEW body \in Seq(LineKinds), body # <<>>
  PROVE  Texts(body) = Texts(Tail(body)) + (IF Head(body) = "text" THEN 1 ELSE 0)
<1> DEFINE rest == Tail(body)
           T == {i \in 1 .. Len(rest) : rest[i] = "text"}
           U == {i \in 2 .. Len(body) : body[i] = "text"}
           shift == [i \in T |-> i + 1]
<1>1. /\ rest \in Seq(LineKinds) /\ Len(body) \in Nat \ {0} /\ Len(rest) = Len(body) - 1
      /\ \A i \in 1 .. Len(rest) : rest[i] = body[i + 1]
      /\ Head(body) = body[1]
  OBVIOUS
<1>2. IsFiniteSet(T) /\ Cardinality(T) = Texts(rest) /\ Texts(rest) \in Nat
  BY <1>1, TextsType DEF Texts
<1> HIDE DEF rest
<1>3. shift \in Bijection(T, U)
  <2>1. \A i \in T : i + 1 \in U /\ i \in Nat
    BY <1>1
  <2>2. \A j \in U : j - 1 \in T /\ (j - 1) + 1 = j
    BY <1>1
  <2> HIDE DEF T, U
  <2>3. shift \in [T -> U] /\ \A i \in T : shift[i] = i + 1
    BY <2>1
  <2>4. shift \in Injection(T, U)
    BY <2>1, <2>3 DEF Injection, IsInjective
  <2>5. shift \in Surjection(T, U)
    BY <2>2, <2>3 DEF Surjection
  <2> QED
    BY <2>4, <2>5 DEF Bijection
<1>4. IsFiniteSet(U) /\ Cardinality(U) = Cardinality(T)
  BY <1>2, <1>3, FS_Bijection DEF ExistsBijection
<1>5. {i \in 1 .. Len(body) : body[i] = "text"} = IF body[1] = "text" THEN U \cup {1} ELSE U
  BY <1>1
<1>6. 1 \notin U
  OBVIOUS
<1>7. Cardinality(U \cup {1}) = Cardinality(U) + 1
  <2> HIDE DEF U
  <2> QED
    BY <1>4, <1>6, FS_AddElement
<1>8. Texts(body) = Cardinality({i \in 1 .. Len(body) : body[i] = "text"})
  BY DEF Texts
<1> HIDE DEF T, U
<1>9. Texts(body) = Texts(rest) + (IF Head(body) = "text" THEN 1 ELSE 0)
  <2>1. CASE Head(body) = "text"
    BY <1>1, <1>2, <1>4, <1>5, <1>7, <1>8, <2>1
  <2>2. CASE Head(body) # "text"
    <3>1. Texts(body) = Cardinality(U)
      BY <1>1, <1>5, <1>8, <2>2
    <3> QED
      BY <1>2, <1>4, <2>2, <3>1
  <2> QED
    BY <2>1, <2>2
<1> QED
  BY <1>9 DEF rest

\* What has been gathered was written.
LEMMA CountedBound ==
  ASSUME NEW r \in Bodies, NEW n \in Nat, Counted(r, n)
  PROVE  n <= r.chunks /\ n \in 0 .. MaxLines
<1>1. r.body \in Seq(LineKinds) /\ r.chunks \in 0 .. MaxLines
  BY DEF Bodies
<1>2. Texts(r.body) \in Nat /\ n + Texts(r.body) <= r.chunks
  BY <1>1, TextsType DEF Counted
<1> QED
  BY <1>1, <1>2, LinesAssumption

----------------------------------------------------------------------------
(* What may happen to a body.                                              *)

\* A line is written.
Written(r, line) ==
  [r EXCEPT !.body = Append(@, line), !.sent = @ + 1,
            !.chunks = IF line = "text" THEN @ + 1 ELSE @]

LEMMA WrittenOK ==
  ASSUME NEW r \in Bodies, BodyOK(r), NEW line \in LineKinds,
         ~ r.over, r.ended = "no", r.sent < MaxLines, r.body # <<>> => Last(r.body) # "done"
  PROVE  /\ Written(r, line) \in Bodies /\ BodyOK(Written(r, line))
         /\ \A n \in Nat : Counted(r, n) => Counted(Written(r, line), n)
<1> DEFINE w == Written(r, line)
<1>1. /\ r.body \in Seq(LineKinds) /\ r.sent \in Nat /\ r.chunks \in Nat /\ MaxLines \in Nat
      /\ r.chunks <= r.sent
  BY LinesAssumption DEF Bodies, BodyOK
<1>2. /\ w.body = Append(r.body, line) /\ w.sent = r.sent + 1
      /\ w.chunks = (IF line = "text" THEN r.chunks + 1 ELSE r.chunks)
      /\ w.conn = r.conn /\ w.ended = r.ended /\ w.done = r.done /\ w.err = r.err
      /\ w.over = r.over /\ w.reports = r.reports
  BY DEF Bodies, Written
<1>3. w \in Bodies
  <2>1. Append(r.body, line) \in Seq(LineKinds) /\ r.sent + 1 \in 0 .. MaxLines
        /\ (IF line = "text" THEN r.chunks + 1 ELSE r.chunks) \in 0 .. MaxLines
    BY <1>1
  <2> QED
    BY <2>1 DEF Bodies, Written
<1> HIDE DEF w
<1>4. \A i \in 1 .. Len(w.body) : w.body[i] = "done" => i = Len(w.body)
  <2> SUFFICES ASSUME NEW i \in 1 .. Len(w.body), i # Len(w.body), w.body[i] = "done"
               PROVE  FALSE
    OBVIOUS
  <2>1. i \in 1 .. Len(r.body) /\ r.body[i] = "done"
    BY <1>1, <1>2
  <2>2. i = Len(r.body) /\ r.body # <<>>
    BY <1>1, <2>1 DEF BodyOK
  <2> QED
    BY <2>1, <2>2 DEF Last
<1>5. BodyOK(w)
  BY <1>1, <1>2, <1>4 DEF BodyOK
<1>6. Texts(w.body) = Texts(r.body) + (IF line = "text" THEN 1 ELSE 0) /\ Texts(r.body) \in Nat
  BY <1>1, <1>2, TextsAppend, TextsType
<1>7. \A n \in Nat : Counted(r, n) => Counted(w, n)
  <2>1. ~ Doomed(r)
    BY DEF Doomed
  <2> QED
    BY <1>1, <1>2, <1>6, <2>1 DEF Counted
<1> QED
  BY <1>3, <1>5, <1>7 DEF w

\* The body ends.
LEMMA EndedOK ==
  ASSUME NEW r \in Bodies, BodyOK(r), ~ r.over, r.ended = "no", NEW how \in {"eof", "error"}
  PROVE  LET w == [r EXCEPT !.ended = how]
         IN /\ w \in Bodies /\ BodyOK(w)
            /\ \A n \in Nat : Counted(r, n) => Counted(w, n)
<1> DEFINE w == [r EXCEPT !.ended = how]
<1>1. w \in Bodies
  BY DEF Bodies
<1>2. /\ w.body = r.body /\ w.sent = r.sent /\ w.chunks = r.chunks
      /\ w.conn = r.conn /\ w.ended = how /\ w.done = r.done /\ w.err = r.err
      /\ w.over = r.over /\ w.reports = r.reports
  BY DEF Bodies
<1> HIDE DEF w
<1>3. BodyOK(w)
  BY <1>2 DEF BodyOK
<1>4. \A n \in Nat : Counted(r, n) => Counted(w, n)
  BY <1>2 DEF Counted, Doomed
<1> QED
  BY <1>1, <1>3, <1>4 DEF w

\* A line is read, and its text gathered.
LEMMA TakenOK ==
  ASSUME NEW r \in Bodies, BodyOK(r), ~ r.done, ~ r.err, r.body # <<>>,
         Head(r.body) \in {"other", "text"}
  PROVE  LET w == [r EXCEPT !.body = Tail(@)]
             k == IF Head(r.body) = "text" THEN 1 ELSE 0
         IN /\ w \in Bodies /\ BodyOK(w) /\ ~ r.over /\ ~ w.over
            /\ w.conn = r.conn /\ w.chunks = r.chunks /\ r.chunks \in 0 .. MaxLines
            /\ \A n \in Nat : Counted(r, n) => Counted(w, n + k)
<1> DEFINE w == [r EXCEPT !.body = Tail(@)]
           k == IF Head(r.body) = "text" THEN 1 ELSE 0
<1>1. r.body \in Seq(LineKinds) /\ Tail(r.body) \in Seq(LineKinds) /\ r.chunks \in 0 .. MaxLines
  BY DEF Bodies
<1>2. ~ r.over
  BY DEF BodyOK
<1>3. w \in Bodies
  BY <1>1 DEF Bodies
<1>4. /\ w.body = Tail(r.body) /\ w.sent = r.sent /\ w.chunks = r.chunks
      /\ w.conn = r.conn /\ w.ended = r.ended /\ w.done = r.done /\ w.err = r.err
      /\ w.over = r.over /\ w.reports = r.reports
  BY DEF Bodies
<1> HIDE DEF w
<1>5. \A i \in 1 .. Len(w.body) : w.body[i] = "done" => i = Len(w.body)
  BY <1>1, <1>4 DEF BodyOK
<1>6. BodyOK(w)
  BY <1>2, <1>4, <1>5 DEF BodyOK
<1>7. Texts(r.body) = Texts(w.body) + k /\ Texts(w.body) \in Nat
  BY <1>1, <1>4, TextsTail, TextsType
<1>8. \A n \in Nat : Counted(r, n) => Counted(w, n + k)
  <2>1. k \in Nat
    OBVIOUS
  <2>2. Doomed(r) => Doomed(w)
    BY <1>1, <1>4 DEF Doomed
  <2> HIDE DEF k
  <2>3. \A n \in Nat : n + Texts(r.body) = (n + k) + Texts(w.body)
    BY <1>7, <2>1
  <2> QED
    BY <1>4, <2>2, <2>3 DEF Counted
<1> QED
  BY <1>1, <1>2, <1>3, <1>4, <1>6, <1>8 DEF w, k

\* The connection is closed.
LEMMA ClosedOK ==
  ASSUME NEW r \in Bodies, BodyOK(r), NEW w \in Closed(r)
  PROVE  /\ w \in Bodies /\ BodyOK(w) /\ w.conn = "closed"
         /\ w.over = r.over /\ w.err = r.err /\ w.chunks = r.chunks
         /\ \A n \in Nat : Counted(r, n) => Counted(w, n)
<1>1. r.body \in Seq(LineKinds)
  BY DEF Bodies
<1>2. CASE w = [r EXCEPT !.conn = "closed"] /\ (r.over \/ r.ended = "eof")
  <2>1. /\ w.body = r.body /\ w.sent = r.sent /\ w.chunks = r.chunks
        /\ w.conn = "closed" /\ w.ended = r.ended
        /\ w.done = r.done /\ w.err = r.err /\ w.over = r.over /\ w.reports = r.reports
    BY <1>2 DEF Bodies
  <2>2. w \in Bodies
    BY <1>2 DEF Bodies
  <2>3. BodyOK(w)
    BY <1>2, <2>1 DEF BodyOK
  <2>4. \A n \in Nat : Counted(r, n) => Counted(w, n)
    BY <2>1 DEF Counted, Doomed
  <2> QED
    BY <2>1, <2>2, <2>3, <2>4
<1>3. ASSUME ~ r.over, NEW k \in 0 .. Len(r.body),
             w = [r EXCEPT !.conn = "closed", !.ended = "error", !.body = SubSeq(@, 1, k)]
      PROVE  /\ w \in Bodies /\ BodyOK(w) /\ w.conn = "closed"
             /\ w.over = r.over /\ w.err = r.err /\ w.chunks = r.chunks
             /\ \A n \in Nat : Counted(r, n) => Counted(w, n)
  <2> DEFINE b == SubSeq(r.body, 1, k)
  <2>1. /\ b \in Seq(LineKinds) /\ Len(b) = k /\ k \in Nat /\ Len(r.body) \in Nat
        /\ k <= Len(r.body) /\ \A i \in 1 .. k : b[i] = r.body[i]
        /\ k = Len(r.body) => b = r.body
    BY <1>1
  <2>2. /\ w.body = b /\ w.sent = r.sent /\ w.chunks = r.chunks
        /\ w.conn = "closed" /\ w.ended = "error"
        /\ w.done = r.done /\ w.err = r.err /\ w.over = r.over /\ w.reports = r.reports
    BY <1>3 DEF Bodies
  <2>3. w \in Bodies
    BY <1>3, <2>1 DEF Bodies
  <2> HIDE DEF b
  <2>4. \A i \in 1 .. k : b[i] = "done" => i = k /\ k = Len(r.body)
    BY <2>1 DEF BodyOK
  <2>5. BodyOK(w)
    BY <1>3, <2>1, <2>2, <2>4 DEF BodyOK
  <2>6. \A n \in Nat : Counted(r, n) => Counted(w, n)
    <3>1. CASE k = Len(r.body)
      BY <1>3, <2>1, <2>2, <3>1 DEF Counted, Doomed
    <3>2. CASE k # Len(r.body)
      <4>1. Doomed(w)
        BY <1>3, <2>1, <2>2, <2>4, <3>2 DEF Doomed
      <4>2. Texts(b) <= Texts(r.body)
        BY <1>1, TextsPrefix DEF b
      <4>3. Texts(b) \in Nat /\ Texts(r.body) \in Nat
        BY <1>1, <2>1, TextsType
      <4>4. r.chunks \in Nat
        BY DEF Bodies
      <4> QED
        BY <2>2, <4>1, <4>2, <4>3, <4>4 DEF Counted
    <3> QED
      BY <3>1, <3>2
  <2> QED
    BY <2>2, <2>3, <2>5, <2>6
<1> QED
  BY <1>2, <1>3 DEF Closed

\* Next returns false: without an error, all the text has been gathered.
LEMMA FinishedOK ==
  ASSUME stream \in [Streams -> Bodies], NEW s \in Streams, BodyOK(stream[s]), AtEnd(s)
  PROVE  LET r == stream[s]
             w == Finished(s)
         IN /\ w \in Bodies /\ BodyOK(w) /\ w.over /\ w.conn = r.conn /\ w.chunks = r.chunks
            /\ r.over => w = r
            /\ \A n \in Nat : Counted(r, n) => Counted(w, n) /\ (~ w.err => n = r.chunks)
<1> DEFINE r == stream[s]
           e == Ending(s)
           w == Finished(s)
<1>1. /\ r \in Bodies /\ BodyOK(r) /\ r.conn # "none"
      /\ Running(s) <=> ~ r.done /\ ~ r.err
  BY DEF AtEnd, Opened, Running, Waiting
<1>2. w = [e EXCEPT !.over = TRUE, !.reports = 1]
  BY DEF Finished
<1>3. /\ ~ Running(s) => e = r
      /\ Running(s) /\ r.body # <<>> =>
           /\ Head(r.body) \in {"done", "bad"}
           /\ e = [r EXCEPT !.body = <<>>, !.done = Head(r.body) = "done",
                            !.err = Head(r.body) = "bad"]
      /\ Running(s) /\ r.body = <<>> =>
           r.ended # "no" /\ e = [r EXCEPT !.err = r.ended = "error"]
  BY DEF AtEnd, Waiting, Ending, Running
<1> HIDE DEF r, e, w
<1>4. /\ r.body \in Seq(LineKinds) /\ r.chunks \in Nat /\ r.ended \in {"no", "eof", "error"}
      /\ r.done \in BOOLEAN /\ r.err \in BOOLEAN /\ r.over \in BOOLEAN
      /\ Texts(r.body) \in Nat /\ Texts(<<>>) = 0
  <2>1. /\ r.body \in Seq(LineKinds) /\ r.chunks \in 0 .. MaxLines
        /\ r.ended \in {"no", "eof", "error"}
        /\ r.done \in BOOLEAN /\ r.err \in BOOLEAN /\ r.over \in BOOLEAN
    BY <1>1 DEF Bodies
  <2>2. Texts(r.body) \in Nat /\ Texts(<<>>) = 0
    BY <2>1, TextsType
  <2> QED
    BY <2>1, <2>2
<1> DEFINE Goal == /\ w \in Bodies /\ BodyOK(w) /\ w.over /\ w.conn = r.conn
                   /\ w.chunks = r.chunks
                   /\ r.over => w = r
                   /\ \A n \in Nat : Counted(r, n) => Counted(w, n) /\ (~ w.err => n = r.chunks)
<1>5. CASE ~ Running(s)
  <2>1. e = r /\ (r.done \/ r.err) /\ r.over = TRUE /\ r.reports = 1
    BY <1>1, <1>3, <1>4, <1>5 DEF BodyOK
  <2>2. w = r
    BY <1>1, <1>2, <2>1 DEF Bodies
  <2>3. \A n \in Nat : Counted(r, n) => (~ r.err => n = r.chunks)
    BY <1>1, <1>4, <2>1 DEF Counted, BodyOK, Doomed
  <2>4. Goal
    BY <1>1, <2>1, <2>2, <2>3
  <2> QED
    BY <2>4 DEF r, w
<1>6. CASE Running(s) /\ r.body # <<>>
  <2>1. ~ r.done /\ ~ r.err /\ ~ r.over
    BY <1>1, <1>6 DEF BodyOK
  <2>2. PICK done \in BOOLEAN, err \in BOOLEAN :
          /\ done <=> Head(r.body) = "done"
          /\ err <=> Head(r.body) = "bad"
          /\ e = [r EXCEPT !.body = <<>>, !.done = done, !.err = err]
    <3>1. (Head(r.body) = "done") \in BOOLEAN /\ (Head(r.body) = "bad") \in BOOLEAN
      OBVIOUS
    <3> QED
      BY <1>3, <1>6, <3>1
  <2>3. w = [r EXCEPT !.body = <<>>, !.done = done, !.err = err, !.over = TRUE, !.reports = 1]
    BY <1>1, <1>2, <2>2 DEF Bodies
  <2>4. /\ w.body = <<>> /\ w.sent = r.sent /\ w.chunks = r.chunks /\ w.conn = r.conn
        /\ w.ended = r.ended /\ w.done = done /\ w.err = err
        /\ w.over = TRUE /\ w.reports = 1
    BY <1>1, <2>3 DEF Bodies
  <2>5. w \in Bodies
    <3>1. <<>> \in Seq(LineKinds)
      OBVIOUS
    <3> QED
      BY <1>1, <2>2, <2>3, <3>1 DEF Bodies
  <2>6. BodyOK(w)
    BY <1>1, <1>3, <1>6, <2>2, <2>4 DEF BodyOK
  <2>7. done => Texts(r.body) = 0
    <3> SUFFICES ASSUME Head(r.body) = "done" PROVE Texts(r.body) = 0
      BY <2>2
    <3>1. Len(r.body) \in Nat /\ Len(r.body) >= 1 /\ r.body[1] = "done"
      BY <1>4, <1>6
    <3>2. 1 \in 1 .. Len(r.body)
      BY <3>1
    <3>3. Len(r.body) = 1
      BY <1>1, <3>1, <3>2 DEF BodyOK
    <3>4. {i \in 1 .. Len(r.body) : r.body[i] = "text"} = {}
      BY <3>1, <3>3
    <3> QED
      BY <3>4, FS_EmptySet DEF Texts
  <2>8. ASSUME NEW n \in Nat, Counted(r, n) PROVE Counted(w, n) /\ (~ w.err => n = r.chunks)
    <3>1. /\ n + Texts(r.body) <= r.chunks
          /\ Doomed(r) \/ n + Texts(r.body) = r.chunks
      BY <2>1, <2>8 DEF Counted
    <3>2. done \/ err
      BY <1>3, <1>6, <2>2
    <3>3. done => ~ Doomed(r)
      <4>1. 1 \in 1 .. Len(r.body) /\ Head(r.body) = r.body[1]
        BY <1>4, <1>6
      <4> QED
        BY <2>2, <4>1 DEF Doomed
    <3> QED
      BY <1>4, <2>4, <2>7, <3>1, <3>2, <3>3 DEF Counted
  <2>9. Goal
    BY <2>1, <2>4, <2>5, <2>6, <2>8
  <2> QED
    BY <2>9 DEF r, w
<1>7. CASE Running(s) /\ r.body = <<>>
  <2>1. ~ r.done /\ ~ r.err /\ r.ended \in {"eof", "error"}
    BY <1>1, <1>3, <1>4, <1>7
  <2>2. PICK err \in BOOLEAN : (err <=> r.ended = "error") /\ e = [r EXCEPT !.err = err]
    <3>1. (r.ended = "error") \in BOOLEAN
      OBVIOUS
    <3> QED
      BY <1>3, <1>7, <3>1
  <2>3. w = [r EXCEPT !.err = err, !.over = TRUE, !.reports = 1]
    BY <1>1, <1>2, <2>2 DEF Bodies
  <2>4. /\ w.body = <<>> /\ w.sent = r.sent /\ w.chunks = r.chunks /\ w.conn = r.conn
        /\ w.ended = r.ended /\ w.done = r.done /\ w.err = err
        /\ w.over = TRUE /\ w.reports = 1
    BY <1>1, <1>7, <2>3 DEF Bodies
  <2>5. w \in Bodies
    BY <1>1, <2>2, <2>3 DEF Bodies
  <2>6. r.over => w = r
    <3> SUFFICES ASSUME r.over PROVE w = r
      OBVIOUS
    <3>1. r.ended = "eof" /\ r.reports = 1 /\ r.over = TRUE /\ r.err = FALSE /\ err = FALSE
      BY <1>1, <1>4, <2>1, <2>2 DEF BodyOK
    <3> QED
      BY <1>1, <2>3, <3>1 DEF Bodies
  <2>7. BodyOK(w)
    BY <1>1, <1>7, <2>1, <2>2, <2>4 DEF BodyOK
  <2>8. \A n \in Nat : Counted(r, n) => Counted(w, n) /\ (~ w.err => n = r.chunks)
    BY <1>4, <1>7, <2>1, <2>2, <2>4 DEF Counted, Doomed
  <2>9. Goal
    BY <2>4, <2>5, <2>6, <2>7, <2>8
  <2> QED
    BY <2>9 DEF r, w
<1> QED
  BY <1>5, <1>6, <1>7

----------------------------------------------------------------------------
(* The steps of a stream and its user.                                     *)

\* A step of one stream.
LEMMA ChangeOne ==
  ASSUME StreamsInv, NEW s \in Streams, NEW r \in Bodies, NEW p \in Replies, NEW g \in Gens,
         stream' = [stream EXCEPT ![s] = r], reply' = [reply EXCEPT ![s] = p],
         gen' = [gen EXCEPT ![s] = g], Sound(r, p, g)
  PROVE  /\ StreamsInv'
         /\ stream'[s] = r /\ reply'[s] = p /\ gen'[s] = g
         /\ \A z \in Streams : z # s =>
              stream'[z] = stream[z] /\ reply'[z] = reply[z] /\ gen'[z] = gen[z]
<1>1. /\ stream'[s] = r /\ reply'[s] = p /\ gen'[s] = g
      /\ \A z \in Streams : z # s =>
           stream'[z] = stream[z] /\ reply'[z] = reply[z] /\ gen'[z] = gen[z]
  BY DEF StreamsInv
<1>2. /\ stream' \in [Streams -> Bodies] /\ reply' \in [Streams -> Replies]
      /\ gen' \in [Streams -> Gens]
  BY DEF StreamsInv
<1>3. \A z \in Streams : Sound(stream'[z], reply'[z], gen'[z])
  BY <1>1 DEF StreamsInv
<1> QED
  BY <1>1, <1>2, <1>3 DEF StreamsInv

\* The history and the streams opened stay, and what has ended has ended.
Progress ==
  /\ UNCHANGED <<overlap, messages, turn>>
  /\ \A z \in Streams :
       /\ reply'[z].pending = reply[z].pending
       /\ stream'[z].conn = "open" /\ ~ stream'[z].over =>
            (stream[z].conn = "open" /\ ~ stream[z].over) \/ reply[z].pending = <<>>
       /\ stream[z].over /\ ~ stream[z].err =>
            stream'[z].over /\ ~ stream'[z].err /\ stream'[z].chunks = stream[z].chunks

\* The same, for the one stream that changes.
LEMMA ProgressOne ==
  ASSUME StreamsInv, NEW s \in Streams, NEW r \in Bodies, NEW p \in Replies, NEW g \in Gens,
         stream' = [stream EXCEPT ![s] = r], reply' = [reply EXCEPT ![s] = p],
         gen' = [gen EXCEPT ![s] = g], Sound(r, p, g), UNCHANGED <<overlap, messages, turn>>,
         p.pending = reply[s].pending,
         r.conn = "open" /\ ~ r.over =>
           (stream[s].conn = "open" /\ ~ stream[s].over) \/ reply[s].pending = <<>>,
         stream[s].over /\ ~ stream[s].err => r.over /\ ~ r.err /\ r.chunks = stream[s].chunks
  PROVE  StreamsInv' /\ Progress
<1>1. /\ StreamsInv /\ Sound(r, p, g) /\ stream' = [stream EXCEPT ![s] = r]
      /\ reply' = [reply EXCEPT ![s] = p] /\ gen' = [gen EXCEPT ![s] = g]
  OBVIOUS
<1>2. StreamsInv'
  BY ONLY <1>1, ChangeOne
<1>3. /\ stream'[s] = r /\ reply'[s] = p
      /\ \A z \in Streams : z # s => stream'[z] = stream[z] /\ reply'[z] = reply[z]
  BY <1>1 DEF StreamsInv
<1> QED
  BY <1>2, <1>3 DEF Progress

\* Nothing about a stream changes.
LEMMA SameOne ==
  ASSUME StreamsInv, NEW s \in Streams
  PROVE  /\ stream[s] \in Bodies /\ reply[s] \in Replies /\ gen[s] \in Gens
         /\ Sound(stream[s], reply[s], gen[s]) /\ BodyOK(stream[s])
         /\ stream = [stream EXCEPT ![s] = stream[s]]
         /\ reply = [reply EXCEPT ![s] = reply[s]] /\ gen = [gen EXCEPT ![s] = gen[s]]
         /\ reply[s].text \in 0 .. MaxLines /\ gen[s].full \in 0 .. MaxLines
         /\ gen[s].told \in 0 .. MaxLines
BY DEF StreamsInv, Sound, Replies, Gens

LEMMA ServerSteps ==
  ASSUME StreamsInv, NEW s \in Streams, ServerStep(s), UNCHANGED <<convVars, gen>>
  PROVE  StreamsInv' /\ Progress
<1> DEFINE r == stream[s]
<1>1. /\ r \in Bodies /\ reply[s] \in Replies /\ gen[s] \in Gens
      /\ Sound(r, reply[s], gen[s]) /\ BodyOK(r)
      /\ reply' = [reply EXCEPT ![s] = reply[s]] /\ gen' = [gen EXCEPT ![s] = gen[s]]
      /\ reply[s].text \in Nat /\ gen[s].full \in Nat
      /\ UNCHANGED <<overlap, messages, turn>>
  BY SameOne DEF convVars
<1>2. ASSUME NEW w \in Bodies, stream' = [stream EXCEPT ![s] = w], BodyOK(w),
             r.conn # "none", w.conn = r.conn, w.over = r.over, w.err = r.err, ~ r.over,
             \A n \in Nat : Counted(r, n) => Counted(w, n)
      PROVE  StreamsInv' /\ Progress
  <2>1. Sound(w, reply[s], gen[s])
    <3> HIDE DEF r
    <3> QED
      BY <1>1, <1>2 DEF Sound
  <2> QED
    BY <1>1, <1>2, <2>1, ProgressOne
<1>3. ASSUME NEW line \in LineKinds, ServerWrites(s, line) PROVE StreamsInv' /\ Progress
  <2> DEFINE w == Written(r, line)
  <2>1. /\ r.conn # "none" /\ ~ r.over /\ r.ended = "no" /\ r.sent < MaxLines
        /\ r.body # <<>> => Last(r.body) # "done"
        /\ stream' = [stream EXCEPT ![s] = w]
    BY <1>3 DEF ServerWrites, Opened, Written, StreamsInv
  <2>2. w.conn = r.conn /\ w.over = r.over /\ w.err = r.err
    BY <1>1 DEF Written, Bodies
  <2>3. w \in Bodies /\ BodyOK(w) /\ \A n \in Nat : Counted(r, n) => Counted(w, n)
    BY <1>1, <2>1, WrittenOK
  <2> HIDE DEF w, r
  <2> QED
    BY <1>2, <2>1, <2>2, <2>3
<1>4. ASSUME NEW how \in {"eof", "error"}, ServerEnds(s, how) PROVE StreamsInv' /\ Progress
  <2> DEFINE w == [r EXCEPT !.ended = how]
  <2>1. /\ r.conn # "none" /\ ~ r.over /\ r.ended = "no"
        /\ stream' = [stream EXCEPT ![s] = w]
    BY <1>4 DEF ServerEnds, Opened, StreamsInv
  <2>2. w.conn = r.conn /\ w.over = r.over /\ w.err = r.err
    BY <1>1 DEF Bodies
  <2>3. w \in Bodies /\ BodyOK(w) /\ \A n \in Nat : Counted(r, n) => Counted(w, n)
    BY <1>1, <2>1, EndedOK
  <2> HIDE DEF w, r
  <2> QED
    BY <1>2, <2>1, <2>2, <2>3
<1> QED
  BY <1>3, <1>4 DEF ServerStep

\* A line taken by whom the stream belongs to.
LEMMA Takes ==
  ASSUME StreamsInv, NEW s \in Streams, NEW kind \in {"other", "text"}, Waiting(s, {kind}),
         stream' = [stream EXCEPT ![s].body = Tail(@)]
  PROVE  \E w \in Bodies :
           /\ stream' = [stream EXCEPT ![s] = w]
           /\ BodyOK(w) /\ stream[s].conn # "none" /\ ~ stream[s].over /\ ~ w.over
           /\ w.conn = stream[s].conn /\ w.chunks = stream[s].chunks
           /\ stream[s].chunks \in 0 .. MaxLines
           /\ \A n \in Nat : Counted(stream[s], n) =>
                Counted(w, n + (IF kind = "text" THEN 1 ELSE 0))
<1> DEFINE r == stream[s]
           w == [r EXCEPT !.body = Tail(@)]
<1>1. /\ r \in Bodies /\ BodyOK(r) /\ ~ r.done /\ ~ r.err /\ r.body # <<>> /\ Head(r.body) = kind
      /\ r.conn # "none" /\ stream' = [stream EXCEPT ![s] = w]
  BY SameOne DEF Waiting, Running, Opened, StreamsInv
<1>2. /\ w \in Bodies /\ BodyOK(w) /\ ~ r.over /\ ~ w.over
      /\ w.conn = r.conn /\ w.chunks = r.chunks /\ r.chunks \in 0 .. MaxLines
      /\ \A n \in Nat : Counted(r, n) => Counted(w, n + (IF kind = "text" THEN 1 ELSE 0))
  <2> HIDE DEF r
  <2> QED
    BY <1>1, TakenOK
<1> HIDE DEF r, w
<1>3. /\ stream' = [stream EXCEPT ![s] = w]
      /\ BodyOK(w) /\ r.conn # "none" /\ ~ r.over /\ ~ w.over
      /\ w.conn = r.conn /\ w.chunks = r.chunks
      /\ r.chunks \in 0 .. MaxLines /\ w \in Bodies
      /\ \A n \in Nat : Counted(r, n) => Counted(w, n + (IF kind = "text" THEN 1 ELSE 0))
  BY <1>1, <1>2
<1> QED
  BY <1>3 DEF r

LEMMA NextSkipsKeeps ==
  ASSUME StreamsInv, NEW s \in Streams, NextSkips(s), UNCHANGED gen
  PROVE  StreamsInv' /\ Progress
<1>1. /\ Mine(s) /\ Waiting(s, {"other"}) /\ stream' = [stream EXCEPT ![s].body = Tail(@)]
      /\ UNCHANGED <<overlap, messages, turn, reply>>
  BY DEF NextSkips, MayRead, Skip, convVars
<1> DEFINE r == stream[s]
<1>2. PICK w \in Bodies :
        /\ stream' = [stream EXCEPT ![s] = w]
        /\ BodyOK(w) /\ r.conn # "none" /\ ~ r.over /\ ~ w.over
        /\ w.conn = r.conn /\ w.chunks = r.chunks
        /\ \A n \in Nat : Counted(r, n) => Counted(w, n + 0)
  BY <1>1, Takes
<1>3. /\ r \in Bodies /\ reply[s] \in Replies /\ gen[s] \in Gens
      /\ Sound(r, reply[s], gen[s]) /\ reply[s].pending # <<>>
      /\ reply' = [reply EXCEPT ![s] = reply[s]] /\ gen' = [gen EXCEPT ![s] = gen[s]]
      /\ reply[s].text \in Nat
  BY <1>1, SameOne DEF Mine
<1>4. Sound(w, reply[s], gen[s])
  <2> HIDE DEF r
  <2>1. Counted(r, reply[s].text) => Counted(w, reply[s].text)
    <3>1. reply[s].text + 0 = reply[s].text
      BY <1>3
    <3> QED
      BY <1>2, <1>3, <3>1
  <2>2. ~ r.err /\ ~ reply[s].done
    <3>1. ~ r.err
      BY <1>3, <1>2 DEF Sound, BodyOK
    <3> QED
      BY <1>2, <1>3, <3>1 DEF Sound
  <2> QED
    BY <1>2, <1>3, <2>1, <2>2 DEF Sound
<1> QED
  BY <1>1, <1>2, <1>3, <1>4, ProgressOne

LEMMA NextChunkKeeps ==
  ASSUME StreamsInv, NEW s \in Streams, NextChunk(s), UNCHANGED gen
  PROVE  StreamsInv' /\ Progress
<1> DEFINE r == stream[s]
           p == [reply[s] EXCEPT !.text = @ + 1]
<1>1. /\ Mine(s) /\ Waiting(s, {"text"}) /\ stream' = [stream EXCEPT ![s].body = Tail(@)]
      /\ reply' = [reply EXCEPT ![s] = p] /\ UNCHANGED <<overlap, messages, turn>>
  BY DEF NextChunk, MayRead, Chunk, StreamsInv
<1>2. PICK w \in Bodies :
        /\ stream' = [stream EXCEPT ![s] = w]
        /\ BodyOK(w) /\ r.conn # "none" /\ ~ r.over /\ ~ w.over
        /\ w.conn = r.conn /\ w.chunks = r.chunks /\ r.chunks \in 0 .. MaxLines
        /\ \A n \in Nat : Counted(r, n) => Counted(w, n + 1)
  BY <1>1, Takes
<1>3. /\ r \in Bodies /\ reply[s] \in Replies /\ gen[s] \in Gens
      /\ Sound(r, reply[s], gen[s]) /\ reply[s].pending # <<>>
      /\ gen' = [gen EXCEPT ![s] = gen[s]]
      /\ reply[s].text \in Nat
  BY <1>1, SameOne DEF Mine
<1>4. /\ p.pending = reply[s].pending /\ p.text = reply[s].text + 1 /\ p.done = reply[s].done
  BY <1>3 DEF Replies
<1>5. Counted(w, reply[s].text + 1)
  BY <1>2, <1>3 DEF Sound
<1>6. p \in Replies
  <2>1. reply[s].text + 1 \in 0 .. MaxLines
    BY <1>3, <1>5, CountedBound
  <2> QED
    BY <1>3, <2>1 DEF Replies
<1> HIDE DEF r, p
<1>7. Sound(w, p, gen[s])
  <2>1. ~ r.err /\ ~ reply[s].done
    BY <1>2, <1>3 DEF Sound, BodyOK
  <2> QED
    BY <1>2, <1>3, <1>4, <1>5, <2>1 DEF Sound
<1> QED
  BY <1>1, <1>2, <1>3, <1>4, <1>6, <1>7, ProgressOne DEF r

LEMMA CloseKeeps ==
  ASSUME StreamsInv, NEW s \in Streams, Close(s), UNCHANGED gen
  PROVE  StreamsInv' /\ Progress
<1> DEFINE r == stream[s]
<1>1. /\ Mine(s) /\ r.conn = "open" /\ UNCHANGED <<overlap, messages, turn, reply>>
  BY DEF Close, convVars
<1>2. PICK w \in Closed(r) : stream' = [stream EXCEPT ![s] = w]
  BY DEF Close, CloseStream
<1>3. /\ r \in Bodies /\ reply[s] \in Replies /\ gen[s] \in Gens
      /\ Sound(r, reply[s], gen[s]) /\ BodyOK(r) /\ reply[s].pending # <<>>
      /\ reply' = [reply EXCEPT ![s] = reply[s]] /\ gen' = [gen EXCEPT ![s] = gen[s]]
      /\ reply[s].text \in Nat
  BY <1>1, SameOne DEF Mine
<1>4. /\ w \in Bodies /\ BodyOK(w) /\ w.conn = "closed"
      /\ w.over = r.over /\ w.err = r.err /\ w.chunks = r.chunks
      /\ \A n \in Nat : Counted(r, n) => Counted(w, n)
  BY <1>3, ClosedOK
<1> HIDE DEF r
<1>5. Sound(w, reply[s], gen[s])
  BY <1>1, <1>3, <1>4 DEF Sound
<1> QED
  BY <1>1, <1>2, <1>3, <1>4, <1>5, ProgressOne DEF r

\* Next returns false: what the stream of a conversation becomes.
LEMMA NextFalseEnds ==
  ASSUME StreamsInv, NEW s \in Streams, NextFalse(s)
  PROVE  LET r == stream[s]
             w == Finished(s)
         IN /\ w \in Bodies /\ BodyOK(w) /\ w.over /\ w.conn = r.conn /\ w.chunks = r.chunks
            /\ r.over => w = r
            /\ Counted(w, reply[s].text) /\ (~ w.err => reply[s].text = r.chunks)
            /\ reply[s] \in Replies /\ gen[s] \in Gens /\ r.conn # "none"
            /\ reply[s].pending # <<>> /\ gen[s].pc = "idle" /\ Sound(r, reply[s], gen[s])
            /\ stream' = [stream EXCEPT ![s] = w] /\ stream'[s] = w
            /\ r.over /\ ~ r.err <=> reply[s].done
<1> DEFINE r == stream[s]
           w == Finished(s)
<1>1. /\ Mine(s) /\ AtEnd(s) /\ stream' = [stream EXCEPT ![s] = w]
  BY DEF NextFalse, MayRead, Finish
<1>2. /\ stream \in [Streams -> Bodies] /\ r \in Bodies /\ reply[s] \in Replies /\ gen[s] \in Gens
      /\ Sound(r, reply[s], gen[s]) /\ BodyOK(r) /\ reply[s].pending # <<>>
      /\ reply[s].text \in Nat
  BY <1>1, SameOne DEF Mine, StreamsInv
<1>3. /\ w \in Bodies /\ BodyOK(w) /\ w.over /\ w.conn = r.conn /\ w.chunks = r.chunks
      /\ r.over => w = r
      /\ \A n \in Nat : Counted(r, n) => Counted(w, n) /\ (~ w.err => n = r.chunks)
  BY <1>1, <1>2, FinishedOK
<1>4. stream'[s] = w
  BY <1>1, <1>2
<1> HIDE DEF r, w
<1>5. /\ r.conn # "none" /\ gen[s].pc = "idle" /\ Counted(r, reply[s].text)
      /\ (r.over /\ ~ r.err <=> reply[s].done)
  BY <1>2 DEF Sound
<1>6. Counted(w, reply[s].text) /\ (~ w.err => reply[s].text = r.chunks)
  BY <1>2, <1>3, <1>5
<1> QED
  BY <1>1, <1>2, <1>3, <1>4, <1>5, <1>6 DEF r, w

LEMMA NextFalseKeeps ==
  ASSUME StreamsInv, NEW s \in Streams, NextFalse(s), UNCHANGED gen,
         stream'[s].err \/ reply[s].done
  PROVE  StreamsInv' /\ Progress
<1> DEFINE r == stream[s]
           w == Finished(s)
<1>1. /\ w \in Bodies /\ BodyOK(w) /\ w.over /\ w.conn = r.conn /\ w.chunks = r.chunks
      /\ r.over => w = r
      /\ Counted(w, reply[s].text)
      /\ reply[s] \in Replies /\ gen[s] \in Gens /\ r.conn # "none"
      /\ reply[s].pending # <<>> /\ gen[s].pc = "idle" /\ Sound(r, reply[s], gen[s])
      /\ stream' = [stream EXCEPT ![s] = w] /\ stream'[s] = w
      /\ r.over /\ ~ r.err <=> reply[s].done
  BY NextFalseEnds
<1>2. UNCHANGED <<overlap, messages, turn, reply>>
  BY DEF NextFalse
<1>3. /\ reply' = [reply EXCEPT ![s] = reply[s]] /\ gen' = [gen EXCEPT ![s] = gen[s]]
  BY <1>2 DEF StreamsInv
<1> HIDE DEF r, w
<1>4. reply[s].done <=> w.over /\ ~ w.err
  BY <1>1
<1>5. Sound(w, reply[s], gen[s])
  BY <1>1, <1>4 DEF Sound
<1> QED
  BY <1>1, <1>2, <1>3, <1>4, <1>5, ProgressOne DEF r

\* The reply is committed.
LEMMA CommitEnds ==
  ASSUME StreamsInv, NEW s \in Streams, NextFalse(s), UNCHANGED gen,
         ~ (stream'[s].err \/ reply[s].done)
  PROVE  /\ StreamsInv' /\ UNCHANGED <<overlap, turn>>
         /\ Mine(s) /\ ~ stream[s].over
         /\ stream'[s].over /\ ~ stream'[s].err /\ stream'[s].chunks = reply[s].text
         /\ \A z \in Streams : reply'[z].pending = reply[z].pending
         /\ \A z \in Streams : z # s => stream'[z] = stream[z]
         /\ messages' = Append(reply[s].pending, Message("assistant", TurnOf(s), reply[s].text))
<1> DEFINE r == stream[s]
           w == Finished(s)
           p == [reply[s] EXCEPT !.done = TRUE]
<1>1. /\ w \in Bodies /\ BodyOK(w) /\ w.over /\ w.conn = r.conn /\ w.chunks = r.chunks
      /\ r.over => w = r
      /\ Counted(w, reply[s].text) /\ (~ w.err => reply[s].text = r.chunks)
      /\ reply[s] \in Replies /\ gen[s] \in Gens /\ r.conn # "none"
      /\ reply[s].pending # <<>> /\ gen[s].pc = "idle" /\ Sound(r, reply[s], gen[s])
      /\ stream' = [stream EXCEPT ![s] = w] /\ stream'[s] = w
      /\ r.over /\ ~ r.err <=> reply[s].done
  BY NextFalseEnds
<1>2. /\ UNCHANGED <<overlap, turn>> /\ reply' = [reply EXCEPT ![s] = p]
      /\ messages' = Append(reply[s].pending, Message("assistant", TurnOf(s), reply[s].text))
  BY DEF NextFalse, Commit, StreamsInv
<1>3. gen' = [gen EXCEPT ![s] = gen[s]]
  BY DEF StreamsInv
<1>4. p \in Replies /\ p.pending = reply[s].pending /\ p.text = reply[s].text /\ p.done = TRUE
  BY <1>1 DEF Replies
<1> HIDE DEF r, w, p
<1>5. ~ w.err /\ ~ r.over
  BY <1>1
<1>6. Sound(w, p, gen[s])
  BY <1>1, <1>4, <1>5 DEF Sound
<1>7. StreamsInv
  OBVIOUS
<1>8. StreamsInv'
  BY ONLY <1>1, <1>2, <1>3, <1>4, <1>6, <1>7, ChangeOne
<1>9. /\ stream'[s] = w /\ reply'[s] = p
      /\ \A z \in Streams : z # s => stream'[z] = stream[z] /\ reply'[z] = reply[z]
  BY <1>1, <1>2 DEF StreamsInv
<1> QED
  BY <1>1, <1>2, <1>4, <1>5, <1>8, <1>9 DEF Mine, r

----------------------------------------------------------------------------
(* The steps of the adapter, and a stream that is opened.                  *)

LEMMA OpenedOK ==
  ASSUME StreamsInv, NEW s \in Streams, OpenStream(s)
  PROVE  /\ \E w \in Bodies :
              /\ stream' = [stream EXCEPT ![s] = w]
              /\ BodyOK(w) /\ Counted(w, 0) /\ w.conn = "open" /\ ~ w.over
         /\ stream[s] = Unopened /\ ~ Mine(s) /\ reply[s].text = 0 /\ ~ reply[s].done
<1> DEFINE w == [Unopened EXCEPT !.conn = "open"]
<1>1. stream[s].conn = "none" /\ stream' = [stream EXCEPT ![s].conn = "open"]
  BY DEF OpenStream, Opened
<1>2. /\ stream[s] = Unopened /\ ~ Mine(s) /\ reply[s].text = 0 /\ ~ reply[s].done
  BY <1>1, SameOne DEF Sound, Mine
<1>3. stream' = [stream EXCEPT ![s] = w]
  BY <1>1, <1>2 DEF StreamsInv
<1>4. /\ w.conn = "open" /\ w.body = <<>> /\ w.ended = "no" /\ w.sent = 0 /\ w.chunks = 0
      /\ w.done = FALSE /\ w.err = FALSE /\ w.over = FALSE /\ w.reports = 0
  BY DEF Unopened
<1>5. w \in Bodies
  <2>1. <<>> \in Seq(LineKinds) /\ 0 \in 0 .. MaxLines
    BY LinesAssumption
  <2> QED
    BY <2>1 DEF Unopened, Bodies
<1> HIDE DEF w
<1>6. Texts(<<>>) = 0
  <2>1. <<>> \in Seq(LineKinds)
    OBVIOUS
  <2> QED
    BY <2>1, TextsType
<1>7. BodyOK(w) /\ Counted(w, 0)
  BY <1>4, <1>6 DEF BodyOK, Counted
<1> QED
  BY <1>2, <1>3, <1>4, <1>5, <1>7

\* A call that opens no stream returns.
LEMMA GenReturnsAtOnce ==
  ASSUME StreamsInv, NEW s \in Streams, gen[s].pc = "idle", ~ Opened(s),
         NEW pc \in {"text", "error"}, gen' = [gen EXCEPT ![s].pc = pc],
         UNCHANGED <<stream, convVars>>
  PROVE  StreamsInv' /\ Progress
<1> DEFINE g == [gen[s] EXCEPT !.pc = pc]
<1>1. /\ stream[s] \in Bodies /\ reply[s] \in Replies /\ gen[s] \in Gens
      /\ Sound(stream[s], reply[s], gen[s])
      /\ stream = [stream EXCEPT ![s] = stream[s]] /\ reply = [reply EXCEPT ![s] = reply[s]]
  BY SameOne
<1>2. g \in Gens /\ g.pc = pc /\ g.full = gen[s].full /\ g.told = gen[s].told
      /\ gen' = [gen EXCEPT ![s] = g]
  BY <1>1 DEF Gens, StreamsInv
<1> HIDE DEF g
<1>3. Sound(stream[s], reply[s], g)
  BY <1>1, <1>2 DEF Sound, Opened
<1>4. /\ stream' = [stream EXCEPT ![s] = stream[s]] /\ reply' = [reply EXCEPT ![s] = reply[s]]
      /\ UNCHANGED <<overlap, messages, turn>>
  BY <1>1 DEF convVars
<1> QED
  BY <1>1, <1>2, <1>3, <1>4, ProgressOne

LEMMA GenOpens ==
  ASSUME StreamsInv, NEW s \in Streams, gen[s].pc = "idle", OpenStream(s),
         gen' = [gen EXCEPT ![s].pc = "reading"], UNCHANGED convVars
  PROVE  StreamsInv' /\ Progress
<1> DEFINE g == [gen[s] EXCEPT !.pc = "reading"]
<1>1. PICK w \in Bodies :
        /\ stream' = [stream EXCEPT ![s] = w]
        /\ BodyOK(w) /\ Counted(w, 0) /\ w.conn = "open" /\ ~ w.over
  BY OpenedOK
<1>2. /\ stream[s] = Unopened /\ reply[s].pending = <<>> /\ reply[s].text = 0 /\ ~ reply[s].done
  BY OpenedOK DEF Mine
<1>3. /\ reply[s] \in Replies /\ gen[s] \in Gens /\ Sound(stream[s], reply[s], gen[s])
      /\ reply' = [reply EXCEPT ![s] = reply[s]] /\ UNCHANGED <<overlap, messages, turn>>
  BY SameOne DEF convVars
<1>4. g \in Gens /\ g.pc = "reading" /\ g.full = gen[s].full /\ g.told = gen[s].told
      /\ gen' = [gen EXCEPT ![s] = g]
  BY <1>3 DEF Gens, StreamsInv
<1> HIDE DEF g
<1>5. Sound(w, reply[s], g)
  BY <1>1, <1>2, <1>3, <1>4 DEF Sound
<1>6. stream[s].over = FALSE
  BY <1>2 DEF Unopened
<1> QED
  BY <1>1, <1>2, <1>3, <1>4, <1>5, <1>6, ProgressOne

LEMMA GenSkipsKeeps ==
  ASSUME StreamsInv, NEW s \in Streams, ~ Mine(s), GenSkips(s), UNCHANGED convVars
  PROVE  StreamsInv' /\ Progress
<1> DEFINE r == stream[s]
<1>1. /\ gen[s].pc = "reading" /\ Waiting(s, {"other"})
      /\ stream' = [stream EXCEPT ![s].body = Tail(@)]
      /\ UNCHANGED <<overlap, messages, turn, reply, gen>>
  BY DEF GenSkips, Skip, convVars
<1>2. PICK w \in Bodies :
        /\ stream' = [stream EXCEPT ![s] = w]
        /\ BodyOK(w) /\ r.conn # "none" /\ ~ r.over /\ ~ w.over
        /\ w.conn = r.conn /\ w.chunks = r.chunks
        /\ \A n \in Nat : Counted(r, n) => Counted(w, n + 0)
  BY <1>1, Takes
<1>3. /\ reply[s] \in Replies /\ gen[s] \in Gens
      /\ Sound(r, reply[s], gen[s]) /\ reply[s].pending = <<>>
      /\ reply' = [reply EXCEPT ![s] = reply[s]] /\ gen' = [gen EXCEPT ![s] = gen[s]]
      /\ gen[s].full \in Nat
  BY <1>1, SameOne DEF Mine
<1> HIDE DEF r
<1>4. Counted(w, gen[s].full)
  <2>1. gen[s].full + 0 = gen[s].full /\ Counted(r, gen[s].full)
    BY <1>1, <1>3 DEF Sound
  <2> QED
    BY <1>2, <1>3, <2>1
<1>5. Sound(w, reply[s], gen[s])
  BY <1>1, <1>2, <1>3, <1>4 DEF Sound
<1> QED
  BY <1>1, <1>2, <1>3, <1>5, ProgressOne DEF r

\* The chunk that is next has room in what a call gathers.
LEMMA GatherRoom ==
  ASSUME StreamsInv, NEW s \in Streams, gen[s].pc = "reading", Waiting(s, {"text"})
  PROVE  gen[s].full + 1 \in 0 .. MaxLines
<1> DEFINE r == stream[s]
           w == [r EXCEPT !.body = Tail(@)]
<1>1. /\ r \in Bodies /\ BodyOK(r) /\ ~ r.done /\ ~ r.err /\ r.body # <<>> /\ Head(r.body) = "text"
      /\ gen[s].full \in Nat /\ Sound(r, reply[s], gen[s])
  BY SameOne DEF Waiting, Running
<1>2. Counted(r, gen[s].full)
  BY <1>1 DEF Sound
<1> HIDE DEF r
<1>3. w \in Bodies /\ \A n \in Nat : Counted(r, n) => Counted(w, n + 1)
  BY <1>1, TakenOK
<1> HIDE DEF w
<1> QED
  BY <1>1, <1>2, <1>3, CountedBound

LEMMA GatherKeeps ==
  ASSUME StreamsInv, NEW s \in Streams, ~ Mine(s), Gather(s), UNCHANGED convVars
  PROVE  StreamsInv' /\ Progress
<1> DEFINE r == stream[s]
           g == [gen[s] EXCEPT !.full = @ + 1, !.told = @ + 1]
<1>1. /\ gen[s].pc = "reading" /\ Waiting(s, {"text"})
      /\ stream' = [stream EXCEPT ![s].body = Tail(@)] /\ gen' = [gen EXCEPT ![s] = g]
      /\ UNCHANGED <<overlap, messages, turn, reply>>
  BY DEF Gather, Chunk, convVars, StreamsInv
<1>2. PICK w \in Bodies :
        /\ stream' = [stream EXCEPT ![s] = w]
        /\ BodyOK(w) /\ r.conn # "none" /\ ~ r.over /\ ~ w.over
        /\ w.conn = r.conn /\ w.chunks = r.chunks
        /\ \A n \in Nat : Counted(r, n) => Counted(w, n + 1)
  BY <1>1, Takes
<1>3. /\ reply[s] \in Replies /\ gen[s] \in Gens
      /\ Sound(r, reply[s], gen[s]) /\ reply[s].pending = <<>>
      /\ reply' = [reply EXCEPT ![s] = reply[s]]
      /\ gen[s].full \in Nat /\ gen[s].full + 1 \in 0 .. MaxLines /\ gen[s].told = gen[s].full
  BY <1>1, SameOne, GatherRoom DEF Mine, Sound
<1>4. g \in Gens /\ g.pc = "reading" /\ g.full = gen[s].full + 1 /\ g.told = gen[s].full + 1
  BY <1>1, <1>3 DEF Gens
<1> HIDE DEF r, g
<1>5. Counted(w, gen[s].full + 1)
  BY <1>1, <1>2, <1>3 DEF Sound
<1>6. Sound(w, reply[s], g)
  BY <1>1, <1>2, <1>3, <1>4, <1>5 DEF Sound
<1> QED
  BY <1>1, <1>2, <1>3, <1>4, <1>6, ProgressOne DEF r

LEMMA GatherFailsKeeps ==
  ASSUME StreamsInv, NEW s \in Streams, ~ Mine(s), GatherFails(s), UNCHANGED convVars
  PROVE  StreamsInv' /\ Progress
<1> DEFINE r == stream[s]
           g == [gen[s] EXCEPT !.full = @ + 1, !.told = @ + 1, !.pc = "error"]
<1>1. /\ gen[s].pc = "reading" /\ Waiting(s, {"text"}) /\ gen' = [gen EXCEPT ![s] = g]
      /\ UNCHANGED <<overlap, messages, turn, reply>>
  BY DEF GatherFails, GatherFailsWith, convVars, StreamsInv
<1>2. PICK w \in Closed(r) : stream' = [stream EXCEPT ![s] = w]
  BY DEF GatherFails, GatherFailsWith
<1>3. /\ r \in Bodies /\ BodyOK(r) /\ reply[s] \in Replies /\ gen[s] \in Gens
      /\ Sound(r, reply[s], gen[s]) /\ reply[s].pending = <<>>
      /\ reply' = [reply EXCEPT ![s] = reply[s]]
      /\ gen[s].full + 1 \in 0 .. MaxLines /\ gen[s].told = gen[s].full
  BY <1>1, SameOne, GatherRoom DEF Mine, Sound
<1>4. g \in Gens /\ g.pc = "error" /\ g.full = gen[s].full + 1 /\ g.told = gen[s].full + 1
  BY <1>1, <1>3 DEF Gens
<1>5. /\ w \in Bodies /\ BodyOK(w) /\ w.conn = "closed"
      /\ w.over = r.over /\ w.err = r.err /\ w.chunks = r.chunks
  BY <1>3, ClosedOK
<1> HIDE DEF r, g
<1>6. Sound(w, reply[s], g)
  BY <1>1, <1>3, <1>4, <1>5 DEF Sound
<1> QED
  BY <1>1, <1>2, <1>3, <1>4, <1>5, <1>6, ProgressOne DEF r

LEMMA GenReturnsKeeps ==
  ASSUME StreamsInv, NEW s \in Streams, ~ Mine(s), GenReturns(s), UNCHANGED convVars
  PROVE  StreamsInv' /\ Progress
<1> DEFINE r == stream[s]
           f == Finished(s)
<1>1. /\ gen[s].pc = "reading" /\ AtEnd(s) /\ UNCHANGED <<overlap, messages, turn, reply>>
  BY DEF GenReturns, convVars
<1>2. PICK w \in Closed(f) :
        /\ stream' = [stream EXCEPT ![s] = w]
        /\ gen' = [gen EXCEPT ![s].pc = IF w.err THEN "error" ELSE "text"]
  BY DEF GenReturns
<1>3. /\ stream \in [Streams -> Bodies] /\ BodyOK(r) /\ reply[s] \in Replies /\ gen[s] \in Gens
      /\ Sound(r, reply[s], gen[s]) /\ reply[s].pending = <<>>
      /\ reply' = [reply EXCEPT ![s] = reply[s]] /\ gen[s].full \in Nat
  BY <1>1, SameOne DEF Mine, StreamsInv
<1>4. /\ ~ r.over /\ Counted(r, gen[s].full) /\ gen[s].told = gen[s].full
  BY <1>1, <1>3 DEF Sound
<1>5. /\ f \in Bodies /\ BodyOK(f) /\ f.over /\ f.chunks = r.chunks
      /\ \A n \in Nat : Counted(r, n) => (~ f.err => n = r.chunks)
  BY <1>1, <1>3, FinishedOK
<1> DEFINE g == [gen[s] EXCEPT !.pc = IF w.err THEN "error" ELSE "text"]
<1>6. /\ g \in Gens /\ g.pc = (IF w.err THEN "error" ELSE "text")
      /\ g.full = gen[s].full /\ g.told = gen[s].told /\ gen' = [gen EXCEPT ![s] = g]
  BY <1>2, <1>3 DEF Gens, StreamsInv
<1> HIDE DEF r, f, g
<1>7. /\ w \in Bodies /\ BodyOK(w) /\ w.conn = "closed"
      /\ w.over = f.over /\ w.err = f.err /\ w.chunks = f.chunks
  BY <1>2, <1>5, ClosedOK
<1>8. ~ w.err => gen[s].full = w.chunks
  BY <1>3, <1>4, <1>5, <1>7
<1>9. Sound(w, reply[s], g)
  BY <1>1, <1>3, <1>4, <1>5, <1>6, <1>7, <1>8 DEF Sound
<1> QED
  BY <1>1, <1>2, <1>3, <1>4, <1>6, <1>7, <1>9, ProgressOne DEF r

\* A call of the adapter.
LEMMA GenSteps ==
  ASSUME StreamsInv, NEW s \in Streams, ~ Mine(s), GenStep(s), UNCHANGED convVars
  PROVE  StreamsInv' /\ Progress
<1>1. ASSUME NEW converted \in Conversions, NEW opened \in StreamResults,
             GenerateStream(s, converted, opened)
      PROVE  StreamsInv' /\ Progress
  <2>1. gen[s].pc = "idle" /\ ~ Opened(s)
    BY <1>1 DEF GenerateStream
  <2>2. CASE converted /\ opened
    <3>1. OpenStream(s) /\ gen' = [gen EXCEPT ![s].pc = "reading"]
      BY <1>1, <2>2 DEF GenerateStream
    <3> QED
      BY <2>1, <3>1, GenOpens
  <2>3. CASE ~ (converted /\ opened)
    <3>1. UNCHANGED stream /\ gen' = [gen EXCEPT ![s].pc = "error"]
      BY <1>1, <2>3 DEF GenerateStream
    <3> QED
      BY <2>1, <3>1, GenReturnsAtOnce
  <2> QED
    BY <2>2, <2>3
<1>2. ASSUME NEW converted \in Conversions, NEW replied \in ChatResults,
             Generate(s, converted, replied)
      PROVE  StreamsInv' /\ Progress
  <2>1. gen[s].pc = "idle" /\ ~ Opened(s) /\ UNCHANGED stream
    BY <1>2 DEF Generate
  <2>2. PICK pc \in {"text", "error"} : gen' = [gen EXCEPT ![s].pc = pc]
    BY <1>2 DEF Generate
  <2> QED
    BY <2>1, <2>2, GenReturnsAtOnce
<1>3. CASE GenStreamStep(s)
  BY <1>3, GenSkipsKeeps, GatherKeeps, GatherFailsKeeps, GenReturnsKeeps DEF GenStreamStep
<1> QED
  BY <1>1, <1>2, <1>3 DEF GenStep

----------------------------------------------------------------------------
(* Lists of messages.                                                      *)

\* A message is added.
LEMMA MessageAdded ==
  ASSUME NEW list \in Seq(Messages), NEW m \in Messages
  PROVE  LET all == Append(list, m)
         IN /\ all \in Seq(Messages) /\ Len(all) = Len(list) + 1 /\ Len(list) \in Nat
            /\ \A i \in 1 .. Len(list) : all[i] = list[i]
            /\ all[Len(list) + 1] = m /\ Last(all) = m /\ all # <<>>
<1> DEFINE all == Append(list, m)
<1>1. /\ all \in Seq(Messages) /\ Len(all) = Len(list) + 1 /\ Len(list) \in Nat
      /\ \A i \in 1 .. Len(list) : all[i] = list[i]
      /\ all[Len(list) + 1] = m /\ all # <<>>
  OBVIOUS
<1> QED
  BY <1>1 DEF Last

LEMMA MessageTyped ==
  ASSUME NEW role \in {"system", "user", "assistant"}, NEW t \in 0 .. MaxTurns,
         NEW n \in 0 .. MaxLines
  PROVE  /\ Message(role, t, n) \in Messages
         /\ Message(role, t, n).role = role /\ Message(role, t, n).turn = t
         /\ Message(role, t, n).text = n
BY DEF Message, Messages

\* A turn, its prompt and its reply, is added to a history.
LEMMA TurnAdded ==
  ASSUME NEW list, Shaped(list), NEW t \in 0 .. MaxTurns, NEW n \in 0 .. MaxLines
  PROVE  LET all == Append(Append(list, Message("user", t, 0)), Message("assistant", t, n))
         IN /\ Shaped(all) /\ Len(all) = Len(list) + 2 /\ Len(list) \in Nat
            /\ \A i \in 1 .. Len(list) : all[i] = list[i]
            /\ all[Len(list) + 1] = Message("user", t, 0)
            /\ all[Len(list) + 2] = Message("assistant", t, n)
<1> DEFINE prompt == Message("user", t, 0)
           answer == Message("assistant", t, n)
           all == Append(Append(list, prompt), answer)
<1>1. /\ prompt \in Messages /\ answer \in Messages /\ prompt.role = "user"
      /\ answer.role = "assistant" /\ prompt.turn = t /\ answer.turn = t
  BY MessageTyped, LinesAssumption
<1> HIDE DEF prompt, answer
<1>2. PICK k \in Nat : Len(list) = Seed + 2 * k
  BY DEF Shaped
<1>3. list \in Seq(Messages) /\ Seed \in {0, 1} /\ (Seeded => Seed = 1)
  BY DEF Shaped, Seed
<1>4. /\ all \in Seq(Messages) /\ Len(all) = Len(list) + 2 /\ Len(list) \in Nat
      /\ \A i \in 1 .. Len(list) : all[i] = list[i]
      /\ all[Len(list) + 1] = prompt /\ all[Len(list) + 2] = answer
  BY <1>1, <1>3
<1> HIDE DEF all
<1>5. Len(all) = Seed + 2 * (k + 1) /\ k + 1 \in Nat
  BY <1>2, <1>3, <1>4
<1>6. Seeded => all[1].role = "system"
  BY <1>2, <1>3, <1>4 DEF Shaped
<1>7. ASSUME NEW j \in Nat \ {0}, Seed + 2 * j <= Len(all)
      PROVE  /\ all[Seed + 2 * j - 1].role = "user" /\ all[Seed + 2 * j].role = "assistant"
             /\ all[Seed + 2 * j].turn = all[Seed + 2 * j - 1].turn
  <2>1. CASE j = k + 1
    <3>1. Seed + 2 * j - 1 = Len(list) + 1 /\ Seed + 2 * j = Len(list) + 2
      BY <1>2, <1>3, <2>1
    <3> QED
      BY <1>1, <1>4, <3>1
  <2>2. CASE j # k + 1
    <3>1. /\ Seed + 2 * j - 1 \in 1 .. Len(list) /\ Seed + 2 * j \in 1 .. Len(list)
          /\ Seed + 2 * j <= Len(list)
      BY <1>2, <1>3, <1>5, <1>7, <2>2
    <3>2. /\ all[Seed + 2 * j - 1] = list[Seed + 2 * j - 1]
          /\ all[Seed + 2 * j] = list[Seed + 2 * j]
      BY <1>4, <3>1
    <3> QED
      BY <1>7, <3>1, <3>2 DEF Shaped
  <2> QED
    BY <2>1, <2>2
<1>8. Shaped(all)
  BY <1>4, <1>5, <1>6, <1>7 DEF Shaped
<1> QED
  BY <1>4, <1>8 DEF all, prompt, answer

\* A good history stays one as streams end and as new ones open.
LEMMA GoodStays ==
  ASSUME NEW list, NEW st, NEW rp, NEW n \in Nat, NEW st2, NEW rp2, NEW n2 \in Nat,
         Good(list, st, rp, n), n <= n2,
         \A z \in Streams : \/ rp2[z].pending = rp[z].pending
                            \/ rp2[z].pending # <<>> /\ Last(rp2[z].pending).turn = n + 1,
         \A z \in Streams : st[z].over /\ ~ st[z].err =>
           st2[z].over /\ ~ st2[z].err /\ st2[z].chunks = st[z].chunks
  PROVE  Good(list, st2, rp2, n2)
<1>1. Shaped(list) /\ list \in Seq(Messages)
  BY DEF Good, Shaped
<1>2. ASSUME NEW i \in 1 .. Len(list)
      PROVE  /\ list[i].turn <= n2
             /\ \A s \in Streams :
                  rp2[s].pending # <<>> /\ list[i].turn = Last(rp2[s].pending).turn
                    => Settled(st2[s], list[i])
  <2>1. list[i].turn \in Nat /\ list[i].turn <= n
    <3>1. list[i] \in Messages
      BY <1>1, <1>2
    <3> QED
      BY <1>2, <3>1, TurnsAssumption DEF Messages, Good
  <2>2. ASSUME NEW s \in Streams, rp2[s].pending # <<>>,
               list[i].turn = Last(rp2[s].pending).turn
        PROVE  Settled(st2[s], list[i])
    <3>1. rp2[s].pending = rp[s].pending
      BY <2>1, <2>2
    <3>2. Settled(st[s], list[i])
      BY <1>2, <2>2, <3>1 DEF Good
    <3> QED
      BY <3>2 DEF Settled
  <2> QED
    BY <2>1, <2>2
<1> QED
  BY <1>1, <1>2 DEF Good

----------------------------------------------------------------------------
(* The history under every step.                                           *)

LEMMA ProgressKeepsHistory ==
  ASSUME HistoryInv, Progress
  PROVE  HistoryInv'
<1>1. /\ overlap' = overlap /\ messages' = messages /\ turn' = turn /\ turn \in Nat
      /\ \A z \in Streams : reply'[z].pending = reply[z].pending
      /\ \A z \in Streams : stream[z].over /\ ~ stream[z].err =>
           stream'[z].over /\ ~ stream'[z].err /\ stream'[z].chunks = stream[z].chunks
  BY TurnsAssumption DEF Progress, HistoryInv
<1>2. \A list : Good(list, stream, reply, turn) => Good(list, stream', reply', turn')
  BY <1>1, GoodStays
<1>3. \A z \in Streams : (Mine(z)' <=> Mine(z)) /\ TurnOf(z)' = TurnOf(z)
  BY <1>1 DEF Mine, TurnOf
<1>4. \A z \in Streams : Unfinished(z)' => Unfinished(z)
  BY DEF Unfinished, Progress, Mine
<1>5. /\ overlap' \in Overlap /\ turn' \in 0 .. MaxTurns
      /\ Good(messages', stream', reply', turn')
  BY <1>1, <1>2 DEF HistoryInv
<1>6. ASSUME NEW s \in Streams, Mine(s)'
      PROVE  /\ TurnOf(s)' \in 1 .. turn'
             /\ \E list \in Seq(Messages) :
                  /\ Good(list, stream', reply', turn')
                  /\ reply'[s].pending = Append(list, Message("user", TurnOf(s)', 0))
  <2>1. PICK list \in Seq(Messages) :
          /\ Good(list, stream, reply, turn)
          /\ reply[s].pending = Append(list, Message("user", TurnOf(s), 0))
    BY <1>3, <1>6 DEF HistoryInv
  <2>2. TurnOf(s)' \in 1 .. turn'
    BY <1>1, <1>3, <1>6 DEF HistoryInv
  <2> QED
    BY <1>1, <1>2, <1>3, <2>1, <2>2
<1>7. \A s, z \in Streams : Mine(s)' /\ Mine(z)' /\ TurnOf(s)' = TurnOf(z)' => s = z
  BY <1>3 DEF HistoryInv
<1>8. ~ overlap' => \A s \in Streams : Unfinished(s)' =>
        reply'[s].pending = Append(messages', Message("user", turn', 0))
  BY <1>1, <1>4 DEF HistoryInv
<1> QED
  BY <1>5, <1>6, <1>7, <1>8 DEF HistoryInv

\* A turn is started whose streams, if it has one, it opens itself.
LEMMA TurnKeepsHistory ==
  ASSUME HistoryInv, MayStart, turn' = turn + 1, overlap' = overlap,
         \A z \in Streams : stream'[z] = stream[z] \/ (~ Mine(z) /\ ~ stream[z].over),
         \A z \in Streams :
           \/ reply'[z].pending = reply[z].pending /\ (stream'[z] = stream[z] \/ ~ Mine(z))
           \/ /\ ~ Mine(z)
              /\ reply'[z].pending = Append(messages, Message("user", turn', 0))
              /\ messages' = messages
              /\ \A y \in Streams : y # z => reply'[y].pending = reply[y].pending,
         \/ messages' = messages
         \/ messages' = Append(Append(messages, Message("user", turn', 0)),
                               Message("assistant", turn', 0))
  PROVE  HistoryInv'
<1>1. /\ turn \in Nat /\ turn' \in 1 .. MaxTurns /\ overlap \in Overlap /\ turn' = turn + 1
      /\ Good(messages, stream, reply, turn) /\ Shaped(messages) /\ messages \in Seq(Messages)
      /\ overlap' = overlap /\ MaxTurns \in Nat
  BY TurnsAssumption DEF HistoryInv, MayStart, Good, Shaped
<1> DEFINE prompt == Message("user", turn', 0)
<1>2. prompt \in Messages /\ prompt.turn = turn' /\ prompt.role = "user"
  BY <1>1, MessageTyped, LinesAssumption
<1>3. \A z \in Streams : \/ reply'[z].pending = reply[z].pending
                         \/ /\ ~ Mine(z) /\ reply'[z].pending = Append(messages, prompt)
                            /\ messages' = messages
                            /\ reply'[z].pending # <<>> /\ Last(reply'[z].pending) = prompt
                            /\ \A y \in Streams : y # z => reply'[y].pending = reply[y].pending
  <2> HIDE DEF prompt
  <2>1. Append(messages, prompt) # <<>> /\ Last(Append(messages, prompt)) = prompt
    BY <1>1, <1>2, MessageAdded
  <2> QED
    BY <2>1 DEF prompt
<1> HIDE DEF prompt
<1>4. \A z \in Streams : stream[z].over /\ ~ stream[z].err =>
        stream'[z].over /\ ~ stream'[z].err /\ stream'[z].chunks = stream[z].chunks
  OBVIOUS
<1>5. \A list : Good(list, stream, reply, turn) => Good(list, stream', reply', turn')
  <2>1. \A z \in Streams : \/ reply'[z].pending = reply[z].pending
                           \/ reply'[z].pending # <<>> /\ Last(reply'[z].pending).turn = turn + 1
    BY <1>1, <1>2, <1>3
  <2>2. turn \in Nat /\ turn' \in Nat /\ turn <= turn'
    BY <1>1
  <2> QED
    BY <1>4, <2>1, <2>2, GoodStays
<1>6. \A z \in Streams :
        Mine(z)' => \/ Mine(z) /\ reply'[z].pending = reply[z].pending /\ TurnOf(z)' = TurnOf(z)
                    \/ /\ reply'[z].pending = Append(messages, prompt) /\ TurnOf(z)' = turn'
                       /\ ~ Mine(z) /\ messages' = messages
                       /\ \A y \in Streams : y # z => reply'[y].pending = reply[y].pending
  BY <1>2, <1>3 DEF Mine, TurnOf
<1>7. \A z \in Streams : Mine(z) => TurnOf(z) \in 1 .. turn
  BY DEF HistoryInv
<1>8. Good(messages', stream', reply', turn')
  <2>1. CASE messages' = messages
    BY <1>1, <1>5, <2>1
  <2>2. CASE messages' # messages
    <3> DEFINE answer == Message("assistant", turn', 0)
               all == Append(Append(messages, prompt), answer)
    <3>1. messages' = all
      BY <2>2 DEF prompt
    <3>2. \A z \in Streams : Mine(z)' => TurnOf(z)' # turn'
      BY <1>1, <1>6, <1>7, <2>2
    <3>3. /\ Shaped(all) /\ Len(all) = Len(messages) + 2 /\ Len(messages) \in Nat
          /\ \A i \in 1 .. Len(messages) : all[i] = messages[i]
          /\ all[Len(messages) + 1].turn = turn' /\ all[Len(messages) + 2].turn = turn'
      <4>1. turn' \in 0 .. MaxTurns /\ 0 \in 0 .. MaxLines
        BY <1>1, LinesAssumption
      <4>2. answer.turn = turn'
        BY <4>1, MessageTyped
      <4> QED
        BY <1>1, <1>2, <4>1, <4>2, TurnAdded DEF prompt
    <3> HIDE DEF all, answer
    <3>4. Good(messages, stream', reply', turn')
      BY <1>1, <1>5
    <3>5. ASSUME NEW i \in 1 .. Len(all)
          PROVE  /\ all[i].turn <= turn'
                 /\ \A s \in Streams :
                      reply'[s].pending # <<>> /\ all[i].turn = Last(reply'[s].pending).turn
                        => Settled(stream'[s], all[i])
      <4>1. CASE i \in 1 .. Len(messages)
        BY <3>3, <3>4, <4>1 DEF Good
      <4>2. CASE i \notin 1 .. Len(messages)
        <5>1. all[i].turn = turn'
          BY <3>3, <4>2
        <5> QED
          BY <1>1, <3>2, <5>1 DEF Mine, TurnOf
      <4> QED
        BY <4>1, <4>2
    <3> QED
      BY <3>1, <3>3, <3>5 DEF Good
  <2> QED
    BY <2>1, <2>2
<1>9. ASSUME NEW s \in Streams, Mine(s)'
      PROVE  /\ TurnOf(s)' \in 1 .. turn'
             /\ \E list \in Seq(Messages) :
                  /\ Good(list, stream', reply', turn')
                  /\ reply'[s].pending = Append(list, Message("user", TurnOf(s)', 0))
  <2>1. CASE Mine(s) /\ reply'[s].pending = reply[s].pending /\ TurnOf(s)' = TurnOf(s)
    <3>1. PICK list \in Seq(Messages) :
            /\ Good(list, stream, reply, turn)
            /\ reply[s].pending = Append(list, Message("user", TurnOf(s), 0))
      BY <2>1 DEF HistoryInv
    <3>2. TurnOf(s)' \in 1 .. turn'
      BY <1>1, <1>7, <2>1
    <3> QED
      BY <1>5, <2>1, <3>1, <3>2
  <2>2. CASE reply'[s].pending = Append(messages, prompt) /\ TurnOf(s)' = turn'
    <3>1. TurnOf(s)' \in 1 .. turn'
      BY <1>1, <2>2
    <3> QED
      BY <1>1, <1>5, <2>2, <3>1 DEF prompt
  <2> QED
    BY <1>6, <1>9, <2>1, <2>2
<1>10. ASSUME NEW s \in Streams, NEW z \in Streams, Mine(s)', Mine(z)',
              TurnOf(s)' = TurnOf(z)'
       PROVE  s = z
  <2>1. CASE Mine(s) /\ Mine(z) /\ TurnOf(s)' = TurnOf(s) /\ TurnOf(z)' = TurnOf(z)
    BY <1>10, <2>1 DEF HistoryInv
  <2>2. CASE TurnOf(s)' = turn' /\ ~ Mine(s)
    <3>1. s # z => reply'[z].pending = reply[z].pending /\ Mine(z) /\ TurnOf(z)' = TurnOf(z)
      BY <1>6, <1>10, <2>2 DEF Mine, TurnOf
    <3> QED
      BY <1>1, <1>7, <1>10, <2>2, <3>1
  <2>3. CASE TurnOf(z)' = turn' /\ ~ Mine(z)
    <3>1. s # z => reply'[s].pending = reply[s].pending /\ Mine(s) /\ TurnOf(s)' = TurnOf(s)
      BY <1>6, <1>10, <2>3 DEF Mine, TurnOf
    <3> QED
      BY <1>1, <1>7, <1>10, <2>3, <3>1
  <2> QED
    BY <1>6, <1>10, <2>1, <2>2, <2>3
<1>11. ASSUME ~ overlap', NEW s \in Streams, Unfinished(s)'
       PROVE  reply'[s].pending = Append(messages', Message("user", turn', 0))
  <2>1. Mine(s)' /\ ~ overlap
    BY <1>1, <1>11 DEF Unfinished
  <2>2. CASE Mine(s) /\ reply'[s].pending = reply[s].pending
    <3>1. stream'[s] = stream[s]
      BY <2>2
    <3>2. Unfinished(s)
      BY <1>11, <2>2, <3>1 DEF Unfinished
    <3> QED
      BY <2>1, <3>2 DEF MayStart
  <2>3. CASE reply'[s].pending = Append(messages, prompt) /\ messages' = messages
    BY <2>3 DEF prompt
  <2> QED
    BY <1>6, <2>1, <2>2, <2>3
<1> QED
  BY <1>1, <1>8, <1>9, <1>10, <1>11 DEF HistoryInv

\* A stream leaves the history it was opened on, its prompt and its reply.
LEMMA CommitKeepsHistory ==
  ASSUME StreamsInv, HistoryInv, NEW s \in Streams, NextFalse(s), UNCHANGED gen,
         ~ (stream'[s].err \/ reply[s].done)
  PROVE  HistoryInv'
<1>1. /\ overlap' = overlap /\ turn' = turn /\ Mine(s) /\ ~ stream[s].over
      /\ stream'[s].over /\ ~ stream'[s].err /\ stream'[s].chunks = reply[s].text
      /\ \A z \in Streams : reply'[z].pending = reply[z].pending
      /\ \A z \in Streams : z # s => stream'[z] = stream[z]
      /\ messages' = Append(reply[s].pending, Message("assistant", TurnOf(s), reply[s].text))
  BY CommitEnds
<1>2. /\ turn \in Nat /\ turn \in 0 .. MaxTurns /\ overlap \in Overlap
      /\ TurnOf(s) \in 1 .. turn /\ TurnOf(s) \in 0 .. MaxTurns
      /\ reply[s].text \in 0 .. MaxLines /\ MaxTurns \in Nat
  <2>1. turn \in 0 .. MaxTurns /\ overlap \in Overlap /\ TurnOf(s) \in 1 .. turn
    BY <1>1 DEF HistoryInv
  <2> QED
    BY <2>1, SameOne, TurnsAssumption
<1>3. overlap \/ Unfinished(s)
  BY <1>1 DEF NextFalse, MayRead, Unfinished
<1>4. \A list : Good(list, stream, reply, turn) => Good(list, stream', reply', turn')
  <2>1. \A z \in Streams : stream[z].over /\ ~ stream[z].err =>
          stream'[z].over /\ ~ stream'[z].err /\ stream'[z].chunks = stream[z].chunks
    BY <1>1
  <2> QED
    BY <1>1, <1>2, <2>1, GoodStays
<1>5. \A z \in Streams : (Mine(z)' <=> Mine(z)) /\ TurnOf(z)' = TurnOf(z)
  BY <1>1 DEF Mine, TurnOf
<1>6. PICK list \in Seq(Messages) :
        /\ Good(list, stream, reply, turn)
        /\ reply[s].pending = Append(list, Message("user", TurnOf(s), 0))
  BY <1>1 DEF HistoryInv
<1> DEFINE answer == Message("assistant", TurnOf(s), reply[s].text)
           all == Append(Append(list, Message("user", TurnOf(s), 0)), answer)
<1>7. messages' = all
  BY <1>1, <1>6
<1>8. /\ Shaped(all) /\ Len(all) = Len(list) + 2 /\ Len(list) \in Nat
      /\ \A i \in 1 .. Len(list) : all[i] = list[i]
      /\ all[Len(list) + 1].turn = TurnOf(s) /\ all[Len(list) + 1].role = "user"
      /\ all[Len(list) + 2].turn = TurnOf(s) /\ all[Len(list) + 2].text = reply[s].text
  <2>1. /\ Message("user", TurnOf(s), 0).turn = TurnOf(s)
        /\ Message("user", TurnOf(s), 0).role = "user"
        /\ answer.turn = TurnOf(s) /\ answer.text = reply[s].text
    BY <1>2, MessageTyped, LinesAssumption
  <2>2. Shaped(list)
    BY <1>6 DEF Good
  <2> QED
    BY <1>2, <2>1, <2>2, TurnAdded
<1> HIDE DEF all, answer
<1>9. Good(messages', stream', reply', turn')
  <2>1. Good(list, stream', reply', turn')
    BY <1>4, <1>6
  <2>2. ASSUME NEW i \in 1 .. Len(all)
        PROVE  /\ all[i].turn <= turn'
               /\ \A z \in Streams :
                    reply'[z].pending # <<>> /\ all[i].turn = Last(reply'[z].pending).turn
                      => Settled(stream'[z], all[i])
    <3>1. CASE i \in 1 .. Len(list)
      BY <1>8, <2>1, <3>1 DEF Good
    <3>2. CASE i \notin 1 .. Len(list)
      <4>1. all[i].turn = TurnOf(s) /\ (all[i].role = "assistant" => all[i].text = reply[s].text)
        BY <1>8, <3>2
      <4>2. ASSUME NEW z \in Streams, reply'[z].pending # <<>>,
                   all[i].turn = Last(reply'[z].pending).turn
            PROVE  z = s
        <5>1. Mine(z) /\ TurnOf(z) = TurnOf(s)
          BY <1>1, <4>1, <4>2 DEF Mine, TurnOf
        <5> QED
          BY <1>1, <5>1 DEF HistoryInv
      <4> QED
        BY <1>1, <1>2, <4>1, <4>2 DEF Settled
    <3> QED
      BY <3>1, <3>2
  <2> QED
    BY <1>7, <1>8, <2>2 DEF Good
<1>10. ASSUME NEW z \in Streams, Mine(z)'
       PROVE  /\ TurnOf(z)' \in 1 .. turn'
              /\ \E l \in Seq(Messages) :
                   /\ Good(l, stream', reply', turn')
                   /\ reply'[z].pending = Append(l, Message("user", TurnOf(z)', 0))
  <2>1. PICK l \in Seq(Messages) :
          /\ Good(l, stream, reply, turn)
          /\ reply[z].pending = Append(l, Message("user", TurnOf(z), 0))
    BY <1>5, <1>10 DEF HistoryInv
  <2>2. TurnOf(z)' \in 1 .. turn'
    BY <1>1, <1>5, <1>10 DEF HistoryInv
  <2> QED
    BY <1>1, <1>4, <1>5, <2>1, <2>2
<1>11. \A y, z \in Streams : Mine(y)' /\ Mine(z)' /\ TurnOf(y)' = TurnOf(z)' => y = z
  BY <1>5 DEF HistoryInv
<1>12. ASSUME ~ overlap', NEW z \in Streams, Unfinished(z)'
       PROVE  FALSE
  <2>1. z # s /\ Unfinished(z) /\ Unfinished(s) /\ ~ overlap
    BY <1>1, <1>3, <1>5, <1>12 DEF Unfinished
  <2>2. reply[z].pending = reply[s].pending
    BY <2>1 DEF HistoryInv
  <2>3. Mine(z) /\ TurnOf(z) = TurnOf(s)
    BY <2>1, <2>2 DEF TurnOf, Unfinished
  <2> QED
    BY <1>1, <2>1, <2>3 DEF HistoryInv
<1>13. overlap' \in Overlap /\ turn' \in 0 .. MaxTurns
  BY <1>1, <1>2
<1> QED
  BY <1>9, <1>10, <1>11, <1>12, <1>13 DEF HistoryInv

\* A stream of the conversation is opened.
LEMMA SendStreamOpens ==
  ASSUME StreamsInv, HistoryInv, NEW s \in Streams, gen[s].pc = "idle", MayStart,
         turn' = turn + 1, OpenStream(s), UNCHANGED <<overlap, messages, gen>>,
         reply' = [reply EXCEPT ![s].pending = Append(messages, Message("user", turn', 0))]
  PROVE  StreamsInv' /\ HistoryInv'
<1> DEFINE list == Append(messages, Message("user", turn', 0))
           p == [reply[s] EXCEPT !.pending = list]
<1>1. PICK w \in Bodies :
        /\ stream' = [stream EXCEPT ![s] = w]
        /\ BodyOK(w) /\ Counted(w, 0) /\ w.conn = "open" /\ ~ w.over
  BY OpenedOK
<1>2. /\ stream[s] = Unopened /\ ~ Mine(s) /\ reply[s].text = 0 /\ ~ reply[s].done
  BY OpenedOK
<1>3. /\ reply[s] \in Replies /\ gen[s] \in Gens /\ Sound(stream[s], reply[s], gen[s])
      /\ gen' = [gen EXCEPT ![s] = gen[s]] /\ reply' = [reply EXCEPT ![s] = p]
  <2>1. reply' = [reply EXCEPT ![s] = p]
    BY DEF StreamsInv
  <2> QED
    BY <2>1, SameOne
<1>4. list \in Seq(Messages) /\ list # <<>>
  <2>1. messages \in Seq(Messages) /\ turn' \in 0 .. MaxTurns
    BY TurnsAssumption DEF HistoryInv, MayStart, Good, Shaped
  <2>2. Message("user", turn', 0) \in Messages
    BY <2>1, MessageTyped, LinesAssumption
  <2> QED
    BY <2>1, <2>2, MessageAdded
<1> HIDE DEF list
<1>5. p \in Replies /\ p.pending = list /\ p.text = 0 /\ ~ p.done
  BY <1>2, <1>3, <1>4 DEF Replies
<1> HIDE DEF p
<1>6. Sound(w, p, gen[s])
  BY <1>1, <1>3, <1>4, <1>5 DEF Sound
<1>7. StreamsInv
  OBVIOUS
<1>8. StreamsInv'
  BY ONLY <1>1, <1>3, <1>5, <1>6, <1>7, ChangeOne
<1>9. /\ stream'[s] = w /\ reply'[s] = p
      /\ \A z \in Streams : z # s => stream'[z] = stream[z] /\ reply'[z] = reply[z]
  BY <1>1, <1>3 DEF StreamsInv
<1>10. HistoryInv'
  <2>1. \A z \in Streams : stream'[z] = stream[z] \/ (~ Mine(z) /\ ~ stream[z].over)
    <3>1. ~ stream[s].over
      BY <1>2 DEF Unopened
    <3> QED
      BY <1>2, <1>9, <3>1
  <2>2. \A z \in Streams :
          \/ reply'[z].pending = reply[z].pending /\ (stream'[z] = stream[z] \/ ~ Mine(z))
          \/ /\ ~ Mine(z)
             /\ reply'[z].pending = Append(messages, Message("user", turn', 0))
             /\ messages' = messages
             /\ \A y \in Streams : y # z => reply'[y].pending = reply[y].pending
    BY <1>2, <1>5, <1>9 DEF list
  <2>3. messages' = messages /\ overlap' = overlap
    OBVIOUS
  <2> QED
    BY <2>1, <2>2, <2>3, TurnKeepsHistory
<1> QED
  BY <1>8, <1>10

\* A turn is started that opens no stream.
LEMMA PlainTurn ==
  ASSUME StreamsInv, HistoryInv, MayStart, turn' = turn + 1,
         UNCHANGED <<overlap, reply, stream, gen>>,
         \/ messages' = messages
         \/ messages' = Append(Append(messages, Message("user", turn', 0)),
                               Message("assistant", turn', 0))
  PROVE  StreamsInv' /\ HistoryInv'
<1>1. StreamsInv'
  BY DEF StreamsInv
<1>2. HistoryInv'
  BY TurnKeepsHistory
<1> QED
  BY <1>1, <1>2

LEMMA TwoAppends ==
  ASSUME NEW list \in Seq(Messages), NEW a \in Messages, NEW b \in Messages
  PROVE  list \o <<a, b>> = Append(Append(list, a), b)
OBVIOUS

\* A blocking turn that is replied to adds its prompt and its reply.
LEMMA SendAdds ==
  ASSUME HistoryInv, Send(TRUE)
  PROVE  messages' = Append(Append(messages, Message("user", turn', 0)),
                            Message("assistant", turn', 0))
<1>1. messages \in Seq(Messages) /\ turn' \in 0 .. MaxTurns /\ 0 \in 0 .. MaxLines
  BY TurnsAssumption, LinesAssumption DEF HistoryInv, Send, MayStart, Good, Shaped
<1>2. Message("user", turn', 0) \in Messages /\ Message("assistant", turn', 0) \in Messages
  BY <1>1, MessageTyped
<1>3. messages' = messages \o <<Message("user", turn', 0), Message("assistant", turn', 0)>>
  BY DEF Send
<1> QED
  BY <1>1, <1>2, <1>3, TwoAppends

----------------------------------------------------------------------------
(* The invariant holds.                                                    *)

LEMMA InitHolds ==
  ASSUME Init
  PROVE  ClientsInv
<1>1. StreamsInv
  <2>1. \A s \in Streams :
          /\ stream[s] = Unopened
          /\ reply[s] = [pending |-> <<>>, text |-> 0, done |-> FALSE]
          /\ gen[s] = [pc |-> "idle", full |-> 0, told |-> 0]
    BY DEF Init, ReaderInit, ConvInit, GenInit
  <2>2. /\ Unopened \in Bodies /\ 0 \in 0 .. MaxLines
        /\ [pending |-> <<>>, text |-> 0, done |-> FALSE] \in Replies
        /\ [pc |-> "idle", full |-> 0, told |-> 0] \in Gens
    <3>1. 0 \in 0 .. MaxLines /\ <<>> \in Seq(LineKinds) /\ <<>> \in Seq(Messages)
      BY LinesAssumption
    <3> QED
      BY <3>1 DEF Bodies, Unopened, Replies, Gens
  <2>3. /\ stream \in [Streams -> Bodies] /\ reply \in [Streams -> Replies]
        /\ gen \in [Streams -> Gens]
    BY <2>2 DEF Init, ReaderInit, ConvInit, GenInit
  <2>4. BodyOK(Unopened)
    BY DEF BodyOK, Unopened
  <2>5. \A s \in Streams : Sound(stream[s], reply[s], gen[s])
    BY <2>1, <2>4 DEF Sound, Unopened
  <2> QED
    BY <2>3, <2>5 DEF StreamsInv
<1>2. HistoryInv
  <2>1. \A s \in Streams : ~ Mine(s)
    BY DEF Init, ConvInit, Mine
  <2>2. /\ overlap \in Overlap /\ turn = 0 /\ 0 \in 0 .. MaxTurns
        /\ messages = IF Seeded THEN <<Message("system", 0, 0)>> ELSE <<>>
    BY TurnsAssumption DEF Init, ConvInit
  <2>3. Message("system", 0, 0) \in Messages /\ Message("system", 0, 0).role = "system"
        /\ Message("system", 0, 0).turn = 0
    BY <2>2, MessageTyped, LinesAssumption
  <2>4. /\ messages \in Seq(Messages) /\ Len(messages) = Seed
        /\ Seed \in Nat /\ \A i \in 1 .. Len(messages) : messages[i] = Message("system", 0, 0)
        /\ Seeded => Len(messages) = 1
    BY <2>2, <2>3, ConfigAssumption DEF Seed
  <2>5. Shaped(messages)
    <3>1. Len(messages) = Seed + 2 * 0
      BY <2>4
    <3>2. Seeded => messages[1].role = "system"
      BY <2>3, <2>4
    <3>3. \A j \in Nat \ {0} : ~ (Seed + 2 * j <= Len(messages))
      BY <2>4
    <3> QED
      BY <2>4, <3>1, <3>2, <3>3 DEF Shaped
  <2>6. Good(messages, stream, reply, turn)
    BY <2>1, <2>2, <2>3, <2>4, <2>5 DEF Good, Mine
  <2> QED
    BY <2>1, <2>2, <2>6 DEF HistoryInv, Unfinished
<1> QED
  BY <1>1, <1>2 DEF ClientsInv

LEMMA ResultTypes == ChatResults \subseteq BOOLEAN /\ StreamResults \subseteq BOOLEAN
<1>1. \A o : (o \in {"empty", "right"}) \in BOOLEAN
  OBVIOUS
<1>2. \A o : (o \notin {"unsent", "unreachable", "refused"}) \in BOOLEAN
  OBVIOUS
<1> QED
  BY <1>1, <1>2 DEF ChatResults, StreamResults, DoJSONSucceeds, DoSucceeds

LEMMA NextKeeps ==
  ASSUME ClientsInv, [Next]_vars
  PROVE  ClientsInv'
<1> USE DEF ClientsInv
<1>1. ASSUME NEW s \in Streams, ServerStep(s), UNCHANGED <<convVars, gen>>
      PROVE  ClientsInv'
  BY <1>1, ServerSteps, ProgressKeepsHistory
<1>2. ASSUME NEW s \in Streams, gen[s].pc = "idle", ConvStreamStep(s), UNCHANGED gen
      PROVE  ClientsInv'
  <2>1. ASSUME NEW opened \in StreamResults, SendStream(s, opened) PROVE ClientsInv'
    <3>1. MayStart /\ turn' = turn + 1 /\ UNCHANGED <<overlap, messages>>
      BY <2>1 DEF SendStream
    <3>2. CASE opened
      <4>1. /\ OpenStream(s)
            /\ reply' = [reply EXCEPT ![s].pending = Append(messages, Message("user", turn', 0))]
        BY <2>1, <3>2 DEF SendStream
      <4> QED
        BY <1>2, <3>1, <4>1, SendStreamOpens
    <3>3. CASE ~ opened
      <4>1. UNCHANGED <<stream, reply>>
        BY <2>1, <3>3 DEF SendStream
      <4> QED
        BY <1>2, <3>1, <4>1, PlainTurn
    <3> QED
      BY <3>2, <3>3
  <2>2. CASE NextSkips(s)
    BY <1>2, <2>2, NextSkipsKeeps, ProgressKeepsHistory
  <2>3. CASE NextChunk(s)
    BY <1>2, <2>3, NextChunkKeeps, ProgressKeepsHistory
  <2>4. CASE NextFalse(s) /\ (stream'[s].err \/ reply[s].done)
    BY <1>2, <2>4, NextFalseKeeps, ProgressKeepsHistory
  <2>5. CASE NextFalse(s) /\ ~ (stream'[s].err \/ reply[s].done)
    BY <1>2, <2>5, CommitEnds, CommitKeepsHistory
  <2>6. CASE Close(s)
    BY <1>2, <2>6, CloseKeeps, ProgressKeepsHistory
  <2> QED
    BY <1>2, <2>1, <2>2, <2>3, <2>4, <2>5, <2>6 DEF ConvStreamStep
<1>3. ASSUME ConvTurn, UNCHANGED gen
      PROVE  ClientsInv'
  <2>1. PICK replied \in ChatResults : Send(replied)
    BY <1>3 DEF ConvTurn
  <2>2. /\ MayStart /\ turn' = turn + 1 /\ UNCHANGED <<overlap, reply, stream, gen>>
    BY <1>3, <2>1 DEF Send
  <2>3. CASE replied
    <3>1. replied \in BOOLEAN
      BY ResultTypes
    <3>2. Send(TRUE)
      BY <2>1, <2>3, <3>1 DEF Send
    <3> QED
      BY <2>2, <3>2, SendAdds, PlainTurn
  <2>4. CASE ~ replied
    <3>1. messages' = messages
      BY <2>1, <2>4 DEF Send
    <3> QED
      BY <2>2, <3>1, PlainTurn
  <2> QED
    BY <2>3, <2>4
<1>4. ASSUME NEW s \in Adapted, ~ Mine(s), GenStep(s), UNCHANGED convVars
      PROVE  ClientsInv'
  BY <1>4, AdaptedAssumption, GenSteps, ProgressKeepsHistory
<1>5. CASE UNCHANGED vars
  <2>1. StreamsInv'
    BY <1>5 DEF StreamsInv, vars, convVars
  <2>2. Progress
    BY <1>5 DEF Progress, vars, convVars
  <2> QED
    BY <2>1, <2>2, ProgressKeepsHistory
<1> QED
  BY <1>1, <1>2, <1>3, <1>4, <1>5 DEF Next

LEMMA ClientsInvariant == Spec => []ClientsInv
<1>1. Init => ClientsInv
  BY InitHolds
<1>2. ClientsInv /\ [Next]_vars => ClientsInv'
  BY NextKeeps
<1> QED
  BY <1>1, <1>2, PTL DEF Spec

----------------------------------------------------------------------------
(* What it means for the clients.                                          *)

\* Every reader, every call of the adapter and the history keep their types:
\* no more is gathered than was sent, and metrics are reported once at most
\* (client.go, openai/streaming.go, conversation.go, langchain.go).
THEOREM ClientsTypes == Spec => []TypeOK
<1>1. ClientsInv => TypeOK
  BY DEF ClientsInv, StreamsInv, HistoryInv, Good, Shaped, TypeOK, ReaderTypeOK, ConvTypeOK,
         GenTypeOK, Bodies, Replies, Gens
<1> QED
  BY <1>1, ClientsInvariant, PTL

\* A streaming call of the adapter returns all the runtime sent, or an error,
\* and closes its stream (langchain.go, generateStreaming).
THEOREM AdapterIsFaithful == Spec => []GenerateIsFaithful
<1>1. ClientsInv => GenerateIsFaithful
  <2> SUFFICES ASSUME ClientsInv, NEW s \in Streams, gen[s].pc \in {"text", "error"}, Opened(s)
               PROVE  /\ stream[s].conn = "closed"
                      /\ gen[s].pc = "text" =>
                           /\ gen[s].full = stream[s].chunks /\ gen[s].told = gen[s].full
                           /\ ~ stream[s].err
    BY DEF GenerateIsFaithful
  <2>1. Sound(stream[s], reply[s], gen[s])
    BY DEF ClientsInv, StreamsInv
  <2> QED
    BY <2>1 DEF Sound, Opened
<1> QED
  BY <1>1, ClientsInvariant, PTL

\* A stream of the conversation leaves its whole reply in the history, if it
\* was read to its end without an error, and nothing otherwise; metrics are
\* reported once for each stream that ended (conversation.go and client.go,
\* Next).
THEOREM StreamsLeaveWhatTheyShould == Spec => []StreamsAreRight
<1>1. ASSUME ClientsInv PROVE StreamsAreRight
  <2>1. Good(messages, stream, reply, turn) /\ DOMAIN messages = 1 .. Len(messages)
    BY <1>1 DEF ClientsInv, HistoryInv, Good, Shaped
  <2>2. ASSUME NEW s \in Streams, Mine(s), NEW i \in DOMAIN messages,
               messages[i].turn = TurnOf(s)
        PROVE  Settled(stream[s], messages[i])
    BY <2>1, <2>2 DEF Good, Mine, TurnOf
  <2>3. OnlyFinishedStreams /\ ReplyIntact
    BY <2>2 DEF OnlyFinishedStreams, ReplyIntact, Settled
  <2>4. ReportedOnce
    <3> SUFFICES ASSUME NEW s \in Streams
                 PROVE  stream[s].reports = IF stream[s].over THEN 1 ELSE 0
      BY DEF ReportedOnce
    <3>1. BodyOK(stream[s])
      BY <1>1, SameOne DEF ClientsInv
    <3> QED
      BY <3>1 DEF BodyOK
  <2> QED
    BY <2>3, <2>4 DEF StreamsAreRight, StreamsLeaveTheirReply
<1> QED
  BY <1>1, ClientsInvariant, PTL

LEMMA Halves ==
  ASSUME NEW m \in Nat
  PROVE  \E q \in Nat : m = IF m % 2 = 1 THEN 2 * q + 1 ELSE 2 * q
<1>1. m \div 2 \in Nat /\ m = 2 * (m \div 2) + (m % 2) /\ m % 2 \in {0, 1}
  OBVIOUS
<1> QED
  BY <1>1

\* The history is made of whole turns: after the system prompt, prompts that
\* each have their reply (conversation.go, Send and Next).
THEOREM HistoryIsMadeOfTurns == Spec => []HistoryIsTurns
<1>1. ASSUME ClientsInv PROVE HistoryIsTurns
  <2>1. Shaped(messages)
    BY <1>1 DEF ClientsInv, HistoryInv, Good
  <2>2. PICK k \in Nat : Len(messages) = Seed + 2 * k
    BY <2>1 DEF Shaped
  <2>3. Seed \in {0, 1} /\ (Seeded => messages[1].role = "system")
    BY <2>1 DEF Shaped, Seed
  <2>4. (Len(messages) - Seed) % 2 = 0
    BY <2>2, <2>3
  <2>5. ASSUME NEW i \in Seed + 1 .. Len(messages)
        PROVE  IF (i - Seed) % 2 = 1
               THEN messages[i].role = "user" /\ messages[i + 1].turn = messages[i].turn
               ELSE messages[i].role = "assistant"
    <3>0. i - Seed \in Nat \ {0} /\ i \in Nat
      BY <2>2, <2>3
    <3>1. CASE (i - Seed) % 2 = 1
      <4>1. PICK j \in Nat \ {0} : i = Seed + 2 * j - 1
        <5>1. PICK q \in Nat : i - Seed = 2 * q + 1
          BY <3>0, <3>1, Halves
        <5>2. q + 1 \in Nat \ {0} /\ i = Seed + 2 * (q + 1) - 1
          BY <2>3, <5>1
        <5> QED
          BY <5>2
      <4>2. Seed + 2 * j <= Len(messages) /\ i + 1 = Seed + 2 * j
        BY <2>2, <2>3, <4>1
      <4> QED
        BY <2>1, <3>1, <4>1, <4>2 DEF Shaped
    <3>2. CASE (i - Seed) % 2 # 1
      <4>1. PICK j \in Nat \ {0} : i = Seed + 2 * j
        <5>1. PICK q \in Nat : i - Seed = 2 * q
          BY <3>0, <3>2, Halves
        <5>2. q # 0 /\ i = Seed + 2 * q
          BY <2>3, <3>0, <5>1
        <5> QED
          BY <5>2
      <4> QED
        BY <2>1, <3>2, <4>1 DEF Shaped
    <3> QED
      BY <3>1, <3>2
  <2> QED
    BY <2>3, <2>4, <2>5 DEF HistoryIsTurns
<1> QED
  BY <1>1, ClientsInvariant, PTL

----------------------------------------------------------------------------
(* The conversation implements the log of turns.                           *)

\* The turns of a list.
Logged(list) == [k \in 1 .. (Len(list) - Seed) \div 2 |-> list[Seed + 2 * k - 1].turn]

LEMMA FunctionsAreSeqs ==
  ASSUME NEW S, NEW n \in Nat, NEW f \in [1 .. n -> S]
  PROVE  f \in Seq(S) /\ Len(f) = n
OBVIOUS

LEMMA LogGrows ==
  ASSUME NEW list, Shaped(list), NEW t \in 0 .. MaxTurns, NEW n \in 0 .. MaxLines
  PROVE  LET all == Append(Append(list, Message("user", t, 0)), Message("assistant", t, n))
         IN Logged(all) = Append(Logged(list), t)
<1> DEFINE all == Append(Append(list, Message("user", t, 0)), Message("assistant", t, n))
<1>1. /\ Len(all) = Len(list) + 2 /\ Len(list) \in Nat
      /\ \A i \in 1 .. Len(list) : all[i] = list[i]
      /\ all[Len(list) + 1].turn = t
  <2>1. Message("user", t, 0).turn = t
    BY DEF Message
  <2> QED
    BY <2>1, TurnAdded
<1>2. PICK k \in Nat : Len(list) = Seed + 2 * k
  BY DEF Shaped
<1>3. Seed \in {0, 1} /\ list \in Seq(Messages)
  BY DEF Seed, Shaped
<1> HIDE DEF all
<1>4. (Len(list) - Seed) \div 2 = k /\ (Len(all) - Seed) \div 2 = k + 1
  BY <1>1, <1>2, <1>3
<1>5. Logged(list) = [j \in 1 .. k |-> list[Seed + 2 * j - 1].turn]
  BY <1>4 DEF Logged
<1>6. Logged(all) = [j \in 1 .. k + 1 |-> all[Seed + 2 * j - 1].turn]
  BY <1>4 DEF Logged
<1>7. \A j \in 1 .. k : all[Seed + 2 * j - 1].turn = list[Seed + 2 * j - 1].turn
  <2> SUFFICES ASSUME NEW j \in 1 .. k
               PROVE  all[Seed + 2 * j - 1].turn = list[Seed + 2 * j - 1].turn
    OBVIOUS
  <2>1. Seed + 2 * j - 1 \in 1 .. Len(list)
    BY <1>2, <1>3
  <2> QED
    BY <1>1, <2>1
<1>8. all[Seed + 2 * (k + 1) - 1].turn = t
  <2>1. Seed + 2 * (k + 1) - 1 = Len(list) + 1
    BY <1>2, <1>3
  <2> QED
    BY <1>1, <2>1
<1>9. Logged(list) \in Seq(0 .. MaxTurns) /\ Len(Logged(list)) = k
  <2>1. \A j \in 1 .. k : list[Seed + 2 * j - 1].turn \in 0 .. MaxTurns
    <3> SUFFICES ASSUME NEW j \in 1 .. k PROVE list[Seed + 2 * j - 1].turn \in 0 .. MaxTurns
      OBVIOUS
    <3>1. Seed + 2 * j - 1 \in 1 .. Len(list)
      BY <1>2, <1>3
    <3>2. list[Seed + 2 * j - 1] \in Messages
      BY <1>3, <3>1
    <3> QED
      BY <3>2 DEF Messages
  <2>2. Logged(list) \in [1 .. k -> 0 .. MaxTurns]
    BY <1>5, <2>1
  <2> QED
    BY ONLY <1>2, <2>2, FunctionsAreSeqs
<1> DEFINE old == Logged(list)
           new == Append(old, t)
<1> HIDE DEF old
<1>10. /\ new \in Seq(0 .. MaxTurns) /\ Len(new) = k + 1
       /\ \A j \in 1 .. k : new[j] = old[j]
       /\ new[k + 1] = t
  BY <1>2, <1>9 DEF old
<1>11. /\ Logged(all) \in Seq(0 .. MaxTurns) /\ Len(Logged(all)) = k + 1
       /\ \A j \in 1 .. k : Logged(all)[j] = old[j]
       /\ Logged(all)[k + 1] = t
  <2>1. /\ \A j \in 1 .. k : Logged(all)[j] = old[j]
        /\ Logged(all)[k + 1] = t
    BY <1>2, <1>5, <1>6, <1>7, <1>8 DEF old
  <2>2. \A j \in 1 .. k : old[j] \in 0 .. MaxTurns
    <3>1. old \in Seq(0 .. MaxTurns) /\ Len(old) = k
      BY <1>9 DEF old
    <3> QED
      BY ONLY <3>1, ElementOfSeq
  <2>3. \A j \in 1 .. k + 1 : Logged(all)[j] \in 0 .. MaxTurns
    BY <1>2, <2>1, <2>2
  <2>4. Logged(all) \in [1 .. k + 1 -> 0 .. MaxTurns] /\ k + 1 \in Nat
    BY <1>2, <1>6, <2>3
  <2>5. Logged(all) \in Seq(0 .. MaxTurns) /\ Len(Logged(all)) = k + 1
    BY ONLY <2>4, FunctionsAreSeqs
  <2> QED
    BY <2>1, <2>5
<1> HIDE DEF new
<1>12. \A j \in 1 .. k + 1 : Logged(all)[j] = new[j]
  BY <1>2, <1>10, <1>11
<1>13. Logged(all) = new
  BY ONLY <1>2, <1>10, <1>11, <1>12, SeqEqual
<1> QED
  BY <1>13 DEF all, old, new

Log == IF overlap THEN <<>> ELSE TurnsLogged

\* A turn that is not in the history yet enters the log.
LEMMA LogAdds ==
  ASSUME HistoryInv, ~ overlap, overlap' = overlap, NEW t \in 1 .. MaxTurns,
         NEW n \in 0 .. MaxLines,
         messages' = Append(Append(messages, Message("user", t, 0)), Message("assistant", t, n)),
         \A i \in 1 .. Len(messages) : messages[i].turn # t
  PROVE  Accumulates!Next
<1>1. Shaped(messages) /\ t \in 0 .. MaxTurns
  BY TurnsAssumption DEF HistoryInv, Good
<1>2. Log = Logged(messages) /\ Log' = Logged(messages')
  BY DEF Log, TurnsLogged, Logged
<1>3. Log' = Append(Log, t)
  BY <1>1, <1>2, LogGrows
<1>4. \A i \in DOMAIN Log : Log[i] # t
  <2>1. PICK k \in Nat : Len(messages) = Seed + 2 * k
    BY <1>1 DEF Shaped
  <2>2. Seed \in {0, 1}
    BY DEF Seed
  <2>3. (Len(messages) - Seed) \div 2 = k
    BY <2>1, <2>2
  <2>4. Log = [j \in 1 .. k |-> messages[Seed + 2 * j - 1].turn]
    BY <1>2, <2>3 DEF Logged
  <2>5. \A j \in 1 .. k : Seed + 2 * j - 1 \in 1 .. Len(messages)
    BY <2>1, <2>2
  <2> QED
    BY <2>4, <2>5
<1> QED
  BY <1>3, <1>4 DEF Accumulates!Next, Accumulates!Add, Log

LEMMA LogStays ==
  ASSUME UNCHANGED <<overlap, messages>>
  PROVE  UNCHANGED Log
BY DEF Log, TurnsLogged

LEMMA LogStep ==
  ASSUME ClientsInv, [Next]_vars
  PROVE  Accumulates!Next \/ UNCHANGED Log
<1>1. StreamsInv /\ HistoryInv
  BY DEF ClientsInv
<1>2. ASSUME NEW s \in Streams, ServerStep(s), UNCHANGED <<convVars, gen>>
      PROVE  UNCHANGED Log
  BY <1>2, LogStays DEF convVars
<1>3. ASSUME NEW s \in Streams, ConvStreamStep(s), UNCHANGED gen
      PROVE  Accumulates!Next \/ UNCHANGED Log
  <2>1. CASE NextFalse(s) /\ ~ (stream'[s].err \/ reply[s].done)
    <3>1. /\ overlap' = overlap /\ Mine(s) /\ ~ stream[s].over
          /\ messages' = Append(reply[s].pending,
                                Message("assistant", TurnOf(s), reply[s].text))
      BY <1>1, <1>3, <2>1, CommitEnds
    <3>2. CASE overlap
      BY <3>1, <3>2 DEF Log
    <3>3. CASE ~ overlap
      <4>1. Unfinished(s)
        BY <2>1, <3>1, <3>3 DEF NextFalse, MayRead, Unfinished
      <4>2. reply[s].pending = Append(messages, Message("user", turn, 0))
        BY <1>1, <3>3, <4>1 DEF HistoryInv
      <4>3. messages \in Seq(Messages) /\ turn \in 0 .. MaxTurns /\ TurnOf(s) \in 1 .. turn
        BY <1>1, <3>1 DEF HistoryInv, Good, Shaped
      <4>4. TurnOf(s) = turn
        <5>1. Message("user", turn, 0) \in Messages /\ Message("user", turn, 0).turn = turn
          BY <4>3, MessageTyped, LinesAssumption
        <5> QED
          BY <4>2, <4>3, <5>1, MessageAdded DEF TurnOf
      <4>5. \A i \in 1 .. Len(messages) : messages[i].turn # turn
        BY <1>1, <3>1, <4>4 DEF HistoryInv, Good, Settled, Mine, TurnOf
      <4>6. turn \in 1 .. MaxTurns /\ reply[s].text \in 0 .. MaxLines
        BY <1>1, <4>3, <4>4, SameOne, TurnsAssumption
      <4>7. messages' = Append(Append(messages, Message("user", turn, 0)),
                               Message("assistant", turn, reply[s].text))
        BY <3>1, <4>2, <4>4
      <4> QED
        BY <1>1, <3>1, <3>3, <4>5, <4>6, <4>7, LogAdds
    <3> QED
      BY <3>2, <3>3
  <2>2. CASE ~ (NextFalse(s) /\ ~ (stream'[s].err \/ reply[s].done))
    <3>1. UNCHANGED <<overlap, messages>>
      BY <1>3, <2>2 DEF ConvStreamStep, SendStream, NextSkips, NextChunk, NextFalse, Close,
                        convVars
    <3> QED
      BY <3>1, LogStays
  <2> QED
    BY <2>1, <2>2
<1>4. ASSUME NEW replied \in ChatResults, Send(replied)
      PROVE  Accumulates!Next \/ UNCHANGED Log
  <2>1. MayStart /\ turn' = turn + 1 /\ overlap' = overlap
    BY <1>4 DEF Send
  <2>2. CASE ~ replied
    <3>1. UNCHANGED <<overlap, messages>>
      BY <1>4, <2>2 DEF Send
    <3> QED
      BY <3>1, LogStays
  <2>3. CASE replied
    <3>1. Send(TRUE)
      <4>1. replied \in BOOLEAN
        BY ResultTypes
      <4> QED
        BY <1>4, <2>3, <4>1 DEF Send
    <3>2. messages' = Append(Append(messages, Message("user", turn', 0)),
                             Message("assistant", turn', 0))
      BY <1>1, <3>1, SendAdds
    <3>3. CASE overlap
      BY <2>1, <3>3 DEF Log
    <3>4. CASE ~ overlap
      <4>1. turn \in 0 .. MaxTurns /\ turn' \in 1 .. MaxTurns /\ 0 \in 0 .. MaxLines
        BY <1>1, <2>1, TurnsAssumption, LinesAssumption DEF HistoryInv, MayStart
      <4>2. \A i \in 1 .. Len(messages) : messages[i].turn # turn'
        <5> SUFFICES ASSUME NEW i \in 1 .. Len(messages) PROVE messages[i].turn # turn'
          OBVIOUS
        <5>1. messages[i] \in Messages /\ messages[i].turn <= turn
          BY <1>1 DEF HistoryInv, Good, Shaped
        <5> QED
          BY <2>1, <4>1, <5>1 DEF Messages
      <4> QED
        BY <1>1, <2>1, <3>2, <3>4, <4>1, <4>2, LogAdds
    <3> QED
      BY <3>3, <3>4
  <2> QED
    BY <2>2, <2>3
<1>5. ASSUME NEW s \in Adapted, UNCHANGED convVars
      PROVE  UNCHANGED Log
  BY <1>5, LogStays DEF convVars
<1>6. CASE UNCHANGED vars
  BY <1>6, LogStays DEF vars, convVars
<1> QED
  BY <1>2, <1>3, <1>4, <1>5, <1>6 DEF Next, ConvTurn

\* The history only grows, by one turn at a time and by none twice, as long as
\* turns do not overlap (conversation.go: "accumulates chat history").
THEOREM ConversationAccumulates == Spec => AccumulatesTurns
<1>1. Init => Accumulates!Init
  <2> SUFFICES ASSUME Init PROVE Log = <<>>
    BY DEF Accumulates!Init, Log
  <2>1. Len(messages) = Seed
    BY ConfigAssumption DEF Init, ConvInit, Seed
  <2>2. Seed \in Nat /\ (Len(messages) - Seed) \div 2 = 0
    BY <2>1 DEF Seed
  <2>3. 1 .. (Len(messages) - Seed) \div 2 = {}
    BY <2>2
  <2>4. TurnsLogged = <<>>
    BY <2>3 DEF TurnsLogged
  <2> QED
    BY <2>4 DEF Log
<1>2. ClientsInv /\ [Next]_vars => [Accumulates!Next]_(IF overlap THEN <<>> ELSE TurnsLogged)
  BY LogStep DEF Log
<1> QED
  BY <1>1, <1>2, ClientsInvariant, PTL DEF Spec, AccumulatesTurns, Accumulates!Spec

=============================================================================
