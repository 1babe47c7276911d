---------------------------- MODULE Agent_proofs ----------------------------
(***************************************************************************)
(* Theorems about Agent, for any names, sources, calls and answers, and    *)
(* any number of steps and runs.                                           *)
(***************************************************************************)
EXTENDS Agent, FiniteSetTheorems, SequenceTheorems, WellFoundedInduction, TLAPS

----------------------------------------------------------------------------
(* Flattening a transcript.                                                *)

\* Every set of numbers has a least one: induction, for properties written as
\* the set of their counterexamples.
LEMMA LeastNumber ==
  ASSUME NEW T \in SUBSET Nat, T # {}
  PROVE  \E n \in T : \A m \in T : ~ (m < n)
<1> DEFINE R == OpToRel(<, Nat)
<1>1. PICK n \in T : \A m \in T : <<m, n>> \notin R
  BY NatLessThanWellFounded, WFMin
<1>2. \A m \in Nat : m < n => <<m, n>> \in R
  BY DEF OpToRel
<1> QED
  BY <1>1, <1>2

\* f holds the first pieces of s, flattened.
Flattens(f, s, n) ==
  f = [i \in 1 .. n |-> IF i = 1 THEN s[i] ELSE f[i - 1] \o s[i]]

\* The same, piece by piece.
LEMMA FlattensAt ==
  ASSUME NEW f, NEW s, NEW n \in Nat, Flattens(f, s, n), NEW i \in 1 .. n
  PROVE  f[i] = IF i = 1 THEN s[i] ELSE f[i - 1] \o s[i]
<1> DEFINE g == [j \in 1 .. n |-> IF j = 1 THEN s[j] ELSE f[j - 1] \o s[j]]
<1>1. f = g
  BY DEF Flattens
<1>2. g[i] = IF i = 1 THEN s[i] ELSE f[i - 1] \o s[i]
  OBVIOUS
<1> QED
  BY <1>1, <1>2

\* The recursion of FlattenSeq has a solution.
LEMMA FlattenExists ==
  ASSUME NEW s, NEW n \in Nat
  PROVE  \E f : Flattens(f, s, n)
<1> DEFINE T == {k \in Nat : ~ \E f : Flattens(f, s, k)}
<1>1. SUFFICES ASSUME T # {} PROVE FALSE
  OBVIOUS
<1>2. PICK k \in T : \A m \in T : ~ (m < k)
  BY <1>1, LeastNumber
<1>3. CASE k = 0
  <2>1. Flattens([i \in 1 .. 0 |-> 0], s, 0)
    BY DEF Flattens
  <2> QED
    BY <1>3, <2>1
<1>4. CASE k > 0
  <2>1. k - 1 \in Nat /\ k - 1 < k
    BY <1>4
  <2>2. PICK f : Flattens(f, s, k - 1)
    BY <1>2, <2>1
  <2> DEFINE g == [i \in 1 .. k |-> IF i < k THEN f[i]
                                    ELSE IF i = 1 THEN s[i] ELSE f[i - 1] \o s[i]]
  <2>3. \A i \in 1 .. k : g[i] = IF i = 1 THEN s[i] ELSE g[i - 1] \o s[i]
    <3> TAKE i \in 1 .. k
    <3>1. i # 1 => i - 1 \in 1 .. k /\ i - 1 < k /\ g[i - 1] = f[i - 1]
      OBVIOUS
    <3>2. CASE i = k
      BY <3>1, <3>2
    <3>3. CASE i < k
      <4>1. i \in 1 .. k - 1 /\ g[i] = f[i]
        BY <3>3
      <4>2. f[i] = IF i = 1 THEN s[i] ELSE f[i - 1] \o s[i]
        BY <2>1, <2>2, <4>1, FlattensAt
      <4> QED
        BY <3>1, <4>1, <4>2
    <3> QED
      BY <3>2, <3>3
  <2>4. Flattens(g, s, k)
    BY <2>3 DEF Flattens
  <2> QED
    BY <2>4
<1> QED
  BY <1>3, <1>4

\* It depends on no more of s than the piece in question.
LEMMA FlattenUnique ==
  ASSUME NEW s, NEW t, NEW f, NEW g, NEW n \in Nat, NEW m \in Nat, n <= m,
         Flattens(f, s, n), Flattens(g, t, m), \A i \in 1 .. n : s[i] = t[i]
  PROVE  \A i \in 1 .. n : f[i] = g[i]
<1> DEFINE T == {i \in 1 .. n : f[i] # g[i]}
<1>1. SUFFICES ASSUME T # {} PROVE FALSE
  OBVIOUS
<1>2. PICK k \in T : \A j \in T : ~ (j < k)
  <2>1. T \in SUBSET Nat
    OBVIOUS
  <2> QED
    BY <1>1, <2>1, LeastNumber
<1>3. /\ f[k] = IF k = 1 THEN s[k] ELSE f[k - 1] \o s[k]
      /\ g[k] = IF k = 1 THEN t[k] ELSE g[k - 1] \o t[k]
  <2>1. k \in 1 .. n /\ k \in 1 .. m
    OBVIOUS
  <2> HIDE DEF T
  <2> QED
    BY <2>1, FlattensAt
<1>4. CASE k = 1
  BY <1>3, <1>4
<1>5. CASE k # 1
  <2>1. k - 1 \in 1 .. n /\ k - 1 < k
    BY <1>5
  <2>2. f[k - 1] = g[k - 1]
    BY <1>2, <2>1
  <2> QED
    BY <1>3, <1>5, <2>2
<1> QED
  BY <1>4, <1>5

\* FlattenSeq, unfolded.
LEMMA FlattenIs ==
  ASSUME NEW s, Len(s) \in Nat, Len(s) # 0
  PROVE  \E f : Flattens(f, s, Len(s)) /\ FlattenSeq(s) = f[Len(s)]
<1> DEFINE f == CHOOSE g : Flattens(g, s, Len(s))
<1>1. Flattens(f, s, Len(s))
  BY FlattenExists
<1>2. FlattenSeq(s) = f[Len(s)]
  BY DEF FlattenSeq, Flattens
<1> QED
  BY <1>1, <1>2

\* FlattenSeq makes a sequence of the elements of its pieces.
LEMMA FlattenType ==
  ASSUME NEW S, NEW s \in Seq(Seq(S))
  PROVE  FlattenSeq(s) \in Seq(S)
<1>1. CASE Len(s) = 0
  BY <1>1 DEF FlattenSeq
<1>2. CASE Len(s) # 0
  <2>1. PICK f : Flattens(f, s, Len(s)) /\ FlattenSeq(s) = f[Len(s)]
    BY <1>2, FlattenIs
  <2> DEFINE T == {i \in 1 .. Len(s) : f[i] \notin Seq(S)}
  <2>2. ASSUME T # {} PROVE FALSE
    <3>1. PICK k \in T : \A j \in T : ~ (j < k)
      <4>1. T \in SUBSET Nat
        OBVIOUS
      <4> QED
        BY <2>2, <4>1, LeastNumber
    <3>2. f[k] = IF k = 1 THEN s[k] ELSE f[k - 1] \o s[k]
      BY <2>1, FlattensAt
    <3>3. s[k] \in Seq(S)
      OBVIOUS
    <3>4. k # 1 => f[k - 1] \in Seq(S)
      BY <3>1
    <3>5. f[k] \in Seq(S)
      BY <3>2, <3>3, <3>4
    <3> QED
      BY <3>5
  <2>3. Len(s) \in 1 .. Len(s)
    BY <1>2
  <2> QED
    BY <2>1, <2>2, <2>3
<1> QED
  BY <1>1, <1>2

\* One more piece goes to the end.
LEMMA FlattenAppend ==
  ASSUME NEW S, NEW s \in Seq(Seq(S)), NEW x \in Seq(S)
  PROVE  FlattenSeq(Append(s, x)) = FlattenSeq(s) \o x
<1> DEFINE t == Append(s, x)
           n == Len(s)
<1>1. /\ t \in Seq(Seq(S)) /\ Len(t) = n + 1 /\ n \in Nat /\ t[n + 1] = x
      /\ \A i \in 1 .. n : t[i] = s[i]
  OBVIOUS
<1> HIDE DEF t
<1>2. PICK g : Flattens(g, t, n + 1) /\ FlattenSeq(t) = g[n + 1]
  BY <1>1, FlattenIs
<1>a. n + 1 \in Nat /\ n + 1 \in 1 .. n + 1 /\ (n + 1) - 1 = n /\ n <= n + 1
  BY <1>1
<1> HIDE DEF n
<1>3. g[n + 1] = IF n + 1 = 1 THEN x ELSE g[n] \o x
  <2>1. g[n + 1] = IF n + 1 = 1 THEN t[n + 1] ELSE g[(n + 1) - 1] \o t[n + 1]
    BY <1>2, <1>a, FlattensAt
  <2> QED
    BY <1>1, <1>a, <2>1
<1>4. CASE n = 0
  <2>1. FlattenSeq(s) = <<>> /\ FlattenSeq(t) = x
    BY <1>2, <1>3, <1>4 DEF FlattenSeq, n
  <2> QED
    BY <2>1 DEF t
<1>5. CASE n # 0
  <2>1. PICK f : Flattens(f, s, n) /\ FlattenSeq(s) = f[n]
    BY <1>1, <1>5, FlattenIs DEF n
  <2>2. \A i \in 1 .. n : f[i] = g[i]
    <3>1. (\A i \in 1 .. n : s[i] = t[i]) /\ n \in Nat
      BY <1>1
    <3>2. Flattens(f, s, n) /\ Flattens(g, t, n + 1) /\ n + 1 \in Nat /\ n <= n + 1
      BY <1>2, <1>a, <2>1
    <3> QED
      BY ONLY <3>1, <3>2, FlattenUnique
  <2>3. n \in 1 .. n /\ n + 1 # 1
    BY <1>1, <1>5
  <2>4. FlattenSeq(t) = g[n] \o x
    BY <1>2, <1>3, <2>3
  <2>5. g[n] = FlattenSeq(s)
    BY <2>1, <2>2, <2>3
  <2> QED
    BY <2>4, <2>5 DEF t
<1> QED
  BY <1>4, <1>5

\* The ids of the messages of one role, in order.
Ids(messages, role) ==
  FlattenSeq([i \in DOMAIN messages |->
                IF messages[i].role = role THEN messages[i].ids ELSE <<>>])

Messages == [role : {"user", "assistant", "tool"}, ids : Seq(Nat)]

\* What one more message adds to them.
LEMMA IdsAppend ==
  ASSUME NEW messages \in Seq(Messages), NEW m \in Messages, NEW role
  PROVE  /\ Ids(messages, role) \in Seq(Nat)
         /\ Ids(Append(messages, m), role) =
              IF m.role = role THEN Ids(messages, role) \o m.ids ELSE Ids(messages, role)
<1> DEFINE Piece(msg) == IF msg.role = role THEN msg.ids ELSE <<>>
           Pieces(list) == [i \in DOMAIN list |-> Piece(list[i])]
<1>1. \A msg \in Messages : Piece(msg) \in Seq(Nat)
  BY DEF Messages
<1>2. Pieces(messages) \in Seq(Seq(Nat)) /\ Len(Pieces(messages)) = Len(messages)
  <2>1. \A i \in 1 .. Len(messages) : Piece(messages[i]) \in Seq(Nat)
    BY <1>1
  <2> HIDE DEF Piece
  <2> QED
    BY <2>1
<1>3. Pieces(Append(messages, m)) = Append(Pieces(messages), Piece(m))
  <2> HIDE DEF Piece
  <2>1. Append(messages, m) \in Seq(Messages) /\ Len(Append(messages, m)) = Len(messages) + 1
    OBVIOUS
  <2> QED
    BY <1>2, <2>1
<1>4. FlattenSeq(Pieces(messages)) \in Seq(Nat)
  BY <1>2, FlattenType
<1>5. FlattenSeq(Pieces(Append(messages, m))) = FlattenSeq(Pieces(messages)) \o Piece(m)
  BY <1>1, <1>2, <1>3, FlattenAppend
<1>6. /\ Ids(messages, role) = FlattenSeq(Pieces(messages))
      /\ Ids(Append(messages, m), role) = FlattenSeq(Pieces(Append(messages, m)))
  BY DEF Ids
<1>7. Ids(messages, role) \in Seq(Nat) /\ Ids(messages, role) \o <<>> = Ids(messages, role)
  BY <1>4, <1>6, ConcatEmptySeq
<1>8. CASE m.role = role
  BY <1>5, <1>6, <1>7, <1>8
<1>9. CASE m.role # role
  <2>1. Piece(m) = <<>>
    BY <1>9
  <2> HIDE DEF Pieces, Piece
  <2> QED
    BY <1>5, <1>6, <1>7, <1>9, <2>1
<1> QED
  BY <1>7, <1>8, <1>9

\* The requests made of the model.
Asked(messages) == {i \in DOMAIN messages : messages[i].role = "assistant"}

\* Only the model's answer to a request adds one.
LEMMA AskedAppend ==
  ASSUME NEW messages \in Seq(Messages), NEW m \in Messages
  PROVE  /\ Cardinality(Asked(messages)) \in Nat
         /\ Cardinality(Asked(Append(messages, m))) =
              Cardinality(Asked(messages)) + (IF m.role = "assistant" THEN 1 ELSE 0)
<1> DEFINE n == Len(messages)
           all == Append(messages, m)
<1>1. /\ n \in Nat /\ DOMAIN messages = 1 .. n /\ DOMAIN all = 1 .. n + 1
      /\ all[n + 1] = m /\ \A i \in 1 .. n : all[i] = messages[i]
  OBVIOUS
<1>2. n + 1 \notin Asked(messages) /\ Asked(messages) \subseteq 1 .. n
  BY <1>1 DEF Asked
<1>3. IsFiniteSet(Asked(messages))
  <2>1. 1 \in Int /\ n \in Int
    BY <1>1
  <2>2. IsFiniteSet(1 .. n)
    BY <2>1, FS_Interval
  <2> QED
    BY ONLY <1>2, <2>2, FS_Subset
<1>4. Asked(all) = IF m.role = "assistant" THEN Asked(messages) \cup {n + 1} ELSE Asked(messages)
  <2> HIDE DEF n, all
  <2>1. 1 .. n + 1 = (1 .. n) \cup {n + 1}
    BY <1>1
  <2> QED
    BY <1>1, <2>1 DEF Asked
<1> HIDE DEF n, all
<1>5. Cardinality(Asked(messages)) \in Nat
  BY <1>3, FS_CardinalityType
<1>6. Cardinality(Asked(messages) \cup {n + 1}) = Cardinality(Asked(messages)) + 1
  BY <1>2, <1>3, FS_AddElement
<1> QED
  BY <1>4, <1>5, <1>6 DEF all

----------------------------------------------------------------------------
(* The invariant.                                                          *)

RunStates ==
  [pc : {"idle", "request", "dispatch", "tool"}, step : 0 .. MaxSteps - 1,
   messages : Seq(Messages), queue : Seq([id : Nat, name : Targets]), nextID : Nat,
   steps : Seq(Nat), executed : Seq(Nat), result : {"none", "text", "error", "maxSteps"}]

QueueIds(queue) == [i \in DOMAIN queue |-> queue[i].id]

\* The calls made of the tools are the calls answered and those still queued;
\* the requests made are counted; and a call is executed once before its step
\* is recorded.
Whole(r) ==
  LET calling == r.pc = "tool"
      waiting == r.pc \in {"idle", "request"}
  IN /\ Ids(r.messages, "assistant") = Ids(r.messages, "tool") \o QueueIds(r.queue)
     /\ Cardinality(Asked(r.messages)) = IF waiting THEN r.step ELSE r.step + 1
     /\ waiting => r.queue = <<>>
     /\ calling => r.queue # <<>>
     /\ r.result # "none" => r.pc = "idle"
     /\ r.executed = IF calling THEN Append(r.steps, Head(r.queue).id) ELSE r.steps

RegistryTypes ==
  /\ tools \in [Names -> {None, Manual} \cup Sources]
  /\ toolOrder \in Seq(Names) /\ sources \in Seq(Sources)
  /\ {connected, rejected, toClose, stubborn} \subseteq SUBSET Sources
  /\ closing \in Seq(Sources) /\ closeFailed \in BOOLEAN /\ uses \in [Sources -> 0 .. 2]

RunInv == runs \in 0 .. MaxRuns /\ run \in RunStates /\ Whole(run)

\* While Close is under way, what it was called for and is still connected is to
\* be closed yet, or could not be.
ClosingInv ==
  /\ ToSet(closing) \subseteq toClose /\ toClose \subseteq ToSet(sources)
  /\ \A s \in toClose \cap Owned \cap connected :
       s \in ToSet(closing) \/ (s \in stubborn /\ closeFailed)

\* All of RegistrySound that does not depend on how often a source is used.
RegistryInv ==
  /\ RegistryTypes /\ RegistryAgrees /\ RejectedIsClosed /\ OwnershipRespected
  /\ ClosingInv /\ OriginsRemembered

----------------------------------------------------------------------------
(* What the inputs are.                                                    *)

LEMMA FunctionsAreSeqs ==
  ASSUME NEW S, NEW n \in Nat, NEW f \in [1 .. n -> S]
  PROVE  f \in Seq(S)
OBVIOUS

LEMMA HeadTail ==
  ASSUME NEW S, NEW s \in Seq(S), s # <<>>
  PROVE  Head(s) \in S /\ Tail(s) \in Seq(S) /\ Head(s) = s[1]
OBVIOUS

LEMMA SeqsUpToAreSeqs ==
  ASSUME NEW S, NEW n \in Nat, NEW s \in SeqsUpTo(S, n)
  PROVE  s \in Seq(S)
BY DEF SeqsUpTo

----------------------------------------------------------------------------
(* What the steps of Run make of a run.                                    *)

\* A run not begun, or over, or about to begin.
LEMMA IdleIsWhole ==
  /\ \A how \in {"none", "text", "error", "maxSteps"} :
       Returned(how) \in RunStates /\ Whole(Returned(how))
  /\ Idle = Returned("none")
<1>1. MaxSteps \in Nat \ {0} /\ 0 \in 0 .. MaxSteps - 1
  BY BoundsAssumption
<1>3. Ids(<<>>, "assistant") = <<>> /\ Ids(<<>>, "tool") = <<>> /\ QueueIds(<<>>) = <<>>
  BY DEF Ids, QueueIds, FlattenSeq
<1>4. Cardinality(Asked(<<>>)) = 0
  <2>1. Asked(<<>>) = {}
    BY DEF Asked
  <2> QED
    BY <2>1, FS_EmptySet
<1>6. ASSUME NEW how \in {"none", "text", "error", "maxSteps"}
      PROVE  /\ Returned(how) \in RunStates
             /\ Returned(how).pc = "idle" /\ Returned(how).step = 0
             /\ Returned(how).messages = <<>> /\ Returned(how).queue = <<>>
             /\ Returned(how).steps = <<>> /\ Returned(how).executed = <<>>
  <2>1. Returned(how) = [pc |-> "idle", step |-> 0, messages |-> <<>>, queue |-> <<>>,
                         nextID |-> 0, steps |-> <<>>, executed |-> <<>>, result |-> how]
    BY DEF Returned, Idle
  <2>2. Returned(how) \in RunStates
    BY <1>1, <2>1 DEF RunStates
  <2> QED
    BY <2>1, <2>2
<1>7. ASSUME NEW how \in {"none", "text", "error", "maxSteps"}
      PROVE  Whole(Returned(how))
  <2> DEFINE r == Returned(how)
  <2>1. /\ r.pc = "idle" /\ r.step = 0 /\ r.messages = <<>> /\ r.queue = <<>>
        /\ r.steps = <<>> /\ r.executed = <<>>
    BY <1>7, <1>6
  <2> HIDE DEF r
  <2>2. <<>> \o <<>> = <<>>
    OBVIOUS
  <2>3. Whole(r)
    BY <1>3, <1>4, <2>1, <2>2 DEF Whole
  <2> QED
    BY <2>3 DEF r
<1> QED
  BY <1>6, <1>7 DEF Returned, Idle

\* The user's prompt is the first message.
LEMMA PromptIsWhole ==
  LET begun == [Idle EXCEPT !.pc = "request", !.messages = <<Message("user", <<>>)>>]
  IN begun \in RunStates /\ Whole(begun)
<1> DEFINE begun == [Idle EXCEPT !.pc = "request", !.messages = <<Message("user", <<>>)>>]
           m == Message("user", <<>>)
<1>1. Idle \in RunStates /\ Whole(Idle)
  BY IdleIsWhole
<1>2. m \in Messages /\ m.role = "user" /\ Append(<<>>, m) = <<m>> /\ <<>> \in Seq(Messages)
  BY DEF Messages, Message
<1>3. /\ Ids(<<m>>, "assistant") = Ids(<<>>, "assistant") /\ Ids(<<m>>, "tool") = Ids(<<>>, "tool")
      /\ Cardinality(Asked(<<m>>)) = Cardinality(Asked(<<>>))
  <2> HIDE DEF m
  <2>1. Ids(Append(<<>>, m), "assistant") = Ids(<<>>, "assistant")
    BY <1>2, IdsAppend
  <2>2. Ids(Append(<<>>, m), "tool") = Ids(<<>>, "tool")
    BY <1>2, IdsAppend
  <2>3. Cardinality(Asked(Append(<<>>, m))) = Cardinality(Asked(<<>>))
    <3>1. Cardinality(Asked(<<>>)) \in Nat
      BY <1>2, AskedAppend
    <3>2. Cardinality(Asked(Append(<<>>, m))) = Cardinality(Asked(<<>>)) + 0
      BY <1>2, AskedAppend
    <3> QED
      BY <3>1, <3>2
  <2> QED
    BY <1>2, <2>1, <2>2, <2>3
<1> HIDE DEF m
<1>4. begun \in RunStates
  <2>1. <<m>> \in Seq(Messages)
    BY <1>2
  <2>2. begun = [Idle EXCEPT !.pc = "request", !.messages = <<m>>]
    BY DEF m
  <2> QED
    BY <1>1, <2>1, <2>2 DEF RunStates
<1>5. Whole(begun)
  BY <1>1, <1>3 DEF Whole, Idle, m
<1> QED
  BY <1>4, <1>5

\* A request counted adds the calls it is answered with to those queued.
LEMMA CallsAreWhole ==
  ASSUME NEW r \in RunStates, Whole(r), r.pc = "request", NEW calls \in CallLists
  PROVE  LET ids == [i \in DOMAIN calls |-> r.nextID + i]
             called == [r EXCEPT
               !.pc = "dispatch", !.nextID = @ + Len(calls),
               !.queue = [i \in DOMAIN calls |-> [id |-> ids[i], name |-> calls[i]]],
               !.messages = Append(@, Message("assistant", ids))]
         IN called \in RunStates /\ Whole(called)
<1> DEFINE ids == [i \in DOMAIN calls |-> r.nextID + i]
           queue == [i \in DOMAIN calls |-> [id |-> ids[i], name |-> calls[i]]]
           m == Message("assistant", ids)
           called == [r EXCEPT !.pc = "dispatch", !.nextID = @ + Len(calls), !.queue = queue,
                               !.messages = Append(@, m)]
<1>1. calls \in Seq(Targets)
  BY BoundsAssumption, SeqsUpToAreSeqs DEF CallLists
<1>2. /\ r.nextID \in Nat /\ r.messages \in Seq(Messages) /\ r.step \in Nat
      /\ r.queue = <<>> /\ r.executed = r.steps
      /\ Ids(r.messages, "assistant") = Ids(r.messages, "tool") \o QueueIds(<<>>)
      /\ Cardinality(Asked(r.messages)) = r.step
  BY BoundsAssumption DEF RunStates, Whole
<1>3. /\ ids \in Seq(Nat) /\ queue \in Seq([id : Nat, name : Targets])
      /\ Len(calls) \in Nat
  <2>1. Len(calls) \in Nat /\ DOMAIN calls = 1 .. Len(calls)
    BY <1>1
  <2>2. \A i \in 1 .. Len(calls) : ids[i] \in Nat /\ calls[i] \in Targets
    BY <1>1, <1>2
  <2>3. ids \in Seq(Nat)
    BY <1>2, <2>1
  <2>4. \A i \in 1 .. Len(calls) : [id |-> ids[i], name |-> calls[i]] \in [id : Nat, name : Targets]
    <3> HIDE DEF ids
    <3> QED
      BY <2>2
  <2>5. queue \in [1 .. Len(calls) -> [id : Nat, name : Targets]]
    <3> HIDE DEF ids
    <3> QED
      BY <2>1, <2>4
  <2> HIDE DEF queue
  <2>6. queue \in Seq([id : Nat, name : Targets])
    BY ONLY <2>1, <2>5, FunctionsAreSeqs
  <2> QED
    BY <2>1, <2>3, <2>6
<1>4. m \in Messages /\ m.role = "assistant" /\ m.ids = ids
  BY <1>3 DEF Messages, Message
<1>5. QueueIds(queue) = ids
  BY <1>1 DEF QueueIds
<1> HIDE DEF ids, queue, m
<1>6. called \in RunStates
  <2>1. r.nextID + Len(calls) \in Nat /\ Append(r.messages, m) \in Seq(Messages)
    BY <1>2, <1>3, <1>4
  <2> QED
    BY <1>3, <2>1 DEF RunStates
<1>7. Ids(Append(r.messages, m), "assistant") = Ids(Append(r.messages, m), "tool") \o ids
  <2>1. Ids(Append(r.messages, m), "assistant") = Ids(r.messages, "assistant") \o ids
    BY <1>2, <1>4, IdsAppend
  <2>2. Ids(Append(r.messages, m), "tool") = Ids(r.messages, "tool")
    BY <1>2, <1>4, IdsAppend
  <2>3. Ids(r.messages, "tool") \in Seq(Nat)
    BY <1>2, <1>4, IdsAppend
  <2>4. Ids(r.messages, "assistant") = Ids(r.messages, "tool")
    <3>1. QueueIds(<<>>) = <<>>
      BY DEF QueueIds
    <3> QED
      BY <1>2, <2>3, <3>1, ConcatEmptySeq
  <2> QED
    BY <2>1, <2>2, <2>4
<1>8. Cardinality(Asked(Append(r.messages, m))) = r.step + 1
  BY <1>2, <1>4, AskedAppend
<1>9. /\ called.pc = "dispatch" /\ called.queue = queue /\ called.step = r.step
      /\ called.messages = Append(r.messages, m)
      /\ called.executed = r.executed /\ called.steps = r.steps /\ called.result = r.result
  BY DEF RunStates
<1>10. Whole(called)
  <2> HIDE DEF called
  <2> QED
    BY <1>2, <1>5, <1>7, <1>8, <1>9 DEF Whole
<1> QED
  BY <1>6, <1>10 DEF ids, queue, m

\* A call answered moves from the queue to the answers.
LEMMA AnswerIsWhole ==
  ASSUME NEW r \in RunStates, Whole(r), r.pc \in {"dispatch", "tool"}, r.queue # <<>>,
         NEW steps \in Seq(Nat), steps = r.executed
  PROVE  LET next == [r EXCEPT
               !.pc = "dispatch", !.queue = Tail(@),
               !.messages = Append(@, Message("tool", <<Head(r.queue).id>>)), !.steps = steps]
         IN next \in RunStates /\ Whole(next)
<1> DEFINE m == Message("tool", <<Head(r.queue).id>>)
           next == [r EXCEPT !.pc = "dispatch", !.queue = Tail(@),
                             !.messages = Append(@, m), !.steps = steps]
<1>1. /\ r.messages \in Seq(Messages) /\ r.queue \in Seq([id : Nat, name : Targets])
      /\ Ids(r.messages, "assistant") = Ids(r.messages, "tool") \o QueueIds(r.queue)
      /\ Cardinality(Asked(r.messages)) = r.step + 1
  BY DEF RunStates, Whole
<1>2. /\ Head(r.queue).id \in Nat /\ Tail(r.queue) \in Seq([id : Nat, name : Targets])
      /\ Head(r.queue) = r.queue[1]
  <2>1. /\ Head(r.queue) \in [id : Nat, name : Targets]
        /\ Tail(r.queue) \in Seq([id : Nat, name : Targets]) /\ Head(r.queue) = r.queue[1]
    BY <1>1, HeadTail
  <2> QED
    BY <2>1
<1>3. m \in Messages /\ m.role = "tool" /\ m.ids = <<Head(r.queue).id>>
  BY <1>2 DEF Messages, Message
<1>4. /\ QueueIds(r.queue) = <<Head(r.queue).id>> \o QueueIds(Tail(r.queue))
      /\ QueueIds(Tail(r.queue)) \in Seq(Nat)
  <2> DEFINE q == r.queue
             C == [id : Nat, name : Targets]
  <2>1. q \in Seq(C) /\ q # <<>> /\ \A c \in C : c.id \in Nat
    BY <1>1
  <2>2. Tail(q) = [i \in 1 .. Len(q) - 1 |-> q[i + 1]]
    BY <2>1
  <2> HIDE DEF q, C
  <2>3. Len(q) \in Nat /\ Len(q) > 0 /\ \A i \in 1 .. Len(q) : q[i].id \in Nat
    BY <2>1
  <2>4. QueueIds(q) = [i \in 1 .. Len(q) |-> q[i].id]
    BY <2>1 DEF QueueIds
  <2>5. QueueIds(Tail(q)) = [i \in 1 .. Len(q) - 1 |-> q[i + 1].id]
    BY <2>2, <2>3 DEF QueueIds
  <2>6. QueueIds(q) \in Seq(Nat) /\ QueueIds(Tail(q)) \in Seq(Nat)
    <3>1. QueueIds(q) \in [1 .. Len(q) -> Nat]
      BY <2>3, <2>4
    <3>2. QueueIds(Tail(q)) \in [1 .. Len(q) - 1 -> Nat] /\ Len(q) - 1 \in Nat
      BY <2>3, <2>5
    <3> QED
      BY ONLY <2>3, <3>1, <3>2, FunctionsAreSeqs
  <2>7. QueueIds(q) = <<q[1].id>> \o QueueIds(Tail(q))
    BY <2>3, <2>4, <2>5, <2>6
  <2> QED
    BY <1>2, <2>6, <2>7 DEF q
<1> HIDE DEF m
<1>5. next \in RunStates
  <2>1. Append(r.messages, m) \in Seq(Messages)
    BY <1>1, <1>3
  <2> QED
    BY <1>2, <2>1 DEF RunStates
<1>6. Ids(Append(r.messages, m), "assistant") =
        Ids(Append(r.messages, m), "tool") \o QueueIds(Tail(r.queue))
  <2>1. Ids(Append(r.messages, m), "assistant") = Ids(r.messages, "assistant")
    BY <1>1, <1>3, IdsAppend
  <2>2. Ids(Append(r.messages, m), "tool") = Ids(r.messages, "tool") \o <<Head(r.queue).id>>
    BY <1>1, <1>3, IdsAppend
  <2>3. Ids(r.messages, "tool") \in Seq(Nat)
    BY <1>1, <1>3, IdsAppend
  <2>4. (Ids(r.messages, "tool") \o <<Head(r.queue).id>>) \o QueueIds(Tail(r.queue)) =
          Ids(r.messages, "tool") \o (<<Head(r.queue).id>> \o QueueIds(Tail(r.queue)))
    <3>1. <<Head(r.queue).id>> \in Seq(Nat)
      BY <1>2
    <3> QED
      BY ONLY <1>4, <2>3, <3>1, ConcatAssociative
  <2> QED
    BY <1>1, <1>4, <2>1, <2>2, <2>4
<1>7. Cardinality(Asked(Append(r.messages, m))) = r.step + 1
  <2>1. Cardinality(Asked(r.messages)) \in Nat
    BY <1>1, <1>3, AskedAppend
  <2>2. Cardinality(Asked(Append(r.messages, m))) = Cardinality(Asked(r.messages)) + 0
    BY <1>1, <1>3, AskedAppend
  <2> QED
    BY <1>1, <2>1, <2>2
<1>8. /\ next.pc = "dispatch" /\ next.queue = Tail(r.queue) /\ next.step = r.step
      /\ next.messages = Append(r.messages, m)
      /\ next.executed = r.executed /\ next.steps = r.executed /\ next.result = r.result
  BY DEF RunStates
<1>9. Whole(next)
  <2> HIDE DEF next
  <2> QED
    BY <1>6, <1>7, <1>8 DEF Whole
<1> QED
  BY <1>5, <1>9 DEF m

----------------------------------------------------------------------------
(* Run: a lemma for each of its actions.                                   *)

LEMMA RefuseKeeps ==
  ASSUME run \in RunStates, Whole(run), DispatchRefuses
  PROVE  run' \in RunStates /\ Whole(run')
<1>1. /\ run.pc = "dispatch" /\ run.queue # <<>> /\ run' = Answered
  BY DEF DispatchRefuses, Dispatching
<1>2. run.steps \in Seq(Nat) /\ run.steps = run.executed
  BY <1>1 DEF RunStates, Whole
<1> DEFINE next == [run EXCEPT
             !.pc = "dispatch", !.queue = Tail(@),
             !.messages = Append(@, Message("tool", <<Head(run.queue).id>>)), !.steps = run.steps]
<1>3. next \in RunStates /\ Whole(next)
  BY <1>1, <1>2, AnswerIsWhole
<1>4. Answered = next
  BY DEF RunStates, Answered
<1> QED
  BY <1>1, <1>3, <1>4

LEMMA ToolStartsKeeps ==
  ASSUME run \in RunStates, Whole(run), ToolStarts
  PROVE  run' \in RunStates /\ Whole(run')
<1> DEFINE id == Head(run.queue).id
<1>1. /\ run.pc = "dispatch" /\ run.queue # <<>>
      /\ run' = [run EXCEPT !.pc = "tool", !.executed = Append(@, id)]
  BY DEF ToolStarts, Dispatching
<1>2. id \in Nat
  <2>1. run.queue \in Seq([id : Nat, name : Targets])
    BY DEF RunStates
  <2>2. Head(run.queue) \in [id : Nat, name : Targets]
    BY <1>1, <2>1, HeadTail
  <2> QED
    BY <2>2
<1> HIDE DEF id
<1>3. run' \in RunStates
  <2>1. Append(run.executed, id) \in Seq(Nat)
    BY <1>2 DEF RunStates
  <2> QED
    BY <1>1, <2>1 DEF RunStates
<1>4. /\ run'.pc = "tool" /\ run'.queue = run.queue /\ run'.step = run.step
      /\ run'.messages = run.messages /\ run'.steps = run.steps /\ run'.result = run.result
      /\ run'.executed = Append(run.executed, id)
  BY <1>1 DEF RunStates
<1>5. Whole(run')
  BY <1>1, <1>4 DEF Whole, id
<1> QED
  BY <1>3, <1>5

LEMMA ToolAnswersKeeps ==
  ASSUME run \in RunStates, Whole(run), ToolAnswers
  PROVE  run' \in RunStates /\ Whole(run')
<1> DEFINE steps == Append(run.steps, Head(run.queue).id)
           next == [run EXCEPT
             !.pc = "dispatch", !.queue = Tail(@),
             !.messages = Append(@, Message("tool", <<Head(run.queue).id>>)), !.steps = steps]
<1>1. run.pc = "tool" /\ run' = [Answered EXCEPT !.steps = steps]
  BY DEF ToolAnswers, Answered, RunStates
<1>2. run.queue # <<>> /\ steps = run.executed /\ run.executed \in Seq(Nat)
  BY <1>1 DEF Whole, RunStates
<1>3. next \in RunStates /\ Whole(next)
  BY <1>1, <1>2, AnswerIsWhole
<1>4. [Answered EXCEPT !.steps = steps] = next
  BY DEF RunStates, Answered
<1> QED
  BY <1>1, <1>3, <1>4

LEMMA RoundEndsKeeps ==
  ASSUME run \in RunStates, Whole(run), RoundEnds
  PROVE  run' \in RunStates /\ Whole(run')
<1>1. /\ run.pc = "dispatch" /\ run.queue = <<>>
      /\ run' = IF run.step + 1 = MaxSteps THEN Returned("maxSteps")
                ELSE [run EXCEPT !.step = @ + 1, !.pc = "request"]
  BY DEF RoundEnds, RoundOver
<1>2. CASE run.step + 1 = MaxSteps
  BY <1>1, <1>2, IdleIsWhole
<1>3. CASE run.step + 1 # MaxSteps
  <2>1. run' = [run EXCEPT !.step = @ + 1, !.pc = "request"]
    BY <1>1, <1>3
  <2>2. run.step + 1 \in 0 .. MaxSteps - 1
    <3>1. run.step \in 0 .. MaxSteps - 1 /\ MaxSteps \in Nat
      BY BoundsAssumption DEF RunStates
    <3> QED
      BY <1>3, <3>1
  <2>3. run' \in RunStates
    BY <2>1, <2>2 DEF RunStates
  <2>4. /\ run'.pc = "request" /\ run'.queue = run.queue /\ run'.step = run.step + 1
        /\ run'.messages = run.messages /\ run'.steps = run.steps /\ run'.result = run.result
        /\ run'.executed = run.executed
    BY <2>1 DEF RunStates
  <2>5. Whole(run')
    BY <1>1, <2>4 DEF Whole
  <2> QED
    BY <2>3, <2>5
<1> QED
  BY <1>2, <1>3

LEMMA RunAnswersKeeps ==
  ASSUME run \in RunStates, Whole(run), RunAnswers
  PROVE  run' \in RunStates /\ Whole(run')
<1> DEFINE ended == Returned("text")
<1>1. /\ run.pc = "request"
      /\ run' = [ended EXCEPT !.steps = run.steps, !.executed = run.executed]
  BY DEF RunAnswers
<1>2. ended \in RunStates /\ Whole(ended) /\ ended.pc = "idle"
  BY IdleIsWhole DEF Returned, Idle
<1>3. run.steps = run.executed /\ run.steps \in Seq(Nat)
  BY <1>1 DEF Whole, RunStates
<1> HIDE DEF ended
<1>4. run' \in RunStates
  BY <1>1, <1>2, <1>3 DEF RunStates
<1>5. /\ run'.pc = ended.pc /\ run'.queue = ended.queue /\ run'.step = ended.step
      /\ run'.messages = ended.messages /\ run'.steps = run.steps /\ run'.result = ended.result
      /\ run'.executed = run.executed
  BY <1>1, <1>2 DEF RunStates
<1>6. Whole(run')
  BY <1>2, <1>3, <1>5 DEF Whole
<1> QED
  BY <1>4, <1>6

\* Run, whatever the model, the tools and the servers do.
LEMMA RunStepKeeps ==
  ASSUME run \in RunStates, Whole(run), RunStep
  PROVE  run' \in RunStates /\ Whole(run') /\ runs' = runs
<1>1. CASE RunFails
  BY <1>1, IdleIsWhole DEF RunFails
<1>2. CASE RunAnswers
  BY <1>2, RunAnswersKeeps DEF RunAnswers
<1>3. CASE DispatchRefuses
  BY <1>3, RefuseKeeps DEF DispatchRefuses
<1>4. CASE ToolStarts
  BY <1>4, ToolStartsKeeps DEF ToolStarts
<1>5. CASE ToolAnswers
  BY <1>5, ToolAnswersKeeps DEF ToolAnswers
<1>6. CASE RoundEnds
  BY <1>6, RoundEndsKeeps DEF RoundEnds
<1>7. ASSUME NEW calls \in CallLists, RunCalls(calls)
      PROVE  run' \in RunStates /\ Whole(run') /\ runs' = runs
  BY <1>7, CallsAreWhole DEF RunCalls
<1> QED
  BY <1>1, <1>2, <1>3, <1>4, <1>5, <1>6, <1>7 DEF RunStep

LEMMA RunInvHolds == Spec => []RunInv
<1>1. Init => RunInv
  <2> SUFFICES ASSUME Init PROVE RunInv
    OBVIOUS
  <2>1. runs = 0 /\ run = Idle
    BY DEF Init
  <2>2. 0 \in 0 .. MaxRuns
    BY BoundsAssumption
  <2> QED
    BY <2>1, <2>2, IdleIsWhole DEF RunInv
<1>2. RunInv /\ [Next]_vars => RunInv'
  <2> SUFFICES ASSUME RunInv, [Next]_vars PROVE RunInv'
    OBVIOUS
  <2> USE DEF RunInv
  <2>1. ASSUME NEW n \in Names, RegisterTool(n) PROVE RunInv'
    BY <2>1 DEF RegisterTool
  <2>2. ASSUME NEW s \in Sources, NEW ok, UseListFails(s, ok) PROVE RunInv'
    BY <2>2 DEF UseListFails, Rejects
  <2>3. ASSUME NEW s \in Sources, NEW list, NEW ok, UseCollides(s, list, ok) PROVE RunInv'
    BY <2>3 DEF UseCollides, Rejects
  <2>4. ASSUME NEW s \in Sources, NEW list, UseMcpServer(s, list) PROVE RunInv'
    BY <2>4 DEF UseMcpServer
  <2>5. ASSUME CloseBegins \/ \E ok : CloseOne(ok) PROVE RunInv'
    BY <2>5 DEF CloseBegins, CloseOne, CloseTurn
  <2>6. CASE RunStart
    <3>1. runs' = runs + 1 /\ runs < MaxRuns
          /\ run' = [Idle EXCEPT !.pc = "request", !.messages = <<Message("user", <<>>)>>]
      BY <2>6 DEF RunStart
    <3>2. runs' \in 0 .. MaxRuns
      BY <3>1, BoundsAssumption
    <3> QED
      BY <3>1, <3>2, PromptIsWhole
  <2>7. CASE RunStep
    BY <2>7, RunStepKeeps
  <2>8. CASE UNCHANGED vars
    BY <2>8 DEF vars
  <2> QED
    BY <2>1, <2>2, <2>3, <2>4, <2>5, <2>6, <2>7, <2>8 DEF Next
<1> QED
  BY <1>1, <1>2, PTL DEF Spec

\* The calls answered are the first of the calls made, and all of them when
\* the model is asked again; it is asked at most MaxSteps times; and a Run that
\* succeeds reports each tool it executed.
THEOREM NoCallUnanswered == Spec => []TranscriptIsWhole
<1>1. RunInv => TranscriptIsWhole
  <2> SUFFICES ASSUME RunInv PROVE TranscriptIsWhole
    OBVIOUS
  <2> DEFINE asked == Ids(run.messages, "assistant")
             answered == Ids(run.messages, "tool")
             queued == QueueIds(run.queue)
  <2>1. asked = IdsOf("assistant") /\ answered = IdsOf("tool")
    BY DEF IdsOf, Ids
  <2>2. /\ run.messages \in Seq(Messages) /\ run.queue \in Seq([id : Nat, name : Targets])
        /\ asked = answered \o queued
    BY DEF RunInv, RunStates, Whole
  <2>3. answered \in Seq(Nat)
    <3>1. [role |-> "user", ids |-> <<>>] \in Messages
      BY DEF Messages
    <3> QED
      BY <2>2, <3>1, IdsAppend
  <2>4. queued \in Seq(Nat)
    <3>1. Len(run.queue) \in Nat /\ DOMAIN run.queue = 1 .. Len(run.queue)
      BY <2>2
    <3>2. \A i \in 1 .. Len(run.queue) : run.queue[i].id \in Nat
      <4> DEFINE C == [id : Nat, name : Targets]
      <4>1. \A i \in 1 .. Len(run.queue) : run.queue[i] \in C
        <5> HIDE DEF C
        <5> SUFFICES run.queue \in Seq(C)
          OBVIOUS
        <5> QED
          BY <2>2 DEF C
      <4> QED
        BY <4>1
    <3>3. queued \in [1 .. Len(run.queue) -> Nat]
      BY <3>1, <3>2 DEF QueueIds
    <3> QED
      BY ONLY <3>1, <3>3, FunctionsAreSeqs
  <2>5. run.pc = "request" => asked = answered
    <3>1. run.pc = "request" => queued = <<>>
      BY DEF RunInv, Whole, QueueIds
    <3> HIDE DEF asked, answered, queued
    <3> QED
      BY <2>2, <2>3, <3>1, ConcatEmptySeq
  <2>6. IsPrefix(answered, asked)
    <3> HIDE DEF asked, answered, queued
    <3> QED
      BY <2>2, <2>3, <2>4 DEF IsPrefix
  <2>7. EveryCallAnswered
    <3> HIDE DEF asked, answered, queued
    <3> QED
      BY <2>1, <2>5, <2>6 DEF EveryCallAnswered
  <2>8. RequestsBounded
    <3>1. /\ run.pc = "request" => Cardinality(Asked(run.messages)) = run.step
          /\ run.step \in 0 .. MaxSteps - 1 /\ MaxSteps \in Nat
      BY BoundsAssumption DEF RunInv, RunStates, Whole
    <3>2. run.pc = "request" => Cardinality(Asked(run.messages)) < MaxSteps
      BY <3>1
    <3> QED
      BY <3>2 DEF RequestsBounded, Asked
  <2>9. StepsTellAll
    BY DEF RunInv, Whole, RunStates, StepsTellAll
  <2> QED
    BY <2>7, <2>8, <2>9 DEF TranscriptIsWhole
<1> QED
  BY <1>1, RunInvHolds, PTL

----------------------------------------------------------------------------
(* The registry.                                                           *)

LEMMA ToSetAppend ==
  ASSUME NEW S, NEW s \in Seq(S), NEW x \in S
  PROVE  ToSet(Append(s, x)) = ToSet(s) \cup {x}
<1> DEFINE t == Append(s, x)
<1>1. /\ Len(s) \in Nat /\ DOMAIN t = (1 .. Len(s)) \cup {Len(s) + 1}
      /\ DOMAIN s = 1 .. Len(s) /\ t[Len(s) + 1] = x
      /\ \A i \in 1 .. Len(s) : t[i] = s[i]
  OBVIOUS
<1> HIDE DEF t
<1>2. ToSet(t) = ToSet(s) \cup {x}
  BY <1>1 DEF ToSet
<1> QED
  BY <1>2 DEF t

LEMMA ToSetConcat ==
  ASSUME NEW S, NEW s \in Seq(S), NEW u \in Seq(S)
  PROVE  ToSet(s \o u) = ToSet(s) \cup ToSet(u)
<1> DEFINE c == s \o u
<1>1. /\ Len(s) \in Nat /\ Len(u) \in Nat /\ DOMAIN c = 1 .. Len(s) + Len(u)
      /\ DOMAIN s = 1 .. Len(s) /\ DOMAIN u = 1 .. Len(u)
      /\ \A i \in 1 .. Len(s) : c[i] = s[i]
      /\ \A i \in Len(s) + 1 .. Len(s) + Len(u) : c[i] = u[i - Len(s)]
  OBVIOUS
<1> HIDE DEF c
<1>2. \A i \in DOMAIN c : c[i] \in ToSet(s) \cup ToSet(u)
  BY <1>1 DEF ToSet
<1>3. \A i \in DOMAIN u : Len(s) + i \in DOMAIN c /\ c[Len(s) + i] = u[i]
  BY <1>1
<1>4. \A i \in DOMAIN s : i \in DOMAIN c /\ c[i] = s[i]
  BY <1>1
<1>5. ToSet(c) = ToSet(s) \cup ToSet(u)
  BY <1>2, <1>3, <1>4 DEF ToSet
<1> QED
  BY <1>5 DEF c

\* Registering one more name under a tool of its own.
LEMMA RegisterKeeps ==
  ASSUME RegistryInv, NEW n \in Names, RegisterTool(n)
  PROVE  RegistryInv'
<1> USE DEF RegistryInv
<1>1. /\ tools[n] = None /\ tools' = [tools EXCEPT ![n] = Manual]
      /\ toolOrder' = Append(toolOrder, n)
      /\ UNCHANGED <<sources, connected, rejected, uses, closing, closeFailed, toClose, stubborn>>
  BY DEF RegisterTool, sourceVars
<1>2. Manual # None /\ Manual \notin Sources /\ None \notin Sources
  BY SourcesAssumption DEF Manual, None
<1>3. RegistryTypes'
  BY <1>1 DEF RegistryTypes
<1>4. Registered' = Registered \cup {n} /\ n \notin Registered
  BY <1>1, <1>2 DEF Registered, RegistryTypes
<1>5. RegistryAgrees'
  <2>1. toolOrder \in Seq(Names) /\ tools \in [Names -> {None, Manual} \cup Sources]
    BY DEF RegistryTypes
  <2>2. ToSet(toolOrder') = ToSet(toolOrder) \cup {n}
    BY <1>1, <2>1, ToSetAppend
  <2>3. n \notin ToSet(toolOrder) /\ ToSet(toolOrder) = Registered
    BY <1>4 DEF RegistryAgrees
  <2>4. ASSUME NEW i \in DOMAIN toolOrder', NEW j \in DOMAIN toolOrder',
               i # j, toolOrder'[i] = toolOrder'[j]
        PROVE  tools'[toolOrder'[i]] \in Sources
    <3>1. i \in DOMAIN toolOrder /\ j \in DOMAIN toolOrder
      BY <1>1, <2>1, <2>3, <2>4 DEF ToSet
    <3>2. toolOrder'[i] = toolOrder[i] /\ toolOrder'[j] = toolOrder[j]
      BY <1>1, <2>1, <3>1
    <3>3. tools[toolOrder[i]] \in Sources
      BY <2>4, <3>1, <3>2 DEF RegistryAgrees
    <3> QED
      BY <1>1, <1>2, <2>1, <3>2, <3>3
  <2> QED
    BY <1>4, <2>2, <2>3, <2>4 DEF RegistryAgrees
<1>6. RejectedIsClosed' /\ OwnershipRespected' /\ ClosingInv'
  BY <1>1 DEF RejectedIsClosed, OwnershipRespected, ClosingInv
<1>7. OriginsRemembered'
  BY <1>1, <1>4 DEF OriginsRemembered, RegistryTypes
<1> QED
  BY <1>3, <1>5, <1>6, <1>7

\* A source rejected is closed, if it is owned and its Close does not fail, and
\* nothing is registered.
LEMMA RejectKeeps ==
  ASSUME RegistryInv, NEW s \in Sources, NEW ok, MayUse(s), Rejects(s, ok), UNCHANGED registryVars
  PROVE  RegistryInv'
<1> USE DEF RegistryInv
<1>1. /\ uses' = [uses EXCEPT ![s] = @ + 1] /\ SourceCloses(s, ok)
      /\ rejected' = rejected \cup {s}
      /\ UNCHANGED <<tools, toolOrder, sources, closing, closeFailed, toClose>>
  BY DEF Rejects, registryVars
<1>2. uses[s] \in 0 .. 1
  BY SourcesAssumption DEF MayUse, RegistryTypes
<1>3. /\ connected' \subseteq connected /\ Sources \ Owned \subseteq connected'
      /\ stubborn \subseteq stubborn' /\ stubborn' \subseteq Sources
      /\ s \in Owned /\ s \in connected' => s \in stubborn'
  BY <1>1, SourcesAssumption DEF SourceCloses, RegistryTypes, OwnershipRespected
<1>4. RegistryTypes'
  BY <1>1, <1>2, <1>3 DEF RegistryTypes
<1>5. RegistryAgrees' /\ OriginsRemembered'
  BY <1>1 DEF RegistryAgrees, OriginsRemembered, Registered
<1>6. RejectedIsClosed' /\ OwnershipRespected' /\ ClosingInv'
  BY <1>1, <1>3 DEF RejectedIsClosed, OwnershipRespected, ClosingInv
<1> QED
  BY <1>4, <1>5, <1>6

\* The tools of a source all go under that source.
LEMMA UseKeeps ==
  ASSUME RegistryInv, NEW s \in Sources, NEW list \in SeqsUpTo(Names, MaxListed),
         UseMcpServer(s, list)
  PROVE  RegistryInv'
<1> USE DEF RegistryInv
<1>1. /\ MayUse(s) /\ s \in connected /\ ~ Taken(list)
      /\ uses' = [uses EXCEPT ![s] = @ + 1]
      /\ tools' = [n \in Names |-> IF n \in ToSet(list) THEN s ELSE tools[n]]
      /\ toolOrder' = toolOrder \o list /\ sources' = Append(sources, s)
      /\ UNCHANGED <<connected, rejected, closing, closeFailed, toClose, stubborn>>
  BY DEF UseMcpServer
<1>2. None \notin Sources
  BY SourcesAssumption
<1>3. list \in Seq(Names)
  BY BoundsAssumption, SeqsUpToAreSeqs
<1>4. /\ toolOrder \in Seq(Names) /\ tools \in [Names -> {None, Manual} \cup Sources]
      /\ sources \in Seq(Sources) /\ uses[s] \in 0 .. 1
  BY <1>1, SourcesAssumption DEF RegistryTypes, MayUse
<1>5. RegistryTypes'
  <2>1. toolOrder' \in Seq(Names) /\ sources' \in Seq(Sources)
    BY <1>1, <1>3, <1>4
  <2>2. tools' \in [Names -> {None, Manual} \cup Sources]
    BY <1>1, <1>4
  <2> QED
    BY <1>1, <1>4, <2>1, <2>2 DEF RegistryTypes
<1>6. \A n \in ToSet(list) : n \in Names /\ tools[n] = None
  BY <1>1, <1>3 DEF ToSet, Taken
<1>7. Registered' = Registered \cup ToSet(list)
  BY <1>1, <1>2, <1>6 DEF Registered
<1>8. RegistryAgrees'
  <2>1. ToSet(toolOrder) = Registered
    BY DEF RegistryAgrees
  <2>2. ToSet(toolOrder') = ToSet(toolOrder) \cup ToSet(list)
    BY <1>1, <1>3, <1>4, ToSetConcat
  <2>3. ASSUME NEW i \in DOMAIN toolOrder', NEW j \in DOMAIN toolOrder',
               i # j, toolOrder'[i] = toolOrder'[j]
        PROVE  tools'[toolOrder'[i]] \in Sources
    <3> DEFINE n == toolOrder'[i]
    <3>1. n \in Names
      BY <1>5 DEF RegistryTypes
    <3>2. CASE n \in ToSet(list)
      BY <1>1, <3>1, <3>2
    <3>3. CASE n \notin ToSet(list)
      <4>1. i \in DOMAIN toolOrder /\ j \in DOMAIN toolOrder
        BY <1>1, <1>3, <1>4, <2>3, <3>3 DEF ToSet
      <4>2. toolOrder'[i] = toolOrder[i] /\ toolOrder'[j] = toolOrder[j]
        BY <1>1, <1>3, <1>4, <4>1
      <4>3. tools[n] \in Sources
        BY <2>3, <4>1, <4>2 DEF RegistryAgrees
      <4> QED
        BY <1>1, <3>1, <3>3, <4>3
    <3> QED
      BY <3>2, <3>3
  <2> QED
    BY <1>7, <2>1, <2>2, <2>3 DEF RegistryAgrees
<1>9. ToSet(sources') = ToSet(sources) \cup {s}
  BY <1>1, <1>4, ToSetAppend
<1>10. RejectedIsClosed' /\ OwnershipRespected' /\ ClosingInv'
  BY <1>1, <1>9 DEF RejectedIsClosed, OwnershipRespected, ClosingInv
<1>11. OriginsRemembered'
  BY <1>1, <1>6, <1>7, <1>9 DEF OriginsRemembered, Registered
<1> QED
  BY <1>5, <1>8, <1>10, <1>11

LEMMA ToSetHeadTail ==
  ASSUME NEW S, NEW s \in Seq(S), s # <<>>
  PROVE  ToSet(s) = {Head(s)} \cup ToSet(Tail(s))
<1> DEFINE t == Tail(s)
<1>1. /\ Len(s) \in Nat /\ Len(s) > 0 /\ DOMAIN s = 1 .. Len(s) /\ Head(s) = s[1]
      /\ DOMAIN t = 1 .. Len(s) - 1 /\ \A i \in 1 .. Len(s) - 1 : t[i] = s[i + 1]
  OBVIOUS
<1> HIDE DEF t
<1>2. \A i \in DOMAIN s : s[i] \in {s[1]} \cup ToSet(t)
  <2> TAKE i \in DOMAIN s
  <2>1. CASE i = 1
    BY <2>1
  <2>2. CASE i # 1
    <3>1. i - 1 \in DOMAIN t /\ t[i - 1] = s[i]
      BY <1>1, <2>2
    <3> QED
      BY <3>1 DEF ToSet
  <2> QED
    BY <2>1, <2>2
<1>3. \A i \in DOMAIN t : t[i] \in ToSet(s)
  <2> TAKE i \in DOMAIN t
  <2>1. i + 1 \in DOMAIN s /\ t[i] = s[i + 1]
    BY <1>1
  <2> QED
    BY <2>1 DEF ToSet
<1>4. s[1] \in ToSet(s)
  BY <1>1 DEF ToSet
<1>5. ToSet(s) = {s[1]} \cup ToSet(t)
  BY <1>2, <1>3, <1>4 DEF ToSet
<1> QED
  BY <1>1, <1>5 DEF t

\* Close is called for every source there is.
LEMMA CloseBeginsKeeps ==
  ASSUME RegistryInv, CloseBegins
  PROVE  RegistryInv'
<1> USE DEF RegistryInv
<1>1. /\ closing' = sources /\ closeFailed' = FALSE /\ toClose' = toClose \cup ToSet(sources)
      /\ UNCHANGED <<tools, toolOrder, sources, connected, rejected, uses, stubborn>>
  BY DEF CloseBegins, registryVars
<1>2. ToSet(sources) \subseteq Sources /\ sources \in Seq(Sources)
  BY DEF RegistryTypes, ToSet
<1>3. RegistryTypes'
  BY <1>1, <1>2 DEF RegistryTypes
<1>4. RegistryAgrees' /\ OriginsRemembered'
  BY <1>1 DEF RegistryAgrees, OriginsRemembered, Registered
<1>5. RejectedIsClosed' /\ OwnershipRespected' /\ ClosingInv'
  BY <1>1 DEF RejectedIsClosed, OwnershipRespected, ClosingInv
<1> QED
  BY <1>3, <1>4, <1>5

\* A source closed, or that could not be, is no more to be closed.
LEMMA CloseOneKeeps ==
  ASSUME RegistryInv, NEW ok \in BOOLEAN, CloseOne(ok)
  PROVE  RegistryInv'
<1> USE DEF RegistryInv
<1> DEFINE s == Head(closing)
<1>1. /\ closing # <<>> /\ SourceCloses(s, ok) /\ closing' = Tail(closing)
      /\ closeFailed' = (closeFailed \/ ~ ok)
      /\ UNCHANGED <<tools, toolOrder, sources, rejected, uses, toClose>>
  BY DEF CloseOne, CloseTurn, registryVars
<1>2. /\ closing \in Seq(Sources) /\ s \in Sources /\ Tail(closing) \in Seq(Sources)
      /\ ToSet(closing) = {s} \cup ToSet(Tail(closing))
  <2>1. closing \in Seq(Sources)
    BY DEF RegistryTypes
  <2> QED
    BY <1>1, <2>1, HeadTail, ToSetHeadTail
<1> HIDE DEF s
<1>3. /\ connected' \subseteq connected /\ Sources \ Owned \subseteq connected'
      /\ stubborn \subseteq stubborn' /\ stubborn' \subseteq Sources
      /\ s \in Owned /\ s \in connected' => s \in stubborn' /\ ~ ok
  BY <1>1, <1>2, SourcesAssumption DEF SourceCloses, RegistryTypes, OwnershipRespected
<1>4. closeFailed' \in BOOLEAN /\ (closeFailed => closeFailed') /\ (~ ok => closeFailed')
  BY <1>1
<1>5. RegistryTypes'
  BY <1>1, <1>2, <1>3, <1>4 DEF RegistryTypes
<1>6. RegistryAgrees' /\ OriginsRemembered'
  BY <1>1 DEF RegistryAgrees, OriginsRemembered, Registered
<1>7. RejectedIsClosed' /\ OwnershipRespected'
  BY <1>1, <1>3 DEF RejectedIsClosed, OwnershipRespected
<1>8. ClosingInv'
  BY <1>1, <1>2, <1>3, <1>4 DEF ClosingInv
<1> QED
  BY <1>5, <1>6, <1>7, <1>8

LEMMA RegistryInvHolds == Spec => []RegistryInv
<1>1. Init => RegistryInv
  <2> SUFFICES ASSUME Init PROVE RegistryInv
    OBVIOUS
  <2>1. /\ tools = [n \in Names |-> None] /\ toolOrder = <<>> /\ sources = <<>>
        /\ connected = Sources /\ rejected = {} /\ uses = [s \in Sources |-> 0]
        /\ closing = <<>> /\ closeFailed = FALSE /\ toClose = {} /\ stubborn = {}
    BY DEF Init
  <2>2. RegistryTypes
    <3>1. tools \in [Names -> {None, Manual} \cup Sources] /\ uses \in [Sources -> 0 .. 2]
      BY <2>1
    <3>2. toolOrder \in Seq(Names) /\ sources \in Seq(Sources) /\ closing \in Seq(Sources)
      BY <2>1
    <3> QED
      BY <2>1, <3>1, <3>2 DEF RegistryTypes
  <2>3. Registered = {} /\ ToSet(toolOrder) = {}
    BY <2>1 DEF Registered, ToSet
  <2>4. RegistryAgrees /\ OriginsRemembered
    BY <2>1, <2>3 DEF RegistryAgrees, OriginsRemembered
  <2>5. RejectedIsClosed /\ OwnershipRespected /\ ClosingInv
    BY <2>1 DEF RejectedIsClosed, OwnershipRespected, ClosingInv, ToSet
  <2> QED
    BY <2>2, <2>4, <2>5 DEF RegistryInv
<1>2. RegistryInv /\ [Next]_vars => RegistryInv'
  <2> SUFFICES ASSUME RegistryInv, [Next]_vars PROVE RegistryInv'
    OBVIOUS
  <2>1. ASSUME NEW s \in Sources, NEW ok, UseListFails(s, ok) PROVE RegistryInv'
    BY <2>1, RejectKeeps DEF UseListFails
  <2>2. ASSUME NEW s \in Sources, NEW list, NEW ok, UseCollides(s, list, ok) PROVE RegistryInv'
    BY <2>2, RejectKeeps DEF UseCollides
  <2>3. ASSUME UNCHANGED <<registryVars, sourceVars>> PROVE RegistryInv'
    BY <2>3 DEF registryVars, sourceVars, RegistryInv, RegistryTypes, RegistryAgrees,
       RejectedIsClosed, OwnershipRespected, ClosingInv, OriginsRemembered, Registered
  <2>4. UNCHANGED vars => UNCHANGED <<registryVars, sourceVars>>
    BY DEF vars
  <2>5. RunStep => UNCHANGED <<registryVars, sourceVars>>
    BY DEF RunStep
  <2> QED
    BY <2>1, <2>2, <2>3, <2>4, <2>5, RegisterKeeps, UseKeeps,
       CloseBeginsKeeps, CloseOneKeeps DEF Next
<1> QED
  BY <1>1, <1>2, PTL DEF Spec

\* When Close is over, nothing is to be closed yet.
LEMMA CloseReached == RegistryInv => CloseReaches
BY DEF RegistryInv, ClosingInv, CloseReaches, ToSet

\* Every variable of an Agent has its type, whoever uses it how often.
THEOREM AgentTypes == Spec => []TypeOK
<1>1. RunInv /\ RegistryInv => TypeOK
  BY DEF RunInv, RegistryInv, RegistryTypes, RunStates, Messages, TypeOK
<1> QED
  BY <1>1, RunInvHolds, RegistryInvHolds, PTL

\* Even if a source is passed to UseMcpServer again: the tools advertised are
\* those dispatched to, a rejected connection is closed if it is the Agent's, and
\* only then, and Close knows where every tool came from. What reuse costs is
\* the connection alone.
THEOREM ReuseCostsConnectionsOnly ==
  Spec => [](/\ RegistryAgrees /\ RejectedIsClosed /\ OwnershipRespected
             /\ CloseReaches /\ OriginsRemembered)
<1>1. RegistryInv => /\ RegistryAgrees /\ RejectedIsClosed /\ OwnershipRespected
                     /\ CloseReaches /\ OriginsRemembered
  BY CloseReached DEF RegistryInv
<1> QED
  BY <1>1, RegistryInvHolds, PTL

\* A source whose tools are registered was used.
SourcesUsed == \A n \in Registered : tools[n] \in Sources => uses[tools[n]] >= 1

\* What keeps a tool's connection open, if no source is used again: a source
\* whose tools are registered cannot be rejected any more.
Connections == SourcesUsed /\ ToolsStayConnected

\* However registrations end, the registry agrees with itself, and connections
\* are closed by whom they belong to, and not before their time.
THEOREM RegistryStaysSound ==
  ASSUME ~ Reuse
  PROVE  Spec => []RegistrySound
<1>1. Init => Connections
  <2> SUFFICES ASSUME Init PROVE Connections
    OBVIOUS
  <2>1. Registered = {}
    BY DEF Init, Registered
  <2> QED
    BY <2>1 DEF Connections, SourcesUsed, ToolsStayConnected
<1>2. RegistryInv /\ Connections /\ [Next]_vars => Connections'
  <2> SUFFICES ASSUME RegistryInv, Connections, [Next]_vars PROVE Connections'
    OBVIOUS
  <2>0. /\ tools \in [Names -> {None, Manual} \cup Sources] /\ uses \in [Sources -> 0 .. 2]
        /\ Manual \notin Sources /\ Owned \subseteq Sources
    BY SourcesAssumption DEF RegistryInv, RegistryTypes
  <2> USE DEF Connections, SourcesUsed, ToolsStayConnected, Registered
  <2>1. ASSUME NEW n \in Names, RegisterTool(n) PROVE Connections'
    BY <2>0, <2>1 DEF RegisterTool, sourceVars
  <2>2. ASSUME NEW s \in Sources, NEW ok, MayUse(s), Rejects(s, ok), UNCHANGED registryVars
        PROVE  Connections'
    <3>1. /\ uses' = [uses EXCEPT ![s] = @ + 1] /\ connected \ {s} \subseteq connected'
          /\ UNCHANGED <<tools, toClose>>
      BY <2>2 DEF Rejects, SourceCloses, registryVars
    <3>2. uses[s] = 0 /\ uses' \in [Sources -> Int] /\ \A u \in Sources : uses'[u] >= uses[u]
      BY <2>0, <2>2, <3>1 DEF MayUse
    <3>3. \A n \in Registered : tools[n] # s
      BY <2>0, <3>2
    <3> QED
      BY <2>0, <3>1, <3>2, <3>3
  <2>3. ASSUME NEW s \in Sources, NEW list, UseMcpServer(s, list) PROVE Connections'
    <3>1. /\ uses' = [uses EXCEPT ![s] = @ + 1] /\ s \in connected
          /\ tools' = [n \in Names |-> IF n \in ToSet(list) THEN s ELSE tools[n]]
          /\ UNCHANGED <<connected, toClose>>
      BY <2>3 DEF UseMcpServer
    <3>2. uses'[s] >= 1 /\ \A u \in Sources : uses'[u] >= uses[u]
      BY <2>0, <3>1
    <3>3. \A n \in Registered' : tools'[n] = s \/ (n \in Registered /\ tools'[n] = tools[n])
      BY <3>1
    <3>4. \A u \in Sources : uses[u] \in Int /\ uses'[u] \in Int
      BY <2>0, <3>1
    <3> QED
      BY <3>1, <3>2, <3>3, <3>4
  <2>4. CASE CloseBegins
    BY <2>4 DEF CloseBegins, registryVars
  <2>10. ASSUME NEW ok, CloseOne(ok) PROVE Connections'
    <3>1. /\ connected \ {Head(closing)} \subseteq connected' /\ closing # <<>>
          /\ UNCHANGED <<tools, toClose, uses>>
      BY <2>10 DEF CloseOne, CloseTurn, SourceCloses, registryVars
    <3>2. Head(closing) \in toClose
      <4>1. closing \in Seq(Sources) /\ ToSet(closing) \subseteq toClose
        BY DEF RegistryInv, RegistryTypes, ClosingInv
      <4> QED
        BY <3>1, <4>1, ToSetHeadTail
    <3> QED
      BY <2>0, <3>1, <3>2
  <2>5. ASSUME UNCHANGED <<registryVars, sourceVars>> PROVE Connections'
    BY <2>5 DEF registryVars, sourceVars
  <2>6. UNCHANGED vars => UNCHANGED <<registryVars, sourceVars>>
    BY DEF vars
  <2>7. RunStep => UNCHANGED <<registryVars, sourceVars>>
    BY DEF RunStep
  <2>8. ASSUME NEW s \in Sources, NEW ok, UseListFails(s, ok) PROVE Connections'
    BY <2>2, <2>8 DEF UseListFails
  <2>9. ASSUME NEW s \in Sources, NEW list, NEW ok, UseCollides(s, list, ok) PROVE Connections'
    BY <2>2, <2>9 DEF UseCollides
  <2> HIDE DEF Connections
  <2> QED
    BY <2>1, <2>3, <2>4, <2>5, <2>6, <2>7, <2>8, <2>9, <2>10 DEF Next
<1>3. RegistryInv /\ Connections => RegistrySound
  BY CloseReached DEF RegistryInv, Connections, RegistrySound
<1> QED
  BY <1>1, <1>2, <1>3, RegistryInvHolds, PTL DEF Spec

============================================================================
