----------------------------- MODULE Media_proofs ------------------------------
(* What is promised of the media of a conversation, proved for every value of *)
(* the constants: the replies of the bridge, the capture and the player of a *)
(* call, the agent's turns, the text bridge, the recording, and the sound: the *)
(* resampler, the detector of speech with its utterances, the WAV parser.      *)
EXTENDS MCMedia, SequenceTheorems, FiniteSetTheorems, WellFoundedInduction, TLAPS

(* The replies of the Voice Agent's bridge *)

\* Appending something greater than all there is keeps a sequence increasing.
LEMMA AppendGrows ==
    ASSUME NEW q \in Seq(Nat), NEW r \in Nat, Increasing(q), \A x \in Elems(q) : x < r
    PROVE  Increasing(Append(q, r)) /\ Elems(Append(q, r)) = Elems(q) \cup {r}
<1> DEFINE a == Append(q, r)
<1>1. /\ a \in Seq(Nat) /\ Len(a) = Len(q) + 1 /\ Len(q) \in Nat
      /\ \A i \in 1..Len(q) : a[i] = q[i] /\ q[i] \in Nat
      /\ a[Len(q) + 1] = r
  OBVIOUS
<1> HIDE DEF a
<1>2. Increasing(a)
  <2> SUFFICES ASSUME NEW i \in 1..Len(a), NEW j \in 1..Len(a), i < j  PROVE a[i] < a[j]
    BY DEF Increasing
  <2>1. i \in 1..Len(q)  BY <1>1
  <2>2. CASE j \in 1..Len(q)  BY <1>1, <2>1, <2>2 DEF Increasing
  <2>3. CASE j = Len(q) + 1
    <3>1. q[i] \in Elems(q)  BY <2>1 DEF Elems
    <3>2. q[i] < r  BY <3>1
    <3>3. a[i] = q[i] /\ a[j] = r  BY <1>1, <2>1, <2>3
    <3>4. QED  BY <1>1, <2>1, <3>2, <3>3
  <2>4. j \in 1..Len(q) \/ j = Len(q) + 1
    <3>1. j \in 1..(Len(q) + 1)  BY <1>1
    <3>2. QED  BY <1>1, <3>1
  <2>5. QED  BY <2>2, <2>3, <2>4
<1>3. Elems(a) = Elems(q) \cup {r}
  <2>1. ASSUME NEW i \in 1..Len(a)  PROVE a[i] \in Elems(q) \cup {r}
    <3>1. CASE i \in 1..Len(q)  BY <1>1, <3>1 DEF Elems
    <3>2. CASE i = Len(q) + 1  BY <1>1, <3>2
    <3>3. QED  BY <1>1, <2>1, <3>1, <3>2
  <2>2. ASSUME NEW i \in 1..Len(q)  PROVE q[i] \in Elems(a)
    <3>1. i \in 1..Len(a) /\ a[i] = q[i]  BY <1>1, <2>2
    <3>2. QED  BY <3>1 DEF Elems
  <2>3. r \in Elems(a)
    <3>1. Len(q) + 1 \in 1..Len(a)  BY <1>1
    <3>2. QED  BY <1>1, <3>1 DEF Elems
  <2>4. QED  BY <2>1, <2>2, <2>3 DEF Elems
<1>4. QED  BY <1>2, <1>3 DEF a

\* The head of an increasing sequence is less than all that follows.
LEMMA TailShrinks ==
    ASSUME NEW q \in Seq(Nat), q # <<>>, Increasing(q)
    PROVE  /\ Increasing(Tail(q))
           /\ Elems(q) = Elems(Tail(q)) \cup {Head(q)}
           /\ \A x \in Elems(Tail(q)) : Head(q) < x
<1> DEFINE b == Tail(q)
<1>1. /\ b \in Seq(Nat) /\ Len(q) \in Nat \ {0} /\ Len(b) = Len(q) - 1
      /\ \A i \in 1..Len(b) : b[i] = q[i + 1]
      /\ Head(q) = q[1]
  OBVIOUS
<1> HIDE DEF b
<1>2. Increasing(b)
  <2> SUFFICES ASSUME NEW i \in 1..Len(b), NEW j \in 1..Len(b), i < j  PROVE b[i] < b[j]
    BY DEF Increasing
  <2>1. i + 1 \in 1..Len(q) /\ j + 1 \in 1..Len(q) /\ i + 1 < j + 1  BY <1>1
  <2>2. q[i + 1] < q[j + 1]  BY <2>1 DEF Increasing
  <2>3. QED  BY <1>1, <2>2
<1>3. \A x \in Elems(b) : q[1] < x
  <2> SUFFICES ASSUME NEW i \in 1..Len(b)  PROVE q[1] < b[i]
    BY DEF Elems
  <2>1. i + 1 \in 1..Len(q) /\ 1 \in 1..Len(q) /\ 1 < i + 1  BY <1>1
  <2>2. q[1] < q[i + 1]  BY <2>1 DEF Increasing
  <2>3. QED  BY <1>1, <2>2
<1>4. Elems(q) = Elems(b) \cup {q[1]}
  <2>1. ASSUME NEW i \in 1..Len(q)  PROVE q[i] \in Elems(b) \cup {q[1]}
    <3>1. CASE i = 1  BY <3>1
    <3>2. CASE i # 1
      <4>1. i - 1 \in 1..Len(b) /\ b[i - 1] = q[(i - 1) + 1] /\ (i - 1) + 1 = i  BY <1>1, <3>2
      <4>2. QED  BY <4>1 DEF Elems
    <3>3. QED  BY <3>1, <3>2
  <2>2. ASSUME NEW i \in 1..Len(b)  PROVE b[i] \in Elems(q)
    <3>1. i + 1 \in 1..Len(q) /\ b[i] = q[i + 1]  BY <1>1
    <3>2. QED  BY <3>1 DEF Elems
  <2>3. q[1] \in Elems(q)
    <3>1. 1 \in 1..Len(q)  BY <1>1
    <3>2. QED  BY <3>1 DEF Elems
  <2>4. QED  BY <2>1, <2>2, <2>3 DEF Elems
<1>5. QED  BY <1>1, <1>2, <1>3, <1>4 DEF b

\* A typed view of the replies: numbers, in the order they are said.
LEMMA RepliesAreNumbers == Replies \subseteq Nat /\ Turns \subseteq Nat /\ 0 \in Replies /\ MaxTurns \in Nat
BY TurnsAssumption DEF Replies, Turns, Greeting

LEMMA ElemsTyped == ASSUME NEW S, NEW q \in Seq(S)  PROVE Elems(q) \subseteq S
BY DEF Elems

LEMMA NatSeq == ASSUME TypeOK  PROVE ready \in Seq(Nat) /\ work \in Seq(Nat)
BY RepliesAreNumbers, SeqMonotonic DEF TypeOK

LEMMA InitHolds == Init => IInv
<1> SUFFICES ASSUME Init  PROVE IInv
  OBVIOUS
<1>1. Elems(<<>>) = {} /\ Increasing(<<>>)
  BY DEF Elems, Increasing
<1>2. Given = {} /\ Parked = {}
  BY <1>1 DEF Init, Given, Parked
<1>3. TypeOK
  <2>1. <<>> \in Seq(Replies) /\ <<>> \in Seq(Turns)  OBVIOUS
  <2>2. heard \in 0..MaxTurns  BY RepliesAreNumbers DEF Init
  <2>3. QED  BY <2>1, <2>2 DEF Init, TypeOK
<1>4. EveryReplyIsKept  BY <1>2 DEF Init, EveryReplyIsKept
<1>5. NobodyWaitsBesideAReply  BY DEF Init, NobodyWaitsBesideAReply
<1>6. RepliesStayInOrder  BY <1>1, <1>2 DEF Init, RepliesStayInOrder
<1>7. InOrderSoFar  BY <1>1 DEF Init, InOrderSoFar
<1>8. QED  BY <1>3, <1>4, <1>5, <1>6, <1>7 DEF IInv

-----------------------------------------------------------------------------
(* Each step keeps the invariant. *)

\* Everyone who waits is told: the current turn, if it waits, is gone on from.
LEMMA ReleaseAllKeeps ==
    ASSUME IInv, ReleaseAll, UNCHANGED <<persona, heard, service>>,
           socket' \in {"none", "connecting", "open", "closing", "closed"}, registered' \in BOOLEAN
    PROVE  IInv'
<1> USE DEF service
<1>1. Given' = Given /\ Parked' = Parked
  BY DEF ReleaseAll, Given, Parked
<1>2. /\ work' \in Seq(Turns)
      /\ Increasing(work') /\ Elems(work') \subseteq Elems(work)
  <2>1. CASE waiting = <<>>  BY <2>1 DEF ReleaseAll, IInv, TypeOK, InOrderSoFar
  <2>2. CASE waiting # <<>>
    <3>1. work # <<>> /\ work \in Seq(Turns) /\ Increasing(work)
      BY <2>2 DEF IInv, NobodyWaitsBesideAReply, TypeOK, InOrderSoFar
    <3>2. work' = Tail(work)  BY <2>2 DEF ReleaseAll
    <3>3. QED  BY <3>1, <3>2, TailShrinks, NatSeq DEF IInv
  <2>3. QED  BY <2>1, <2>2
<1>3. TypeOK'  BY <1>2 DEF ReleaseAll, IInv, TypeOK
<1>4. EveryReplyIsKept'  BY <1>1 DEF ReleaseAll, IInv, EveryReplyIsKept
<1>5. NobodyWaitsBesideAReply'  BY DEF ReleaseAll, NobodyWaitsBesideAReply
<1>6. RepliesStayInOrder'  BY <1>1 DEF ReleaseAll, IInv, RepliesStayInOrder
<1>7. InOrderSoFar'  BY <1>2 DEF ReleaseAll, IInv, InOrderSoFar
<1>8. QED  BY <1>3, <1>4, <1>5, <1>6, <1>7 DEF IInv

\* A step that leaves replies and turns alone.
LEMMA QuietKeeps ==
    ASSUME IInv, UNCHANGED <<heard, service, greeting, welcome, replies>>,
           persona' = persona,
           socket' \in {"none", "connecting", "open", "closing", "closed"}, registered' \in BOOLEAN,
           greeter' \in {greeter, "done"} \/ (greeter = "due" /\ greeter' = "waiting")
    PROVE  IInv'
<1> USE DEF service, replies
<1>1. Given' = Given /\ Parked' = Parked  BY DEF Given, Parked
<1>2. TypeOK'  BY DEF IInv, TypeOK
<1>3. EveryReplyIsKept'  BY <1>1 DEF IInv, EveryReplyIsKept
<1>4. NobodyWaitsBesideAReply'  BY DEF IInv, NobodyWaitsBesideAReply
<1>5. RepliesStayInOrder'  BY <1>1 DEF IInv, RepliesStayInOrder
<1>6. InOrderSoFar'  BY DEF IInv, InOrderSoFar
<1>7. QED  BY <1>2, <1>3, <1>4, <1>5, <1>6 DEF IInv

LEMMA UserTranscriptKeeps == ASSUME IInv, UserTranscript  PROVE IInv'
<1> USE DEF service
<1>1. Given' = Given /\ Parked' = Parked  BY DEF UserTranscript, Given, Parked
<1>2. heard \in Nat /\ heard + 1 \in Turns /\ heard' = heard + 1 /\ heard' \in 0..MaxTurns
  BY RepliesAreNumbers DEF UserTranscript, IInv, TypeOK, Turns
<1>3. /\ work' \in Seq(Turns) /\ Increasing(work')
      /\ Elems(work') \subseteq Elems(work) \cup {heard + 1}
  <2>1. CASE work' = work  BY <2>1 DEF IInv, TypeOK, InOrderSoFar
  <2>2. CASE work' = Append(work, heard + 1)
    <3>1. work \in Seq(Turns) /\ Elems(work) \subseteq Turns
      BY ElemsTyped DEF IInv, TypeOK
    <3>2. ASSUME NEW x \in Elems(work)  PROVE x < heard + 1
      <4>1. x \in Nat /\ x <= heard  BY <3>1, RepliesAreNumbers DEF IInv, InOrderSoFar
      <4>2. QED  BY <1>2, <4>1
    <3>3. QED  BY <1>2, <2>2, <3>1, <3>2, AppendGrows, NatSeq DEF IInv, InOrderSoFar
  <2>3. QED  BY <2>1, <2>2 DEF UserTranscript
<1>4. Elems(work) \subseteq Nat  BY ElemsTyped, RepliesAreNumbers DEF IInv, TypeOK
<1>5. TypeOK'  BY <1>2, <1>3 DEF UserTranscript, IInv, TypeOK
<1>6. EveryReplyIsKept'  BY <1>1 DEF UserTranscript, IInv, EveryReplyIsKept
<1>7. NobodyWaitsBesideAReply'
  <2>1. waiting # <<>> => work' # <<>> /\ Head(work') = Head(work)
    <3>1. CASE work' = work  BY <3>1 DEF IInv, NobodyWaitsBesideAReply
    <3>2. CASE work' = Append(work, heard + 1)
      BY <1>2, <3>2 DEF IInv, NobodyWaitsBesideAReply, TypeOK
    <3>3. QED  BY <3>1, <3>2 DEF UserTranscript
  <2>2. QED  BY <2>1 DEF UserTranscript, IInv, NobodyWaitsBesideAReply
<1>8. RepliesStayInOrder'  BY <1>1 DEF UserTranscript, IInv, RepliesStayInOrder
<1>9. InOrderSoFar'
  <2>1. \A r \in started' : r <= heard'
    BY <1>2, RepliesAreNumbers DEF UserTranscript, IInv, TypeOK, InOrderSoFar
  <2>2. \A t \in Elems(work') : t <= heard'
    BY <1>2, <1>3, <1>4 DEF IInv, InOrderSoFar
  <2>3. \A s \in Turns : answers'[s] # {} => s <= heard' /\ \A t \in Elems(work') : s < t
    BY <1>2, <1>3, <1>4, RepliesAreNumbers DEF UserTranscript, IInv, InOrderSoFar
  <2>4. QED  BY <1>3, <2>1, <2>2, <2>3 DEF UserTranscript, IInv, InOrderSoFar
<1>10. QED  BY <1>5, <1>6, <1>7, <1>8, <1>9 DEF IInv

LEMMA ReplyStartedKeeps == ASSUME IInv, ReplyStarted  PROVE IInv'
<1> USE DEF greetings, replies
<1>1. Given' = Given /\ Parked' = Parked  BY DEF ReplyStarted, Given, Parked
<1>2. heard \in Replies /\ heard \in Nat
  BY RepliesAreNumbers DEF IInv, TypeOK, Replies, Turns, Greeting
<1>3. started' \ speaking' = started \ speaking
  BY DEF ReplyStarted
<1>4. TypeOK'  BY <1>2 DEF ReplyStarted, IInv, TypeOK
<1>5. EveryReplyIsKept'  BY <1>1, <1>3 DEF ReplyStarted, IInv, EveryReplyIsKept
<1>6. NobodyWaitsBesideAReply'  BY DEF ReplyStarted, IInv, NobodyWaitsBesideAReply
<1>7. RepliesStayInOrder'  BY <1>1 DEF ReplyStarted, IInv, RepliesStayInOrder
<1>8. InOrderSoFar'
  <2>1. \A r \in started' : r <= heard'
    BY <1>2 DEF ReplyStarted, IInv, InOrderSoFar
  <2>2. \A q \in started \ speaking : q < heard
    BY <1>2, RepliesAreNumbers DEF ReplyStarted, IInv, TypeOK, InOrderSoFar
  <2>3. QED  BY <1>3, <2>1, <2>2 DEF ReplyStarted, IInv, InOrderSoFar
<1>9. QED  BY <1>4, <1>5, <1>6, <1>7, <1>8 DEF IInv

\* The current turn is among those to be answered, and has no answer.
LEMMA CurrentTurn ==
    ASSUME IInv, work # <<>>
    PROVE  /\ Head(work) \in Turns /\ Head(work) \in Elems(work)
           /\ answers[Head(work)] = {}
           /\ Tail(work) \in Seq(Turns) /\ Increasing(Tail(work))
           /\ Elems(work) = Elems(Tail(work)) \cup {Head(work)}
           /\ \A t \in Elems(Tail(work)) : Head(work) < t
<1>1. work \in Seq(Turns) /\ work \in Seq(Nat) /\ Increasing(work)
  BY NatSeq DEF IInv, TypeOK, InOrderSoFar
<1>2. /\ Increasing(Tail(work))
      /\ Elems(work) = Elems(Tail(work)) \cup {Head(work)}
      /\ \A t \in Elems(Tail(work)) : Head(work) < t
  BY <1>1, TailShrinks
<1>3. Head(work) \in Turns /\ Tail(work) \in Seq(Turns)
  BY <1>1
<1>4. answers[Head(work)] = {}
  <2>1. Head(work) \in Nat /\ ~(Head(work) < Head(work))
    <3>1. \A n \in Nat : ~(n < n)  OBVIOUS
    <3>2. QED  BY <1>3, <3>1, RepliesAreNumbers
  <2>2. QED  BY <1>2, <1>3, <2>1 DEF IInv, InOrderSoFar
<1>5. QED  BY <1>2, <1>3, <1>4

\* The current turn is given something newer than all that was given.
LEMMA HandOver ==
    ASSUME IInv, work # <<>>, NEW r \in Replies, \A q \in Given : q < r,
           Resolve(Head(work), {r})
    PROVE  /\ work' \in Seq(Turns) /\ Increasing(work') /\ Elems(work') \subseteq Elems(work)
           /\ answers' \in [Turns -> SUBSET Replies]
           /\ Given' = Given \cup {r}
           /\ \A s, t \in Turns : s < t => \A p \in answers'[s], q \in answers'[t] : p < q
           /\ \A s, t \in Turns : s # t => answers'[s] \cap answers'[t] = {}
           /\ \A s \in Turns : answers'[s] # {} => s <= heard /\ \A t \in Elems(work') : s < t
<1> DEFINE h == Head(work)
<1>1. /\ h \in Turns /\ h \in Elems(work) /\ answers[h] = {}
      /\ Tail(work) \in Seq(Turns) /\ Increasing(Tail(work))
      /\ Elems(work) = Elems(Tail(work)) \cup {h}
      /\ \A t \in Elems(Tail(work)) : h < t
  BY CurrentTurn
<1> HIDE DEF h
<1>2. answers' = [answers EXCEPT ![h] = {r}] /\ work' = Tail(work)
  BY DEF Resolve, h
<1>3. answers \in [Turns -> SUBSET Replies]  BY DEF IInv, TypeOK
<1>4. \A t \in Turns : answers'[t] = IF t = h THEN {r} ELSE answers[t]
  BY <1>2, <1>3
<1>5. answers' \in [Turns -> SUBSET Replies]  BY <1>2, <1>3
<1>6. Given' = Given \cup {r}
  <2>1. Given' = UNION {answers'[t] : t \in Turns}  BY DEF Given
  <2>2. QED  BY <1>1, <1>4, <2>1 DEF Given
<1>7. \A s \in Turns : answers[s] # {} => s < h /\ s <= heard
  BY <1>1 DEF IInv, InOrderSoFar
<1>8. \A s, t \in Turns : s < t => \A p \in answers'[s], q \in answers'[t] : p < q
  <2> SUFFICES ASSUME NEW s \in Turns, NEW t \in Turns, s < t,
                      NEW p \in answers'[s], NEW q \in answers'[t]
               PROVE  p < q
    OBVIOUS
  <2>1. s \in Nat /\ t \in Nat /\ h \in Nat  BY <1>1, RepliesAreNumbers
  <2>2. CASE s = h
    <3>1. t # h  BY <2>1, <2>2
    <3>2. answers[t] # {}  BY <1>4, <3>1
    <3>3. t < h  BY <1>7, <3>2
    <3>4. QED  BY <2>1, <2>2, <3>3
  <2>3. CASE s # h /\ t = h
    <3>1. p \in answers[s] /\ q = r  BY <1>4, <2>3
    <3>2. p \in Given  BY <3>1 DEF Given
    <3>3. QED  BY <3>1, <3>2
  <2>4. CASE s # h /\ t # h
    BY <1>4, <2>4 DEF IInv, RepliesStayInOrder
  <2>5. QED  BY <2>2, <2>3, <2>4
<1>9. \A s, t \in Turns : s # t => answers'[s] \cap answers'[t] = {}
  <2>1. r \notin Given
    <3>1. r \in Nat  BY RepliesAreNumbers
    <3>2. QED  BY <3>1
  <2>2. \A t \in Turns : r \notin answers[t]  BY <2>1 DEF Given
  <2>3. QED  BY <1>4, <2>2 DEF IInv, EveryReplyIsKept
<1>10. \A s \in Turns : answers'[s] # {} => s <= heard /\ \A t \in Elems(work') : s < t
  <2> SUFFICES ASSUME NEW s \in Turns, answers'[s] # {}
               PROVE  s <= heard /\ \A t \in Elems(work') : s < t
    OBVIOUS
  <2>1. CASE s = h  BY <1>1, <1>2, <2>1 DEF IInv, InOrderSoFar
  <2>2. CASE s # h
    <3>1. answers[s] # {}  BY <1>4, <2>2
    <3>2. QED  BY <1>1, <1>2, <3>1 DEF IInv, InOrderSoFar
  <2>3. QED  BY <2>1, <2>2
<1>11. QED  BY <1>1, <1>2, <1>5, <1>6, <1>8, <1>9, <1>10

\* The current turn is gone on from without a reply.
LEMMA GoneOn ==
    ASSUME IInv, work # <<>>, Resolve(Head(work), {})
    PROVE  /\ work' \in Seq(Turns) /\ Increasing(work') /\ Elems(work') \subseteq Elems(work)
           /\ answers' = answers
<1>1. answers \in [Turns -> SUBSET Replies]  BY DEF IInv, TypeOK
<1>2. answers' = [answers EXCEPT ![Head(work)] = {}] /\ work' = Tail(work)
  BY DEF Resolve
<1>3. answers' = answers  BY <1>1, <1>2, CurrentTurn
<1>4. QED  BY <1>2, <1>3, CurrentTurn

\* A step that only goes on from the current turn.
LEMMA GoneOnKeeps ==
    ASSUME IInv, work # <<>>, Resolve(Head(work), {}), waiting' = <<>>,
           UNCHANGED <<socket, registered, persona, heard, service, greetings, ready>>
    PROVE  IInv'
<1> USE DEF service, greetings
<1>1. /\ work' \in Seq(Turns) /\ Increasing(work') /\ Elems(work') \subseteq Elems(work)
      /\ answers' = answers
  BY GoneOn
<1>2. Given' = Given /\ Parked' = Parked  BY <1>1 DEF Given, Parked
<1>3. TypeOK'  BY <1>1 DEF IInv, TypeOK
<1>4. EveryReplyIsKept'  BY <1>1, <1>2 DEF IInv, EveryReplyIsKept
<1>5. NobodyWaitsBesideAReply'  BY DEF NobodyWaitsBesideAReply
<1>6. RepliesStayInOrder'  BY <1>1, <1>2 DEF IInv, RepliesStayInOrder
<1>7. InOrderSoFar'  BY <1>1 DEF IInv, InOrderSoFar
<1>8. QED  BY <1>3, <1>4, <1>5, <1>6, <1>7 DEF IInv

LEMMA ReplyTimeoutKeeps == ASSUME IInv, ReplyTimeout  PROVE IInv'
<1>1. work # <<>> /\ waiting = <<Head(work)>>
  BY DEF ReplyTimeout, IInv, NobodyWaitsBesideAReply
<1>2. Head(waiting) = Head(work) /\ Tail(waiting) = <<>>
  BY <1>1
<1>3. QED  BY <1>1, <1>2, GoneOnKeeps DEF ReplyTimeout

LEMMA TakeReplyKeeps == ASSUME IInv, TakeReply  PROVE IInv'
<1> USE DEF service, greetings
<1> DEFINE h == Head(work)
<1>1. work # <<>> /\ waiting = <<>>
      /\ UNCHANGED <<socket, registered, persona, heard, service, greetings>>
  BY DEF TakeReply
<1>2. CASE Resolve(h, {}) /\ UNCHANGED <<ready, waiting>>
  BY <1>1, <1>2, GoneOnKeeps
<1>3. CASE /\ ready # <<>>
           /\ Resolve(h, {Head(ready)}) /\ ready' = Tail(ready) /\ UNCHANGED waiting
  <2> DEFINE r == Head(ready)
  <2>1. /\ Increasing(Tail(ready))
        /\ Parked = Parked' \cup {r}
        /\ \A x \in Parked' : r < x
    BY <1>3, TailShrinks, NatSeq DEF IInv, RepliesStayInOrder, Parked
  <2>2. r \in Replies /\ ready' \in Seq(Replies)
    BY <1>3 DEF IInv, TypeOK
  <2>3. r \in Parked /\ \A q \in Given : q < r
    BY <2>1 DEF IInv, RepliesStayInOrder
  <2> HIDE DEF r
  <2>4. Resolve(Head(work), {r})  BY <1>3 DEF r
  <2>5. /\ work' \in Seq(Turns) /\ Increasing(work') /\ Elems(work') \subseteq Elems(work)
        /\ answers' \in [Turns -> SUBSET Replies]
        /\ Given' = Given \cup {r}
        /\ \A s, t \in Turns : s < t => \A p \in answers'[s], q \in answers'[t] : p < q
        /\ \A s, t \in Turns : s # t => answers'[s] \cap answers'[t] = {}
        /\ \A s \in Turns : answers'[s] # {} => s <= heard /\ \A t \in Elems(work') : s < t
    BY <1>1, <2>2, <2>3, <2>4, HandOver
  <2>6. TypeOK'  BY <1>1, <1>3, <2>2, <2>5 DEF IInv, TypeOK
  <2>7. EveryReplyIsKept'
    <3>1. r \notin Parked'
      <4>1. \A n \in Nat : ~(n < n)  OBVIOUS
      <4>2. QED  BY <2>1, <2>2, <4>1, RepliesAreNumbers
    <3>2. Parked' \cap Given' = {}  BY <2>1, <2>5, <3>1 DEF IInv, EveryReplyIsKept
    <3>3. Parked' \cup Given' = Parked \cup Given  BY <2>1, <2>5
    <3>4. QED  BY <1>1, <2>5, <3>2, <3>3 DEF IInv, EveryReplyIsKept
  <2>8. NobodyWaitsBesideAReply'  BY <1>1, <1>3 DEF NobodyWaitsBesideAReply
  <2>9. RepliesStayInOrder'
    <3>1. \A q \in Given', x \in Parked' : q < x
      BY <2>1, <2>5 DEF IInv, RepliesStayInOrder
    <3>2. QED  BY <1>3, <2>1, <2>5, <3>1 DEF RepliesStayInOrder
  <2>10. InOrderSoFar'  BY <1>1, <2>5 DEF IInv, InOrderSoFar
  <2>11. QED  BY <2>6, <2>7, <2>8, <2>9, <2>10 DEF IInv
<1>4. CASE /\ registered /\ ready = <<>> /\ ~closed
           /\ waiting' = <<h>> /\ UNCHANGED <<ready, work, answers>>
  <2>1. Given' = Given /\ Parked' = Parked  BY <1>4 DEF Given, Parked
  <2>2. TypeOK'
    <3>1. waiting' \in Seq(Turns)  BY <1>1, <1>4, CurrentTurn
    <3>2. QED  BY <1>1, <1>4, <3>1 DEF IInv, TypeOK
  <2>3. EveryReplyIsKept'  BY <1>1, <1>4, <2>1 DEF IInv, EveryReplyIsKept
  <2>4. NobodyWaitsBesideAReply'  BY <1>1, <1>4 DEF NobodyWaitsBesideAReply
  <2>5. RepliesStayInOrder'  BY <1>4, <2>1 DEF IInv, RepliesStayInOrder
  <2>6. InOrderSoFar'  BY <1>1, <1>4 DEF IInv, InOrderSoFar
  <2>7. QED  BY <2>2, <2>3, <2>4, <2>5, <2>6 DEF IInv
<1>5. QED  BY <1>2, <1>3, <1>4 DEF TakeReply

\* A finished reply is newer than all that are kept.
LEMMA ReplyDoneKeeps == ASSUME IInv, ReplyDone  PROVE IInv'
<1>1. PICK r \in speaking : SettleReply(r)
  BY DEF ReplyDone
<1>2. /\ speaking = {r} /\ speaking' = {} /\ started' = started /\ r \in started
      /\ r \in Replies /\ r \in Nat
      /\ UNCHANGED <<socket, registered, persona, heard>>
  BY <1>1, RepliesAreNumbers DEF ReplyDone, IInv, TypeOK, InOrderSoFar
<1>3. /\ started' \ speaking' = (started \ speaking) \cup {r}
      /\ r \notin started \ speaking
      /\ \A q \in started \ speaking : q < r
  BY <1>2 DEF IInv, InOrderSoFar
<1>4. /\ r \notin greeting \cup welcome \cup Parked \cup Given
      /\ \A q \in greeting \cup welcome \cup Parked \cup Given : q < r
  BY <1>3 DEF IInv, EveryReplyIsKept
<1>5. CASE heard = 0
  <2>1. /\ UNCHANGED replies
        /\ \/ greeter = "waiting" /\ greeter' = "done" /\ welcome' = {r} /\ UNCHANGED greeting
           \/ greeting' = {r} /\ UNCHANGED <<greeter, welcome>>
    BY <1>1, <1>5 DEF SettleReply
  <2>2. Given' = Given /\ Parked' = Parked  BY <2>1 DEF replies, Given, Parked
  <2>3. started \ speaking = {}
    <3>1. ASSUME NEW q \in started \ speaking  PROVE FALSE
      <4>1. q \in Nat /\ q < r /\ r <= 0
        BY <1>2, <1>3, <1>5, RepliesAreNumbers DEF IInv, TypeOK, InOrderSoFar
      <4>2. QED  BY <1>2, <4>1
    <3>2. QED  BY <3>1
  <2>4. TypeOK'  BY <1>2, <2>1 DEF replies, IInv, TypeOK
  <2>5. EveryReplyIsKept'
    <3>1. greeting = {} /\ welcome = {} /\ Parked = {} /\ Given = {}
      BY <2>3 DEF IInv, EveryReplyIsKept
    <3>2. UNCHANGED answers  BY <2>1 DEF replies
    <3>3. QED  BY <1>2, <1>3, <2>1, <2>2, <2>3, <3>1, <3>2 DEF IInv, EveryReplyIsKept
  <2>6. NobodyWaitsBesideAReply'  BY <2>1 DEF replies, IInv, NobodyWaitsBesideAReply
  <2>7. RepliesStayInOrder'  BY <2>1, <2>2 DEF replies, IInv, RepliesStayInOrder
  <2>8. InOrderSoFar'  BY <1>2, <2>1 DEF replies, IInv, InOrderSoFar
  <2>9. QED  BY <2>4, <2>5, <2>6, <2>7, <2>8 DEF IInv
<1>6. CASE heard # 0 /\ waiting = <<>>
  <2>1. ready' = Append(ready, r) /\ UNCHANGED <<waiting, work, answers, greeting, greeter, welcome>>
    BY <1>1, <1>6 DEF SettleReply, greetings
  <2>2. Increasing(ready') /\ Parked' = Parked \cup {r}
    BY <1>2, <1>4, <2>1, AppendGrows, NatSeq DEF IInv, RepliesStayInOrder, Parked
  <2>3. Given' = Given  BY <2>1 DEF Given
  <2>4. TypeOK'  BY <1>2, <2>1 DEF IInv, TypeOK
  <2>5. EveryReplyIsKept'
    BY <1>3, <1>4, <2>1, <2>2, <2>3 DEF IInv, EveryReplyIsKept
  <2>6. NobodyWaitsBesideAReply'  BY <1>6, <2>1 DEF NobodyWaitsBesideAReply
  <2>7. RepliesStayInOrder'
    BY <1>4, <2>1, <2>2, <2>3 DEF IInv, RepliesStayInOrder
  <2>8. InOrderSoFar'  BY <1>2, <2>1 DEF IInv, InOrderSoFar
  <2>9. QED  BY <2>4, <2>5, <2>6, <2>7, <2>8 DEF IInv
<1>7. CASE heard # 0 /\ waiting # <<>>
  <2>1. work # <<>> /\ waiting = <<Head(work)>> /\ ready = <<>>
    BY <1>7 DEF IInv, NobodyWaitsBesideAReply
  <2>2. Head(waiting) = Head(work) /\ Tail(waiting) = <<>>  BY <2>1
  <2>3. /\ Resolve(Head(work), {r}) /\ waiting' = <<>>
        /\ UNCHANGED <<ready, greeting, greeter, welcome>>
    BY <1>1, <1>7, <2>2 DEF SettleReply, greetings
  <2>4. /\ work' \in Seq(Turns) /\ Increasing(work') /\ Elems(work') \subseteq Elems(work)
        /\ answers' \in [Turns -> SUBSET Replies]
        /\ Given' = Given \cup {r}
        /\ \A s, t \in Turns : s < t => \A p \in answers'[s], q \in answers'[t] : p < q
        /\ \A s, t \in Turns : s # t => answers'[s] \cap answers'[t] = {}
        /\ \A s \in Turns : answers'[s] # {} => s <= heard /\ \A t \in Elems(work') : s < t
    BY <1>2, <1>4, <2>1, <2>3, HandOver
  <2>5. Parked = {} /\ Parked' = {}  BY <2>1, <2>3 DEF Parked, Elems
  <2>6. TypeOK'  BY <1>2, <2>3, <2>4 DEF IInv, TypeOK
  <2>7. EveryReplyIsKept'
    BY <1>3, <1>4, <2>3, <2>4, <2>5 DEF IInv, EveryReplyIsKept
  <2>8. NobodyWaitsBesideAReply'  BY <2>3 DEF NobodyWaitsBesideAReply
  <2>9. RepliesStayInOrder'
    BY <2>3, <2>4, <2>5 DEF IInv, RepliesStayInOrder
  <2>10. InOrderSoFar'  BY <1>2, <2>3, <2>4 DEF IInv, InOrderSoFar
  <2>11. QED  BY <2>6, <2>7, <2>8, <2>9, <2>10 DEF IInv
<1>8. QED  BY <1>5, <1>6, <1>7

LEMMA TakeGreetingKeeps == ASSUME IInv, TakeGreeting  PROVE IInv'
<1>1. /\ greeter = "due" /\ UNCHANGED <<socket, registered, persona, heard, service, replies>>
      /\ socket \in {"none", "connecting", "open", "closing", "closed"} /\ registered \in BOOLEAN
  BY DEF TakeGreeting, IInv, TypeOK
<1>2. CASE UNCHANGED <<welcome, greeting>> /\ greeter' \in {"done", "waiting"}
  BY <1>1, <1>2, QuietKeeps
<1>3. CASE greeter' = "done" /\ welcome' = greeting /\ greeting' = {}
  <2> USE <1>1, <1>3 DEF service, replies
  <2>1. Given' = Given /\ Parked' = Parked /\ welcome = {}
    BY DEF Given, Parked, IInv, InOrderSoFar
  <2>2. TypeOK'  BY DEF IInv, TypeOK
  <2>3. EveryReplyIsKept'  BY <2>1 DEF IInv, EveryReplyIsKept
  <2>4. NobodyWaitsBesideAReply'  BY DEF IInv, NobodyWaitsBesideAReply
  <2>5. RepliesStayInOrder'  BY <2>1 DEF IInv, RepliesStayInOrder
  <2>6. InOrderSoFar'  BY DEF IInv, InOrderSoFar
  <2>7. QED  BY <2>2, <2>3, <2>4, <2>5, <2>6 DEF IInv
<1>4. QED  BY <1>2, <1>3 DEF TakeGreeting

LEMMA NextKeeps == ASSUME IInv, [Next]_vars  PROVE IInv'
<1>0. /\ socket \in {"none", "connecting", "open", "closing", "closed"}
      /\ registered \in BOOLEAN
  BY DEF IInv, TypeOK
<1>1. CASE Open \/ Connected \/ ConnectFails
  BY <1>0, <1>1, QuietKeeps DEF Open, Connected, ConnectFails, greetings
<1>2. CASE Close
  BY <1>0, <1>2, ReleaseAllKeeps DEF Close
<1>3. CASE SocketCloses
  BY <1>0, <1>3, ReleaseAllKeeps DEF SocketCloses
<1>4. CASE UserTranscript  BY <1>4, UserTranscriptKeeps
<1>5. CASE ReplyStarted  BY <1>5, ReplyStartedKeeps
<1>6. CASE ReplyDone  BY <1>6, ReplyDoneKeeps
<1>7. CASE TakeGreeting  BY <1>7, TakeGreetingKeeps
<1>8. CASE TakeReply  BY <1>8, TakeReplyKeeps
<1>9. CASE GreetingTimeout
  BY <1>0, <1>9, QuietKeeps DEF GreetingTimeout
<1>10. CASE ReplyTimeout  BY <1>10, ReplyTimeoutKeeps
<1>11. CASE UNCHANGED vars
  BY <1>0, <1>11, QuietKeeps DEF vars, service, replies
<1>12. QED
  BY <1>1, <1>2, <1>3, <1>4, <1>5, <1>6, <1>7, <1>8, <1>9, <1>10, <1>11
  DEF Next, Service, Asked, Timers

-----------------------------------------------------------------------------
(* The theorems. *)

\* The bookkeeping of one call is right, whatever the service sends.
THEOREM Invariance == Spec => []IInv
<1>1. IInv /\ [Next]_vars => IInv'  BY NextKeeps
<1>2. QED  BY InitHolds, <1>1, PTL DEF Spec

\* Every variable keeps its type, for any number of turns.
THEOREM TypeCorrect == Spec => []TypeOK
<1>1. IInv => TypeOK  BY DEF IInv
<1>2. QED  BY Invariance, <1>1, PTL

\* No reply is lost or handed out twice (settleReply(), takeReply()).
THEOREM RepliesAreKept == Spec => []EveryReplyIsKept
<1>1. IInv => EveryReplyIsKept  BY DEF IInv
<1>2. QED  BY Invariance, <1>1, PTL

\* Nobody waits for a reply that is parked (voiceAgentBridge.ts:149-152).
THEOREM NobodyWaitsInVain == Spec => []NobodyWaitsBesideAReply
<1>1. IInv => NobodyWaitsBesideAReply  BY DEF IInv
<1>2. QED  BY Invariance, <1>1, PTL

\* No turn is given something older than an earlier turn was given, however
\* replies and turns have been shifted by timeouts and skipped turns.
THEOREM OrderIsKept == Spec => []RepliesStayInOrder
<1>1. IInv => RepliesStayInOrder  BY DEF IInv
<1>2. QED  BY Invariance, <1>1, PTL

-----------------------------------------------------------------------------
(* What the rest is proved with *)

\* Of some natural numbers one is the least.
LEMMA LeastOfSome ==
    ASSUME NEW S \in SUBSET Nat, S # {}
    PROVE  \E m \in S : \A k \in S : m <= k
<1> DEFINE R == {r \in Nat \X Nat : r[1] < r[2]}
<1>1. IsWellFoundedOn(R, Nat)
  BY NatLessThanWellFounded DEF OpToRel
<1>2. \A y \in Nat, x \in Nat : <<y, x>> \in R <=> y < x
  OBVIOUS
<1> HIDE DEF R
<1>3. PICK x \in S : \A y \in S : ~(<<y, x>> \in R)
  BY <1>1, WFMin
<1>4. ASSUME NEW k \in S PROVE x <= k
  <2>1. k \in Nat /\ x \in Nat /\ ~(k < x)
    BY <1>2, <1>3
  <2> QED
    BY <2>1
<1> QED
  BY <1>4

-----------------------------------------------------------------------------
(* Capture *)

LEMMA AtMostOne ==
    ASSUME NEW S, NEW x, S \subseteq {x}
    PROVE  Cardinality(S) <= 1
<1>1. IsFiniteSet({x}) /\ Cardinality({x}) = 1
  BY FS_Singleton
<1>2. Cardinality(S) <= Cardinality({x})
  BY <1>1, FS_Subset
<1> QED
  BY <1>1, <1>2

CaptureTypes ==
    /\ trying \subseteq Sources /\ handle \subseteq Sources
    /\ process \in [Sources -> {"none", "running", "stopping", "unborn", "exited", "finished"}]
    /\ stage \in {"answered", "starting", "live", "over"}

\* Who is held, at each stage of the call: nobody, the one that is tried, the one that is heard.
HeldByStage ==
    /\ stage = "answered" => trying = {} /\ handle = {} /\ \A s \in Sources : process[s] = "none"
    /\ stage = "starting" => handle = {} /\ \E s \in Sources : trying = {s}
    /\ stage = "live" => trying = {} /\ \E s \in Sources : handle = {s}
    /\ stage = "over" => trying = {}

RunningIsHeld ==
    /\ \A s \in Sources : process[s] = "running" => s \in trying \cup handle
    /\ stage = "over" => \A s \in Sources : process[s] # "running"

CaptureInv == CaptureTypes /\ HeldByStage /\ RunningIsHeld /\ PinIsKept

LEMMA CaptureStart == CaptureInit => CaptureInv
BY SourcesAssumption
   DEF CaptureInit, CaptureInv, CaptureTypes, HeldByStage, RunningIsHeld, PinIsKept, Sources

LEMMA CaptureSafe == CaptureInv => OnlyOneRuns /\ PinIsKept
<1> SUFFICES ASSUME CaptureInv PROVE Cardinality({s \in Sources : process[s] = "running"}) <= 1
  BY DEF CaptureInv, RunningIsHeld, OnlyOneRuns
<1> DEFINE running == {s \in Sources : process[s] = "running"}
<1>1. \E x : running \subseteq {x}
  BY DEF CaptureInv, CaptureTypes, HeldByStage, RunningIsHeld
<1> HIDE DEF running
<1>2. Cardinality(running) <= 1
  BY <1>1, AtMostOne
<1> QED
  BY <1>2 DEF running

\* A candidate is given up: it is told to stop, and the next one runs or the call is over.
LEMMA GivingUp ==
    ASSUME CaptureInv, NEW s \in trying, NEW p, NEW ends, GiveUp(s, p, ends),
           p \in [Sources -> {"none", "running", "stopping", "unborn", "exited", "finished"}],
           \A t \in Sources : p[t] = process[t] \/ (t = s /\ process[s] # "none" /\ p[s] # "running"),
           pinned' = pinned, handle' = handle
    PROVE  CaptureInv'
<1>1. s \in Sources /\ s \in Nat /\ s + 1 # 1 /\ trying = {s} /\ stage = "starting" /\ handle = {}
  BY DEF CaptureInv, CaptureTypes, HeldByStage, Sources
<1> DEFINE stopped == Stopped(p, s)
<1>2. /\ stopped \in [Sources -> {"none", "running", "stopping", "unborn", "exited", "finished"}]
      /\ \A t \in Sources : stopped[t] # "running"
      /\ pinned => \A t \in Sources \ {1} : stopped[t] = "none"
  BY <1>1 DEF Stopped, CaptureInv, CaptureTypes, RunningIsHeld, PinIsKept
<1> HIDE DEF stopped
<1>3. CASE s + 1 \in Candidates
  <2>1. trying' = {s + 1} /\ process' = [stopped EXCEPT ![s + 1] = "running"] /\ stage' = stage
    BY <1>3 DEF GiveUp, Started, stopped
  <2>2. ~pinned /\ s + 1 \in Sources
    BY <1>1, <1>3 DEF Candidates
  <2>3. CaptureTypes'
    BY <1>1, <1>2, <2>1, <2>2 DEF CaptureTypes
  <2>4. HeldByStage' /\ RunningIsHeld'
    BY <1>1, <1>2, <2>1, <2>2 DEF HeldByStage, RunningIsHeld
  <2>5. PinIsKept'
    BY <2>2 DEF PinIsKept
  <2> QED
    BY <2>3, <2>4, <2>5 DEF CaptureInv
<1>4. CASE s + 1 \notin Candidates
  <2>1. trying' = {} /\ process' = stopped /\ stage' = "over"
    BY <1>4 DEF GiveUp, stopped
  <2> QED
    BY <1>1, <1>2, <2>1 DEF CaptureInv, CaptureTypes, HeldByStage, RunningIsHeld, PinIsKept
<1> QED
  BY <1>3, <1>4

\* Something happens to a source, be it the one that is tried or not.
LEMMA LosingOne ==
    ASSUME CaptureInv, NEW s \in Sources, NEW p, NEW ends, Lost(s, p, ends),
           p \in [Sources -> {"none", "running", "stopping", "unborn", "exited", "finished"}],
           \A t \in Sources : p[t] = process[t] \/ (t = s /\ process[s] # "none" /\ p[s] # "running"),
           pinned' = pinned, handle' = handle
    PROVE  CaptureInv'
<1>1. CASE s \in trying
  <2>1. GiveUp(s, p, ends)
    BY <1>1 DEF Lost
  <2> QED
    BY <1>1, <2>1, GivingUp
<1>2. CASE s \notin trying
  <2>1. process' = p /\ stage' = stage /\ trying' = trying
    BY <1>2 DEF Lost
  <2>2. CaptureTypes' /\ HeldByStage' /\ RunningIsHeld'
    BY <2>1 DEF CaptureInv, CaptureTypes, HeldByStage, RunningIsHeld
  <2>3. PinIsKept'
    BY <2>1 DEF CaptureInv, PinIsKept
  <2> QED
    BY <2>2, <2>3 DEF CaptureInv
<1> QED
  BY <1>1, <1>2

LEMMA CaptureKeeps ==
    ASSUME CaptureInv, [CaptureNext]_captureVars PROVE CaptureInv'
<1> USE DEF CaptureTypes, sink
<1>1. CASE BeginCapture
  BY <1>1, SourcesAssumption
     DEF BeginCapture, Started, CaptureInv, HeldByStage, RunningIsHeld, PinIsKept, Sources
<1>2. CASE StartTimesOut
  BY <1>2, GivingUp DEF StartTimesOut, CaptureInv
<1>3. CASE CallEnds
  <2>1. PICK h \in Sources : handle = {h}
    BY <1>3 DEF CallEnds, CaptureInv, HeldByStage
  <2>2. StopHandle = Stopped(process, h)
    BY <2>1 DEF StopHandle
  <2> QED
    BY <1>3, <2>1, <2>2 DEF CallEnds, Stopped, CaptureInv, HeldByStage, RunningIsHeld, PinIsKept
<1>4. ASSUME NEW s \in Sources, ErrorLine(s) PROVE CaptureInv'
  BY <1>4, LosingOne DEF ErrorLine, CaptureInv
<1>5. ASSUME NEW s \in Sources, SpawnError(s) PROVE CaptureInv'
  <2> DEFINE p == [process EXCEPT ![s] = "unborn"]
  <2>1. /\ p \in [Sources -> {"none", "running", "stopping", "unborn", "exited", "finished"}]
        /\ \A t \in Sources : p[t] = process[t] \/ (t = s /\ process[s] # "none" /\ p[s] # "running")
    BY <1>5 DEF SpawnError, CaptureInv
  <2>2. \E ends : Lost(s, p, ends)
    BY <1>5 DEF SpawnError
  <2>3. pinned' = pinned /\ handle' = handle
    BY <1>5 DEF SpawnError
  <2> HIDE DEF p
  <2> QED
    BY <2>1, <2>2, <2>3, LosingOne
<1>6. ASSUME NEW s \in Sources, Records(s) \/ ReadSamples(s) PROVE CaptureInv'
  BY <1>6 DEF Records, ReadSamples, CaptureInv, HeldByStage, RunningIsHeld, PinIsKept
<1>7. ASSUME NEW s \in Sources, ReadHeader(s) PROVE CaptureInv'
  BY <1>7 DEF ReadHeader, CaptureInv, HeldByStage, RunningIsHeld, PinIsKept
<1>8. ASSUME NEW s \in Sources, ReadGarbage(s) PROVE CaptureInv'
  <2> DEFINE p == Stopped(process, s)
  <2>1. /\ p \in [Sources -> {"none", "running", "stopping", "unborn", "exited", "finished"}]
        /\ \A t \in Sources : p[t] = process[t] \/ (t = s /\ process[s] # "none" /\ p[s] # "running")
    BY <1>8 DEF ReadGarbage, CaptureInv, Stopped
  <2>2. \E ends : Lost(s, p, ends)
    BY <1>8 DEF ReadGarbage
  <2>3. pinned' = pinned /\ handle' = handle
    BY <1>8 DEF ReadGarbage
  <2> HIDE DEF p
  <2> QED
    BY <2>1, <2>2, <2>3, LosingOne
<1>9. ASSUME NEW s \in Sources, ProcessExits(s) PROVE CaptureInv'
  BY <1>9 DEF ProcessExits, Alive, CaptureInv, HeldByStage, RunningIsHeld, PinIsKept
<1>10. ASSUME NEW s \in Sources, FinishRun(s) PROVE CaptureInv'
  <2> DEFINE p == [process EXCEPT ![s] = "finished"]
  <2>1. /\ p \in [Sources -> {"none", "running", "stopping", "unborn", "exited", "finished"}]
        /\ \A t \in Sources : p[t] = process[t] \/ (t = s /\ process[s] # "none" /\ p[s] # "running")
    BY <1>10 DEF FinishRun, CaptureInv
  <2>2. \E ends : Lost(s, p, ends)
    BY <1>10 DEF FinishRun
  <2>3. pinned' = pinned /\ handle' = handle
    BY <1>10 DEF FinishRun
  <2> HIDE DEF p
  <2> QED
    BY <2>1, <2>2, <2>3, LosingOne
<1>11. CASE UNCHANGED captureVars
  BY <1>11 DEF captureVars, CaptureInv, HeldByStage, RunningIsHeld, PinIsKept
<1> QED
  BY <1>1, <1>2, <1>3, <1>4, <1>5, <1>6, <1>7, <1>8, <1>9, <1>10, <1>11 DEF CaptureNext

\* For any list of sources: at most one scrcpy process is left to run, the one that is tried or held,
\* and none after the call; an operator's source is the only one that is ever started.
THEOREM OneSourceAtATime == CaptureSpec => [](OnlyOneRuns /\ PinIsKept)
<1>1. CaptureInv /\ [CaptureNext]_captureVars => CaptureInv'
  BY CaptureKeeps
<1> QED
  BY <1>1, CaptureStart, CaptureSafe, PTL DEF CaptureSpec

-----------------------------------------------------------------------------
(* Playback *)

\* One voice, with nothing in it of a reply that was cut off.
OneVoice ==
    /\ \A p, q \in Players : Running(p) /\ Running(q) => p = q
    /\ ~outEnded => \A p \in Players : Running(p) => p \in proc
    /\ \A p, q \in proc : p = q
    /\ \A p \in proc : player[p] # "none"
    /\ outEnded => \A p \in Players : player[p] \notin {"spawning", "playing"}

PlaybackTypes ==
    /\ proc \subseteq Players
    /\ player \in [Players -> {"none", "spawning", "playing", "killed", "draining", "exited"}]
    /\ queued \in [Players -> SUBSET Nat] /\ generation \in Nat
    /\ \A p \in Players : player[p] = "none" => queued[p] = {}

PlaybackInv == PlaybackTypes /\ OneVoice /\ NothingStaleIsHeard

LEMMA PlaybackStart == PlaybackInit => PlaybackInv
BY DEF PlaybackInit, PlaybackInv, PlaybackTypes, OneVoice, NothingStaleIsHeard, Running

LEMMA PlaybackSafe == PlaybackInv => OnePlayer /\ NothingStaleIsHeard
<1> SUFFICES ASSUME PlaybackInv PROVE Cardinality({p \in Players : Running(p)}) <= 1
  BY DEF PlaybackInv, OneVoice, OnePlayer
<1> DEFINE running == {p \in Players : Running(p)}
<1>1. \E x : running \subseteq {x}
  BY DEF PlaybackInv, OneVoice
<1> HIDE DEF running
<1>2. Cardinality(running) <= 1
  BY <1>1, AtMostOne
<1> QED
  BY <1>2 DEF running

\* The first process that has not been used is one.
LEMMA NextIsFresh ==
    ASSUME \E p \in Players : player[p] = "none"
    PROVE  Next1 \in Players /\ player[Next1] = "none"
<1> DEFINE fresh == {p \in Players : player[p] = "none"}
<1>1. fresh \in SUBSET Nat /\ fresh # {}
  BY PlaybackAssumption DEF Players
<1>2. PICK m \in fresh : \A k \in fresh : m <= k
  <2> HIDE DEF fresh
  <2> QED
    BY <1>1, LeastOfSome
<1>3. \A q \in 1..(m - 1) : player[q] # "none"
  <2> SUFFICES ASSUME NEW q \in 1..(m - 1), player[q] = "none" PROVE FALSE
    OBVIOUS
  <2>1. m \in 1..MaxPlayers /\ MaxPlayers \in Nat
    BY PlaybackAssumption DEF Players
  <2>2. q \in Players /\ ~(m <= q)
    BY <2>1 DEF Players
  <2> QED
    BY <1>2, <2>2
<1> QED
  BY <1>2, <1>3 DEF Next1

LEMMA PlaybackKeeps ==
    ASSUME PlaybackInv, [PlaybackNext]_playbackVars PROVE PlaybackInv'
<1> USE DEF estimate, players
<1>1. CASE BeginUtterance \/ EndUtterance \/ Tick \/ (\E token \in tokens : Forget(token))
  <2>1. UNCHANGED <<generation, outEnded, proc, player, queued>>
    BY <1>1 DEF BeginUtterance, EndUtterance, Tick, Forget
  <2> QED
    BY <2>1 DEF PlaybackInv, PlaybackTypes, OneVoice, NothingStaleIsHeard, Running
<1>2. ASSUME Cancel PROVE PlaybackInv'
  <2>1. CASE outEnded
    BY <1>2, <2>1 DEF Cancel, PlaybackInv, PlaybackTypes, OneVoice, NothingStaleIsHeard, Running
  <2>2. CASE ~outEnded
    <3>1. /\ proc' = {} /\ queued' = queued /\ outEnded' = outEnded
          /\ player' = [p \in Players |-> IF p \in proc THEN "killed" ELSE player[p]]
          /\ generation' = generation + 1
      BY <1>2, <2>2 DEF Cancel, Kill
    <3>2. \A p \in Players : ~Running(p)'
      BY <2>2, <3>1 DEF PlaybackInv, OneVoice, Running
    <3> QED
      BY <2>2, <3>1, <3>2 DEF PlaybackInv, PlaybackTypes, OneVoice, NothingStaleIsHeard
  <2> QED
    BY <2>1, <2>2
<1>3. ASSUME EndPlayback, ~Spawning PROVE PlaybackInv'
  <2>1. /\ ~outEnded /\ outEnded' /\ proc' = {} /\ queued' = queued
        /\ player' = [p \in Players |-> IF p \in proc THEN "draining" ELSE player[p]]
        /\ generation' = generation
    BY <1>3 DEF EndPlayback
  <2>2. \A p \in Players : Running(p)' => p \in proc /\ player'[p] = "draining"
    BY <2>1 DEF PlaybackInv, OneVoice, Running
  <2>3. PlaybackTypes'
    BY <2>1 DEF PlaybackInv, PlaybackTypes
  <2>4. OneVoice'
    BY <2>1, <2>2 DEF PlaybackInv, OneVoice, Running
  <2> QED
    BY <2>1, <2>3, <2>4 DEF PlaybackInv, NothingStaleIsHeard
<1>4. CASE ForceKill
  BY <1>4 DEF ForceKill, PlaybackInv, PlaybackTypes, OneVoice, NothingStaleIsHeard, Running
<1>5. ASSUME NEW token \in tokens, Speak(token) PROVE PlaybackInv'
  <2>1. PICK p \in Players : /\ EnsureProcess(p)
                             /\ queued' = [queued EXCEPT ![p] = @ \cup {token}]
    BY <1>5 DEF Speak
  <2>2. ~outEnded /\ outEnded' = outEnded /\ token = generation /\ generation' = generation
    BY <1>5 DEF Speak, Dropped
  <2>3. CASE proc # {}
    <3>1. p \in proc /\ proc' = proc /\ player' = player
      BY <2>1, <2>3 DEF EnsureProcess, Spawns, HasProcess
    <3>2. OneVoice'
      BY <2>2, <3>1 DEF PlaybackInv, OneVoice, Running
    <3>3. player[p] # "none"
      BY <1>5, <3>1 DEF PlaybackInv, OneVoice
    <3>4. PlaybackTypes'
      BY <2>1, <2>2, <3>1, <3>3 DEF PlaybackInv, PlaybackTypes
    <3>5. NothingStaleIsHeard'
      BY <2>1, <2>2, <3>1 DEF PlaybackInv, PlaybackTypes, NothingStaleIsHeard, Running
    <3> QED
      BY <3>2, <3>4, <3>5 DEF PlaybackInv
  <2>4. CASE proc = {}
    <3>1. p = Next1 /\ proc' = {p} /\ player' = [player EXCEPT ![p] = "spawning"]
      BY <2>1, <2>4 DEF EnsureProcess, Spawns, HasProcess
    <3>2. player[p] = "none"
      BY <1>5, <2>4, <3>1, NextIsFresh DEF Speak, Spawns, HasProcess
    <3> QED
      BY <2>1, <2>2, <2>4, <3>1, <3>2 DEF PlaybackInv, PlaybackTypes, OneVoice, NothingStaleIsHeard, Running
  <2> QED
    BY <2>3, <2>4
<1>6. ASSUME NEW p \in Players, PlayerCloses(p) PROVE PlaybackInv'
  BY <1>6 DEF PlayerCloses, ForgetProcess, PlaybackInv, PlaybackTypes, OneVoice, NothingStaleIsHeard, Running
<1>7. ASSUME NEW p \in Players, SpawnFails(p) PROVE PlaybackInv'
  BY <1>7 DEF SpawnFails, PlaybackInv, PlaybackTypes, OneVoice, NothingStaleIsHeard, Running
<1>8. ASSUME NEW p \in Players, SpawnSucceeds(p) PROVE PlaybackInv'
  BY <1>8 DEF SpawnSucceeds, PlaybackInv, PlaybackTypes, OneVoice, NothingStaleIsHeard, Running
<1>9. CASE UNCHANGED playbackVars
  BY <1>9 DEF playbackVars, PlaybackInv, PlaybackTypes, OneVoice, NothingStaleIsHeard, Running
<1> QED
  BY <1>1, <1>2, <1>3, <1>4, <1>5, <1>6, <1>7, <1>8, <1>9 DEF PlaybackNext

\* For any number of players and pieces: at most one player runs, the one in hand until the end, and
\* what it has in its buffer is of the utterance of now.
THEOREM OneVoiceAtATime == PlaybackSpec => [](OnePlayer /\ NothingStaleIsHeard)
<1>1. PlaybackInv /\ [PlaybackNext]_playbackVars => PlaybackInv'
  BY PlaybackKeeps
<1> QED
  BY <1>1, PlaybackStart, PlaybackSafe, PTL DEF PlaybackSpec

LEMMA AppendParts ==
    ASSUME NEW S, NEW q \in Seq(S), NEW e \in S
    PROVE  /\ Append(q, e) \in Seq(S) /\ Len(Append(q, e)) = Len(q) + 1
           /\ \A i \in 1..Len(q) : Append(q, e)[i] = q[i]
           /\ Append(q, e)[Len(q) + 1] = e
OBVIOUS
-----------------------------------------------------------------------------
(* The agent's turns *)

\* A message, which the proofs never take apart but by these three facts.
Message == [role : {"user", "assistant"}, of : Questions \cup {NoTurn}]

LEMMA MessageParts ==
    ASSUME NEW role \in {"user", "assistant"}, NEW t \in Questions \cup {NoTurn}
    PROVE  Said(role, t) \in Message /\ Said(role, t).role = role /\ Said(role, t).of = t
BY DEF Said, Message

TurnTypes ==
    /\ turnAt \in [Questions -> Going \cup {"none", "replied", "skipped"}]
    /\ lineOf \in [Questions -> Lines]
    /\ aborted \subseteq Questions
    /\ inFlight \in [Lines -> Questions \cup {NoTurn}]
    /\ idle \subseteq Lines

InFlightGoes == \A l \in Lines : inFlight[l] # NoTurn => inFlight[l] \in UnderWay(l)

\* Half an hour in which nobody adds to a conversation is one in which no turn goes.
IdleRests == \A l \in idle : UnderWay(l) = {}

\* The question of the turn that is in flight is the last one of its conversation.
AskedLast(q, t) ==
    \E i \in 1..Len(q) : q[i] = Said("user", t) /\ \A k \in (i + 1)..Len(q) : ~Asks(q[k])

HistoryTypes == history \in [Lines -> Seq(Message)]
FlightIsAskedLast == \A l \in Lines : inFlight[l] # NoTurn => AskedLast(history[l], inFlight[l])

\* An answer of a conversation has its question before it, and no other question in between.
Fits(q) ==
    \A j \in 1..Len(q) : q[j].role = "assistant" /\ q[j].of # NoTurn =>
        \E i \in 1..(j - 1) : q[i] = Said("user", q[j].of) /\ \A k \in (i + 1)..(j - 1) : ~Asks(q[k])
HistoryFits == \A l \in Lines : Fits(history[l])

CountsOK == notes \in 0..MaxNotes /\ interrupted \in BOOLEAN

AgentInv ==
    /\ TurnTypes /\ InFlightGoes /\ OneLiveTurn /\ IdleRests
    /\ HistoryTypes /\ FlightIsAskedLast /\ HistoryFits /\ CountsOK

LEMMA AgentFits == AgentInv => AgentTypeOK /\ OneLiveTurn /\ AnswersFitQuestions
<1> SUFFICES ASSUME AgentInv PROVE AgentTypeOK /\ AnswersFitQuestions
  BY DEF AgentInv
<1>1. AgentTypeOK
  BY DEF AgentInv, TurnTypes, InFlightGoes, CountsOK, AgentTypeOK
<1>2. AnswersFitQuestions
  <2>1. \A l \in Lines : history[l] \in Seq(Message) /\ Fits(history[l])
    BY DEF AgentInv, HistoryTypes, HistoryFits
  <2>2. \A l \in Lines : DOMAIN history[l] = 1..Len(history[l])
    BY <2>1
  <2> QED
    BY <2>1, <2>2 DEF AnswersFitQuestions, Fits
<1> QED
  BY <1>1, <1>2

LEMMA AgentStart == AgentInit => AgentInv
<1> SUFFICES ASSUME AgentInit PROVE AgentInv
  OBVIOUS
<1>1. TurnTypes /\ InFlightGoes /\ OneLiveTurn /\ IdleRests
  BY DEF AgentInit, TurnTypes, InFlightGoes, OneLiveTurn, IdleRests, UnderWay, Going
<1>2. HistoryTypes /\ FlightIsAskedLast /\ HistoryFits
  BY DEF AgentInit, HistoryTypes, FlightIsAskedLast, HistoryFits, Fits
<1>3. notes \in 0..MaxNotes
  BY AgentAssumption DEF AgentInit
<1>4. interrupted \in BOOLEAN
  BY DEF AgentInit
<1> QED
  BY <1>1, <1>2, <1>3, <1>4 DEF AgentInv, CountsOK

\* What one more message does to a conversation.
LEMMA OneMore ==
    ASSUME NEW q \in Seq(Message), Fits(q), NEW t \in Questions \cup {NoTurn}
    PROVE  /\ Append(q, Said("user", t)) \in Seq(Message) /\ Fits(Append(q, Said("user", t)))
           /\ AskedLast(Append(q, Said("user", t)), t)
           /\ Append(q, Said("assistant", t)) \in Seq(Message)
           /\ AskedLast(q, t) \/ t = NoTurn => Fits(Append(q, Said("assistant", t)))
           /\ \A u \in Questions : AskedLast(q, u) => AskedLast(Append(q, Said("assistant", t)), u)
           /\ t = NoTurn => \A u \in Questions : AskedLast(q, u) => AskedLast(Append(q, Said("user", t)), u)
<1> DEFINE qu == Append(q, Said("user", t))
           qa == Append(q, Said("assistant", t))
<1>1. /\ qu \in Seq(Message) /\ Len(qu) = Len(q) + 1 /\ \A i \in 1..Len(q) : qu[i] = q[i]
      /\ qu[Len(q) + 1] = Said("user", t)
  <2>1. Said("user", t) \in Message
    BY MessageParts
  <2> QED
    BY <2>1, AppendParts
<1>2. /\ qa \in Seq(Message) /\ Len(qa) = Len(q) + 1 /\ \A i \in 1..Len(q) : qa[i] = q[i]
      /\ qa[Len(q) + 1] = Said("assistant", t)
  <2>1. Said("assistant", t) \in Message
    BY MessageParts
  <2> QED
    BY <2>1, AppendParts
<1>3. Said("user", t).role = "user" /\ Said("assistant", t).role = "assistant" /\ Said("assistant", t).of = t
  BY MessageParts
<1>0. Len(q) \in Nat
  OBVIOUS
<1> HIDE DEF qu, qa
<1>4. Fits(qu)
  BY <1>0, <1>1, <1>3 DEF Fits, Asks
<1>5. AskedLast(qu, t)
  BY <1>0, <1>1 DEF AskedLast
<1>6. ASSUME AskedLast(q, t) \/ t = NoTurn PROVE Fits(qa)
  <2> SUFFICES ASSUME NEW j \in 1..Len(qa), qa[j].role = "assistant", qa[j].of # NoTurn
               PROVE  \E i \in 1..(j - 1) : /\ qa[i] = Said("user", qa[j].of)
                                            /\ \A k \in (i + 1)..(j - 1) : ~Asks(qa[k])
    BY DEF Fits
  <2>1. CASE j \in 1..Len(q)
    <3>1. PICK i \in 1..(j - 1) : q[i] = Said("user", q[j].of) /\ \A k \in (i + 1)..(j - 1) : ~Asks(q[k])
      BY <1>2, <2>1 DEF Fits
    <3>2. \A k \in 1..j : qa[k] = q[k]
      BY <1>0, <1>2, <2>1
    <3>3. \A k \in (i + 1)..(j - 1) : k \in 1..j
      BY <1>0, <2>1
    <3>4. \A k \in (i + 1)..(j - 1) : ~Asks(qa[k])
      BY <3>1, <3>2, <3>3 DEF Asks
    <3>5. i \in 1..j /\ j \in 1..j
      BY <1>0, <2>1
    <3> QED
      BY <3>1, <3>2, <3>4, <3>5
  <2>2. CASE j = Len(q) + 1
    <3>1. PICK i \in 1..Len(q) : q[i] = Said("user", t) /\ \A k \in (i + 1)..Len(q) : ~Asks(q[k])
      BY <1>2, <1>3, <1>6, <2>2 DEF AskedLast
    <3> QED
      BY <1>0, <1>2, <1>3, <2>2, <3>1
  <2> QED
    BY <1>0, <1>2, <2>1, <2>2
<1>7. ASSUME NEW u \in Questions, AskedLast(q, u) PROVE AskedLast(qa, u)
  <2>1. PICK i \in 1..Len(q) : q[i] = Said("user", u) /\ \A k \in (i + 1)..Len(q) : ~Asks(q[k])
    BY <1>7 DEF AskedLast
  <2>2. qa[i] = Said("user", u) /\ \A k \in (i + 1)..Len(qa) : ~Asks(qa[k])
    BY <1>0, <1>2, <1>3, <2>1 DEF Asks
  <2>3. i \in 1..Len(qa)
    BY <1>0, <1>2
  <2> QED
    BY <2>2, <2>3 DEF AskedLast
<1>8. ASSUME t = NoTurn, NEW u \in Questions, AskedLast(q, u) PROVE AskedLast(qu, u)
  <2>1. PICK i \in 1..Len(q) : q[i] = Said("user", u) /\ \A k \in (i + 1)..Len(q) : ~Asks(q[k])
    BY <1>8 DEF AskedLast
  <2>2. ~Asks(Said("user", t))
    BY <1>8, MessageParts DEF Asks
  <2>3. qu[i] = Said("user", u) /\ \A k \in (i + 1)..Len(qu) : ~Asks(qu[k])
    BY <1>0, <1>1, <2>1, <2>2
  <2>4. i \in 1..Len(qu)
    BY <1>0, <1>1
  <2> QED
    BY <2>3, <2>4 DEF AskedLast
<1> QED
  BY <1>1, <1>2, <1>4, <1>5, <1>6, <1>7, <1>8 DEF qu, qa

\* The three things that happen to a conversation.
LEMMA QuestionAsked ==
    ASSUME AgentInv, NEW t \in Questions, AskTurn(t) PROVE AgentInv'
<1> DEFINE l == lineOf[t]
<1>1. l \in Lines /\ t # NoTurn /\ history[l] \in Seq(Message) /\ Fits(history[l])
  BY AgentAssumption DEF AgentInv, TurnTypes, HistoryTypes, HistoryFits
<1>2. TurnTypes'
  BY <1>1 DEF AskTurn, AgentInv, TurnTypes, Going
<1>3. InFlightGoes' /\ IdleRests'
  BY <1>1 DEF AskTurn, AgentInv, TurnTypes, InFlightGoes, IdleRests, UnderWay, Going
<1>4. OneLiveTurn'
  <2> SUFFICES ASSUME NEW k \in Lines, NEW u \in Questions,
                      lineOf'[u] = k, turnAt'[u] \in Going, u \notin aborted'
               PROVE  u = inFlight'[k]
    BY DEF OneLiveTurn, UnderWay
  <2>1. lineOf' = lineOf /\ (u # t => turnAt'[u] = turnAt[u])
    BY DEF AskTurn, AgentInv, TurnTypes
  <2>2. u # t => u \notin aborted /\ (inFlight[l] # NoTurn => u # inFlight[l])
    BY <1>1 DEF AskTurn, AgentInv, TurnTypes
  <2>3. u # t => u = inFlight[k]
    <3> SUFFICES ASSUME u # t PROVE u = inFlight[k]
      OBVIOUS
    <3>1. UnderWay(k) \ aborted \subseteq {inFlight[k]}
      BY DEF AgentInv, OneLiveTurn
    <3>2. lineOf[u] = k /\ turnAt[u] \in Going /\ u \notin aborted
      BY <2>1, <2>2
    <3>3. u \in UnderWay(k)
      BY <3>2 DEF UnderWay
    <3> QED
      BY <3>1, <3>2, <3>3
  <2>4. u # t => k # l
    BY <2>2, <2>3, AgentAssumption
  <2>5. u # t => inFlight'[k] = inFlight[k]
    BY <2>4 DEF AskTurn, AgentInv, TurnTypes
  <2>6. inFlight'[l] = t /\ (u = t => k = l)
    BY <1>1, <2>1 DEF AskTurn, AgentInv, TurnTypes
  <2> QED
    BY <2>3, <2>5, <2>6
<1>5. history' = [history EXCEPT ![l] = Append(history[l], Said("user", t))] /\ inFlight' = [inFlight EXCEPT ![l] = t]
  BY DEF AskTurn
<1>6. HistoryTypes' /\ HistoryFits' /\ FlightIsAskedLast'
  <2>1. /\ Append(history[l], Said("user", t)) \in Seq(Message) /\ Fits(Append(history[l], Said("user", t)))
        /\ AskedLast(Append(history[l], Said("user", t)), t)
    BY <1>1, OneMore
  <2> HIDE DEF l
  <2> QED
    BY <1>1, <1>5, <2>1 DEF AgentInv, TurnTypes, HistoryTypes, HistoryFits, FlightIsAskedLast
<1>7. CountsOK'
  BY DEF AskTurn, AgentInv, CountsOK
<1> QED
  BY <1>2, <1>3, <1>4, <1>6, <1>7 DEF AgentInv

LEMMA TurnSettles ==
    ASSUME AgentInv, NEW t \in Questions, Settle(t) PROVE AgentInv'
<1> DEFINE l == lineOf[t]
<1>1. l \in Lines /\ t # NoTurn /\ history[l] \in Seq(Message) /\ Fits(history[l])
  BY AgentAssumption DEF AgentInv, TurnTypes, HistoryTypes, HistoryFits
<1>2. CASE Skip(t)
  <2>1. TurnTypes' /\ InFlightGoes' /\ OneLiveTurn' /\ IdleRests'
    BY <1>1, <1>2 DEF Skip, Release, AgentInv, TurnTypes, InFlightGoes, OneLiveTurn, IdleRests, UnderWay, Going
  <2>2. HistoryTypes' /\ HistoryFits' /\ FlightIsAskedLast'
    BY <1>1, <1>2 DEF Skip, Release, AgentInv, TurnTypes, HistoryTypes, HistoryFits, FlightIsAskedLast
  <2>3. CountsOK'
    BY <1>2 DEF Skip, AgentInv, CountsOK
  <2> QED
    BY <2>1, <2>2, <2>3 DEF AgentInv
<1>3. CASE ModelAnswers(t)
  <2>1. TurnTypes' /\ InFlightGoes' /\ OneLiveTurn' /\ IdleRests'
    BY <1>1, <1>3 DEF ModelAnswers, AgentInv, TurnTypes, InFlightGoes, OneLiveTurn, IdleRests, UnderWay, Going
  <2>2. HistoryTypes' /\ HistoryFits' /\ FlightIsAskedLast' /\ CountsOK'
    BY <1>3 DEF ModelAnswers, AgentInv, HistoryTypes, HistoryFits, FlightIsAskedLast, CountsOK
  <2> QED
    BY <2>1, <2>2 DEF AgentInv
<1>4. CASE Voices(t)
  <2>1. TurnTypes' /\ InFlightGoes' /\ OneLiveTurn' /\ IdleRests'
    BY <1>1, <1>4 DEF Voices, Release, AgentInv, TurnTypes, InFlightGoes, OneLiveTurn, IdleRests, UnderWay, Going
  <2>2. inFlight[l] = t
    BY <1>1, <1>4 DEF Voices, AgentInv, OneLiveTurn, UnderWay, Going
  <2>3. AskedLast(history[l], t)
    BY <1>1, <2>2 DEF AgentInv, FlightIsAskedLast
  <2>4. history' = [history EXCEPT ![l] = Append(history[l], Said("assistant", t))]
    BY <1>4 DEF Voices
  <2>5. inFlight' = [inFlight EXCEPT ![l] = NoTurn]
    BY <1>1, <1>4, <2>2 DEF Voices, Release
  <2>6. Append(history[l], Said("assistant", t)) \in Seq(Message) /\ Fits(Append(history[l], Said("assistant", t)))
    BY <1>1, <2>3, OneMore
  <2>7. HistoryTypes' /\ HistoryFits' /\ FlightIsAskedLast'
    <3> HIDE DEF l
    <3> QED
      BY <1>1, <2>4, <2>5, <2>6 DEF AgentInv, TurnTypes, HistoryTypes, HistoryFits, FlightIsAskedLast
  <2>8. CountsOK'
    BY <1>4 DEF Voices, AgentInv, CountsOK
  <2> QED
    BY <2>1, <2>7, <2>8 DEF AgentInv
<1> QED
  BY <1>2, <1>3, <1>4 DEF Settle

LEMMA AgentKeeps ==
    ASSUME AgentInv, [AgentNext]_agentVars PROVE AgentInv'
<1>1. ASSUME NEW t \in Questions, AskTurn(t) \/ Settle(t) PROVE AgentInv'
  BY <1>1, QuestionAsked, TurnSettles
<1>2. ASSUME NEW l \in Lines, LineEnds(l) PROVE AgentInv'
  <2>1. TurnTypes' /\ InFlightGoes' /\ OneLiveTurn' /\ IdleRests'
    BY <1>2 DEF LineEnds, AgentInv, TurnTypes, InFlightGoes, OneLiveTurn, IdleRests, UnderWay, Going
  <2>2. history' = [k \in Lines |-> IF k \in idle THEN <<>> ELSE history[k]]
    BY <1>2 DEF LineEnds
  <2>3. <<>> \in Seq(Message) /\ Fits(<<>>)
    BY DEF Fits
  <2>4. HistoryTypes' /\ HistoryFits'
    BY <2>2, <2>3 DEF AgentInv, HistoryTypes, HistoryFits
  <2>5. FlightIsAskedLast'
    <3> SUFFICES ASSUME NEW k \in Lines, inFlight'[k] # NoTurn PROVE AskedLast(history'[k], inFlight'[k])
      BY DEF FlightIsAskedLast
    <3>1. inFlight'[k] = inFlight[k] /\ inFlight[k] # NoTurn
      BY <1>2 DEF LineEnds, AgentInv, TurnTypes
    <3>2. k \notin idle
      BY <3>1 DEF AgentInv, InFlightGoes, IdleRests
    <3> QED
      BY <2>2, <3>1, <3>2 DEF AgentInv, FlightIsAskedLast
  <2>6. CountsOK'
    BY <1>2 DEF LineEnds, AgentInv, CountsOK
  <2> QED
    BY <2>1, <2>4, <2>5, <2>6 DEF AgentInv
<1>3. ASSUME NEW l \in Lines, NEW role \in {"user", "assistant"}, NoteText(l, role) PROVE AgentInv'
  <2>1. TurnTypes' /\ InFlightGoes' /\ OneLiveTurn' /\ IdleRests'
    BY <1>3 DEF NoteText, AgentInv, TurnTypes, InFlightGoes, OneLiveTurn, IdleRests, UnderWay, Going
  <2>2. history' = [history EXCEPT ![l] = Append(history[l], Said(role, NoTurn))] /\ inFlight' = inFlight
    BY <1>3 DEF NoteText
  <2>3. history[l] \in Seq(Message) /\ Fits(history[l])
    BY DEF AgentInv, HistoryTypes, HistoryFits
  <2>4. PICK q : q = Append(history[l], Said(role, NoTurn))
    OBVIOUS
  <2>5. q \in Seq(Message) /\ Fits(q) /\ \A u \in Questions : AskedLast(history[l], u) => AskedLast(q, u)
    <3>1. CASE role = "user"
      BY <2>3, <2>4, <3>1, OneMore
    <3>2. CASE role = "assistant"
      BY <2>3, <2>4, <3>2, OneMore
    <3> QED
      BY <3>1, <3>2
  <2>6. history' = [history EXCEPT ![l] = q]
    BY <2>2, <2>4
  <2>7. HistoryTypes' /\ HistoryFits' /\ FlightIsAskedLast'
    BY <2>2, <2>5, <2>6 DEF AgentInv, TurnTypes, HistoryTypes, HistoryFits, FlightIsAskedLast
  <2>8. CountsOK'
    BY <1>3, AgentAssumption DEF NoteText, AgentInv, CountsOK
  <2> QED
    BY <2>1, <2>7, <2>8 DEF AgentInv
<1>4. ASSUME NEW l \in Lines, GoesIdle(l) PROVE AgentInv'
  <2>1. TurnTypes' /\ InFlightGoes' /\ OneLiveTurn' /\ IdleRests'
    BY <1>4 DEF GoesIdle, AgentInv, TurnTypes, InFlightGoes, OneLiveTurn, IdleRests, UnderWay, Going
  <2>2. HistoryTypes' /\ HistoryFits' /\ FlightIsAskedLast' /\ CountsOK'
    BY <1>4 DEF GoesIdle, AgentInv, HistoryTypes, HistoryFits, FlightIsAskedLast, CountsOK
  <2> QED
    BY <2>1, <2>2 DEF AgentInv
<1>5. CASE UNCHANGED agentVars
  <2>1. TurnTypes' /\ InFlightGoes' /\ OneLiveTurn' /\ IdleRests'
    BY <1>5 DEF agentVars, AgentInv, TurnTypes, InFlightGoes, OneLiveTurn, IdleRests, UnderWay
  <2>2. HistoryTypes' /\ HistoryFits' /\ FlightIsAskedLast' /\ CountsOK'
    BY <1>5 DEF agentVars, AgentInv, HistoryTypes, HistoryFits, FlightIsAskedLast, CountsOK
  <2> QED
    BY <2>1, <2>2 DEF AgentInv
<1> QED
  BY <1>1, <1>2, <1>3, <1>4, <1>5 DEF AgentNext

-----------------------------------------------------------------------------
(* The text bridge *)

\* A message whose answer was begun: its id is remembered, or was.
Begun == {t \in Questions : In(t, seen) \/ t \in forgotten}

\* On a line one message came in before another.
CameBefore(l, a, b) ==
    \E p, q \in 1..Len(enqueued[l]) : p < q /\ enqueued[l][p] = a /\ enqueued[l][q] = b

RouterTypes ==
    /\ chain \in [Lines -> Seq(Questions)]
    /\ enqueued \in [Lines -> Seq(Questions)]
    /\ answered \in [Lines -> Seq(Questions)]
    /\ step \in [Lines -> {"idle", "asking", "sending"}]
    /\ seen \in Seq(Questions) /\ Len(seen) <= MaxSeen
    /\ forgotten \subseteq Questions

\* What waits, was answered or is remembered came in on its own line; and what came in waits or was
\* begun.
EverythingCameIn ==
    \A l \in Lines : \A t \in Questions :
        /\ In(t, chain[l]) => In(t, enqueued[l])
        /\ In(t, answered[l]) => In(t, enqueued[l]) /\ t \in Begun
        /\ In(t, enqueued[l]) => lineOf[t] = l /\ (t \in Begun \/ In(t, chain[l]))
        /\ t \in Begun /\ lineOf[t] = l => In(t, enqueued[l])

EnqueuedOnce ==
    \A l \in Lines : \A i, j \in 1..Len(enqueued[l]) : enqueued[l][i] = enqueued[l][j] => i = j

\* Messages are begun in the order in which they came in, ...
BegunInOrder ==
    \A l \in Lines : \A a, b \in Questions : CameBefore(l, a, b) /\ b \in Begun => a \in Begun

\* ... for one that was not begun stands in the chain before all those that came in after it.
ChainInOrder ==
    \A l \in Lines : \A i \in 1..Len(chain[l]) : \A a \in Questions \ Begun :
        CameBefore(l, a, chain[l][i]) => \E k \in 1..(i - 1) : chain[l][k] = a

\* The message that is being answered was begun, and all that was answered came in before it.
FirstFits ==
    \A l \in Lines : step[l] # "idle" =>
        /\ chain[l] # <<>> /\ Head(chain[l]) \in Begun
        /\ Head(chain[l]) \notin forgotten =>
              \A a \in Questions \ forgotten : In(a, answered[l]) => CameBefore(l, a, Head(chain[l]))

RepliesFit ==
    \A l \in Lines : \A i, j \in 1..Len(answered[l]) :
        i < j /\ answered[l][i] \notin forgotten /\ answered[l][j] \notin forgotten =>
            CameBefore(l, answered[l][i], answered[l][j])

RouterInv ==
    /\ RouterTypes /\ EverythingCameIn /\ EnqueuedOnce /\ BegunInOrder /\ ChainInOrder
    /\ FirstFits /\ RepliesFit

ServiceInv ==
    /\ life \in 1..MaxLives
    /\ bind \in {"none", "pending", "bound", "failed", "closed"}
    /\ halt \in {"no", "waiting", "draining", "done"}
    /\ subscribed => bind \in {"pending", "bound"}
    /\ halt \in {"draining", "done"} => bind \notin {"pending", "bound"}
    /\ halt = "done" => \A l \in Lines : chain[l] = <<>>

\* The router asks the agent one thing at a time: a turn goes only for the first message of a chain,
\* and nothing was ever interrupted.
OneAtATime ==
    /\ \A l \in Lines : UnderWay(l) \subseteq (IF step[l] = "asking" THEN {Head(chain[l])} ELSE {})
    /\ ~interrupted

TextInv == AgentInv /\ RouterInv /\ ServiceInv /\ OneAtATime

\* What the sequences of this model are taken apart into.
LEMMA OneMoreIn ==
    ASSUME NEW S, NEW q \in Seq(S), NEW e \in S
    PROVE  \A x : In(x, Append(q, e)) <=> In(x, q) \/ x = e
<1>1. /\ Append(q, e) \in Seq(S) /\ Len(Append(q, e)) = Len(q) + 1
      /\ \A i \in 1..Len(q) : Append(q, e)[i] = q[i]
      /\ Append(q, e)[Len(q) + 1] = e
  BY AppendParts
<1>2. DOMAIN q = 1..Len(q) /\ DOMAIN Append(q, e) = 1..Len(Append(q, e)) /\ Len(q) \in Nat
  BY <1>1
<1> DEFINE qe == Append(q, e)
<1> HIDE DEF qe
<1> QED
  BY <1>1, <1>2 DEF In, qe

LEMMA FirstAndRest ==
    ASSUME NEW S, NEW q \in Seq(S), q # <<>>
    PROVE  /\ Len(q) \in Nat /\ 1 <= Len(q) /\ Head(q) = q[1] /\ Head(q) \in S /\ In(Head(q), q)
           /\ Tail(q) \in Seq(S) /\ Len(Tail(q)) = Len(q) - 1
           /\ \A i \in 1..(Len(q) - 1) : Tail(q)[i] = q[i + 1]
           /\ \A x : In(x, q) <=> x = Head(q) \/ In(x, Tail(q))
<1>1. /\ Len(q) \in Nat /\ 1 <= Len(q) /\ Head(q) = q[1] /\ Head(q) \in S
      /\ Tail(q) \in Seq(S) /\ Len(Tail(q)) = Len(q) - 1
      /\ \A i \in 1..(Len(q) - 1) : Tail(q)[i] = q[i + 1]
  OBVIOUS
<1>2. DOMAIN q = 1..Len(q) /\ DOMAIN Tail(q) = 1..(Len(q) - 1)
  BY <1>1
<1>3. \A x : In(x, Tail(q)) => In(x, q)
  BY <1>1, <1>2 DEF In
<1>4. In(Head(q), q)
  BY <1>1, <1>2 DEF In
<1>5. ASSUME NEW x, In(x, q), x # Head(q) PROVE In(x, Tail(q))
  <2>1. PICK i \in 1..Len(q) : q[i] = x
    BY <1>2, <1>5 DEF In
  <2>2. i - 1 \in 1..(Len(q) - 1) /\ (i - 1) + 1 = i
    BY <1>1, <1>5, <2>1
  <2> QED
    BY <1>1, <1>2, <2>1, <2>2 DEF In
<1> QED
  BY <1>1, <1>3, <1>4, <1>5

LEMMA InPlace ==
    ASSUME NEW S, NEW q \in Seq(S), NEW x
    PROVE  In(x, q) <=> \E i \in 1..Len(q) : q[i] = x
BY DEF In

\* Two messages of a line came in one before the other.
LEMMA OneCameFirst ==
    ASSUME RouterTypes, NEW l \in Lines, NEW a, NEW b
    PROVE  /\ CameBefore(l, a, b) => In(a, enqueued[l]) /\ In(b, enqueued[l])
           /\ In(a, enqueued[l]) /\ In(b, enqueued[l]) /\ a # b => CameBefore(l, a, b) \/ CameBefore(l, b, a)
<1>1. enqueued[l] \in Seq(Questions)
  BY DEF RouterTypes
<1>2. In(a, enqueued[l]) <=> \E i \in 1..Len(enqueued[l]) : enqueued[l][i] = a
  BY <1>1, InPlace
<1>3. In(b, enqueued[l]) <=> \E i \in 1..Len(enqueued[l]) : enqueued[l][i] = b
  BY <1>1, InPlace
<1>4. Len(enqueued[l]) \in Nat
  BY <1>1
<1> QED
  BY <1>2, <1>3, <1>4 DEF CameBefore

\* The oldest id makes room, which is noted: nothing that was begun is lost track of.
LEMMA Remembering ==
    ASSUME RouterTypes, NEW t \in Questions, Remember(t), ~In(t, seen)
    PROVE  /\ seen' \in Seq(Questions) /\ Len(seen') <= MaxSeen
           /\ forgotten \subseteq forgotten' /\ forgotten' \subseteq Questions
           /\ Begun' = Begun \cup {t}
<1>1. seen \in Seq(Questions) /\ Len(seen) \in Nat /\ MaxSeen \in Nat /\ 1 <= MaxSeen /\ Len(seen) <= MaxSeen
  BY TextAssumption DEF RouterTypes
<1>2. CASE Len(seen) = MaxSeen
  <2>1. /\ seen # <<>> /\ Head(seen) \in Questions /\ Tail(seen) \in Seq(Questions)
        /\ Len(Tail(seen)) = Len(seen) - 1 /\ \A x : In(x, seen) <=> x = Head(seen) \/ In(x, Tail(seen))
    <3>1. seen # <<>>
      BY <1>1, <1>2
    <3> QED
      BY <1>1, <3>1, FirstAndRest
  <2>2. seen' = Append(Tail(seen), t) /\ forgotten' = forgotten \cup {Head(seen)}
    BY <1>2 DEF Remember
  <2>3. /\ seen' \in Seq(Questions) /\ Len(seen') = Len(Tail(seen)) + 1
        /\ \A x : In(x, seen') <=> In(x, Tail(seen)) \/ x = t
    BY <2>1, <2>2, AppendParts, OneMoreIn
  <2>4. Len(seen') <= MaxSeen
    BY <1>1, <2>1, <2>3
  <2>5. forgotten \subseteq forgotten' /\ forgotten' \subseteq Questions
    BY <2>1, <2>2 DEF RouterTypes
  <2>6. Begun' = Begun \cup {t}
    BY <2>1, <2>2, <2>3 DEF Begun
  <2> QED
    BY <2>3, <2>4, <2>5, <2>6
<1>3. CASE Len(seen) # MaxSeen
  <2>1. seen' = Append(seen, t) /\ forgotten' = forgotten
    BY <1>3 DEF Remember
  <2>2. /\ seen' \in Seq(Questions) /\ Len(seen') = Len(seen) + 1
        /\ \A x : In(x, seen') <=> In(x, seen) \/ x = t
    BY <1>1, <2>1, AppendParts, OneMoreIn
  <2>3. Len(seen') <= MaxSeen
    BY <1>1, <1>3, <2>2
  <2>4. Begun' = Begun \cup {t}
    BY <2>1, <2>2 DEF Begun
  <2> QED
    BY <2>1, <2>2, <2>3, <2>4 DEF RouterTypes
<1> QED
  BY <1>2, <1>3

\* A router that was just built.
FreshRouter ==
    /\ chain = [l \in Lines |-> <<>>] /\ step = [l \in Lines |-> "idle"]
    /\ seen = <<>> /\ forgotten = {}
    /\ enqueued = [l \in Lines |-> <<>>] /\ answered = [l \in Lines |-> <<>>]

LEMMA FreshRouterFits == FreshRouter => RouterInv
<1> SUFFICES ASSUME FreshRouter PROVE RouterInv
  OBVIOUS
<1>1. Len(seen) = 0 /\ MaxSeen \in Nat /\ seen \in Seq(Questions)
  BY TextAssumption DEF FreshRouter
<1>2. RouterTypes
  BY <1>1 DEF FreshRouter, RouterTypes
<1>3. \A l \in Lines : \A x : ~In(x, chain[l]) /\ ~In(x, enqueued[l]) /\ ~In(x, answered[l])
  BY DEF FreshRouter, In
<1>4. \A l \in Lines : Len(enqueued[l]) = 0 /\ Len(chain[l]) = 0 /\ Len(answered[l]) = 0 /\ step[l] = "idle"
  BY DEF FreshRouter
<1>5. Begun = {}
  BY DEF FreshRouter, Begun, In
<1>6. EverythingCameIn
  BY <1>3, <1>5 DEF EverythingCameIn
<1>7. EnqueuedOnce /\ BegunInOrder /\ ChainInOrder /\ FirstFits /\ RepliesFit
  BY <1>4, <1>5 DEF EnqueuedOnce, BegunInOrder, ChainInOrder, FirstFits, RepliesFit
<1> QED
  BY <1>2, <1>6, <1>7 DEF RouterInv

\* Nothing of the router changes.
LEMMA RouterRests ==
    ASSUME RouterInv, UNCHANGED routerVars, lineOf' = lineOf PROVE RouterInv'
<1> USE DEF routerVars
<1>1. RouterTypes' /\ Begun' = Begun
  BY DEF RouterInv, RouterTypes, Begun
<1>2. \A l, a, b : CameBefore(l, a, b)' <=> CameBefore(l, a, b)
  BY DEF CameBefore
<1>3. EverythingCameIn' /\ EnqueuedOnce' /\ RepliesFit'
  BY <1>1, <1>2 DEF RouterInv, EverythingCameIn, EnqueuedOnce, RepliesFit
<1>4. BegunInOrder' /\ ChainInOrder' /\ FirstFits'
  BY <1>1, <1>2 DEF RouterInv, BegunInOrder, ChainInOrder, FirstFits
<1> QED
  BY <1>1, <1>3, <1>4 DEF RouterInv

\* A message comes in: it goes to the end of its customer's chain, and a new one to the end of what
\* came in.
LEMMA MessageArrives ==
    ASSUME RouterInv, TurnTypes, NEW t \in Questions, Enqueue(t), lineOf' = lineOf PROVE RouterInv'
<1>0. PICK l \in Lines : l = lineOf[t]
  BY DEF TurnTypes
<1> DEFINE before == In(t, enqueued[l])
<1>1. l \in Lines /\ chain[l] \in Seq(Questions) /\ enqueued[l] \in Seq(Questions) /\ RouterTypes
  BY DEF RouterInv, RouterTypes
<1>2. /\ chain' = [chain EXCEPT ![l] = Append(chain[l], t)]
      /\ enqueued' = [enqueued EXCEPT ![l] = IF before THEN enqueued[l] ELSE Append(enqueued[l], t)]
      /\ UNCHANGED <<step, seen, answered, forgotten>>
  BY <1>0 DEF Enqueue
<1>3. /\ chain'[l] \in Seq(Questions) /\ Len(chain'[l]) = Len(chain[l]) + 1
      /\ \A i \in 1..Len(chain[l]) : chain'[l][i] = chain[l][i]
      /\ chain'[l][Len(chain[l]) + 1] = t
      /\ \A x : In(x, chain'[l]) <=> In(x, chain[l]) \/ x = t
  <2>1. chain'[l] = Append(chain[l], t)
    BY <1>1, <1>2 DEF RouterTypes
  <2> QED
    BY <1>1, <2>1, AppendParts, OneMoreIn
<1>4. CASE ~before
  <2>0. enqueued'[l] = Append(enqueued[l], t)
    BY <1>1, <1>2, <1>4 DEF RouterTypes
  <2> QED
    <3>1. /\ enqueued'[l] \in Seq(Questions) /\ Len(enqueued'[l]) = Len(enqueued[l]) + 1
          /\ \A i \in 1..Len(enqueued[l]) : enqueued'[l][i] = enqueued[l][i]
          /\ enqueued'[l][Len(enqueued[l]) + 1] = t
          /\ \A x : In(x, enqueued'[l]) <=> In(x, enqueued[l]) \/ x = t
      BY <1>1, <2>0, AppendParts, OneMoreIn
    <3>2. \A k \in Lines : k # l => enqueued'[k] = enqueued[k] /\ chain'[k] = chain[k]
      BY <1>2 DEF RouterInv, RouterTypes
    <3>3. \A i \in 1..Len(enqueued[l]) : enqueued[l][i] # t
      BY <1>1, <1>4, InPlace
    <3>4. Len(enqueued[l]) \in Nat /\ Len(chain[l]) \in Nat
      BY <1>1
    <3> HIDE DEF before
    <3>5. \A k \in Lines : \A a, b : CameBefore(k, a, b) => CameBefore(k, a, b)'
      BY <3>1, <3>2, <3>4 DEF CameBefore
    <3>6. \A k \in Lines : \A a, b : CameBefore(k, a, b)' /\ (k # l \/ b # t) => CameBefore(k, a, b)
      BY <3>1, <3>2, <3>4 DEF CameBefore
    <3>7. \A a : CameBefore(l, a, t)' => In(a, enqueued[l])
      <4> SUFFICES ASSUME NEW a, CameBefore(l, a, t)' PROVE In(a, enqueued[l])
        OBVIOUS
      <4>1. PICK p, q \in 1..Len(enqueued'[l]) : p < q /\ enqueued'[l][p] = a /\ enqueued'[l][q] = t
        BY DEF CameBefore
      <4>2. p \in 1..Len(enqueued[l]) /\ enqueued[l][p] = a
        BY <3>1, <3>4, <4>1
      <4> QED
        BY <1>1, <4>2, InPlace
    <3>8. Begun' = Begun /\ step' = step /\ answered' = answered /\ forgotten' = forgotten
      BY <1>2 DEF Begun
    <3>9. RouterTypes'
      <4>1. enqueued' \in [Lines -> Seq(Questions)] /\ chain' \in [Lines -> Seq(Questions)]
        BY <1>1, <1>2, <1>3, <3>1 DEF RouterTypes
      <4> QED
        BY <1>1, <1>2, <4>1 DEF RouterTypes
    <3>10. EverythingCameIn'
      <4>1. t \notin Begun /\ lineOf[t] = l
        BY <1>0, <1>4 DEF RouterInv, EverythingCameIn, before
      <4> SUFFICES ASSUME NEW k \in Lines, NEW u \in Questions
                   PROVE  /\ In(u, chain'[k]) => In(u, enqueued'[k])
                          /\ In(u, answered[k]) => In(u, enqueued'[k]) /\ u \in Begun
                          /\ In(u, enqueued'[k]) => lineOf[u] = k /\ (u \in Begun \/ In(u, chain'[k]))
                          /\ u \in Begun /\ lineOf[u] = k => In(u, enqueued'[k])
        BY <3>8 DEF EverythingCameIn
      <4> QED
        BY <1>3, <3>1, <3>2, <4>1 DEF RouterInv, EverythingCameIn
    <3>11. EnqueuedOnce'
      <4>1. \A k \in Lines : \A i, j \in 1..Len(enqueued[k]) : enqueued[k][i] = enqueued[k][j] => i = j
        BY DEF RouterInv, EnqueuedOnce
      <4> QED
        BY <1>1, <3>1, <3>2, <3>3, <3>4, <4>1 DEF EnqueuedOnce
    <3>12. BegunInOrder'
      <4>1. t \notin Begun
        BY <1>0, <1>4 DEF RouterInv, EverythingCameIn, before
      <4> QED
        BY <3>6, <3>8, <4>1 DEF RouterInv, BegunInOrder
    <3>13. ChainInOrder'
      <4> SUFFICES ASSUME NEW k \in Lines, NEW i \in 1..Len(chain'[k]), NEW a \in Questions \ Begun,
                          NEW b, b = chain'[k][i], CameBefore(k, a, b)'
                   PROVE  \E j \in 1..(i - 1) : chain'[k][j] = a
        BY <3>8 DEF ChainInOrder
      <4>1. CASE k # l
        BY <3>2, <3>6, <4>1 DEF RouterInv, ChainInOrder
      <4>2. CASE k = l /\ i \in 1..Len(chain[l])
        <5>1. chain[l][i] # t
          <6>1. In(chain[l][i], chain[l]) /\ chain[l][i] \in Questions
            BY <1>1, <4>2, InPlace
          <6> QED
            BY <1>1, <1>4, <6>1 DEF RouterInv, EverythingCameIn, before
        <5>2. CameBefore(l, a, chain[l][i])
          BY <1>1, <1>3, <3>6, <4>2, <5>1
        <5>3. PICK j \in 1..(i - 1) : chain[l][j] = a
          BY <1>1, <4>2, <5>2 DEF RouterInv, ChainInOrder
        <5> QED
          BY <1>3, <3>4, <4>2, <5>3
      <4>3. CASE k = l /\ i = Len(chain[l]) + 1
        <5>1. In(a, enqueued[l])
          BY <1>3, <3>7, <4>3
        <5>2. In(a, chain[l])
          BY <1>1, <5>1 DEF RouterInv, EverythingCameIn
        <5>3. PICK j \in 1..Len(chain[l]) : chain[l][j] = a
          BY <1>1, <5>2, InPlace
        <5> QED
          BY <1>3, <3>4, <4>3, <5>3
      <4> QED
        BY <1>3, <3>4, <4>1, <4>2, <4>3
    <3>14. FirstFits'
      <4>1. \A k \in Lines : chain[k] # <<>> => chain'[k] # <<>> /\ Head(chain'[k]) = Head(chain[k])
        <5>1. chain[l] # <<>> => chain'[l] # <<>> /\ Head(chain'[l]) = Head(chain[l])
          BY <1>1, <1>3
        <5> QED
          BY <3>2, <5>1
      <4> QED
        BY <3>5, <3>8, <4>1 DEF RouterInv, FirstFits
    <3>15. RepliesFit'
      BY <3>5, <3>8 DEF RouterInv, RepliesFit
    <3> QED
      BY <3>9, <3>10, <3>11, <3>12, <3>13, <3>14, <3>15 DEF RouterInv
<1>5. CASE before
  <2>1. enqueued' = enqueued
    BY <1>1, <1>2, <1>5 DEF RouterTypes
  <2>2. \A k \in Lines : k # l => chain'[k] = chain[k]
    BY <1>2 DEF RouterInv, RouterTypes
  <2>3. Len(chain[l]) \in Nat
    BY <1>1
  <2>4. \A k, a, b : CameBefore(k, a, b)' <=> CameBefore(k, a, b)
    BY <2>1 DEF CameBefore
  <2>5. Begun' = Begun /\ step' = step /\ answered' = answered /\ forgotten' = forgotten
    BY <1>2 DEF Begun
  <2>6. RouterTypes'
    <3>1. chain' \in [Lines -> Seq(Questions)]
      BY <1>1, <1>2, <1>3 DEF RouterTypes
    <3> QED
      BY <1>1, <1>2, <2>1, <3>1 DEF RouterTypes
  <2>7. EverythingCameIn'
    BY <1>0, <1>3, <1>5, <2>1, <2>2, <2>5 DEF RouterInv, EverythingCameIn
  <2>8. EnqueuedOnce' /\ RepliesFit' /\ BegunInOrder'
    BY <2>1, <2>4, <2>5 DEF RouterInv, EnqueuedOnce, RepliesFit, BegunInOrder
  <2>9. ChainInOrder'
    <3> SUFFICES ASSUME NEW k \in Lines, NEW i \in 1..Len(chain'[k]), NEW a \in Questions \ Begun,
                        CameBefore(k, a, chain'[k][i])
                 PROVE  \E j \in 1..(i - 1) : chain'[k][j] = a
      BY <2>4, <2>5 DEF ChainInOrder
    <3>1. CASE k # l
      BY <2>2, <3>1 DEF RouterInv, ChainInOrder
    <3>2. CASE k = l /\ i \in 1..Len(chain[l])
      <4>1. PICK j \in 1..(i - 1) : chain[l][j] = a
        BY <1>1, <1>3, <3>2 DEF RouterInv, ChainInOrder
      <4> QED
        BY <1>3, <2>3, <3>2, <4>1
    <3>3. CASE k = l /\ i = Len(chain[l]) + 1
      <4>1. In(a, enqueued[l])
        BY <1>1, <3>3, OneCameFirst
      <4>2. In(a, chain[l])
        BY <1>1, <4>1 DEF RouterInv, EverythingCameIn
      <4>3. PICK j \in 1..Len(chain[l]) : chain[l][j] = a
        BY <1>1, <4>2, InPlace
      <4> QED
        BY <1>3, <2>3, <3>3, <4>3
    <3> QED
      BY <1>3, <2>3, <3>1, <3>2, <3>3
  <2>10. FirstFits'
    <3>1. \A k \in Lines : chain[k] # <<>> => chain'[k] # <<>> /\ Head(chain'[k]) = Head(chain[k])
      <4>1. chain[l] # <<>> => chain'[l] # <<>> /\ Head(chain'[l]) = Head(chain[l])
        BY <1>1, <1>3
      <4> QED
        BY <2>2, <4>1
    <3> QED
      BY <2>4, <2>5, <3>1 DEF RouterInv, FirstFits
  <2> QED
    BY <2>6, <2>7, <2>8, <2>9, <2>10 DEF RouterInv
<1> QED
  BY <1>4, <1>5

\* A reply went out: all the replies before it were to what came in before.
LEMMA ReplyIsSent ==
    ASSUME RouterInv, NEW l \in Lines, step[l] # "idle",
           answered' = [answered EXCEPT ![l] = Append(answered[l], Head(chain[l]))],
           UNCHANGED <<seen, enqueued, forgotten>>
    PROVE  /\ answered' \in [Lines -> Seq(Questions)]
           /\ \A k \in Lines : \A x : In(x, answered'[k]) => In(x, answered[k]) \/ (k = l /\ x = Head(chain[l]))
           /\ RepliesFit'
<1> DEFINE t == Head(chain[l])
<1>1. chain[l] \in Seq(Questions) /\ answered[l] \in Seq(Questions) /\ chain[l] # <<>> /\ RouterTypes
  BY DEF RouterInv, RouterTypes, FirstFits
<1>2. t \in Questions /\ t \in Begun /\ In(t, chain[l])
  BY <1>1, FirstAndRest DEF RouterInv, FirstFits
<1>3. /\ Append(answered[l], t) \in Seq(Questions) /\ Len(Append(answered[l], t)) = Len(answered[l]) + 1
      /\ \A i \in 1..Len(answered[l]) : Append(answered[l], t)[i] = answered[l][i]
      /\ Append(answered[l], t)[Len(answered[l]) + 1] = t
      /\ \A x : In(x, Append(answered[l], t)) <=> In(x, answered[l]) \/ x = t
  BY <1>1, <1>2, AppendParts, OneMoreIn
<1>4. answered'[l] = Append(answered[l], t) /\ \A k \in Lines : k # l => answered'[k] = answered[k]
  BY <1>1 DEF RouterTypes
<1>5. t \notin forgotten => \A a \in Questions \ forgotten : In(a, answered[l]) => CameBefore(l, a, t)
  BY DEF RouterInv, FirstFits
<1>6. Begun' = Begun /\ Len(answered[l]) \in Nat
  BY <1>1 DEF Begun
<1> HIDE DEF t
<1>7. \A k, a, b : CameBefore(k, a, b)' <=> CameBefore(k, a, b)
  BY DEF CameBefore
<1>8. answered' \in [Lines -> Seq(Questions)]
  BY <1>1, <1>3 DEF RouterTypes, t
<1>9. \A k \in Lines : \A x : In(x, answered'[k]) => In(x, answered[k]) \/ (k = l /\ x = t)
  BY <1>3, <1>4
<1>10. RepliesFit'
  <2> SUFFICES ASSUME NEW k \in Lines, NEW i \in 1..Len(answered'[k]), NEW j \in 1..Len(answered'[k]), i < j,
                      answered'[k][i] \notin forgotten, answered'[k][j] \notin forgotten
               PROVE  CameBefore(k, answered'[k][i], answered'[k][j])
    BY <1>7 DEF RepliesFit
  <2>1. CASE k # l
    BY <1>4, <2>1 DEF RouterInv, RepliesFit
  <2>2. CASE k = l /\ j \in 1..Len(answered[l])
    BY <1>3, <1>4, <1>6, <2>2 DEF RouterInv, RepliesFit
  <2>3. CASE k = l /\ j = Len(answered[l]) + 1
    <3>1. i \in 1..Len(answered[l]) /\ answered'[l][i] = answered[l][i] /\ answered'[l][j] = t
      BY <1>3, <1>4, <1>6, <2>3
    <3>2. answered[l][i] \in Questions \ forgotten /\ In(answered[l][i], answered[l])
      BY <1>1, <2>3, <3>1, InPlace
    <3> QED
      BY <1>5, <2>3, <3>1, <3>2
  <2> QED
    BY <1>3, <1>4, <1>6, <2>1, <2>2, <2>3
<1> QED
  BY <1>8, <1>9, <1>10 DEF t

\* The chain moves on, past a message that was begun and may have been replied to.
LEMMA ChainMovesOn ==
    ASSUME RouterInv, NEW l \in Lines, chain[l] # <<>>, Head(chain[l]) \in Begun, Advance(l),
           UNCHANGED <<seen, enqueued, forgotten, lineOf>>,
           answered' \in [Lines -> Seq(Questions)], RepliesFit',
           \A k \in Lines : \A x : In(x, answered'[k]) => In(x, answered[k]) \/ (k = l /\ x = Head(chain[l]))
    PROVE  RouterInv'
<1>1. chain[l] \in Seq(Questions) /\ RouterTypes
  BY DEF RouterInv, RouterTypes
<1>2. /\ Len(chain[l]) \in Nat /\ 1 <= Len(chain[l]) /\ Head(chain[l]) = chain[l][1]
      /\ Tail(chain[l]) \in Seq(Questions) /\ Len(Tail(chain[l])) = Len(chain[l]) - 1
      /\ \A i \in 1..(Len(chain[l]) - 1) : Tail(chain[l])[i] = chain[l][i + 1]
      /\ \A x : In(x, chain[l]) <=> x = Head(chain[l]) \/ In(x, Tail(chain[l]))
  BY <1>1, FirstAndRest
<1>3. /\ chain'[l] = Tail(chain[l]) /\ step'[l] = "idle"
      /\ \A k \in Lines : k # l => chain'[k] = chain[k] /\ step'[k] = step[k]
  BY <1>1 DEF Advance, RouterTypes
<1>4. Begun' = Begun
  BY DEF Begun
<1>5. \A k, a, b : CameBefore(k, a, b)' <=> CameBefore(k, a, b)
  BY DEF CameBefore
<1>6. RouterTypes'
  BY <1>1, <1>2 DEF Advance, RouterTypes
<1>7. EverythingCameIn'
  BY <1>2, <1>3, <1>4 DEF RouterInv, EverythingCameIn
<1>8. EnqueuedOnce' /\ BegunInOrder'
  BY <1>4, <1>5 DEF RouterInv, EnqueuedOnce, BegunInOrder
<1>9. ChainInOrder'
  <2> SUFFICES ASSUME NEW k \in Lines, NEW i \in 1..Len(chain'[k]), NEW a \in Questions \ Begun,
                      CameBefore(k, a, chain'[k][i])
               PROVE  \E j \in 1..(i - 1) : chain'[k][j] = a
    BY <1>4, <1>5 DEF ChainInOrder
  <2>1. CASE k # l
    <3>1. chain'[k] = chain[k]
      BY <1>3, <2>1
    <3>2. i \in 1..Len(chain[k]) /\ CameBefore(k, a, chain[k][i])
      BY <3>1
    <3>3. \E j \in 1..(i - 1) : chain[k][j] = a
      BY <3>2 DEF RouterInv, ChainInOrder
    <3> QED
      BY <3>1, <3>3
  <2>2. CASE k = l
    <3>0. i \in 1..(Len(chain[l]) - 1)
      BY <1>2, <1>3, <2>2
    <3>1. chain'[l][i] = chain[l][i + 1] /\ i \in Nat /\ 1 <= i /\ i + 1 \in 1..Len(chain[l])
      BY <1>2, <1>3, <3>0
    <3>2. PICK j \in 1..((i + 1) - 1) : chain[l][j] = a
      BY <2>2, <3>1 DEF RouterInv, ChainInOrder
    <3>3. j # 1
      BY <1>2, <3>2
    <3>4. j - 1 \in 1..(i - 1) /\ j - 1 \in 1..(Len(chain[l]) - 1) /\ (j - 1) + 1 = j
      BY <1>2, <3>0, <3>1, <3>2, <3>3
    <3>5. chain'[l][j - 1] = a
      BY <1>2, <1>3, <3>2, <3>4
    <3> QED
      BY <2>2, <3>4, <3>5
  <2> QED
    BY <2>1, <2>2
<1>10. FirstFits'
  BY <1>3, <1>4, <1>5 DEF RouterInv, FirstFits
<1> QED
  BY <1>6, <1>7, <1>8, <1>9, <1>10 DEF RouterInv

\* The first message is begun: all that came in before it was.
LEMMA FirstIsBegun ==
    ASSUME RouterInv, NEW l \in Lines, chain[l] # <<>>, ~In(Head(chain[l]), seen),
           Remember(Head(chain[l])), step' = [step EXCEPT ![l] = "asking"],
           UNCHANGED <<chain, enqueued, answered, lineOf>>
    PROVE  RouterInv'
<1> DEFINE t == Head(chain[l])
<1>1. chain[l] \in Seq(Questions) /\ RouterTypes
  BY DEF RouterInv, RouterTypes
<1>2. t \in Questions /\ Len(chain[l]) \in Nat /\ 1 <= Len(chain[l]) /\ t = chain[l][1] /\ In(t, chain[l])
  BY <1>1, FirstAndRest
<1>3. /\ seen' \in Seq(Questions) /\ Len(seen') <= MaxSeen
      /\ forgotten \subseteq forgotten' /\ forgotten' \subseteq Questions
      /\ Begun' = Begun \cup {t}
  BY <1>1, <1>2, Remembering
<1>4. ~In(t, seen)
  OBVIOUS
<1> HIDE DEF t
<1>5. \A k, a, b : CameBefore(k, a, b)' <=> CameBefore(k, a, b)
  BY DEF CameBefore
<1>6. In(t, enqueued[l]) /\ lineOf[t] = l
  BY <1>2 DEF RouterInv, EverythingCameIn
<1>7. \A a \in Questions : CameBefore(l, a, t) => a \in Begun
  <2> SUFFICES ASSUME NEW a \in Questions, CameBefore(l, a, t), a \notin Begun PROVE FALSE
    OBVIOUS
  <2>1. 1 \in 1..Len(chain[l]) /\ CameBefore(l, a, chain[l][1])
    BY <1>2
  <2>2. PICK k \in 1..(1 - 1) : chain[l][k] = a
    BY <2>1 DEF RouterInv, ChainInOrder
  <2> QED
    BY <2>2
<1>8. RouterTypes'
  BY <1>1, <1>3 DEF RouterTypes
<1>9. EverythingCameIn'
  BY <1>3, <1>6 DEF RouterInv, EverythingCameIn
<1>10. EnqueuedOnce' /\ RepliesFit'
  BY <1>3, <1>5 DEF RouterInv, EnqueuedOnce, RepliesFit
<1>11. BegunInOrder'
  <2> SUFFICES ASSUME NEW k \in Lines, NEW a \in Questions, NEW b \in Begun', CameBefore(k, a, b)
               PROVE  a \in Begun'
    BY <1>5 DEF BegunInOrder
  <2>1. CASE b \in Begun
    <3>1. b \in Questions
      BY <2>1 DEF Begun
    <3> QED
      BY <1>3, <2>1, <3>1 DEF RouterInv, BegunInOrder
  <2>2. CASE b = t
    <3>1. In(t, enqueued[k])
      BY <1>1, <2>2, OneCameFirst
    <3>2. k = l
      BY <1>2, <1>6, <3>1 DEF RouterInv, EverythingCameIn
    <3> QED
      BY <1>3, <1>7, <2>2, <3>2
  <2> QED
    BY <1>3, <2>1, <2>2
<1>12. ChainInOrder'
  BY <1>3, <1>5 DEF RouterInv, ChainInOrder
<1>13. FirstFits'
  <2> SUFFICES ASSUME NEW k \in Lines, step'[k] # "idle"
               PROVE  /\ chain[k] # <<>> /\ Head(chain[k]) \in Begun'
                      /\ Head(chain[k]) \notin forgotten' =>
                            \A a \in Questions \ forgotten' :
                                In(a, answered[k]) => CameBefore(k, a, Head(chain[k]))
    BY <1>5 DEF FirstFits
  <2>1. CASE k # l
    <3>1. step[k] # "idle"
      BY <1>1, <2>1 DEF RouterTypes
    <3> QED
      BY <1>3, <3>1 DEF RouterInv, FirstFits
  <2>2. CASE k = l
    <3>1. chain[l] # <<>> /\ t \in Begun'
      BY <1>3
    <3>2. ASSUME t \notin forgotten', NEW a \in Questions \ forgotten', In(a, answered[l])
          PROVE  CameBefore(l, a, t)
      <4>1. t \notin Begun
        BY <1>3, <1>4, <3>2 DEF Begun
      <4>2. In(a, enqueued[l]) /\ a \in Begun
        BY <3>2 DEF RouterInv, EverythingCameIn
      <4>3. CameBefore(l, a, t) \/ CameBefore(l, t, a)
        BY <1>1, <1>6, <4>1, <4>2, OneCameFirst
      <4> QED
        BY <1>2, <4>1, <4>2, <4>3 DEF RouterInv, BegunInOrder
    <3> QED
      BY <2>2, <3>1, <3>2 DEF t
  <2> QED
    BY <2>1, <2>2
<1> QED
  BY <1>8, <1>9, <1>10, <1>11, <1>12, <1>13 DEF RouterInv

\* Nothing of the agent changes.
LEMMA AgentRests ==
    ASSUME AgentInv, UNCHANGED agentVars PROVE AgentInv' /\ lineOf' = lineOf
BY AgentKeeps DEF agentVars

LEMMA TextStart == TextInit => TextInv
<1> SUFFICES ASSUME TextInit PROVE TextInv
  OBVIOUS
<1>1. AgentInv
  BY AgentStart DEF TextInit
<1>2. RouterInv
  BY FreshRouterFits DEF TextInit, FreshRouter
<1>3. ServiceInv
  BY TextAssumption DEF TextInit, ServiceInv
<1>4. OneAtATime
  BY DEF TextInit, AgentInit, OneAtATime, UnderWay, Going
<1> QED
  BY <1>1, <1>2, <1>3, <1>4 DEF TextInv

\* The agent alone, and the other parts of a call, leave the router and the service as they are.
LEMMA BridgeRests ==
    ASSUME RouterInv, ServiceInv, UNCHANGED <<serviceVars, routerVars, posts>>, lineOf' = lineOf
    PROVE  RouterInv' /\ ServiceInv'
<1>1. RouterInv'
  BY RouterRests
<1>2. ServiceInv'
  BY DEF ServiceInv, serviceVars, routerVars
<1> QED
  BY <1>1, <1>2

LEMMA ServiceSteps ==
    ASSUME TextInv, StartText \/ Bound \/ StopText \/ CloseText \/ Drained PROVE TextInv'
<1>1. UNCHANGED <<agentVars, routerVars>> /\ ServiceInv'
  <2>1. CASE StartText
    BY <2>1 DEF StartText, TextInv, ServiceInv, routerVars
  <2>2. CASE Bound
    BY <2>2 DEF Bound, TextInv, ServiceInv, routerVars
  <2>3. CASE StopText
    BY <2>3 DEF StopText, TextInv, ServiceInv, routerVars
  <2>4. CASE CloseText
    BY <2>4 DEF CloseText, TextInv, ServiceInv, routerVars
  <2>5. CASE Drained
    BY <2>5 DEF Drained, TextInv, ServiceInv, routerVars
  <2> QED
    BY <2>1, <2>2, <2>3, <2>4, <2>5
<1>2. AgentInv' /\ lineOf' = lineOf
  BY <1>1, AgentRests DEF TextInv
<1>3. RouterInv'
  BY <1>1, <1>2, RouterRests DEF TextInv
<1>4. OneAtATime'
  BY <1>1 DEF TextInv, OneAtATime, UnderWay, agentVars, routerVars
<1> QED
  BY <1>1, <1>2, <1>3, <1>4 DEF TextInv

LEMMA BuiltAnew ==
    ASSUME TextInv, Rebuild PROVE TextInv'
<1>1. FreshRouter'
  BY DEF Rebuild, FreshRouter
<1>2. RouterInv'
  BY <1>1, FreshRouterFits, PTL
<1>3. ServiceInv'
  BY TextAssumption DEF Rebuild, TextInv, ServiceInv
<1>4. \A l \in Lines : UnderWay(l)' = {}
  BY DEF Rebuild, UnderWay, Going
<1>5. AgentInv'
  <2>1. TurnTypes' /\ InFlightGoes' /\ OneLiveTurn' /\ IdleRests'
    BY <1>4 DEF Rebuild, TextInv, AgentInv, TurnTypes, InFlightGoes, OneLiveTurn, IdleRests, Going
  <2>2. HistoryTypes' /\ FlightIsAskedLast' /\ HistoryFits'
    BY DEF Rebuild, HistoryTypes, FlightIsAskedLast, HistoryFits, Fits
  <2>3. CountsOK'
    BY DEF Rebuild, TextInv, AgentInv, CountsOK
  <2> QED
    BY <2>1, <2>2, <2>3 DEF AgentInv
<1>6. OneAtATime'
  BY <1>4 DEF Rebuild, TextInv, OneAtATime
<1> QED
  BY <1>2, <1>3, <1>5, <1>6 DEF TextInv

LEMMA MessageDelivered ==
    ASSUME TextInv, NEW t \in Questions, Deliver(t) PROVE TextInv'
<1>1. Enqueue(t) /\ UNCHANGED <<agentVars, serviceVars>> /\ bind = "bound"
  BY DEF Deliver
<1>2. AgentInv' /\ lineOf' = lineOf /\ TurnTypes
  BY <1>1, AgentRests DEF TextInv, AgentInv
<1>3. RouterInv'
  BY <1>1, <1>2, MessageArrives DEF TextInv
<1>4. ServiceInv'
  BY <1>1 DEF TextInv, ServiceInv, serviceVars
<1>5. \A l \in Lines : chain[l] # <<>> => Head(chain'[l]) = Head(chain[l])
  <2>1. PICK k \in Lines : k = lineOf[t]
    BY <1>2 DEF TurnTypes
  <2>2. chain' = [chain EXCEPT ![k] = Append(chain[k], t)]
    BY <1>1, <2>1 DEF Enqueue
  <2>3. chain \in [Lines -> Seq(Questions)]
    BY DEF TextInv, RouterInv, RouterTypes
  <2>4. chain[k] # <<>> => Head(Append(chain[k], t)) = Head(chain[k])
    BY <2>3
  <2> QED
    BY <2>2, <2>3, <2>4
<1>6. OneAtATime'
  <2>1. \A l \in Lines : step[l] = "asking" => chain[l] # <<>>
    BY DEF TextInv, RouterInv, FirstFits
  <2>2. step' = step
    BY <1>1 DEF Enqueue
  <2> QED
    BY <1>1, <1>5, <2>1, <2>2 DEF TextInv, OneAtATime, UnderWay, agentVars
<1> QED
  BY <1>2, <1>3, <1>4, <1>6 DEF TextInv

LEMMA TurnsGo ==
    ASSUME TextInv, NEW t \in Questions, TurnGoes(t) PROVE TextInv'
<1>1. Settle(t) /\ UNCHANGED <<serviceVars, routerVars, posts>>
  BY DEF TurnGoes
<1>2. AgentInv' /\ TurnTypes
  BY <1>1, TurnSettles DEF TextInv, AgentInv
<1>3. lineOf' = lineOf /\ interrupted' = interrupted /\ \A u \in Questions : turnAt'[u] \in Going => turnAt[u] \in Going
  BY <1>1, <1>2 DEF Settle, Skip, ModelAnswers, Voices, TurnTypes, Going
<1>4. RouterInv' /\ ServiceInv'
  BY <1>1, <1>3, BridgeRests DEF TextInv
<1>5. OneAtATime'
  BY <1>1, <1>3 DEF TextInv, OneAtATime, UnderWay, routerVars
<1> QED
  BY <1>2, <1>4, <1>5 DEF TextInv

\* The service rests while its router works: a chain that is empty stays so.
LEMMA ServiceRests ==
    ASSUME ServiceInv, UNCHANGED serviceVars, \A l \in Lines : chain[l] = <<>> => chain'[l] = <<>>
    PROVE  ServiceInv'
BY DEF ServiceInv, serviceVars

LEMMA AnswersBegin ==
    ASSUME TextInv, NEW l \in Lines, Begin(l) PROVE TextInv'
<1> DEFINE t == Head(chain[l])
<1>1. chain \in [Lines -> Seq(Questions)] /\ chain[l] # <<>> /\ step[l] = "idle" /\ step \in [Lines -> {"idle", "asking", "sending"}]
  BY DEF Begin, TextInv, RouterInv, RouterTypes
<1>2. t \in Questions /\ In(t, chain[l])
  BY <1>1, FirstAndRest
<1>3. lineOf[t] = l
  BY <1>2 DEF TextInv, RouterInv, EverythingCameIn
<1>4. UnderWay(l) = {}
  BY <1>1 DEF TextInv, OneAtATime
<1>5. CASE In(t, seen) /\ Advance(l) /\ UNCHANGED <<agentVars, seen, forgotten>> /\ UNCHANGED <<serviceVars, enqueued, answered, posts>>
  <2>1. AgentInv' /\ lineOf' = lineOf
    BY <1>5, AgentRests DEF TextInv
  <2>2. t \in Begun
    BY <1>2, <1>5 DEF Begun
  <2>3. RouterInv'
    <3>1. answered' \in [Lines -> Seq(Questions)] /\ RepliesFit'
      BY <1>5 DEF TextInv, RouterInv, RouterTypes, RepliesFit, CameBefore
    <3> QED
      BY <1>1, <1>5, <2>1, <2>2, <3>1, ChainMovesOn DEF TextInv
  <2>4. ServiceInv'
    <3>1. \A k \in Lines : chain[k] = <<>> => chain'[k] = <<>>
      BY <1>1, <1>5 DEF Advance
    <3> QED
      BY <1>5, <3>1, ServiceRests DEF TextInv
  <2>5. OneAtATime'
    <3>1. \A k \in Lines : k # l => chain'[k] = chain[k] /\ step'[k] = step[k]
      BY <1>1, <1>5 DEF Advance
    <3>2. \A k \in Lines : UnderWay(k)' = UnderWay(k)
      BY <1>5 DEF UnderWay, agentVars
    <3>3. interrupted' = interrupted
      BY <1>5 DEF agentVars
    <3> QED
      BY <1>4, <3>1, <3>2, <3>3 DEF TextInv, OneAtATime
  <2> QED
    BY <2>1, <2>3, <2>4, <2>5 DEF TextInv
<1>6. CASE /\ ~In(t, seen) /\ Remember(t) /\ AskTurn(t) /\ step' = [step EXCEPT ![l] = "asking"]
           /\ UNCHANGED chain /\ UNCHANGED <<serviceVars, enqueued, answered, posts>>
  <2>1. AgentInv'
    BY <1>2, <1>6, QuestionAsked DEF TextInv
  <2>2. lineOf' = lineOf
    BY <1>6 DEF AskTurn
  <2>3. RouterInv'
    BY <1>1, <1>6, <2>2, FirstIsBegun DEF TextInv
  <2>4. ServiceInv'
    BY <1>6, ServiceRests DEF TextInv
  <2>5. inFlight[l] = NoTurn
    BY <1>4 DEF TextInv, AgentInv, InFlightGoes
  <2>6. ~interrupted'
    BY <1>3, <1>6, <2>5 DEF AskTurn, TextInv, OneAtATime
  <2>7. turnAt' = [turnAt EXCEPT ![t] = "asking"]
    BY <1>6 DEF AskTurn
  <2>8. \A k \in Lines : UnderWay(k)' \subseteq UnderWay(k) \cup (IF k = l THEN {t} ELSE {})
    BY <1>2, <1>3, <2>2, <2>7 DEF UnderWay, TextInv, AgentInv, TurnTypes
  <2>9. \A k \in Lines : k # l => step'[k] = step[k]
    BY <1>1, <1>6
  <2>10. step'[l] = "asking" /\ chain' = chain
    BY <1>1, <1>6
  <2>11. \A k \in Lines : UnderWay(k)' \subseteq (IF step'[k] = "asking" THEN {Head(chain'[k])} ELSE {})
    <3>1. UnderWay(l)' \subseteq {Head(chain'[l])}
      BY <1>4, <2>8, <2>10
    <3>2. \A k \in Lines : UnderWay(k) \subseteq (IF step[k] = "asking" THEN {Head(chain[k])} ELSE {})
      BY DEF TextInv, OneAtATime
    <3>3. \A k \in Lines : k # l => UnderWay(k)' \subseteq (IF step'[k] = "asking" THEN {Head(chain'[k])} ELSE {})
      BY <2>8, <2>9, <2>10, <3>2
    <3> QED
      BY <2>10, <3>1, <3>3
  <2>12. OneAtATime'
    BY <2>6, <2>11 DEF OneAtATime
  <2> QED
    BY <2>1, <2>3, <2>4, <2>12 DEF TextInv
<1> QED
  BY <1>5, <1>6 DEF Begin

LEMMA RepliesCome ==
    ASSUME TextInv, NEW l \in Lines, HasReply(l) \/ Send(l) PROVE TextInv'
<1> DEFINE t == Head(chain[l])
<1>1. /\ chain \in [Lines -> Seq(Questions)] /\ step \in [Lines -> {"idle", "asking", "sending"}]
      /\ answered \in [Lines -> Seq(Questions)]
  BY DEF TextInv, RouterInv, RouterTypes
<1>2. step[l] # "idle"
  BY DEF HasReply, Send
<1>3. chain[l] # <<>> /\ t \in Begun
  BY <1>2 DEF TextInv, RouterInv, FirstFits
<1>4. UNCHANGED <<agentVars, serviceVars, seen, enqueued, forgotten, posts>>
  BY DEF HasReply, Send
<1>5. AgentInv' /\ lineOf' = lineOf
  BY <1>4, AgentRests DEF TextInv
<1>6. UnderWay(l) = {}
  <2>1. step[l] = "asking" => turnAt[t] \notin Going
    BY DEF HasReply, Send, Going
  <2>2. UnderWay(l) \subseteq (IF step[l] = "asking" THEN {t} ELSE {})
    BY DEF TextInv, OneAtATime
  <2> QED
    BY <2>1, <2>2 DEF UnderWay
<1>7. CASE Advance(l)
  <2>1. \/ answered' = answered
        \/ answered' = [answered EXCEPT ![l] = Append(answered[l], t)]
    BY DEF HasReply, Send
  <2>2. /\ answered' \in [Lines -> Seq(Questions)] /\ RepliesFit'
        /\ \A k \in Lines : \A x : In(x, answered'[k]) => In(x, answered[k]) \/ (k = l /\ x = Head(chain[l]))
    <3>1. CASE answered' = answered
      <4>1. \A k, a, b : CameBefore(k, a, b)' <=> CameBefore(k, a, b)
        BY <1>4 DEF CameBefore
      <4>2. RepliesFit'
        BY <1>4, <3>1, <4>1 DEF TextInv, RouterInv, RepliesFit
      <4> QED
        BY <1>1, <3>1, <4>2
    <3>2. CASE answered' = [answered EXCEPT ![l] = Append(answered[l], t)]
      BY <1>2, <1>4, <3>2, ReplyIsSent DEF TextInv
    <3> QED
      BY <2>1, <3>1, <3>2
  <2>3. RouterInv'
    BY <1>3, <1>4, <1>5, <1>7, <2>2, ChainMovesOn DEF TextInv
  <2>4. ServiceInv'
    <3>1. \A k \in Lines : chain[k] = <<>> => chain'[k] = <<>>
      BY <1>1, <1>3, <1>7 DEF Advance
    <3> QED
      BY <1>4, <3>1, ServiceRests DEF TextInv
  <2>5. OneAtATime'
    <3>1. \A k \in Lines : k # l => chain'[k] = chain[k] /\ step'[k] = step[k]
      BY <1>1, <1>7 DEF Advance
    <3>2. \A k \in Lines : UnderWay(k)' = UnderWay(k)
      BY <1>4 DEF UnderWay, agentVars
    <3>3. interrupted' = interrupted
      BY <1>4 DEF agentVars
    <3> QED
      BY <1>6, <3>1, <3>2, <3>3 DEF TextInv, OneAtATime
  <2> QED
    BY <1>5, <2>3, <2>4, <2>5 DEF TextInv
<1>8. CASE step' = [step EXCEPT ![l] = "sending"] /\ UNCHANGED <<chain, answered>>
  <2>1. \A k \in Lines : step'[k] # "idle" => step[k] # "idle"
    BY <1>1, <1>2, <1>8
  <2>2. Begun' = Begun /\ \A k, a, b : CameBefore(k, a, b)' <=> CameBefore(k, a, b)
    BY <1>4 DEF Begun, CameBefore
  <2>3. RouterTypes'
    BY <1>1, <1>4, <1>8 DEF TextInv, RouterInv, RouterTypes
  <2>4. FirstFits'
    BY <1>4, <1>8, <2>1, <2>2 DEF TextInv, RouterInv, FirstFits
  <2>5. EverythingCameIn' /\ EnqueuedOnce' /\ BegunInOrder'
    BY <1>4, <1>5, <1>8, <2>2 DEF TextInv, RouterInv, EverythingCameIn, EnqueuedOnce, BegunInOrder
  <2>6. ChainInOrder' /\ RepliesFit'
    BY <1>4, <1>8, <2>2 DEF TextInv, RouterInv, ChainInOrder, RepliesFit
  <2>7. ServiceInv'
    BY <1>4, <1>8, ServiceRests DEF TextInv
  <2>8. OneAtATime'
    <3>1. \A k \in Lines : k # l => chain'[k] = chain[k] /\ step'[k] = step[k]
      BY <1>1, <1>8
    <3>2. \A k \in Lines : UnderWay(k)' = UnderWay(k)
      BY <1>4 DEF UnderWay, agentVars
    <3>3. interrupted' = interrupted
      BY <1>4 DEF agentVars
    <3> QED
      BY <1>6, <3>1, <3>2, <3>3 DEF TextInv, OneAtATime
  <2> QED
    BY <1>5, <2>3, <2>4, <2>5, <2>6, <2>7, <2>8 DEF TextInv, RouterInv
<1> QED
  <2>1. Advance(l) \/ (step' = [step EXCEPT ![l] = "sending"] /\ UNCHANGED <<chain, answered>>)
    BY DEF HasReply, Send
  <2> QED
    BY <1>7, <1>8, <2>1

LEMMA TextKeeps ==
    ASSUME TextInv, [TextNext]_textVars PROVE TextInv'
<1>1. CASE UNCHANGED textVars
  <2>1. AgentInv' /\ lineOf' = lineOf
    BY <1>1, AgentRests DEF TextInv, textVars
  <2>2. RouterInv' /\ ServiceInv'
    BY <1>1, <2>1, BridgeRests DEF TextInv, textVars
  <2>3. OneAtATime'
    BY <1>1 DEF TextInv, OneAtATime, UnderWay, textVars, agentVars, routerVars
  <2> QED
    BY <2>1, <2>2, <2>3 DEF TextInv
<1>2. ASSUME NEW t \in Questions, Deliver(t) \/ TurnGoes(t) PROVE TextInv'
  BY <1>2, MessageDelivered, TurnsGo
<1>3. ASSUME NEW l \in Lines, Begin(l) \/ HasReply(l) \/ Send(l) PROVE TextInv'
  BY <1>3, AnswersBegin, RepliesCome
<1> QED
  BY <1>1, <1>2, <1>3, ServiceSteps, BuiltAnew DEF TextNext

\* What the invariant promises.
LEMMA TextFits ==
    ASSUME AgentInv, RouterInv, ServiceInv, OneAtATime \/ (bind = "none" /\ halt = "no")
    PROVE  AnswersFit /\ TextsAreAnswered
<1>1. AnswersFit
  <2>1. AgentTypeOK /\ OneLiveTurn /\ AnswersFitQuestions
    BY AgentFits
  <2>2. TextTypeOK
    BY <2>1 DEF RouterInv, RouterTypes, FirstFits, ServiceInv, TextTypeOK
  <2> QED
    BY <2>1, <2>2 DEF AnswersFit
<1>2. \A l \in Lines : answered[l] \in Seq(Questions) /\ enqueued[l] \in Seq(Questions)
  BY DEF RouterInv, RouterTypes
<1>3. \A l \in Lines : DOMAIN answered[l] = 1..Len(answered[l]) /\ DOMAIN enqueued[l] = 1..Len(enqueued[l])
  BY <1>2
<1>4. \A l \in Lines : Len(answered[l]) \in Nat /\ Len(enqueued[l]) \in Nat
  BY <1>2
<1>5. AnsweredOnce
  <2>1. \A l \in Lines : \A a : ~CameBefore(l, a, a)
    BY <1>4 DEF RouterInv, EnqueuedOnce, CameBefore
  <2>2. SUFFICES ASSUME NEW l \in Lines, NEW i \in 1..Len(answered[l]), NEW j \in 1..Len(answered[l]),
                        answered[l][i] = answered[l][j], i # j, answered[l][i] \notin forgotten
                 PROVE  FALSE
    BY <1>3 DEF AnsweredOnce
  <2>3. i < j \/ j < i
    BY <1>4, <2>2
  <2> QED
    BY <2>1, <2>2, <2>3 DEF RouterInv, RepliesFit
<1>6. RepliesInOrder
  <2> SUFFICES ASSUME NEW l \in Lines, NEW i \in 1..Len(answered[l]), NEW j \in 1..Len(answered[l]), i < j,
                      answered[l][i] \notin forgotten, answered[l][j] \notin forgotten
               PROVE  \E p, q \in 1..Len(enqueued[l]) :
                          p < q /\ enqueued[l][p] = answered[l][i] /\ enqueued[l][q] = answered[l][j]
    BY <1>3 DEF RepliesInOrder
  <2> QED
    BY DEF RouterInv, RepliesFit, CameBefore
<1>7. NoTextSuperseded
  BY DEF NoTextSuperseded, OneAtATime
<1>8. StoppedIsQuiet
  <2> SUFFICES ASSUME halt = "done" PROVE StoppedIsQuiet
    BY DEF StoppedIsQuiet
  <2>1. bind \notin {"pending", "bound"} /\ OneAtATime /\ \A l \in Lines : chain[l] = <<>>
    BY DEF ServiceInv
  <2>2. \A l \in Lines : step[l] = "idle"
    BY <2>1 DEF RouterInv, FirstFits
  <2>3. \A l \in Lines : UnderWay(l) = {}
    BY <2>1, <2>2 DEF OneAtATime
  <2> QED
    BY <2>1, <2>2, <2>3 DEF StoppedIsQuiet
<1> QED
  BY <1>1, <1>5, <1>6, <1>7, <1>8 DEF TextsAreAnswered

\* An agent that is asked at any time, on any number of lines, answers the question a line asked last: of
\* the turns of a line only the newest can be heard, and no answer stands under another question (agent.ts).
THEOREM AnswersFitTheirQuestions ==
    AgentInit /\ [][AgentNext]_agentVars => [](OneLiveTurn /\ AnswersFitQuestions)
<1>1. AgentInit => AgentInv
  BY AgentStart
<1>2. AgentInv /\ [AgentNext]_agentVars => AgentInv'
  BY AgentKeeps
<1>3. AgentInv => OneLiveTurn /\ AnswersFitQuestions
  BY AgentFits
<1> QED
  BY <1>1, <1>2, <1>3, PTL

\* However often a message is posted, late or again, and whatever fails: a customer's messages are
\* answered once and in order, and a service that has stopped says nothing (whatsappText.ts, router.ts).
THEOREM TextsStayAnswered == TextSpec => [](AnswersFit /\ TextsAreAnswered)
<1>1. TextInit => TextInv
  BY TextStart
<1>2. TextInv /\ [TextNext]_textVars => TextInv'
  BY TextKeeps
<1>3. TextInv => AnswersFit /\ TextsAreAnswered
  BY TextFits DEF TextInv
<1> QED
  BY <1>1, <1>2, <1>3, PTL DEF TextSpec

-----------------------------------------------------------------------------
(* The recorder *)

\* A sequence of the call's own bytes, from the one with number `from' on.
Counts(s, from) == s \in Seq(Nat) /\ \A i \in 1..Len(s) : s[i] = from + i - 1

LEMMA CountsOn ==
    ASSUME NEW a, NEW b, NEW from \in Nat, Counts(a, from), Counts(b, from + Len(a))
    PROVE  Counts(a \o b, from) /\ Len(a \o b) = Len(a) + Len(b)
<1>1. a \in Seq(Nat) /\ b \in Seq(Nat) /\ Len(a) \in Nat /\ Len(b) \in Nat
  BY DEF Counts
<1>2. a \o b \in Seq(Nat) /\ Len(a \o b) = Len(a) + Len(b)
  BY <1>1
<1>3. \A i \in 1..(Len(a) + Len(b)) : (a \o b)[i] = IF i <= Len(a) THEN a[i] ELSE b[i - Len(a)]
  BY <1>1
<1>4. ASSUME NEW i \in 1..(Len(a) + Len(b)) PROVE (a \o b)[i] = from + i - 1
  <2>1. CASE i <= Len(a)
    BY <1>1, <1>3, <2>1 DEF Counts
  <2>2. CASE i > Len(a)
    <3>1. i - Len(a) \in 1..Len(b) /\ (a \o b)[i] = b[i - Len(a)]
      BY <1>1, <1>3, <2>2
    <3>2. b[i - Len(a)] = (from + Len(a)) + (i - Len(a)) - 1
      BY <3>1 DEF Counts
    <3> QED
      BY <1>1, <3>1, <3>2
  <2> QED
    BY <1>1, <2>1, <2>2
<1> QED
  BY <1>2, <1>4 DEF Counts

LEMMA CountsUpTo ==
    ASSUME NEW a, NEW from \in Nat, Counts(a, from), NEW k \in 0..Len(a)
    PROVE  Counts(SubSeq(a, 1, k), from) /\ Len(SubSeq(a, 1, k)) = k
<1>1. a \in Seq(Nat) /\ Len(a) \in Nat /\ k \in Nat /\ k <= Len(a)
  BY DEF Counts
<1>2. SubSeq(a, 1, k) \in Seq(Nat) /\ Len(SubSeq(a, 1, k)) = k /\ \A i \in 1..k : SubSeq(a, 1, k)[i] = a[i]
  BY <1>1
<1> QED
  BY <1>1, <1>2 DEF Counts

LEMMA CountsAnew ==
    ASSUME NEW n \in Nat, NEW from \in Nat
    PROVE  Counts([i \in 1..n |-> from + i - 1], from) /\ Len([i \in 1..n |-> from + i - 1]) = n
BY DEF Counts

LEMMA CountsNone ==
    ASSUME NEW from \in Nat PROVE Counts(<<>>, from) /\ Len(<<>>) = 0 /\ Counts(<<from>>, from) /\ Len(<<from>>) = 1
BY DEF Counts

Even(n) == n % 2 = 0

\* The file can be played.
Playable ==
    /\ Counts(disk, 0)
    /\ dataSize \in Nat /\ dataSize <= Len(disk) /\ Even(dataSize) /\ dataSize <= MaxDataBytes
    /\ riffSize \in Nat /\ riffSize >= HeaderSize(dataSize)

RecorderTypes ==
    /\ recorded \in Nat /\ accepted \in Nat /\ flushedBytes \in Nat
    /\ Counts(buffer, flushedBytes)
    /\ Even(flushedBytes) /\ Even(Len(buffer))

\* As long as nothing has failed, what was accepted is on disk or buffered, ...
NothingIsLost ==
    ~failure => accepted = flushedBytes + Len(buffer) /\ accepted <= MaxDataBytes

\* ... and the file is what the recorder believes, until the process dies in a flush.
FileIsKnown ==
    ~failure /\ alive => Len(disk) = flushedBytes /\ dataSize = flushedBytes /\ riffSize = HeaderSize(flushedBytes)

\* All that was given is accepted but for half a sample, up to the cap.
AllIsAccepted ==
    ~failure /\ ~isClosed =>
        \/ capReached /\ accepted = MaxDataBytes
        \/ ~capReached /\ carry = {} /\ recorded = accepted
        \/ ~capReached /\ carry = {accepted} /\ recorded = accepted + 1

ClosedForGood == isClosed => ~fd

RecorderInv ==
    /\ Playable /\ RecorderTypes /\ NothingIsLost /\ FileIsKnown /\ AllIsAccepted /\ ClosedForGood
    /\ RecordedWhole /\ HearingSurvives

LEMMA RecorderSafe == RecorderInv => RecordingIsWhole
<1> SUFFICES ASSUME RecorderInv PROVE AlwaysPlayable
  BY DEF RecorderInv, RecordingIsWhole
<1>1. DOMAIN disk = 1..Len(disk) /\ \A i \in 1..Len(disk) : disk[i] = i - 1
  BY DEF RecorderInv, Playable, Counts
<1> QED
  BY <1>1 DEF RecorderInv, Playable, AlwaysPlayable, Even

LEMMA RecorderStart == RecorderInit => RecorderInv
<1> SUFFICES ASSUME RecorderInit PROVE RecorderInv
  OBVIOUS
<1>1. Counts(disk, 0) /\ Len(disk) = 0 /\ Counts(buffer, 0) /\ Len(buffer) = 0
  BY CountsNone DEF RecorderInit
<1>2. Playable
  BY <1>1, CapAssumption DEF RecorderInit, Playable, HeaderSize, Even
<1>3. RecorderTypes
  BY <1>1 DEF RecorderInit, RecorderTypes, Even
<1>4. NothingIsLost
  BY <1>1, CapAssumption DEF RecorderInit, NothingIsLost
<1>5. FileIsKnown
  BY <1>1 DEF RecorderInit, FileIsKnown, HeaderSize
<1>6. AllIsAccepted /\ ClosedForGood /\ RecordedWhole /\ HearingSurvives
  BY DEF RecorderInit, AllIsAccepted, ClosedForGood, RecordedWhole, HearingSurvives, isClosed
<1> QED
  BY <1>2, <1>3, <1>4, <1>5, <1>6 DEF RecorderInv

\* A flush that gets as far as any of its writes leaves a file that can be played.
LEMMA WritingIsSafe ==
    ASSUME Playable, NEW bytes, NEW gone \in Stages, NEW kept \in Nat, kept < Len(bytes) \/ kept = 0,
           flushedBytes \in Nat, Even(flushedBytes), Counts(bytes, flushedBytes), Even(Len(bytes)),
           flushedBytes + Len(bytes) <= MaxDataBytes, Len(disk) = flushedBytes, dataSize = flushedBytes,
           riffSize = HeaderSize(flushedBytes),
           Written(bytes, gone, kept), Sized(bytes, gone)
    PROVE  /\ Playable' /\ dataSize <= dataSize'
           /\ gone = "done" => /\ Len(disk') = flushedBytes + Len(bytes)
                                /\ dataSize' = flushedBytes + Len(bytes)
                                /\ riffSize' = HeaderSize(flushedBytes + Len(bytes))
<1> DEFINE base == SubSeq(disk, 1, flushedBytes)
           upto == IF gone = "data" THEN kept ELSE Len(bytes)
           more == SubSeq(bytes, 1, upto)
<1>1. Len(bytes) \in Nat /\ bytes \in Seq(Nat)
  BY DEF Counts
<1>2. upto \in 0..Len(bytes) /\ (gone # "data" => upto = Len(bytes))
  BY <1>1
<1>3. Counts(base, 0) /\ Len(base) = flushedBytes
  <2>1. Counts(disk, 0) /\ flushedBytes \in 0..Len(disk)
    BY DEF Playable
  <2> QED
    BY <2>1, CountsUpTo
<1>4. disk' = base \o more
  BY DEF Written
<1> HIDE DEF upto, base
<1>5. Counts(more, flushedBytes) /\ Len(more) = upto
  BY <1>2, CountsUpTo
<1> HIDE DEF more
<1>6. Counts(disk', 0) /\ Len(disk') = flushedBytes + upto
  <2>1. Counts(more, 0 + Len(base))
    BY <1>3, <1>5
  <2> QED
    BY <1>3, <1>4, <1>5, <2>1, CountsOn
<1>7. /\ riffSize' \in {riffSize, HeaderSize(flushedBytes + Len(bytes))}
      /\ dataSize' \in {dataSize, flushedBytes + Len(bytes)}
      /\ gone \in {"data", "riff"} => riffSize' = riffSize
      /\ gone \in {"size", "done"} => riffSize' = HeaderSize(flushedBytes + Len(bytes))
      /\ gone # "done" => dataSize' = dataSize
      /\ gone = "done" => dataSize' = flushedBytes + Len(bytes)
  BY DEF Sized, Patched, Stages
<1>8. Even(flushedBytes + Len(bytes)) /\ MaxDataBytes \in Nat
  BY <1>1, CapAssumption DEF Even
<1>9. gone # "data" => Len(disk') = flushedBytes + Len(bytes)
  BY <1>2, <1>6
<1>10. dataSize' \in Nat /\ Even(dataSize') /\ dataSize' <= MaxDataBytes
  BY <1>1, <1>7, <1>8 DEF Playable
<1>11. dataSize' <= Len(disk')
  BY <1>1, <1>2, <1>6, <1>7, <1>9
<1>12. riffSize' \in Nat /\ riffSize' >= HeaderSize(dataSize')
  <2>1. \/ riffSize' = riffSize /\ dataSize' = dataSize
        \/ riffSize' = HeaderSize(flushedBytes + Len(bytes)) /\ dataSize' = dataSize
        \/ riffSize' = HeaderSize(flushedBytes + Len(bytes)) /\ dataSize' = flushedBytes + Len(bytes)
    BY <1>7 DEF Stages
  <2> QED
    BY <1>1, <2>1 DEF HeaderSize
<1>13. dataSize <= dataSize'
  BY <1>1, <1>7
<1> QED
  BY <1>6, <1>7, <1>9, <1>10, <1>11, <1>12, <1>13 DEF Playable

LEMMA FlushingIsSafe ==
    ASSUME Playable, NEW bytes, NEW taken \in Nat, Flushes(bytes, taken),
           flushedBytes \in Nat, Even(flushedBytes), Counts(bytes, flushedBytes), Even(Len(bytes)),
           flushedBytes + Len(bytes) = taken, taken <= MaxDataBytes, Len(disk) = flushedBytes,
           dataSize = flushedBytes, riffSize = HeaderSize(flushedBytes)
    PROVE  /\ Playable' /\ dataSize <= dataSize'
           /\ accepted' \in Nat /\ flushedBytes' \in Nat /\ buffer' = <<>> /\ Even(flushedBytes')
           /\ ~failure' => /\ flushedBytes' = taken /\ accepted' = taken
                           /\ Len(disk') = taken /\ dataSize' = taken /\ riffSize' = HeaderSize(taken)
<1>1. PICK gone \in Stages, kept \in 0..MaxPiece : FlushAs(bytes, gone, kept, taken)
  BY DEF Flushes
<1>2. kept \in Nat /\ Len(bytes) \in Nat
  BY CapAssumption DEF Counts
<1>3. Written(bytes, gone, kept) /\ Sized(bytes, gone) /\ (kept < Len(bytes) \/ kept = 0)
  BY <1>1 DEF FlushAs
<1>4. /\ Playable' /\ dataSize <= dataSize'
      /\ gone = "done" => /\ Len(disk') = flushedBytes + Len(bytes)
                           /\ dataSize' = flushedBytes + Len(bytes)
                           /\ riffSize' = HeaderSize(flushedBytes + Len(bytes))
  BY <1>2, <1>3, WritingIsSafe
<1>5. ~failure' => gone = "done"
  BY <1>1 DEF FlushAs
<1>6. flushedBytes' = (IF gone = "data" THEN flushedBytes ELSE flushedBytes + Len(bytes)) /\ buffer' = <<>>
  BY <1>1 DEF FlushAs
<1>7. accepted' = IF gone = "done" THEN taken ELSE flushedBytes'
  BY <1>1 DEF FlushAs
<1>8. Even(flushedBytes')
  <2>1. flushedBytes' = flushedBytes \/ flushedBytes' = flushedBytes + Len(bytes)
    BY <1>6
  <2>2. Even(flushedBytes + Len(bytes))
    BY <1>2 DEF Even
  <2> QED
    BY <2>1, <2>2
<1>9. flushedBytes' \in Nat /\ accepted' \in Nat
  BY <1>2, <1>6, <1>7
<1> QED
  BY <1>4, <1>5, <1>6, <1>7, <1>8, <1>9

\* A chunk is whole samples and at most half a one, and no more of them is taken than there is room for.
LEMMA WholeSamplesAreTaken ==
    ASSUME NEW n \in Nat, NEW room \in Nat, Even(room), NEW taken,
           taken = IF (n \div 2) * 2 > room THEN room ELSE (n \div 2) * 2
    PROVE  /\ taken \in Nat /\ Even(taken) /\ taken <= n /\ taken <= room
           /\ taken < room => (Even(n) /\ taken = n) \/ (~Even(n) /\ taken + 1 = n)
<1>1. PICK h \in Nat : n = 2 * h \/ n = 2 * h + 1
  <2>1. n \div 2 \in Nat /\ (n = 2 * (n \div 2) \/ n = 2 * (n \div 2) + 1)
    OBVIOUS
  <2> QED
    BY <2>1
<1>2. (n \div 2) * 2 = 2 * h
  BY <1>1
<1>3. (n = 2 * h => Even(n)) /\ (n = 2 * h + 1 => ~Even(n)) /\ Even(2 * h)
  BY DEF Even
<1>4. taken = room \/ (taken = 2 * h /\ 2 * h <= room)
  BY <1>2
<1>5. taken <= room /\ taken <= n
  BY <1>1, <1>2
<1> QED
  BY <1>1, <1>3, <1>4, <1>5

LEMMA NextBytes ==
    ASSUME RecorderInv, ~failure, ~isClosed, ~capReached, NEW len \in Nat
    PROVE  /\ Counts(Joined(len), accepted)
           /\ Len(Joined(len)) = (IF carry = {} THEN len ELSE len + 1)
           /\ recorded + len = accepted + Len(Joined(len))
<1>1. accepted \in Nat /\ recorded \in Nat
  BY DEF RecorderInv, RecorderTypes
<1>2. (carry = {} /\ recorded = accepted) \/ (carry = {accepted} /\ recorded = accepted + 1)
  BY DEF RecorderInv, AllIsAccepted
<1>3. Counts(NewBytes(len), recorded) /\ Len(NewBytes(len)) = len
  BY <1>1, CountsAnew DEF NewBytes
<1> DEFINE ahead == IF carry = {} THEN <<>> ELSE <<CHOOSE k \in carry : TRUE>>
<1>4. CASE carry = {} /\ recorded = accepted
  <2>1. Counts(ahead, accepted) /\ Len(ahead) = 0
    BY <1>1, <1>4, CountsNone
  <2> HIDE DEF ahead
  <2>2. Counts(NewBytes(len), accepted + Len(ahead))
    BY <1>1, <1>3, <1>4, <2>1
  <2>3. Counts(ahead \o NewBytes(len), accepted) /\ Len(ahead \o NewBytes(len)) = 0 + len
    BY <1>1, <1>3, <2>1, <2>2, CountsOn
  <2> QED
    BY <1>1, <1>4, <2>3 DEF ahead, Joined
<1>5. CASE carry = {accepted} /\ recorded = accepted + 1
  <2>0. ahead = <<accepted>> /\ carry # {}
    BY <1>5
  <2>1. Counts(ahead, accepted) /\ Len(ahead) = 1
    BY <1>1, <2>0, CountsNone
  <2> HIDE DEF ahead
  <2>2. Counts(NewBytes(len), accepted + Len(ahead))
    BY <1>1, <1>3, <1>5, <2>1
  <2>3. Counts(ahead \o NewBytes(len), accepted) /\ Len(ahead \o NewBytes(len)) = 1 + len
    BY <1>1, <1>3, <2>1, <2>2, CountsOn
  <2> QED
    BY <1>1, <1>5, <2>0, <2>3 DEF ahead, Joined
<1> QED
  BY <1>2, <1>4, <1>5

LEMMA SamplesAppended ==
    ASSUME RecorderInv, alive, ~failure, ~isClosed, ~capReached, NEW len \in Nat, NEW timely,
           AppendSamples(len, timely), recorded' = recorded + len, UNCHANGED <<fd, result, alive>>,
           HearingSurvives'
    PROVE  RecorderInv' /\ dataSize <= dataSize'
<1> DEFINE all == Joined(len)
           taken == Taken(all)
           some == SubSeq(all, 1, taken)
           bytes == buffer \o some
           total == accepted + taken
<1>1. /\ accepted \in Nat /\ flushedBytes \in Nat /\ recorded \in Nat /\ Even(flushedBytes) /\ Even(Len(buffer))
      /\ Counts(buffer, flushedBytes) /\ Len(buffer) \in Nat
      /\ accepted = flushedBytes + Len(buffer) /\ accepted <= MaxDataBytes
      /\ MaxDataBytes \in Nat /\ Even(MaxDataBytes)
  BY CapAssumption DEF RecorderInv, RecorderTypes, NothingIsLost, Counts, Even
<1>2. Counts(all, accepted) /\ recorded + len = accepted + Len(all)
  BY NextBytes
<1>3. all \in Seq(Nat) /\ Len(all) \in Nat /\ \A i \in 1..Len(all) : all[i] = accepted + i - 1
  BY <1>2 DEF Counts
<1>4. Room \in Nat /\ Even(Room) /\ Room = MaxDataBytes - accepted
  BY <1>1 DEF Room, Even
<1>5. taken = IF (Len(all) \div 2) * 2 > Room THEN Room ELSE (Len(all) \div 2) * 2
  BY DEF Taken, FullSamples
<1> HIDE DEF all
<1>6. /\ capReached' = Full(total)
      /\ carry' = IF Full(total) \/ Len(all) % 2 = 0 THEN {} ELSE {all[Len(all)]}
      /\ \/ Flushes(bytes, total)
         \/ /\ ~Full(total) /\ buffer' = bytes /\ accepted' = total
            /\ UNCHANGED <<flushedBytes, failure, file, capTold>>
  BY DEF AppendSamples, all
<1> HIDE DEF taken
<1>7. /\ taken \in Nat /\ Even(taken) /\ taken <= Len(all) /\ taken <= Room
      /\ taken < Room => (Even(Len(all)) /\ taken = Len(all)) \/ (~Even(Len(all)) /\ taken + 1 = Len(all))
  BY <1>3, <1>4, <1>5, WholeSamplesAreTaken
<1>8. Counts(some, accepted) /\ Len(some) = taken
  BY <1>1, <1>2, <1>3, <1>7, CountsUpTo
<1> HIDE DEF some
<1>9. Counts(bytes, flushedBytes) /\ Len(bytes) = Len(buffer) + taken
  BY <1>1, <1>8, CountsOn
<1> HIDE DEF bytes
<1>10. total \in Nat /\ total = flushedBytes + Len(bytes) /\ total <= MaxDataBytes /\ Even(Len(bytes))
  BY <1>1, <1>4, <1>7, <1>9 DEF Even
<1>11. Full(total) => total = MaxDataBytes
  BY <1>1, <1>10 DEF Full
<1>12. ~Full(total) => taken < Room
  BY <1>1, <1>4, <1>7 DEF Full
<1>13. ~Full(total) => \/ carry' = {} /\ recorded' = total
                       \/ carry' = {total} /\ recorded' = total + 1
  <2> SUFFICES ASSUME ~Full(total) PROVE \/ carry' = {} /\ recorded' = total
                                         \/ carry' = {total} /\ recorded' = total + 1
    OBVIOUS
  <2>1. CASE Even(Len(all)) /\ taken = Len(all)
    <3>1. carry' = {}
      BY <1>6, <2>1 DEF Even
    <3> QED
      BY <1>2, <2>1, <3>1
  <2>2. CASE ~Even(Len(all)) /\ taken + 1 = Len(all)
    <3>1. carry' = {all[Len(all)]}
      BY <1>6, <2>2 DEF Even
    <3>2. all[Len(all)] = total
      BY <1>1, <1>3, <1>7, <2>2
    <3> QED
      BY <1>1, <1>2, <1>7, <2>2, <3>1, <3>2
  <2> QED
    BY <1>7, <1>12, <2>1, <2>2
<1> HIDE DEF total
<1>14. isClosed' <=> isClosed
  BY DEF isClosed
<1>15. ClosedForGood' /\ RecordedWhole'
  BY <1>14 DEF ClosedForGood, RecordedWhole, isClosed
<1>16. ~Full(total) \/ accepted' = total => (~failure' /\ accepted' = total => AllIsAccepted')
  <2> SUFFICES ASSUME accepted' = total PROVE AllIsAccepted'
    OBVIOUS
  <2>1. CASE Full(total)
    BY <1>6, <1>11, <2>1 DEF AllIsAccepted
  <2>2. CASE ~Full(total)
    BY <1>6, <1>13, <2>2 DEF AllIsAccepted
  <2> QED
    BY <2>1, <2>2
<1>17. Playable /\ Len(disk) = flushedBytes /\ dataSize = flushedBytes /\ riffSize = HeaderSize(flushedBytes)
  BY DEF RecorderInv, FileIsKnown
<1>18. CASE Flushes(bytes, total)
  <2>1. /\ Playable' /\ dataSize <= dataSize'
        /\ accepted' \in Nat /\ flushedBytes' \in Nat /\ buffer' = <<>> /\ Even(flushedBytes')
        /\ ~failure' => /\ flushedBytes' = total /\ accepted' = total
                        /\ Len(disk') = total /\ dataSize' = total /\ riffSize' = HeaderSize(total)
    BY <1>1, <1>9, <1>10, <1>17, <1>18, FlushingIsSafe
  <2>2. Counts(buffer', flushedBytes') /\ Len(buffer') = 0
    BY <2>1, CountsNone
  <2>3. RecorderTypes'
    <3>1. recorded' \in Nat /\ Even(0)
      BY <1>1 DEF Even
    <3> QED
      BY <2>1, <2>2, <3>1 DEF RecorderTypes
  <2>4. NothingIsLost' /\ FileIsKnown'
    <3>1. CASE failure'
      BY <3>1 DEF NothingIsLost, FileIsKnown
    <3>2. CASE ~failure'
      <4>1. /\ flushedBytes' = total /\ accepted' = total
            /\ Len(disk') = total /\ dataSize' = total /\ riffSize' = HeaderSize(total)
        BY <2>1, <3>2
      <4> QED
        BY <1>10, <2>2, <4>1 DEF NothingIsLost, FileIsKnown
    <3> QED
      BY <3>1, <3>2
  <2>5. AllIsAccepted'
    <3>1. CASE failure'
      BY <3>1 DEF AllIsAccepted
    <3>2. CASE ~failure'
      BY <1>16, <2>1, <3>2
    <3> QED
      BY <3>1, <3>2
  <2> QED
    BY <1>15, <2>1, <2>3, <2>4, <2>5 DEF RecorderInv
<1>19. CASE /\ ~Full(total) /\ buffer' = bytes /\ accepted' = total
            /\ UNCHANGED <<flushedBytes, failure, file, capTold>>
  <2>1. Playable' /\ FileIsKnown' /\ dataSize <= dataSize'
    BY <1>17, <1>19 DEF Playable, FileIsKnown, file
  <2>2. RecorderTypes'
    BY <1>1, <1>9, <1>10, <1>19 DEF RecorderTypes
  <2>3. NothingIsLost'
    BY <1>10, <1>19 DEF NothingIsLost
  <2>4. AllIsAccepted'
    BY <1>16, <1>19
  <2> QED
    BY <1>15, <2>1, <2>2, <2>3, <2>4 DEF RecorderInv
<1> QED
  BY <1>6, <1>18, <1>19

LEMMA ChunkArrives ==
    ASSUME RecorderInv, NEW len \in Nat, NEW timely, Chunk(len, timely) PROVE RecorderInv' /\ dataSize <= dataSize'
<1>1. alive /\ UNCHANGED <<result, sidecar, alive>> /\ recorded \in Nat
  BY DEF Chunk, RecorderInv, RecorderTypes
<1>0. dataSize' = dataSize => dataSize <= dataSize'
  BY DEF RecorderInv, Playable
<1>2. CASE UNCHANGED <<written, file, branches, recorded>>
  BY <1>0, <1>1, <1>2 DEF RecorderInv, Playable, RecorderTypes, NothingIsLost, FileIsKnown, AllIsAccepted, ClosedForGood,
                    RecordedWhole, HearingSurvives, isClosed, written, file
<1>3. CASE Refuses /\ DropBranch(TRUE) /\ UNCHANGED <<written, file, recorded>>
  BY <1>0, <1>1, <1>3 DEF Refuses, DropBranch, RecorderInv, Playable, RecorderTypes, NothingIsLost, FileIsKnown, AllIsAccepted,
                    ClosedForGood, RecordedWhole, HearingSurvives, isClosed, written, file
<1>4. CASE ~Refuses /\ capReached /\ recorded' = recorded + len /\ UNCHANGED <<written, file, branches>>
  <2>1. recorded' \in Nat /\ ~isClosed /\ result' = {}
    BY <1>1, <1>4 DEF Refuses, isClosed
  <2>2. Playable' /\ RecorderTypes' /\ NothingIsLost' /\ FileIsKnown' /\ ClosedForGood' /\ HearingSurvives'
    BY <1>1, <1>4, <2>1 DEF RecorderInv, Playable, RecorderTypes, NothingIsLost, FileIsKnown, ClosedForGood,
                            HearingSurvives, isClosed, written, file
  <2>3. AllIsAccepted' /\ RecordedWhole'
    BY <1>1, <1>4, <2>1 DEF RecorderInv, AllIsAccepted, RecordedWhole, isClosed, written
  <2> QED
    BY <1>0, <1>4, <2>2, <2>3 DEF RecorderInv, file
<1>5. CASE /\ ~Refuses /\ ~capReached /\ recorded' = recorded + len
           /\ AppendSamples(len, timely) /\ DropBranch(failure') /\ UNCHANGED fd
  <2>1. HearingSurvives'
    <3>1. "stt" \in branches /\ ("recorder" \notin branches => failure \/ isClosed)
      BY DEF RecorderInv, HearingSurvives
    <3>2. ~failure /\ ~isClosed
      BY <1>5 DEF Refuses
    <3>3. branches' = IF failure' THEN branches \ {"recorder"} ELSE branches
      BY <1>5 DEF DropBranch
    <3> QED
      BY <3>1, <3>2, <3>3 DEF HearingSurvives
  <2>2. ~failure /\ ~isClosed /\ ~capReached
    BY <1>5 DEF Refuses
  <2> QED
    BY <1>1, <1>5, <2>1, <2>2, SamplesAppended
<1> QED
  BY <1>2, <1>3, <1>4, <1>5 DEF Chunk

LEMMA RecorderCloses ==
    ASSUME RecorderInv, NEW writes, CloseRecorder(writes) PROVE RecorderInv' /\ dataSize <= dataSize'
<1>1. /\ alive /\ ~isClosed /\ fd' = FALSE /\ UNCHANGED <<capReached, capTold, branches, heardBytes, recorded, alive>>
      /\ result' = {BuildMetadata(failure', flushedBytes')}
  BY DEF CloseRecorder
<1>2. isClosed' /\ ClosedForGood'
  BY <1>1 DEF isClosed, ClosedForGood
<1>3. AllIsAccepted' /\ HearingSurvives'
  BY <1>1, <1>2 DEF AllIsAccepted, HearingSurvives, RecorderInv
<1>4. CASE failure /\ UNCHANGED <<file, flushedBytes, buffer, accepted, failure>>
  <2>1. Playable' /\ RecorderTypes' /\ NothingIsLost' /\ FileIsKnown' /\ dataSize <= dataSize'
    BY <1>1, <1>4 DEF RecorderInv, Playable, RecorderTypes, NothingIsLost, FileIsKnown, file
  <2>2. RecordedWhole'
    BY <1>1, <1>4 DEF RecordedWhole, BuildMetadata
  <2> QED
    BY <1>2, <1>3, <2>1, <2>2 DEF RecorderInv
<1>5. CASE ~failure /\ Flushes(buffer, accepted)
  <2>1. /\ accepted \in Nat /\ flushedBytes \in Nat /\ recorded \in Nat /\ Even(flushedBytes) /\ Even(Len(buffer))
        /\ Counts(buffer, flushedBytes) /\ Len(buffer) \in Nat
        /\ accepted = flushedBytes + Len(buffer) /\ accepted <= MaxDataBytes
        /\ Playable /\ Len(disk) = flushedBytes /\ dataSize = flushedBytes /\ riffSize = HeaderSize(flushedBytes)
    BY <1>1, <1>5 DEF RecorderInv, RecorderTypes, NothingIsLost, Counts, FileIsKnown
  <2>2. /\ Playable' /\ dataSize <= dataSize'
        /\ accepted' \in Nat /\ flushedBytes' \in Nat /\ buffer' = <<>> /\ Even(flushedBytes')
        /\ ~failure' => /\ flushedBytes' = accepted /\ accepted' = accepted
                        /\ Len(disk') = accepted /\ dataSize' = accepted /\ riffSize' = HeaderSize(accepted)
    BY <1>5, <2>1, FlushingIsSafe
  <2>3. Counts(buffer', flushedBytes') /\ Len(buffer') = 0
    BY <2>2, CountsNone
  <2>4. RecorderTypes'
    <3>1. recorded' \in Nat /\ Even(0)
      BY <1>1, <2>1 DEF Even
    <3> QED
      BY <2>2, <2>3, <3>1 DEF RecorderTypes
  <2>5. NothingIsLost' /\ FileIsKnown'
    <3>1. CASE failure'
      BY <3>1 DEF NothingIsLost, FileIsKnown
    <3>2. CASE ~failure'
      <4>1. /\ flushedBytes' = accepted /\ accepted' = accepted
            /\ Len(disk') = accepted /\ dataSize' = accepted /\ riffSize' = HeaderSize(accepted)
        BY <2>2, <3>2
      <4> QED
        BY <2>1, <2>3, <4>1 DEF NothingIsLost, FileIsKnown
    <3> QED
      BY <3>1, <3>2
  <2>6. RecordedWhole'
    <3> SUFFICES ASSUME ~failure' PROVE /\ dataSize' = flushedBytes' /\ Len(disk') = flushedBytes'
                                        /\ riffSize' = HeaderSize(flushedBytes')
                                        /\ flushedBytes' = IF capReached THEN MaxDataBytes ELSE (recorded \div 2) * 2
      BY <1>1 DEF RecordedWhole, BuildMetadata
    <3>1. accepted = IF capReached THEN MaxDataBytes ELSE (recorded \div 2) * 2
      <4>1. CASE capReached /\ accepted = MaxDataBytes
        BY <4>1
      <4>2. CASE ~capReached /\ (recorded = accepted \/ recorded = accepted + 1)
        <5>1. Even(accepted)
          BY <2>1 DEF Even
        <5>2. (recorded \div 2) * 2 = accepted
          BY <2>1, <4>2, <5>1 DEF Even
        <5> QED
          BY <4>2, <5>2
      <4> QED
        BY <1>1, <1>5, <4>1, <4>2 DEF RecorderInv, AllIsAccepted
    <3> QED
      BY <2>2, <3>1
  <2> QED
    BY <1>2, <1>3, <2>2, <2>4, <2>5, <2>6 DEF RecorderInv
<1> QED
  BY <1>4, <1>5 DEF CloseRecorder, Skips

LEMMA ProcessDies ==
    ASSUME RecorderInv, Crash PROVE RecorderInv' /\ dataSize <= dataSize'
<1>1. ~alive' /\ UNCHANGED <<written, result, sidecar, branches, heardBytes, recorded>>
  BY DEF Crash
<1>2. RecorderTypes' /\ NothingIsLost' /\ FileIsKnown' /\ AllIsAccepted' /\ ClosedForGood' /\ HearingSurvives'
  BY <1>1 DEF RecorderInv, RecorderTypes, NothingIsLost, FileIsKnown, AllIsAccepted, ClosedForGood, HearingSurvives,
              isClosed, written
<1>3. CASE UNCHANGED file
  <2>1. Playable' /\ RecordedWhole' /\ dataSize <= dataSize'
    BY <1>1, <1>3 DEF RecorderInv, Playable, RecordedWhole, file
  <2> QED
    BY <1>2, <2>1 DEF RecorderInv
<1>4. CASE /\ fd /\ ~failure
           /\ \E gone \in Stages, kept \in 0..MaxPiece :
                 /\ kept < Len(buffer) \/ kept = 0
                 /\ Written(buffer, gone, kept) /\ Sized(buffer, gone)
  <2>1. PICK gone \in Stages, kept \in 0..MaxPiece :
            (kept < Len(buffer) \/ kept = 0) /\ Written(buffer, gone, kept) /\ Sized(buffer, gone)
    BY <1>4
  <2>2. /\ Playable /\ flushedBytes \in Nat /\ Even(flushedBytes) /\ Counts(buffer, flushedBytes) /\ Even(Len(buffer))
        /\ flushedBytes + Len(buffer) <= MaxDataBytes /\ Len(disk) = flushedBytes /\ dataSize = flushedBytes
        /\ riffSize = HeaderSize(flushedBytes) /\ kept \in Nat
    BY <1>4, CapAssumption DEF Crash, RecorderInv, RecorderTypes, NothingIsLost, FileIsKnown
  <2>3. Playable' /\ dataSize <= dataSize'
    BY <2>1, <2>2, WritingIsSafe
  <2>4. RecordedWhole'
    BY <1>1, <1>4 DEF RecorderInv, ClosedForGood, RecordedWhole, isClosed
  <2> QED
    BY <1>2, <2>3, <2>4 DEF RecorderInv
<1> QED
  BY <1>3, <1>4 DEF Crash

LEMMA RecorderKeeps ==
    ASSUME RecorderInv, [RecorderNext]_recorderVars PROVE RecorderInv'
<1>1. ASSUME NEW len \in 0..MaxPiece, NEW timely \in BOOLEAN, Chunk(len, timely) PROVE RecorderInv'
  <2>1. len \in Nat
    BY CapAssumption
  <2> QED
    BY <1>1, <2>1, ChunkArrives
<1>2. ASSUME NEW writes \in BOOLEAN, CloseRecorder(writes) PROVE RecorderInv'
  BY <1>2, RecorderCloses
<1>3. CASE UNCHANGED recorderVars
  BY <1>3 DEF RecorderInv, Playable, RecorderTypes, NothingIsLost, FileIsKnown, AllIsAccepted, ClosedForGood,
              RecordedWhole, HearingSurvives, isClosed, written, file, recorderVars
<1> QED
  BY <1>1, <1>2, <1>3, ProcessDies DEF RecorderNext, CloseAgain

\* A step leaves what is on disk there, and leaves a file alone that was closed or has failed.
LEMMA RecorderGrows ==
    ASSUME RecorderInv, RecorderInv', RecorderNext
    PROVE  /\ \A i \in 1..dataSize : i \in DOMAIN disk' /\ disk'[i] = disk[i]
           /\ dataSize' >= dataSize
           /\ isClosed \/ failure => UNCHANGED file /\ (isClosed => UNCHANGED result)
<1>1. dataSize <= dataSize'
  <2>1. ASSUME NEW len \in 0..MaxPiece, NEW timely \in BOOLEAN, Chunk(len, timely) PROVE dataSize <= dataSize'
    <3>1. len \in Nat
      BY CapAssumption
    <3> QED
      BY <2>1, <3>1, ChunkArrives
  <2>2. ASSUME NEW writes \in BOOLEAN, CloseRecorder(writes) PROVE dataSize <= dataSize'
    BY <2>2, RecorderCloses
  <2>3. CASE CloseAgain
    BY <2>3 DEF CloseAgain, recorderVars, file, RecorderInv, Playable
  <2> QED
    BY <2>1, <2>2, <2>3, ProcessDies DEF RecorderNext
<1>2. \A i \in 1..dataSize : i \in DOMAIN disk' /\ disk'[i] = disk[i]
  <2>1. /\ dataSize \in Nat /\ dataSize' \in Nat /\ dataSize <= Len(disk) /\ dataSize' <= Len(disk')
        /\ Counts(disk, 0) /\ Counts(disk', 0)
    BY DEF RecorderInv, Playable, Counts
  <2>2. disk \in Seq(Nat) /\ disk' \in Seq(Nat) /\ DOMAIN disk' = 1..Len(disk')
    BY <2>1 DEF Counts
  <2>3. (\A i \in 1..Len(disk) : disk[i] = 0 + i - 1) /\ \A i \in 1..Len(disk') : disk'[i] = 0 + i - 1
    BY <2>1 DEF Counts
  <2>4. \A i \in 1..dataSize : i \in 1..Len(disk) /\ i \in 1..Len(disk')
    BY <1>1, <2>1, <2>2
  <2> QED
    BY <2>2, <2>3, <2>4
<1>3. ASSUME isClosed \/ failure PROVE UNCHANGED file /\ (isClosed => UNCHANGED result)
  <2>1. ASSUME NEW len, NEW timely, Chunk(len, timely) PROVE UNCHANGED file /\ UNCHANGED result
    BY <1>3, <2>1 DEF Chunk, Refuses
  <2>2. ASSUME NEW writes, CloseRecorder(writes) PROVE UNCHANGED file /\ (isClosed => UNCHANGED result)
    BY <1>3, <2>2 DEF CloseRecorder, Skips
  <2>3. CASE Crash
    BY <1>3, <2>3 DEF Crash, RecorderInv, ClosedForGood
  <2>4. CASE CloseAgain
    BY <2>4 DEF CloseAgain, recorderVars
  <2> QED
    BY <2>1, <2>2, <2>3, <2>4 DEF RecorderNext
<1> QED
  BY <1>1, <1>2, <1>3 DEF RecorderInv, Playable

\* For any cap, any flushes and any cuts of a call into chunks, after any failure of a write and a crash
\* in the middle of one: the file of the call can be played, what is in it is the call's own sound, a
\* recording that was closed without a failure is whole, and the call never loses its ears to it (recorder.ts).
THEOREM RecordingStaysWhole == RecorderSpec => []RecordingIsWhole
<1>1. RecorderInv /\ [RecorderNext]_recorderVars => RecorderInv'
  BY RecorderKeeps
<1> QED
  BY <1>1, RecorderStart, RecorderSafe, PTL DEF RecorderSpec

\* And whatever is on disk stays there: no chunk that comes late and no second close() touches a file
\* that was closed or has failed.
THEOREM RecordingOnlyGrows == RecorderSpec => OnlyGrows
<1>1. RecorderInv /\ [RecorderNext]_recorderVars => RecorderInv'
  BY RecorderKeeps
<1>2. RecorderInv /\ RecorderInv' /\ RecorderNext =>
          /\ \A i \in 1..dataSize : i \in DOMAIN disk' /\ disk'[i] = disk[i]
          /\ dataSize' >= dataSize
          /\ isClosed \/ failure => UNCHANGED file /\ (isClosed => UNCHANGED result)
  BY RecorderGrows
<1> QED
  BY <1>1, <1>2, RecorderStart, PTL DEF RecorderSpec, OnlyGrows

-----------------------------------------------------------------------------
(* Quotients *)

LEMMA MulGrows ==
    ASSUME NEW a \in Int, NEW b \in Int, NEW c \in Nat, a <= b
    PROVE  a * c <= b * c
<1>1. (b - a) \in Nat
  OBVIOUS
<1>2. (b - a) * c \in Nat
  BY <1>1
<1>3. (b - a) * c = b * c - a * c
  OBVIOUS
<1>4. a * c \in Int /\ b * c \in Int
  OBVIOUS
<1> QED
  BY <1>2, <1>3, <1>4

LEMMA Divided ==
    ASSUME NEW a \in Int, NEW b \in Nat \ {0}
    PROVE  /\ a \div b \in Int /\ a % b \in 0..(b - 1)
           /\ a = (a \div b) * b + (a % b)
  OBVIOUS

\* What lies between q times b and q + 1 times b has the quotient q.
LEMMA QuotientIs ==
    ASSUME NEW a \in Int, NEW b \in Nat \ {0}, NEW q \in Int, q * b <= a, a < (q + 1) * b
    PROVE  a \div b = q /\ a % b = a - q * b
<1> DEFINE d == a \div b
<1> DEFINE r == a % b
<1>1. d \in Int /\ r \in 0..(b - 1) /\ a = d * b + r
  BY Divided
<1> HIDE DEF d, r
<1>2. d * b \in Int /\ q * b \in Int /\ (q + 1) * b \in Int /\ (d + 1) * b \in Int
  BY <1>1
<1>3. (d + 1) * b = d * b + b /\ (q + 1) * b = q * b + b
  BY <1>1
<1>4. d <= q
  <2>1. SUFFICES ASSUME q + 1 <= d PROVE FALSE
    BY <1>1
  <2>2. (q + 1) * b <= d * b
    BY <1>1, <2>1, MulGrows
  <2> QED
    BY <1>1, <1>2, <2>2
<1>5. q <= d
  <2>1. SUFFICES ASSUME d + 1 <= q PROVE FALSE
    BY <1>1
  <2>2. (d + 1) * b <= q * b
    BY <1>1, <2>1, MulGrows
  <2> QED
    BY <1>1, <1>2, <1>3, <2>2
<1>6. d = q
  BY <1>1, <1>4, <1>5
<1>7. r = a - q * b
  BY <1>1, <1>2, <1>6
<1> QED
  BY <1>6, <1>7 DEF d, r

\* The least number of b's that a fits into.
LEMMA CeilIsLeast ==
    ASSUME NEW a \in Int, NEW b \in Nat \ {0}
    PROVE  /\ CeilDiv(a, b) \in Int
           /\ a <= CeilDiv(a, b) * b
           /\ \A k \in Int : k < CeilDiv(a, b) => k * b < a
           /\ \A k \in Int : CeilDiv(a, b) <= k => a <= k * b
<1> DEFINE c == CeilDiv(a, b)
<1> DEFINE r == (a + b - 1) % b
<1>1. c \in Int /\ r \in 0..(b - 1) /\ a + b - 1 = c * b + r
  <2>1. a + b - 1 \in Int
    OBVIOUS
  <2> QED
    BY <2>1, Divided DEF CeilDiv
<1> HIDE DEF c, r
<1>2. c * b \in Int
  BY <1>1
<1>3. a <= c * b
  BY <1>1, <1>2
<1>4. ASSUME NEW k \in Int, k < c PROVE k * b < a
  <2>1. (k + 1) * b <= c * b
    BY <1>1, <1>4, MulGrows
  <2>2. (k + 1) * b = k * b + b /\ k * b \in Int
    OBVIOUS
  <2> QED
    BY <1>1, <1>2, <2>1, <2>2
<1>5. ASSUME NEW k \in Int, c <= k PROVE a <= k * b
  <2>1. c * b <= k * b
    BY <1>1, <1>5, MulGrows
  <2>2. k * b \in Int
    OBVIOUS
  <2> QED
    BY <1>2, <1>3, <2>1, <2>2
<1> QED
  BY <1>1, <1>3, <1>4, <1>5 DEF c

LEMMA CeilFits ==
    ASSUME NEW a \in Int, NEW b \in Nat \ {0}, NEW k \in Int, a <= k * b
    PROVE  CeilDiv(a, b) <= k
<1>1. SUFFICES ASSUME k < CeilDiv(a, b) PROVE FALSE
  BY CeilIsLeast
<1>2. k * b < a
  BY <1>1, CeilIsLeast
<1>3. k * b \in Int
  OBVIOUS
<1> QED
  BY <1>2, <1>3

LEMMA CeilGrows ==
    ASSUME NEW a \in Int, NEW c \in Int, NEW b \in Nat \ {0}, a <= c
    PROVE  CeilDiv(a, b) <= CeilDiv(c, b)
<1>1. CeilDiv(c, b) \in Int /\ c <= CeilDiv(c, b) * b
  BY CeilIsLeast
<1>2. CeilDiv(c, b) * b \in Int
  BY <1>1
<1>3. a <= CeilDiv(c, b) * b
  BY <1>1, <1>2
<1> QED
  BY <1>1, <1>3, CeilFits

LEMMA CeilOfNone == ASSUME NEW b \in Nat \ {0} PROVE CeilDiv(0, b) = 0
<1>1. 0 * b <= b - 1 /\ b - 1 < (0 + 1) * b
  OBVIOUS
<1>2. (b - 1) \div b = 0
  BY <1>1, QuotientIs
<1>3. 0 + b - 1 = b - 1
  OBVIOUS
<1> QED
  BY <1>2, <1>3 DEF CeilDiv

LEMMA CeilAdds ==
    ASSUME NEW a \in Int, NEW c \in Int, NEW b \in Nat \ {0}
    PROVE  CeilDiv(a + c, b) <= CeilDiv(a, b) + CeilDiv(c, b)
<1> DEFINE x == CeilDiv(a, b)
<1> DEFINE y == CeilDiv(c, b)
<1>1. x \in Int /\ a <= x * b /\ y \in Int /\ c <= y * b
  BY CeilIsLeast
<1> HIDE DEF x, y
<1>2. x * b \in Int /\ y * b \in Int /\ (x + y) * b = x * b + y * b
  BY <1>1
<1>3. a + c <= (x + y) * b
  BY <1>1, <1>2
<1>4. CeilDiv(a + c, b) <= x + y
  BY <1>1, <1>3, CeilFits
<1> QED
  BY <1>4 DEF x, y

-----------------------------------------------------------------------------
(* The resampler *)

LEMMA LiesBetween ==
    ASSUME NEW a \in Int, NEW b \in Nat \ {0}, NEW lo \in Int, NEW hi \in Int, lo * b <= a, a < hi * b
    PROVE  a \div b \in Int /\ lo <= a \div b /\ a \div b < hi
<1> DEFINE d == a \div b
<1>1. d \in Int /\ a % b \in 0..(b - 1) /\ a = d * b + (a % b)
  BY Divided
<1> HIDE DEF d
<1>2. d * b \in Int /\ lo * b \in Int /\ hi * b \in Int /\ (d + 1) * b = d * b + b
  BY <1>1
<1>3. lo <= d
  <2>1. SUFFICES ASSUME d + 1 <= lo PROVE FALSE
    BY <1>1
  <2>2. (d + 1) * b <= lo * b
    BY <1>1, <2>1, MulGrows
  <2> QED
    BY <1>1, <1>2, <2>2
<1>4. d < hi
  <2>1. SUFFICES ASSUME hi <= d PROVE FALSE
    BY <1>1
  <2>2. hi * b <= d * b
    BY <1>1, <2>1, MulGrows
  <2> QED
    BY <1>1, <1>2, <2>2
<1> QED
  BY <1>1, <1>3, <1>4 DEF d

\* An output sample, and one whose place is below the last sample: it needs nothing of what comes later.
Triples == Int \X Int \X Int
Between(f, t, i) ==
    LET num == (i - 1) * f
        left == num \div t
    IN Lerp(2 * left, 2 * (left + 1), num % t)

\* How many of them n samples settle.
Settled(f, t, n) == IF n = 0 THEN 0 ELSE CeilDiv((n - 1) * t, f)

LEMMA LerpIs ==
    ASSUME NEW a \in Int, NEW b \in Int, NEW num \in Int
    PROVE  Lerp(a, b, num) \in Triples /\ (a = b => Lerp(a, b, num) = <<a, a, 0>>)
  BY DEF Lerp, Triples

LEMMA BetweenIs ==
    ASSUME NEW f \in Nat \ {0}, NEW t \in Nat \ {0}, NEW i \in Int
    PROVE  Between(f, t, i) \in Triples
<1>1. (i - 1) * f \in Int
  OBVIOUS
<1>2. ((i - 1) * f) \div t \in Int /\ ((i - 1) * f) % t \in Int
  BY <1>1, Divided
<1> QED
  BY <1>2, LerpIs DEF Between

LEMMA SettledIs ==
    ASSUME NEW f \in Nat \ {0}, NEW t \in Nat \ {0}, NEW n \in Nat
    PROVE  /\ Settled(f, t, n) \in Nat
           /\ \A j \in Nat : j < Settled(f, t, n) => n # 0 /\ j * f < (n - 1) * t
           /\ \A j \in Nat : Settled(f, t, n) <= j /\ n # 0 => (n - 1) * t <= j * f
<1>1. CASE n = 0
  BY <1>1 DEF Settled
<1>2. CASE n # 0
  <2>1. (n - 1) * t \in Nat /\ Settled(f, t, n) = CeilDiv((n - 1) * t, f)
    BY <1>2 DEF Settled
  <2>2. \A a \in Int : /\ CeilDiv(a, f) \in Int
                       /\ \A k \in Int : k < CeilDiv(a, f) => k * f < a
                       /\ \A k \in Int : CeilDiv(a, f) <= k => a <= k * f
    BY CeilIsLeast
  <2>3. CeilDiv(0, f) <= CeilDiv((n - 1) * t, f)
    BY <2>1, CeilGrows
  <2>4. 0 <= CeilDiv((n - 1) * t, f)
    BY <2>3, CeilOfNone
  <2>5. CeilDiv((n - 1) * t, f) \in Int
    BY <2>1, <2>2
  <2>6. Settled(f, t, n) \in Nat
    BY <2>1, <2>4, <2>5
  <2>7. ASSUME NEW j \in Nat, j < Settled(f, t, n) PROVE j * f < (n - 1) * t
    BY <2>1, <2>2, <2>7
  <2>8. ASSUME NEW j \in Nat, Settled(f, t, n) <= j PROVE (n - 1) * t <= j * f
    BY <2>1, <2>2, <2>8
  <2> QED
    BY <1>2, <2>6, <2>7, <2>8
<1> QED
  BY <1>1, <1>2

\* Of the whole stream converted at once: what its samples settle is between two of them, and the rest lies
\* on the last.
LEMMA WholeIs ==
    ASSUME NEW f \in Nat \ {0}, NEW t \in Nat \ {0}, fromRate = f, toRate = t, NEW n \in Nat
    PROVE  /\ Whole(n) \in Seq(Triples) /\ Len(Whole(n)) = CeilDiv(n * t, f)
           /\ Settled(f, t, n) <= CeilDiv(n * t, f)
           /\ \A i \in 1..Settled(f, t, n) : Whole(n)[i] = Between(f, t, i)
           /\ \A i \in (Settled(f, t, n) + 1)..CeilDiv(n * t, f) :
                 Whole(n)[i] = <<2 * (n - 1), 2 * (n - 1), 0>>
<1> DEFINE all == CeilDiv(n * t, f)
<1> DEFINE known == Settled(f, t, n)
<1>1. n * t \in Nat
  OBVIOUS
<1>2. known \in Nat /\ all \in Int
  BY <1>1, SettledIs, CeilIsLeast
<1>3. known <= all
  <2>1. CASE n = 0
    <3>1. n * t = 0
      BY <2>1
    <3>2. CeilDiv(n * t, f) = 0
      BY <3>1, CeilOfNone
    <3> QED
      BY <2>1, <3>2 DEF Settled
  <2>2. CASE n # 0
    <3>1. (n - 1) * t \in Int /\ (n - 1) * t <= n * t
      <4>1. n - 1 \in Int /\ n - 1 <= n
        OBVIOUS
      <4> QED
        BY <4>1, MulGrows
    <3>2. CeilDiv((n - 1) * t, f) <= CeilDiv(n * t, f)
      BY <1>1, <3>1, CeilGrows
    <3> QED
      BY <2>2, <3>2 DEF Settled
  <2> QED
    BY <2>1, <2>2
<1> DEFINE Left(i) == ((i - 1) * f) \div t
<1> DEFINE Sample(i) == Lerp(2 * Left(i), 2 * (IF Left(i) + 1 < n THEN Left(i) + 1 ELSE Left(i)), ((i - 1) * f) % t)
<1>4. Whole(n) = [i \in 1..all |-> Sample(i)]
  BY DEF Whole
<1>5. ASSUME NEW i \in 1..all
      PROVE  /\ (i - 1) * f \in Nat /\ Left(i) \in Int /\ ((i - 1) * f) % t \in Int
             /\ i - 1 \in Nat /\ i - 1 < all
  <2>1. i - 1 \in Nat /\ i - 1 < all
    BY <1>2
  <2>2. (i - 1) * f \in Nat
    BY <2>1
  <2>3. \A a \in Int : a \div t \in Int /\ a % t \in Int
    BY Divided
  <2> QED
    BY <2>1, <2>2, <2>3
<1>6. ASSUME NEW i \in 1..all PROVE Sample(i) \in Triples
  <2>1. Left(i) \in Int /\ ((i - 1) * f) % t \in Int
    BY <1>5
  <2> HIDE DEF Left
  <2>2. 2 * Left(i) \in Int /\ 2 * (IF Left(i) + 1 < n THEN Left(i) + 1 ELSE Left(i)) \in Int
    BY <2>1
  <2> QED
    BY <2>1, <2>2, LerpIs
<1>7. ASSUME NEW i \in 1..all, i <= known PROVE Sample(i) = Between(f, t, i)
  <2>1. i - 1 \in Nat /\ i - 1 < known /\ (i - 1) * f \in Int
    BY <1>2, <1>5, <1>7
  <2>2. n # 0 /\ (i - 1) * f < (n - 1) * t
    BY <2>1, SettledIs
  <2>3. \A lo, hi \in Int : lo * t <= (i - 1) * f /\ (i - 1) * f < hi * t => Left(i) < hi
    BY <2>1, LiesBetween
  <2>4. 0 * t <= (i - 1) * f
    BY <1>5
  <2>5. Left(i) < n - 1 /\ Left(i) \in Int
    BY <1>5, <2>2, <2>3, <2>4
  <2> HIDE DEF Left
  <2>6. Left(i) + 1 < n
    BY <2>5
  <2> QED
    BY <2>6 DEF Between, Left
<1>8. ASSUME NEW i \in 1..all, known < i PROVE Sample(i) = <<2 * (n - 1), 2 * (n - 1), 0>>
  <2>1. i - 1 \in Nat /\ known <= i - 1 /\ i - 1 < all /\ (i - 1) * f \in Nat
    BY <1>2, <1>5, <1>8
  <2>2. (i - 1) * f < n * t
    BY <1>1, <2>1, CeilIsLeast
  <2>3. n # 0
    <3>1. SUFFICES ASSUME n = 0 PROVE FALSE
      OBVIOUS
    <3>2. n * t = 0
      BY <3>1
    <3> QED
      BY <2>1, <2>2, <3>2
  <2>4. (n - 1) * t <= (i - 1) * f
    BY <2>1, <2>3, SettledIs
  <2>5. \A lo, hi \in Int : lo * t <= (i - 1) * f /\ (i - 1) * f < hi * t => lo <= Left(i)
    BY <2>1, LiesBetween
  <2>6. \A lo, hi \in Int : lo * t <= (i - 1) * f /\ (i - 1) * f < hi * t => Left(i) < hi
    BY <2>1, LiesBetween
  <2>10. n - 1 <= Left(i) /\ Left(i) < n /\ Left(i) \in Int
    BY <1>5, <2>2, <2>4, <2>5, <2>6
  <2>7. ((i - 1) * f) % t \in Int
    BY <1>5
  <2> HIDE DEF Left
  <2>8. Left(i) = n - 1 /\ ~(Left(i) + 1 < n)
    BY <2>10
  <2>9. Sample(i) = Lerp(2 * (n - 1), 2 * (n - 1), ((i - 1) * f) % t)
    BY <2>8
  <2> QED
    BY <2>7, <2>9, LerpIs
<1>9. all \in Nat
  BY <1>2, <1>3
<1> HIDE DEF Sample, all, known
<1>10. Whole(n) \in Seq(Triples) /\ Len(Whole(n)) = all
  BY <1>4, <1>6, <1>9
<1>11. ASSUME NEW i \in 1..known PROVE Whole(n)[i] = Between(f, t, i)
  BY <1>2, <1>3, <1>4, <1>7, <1>9
<1>12. ASSUME NEW i \in (known + 1)..all PROVE Whole(n)[i] = <<2 * (n - 1), 2 * (n - 1), 0>>
  BY <1>2, <1>4, <1>8, <1>9
<1> QED
  BY <1>3, <1>10, <1>11, <1>12 DEF all, known

\* In the middle of a stream of fb bytes: every sample is counted, half a one waits, and what was made is
\* what those samples settle.
Streaming(f, t, fb, m) ==
    /\ fb \in Nat /\ inTotal = fb \div 2
    /\ pendingByte = IF fb % 2 = 1 THEN {fb - 1} ELSE {}
    /\ prev = IF inTotal = 0 THEN 0 ELSE 2 * (inTotal - 1)
    /\ outIndex = Settled(f, t, inTotal)
    /\ m \in Seq(Triples) /\ Len(m) = outIndex
    /\ \A i \in 1..outIndex : m[i] = Between(f, t, i)

ResamplerInv ==
    /\ rates \in RatePairs /\ fed \in Nat /\ flushed \in BOOLEAN
    /\ slack \in Int /\ slack >= 0
    /\ identity /\ ~flushed => inTotal = fed \div 2
    /\ ~identity /\ ~flushed => Streaming(fromRate, toRate, fed, made)
    /\ ~identity /\ flushed => Streaming(fromRate, toRate, 0, <<>>) /\ made = Whole(fed \div 2)

LEMMA RatesAre ==
    rates \in RatePairs => fromRate \in Nat \ {0} /\ toRate \in Nat \ {0}
  BY RatesAssumption DEF fromRate, toRate

\* A position counted from the samples of a buffer is one of the stream: the sample before it is in the
\* buffer, or it is the last of the buffer before.
LEMMA SeamIs ==
    ASSUME NEW t \in Nat \ {0}, NEW total \in Nat, NEW num \in Nat, NEW last,
           last = (IF total = 0 THEN 0 ELSE 2 * (total - 1)), total # 0 => (total - 1) * t <= num
    PROVE  LET i0 == (num - total * t) \div t
           IN Lerp(IF i0 < 0 THEN last ELSE 2 * total + 2 * i0, 2 * total + 2 * (i0 + 1), (num - total * t) % t)
                = Lerp(2 * (num \div t), 2 * ((num \div t) + 1), num % t)
<1>1. PICK d \in Int : d = num \div t
  BY Divided
<1>2. PICK r \in 0..(t - 1) : r = num % t
  BY Divided
<1>3. num = d * t + r
  BY <1>1, <1>2, Divided
<1>6. (d + 1) * t = d * t + t /\ d * t \in Int /\ (d + 1) * t \in Int
  OBVIOUS
<1>4. \A s, e \in Int : e * t <= s /\ s < (e + 1) * t => s \div t = e /\ s % t = s - e * t
  BY QuotientIs
<1>5. (d - total) * t = d * t - total * t /\ (d - total + 1) * t = d * t - total * t + t /\ total * t \in Int
  OBVIOUS
<1>12. (num - total * t) \div t = d - total /\ (num - total * t) % t = r
  <2>1. num - total * t \in Int /\ d - total \in Int
    BY <1>5
  <2>2. (d - total) * t <= num - total * t /\ num - total * t < (d - total + 1) * t
    BY <1>3, <1>5, <1>6
  <2>3. (num - total * t) - (d - total) * t = r
    BY <1>3, <1>5, <1>6
  <2> QED
    BY <1>4, <2>1, <2>2, <2>3
<1>7. 0 <= d
  <2>1. SUFFICES ASSUME d + 1 <= 0 PROVE FALSE
    OBVIOUS
  <2>2. (d + 1) * t <= 0 * t
    BY <2>1, MulGrows
  <2> QED
    BY <1>3, <1>6, <2>2
<1>8. total # 0 => total - 1 <= d
  <2>1. SUFFICES ASSUME total # 0, d + 1 <= total - 1 PROVE FALSE
    OBVIOUS
  <2>2. (d + 1) * t <= (total - 1) * t /\ (total - 1) * t \in Int
    BY <2>1, MulGrows
  <2> QED
    BY <1>3, <1>6, <2>1, <2>2
<1>9. d - total < 0 => d = total - 1 /\ last = 2 * d
  BY <1>7, <1>8
<1>10. (IF d - total < 0 THEN last ELSE 2 * total + 2 * (d - total)) = 2 * d
  BY <1>9
<1>11. 2 * total + 2 * ((d - total) + 1) = 2 * (d + 1)
  OBVIOUS
<1> QED
  BY <1>1, <1>2, <1>10, <1>11, <1>12

\* What a buffer of n more samples releases is what they settle besides.
LEMMA ReleasedIs ==
    ASSUME NEW f \in Nat \ {0}, NEW t \in Nat \ {0}, fromRate = f, toRate = t, inTotal \in Nat,
           outIndex = Settled(f, t, inTotal), prev = (IF inTotal = 0 THEN 0 ELSE 2 * (inTotal - 1)),
           NEW n \in Nat \ {0}
    PROVE  LET count == Settled(f, t, inTotal + n) - outIndex
           IN /\ count \in Nat /\ count <= CeilDiv(n * t, f)
              /\ Released(2 * inTotal, n) \in Seq(Triples) /\ Len(Released(2 * inTotal, n)) = count
              /\ \A i \in 1..count : Released(2 * inTotal, n)[i] = Between(f, t, outIndex + i)
<1> DEFINE all == Settled(f, t, inTotal + n)
<1> DEFINE count == all - outIndex
<1>1. inTotal + n \in Nat \ {0} /\ outIndex \in Nat /\ all \in Nat
  <2>1. \A k \in Nat : Settled(f, t, k) \in Nat
    BY SettledIs
  <2>2. inTotal + n \in Nat \ {0}
    OBVIOUS
  <2> QED
    BY <2>1, <2>2
<1>2. all = CeilDiv((inTotal + n - 1) * t, f)
  BY <1>1 DEF Settled
<1>3. outIndex <= all /\ count <= CeilDiv(n * t, f)
  <2>1. n * t \in Int /\ (n - 1) * t \in Int /\ (n - 1) * t <= n * t
    <3>1. n - 1 \in Int /\ n - 1 <= n
      OBVIOUS
    <3> QED
      BY <3>1, MulGrows
  <2>2. CASE inTotal = 0
    <3>1. CeilDiv((n - 1) * t, f) <= CeilDiv(n * t, f)
      BY <2>1, CeilGrows
    <3>2. outIndex = 0
      BY <2>2 DEF Settled
    <3> QED
      BY <1>1, <1>2, <2>2, <3>1, <3>2
  <2>3. CASE inTotal # 0
    <3>1. outIndex = CeilDiv((inTotal - 1) * t, f)
      BY <2>3 DEF Settled
    <3>2. (inTotal - 1) * t \in Int /\ (inTotal + n - 1) * t = (inTotal - 1) * t + n * t /\ n * t \in Nat
      OBVIOUS
    <3>3. \A a, c \in Int : CeilDiv(a + c, f) <= CeilDiv(a, f) + CeilDiv(c, f)
      BY CeilAdds
    <3>4. \A a, c \in Int : a <= c => CeilDiv(a, f) <= CeilDiv(c, f)
      BY CeilGrows
    <3>5. CeilDiv((inTotal - 1) * t + n * t, f) <= CeilDiv((inTotal - 1) * t, f) + CeilDiv(n * t, f)
      BY <3>2, <3>3
    <3>6. (inTotal + n - 1) * t \in Int /\ (inTotal - 1) * t <= (inTotal + n - 1) * t
      BY <3>2
    <3>7. CeilDiv((inTotal - 1) * t, f) <= CeilDiv((inTotal + n - 1) * t, f)
      BY <3>2, <3>4, <3>6
    <3>8. CeilDiv(n * t, f) \in Int
      BY <2>1, CeilIsLeast
    <3> QED
      BY <1>1, <1>2, <3>1, <3>2, <3>5, <3>7, <3>8
  <2> QED
    BY <2>2, <2>3
<1>4. count \in Nat
  BY <1>1, <1>3
<1> DEFINE Num(i) == (outIndex + i - 1) * f
<1> DEFINE Left(i) == (Num(i) - inTotal * t) \div t
<1> DEFINE Out(i) == Lerp(IF Left(i) < 0 THEN prev ELSE 2 * inTotal + 2 * Left(i), 2 * inTotal + 2 * (Left(i) + 1),
                          (Num(i) - inTotal * t) % t)
<1>5. Released(2 * inTotal, n) = [i \in 1..count |-> Out(i)]
  <2>1. Limit(n) * toRate = (inTotal + n - 1) * t
    BY DEF Limit
  <2>2. CeilDiv(Limit(n) * toRate, fromRate) - outIndex = count
    BY <1>2, <2>1
  <2>3. (IF count > 0 THEN count ELSE 0) = count
    BY <1>4
  <2> HIDE DEF count
  <2> QED
    BY <2>2, <2>3 DEF Released
<1>6. ASSUME NEW i \in 1..count PROVE Out(i) = Between(f, t, outIndex + i)
  <2>1. outIndex + i - 1 \in Nat /\ outIndex <= outIndex + i - 1
    BY <1>1, <1>4
  <2>2. Num(i) \in Nat
    BY <2>1
  <2>3. inTotal # 0 => (inTotal - 1) * t <= Num(i)
    BY <2>1, SettledIs
  <2>4. Between(f, t, outIndex + i) = Lerp(2 * (Num(i) \div t), 2 * ((Num(i) \div t) + 1), Num(i) % t)
    <3>1. PICK k \in Nat : k = outIndex + i
      BY <1>1, <1>4
    <3>2. Num(i) = (k - 1) * f
      BY <1>1, <1>4, <3>1
    <3> HIDE DEF Num
    <3> QED
      BY <3>1, <3>2 DEF Between
  <2> HIDE DEF Num
  <2> QED
    BY <2>2, <2>3, <2>4, SeamIs
<1>7. \A i \in 1..count : Between(f, t, outIndex + i) \in Triples
  BY <1>1, <1>4, BetweenIs
<1> HIDE DEF Out, count
<1>8. Released(2 * inTotal, n) \in Seq(Triples) /\ Len(Released(2 * inTotal, n)) = count
  BY <1>4, <1>5, <1>6, <1>7
<1>9. ASSUME NEW i \in 1..count PROVE Released(2 * inTotal, n)[i] = Between(f, t, outIndex + i)
  BY <1>5, <1>6
<1> QED
  BY <1>3, <1>4, <1>8, <1>9 DEF count

LEMMA Concatenated ==
    ASSUME NEW S, NEW a \in Seq(S), NEW b \in Seq(S)
    PROVE  /\ a \o b \in Seq(S) /\ Len(a) \in Nat /\ Len(b) \in Nat /\ Len(a \o b) = Len(a) + Len(b)
           /\ \A i \in 1..Len(a) : (a \o b)[i] = a[i]
           /\ \A i \in 1..Len(b) : (a \o b)[Len(a) + i] = b[i]
           /\ \A i \in 1..Len(a \o b) : i \in 1..Len(a) \/ (i - Len(a) \in 1..Len(b) /\ i = Len(a) + (i - Len(a)))
  OBVIOUS

LEMMA ResamplerStarts == ResamplerInit => ResamplerInv
<1> SUFFICES ASSUME ResamplerInit PROVE ResamplerInv
  OBVIOUS
<1>1. fromRate \in Nat \ {0} /\ toRate \in Nat \ {0}
  BY RatesAre DEF ResamplerInit
<1>2. Streaming(fromRate, toRate, 0, <<>>)
  BY DEF ResamplerInit, Streaming, Settled
<1>3. fed \div 2 = 0
  BY DEF ResamplerInit
<1>4. rates \in RatePairs /\ fed = 0 /\ made = <<>> /\ inTotal = 0 /\ slack = 0 /\ flushed = FALSE
  BY DEF ResamplerInit
<1>5. Streaming(fromRate, toRate, fed, made)
  BY <1>2, <1>4
<1>6. inTotal = fed \div 2
  BY <1>3, <1>4
<1>7. fed \in Nat /\ slack \in Int /\ slack >= 0
  BY <1>4
<1>8. flushed \in BOOLEAN
  BY <1>4
<1> QED
  BY <1>4, <1>5, <1>6, <1>7, <1>8, Zenon DEF ResamplerInv

\* One chunk more of a stream that has had fb bytes and made m: it begins at base and has n samples.
TakesOneMore(fb, m, len, base, n) ==
    /\ base = WithCarriedByte(fb) /\ n = (fb + len - base) \div 2
    /\ pendingByte' = (IF (fb + len - base) % 2 = 1 THEN {fb + len - 1} ELSE {})
    /\ IF n = 0 THEN UNCHANGED <<inTotal, outIndex, prev, slack>>
       ELSE /\ outIndex' = outIndex + Len(Released(base, n))
            /\ slack' = Capacity(n) - Len(Released(base, n))
            /\ prev' = base + 2 * (n - 1)
            /\ inTotal' = inTotal + n
    /\ fed' = fb + len
    /\ made' = m \o (IF n = 0 THEN <<>> ELSE Released(base, n))

LEMMA HalvesAdd ==
    ASSUME NEW fb \in Nat, NEW len \in Nat, NEW it \in Nat, it = fb \div 2
    PROVE  /\ (fb + len - 2 * it) \div 2 \in Nat /\ it + ((fb + len - 2 * it) \div 2) = (fb + len) \div 2
           /\ (fb + len - 2 * it) % 2 = 1 <=> (fb + len) % 2 = 1
  OBVIOUS

LEMMA CarriedOrNot ==
    ASSUME NEW fb \in Nat
    PROVE  /\ fb % 2 = 1 => fb - 1 = 2 * (fb \div 2)
           /\ fb % 2 # 1 => fb = 2 * (fb \div 2)
  OBVIOUS

LEMMA ChunkSettles ==
    ASSUME NEW f \in Nat \ {0}, NEW t \in Nat \ {0}, fromRate = f, toRate = t,
           NEW fb \in Nat, NEW m, Streaming(f, t, fb, m), NEW len \in Nat, NEW base, NEW n,
           TakesOneMore(fb, m, len, base, n), slack \in Int, slack >= 0
    PROVE  /\ slack' \in Int /\ slack' >= 0
           /\ inTotal' = fed' \div 2
           /\ pendingByte' = IF fed' % 2 = 1 THEN {fed' - 1} ELSE {}
           /\ prev' = IF inTotal' = 0 THEN 0 ELSE 2 * (inTotal' - 1)
           /\ outIndex' = Settled(f, t, inTotal')
           /\ made' \in Seq(Triples) /\ Len(made') = outIndex'
           /\ \A i \in 1..outIndex' : made'[i] = Between(f, t, i)
<1>1. inTotal \in Nat /\ inTotal = fb \div 2 /\ outIndex = Settled(f, t, inTotal) /\ outIndex \in Nat
  <2>1. inTotal = fb \div 2 /\ outIndex = Settled(f, t, inTotal)
    BY DEF Streaming
  <2>2. inTotal \in Nat
    BY <2>1
  <2> QED
    BY <2>1, <2>2, SettledIs
<1>2. base = 2 * inTotal
  <2>1. CASE fb % 2 = 1
    <3>1. pendingByte = {fb - 1}
      BY <2>1 DEF Streaming
    <3>2. base = fb - 1
      BY <3>1 DEF WithCarriedByte, TakesOneMore
    <3>3. fb - 1 = 2 * (fb \div 2)
      BY <2>1, CarriedOrNot
    <3> QED
      BY <1>1, <3>2, <3>3
  <2>2. CASE fb % 2 # 1
    <3>1. pendingByte = {}
      BY <2>2 DEF Streaming
    <3>2. base = fb
      BY <3>1 DEF WithCarriedByte, TakesOneMore
    <3>3. fb = 2 * (fb \div 2)
      BY <2>2, CarriedOrNot
    <3> QED
      BY <1>1, <3>2, <3>3
  <2> QED
    BY <2>1, <2>2
<1>3. n \in Nat /\ inTotal + n = (fb + len) \div 2
  <2>1. n = (fb + len - 2 * inTotal) \div 2
    BY <1>2 DEF TakesOneMore
  <2> QED
    BY <1>1, <2>1, HalvesAdd
<1>4. (fb + len - base) % 2 = 1 <=> (fb + len) % 2 = 1
  <2>1. (fb + len - 2 * inTotal) % 2 = 1 <=> (fb + len) % 2 = 1
    BY <1>1, HalvesAdd
  <2> QED
    BY <1>2, <2>1
<1>5. pendingByte' = IF fed' % 2 = 1 THEN {fed' - 1} ELSE {}
  <2>1. fed' = fb + len /\ pendingByte' = (IF (fb + len - base) % 2 = 1 THEN {fb + len - 1} ELSE {})
    BY DEF TakesOneMore
  <2>2. CASE (fb + len) % 2 = 1
    <3>1. fed' % 2 = 1 /\ pendingByte' = {fb + len - 1}
      BY <1>4, <2>1, <2>2
    <3>2. fed' - 1 = fb + len - 1
      BY <2>1
    <3> QED
      BY <3>1, <3>2, Zenon
  <2>3. CASE (fb + len) % 2 # 1
    <3>1. fed' % 2 # 1 /\ pendingByte' = {}
      BY <1>4, <2>1, <2>3
    <3> QED
      BY <2>1, <3>1
  <2> QED
    BY <2>2, <2>3
<1>10. fed' = fb + len /\ fed' \in Nat
  BY DEF TakesOneMore
<1>6. m \in Seq(Triples) /\ Len(m) = outIndex /\ \A i \in 1..outIndex : m[i] = Between(f, t, i)
  BY DEF Streaming
<1>7. prev = IF inTotal = 0 THEN 0 ELSE 2 * (inTotal - 1)
  BY DEF Streaming
<1>8. CASE n = 0
  <2>1. inTotal' = inTotal /\ outIndex' = outIndex /\ prev' = prev /\ slack' = slack
    BY <1>8 DEF TakesOneMore
  <2>2. made' = m
    <3>1. made' = m \o <<>>
      BY <1>8 DEF TakesOneMore
    <3> QED
      BY <1>6, <3>1
  <2>3. inTotal' = fed' \div 2
    BY <1>1, <1>3, <1>8, <1>10, <2>1
  <2> QED
    BY <1>1, <1>5, <1>6, <1>7, <2>1, <2>2, <2>3
<1>9. CASE n # 0
  <2> DEFINE out == Released(base, n)
  <2>1. n \in Nat \ {0}
    BY <1>3, <1>9
  <2>2. PICK count \in Nat :
          /\ count = Settled(f, t, inTotal + n) - outIndex /\ count <= CeilDiv(n * t, f)
          /\ out \in Seq(Triples) /\ Len(out) = count
          /\ \A i \in 1..count : out[i] = Between(f, t, outIndex + i)
    <3>1. \A k \in Nat \ {0} :
            LET c == Settled(f, t, inTotal + k) - outIndex
            IN /\ c \in Nat /\ c <= CeilDiv(k * t, f)
               /\ Released(2 * inTotal, k) \in Seq(Triples) /\ Len(Released(2 * inTotal, k)) = c
               /\ \A i \in 1..c : Released(2 * inTotal, k)[i] = Between(f, t, outIndex + i)
      BY <1>1, <1>7, ReleasedIs
    <3>2. out = Released(2 * inTotal, n)
      BY <1>2
    <3> HIDE DEF out
    <3> QED
      BY <2>1, <3>1, <3>2
  <2>3. /\ outIndex' = outIndex + count /\ slack' = Capacity(n) - count
        /\ prev' = base + 2 * (n - 1) /\ inTotal' = inTotal + n /\ made' = m \o out
    BY <1>9, <2>2 DEF TakesOneMore
  <2> HIDE DEF out
  <2>4. slack' \in Int /\ slack' >= 0
    <3>1. n * t \in Int
      BY <2>1
    <3>2. CeilDiv(n * t, f) \in Int
      BY <3>1, CeilIsLeast
    <3>3. PICK c \in Int : c = CeilDiv(n * t, f)
      BY <3>2
    <3>4. Capacity(n) = c + 2
      BY <3>3 DEF Capacity
    <3>5. count <= c
      BY <2>2, <3>3
    <3>6. slack' = c + 2 - count
      BY <2>3, <3>4
    <3> QED
      BY <3>5, <3>6
  <2>5. inTotal' = fed' \div 2 /\ inTotal' # 0 /\ inTotal' \in Nat
    <3>1. inTotal' = inTotal + n
      BY <2>3
    <3>2. inTotal' = fed' \div 2
      BY <1>3, <1>10, <3>1
    <3> QED
      BY <1>1, <2>1, <3>1, <3>2
  <2>6. prev' = 2 * (inTotal' - 1)
    <3>1. prev' = 2 * inTotal + 2 * (n - 1) /\ inTotal' = inTotal + n
      BY <1>2, <2>3
    <3> QED
      BY <1>1, <2>1, <3>1
  <2>7. Settled(f, t, inTotal + n) \in Nat
    <3>1. \A k \in Nat : Settled(f, t, k) \in Nat
      BY SettledIs
    <3>2. inTotal + n \in Nat
      <4>1. inTotal \in Nat
        BY <1>1
      <4> QED
        BY <2>1, <4>1
    <3> QED
      BY <3>1, <3>2
  <2>8. outIndex' = Settled(f, t, inTotal')
    <3>1. outIndex' = Settled(f, t, inTotal + n)
      <4>1. outIndex' = outIndex + count /\ count = Settled(f, t, inTotal + n) - outIndex
        BY <2>2, <2>3
      <4>2. outIndex \in Nat
        BY <1>1
      <4>3. PICK all \in Nat : all = Settled(f, t, inTotal + n)
        BY <2>7
      <4> QED
        BY <4>1, <4>2, <4>3
    <3> QED
      BY <2>3, <3>1
  <2>13. outIndex' = outIndex + count
    BY <2>3
  <2>11. PICK all : all = m \o out
    OBVIOUS
  <2>12. /\ all \in Seq(Triples) /\ Len(all) = outIndex + count
         /\ \A i \in 1..outIndex : all[i] = m[i]
         /\ \A i \in 1..count : all[outIndex + i] = out[i]
    <3>1. \A a, b \in Seq(Triples) :
            /\ a \o b \in Seq(Triples) /\ Len(a \o b) = Len(a) + Len(b)
            /\ \A i \in 1..Len(a) : (a \o b)[i] = a[i]
            /\ \A i \in 1..Len(b) : (a \o b)[Len(a) + i] = b[i]
      BY Concatenated
    <3>2. Len(m) = outIndex /\ Len(out) = count /\ m \in Seq(Triples) /\ out \in Seq(Triples)
      BY <1>6, <2>2
    <3>3. all \in Seq(Triples) /\ Len(all) = outIndex + count
      BY <2>11, <3>1, <3>2
    <3>4. \A i \in 1..outIndex : all[i] = m[i]
      BY <2>11, <3>1, <3>2
    <3>5. \A i \in 1..count : all[outIndex + i] = out[i]
      BY <2>11, <3>1, <3>2
    <3> QED
      BY <3>3, <3>4, <3>5
  <2>9. made' \in Seq(Triples) /\ Len(made') = outIndex'
    BY <2>3, <2>11, <2>12, <2>13
  <2>10. ASSUME NEW i \in 1..outIndex' PROVE made'[i] = Between(f, t, i)
    <3>1. CASE i \in 1..outIndex
      BY <1>6, <2>3, <2>11, <2>12, <3>1
    <3>2. CASE i \notin 1..outIndex
      <4>1. i - outIndex \in 1..count /\ i = outIndex + (i - outIndex)
        <5>1. outIndex \in Nat
          BY <1>1
        <5>2. i \in 1..(outIndex + count)
          BY <2>13
        <5> QED
          BY <3>2, <5>1, <5>2
      <4>2. made'[outIndex + (i - outIndex)] = out[i - outIndex]
        BY <2>3, <2>11, <2>12, <4>1
      <4>3. out[i - outIndex] = Between(f, t, outIndex + (i - outIndex))
        BY <2>2, <4>1
      <4> QED
        BY <4>1, <4>2, <4>3
    <3> QED
      BY <3>1, <3>2
  <2> QED
    BY <1>5, <2>4, <2>5, <2>6, <2>8, <2>9, <2>10
<1> QED
  BY <1>8, <1>9

LEMMA ProcessKeeps ==
    ASSUME ResamplerInv, NEW len \in 0..MaxChunk, Process(len) PROVE ResamplerInv'
<1>0. len \in Nat
  BY RatesAssumption
<1>1. PICK f \in Nat \ {0}, t \in Nat \ {0} : f = fromRate /\ t = toRate
  BY RatesAre DEF ResamplerInv
<1>2. rates' = rates /\ rates \in RatePairs /\ ~flushed' /\ slack \in Int /\ slack >= 0
  BY DEF Process, ResamplerInv
<1>3. fromRate' = f /\ toRate' = t /\ (identity' <=> f = t) /\ (identity <=> f = t)
  BY <1>1, <1>2 DEF fromRate, toRate, identity
<1> DEFINE fb == IF flushed THEN 0 ELSE fed
<1> DEFINE m == IF flushed THEN <<>> ELSE made
<1>4. fb \in Nat /\ fed' = fb + len /\ fed' \in Nat
  BY <1>0 DEF Process, ResamplerInv
<1>5. CASE f = t
  <2>1. identity
    BY <1>3, <1>5
  <2>2. inTotal' = fed' \div 2 /\ slack' = slack
    BY <2>1 DEF Process
  <2>3. identity'
    BY <1>3, <1>5
  <2>4. rates' \in RatePairs /\ fed' \in Nat /\ flushed' \in BOOLEAN /\ slack' \in Int /\ slack' >= 0
    <3>1. flushed' = FALSE
      BY DEF Process
    <3> QED
      BY <1>2, <1>4, <2>2, <3>1
  <2> QED
    BY <2>2, <2>3, <2>4, Zenon DEF ResamplerInv
<1>6. CASE f # t
  <2>1. ~identity
    BY <1>3, <1>6
  <2>2. Streaming(f, t, fb, m)
    BY <1>1, <2>1 DEF ResamplerInv
  <2> DEFINE base == WithCarriedByte(fb)
  <2> DEFINE n == (fb + len - base) \div 2
  <2>3. /\ pendingByte' = (IF (fb + len - base) % 2 = 1 THEN {fb + len - 1} ELSE {})
        /\ made' = m \o (IF n = 0 THEN <<>> ELSE Released(base, n))
    BY <2>1 DEF Process
  <2>4. IF n = 0 THEN UNCHANGED <<inTotal, outIndex, prev, slack>>
        ELSE /\ outIndex' = outIndex + Len(Released(base, n))
             /\ slack' = Capacity(n) - Len(Released(base, n))
             /\ prev' = base + 2 * (n - 1)
             /\ inTotal' = inTotal + n
    BY <2>1 DEF Process
  <2>10. TakesOneMore(fb, m, len, base, n)
    BY <1>4, <2>3, <2>4, Zenon DEF TakesOneMore
  <2> HIDE DEF base, n, fb, m
  <2>7. /\ slack' \in Int /\ slack' >= 0
        /\ inTotal' = fed' \div 2
        /\ pendingByte' = IF fed' % 2 = 1 THEN {fed' - 1} ELSE {}
        /\ prev' = IF inTotal' = 0 THEN 0 ELSE 2 * (inTotal' - 1)
        /\ outIndex' = Settled(f, t, inTotal')
        /\ made' \in Seq(Triples) /\ Len(made') = outIndex'
        /\ \A i \in 1..outIndex' : made'[i] = Between(f, t, i)
    BY <1>0, <1>1, <1>2, <1>4, <2>2, <2>10, ChunkSettles
  <2>8. Streaming(f, t, fed, made)'
    BY <1>4, <2>7 DEF Streaming
  <2> QED
    <3>1. flushed' = FALSE
      BY DEF Process
    <3>2. ~identity'
      BY <1>3, <1>6
    <3>3. Streaming(fromRate, toRate, fed, made)'
      BY <1>3, <2>8
    <3>4. rates' \in RatePairs /\ fed' \in Nat /\ flushed' \in BOOLEAN /\ slack' \in Int /\ slack' >= 0
      BY <1>2, <1>4, <2>7, <3>1
    <3> QED
      BY <3>1, <3>2, <3>3, <3>4, Zenon DEF ResamplerInv
<1> QED
  BY <1>5, <1>6

\* What is held back lies on the last sample: with it the stream is whole.
LEMMA FlushKeeps == ASSUME ResamplerInv, Flush PROVE ResamplerInv'
<1>1. PICK f \in Nat \ {0}, t \in Nat \ {0} : f = fromRate /\ t = toRate
  BY RatesAre DEF ResamplerInv
<1>2. rates' = rates /\ rates \in RatePairs /\ slack' = slack /\ fed' = fed /\ ~flushed /\ flushed' = TRUE
  BY DEF Flush, ResamplerInv
<1>3. fromRate' = f /\ toRate' = t /\ (identity' <=> identity)
  BY <1>1, <1>2 DEF fromRate, toRate, identity
<1>4. rates' \in RatePairs /\ fed' \in Nat /\ slack' \in Int /\ slack' >= 0
  BY <1>2 DEF ResamplerInv
<1>5. Streaming(fromRate, toRate, 0, <<>>)'
  <2>1. inTotal' = 0 /\ outIndex' = 0 /\ prev' = 0 /\ pendingByte' = {}
    BY DEF Flush, Reset
  <2> QED
    BY <2>1 DEF Streaming, Settled
<1>6. \A n : Whole(n)' = Whole(n)
  BY <1>1, <1>3 DEF Whole
<1>7. ASSUME ~identity PROVE made' = Whole(fed \div 2)
  <2>1. Streaming(f, t, fed, made)
    BY <1>1, <1>2, <1>7 DEF ResamplerInv
  <2>2. PICK n \in Nat : n = fed \div 2
    BY DEF ResamplerInv
  <2>3. /\ inTotal = n /\ outIndex = Settled(f, t, n) /\ prev = (IF n = 0 THEN 0 ELSE 2 * (n - 1))
        /\ made \in Seq(Triples) /\ Len(made) = outIndex
        /\ \A i \in 1..outIndex : made[i] = Between(f, t, i)
    BY <2>1, <2>2 DEF Streaming
  <2>4. PICK whole : whole = Whole(n)
    OBVIOUS
  <2>5. CeilDiv(n * t, f) \in Int /\ outIndex \in Nat
    <3>1. n * t \in Int
      OBVIOUS
    <3> QED
      BY <2>3, <3>1, CeilIsLeast, SettledIs
  <2>6. PICK all \in Int : all = CeilDiv(n * t, f)
    BY <2>5
  <2>7. /\ whole \in Seq(Triples) /\ Len(whole) = all /\ outIndex <= all
        /\ \A i \in 1..outIndex : whole[i] = Between(f, t, i)
        /\ \A i \in (outIndex + 1)..all : whole[i] = <<2 * (n - 1), 2 * (n - 1), 0>>
    <3>0. fromRate = f /\ toRate = t
      BY <1>1
    <3>1. Whole(n) \in Seq(Triples) /\ Len(Whole(n)) = CeilDiv(n * t, f)
      BY <3>0, WholeIs
    <3>2. Settled(f, t, n) <= CeilDiv(n * t, f)
      BY <3>0, WholeIs
    <3>3. \A i \in 1..Settled(f, t, n) : Whole(n)[i] = Between(f, t, i)
      BY <3>0, WholeIs
    <3>4. \A i \in (Settled(f, t, n) + 1)..CeilDiv(n * t, f) : Whole(n)[i] = <<2 * (n - 1), 2 * (n - 1), 0>>
      BY <3>0, WholeIs
    <3>5. Settled(f, t, n) = outIndex /\ CeilDiv(n * t, f) = all
      BY <2>3, <2>6
    <3> QED
      BY <2>4, <3>1, <3>2, <3>3, <3>4, <3>5, Zenon
  <2> DEFINE rest == [i \in 1..(all - outIndex) |-> <<prev, prev, 0>>]
  <2>8. made' = IF all - outIndex <= 0 THEN made ELSE made \o rest
    BY <1>1, <1>7, <2>3, <2>6 DEF Flush
  <2>9. CASE all = outIndex
    <3>1. made' = made
      BY <2>5, <2>8, <2>9
    <3>2. Len(made) = Len(whole) /\ \A i \in 1..Len(made) : made[i] = whole[i]
      BY <2>3, <2>7, <2>9
    <3>3. made = whole
      BY <2>3, <2>7, <3>2, SeqEqual
    <3> QED
      BY <2>2, <2>4, <3>1, <3>3
  <2>10. CASE all # outIndex
    <3>1. all - outIndex \in Nat \ {0}
      BY <2>5, <2>7, <2>10
    <3>2. n # 0
      <4>1. SUFFICES ASSUME n = 0 PROVE FALSE
        OBVIOUS
      <4>2. n * t = 0
        BY <4>1
      <4>3. all = 0
        BY <2>6, <4>2, CeilOfNone
      <4> QED
        BY <2>5, <3>1, <4>3
    <3>3. prev = 2 * (n - 1) /\ prev \in Int
      BY <2>3, <3>2
    <3>4. <<prev, prev, 0>> \in Triples
      BY <3>3 DEF Triples
    <3>5. rest \in Seq(Triples) /\ Len(rest) = all - outIndex
      BY <3>1, <3>4
    <3>6. \A i \in 1..(all - outIndex) : rest[i] = <<2 * (n - 1), 2 * (n - 1), 0>>
      BY <3>3
    <3>7. made' = made \o rest
      BY <3>1, <2>8
    <3> HIDE DEF rest
    <3>8. \A a, b \in Seq(Triples) :
            /\ a \o b \in Seq(Triples) /\ Len(a \o b) = Len(a) + Len(b)
            /\ \A i \in 1..Len(a) : (a \o b)[i] = a[i]
            /\ \A i \in 1..Len(b) : (a \o b)[Len(a) + i] = b[i]
      BY Concatenated
    <3>9. PICK got : got = made \o rest
      OBVIOUS
    <3>10. /\ got \in Seq(Triples) /\ Len(got) = outIndex + (all - outIndex)
           /\ \A i \in 1..outIndex : got[i] = made[i]
           /\ \A i \in 1..(all - outIndex) : got[outIndex + i] = rest[i]
      <4>1. Len(made) = outIndex /\ made \in Seq(Triples)
        BY <2>3
      <4>2. got \in Seq(Triples) /\ Len(got) = outIndex + (all - outIndex)
        BY <3>5, <3>8, <3>9, <4>1
      <4>3. \A i \in 1..outIndex : got[i] = made[i]
        BY <3>5, <3>8, <3>9, <4>1
      <4>4. \A i \in 1..(all - outIndex) : got[outIndex + i] = rest[i]
        BY <3>5, <3>8, <3>9, <4>1
      <4> QED
        BY <4>2, <4>3, <4>4
    <3>11. Len(got) = all
      BY <2>5, <3>10
    <3>12. ASSUME NEW i \in 1..all PROVE got[i] = whole[i]
      <4>1. CASE i \in 1..outIndex
        BY <2>3, <2>7, <3>10, <4>1
      <4>2. CASE i \notin 1..outIndex
        <5>1. i - outIndex \in 1..(all - outIndex) /\ i = outIndex + (i - outIndex) /\ i \in (outIndex + 1)..all
          BY <2>5, <4>2
        <5>2. got[outIndex + (i - outIndex)] = rest[i - outIndex]
          BY <3>10, <5>1
        <5>3. rest[i - outIndex] = <<2 * (n - 1), 2 * (n - 1), 0>>
          BY <3>6, <5>1
        <5>4. whole[i] = <<2 * (n - 1), 2 * (n - 1), 0>>
          BY <2>7, <5>1
        <5> QED
          BY <5>1, <5>2, <5>3, <5>4
      <4> QED
        BY <4>1, <4>2
    <3>13. got = whole
      BY <2>7, <3>10, <3>11, <3>12, SeqEqual
    <3> QED
      BY <2>2, <2>4, <3>7, <3>9, <3>13
  <2> QED
    BY <2>9, <2>10
<1>8. ~identity' => made' = Whole(fed \div 2)'
  <2>1. (fed \div 2)' = fed \div 2
    BY <1>2
  <2>2. ~identity' => made' = Whole(fed \div 2)
    BY <1>3, <1>7
  <2>3. Whole(fed \div 2)' = Whole(fed \div 2)
    BY <1>1, <1>2, <1>3 DEF Whole
  <2> QED
    BY <2>2, <2>3
<1> QED
  BY <1>2, <1>4, <1>5, <1>8, Zenon DEF ResamplerInv

LEMMA ResamplerKeeps == ResamplerInv /\ [ResamplerNext]_resamplerVars => ResamplerInv'
<1> SUFFICES ASSUME ResamplerInv, [ResamplerNext]_resamplerVars PROVE ResamplerInv'
  OBVIOUS
<1>1. CASE Flush
  BY <1>1, FlushKeeps
<1>2. CASE \E len \in 0..MaxChunk : Process(len)
  BY <1>2, ProcessKeeps
<1>3. CASE UNCHANGED resamplerVars
  BY <1>3 DEF resamplerVars, ResamplerInv, Streaming, Whole, fromRate, toRate, identity
<1> QED
  BY <1>1, <1>2, <1>3 DEF ResamplerNext

LEMMA ResamplerFits == ResamplerInv => ChunksDoNotShow /\ BuffersSuffice
<1> SUFFICES ASSUME ResamplerInv PROVE ChunksDoNotShow /\ BuffersSuffice
  OBVIOUS
<1>1. PICK f \in Nat \ {0}, t \in Nat \ {0} : f = fromRate /\ t = toRate
  BY RatesAre DEF ResamplerInv
<1>2. PICK n \in Nat : n = fed \div 2
  BY DEF ResamplerInv
<1>3. PICK whole : whole = Whole(n)
  OBVIOUS
<1>4. /\ whole \in Seq(Triples) /\ Len(whole) = CeilDiv(n * t, f)
      /\ Settled(f, t, n) <= CeilDiv(n * t, f)
      /\ \A i \in 1..Settled(f, t, n) : whole[i] = Between(f, t, i)
  <2>0. fromRate = f /\ toRate = t
    BY <1>1
  <2>1. Whole(n) \in Seq(Triples) /\ Len(Whole(n)) = CeilDiv(n * t, f)
    BY <2>0, WholeIs
  <2>2. Settled(f, t, n) <= CeilDiv(n * t, f)
    BY <2>0, WholeIs
  <2>3. \A i \in 1..Settled(f, t, n) : Whole(n)[i] = Between(f, t, i)
    BY <2>0, WholeIs
  <2> QED
    BY <1>3, <2>1, <2>2, <2>3, Zenon
<1>5. \A s \in Seq(Triples) : Len(s) \in Nat /\ SubSeq(s, 1, Len(s)) = s
  OBVIOUS
<1>6. ASSUME ~identity, flushed
      PROVE  Len(made) <= Len(whole) /\ SubSeq(whole, 1, Len(made)) = made /\ made = whole
  <2>1. made = whole
    BY <1>2, <1>3, <1>6 DEF ResamplerInv
  <2>2. Len(whole) \in Nat /\ SubSeq(whole, 1, Len(whole)) = whole
    BY <1>4, <1>5
  <2> QED
    BY <2>1, <2>2
<1>7. ASSUME ~identity, ~flushed
      PROVE  /\ Len(made) <= Len(whole) /\ SubSeq(whole, 1, Len(made)) = made
             /\ inTotal = n /\ outIndex = Len(made)
  <2>1. Streaming(f, t, fed, made)
    BY <1>1, <1>7 DEF ResamplerInv
  <2>2. /\ inTotal = n /\ outIndex = Settled(f, t, n) /\ made \in Seq(Triples) /\ Len(made) = outIndex
        /\ \A i \in 1..outIndex : made[i] = Between(f, t, i)
    BY <1>2, <2>1 DEF Streaming
  <2>3. outIndex \in Nat /\ outIndex <= Len(whole) /\ Len(whole) \in Nat
    BY <1>4, <1>5, <2>2, SettledIs
  <2>4. PICK start : start = SubSeq(whole, 1, outIndex)
    OBVIOUS
  <2>5. start \in Seq(Triples) /\ Len(start) = outIndex /\ \A i \in 1..outIndex : start[i] = whole[i]
    BY <1>4, <2>3, <2>4
  <2>6. \A i \in 1..outIndex : start[i] = made[i]
    BY <1>4, <2>2, <2>5
  <2>7. start = made
    BY <2>2, <2>5, <2>6, SeqEqual
  <2> QED
    BY <2>2, <2>3, <2>4, <2>7
<1>8. ChunksDoNotShow
  BY <1>2, <1>3, <1>6, <1>7, Zenon DEF ChunksDoNotShow
<1>9. slack >= 0 /\ (identity /\ ~flushed => inTotal = fed \div 2)
  BY DEF ResamplerInv
<1>10. BuffersSuffice
  BY <1>2, <1>7, <1>9, Zenon DEF BuffersSuffice
<1> QED
  BY <1>8, <1>10

LEMMA NatInduct ==
    ASSUME NEW S \in SUBSET Nat, 0 \in S, \A n \in S : n + 1 \in S
    PROVE  S = Nat
<1> DEFINE R == {r \in Nat \X Nat : r[1] < r[2]}
<1>1. IsWellFoundedOn(R, Nat)
  BY NatLessThanWellFounded DEF OpToRel
<1>2. \A y \in Nat, x \in Nat : <<y, x>> \in R <=> y < x
  OBVIOUS
<1> HIDE DEF R
<1> SUFFICES ASSUME Nat \ S # {} PROVE FALSE
  OBVIOUS
<1>3. PICK x \in Nat \ S : \A y \in Nat \ S : ~(<<y, x>> \in R)
  BY <1>1, WFMin
<1>4. x - 1 \in Nat /\ x - 1 < x /\ x = (x - 1) + 1
  BY <1>3
<1>5. x - 1 \in S
  BY <1>2, <1>3, <1>4
<1> QED
  BY <1>3, <1>4, <1>5

-----------------------------------------------------------------------------
(* The detector of speech *)

Vad == [active : BOOLEAN, speechRuns : Nat, silenceRuns : Nat]

LEMMA JudgeIs ==
    ASSUME NEW v \in Vad
    PROVE  /\ Judge(v, TRUE) \in Vad
           /\ Judge(v, TRUE).silenceRuns = 0 /\ Judge(v, TRUE).speechRuns = v.speechRuns + 1
           /\ Judge(v, TRUE).active <=> v.active \/ v.speechRuns + 1 >= StartFrames
           /\ Judge(v, FALSE) \in Vad
           /\ Judge(v, FALSE).speechRuns = 0
           /\ Judge(v, FALSE).silenceRuns = (IF v.active THEN v.silenceRuns + 1 ELSE v.silenceRuns)
           /\ Judge(v, FALSE).active <=> v.active /\ v.silenceRuns + 1 <= HangoverFrames
<1> USE FramesAssumption
<1>1. v.active \in BOOLEAN /\ v.speechRuns \in Nat /\ v.silenceRuns \in Nat
  BY DEF Vad
<1>2. /\ Judge(v, TRUE).silenceRuns = 0 /\ Judge(v, TRUE).speechRuns = v.speechRuns + 1
      /\ Judge(v, TRUE).active = (v.active \/ v.speechRuns + 1 >= StartFrames)
      /\ DOMAIN Judge(v, TRUE) = {"active", "speechRuns", "silenceRuns"}
  BY DEF Judge, Vad
<1>3. /\ Judge(v, FALSE).speechRuns = 0
      /\ Judge(v, FALSE).silenceRuns = (IF v.active THEN v.silenceRuns + 1 ELSE v.silenceRuns)
      /\ Judge(v, FALSE).active = (v.active /\ v.silenceRuns + 1 <= HangoverFrames)
  BY DEF Judge, Vad
<1>6. \A on \in BOOLEAN, m, n \in Nat :
        [[[v EXCEPT !.silenceRuns = m] EXCEPT !.speechRuns = n] EXCEPT !.active = on] \in Vad
  BY DEF Vad
<1>7. \A on \in BOOLEAN, m, n \in Nat :
        [[[v EXCEPT !.speechRuns = n] EXCEPT !.silenceRuns = m] EXCEPT !.active = on] \in Vad
  BY DEF Vad
<1>4. Judge(v, TRUE) \in Vad
  <2> DEFINE on == v.active \/ v.speechRuns + 1 >= StartFrames
             n == v.speechRuns + 1
  <2>1. on \in BOOLEAN
    OBVIOUS
  <2>2. n \in Nat /\ 0 \in Nat
    BY <1>1
  <2>3. Judge(v, TRUE) = [[[v EXCEPT !.silenceRuns = 0] EXCEPT !.speechRuns = n] EXCEPT !.active = on]
    BY DEF Judge, Vad
  <2> HIDE DEF on, n
  <2>4. [[[v EXCEPT !.silenceRuns = 0] EXCEPT !.speechRuns = n] EXCEPT !.active = on] \in Vad
    BY <1>6, <2>1, <2>2, Zenon
  <2> QED
    BY <2>3, <2>4, Zenon
<1>5. Judge(v, FALSE) \in Vad
  <2> DEFINE on == v.active /\ v.silenceRuns + 1 <= HangoverFrames
             m == IF v.active THEN v.silenceRuns + 1 ELSE v.silenceRuns
  <2>1. on \in BOOLEAN
    OBVIOUS
  <2>2. m \in Nat /\ 0 \in Nat
    BY <1>1
  <2>3. Judge(v, FALSE) = [[[v EXCEPT !.speechRuns = 0] EXCEPT !.silenceRuns = m] EXCEPT !.active = on]
    BY DEF Judge, Vad
  <2> HIDE DEF on, m
  <2>4. [[[v EXCEPT !.speechRuns = 0] EXCEPT !.silenceRuns = m] EXCEPT !.active = on] \in Vad
    BY <1>7, <2>1, <2>2, Zenon
  <2> QED
    BY <2>3, <2>4, Zenon
<1> QED
  BY <1>2, <1>3, <1>4, <1>5

\* Speech is on after frame n of these: SpeechOn, of any frames.
SpeechIn(fs, n) ==
    \E s \in StartFrames..n :
        /\ \A i \in (s - StartFrames + 1)..s : fs[i]
        /\ \A e \in (s + 1 + HangoverFrames)..n : \E i \in (e - HangoverFrames)..e : fs[i]

\* What the detector knows after n frames: how many of the last ones were speech, and how many, since
\* it is on, were not; and that it is on.
Remembers(v, fs, n) ==
    /\ v.speechRuns <= n /\ \A i \in (n - v.speechRuns + 1)..n : fs[i]
    /\ v.speechRuns < n => ~fs[n - v.speechRuns]
    /\ v.active => /\ v.silenceRuns <= HangoverFrames /\ v.silenceRuns <= n
                   /\ \A i \in (n - v.silenceRuns + 1)..n : ~fs[i]
                   /\ v.silenceRuns < n => fs[n - v.silenceRuns]
    /\ v.active <=> SpeechIn(fs, n)

\* A frame of speech ...
LEMMA RemembersSpeech ==
    ASSUME NEW v \in Vad, NEW fs, NEW n \in Nat, Remembers(v, fs, n), fs[n + 1]
    PROVE  Remembers(Judge(v, TRUE), fs, n + 1)
<1> USE FramesAssumption
<1>1. PICK w \in Vad : w = Judge(v, TRUE)
  BY JudgeIs
<1>2. PICK runs \in Nat : runs = v.speechRuns
  BY DEF Vad
<1>3. w.silenceRuns = 0 /\ w.speechRuns = runs + 1 /\ (w.active <=> v.active \/ runs + 1 >= StartFrames)
  BY <1>1, <1>2, JudgeIs
<1>4. runs <= n /\ (\A i \in (n - runs + 1)..n : fs[i]) /\ (runs < n => ~fs[n - runs])
  BY <1>2 DEF Remembers
<1>5. v.active <=> SpeechIn(fs, n)
  BY DEF Remembers
<1>6. \A i \in ((n + 1) - (runs + 1) + 1)..(n + 1) : fs[i]
  <2> SUFFICES ASSUME NEW i \in ((n + 1) - (runs + 1) + 1)..(n + 1) PROVE fs[i]
    OBVIOUS
  <2>1. i = n + 1 \/ i \in (n - runs + 1)..n
    BY <1>4
  <2> QED
    BY <1>4, <2>1
<1>7. runs + 1 < n + 1 => ~fs[(n + 1) - (runs + 1)]
  <2>1. (n + 1) - (runs + 1) = n - runs /\ (runs + 1 < n + 1 => runs < n)
    OBVIOUS
  <2> QED
    BY <1>4, <2>1
<1>8. ASSUME SpeechIn(fs, n) PROVE SpeechIn(fs, n + 1)
  <2>1. PICK s \in StartFrames..n :
          /\ \A i \in (s - StartFrames + 1)..s : fs[i]
          /\ \A e \in (s + 1 + HangoverFrames)..n : \E i \in (e - HangoverFrames)..e : fs[i]
    BY <1>8 DEF SpeechIn
  <2>2. s \in StartFrames..(n + 1) /\ n + 1 \in ((n + 1) - HangoverFrames)..(n + 1)
    OBVIOUS
  <2>3. ASSUME NEW e \in (s + 1 + HangoverFrames)..(n + 1) PROVE \E i \in (e - HangoverFrames)..e : fs[i]
    <3>1. CASE e = n + 1
      BY <2>2, <3>1
    <3>2. CASE e # n + 1
      <4>1. e \in (s + 1 + HangoverFrames)..n
        BY <2>1, <3>2
      <4> QED
        BY <2>1, <4>1
    <3> QED
      BY <3>1, <3>2
  <2> QED
    BY <2>1, <2>2, <2>3 DEF SpeechIn
<1>9. ASSUME runs + 1 >= StartFrames PROVE SpeechIn(fs, n + 1)
  <2>1. n + 1 \in StartFrames..(n + 1)
    BY <1>4, <1>9
  <2>2. ASSUME NEW i \in ((n + 1) - StartFrames + 1)..(n + 1) PROVE fs[i]
    <3>1. i \in ((n + 1) - (runs + 1) + 1)..(n + 1)
      BY <1>4, <1>9
    <3> QED
      BY <1>6, <3>1
  <2>3. ((n + 1) + 1 + HangoverFrames)..(n + 1) = {}
    OBVIOUS
  <2> QED
    BY <2>1, <2>2, <2>3 DEF SpeechIn
<1>10. ASSUME SpeechIn(fs, n + 1) PROVE SpeechIn(fs, n) \/ runs + 1 >= StartFrames
  <2>1. PICK s \in StartFrames..(n + 1) :
          /\ \A i \in (s - StartFrames + 1)..s : fs[i]
          /\ \A e \in (s + 1 + HangoverFrames)..(n + 1) : \E i \in (e - HangoverFrames)..e : fs[i]
    BY <1>10 DEF SpeechIn
  <2>2. CASE s = n + 1
    <3>1. SUFFICES ASSUME runs + 1 < StartFrames PROVE FALSE
      BY <1>2
    <3>2. runs < n /\ n - runs \in (s - StartFrames + 1)..s
      BY <2>1, <2>2, <3>1
    <3> QED
      BY <1>4, <2>1, <3>2
  <2>3. CASE s # n + 1
    <3>1. s \in StartFrames..n
      BY <2>1, <2>3
    <3>2. \A e \in (s + 1 + HangoverFrames)..n : e \in (s + 1 + HangoverFrames)..(n + 1)
      BY <3>1
    <3>3. SpeechIn(fs, n)
      BY <2>1, <3>1, <3>2 DEF SpeechIn
    <3> QED
      BY <3>3
  <2> QED
    BY <2>2, <2>3
<1>11. w.active <=> SpeechIn(fs, n + 1)
  BY <1>3, <1>5, <1>8, <1>9, <1>10
<1>12. (\A i \in ((n + 1) - 0 + 1)..(n + 1) : ~fs[i]) /\ fs[(n + 1) - 0]
  OBVIOUS
<1>13. Remembers(w, fs, n + 1)
  BY <1>3, <1>4, <1>6, <1>7, <1>11, <1>12 DEF Remembers
<1> QED
  BY <1>1, <1>13

\* ... and one of silence.
LEMMA RemembersSilence ==
    ASSUME NEW v \in Vad, NEW fs, NEW n \in Nat, Remembers(v, fs, n), ~fs[n + 1]
    PROVE  Remembers(Judge(v, FALSE), fs, n + 1)
<1> USE FramesAssumption
<1>1. PICK w \in Vad : w = Judge(v, FALSE)
  BY JudgeIs
<1>2. PICK gap \in Nat : gap = v.silenceRuns
  BY DEF Vad
<1>3. /\ w.speechRuns = 0 /\ (v.active => w.silenceRuns = gap + 1)
      /\ (w.active <=> v.active /\ gap + 1 <= HangoverFrames)
  BY <1>1, <1>2, JudgeIs
<1>4. v.active => /\ gap <= HangoverFrames /\ gap <= n
                  /\ \A i \in (n - gap + 1)..n : ~fs[i]
                  /\ gap < n => fs[n - gap]
  BY <1>2 DEF Remembers
<1>5. v.active <=> SpeechIn(fs, n)
  BY DEF Remembers
<1>6. ASSUME v.active PROVE \A i \in ((n + 1) - (gap + 1) + 1)..(n + 1) : ~fs[i]
  <2> SUFFICES ASSUME NEW i \in ((n + 1) - (gap + 1) + 1)..(n + 1) PROVE ~fs[i]
    OBVIOUS
  <2>1. i = n + 1 \/ i \in (n - gap + 1)..n
    OBVIOUS
  <2> QED
    BY <1>4, <1>6, <2>1
<1>7. ASSUME v.active PROVE gap + 1 < n + 1 => fs[(n + 1) - (gap + 1)]
  <2>1. (n + 1) - (gap + 1) = n - gap /\ (gap + 1 < n + 1 => gap < n)
    OBVIOUS
  <2> QED
    BY <1>4, <1>7, <2>1
\* Speech that goes on now began before, and so is not as long ago as the silence.
<1>8. ASSUME v.active, NEW s \in StartFrames..n, \A i \in (s - StartFrames + 1)..s : fs[i]
      PROVE  s <= n - gap /\ gap < n
  <2>1. s \in (s - StartFrames + 1)..s /\ s >= 1
    OBVIOUS
  <2>2. fs[s]
    BY <1>8, <2>1
  <2>3. s \notin (n - gap + 1)..n
    BY <1>4, <1>8, <2>2
  <2> QED
    BY <2>1, <2>3
<1>9. ASSUME SpeechIn(fs, n + 1) PROVE w.active
  <2>1. PICK s \in StartFrames..(n + 1) :
          /\ \A i \in (s - StartFrames + 1)..s : fs[i]
          /\ \A e \in (s + 1 + HangoverFrames)..(n + 1) : \E i \in (e - HangoverFrames)..e : fs[i]
    BY <1>9 DEF SpeechIn
  <2>2. s \in (s - StartFrames + 1)..s
    OBVIOUS
  <2>3. s # n + 1
    BY <2>1, <2>2
  <2>4. s \in StartFrames..n
    BY <2>1, <2>3
  <2>5. \A e \in (s + 1 + HangoverFrames)..n : e \in (s + 1 + HangoverFrames)..(n + 1)
    BY <2>4
  <2>6. v.active
    BY <1>5, <2>1, <2>4, <2>5 DEF SpeechIn
  <2>7. s <= n - gap
    BY <1>8, <2>1, <2>4, <2>6
  <2>8. SUFFICES ASSUME gap = HangoverFrames PROVE FALSE
    BY <1>3, <1>4, <2>6
  <2>9. n + 1 \in (s + 1 + HangoverFrames)..(n + 1)
    BY <2>4, <2>7, <2>8
  <2>10. PICK i \in ((n + 1) - HangoverFrames)..(n + 1) : fs[i]
    BY <2>1, <2>9
  <2>11. i \in ((n + 1) - (gap + 1) + 1)..(n + 1)
    BY <2>8
  <2> QED
    BY <1>6, <2>6, <2>10, <2>11
<1>10. ASSUME w.active PROVE SpeechIn(fs, n + 1)
  <2>1. v.active /\ gap + 1 <= HangoverFrames
    BY <1>3, <1>10
  <2>2. PICK s \in StartFrames..n :
          /\ \A i \in (s - StartFrames + 1)..s : fs[i]
          /\ \A e \in (s + 1 + HangoverFrames)..n : \E i \in (e - HangoverFrames)..e : fs[i]
    BY <1>5, <2>1 DEF SpeechIn
  <2>3. gap < n
    BY <1>8, <2>1, <2>2
  <2>4. fs[n - gap] /\ n - gap \in ((n + 1) - HangoverFrames)..(n + 1)
    BY <1>4, <2>1, <2>3
  <2>5. ASSUME NEW e \in (s + 1 + HangoverFrames)..(n + 1) PROVE \E i \in (e - HangoverFrames)..e : fs[i]
    <3>1. CASE e = n + 1
      BY <2>4, <3>1
    <3>2. CASE e # n + 1
      <4>1. e \in (s + 1 + HangoverFrames)..n
        BY <2>2, <3>2
      <4> QED
        BY <2>2, <4>1
    <3> QED
      BY <3>1, <3>2
  <2>6. s \in StartFrames..(n + 1)
    BY <2>2
  <2> QED
    BY <2>2, <2>5, <2>6 DEF SpeechIn
<1>11. w.active => v.active /\ gap + 1 <= n + 1 /\ gap + 1 <= HangoverFrames /\ w.silenceRuns = gap + 1
  BY <1>3, <1>4
<1>12. (\A i \in ((n + 1) - 0 + 1)..(n + 1) : fs[i]) /\ ~fs[(n + 1) - 0]
  OBVIOUS
<1>13. Remembers(w, fs, n + 1)
  BY <1>3, <1>6, <1>7, <1>9, <1>10, <1>11, <1>12 DEF Remembers
<1> QED
  BY <1>1, <1>13

\* Only the frames up to n matter.
LEMMA SpeechAgrees ==
    ASSUME NEW fs, NEW gs, NEW n \in Nat, \A i \in 1..n : fs[i] = gs[i], SpeechIn(fs, n)
    PROVE  SpeechIn(gs, n)
<1> USE FramesAssumption
<1>1. PICK s \in StartFrames..n :
        /\ \A i \in (s - StartFrames + 1)..s : fs[i]
        /\ \A e \in (s + 1 + HangoverFrames)..n : \E i \in (e - HangoverFrames)..e : fs[i]
  BY DEF SpeechIn
<1>2. \A i \in (s - StartFrames + 1)..s : gs[i]
  <2> SUFFICES ASSUME NEW i \in (s - StartFrames + 1)..s PROVE gs[i]
    OBVIOUS
  <2>1. i \in 1..n
    OBVIOUS
  <2> QED
    BY <1>1, <2>1
<1>3. ASSUME NEW e \in (s + 1 + HangoverFrames)..n PROVE \E i \in (e - HangoverFrames)..e : gs[i]
  <2>1. PICK i \in (e - HangoverFrames)..e : fs[i]
    BY <1>1
  <2>2. i \in 1..n
    OBVIOUS
  <2> QED
    BY <2>1, <2>2
<1> QED
  BY <1>2, <1>3 DEF SpeechIn

LEMMA RemembersAgrees ==
    ASSUME NEW v \in Vad, NEW fs, NEW gs, NEW n \in Nat, \A i \in 1..n : fs[i] = gs[i],
           Remembers(v, fs, n)
    PROVE  Remembers(v, gs, n)
<1>1. v.speechRuns \in Nat /\ v.silenceRuns \in Nat
  BY DEF Vad
<1>2. v.speechRuns <= n /\ (\A i \in (n - v.speechRuns + 1)..n : fs[i]) /\ (v.speechRuns < n => ~fs[n - v.speechRuns])
  BY DEF Remembers
<1>3. \A i \in (n - v.speechRuns + 1)..n : gs[i]
  <2> SUFFICES ASSUME NEW i \in (n - v.speechRuns + 1)..n PROVE gs[i]
    OBVIOUS
  <2>1. i \in 1..n
    BY <1>1, <1>2
  <2> QED
    BY <1>2, <2>1
<1>4. v.speechRuns < n => ~gs[n - v.speechRuns]
  <2>1. v.speechRuns < n => n - v.speechRuns \in 1..n
    BY <1>1
  <2> QED
    BY <1>2, <2>1
<1>5. ASSUME v.active
      PROVE  /\ v.silenceRuns <= HangoverFrames /\ v.silenceRuns <= n
             /\ \A i \in (n - v.silenceRuns + 1)..n : ~gs[i]
             /\ v.silenceRuns < n => gs[n - v.silenceRuns]
  <2>1. /\ v.silenceRuns <= HangoverFrames /\ v.silenceRuns <= n
        /\ \A i \in (n - v.silenceRuns + 1)..n : ~fs[i]
        /\ v.silenceRuns < n => fs[n - v.silenceRuns]
    BY <1>5 DEF Remembers
  <2>2. \A i \in (n - v.silenceRuns + 1)..n : ~gs[i]
    <3> SUFFICES ASSUME NEW i \in (n - v.silenceRuns + 1)..n PROVE ~gs[i]
      OBVIOUS
    <3>1. i \in 1..n
      BY <1>1, <2>1
    <3> QED
      BY <2>1, <3>1
  <2>3. v.silenceRuns < n => n - v.silenceRuns \in 1..n
    BY <1>1
  <2>4. v.silenceRuns < n => gs[n - v.silenceRuns]
    BY <2>1, <2>3
  <2> QED
    BY <2>1, <2>2, <2>4
<1>6. \A i \in 1..n : gs[i] = fs[i]
  OBVIOUS
<1>7. SpeechIn(fs, n) => SpeechIn(gs, n)
  BY SpeechAgrees
<1>8. SpeechIn(gs, n) => SpeechIn(fs, n)
  BY <1>6, SpeechAgrees
<1>9. v.active <=> SpeechIn(gs, n)
  BY <1>7, <1>8 DEF Remembers
<1> QED
  BY <1>2, <1>3, <1>4, <1>5, <1>9 DEF Remembers

\* The detector after each of the first n frames of a chunk, from v on.
Judging(v, chunk, n) ==
    {f \in [0..n -> Vad] : f[0] = v /\ \A k \in 1..n : f[k] = Judge(f[k - 1], chunk[k])}

LEMMA JudgingGoesOn ==
    ASSUME NEW v \in Vad, NEW chunk \in Seq(BOOLEAN)
    PROVE  Judging(v, chunk, Len(chunk)) # {}
<1> DEFINE S == {n \in Nat : n > Len(chunk) \/ Judging(v, chunk, n) # {}}
<1>0. Len(chunk) \in Nat
  OBVIOUS
<1>1. 0 \in S
  <2>1. [k \in 0..0 |-> v] \in Judging(v, chunk, 0)
    BY DEF Judging
  <2> QED
    BY <2>1
<1>2. ASSUME NEW n \in S PROVE n + 1 \in S
  <2>0. n \in Nat
    OBVIOUS
  <2>1. CASE n + 1 > Len(chunk)
    BY <2>0, <2>1
  <2>2. CASE n + 1 <= Len(chunk)
    <3>1. ~(n > Len(chunk))
      BY <1>0, <2>0, <2>2
    <3>2. PICK f \in Judging(v, chunk, n) : TRUE
      BY <3>1
    <3>3. f \in [0..n -> Vad] /\ f[0] = v /\ \A k \in 1..n : f[k] = Judge(f[k - 1], chunk[k])
      BY <3>2 DEF Judging
    <3>4. f[n] \in Vad /\ chunk[n + 1] \in BOOLEAN
      BY <1>0, <2>0, <2>2, <3>3
    <3>5. Judge(f[n], TRUE) \in Vad /\ Judge(f[n], FALSE) \in Vad
      BY <3>4, JudgeIs
    <3>6. Judge(f[n], chunk[n + 1]) \in Vad
      BY <3>4, <3>5
    <3> DEFINE g == [k \in 0..(n + 1) |-> IF k = n + 1 THEN Judge(f[n], chunk[n + 1]) ELSE f[k]]
    <3>7. g \in [0..(n + 1) -> Vad] /\ g[0] = v
      BY <2>0, <3>3, <3>6
    <3>8. ASSUME NEW k \in 1..(n + 1) PROVE g[k] = Judge(g[k - 1], chunk[k])
      <4>1. k - 1 \in 0..n /\ k - 1 # n + 1 /\ (k = n + 1 \/ k \in 1..n)
        BY <2>0
      <4>2. g[k - 1] = f[k - 1]
        BY <2>0, <4>1
      <4>3. CASE k = n + 1
        <5>1. g[k] = Judge(f[n], chunk[n + 1]) /\ k - 1 = n
          BY <2>0, <4>3
        <5> QED
          BY <4>2, <4>3, <5>1
      <4>4. CASE k # n + 1
        <5>1. k \in 1..n /\ k \in 0..(n + 1)
          BY <2>0, <4>1, <4>4
        <5>2. g[k] = f[k]
          BY <4>4, <5>1
        <5> QED
          BY <3>3, <4>2, <5>1, <5>2
      <4> QED
        BY <4>3, <4>4
    <3>9. g \in Judging(v, chunk, n + 1)
      BY <3>7, <3>8 DEF Judging
    <3> HIDE DEF g
    <3> QED
      BY <2>0, <3>9
  <2> QED
    BY <1>0, <2>0, <2>1, <2>2
<1>3. S \in SUBSET Nat
  OBVIOUS
<1> HIDE DEF S
<1>4. S = Nat
  BY <1>1, <1>2, <1>3, NatInduct
<1>5. ~(Len(chunk) > Len(chunk))
  BY <1>0
<1> QED
  BY <1>0, <1>4, <1>5 DEF S

\* Every judgement of a chunk remembers the frames before it, of this chunk and of those before.
LEMMA JudgementsRemember ==
    ASSUME NEW chunk \in Seq(BOOLEAN), vad \in Vad, judged \in Seq(BOOLEAN),
           Remembers(vad, judged, Len(judged))
    PROVE  /\ Judgements(chunk) \in Seq(Vad) /\ Len(Judgements(chunk)) = Len(chunk)
           /\ \A k \in 1..Len(chunk) :
                 /\ Judgements(chunk)[k] \in Vad
                 /\ Remembers(Judgements(chunk)[k], judged \o chunk, Len(judged) + k)
<1> DEFINE after[i \in 0..Len(chunk)] == IF i = 0 THEN vad ELSE Judge(after[i - 1], chunk[i])
<1>0. Len(chunk) \in Nat /\ Len(judged) \in Nat
  OBVIOUS
<1>1. Judgements(chunk) = [i \in DOMAIN chunk |-> after[i]]
  BY DEF Judgements
<1>2. PICK f : f = [i \in 0..Len(chunk) |-> IF i = 0 THEN vad ELSE Judge(f[i - 1], chunk[i])]
  <2>1. PICK f \in Judging(vad, chunk, Len(chunk)) : TRUE
    BY JudgingGoesOn
  <2>2. /\ f \in [0..Len(chunk) -> Vad] /\ f[0] = vad
        /\ \A k \in 1..Len(chunk) : f[k] = Judge(f[k - 1], chunk[k])
    BY <2>1 DEF Judging
  <2>3. \A k \in 0..Len(chunk) : f[k] = IF k = 0 THEN vad ELSE Judge(f[k - 1], chunk[k])
    <3>1. \A k \in 0..Len(chunk) : k = 0 \/ k \in 1..Len(chunk)
      BY <1>0
    <3> QED
      BY <2>2, <3>1
  <2>4. f = [i \in 0..Len(chunk) |-> IF i = 0 THEN vad ELSE Judge(f[i - 1], chunk[i])]
    BY <2>2, <2>3
  <2> QED
    BY <2>4
<1>3. after = [i \in 0..Len(chunk) |-> IF i = 0 THEN vad ELSE Judge(after[i - 1], chunk[i])]
  BY <1>2
<1> HIDE DEF after
<1> DEFINE all == judged \o chunk
<1>4. /\ all \in Seq(BOOLEAN) /\ \A i \in 1..Len(judged) : all[i] = judged[i]
      /\ \A i \in 1..Len(chunk) : all[Len(judged) + i] = chunk[i]
  BY Concatenated
<1> HIDE DEF all
<1> DEFINE S == {k \in Nat : k > Len(chunk) \/ (after[k] \in Vad /\ Remembers(after[k], all, Len(judged) + k))}
<1>5. 0 \in S
  <2>1. after[0] = vad
    BY <1>0, <1>3
  <2>2. \A i \in 1..Len(judged) : judged[i] = all[i]
    BY <1>4
  <2>3. Remembers(vad, all, Len(judged))
    BY <1>0, <2>2, RemembersAgrees
  <2>4. Len(judged) + 0 = Len(judged)
    BY <1>0
  <2> QED
    BY <2>1, <2>3, <2>4
<1>6. ASSUME NEW k \in S PROVE k + 1 \in S
  <2>0. k \in Nat
    OBVIOUS
  <2>1. CASE k + 1 > Len(chunk)
    BY <2>0, <2>1
  <2>2. CASE k + 1 <= Len(chunk)
    <3>1. ~(k > Len(chunk)) /\ k + 1 \in 0..Len(chunk) /\ k + 1 \in 1..Len(chunk) /\ (k + 1) - 1 = k /\ k + 1 # 0
      BY <1>0, <2>0, <2>2
    <3>2. after[k] \in Vad /\ Remembers(after[k], all, Len(judged) + k)
      BY <3>1
    <3>3. after[k + 1] = Judge(after[k], chunk[k + 1])
      BY <1>3, <3>1
    <3>4. PICK v \in Vad : v = after[k]
      BY <3>2
    <3>5. PICK n \in Nat : n = Len(judged) + k
      BY <1>0, <2>0
    <3>6. Remembers(v, all, n)
      BY <3>2, <3>4, <3>5
    <3>7. all[n + 1] = chunk[k + 1] /\ chunk[k + 1] \in BOOLEAN
      <4>1. n + 1 = Len(judged) + (k + 1)
        BY <1>0, <2>0, <3>5
      <4> QED
        BY <1>4, <3>1, <4>1
    <3>8. Judge(v, chunk[k + 1]) \in Vad /\ Remembers(Judge(v, chunk[k + 1]), all, n + 1)
      <4>1. CASE chunk[k + 1] = TRUE
        <5>1. all[n + 1]
          BY <3>7, <4>1
        <5>2. Judge(v, TRUE) \in Vad /\ Remembers(Judge(v, TRUE), all, n + 1)
          BY <3>6, <5>1, JudgeIs, RemembersSpeech
        <5> QED
          BY <4>1, <5>2
      <4>2. CASE chunk[k + 1] = FALSE
        <5>1. ~all[n + 1]
          BY <3>7, <4>2
        <5>2. Judge(v, FALSE) \in Vad /\ Remembers(Judge(v, FALSE), all, n + 1)
          BY <3>6, <5>1, JudgeIs, RemembersSilence
        <5> QED
          BY <4>2, <5>2
      <4> QED
        BY <3>7, <4>1, <4>2
    <3>9. n + 1 = Len(judged) + (k + 1)
      BY <1>0, <2>0, <3>5
    <3>10. after[k + 1] \in Vad /\ Remembers(after[k + 1], all, Len(judged) + (k + 1))
      BY <3>3, <3>4, <3>8, <3>9
    <3> QED
      BY <2>0, <3>10
  <2> QED
    BY <1>0, <2>0, <2>1, <2>2
<1>7. S \in SUBSET Nat
  OBVIOUS
<1> HIDE DEF S
<1>8. S = Nat
  BY <1>5, <1>6, <1>7, NatInduct
<1>9. \A k \in 1..Len(chunk) : k \in Nat /\ ~(k > Len(chunk))
  BY <1>0
<1>10. \A k \in 1..Len(chunk) : after[k] \in Vad /\ Remembers(after[k], all, Len(judged) + k)
  BY <1>8, <1>9 DEF S
<1>11. DOMAIN chunk = 1..Len(chunk)
  OBVIOUS
<1>12. \A k \in 1..Len(chunk) : Judgements(chunk)[k] = after[k]
  BY <1>1, <1>11
<1>13. Judgements(chunk) \in Seq(Vad) /\ Len(Judgements(chunk)) = Len(chunk)
  <2> DEFINE vs == Judgements(chunk)
  <2>1. vs = [i \in 1..Len(chunk) |-> after[i]]
    BY <1>1, <1>11
  <2>2. \A i \in 1..Len(chunk) : after[i] \in Vad
    BY <1>10
  <2> HIDE DEF vs
  <2>3. vs \in Seq(Vad) /\ Len(vs) = Len(chunk)
    BY <1>0, <2>1, <2>2
  <2> QED
    BY <2>3 DEF vs
<1> QED
  BY <1>10, <1>12, <1>13 DEF all

-----------------------------------------------------------------------------
(* Utterances *)

SentChunk == [starts : BOOLEAN, ends : BOOLEAN]
MarksOf(s) == {i \in 1..Len(s) : s[i].starts \/ s[i].ends}

\* Starts and ends alternate.
Pairs(s) ==
    /\ \A i, k \in MarksOf(s) :
          i < k /\ (\A j \in MarksOf(s) : j <= i \/ k <= j) => (s[k].starts <=> s[i].ends)
    /\ \A k \in MarksOf(s) : (\A i \in MarksOf(s) : k <= i) => s[k].starts

\* The last start has no end.
LeftOpen(s) == \E k \in MarksOf(s) : ~s[k].ends /\ \A i \in MarksOf(s) : i <= k

LEMMA ChunkIs ==
    ASSUME NEW a \in BOOLEAN, NEW b \in BOOLEAN
    PROVE  LET c == [starts |-> a, ends |-> b] IN c \in SentChunk /\ c.starts = a /\ c.ends = b
  BY DEF SentChunk

\* One chunk more, without a mark or with a start.
LEMMA OneChunkMore ==
    ASSUME NEW s \in Seq(SentChunk), NEW c \in SentChunk, NEW u, u = Append(s, c)
    PROVE  /\ u \in Seq(SentChunk) /\ Len(s) \in Nat /\ Len(u) = Len(s) + 1 /\ u[Len(s) + 1] = c
           /\ \A i \in 1..Len(s) : u[i] = s[i]
           /\ c.starts \/ c.ends => MarksOf(u) = MarksOf(s) \cup {Len(s) + 1}
           /\ ~c.starts /\ ~c.ends => MarksOf(u) = MarksOf(s)
<1>1. /\ u \in Seq(SentChunk) /\ Len(s) \in Nat /\ Len(u) = Len(s) + 1 /\ u[Len(s) + 1] = c
      /\ \A i \in 1..Len(s) : u[i] = s[i]
  OBVIOUS
<1>2. \A i \in 1..Len(u) : i \in 1..Len(s) \/ i = Len(s) + 1
  BY <1>1
<1>3. \A i \in 1..Len(s) : i \in 1..Len(u)
  BY <1>1
<1>4. Len(s) + 1 \in 1..Len(u) /\ Len(s) + 1 \notin 1..Len(s)
  BY <1>1
<1>5. CASE c.starts \/ c.ends
  BY <1>1, <1>2, <1>3, <1>4, <1>5, Zenon DEF MarksOf
<1>6. CASE ~(c.starts \/ c.ends)
  BY <1>1, <1>2, <1>3, <1>4, <1>6, Zenon DEF MarksOf
<1> QED
  BY <1>1, <1>5, <1>6

LEMMA MarkedMore ==
    ASSUME NEW s \in Seq(SentChunk), NEW c \in SentChunk, c.starts \/ c.ends
    PROVE  MarksOf(Append(s, c)) = MarksOf(s) \cup {Len(s) + 1}
  BY OneChunkMore

LEMMA UnmarkedMore ==
    ASSUME NEW s \in Seq(SentChunk), NEW c \in SentChunk, ~c.starts, ~c.ends
    PROVE  MarksOf(Append(s, c)) = MarksOf(s)
  BY OneChunkMore

LEMMA PlainChunk ==
    ASSUME NEW s \in Seq(SentChunk), Pairs(s), NEW u, u = Append(s, [starts |-> FALSE, ends |-> FALSE])
    PROVE  u \in Seq(SentChunk) /\ Pairs(u) /\ (LeftOpen(u) <=> LeftOpen(s))
<1>1. PICK c \in SentChunk : c = [starts |-> FALSE, ends |-> FALSE] /\ ~c.starts /\ ~c.ends
  BY ChunkIs
<1>2. u = Append(s, c)
  BY <1>1
<1>3. u \in Seq(SentChunk) /\ \A i \in 1..Len(s) : u[i] = s[i]
  BY <1>2, OneChunkMore
<1>4. MarksOf(u) = MarksOf(s)
  BY <1>1, <1>2, UnmarkedMore
<1>5. \A i \in MarksOf(s) : u[i] = s[i]
  BY <1>3 DEF MarksOf
<1>6. Pairs(u)
  BY <1>4, <1>5, Zenon DEF Pairs
<1>7. LeftOpen(u) <=> LeftOpen(s)
  BY <1>4, <1>5, Zenon DEF LeftOpen
<1> QED
  BY <1>3, <1>6, <1>7

LEMMA FirstChunk ==
    ASSUME NEW s \in Seq(SentChunk), Pairs(s), ~LeftOpen(s), NEW u, u = Append(s, [starts |-> TRUE, ends |-> FALSE])
    PROVE  u \in Seq(SentChunk) /\ Pairs(u) /\ LeftOpen(u)
<1>1. PICK c \in SentChunk : c = [starts |-> TRUE, ends |-> FALSE] /\ c.starts /\ ~c.ends
  BY ChunkIs
<1>2. u = Append(s, c)
  BY <1>1
<1>3. PICK n \in Nat : n = Len(s)
  OBVIOUS
<1>4. u \in Seq(SentChunk) /\ u[n + 1] = c /\ \A i \in 1..n : u[i] = s[i]
  BY <1>2, <1>3, OneChunkMore
<1>5. MarksOf(u) = MarksOf(s) \cup {n + 1}
  BY <1>1, <1>2, <1>3, MarkedMore
<1>6. MarksOf(s) \subseteq 1..n /\ \A i \in MarksOf(s) : u[i] = s[i] /\ i < n + 1
  BY <1>3, <1>4 DEF MarksOf
<1>7. ASSUME NEW i \in MarksOf(u), NEW k \in MarksOf(u), i < k, \A j \in MarksOf(u) : j <= i \/ k <= j
      PROVE  u[k].starts <=> u[i].ends
  <2>1. i \in MarksOf(s)
    BY <1>3, <1>5, <1>6, <1>7
  <2>2. CASE k \in MarksOf(s)
    <3>1. \A j \in MarksOf(s) : j <= i \/ k <= j
      BY <1>5, <1>7
    <3>2. s[k].starts <=> s[i].ends
      BY <1>7, <2>1, <2>2, <3>1 DEF Pairs
    <3> QED
      BY <1>6, <2>1, <2>2, <3>2
  <2>3. CASE k = n + 1
    <3>1. \A j \in MarksOf(s) : j <= i
      <4> SUFFICES ASSUME NEW j \in MarksOf(s) PROVE j <= i
        OBVIOUS
      <4>1. j <= i \/ k <= j
        BY <1>5, <1>7
      <4> QED
        BY <1>6, <2>3, <4>1
    <3>2. s[i].ends
      BY <2>1, <3>1 DEF LeftOpen
    <3> QED
      BY <1>1, <1>4, <1>6, <2>1, <2>3, <3>2
  <2> QED
    BY <1>5, <2>2, <2>3
<1>8. ASSUME NEW k \in MarksOf(u), \A i \in MarksOf(u) : k <= i PROVE u[k].starts
  <2>1. CASE k \in MarksOf(s)
    <3>1. \A i \in MarksOf(s) : k <= i
      BY <1>5, <1>8
    <3> QED
      BY <1>6, <2>1, <3>1 DEF Pairs
  <2>2. CASE k = n + 1
    BY <1>1, <1>4, <2>2
  <2> QED
    BY <1>5, <2>1, <2>2
<1>9. Pairs(u)
  BY <1>7, <1>8 DEF Pairs
<1>10. LeftOpen(u)
  <2>1. n + 1 \in MarksOf(u) /\ ~u[n + 1].ends
    BY <1>1, <1>4, <1>5
  <2>2. \A i \in MarksOf(u) : i <= n + 1
    BY <1>3, <1>5, <1>6
  <2> QED
    BY <2>1, <2>2 DEF LeftOpen
<1> QED
  BY <1>4, <1>9, <1>10

\* The end of an utterance, on the chunk that was sent last.
EndMarked(s) == [i \in 1..Len(s) |-> IF i = Len(s) THEN [s[i] EXCEPT !.ends = TRUE] ELSE s[i]]

LEMMA LastChunk ==
    ASSUME NEW s \in Seq(SentChunk), Pairs(s), LeftOpen(s), NEW u, u = EndMarked(s)
    PROVE  u \in Seq(SentChunk) /\ Len(u) = Len(s) /\ Pairs(u) /\ ~LeftOpen(u)
<1>1. PICK n \in Nat : n = Len(s)
  OBVIOUS
<1>2. PICK last \in MarksOf(s) : ~s[last].ends /\ \A i \in MarksOf(s) : i <= last
  BY DEF LeftOpen
<1>3. MarksOf(s) \subseteq 1..n /\ last \in 1..n /\ n \in 1..n
  <2>1. MarksOf(s) \subseteq 1..n
    BY <1>1 DEF MarksOf
  <2>2. last \in 1..n
    BY <1>2, <2>1
  <2> QED
    BY <2>1, <2>2
<1>4. \A i \in 1..n : s[i] \in SentChunk
  BY <1>1
<1>5. PICK e : e = [s[n] EXCEPT !.ends = TRUE]
  OBVIOUS
<1>6. e \in SentChunk /\ e.ends /\ e.starts = s[n].starts
  <2>1. s[n] \in SentChunk
    BY <1>3, <1>4
  <2> QED
    BY <1>5, <2>1 DEF SentChunk
<1>7. u = [i \in 1..n |-> IF i = n THEN e ELSE s[i]]
  BY <1>1, <1>5 DEF EndMarked
<1>8. u[n] = e /\ \A i \in 1..n : i # n => u[i] = s[i]
  BY <1>3, <1>7
<1>9. u \in Seq(SentChunk) /\ Len(u) = n
  <2>1. \A i \in 1..n : (IF i = n THEN e ELSE s[i]) \in SentChunk
    BY <1>4, <1>6
  <2> QED
    BY <1>7, <2>1
<1>10. MarksOf(u) = MarksOf(s) \cup {n}
  <2>1. \A i \in 1..n : i # n => (i \in MarksOf(u) <=> i \in MarksOf(s))
    BY <1>1, <1>8, <1>9 DEF MarksOf
  <2>2. n \in MarksOf(u)
    BY <1>3, <1>6, <1>8, <1>9 DEF MarksOf
  <2>3. MarksOf(u) \subseteq 1..n
    BY <1>9 DEF MarksOf
  <2> QED
    BY <1>3, <2>1, <2>2, <2>3
<1>11. \A i \in 1..n : u[i].starts = s[i].starts
  BY <1>6, <1>8
<1>12. ASSUME NEW i \in MarksOf(u), NEW k \in MarksOf(u), i < k, \A j \in MarksOf(u) : j <= i \/ k <= j
       PROVE  u[k].starts <=> u[i].ends
  <2>1. i \in 1..n /\ k \in 1..n /\ i # n
    <3>1. i \in 1..n /\ k \in 1..n
      BY <1>3, <1>10
    <3> QED
      BY <1>12, <3>1
  <2>2. i \in MarksOf(s) /\ u[i] = s[i]
    BY <1>8, <1>10, <2>1
  <2>3. CASE k \in MarksOf(s)
    <3>1. \A j \in MarksOf(s) : j <= i \/ k <= j
      BY <1>10, <1>12
    <3>2. s[k].starts <=> s[i].ends
      BY <1>12, <2>2, <2>3, <3>1 DEF Pairs
    <3> QED
      BY <1>11, <2>1, <2>2, <3>2
  <2>4. CASE k \notin MarksOf(s)
    <3>1. k = n
      BY <1>10, <2>4
    <3>2. ~s[n].starts
      BY <1>1, <1>3, <2>4, <3>1 DEF MarksOf
    <3>3. last # n /\ last \in MarksOf(u)
      BY <1>2, <1>10, <2>4, <3>1
    <3>4. last <= i \/ k <= last
      BY <1>12, <3>3
    <3>5. i <= last
      BY <1>2, <2>2
    <3>6. i = last
      BY <1>3, <2>1, <3>1, <3>3, <3>4, <3>5
    <3> QED
      BY <1>2, <1>11, <2>1, <2>2, <3>1, <3>2, <3>6
  <2> QED
    BY <2>3, <2>4
<1>13. ASSUME NEW k \in MarksOf(u), \A i \in MarksOf(u) : k <= i PROVE u[k].starts
  <2>1. k \in MarksOf(s)
    <3>1. SUFFICES ASSUME k \notin MarksOf(s) PROVE FALSE
      OBVIOUS
    <3>2. k = n /\ last # n /\ k <= last
      BY <1>2, <1>10, <1>13, <3>1
    <3> QED
      BY <1>3, <3>2
  <2>2. \A i \in MarksOf(s) : k <= i
    BY <1>10, <1>13
  <2>3. s[k].starts
    BY <2>1, <2>2 DEF Pairs
  <2> QED
    BY <1>3, <1>11, <2>1, <2>3
<1>14. Pairs(u)
  BY <1>12, <1>13 DEF Pairs
<1>15. ~LeftOpen(u)
  <2>1. SUFFICES ASSUME NEW k \in MarksOf(u), ~u[k].ends, \A i \in MarksOf(u) : i <= k PROVE FALSE
    BY DEF LeftOpen
  <2>2. n <= k /\ k \in 1..n
    BY <1>3, <1>10, <2>1
  <2>3. k = n
    BY <2>2
  <2> QED
    BY <1>6, <1>8, <2>1, <2>3
<1> QED
  BY <1>1, <1>9, <1>14, <1>15

-----------------------------------------------------------------------------
(* Voice activity: the chunks and the utterances in them *)

LastOf(s) == IF s = <<>> THEN {} ELSE {Len(s)}

LEMMA FrameMore ==
    ASSUME NEW S, NEW s \in Seq(S), NEW e \in S
    PROVE  Append(s, e) \in Seq(S) /\ Append(s, e) # <<>> /\ Len(Append(s, e)) = Len(s) + 1
<1>1. PICK u \in Seq(S) : u = Append(s, e) /\ Len(u) = Len(s) + 1
  BY AppendParts
<1>2. Len(s) \in Nat
  OBVIOUS
<1>3. u # <<>>
  BY <1>1, <1>2
<1> QED
  BY <1>1, <1>3

\* What processChunk() leaves to be said of the chunks that were sent.
LEMMA ProcessedIs ==
    ASSUME NEW chunk \in Seq(BOOLEAN), chunk # <<>>,
           Judgements(chunk) \in Seq(Vad), Len(Judgements(chunk)) = Len(chunk),
           emitSilence \in BOOLEAN, inUtterance \in BOOLEAN, sent \in Seq(SentChunk), lastEmitted = LastOf(sent),
           Pairs(sent), inUtterance <=> LeftOpen(sent)
    PROVE  /\ Processed(chunk).vad = Judgements(chunk)[Len(chunk)]
           /\ Processed(chunk).open \in BOOLEAN
           /\ Processed(chunk).sent \in Seq(SentChunk)
           /\ Processed(chunk).last = LastOf(Processed(chunk).sent)
           /\ Pairs(Processed(chunk).sent)
           /\ Processed(chunk).open <=> LeftOpen(Processed(chunk).sent)
           /\ Processed(chunk).open => \E k \in 1..Len(chunk) : Judgements(chunk)[k].active
<1>1. PICK vs \in Seq(Vad) : vs = Judgements(chunk) /\ Len(vs) = Len(chunk)
  OBVIOUS
<1>2. Len(chunk) \in Nat \ {0} /\ Len(chunk) \in 1..Len(chunk) /\ DOMAIN vs = 1..Len(chunk)
  BY <1>1
<1>3. \A k \in 1..Len(chunk) : vs[k] \in Vad /\ vs[k].active \in BOOLEAN
  <2> SUFFICES ASSUME NEW k \in 1..Len(chunk) PROVE vs[k] \in Vad /\ vs[k].active \in BOOLEAN
    OBVIOUS
  <2>1. vs[k] \in Vad
    BY <1>1, <1>2
  <2> QED
    BY <2>1 DEF Vad
<1>4. PICK active \in BOOLEAN : active <=> Voiced(vs)
  BY DEF Voiced
<1>5. PICK v \in Vad : v = Last(vs) /\ v = vs[Len(chunk)]
  BY <1>1, <1>2, <1>3 DEF Last
<1>6. PICK open \in BOOLEAN : open <=> inUtterance \/ active
  OBVIOUS
<1>7. PICK over \in BOOLEAN : over <=> open /\ ~active /\ ~v.active
  OBVIOUS
<1>8. active = Voiced(vs) /\ open = (inUtterance \/ active) /\ over = Closes(open, active, v)
  BY <1>4, <1>6, <1>7 DEF Voiced, Closes
<1>9. PICK all : all = IF Sends(active) THEN Append(sent, [starts |-> Opens(active), ends |-> FALSE]) ELSE sent
  OBVIOUS
<1>10. PICK last : last = IF Sends(active) THEN {Len(all)} ELSE lastEmitted
  OBVIOUS
<1>11. PICK marked : marked = [i \in DOMAIN all |-> IF over /\ i \in last THEN [all[i] EXCEPT !.ends = TRUE] ELSE all[i]]
  OBVIOUS
<1>12. Processed(chunk) = [vad |-> v, open |-> open /\ ~over, last |-> last, sent |-> marked]
  BY <1>1, <1>5, <1>8, <1>9, <1>10, <1>11, Zenon DEF Processed
<1>13. /\ Processed(chunk).vad = v /\ Processed(chunk).open = (open /\ ~over)
       /\ Processed(chunk).last = last /\ Processed(chunk).sent = marked
  BY <1>12
<1>14. all \in Seq(SentChunk) /\ Pairs(all) /\ (open <=> LeftOpen(all)) /\ last = LastOf(all)
  <2>1. CASE Sends(active) /\ active /\ ~inUtterance
    <3>1. Opens(active) = TRUE
      BY <2>1 DEF Opens
    <3>2. all = Append(sent, [starts |-> TRUE, ends |-> FALSE]) /\ last = {Len(all)}
      BY <1>9, <1>10, <2>1, <3>1
    <3>3. all \in Seq(SentChunk) /\ Pairs(all) /\ LeftOpen(all)
      BY <2>1, <3>2, FirstChunk
    <3>4. all # <<>>
      BY <3>3 DEF LeftOpen, MarksOf
    <3> QED
      BY <1>6, <2>1, <3>2, <3>3, <3>4 DEF LastOf
  <2>2. CASE Sends(active) /\ ~(active /\ ~inUtterance)
    <3>1. Opens(active) = FALSE
      BY <2>2 DEF Opens
    <3>2. all = Append(sent, [starts |-> FALSE, ends |-> FALSE]) /\ last = {Len(all)}
      BY <1>9, <1>10, <2>2, <3>1
    <3>3. all \in Seq(SentChunk) /\ Pairs(all) /\ (LeftOpen(all) <=> LeftOpen(sent))
      BY <3>2, PlainChunk
    <3>4. all # <<>>
      <4>1. [starts |-> FALSE, ends |-> FALSE] \in SentChunk
        BY DEF SentChunk
      <4> QED
        BY <3>2, <4>1, FrameMore
    <3> QED
      BY <1>6, <2>2, <3>2, <3>3, <3>4 DEF LastOf
  <2>3. CASE ~Sends(active)
    <3>1. all = sent /\ last = LastOf(sent) /\ ~active
      BY <1>9, <1>10, <2>3 DEF Sends
    <3> QED
      BY <1>6, <3>1
  <2> QED
    BY <2>1, <2>2, <2>3
<1>15. marked \in Seq(SentChunk) /\ last = LastOf(marked) /\ Pairs(marked) /\ ((open /\ ~over) <=> LeftOpen(marked))
  <2>1. CASE over
    <3>1. LeftOpen(all)
      BY <1>7, <1>14, <2>1
    <3>2. all # <<>> /\ last = {Len(all)} /\ DOMAIN all = 1..Len(all)
      BY <1>14, <3>1 DEF LeftOpen, MarksOf, LastOf
    <3>3. marked = EndMarked(all)
      BY <1>11, <2>1, <3>2 DEF EndMarked
    <3>4. marked \in Seq(SentChunk) /\ Len(marked) = Len(all) /\ Pairs(marked) /\ ~LeftOpen(marked)
      BY <1>14, <3>1, <3>3, LastChunk
    <3>5. marked # <<>>
      BY <1>14, <3>2, <3>4
    <3> QED
      BY <2>1, <3>2, <3>4, <3>5 DEF LastOf
  <2>2. CASE ~over
    <3>1. marked = all
      BY <1>11, <1>14, <2>2
    <3> QED
      BY <1>14, <2>2, <3>1
  <2> QED
    BY <2>1, <2>2
<1>16. ASSUME open, ~over PROVE \E k \in 1..Len(chunk) : Judgements(chunk)[k].active
  <2>1. CASE active
    BY <1>1, <1>2, <1>4, <2>1 DEF Voiced
  <2>2. CASE v.active
    BY <1>1, <1>2, <1>5, <2>2
  <2> QED
    BY <1>7, <1>16, <2>1, <2>2
<1> QED
  <2>1. Processed(chunk).vad = Judgements(chunk)[Len(chunk)]
    BY <1>1, <1>5, <1>13
  <2>2. Processed(chunk).open \in BOOLEAN /\ (Processed(chunk).open => \E k \in 1..Len(chunk) : Judgements(chunk)[k].active)
    BY <1>13, <1>16
  <2>3. /\ Processed(chunk).sent \in Seq(SentChunk) /\ Processed(chunk).last = LastOf(Processed(chunk).sent)
        /\ Pairs(Processed(chunk).sent) /\ (Processed(chunk).open <=> LeftOpen(Processed(chunk).sent))
    BY <1>13, <1>15
  <2> QED
    BY <2>1, <2>2, <2>3

VoiceTypes ==
    /\ emitSilence \in BOOLEAN /\ vad \in Vad /\ inUtterance \in BOOLEAN /\ ended \in BOOLEAN
    /\ pending \in Seq(BOOLEAN) /\ Len(pending) < FramesPerChunk
    /\ judged \in Seq(BOOLEAN) /\ sent \in Seq(SentChunk) /\ lastEmitted = LastOf(sent)

\* Lately means: after one of the last FramesPerChunk frames.
OnLately == \E n \in (Len(judged) - FramesPerChunk + 1)..Len(judged) : SpeechIn(judged, n)

VoiceInv ==
    /\ VoiceTypes
    /\ ~ended => Remembers(vad, judged, Len(judged))
    /\ Pairs(sent)
    /\ ~ended => (inUtterance <=> LeftOpen(sent))
    /\ inUtterance => OnLately
    /\ ended => ~inUtterance

\* Before the first frame there is nothing to remember.
LEMMA QuietRemembers == Quiet \in Vad /\ Remembers(Quiet, <<>>, 0)
<1> USE FramesAssumption
<1>1. Quiet \in Vad /\ Quiet.speechRuns = 0 /\ Quiet.active = FALSE
  BY DEF Quiet, Vad
<1>2. ~SpeechIn(<<>>, 0)
  BY DEF SpeechIn
<1> QED
  BY <1>1, <1>2 DEF Remembers

LEMMA NothingSent == <<>> \in Seq(SentChunk) /\ Pairs(<<>>) /\ ~LeftOpen(<<>>) /\ LastOf(<<>>) = {} /\ Len(<<>>) = 0
<1>1. MarksOf(<<>>) = {} /\ Len(<<>>) = 0
  BY DEF MarksOf
<1> QED
  BY <1>1 DEF Pairs, LeftOpen, LastOf

LEMMA NothingPending == <<>> \in Seq(BOOLEAN) /\ Len(<<>>) < FramesPerChunk
  BY FramesAssumption

LEMMA VoiceStarts == VoiceInit => VoiceInv
<1> SUFFICES ASSUME VoiceInit PROVE VoiceInv
  OBVIOUS
<1> USE FramesAssumption
<1>1. /\ emitSilence \in BOOLEAN /\ vad = Quiet /\ pending = <<>> /\ inUtterance = FALSE /\ lastEmitted = {}
      /\ ended = FALSE /\ judged = <<>> /\ sent = <<>>
  BY DEF VoiceInit
<1>2. VoiceTypes
  BY <1>1, QuietRemembers, NothingSent, NothingPending DEF VoiceTypes
<1>3. Remembers(vad, judged, Len(judged))
  BY <1>1, QuietRemembers, NothingSent
<1>4. Pairs(sent) /\ ~LeftOpen(sent)
  BY <1>1, NothingSent
<1> QED
  BY <1>1, <1>2, <1>3, <1>4 DEF VoiceInv

\* A chunk, whole or the last one, is processed.
LEMMA ChunkKeeps ==
    ASSUME VoiceInv, ~ended, NEW chunk \in Seq(BOOLEAN), chunk # <<>>, Len(chunk) <= FramesPerChunk
    PROVE  /\ Processed(chunk).vad \in Vad /\ Processed(chunk).open \in BOOLEAN
           /\ Processed(chunk).sent \in Seq(SentChunk) /\ Processed(chunk).last = LastOf(Processed(chunk).sent)
           /\ judged \o chunk \in Seq(BOOLEAN)
           /\ Remembers(Processed(chunk).vad, judged \o chunk, Len(judged \o chunk))
           /\ Pairs(Processed(chunk).sent)
           /\ Processed(chunk).open <=> LeftOpen(Processed(chunk).sent)
           /\ Processed(chunk).open =>
                \E n \in (Len(judged \o chunk) - FramesPerChunk + 1)..Len(judged \o chunk) : SpeechIn(judged \o chunk, n)
<1> USE FramesAssumption
<1>1. /\ emitSilence \in BOOLEAN /\ inUtterance \in BOOLEAN /\ sent \in Seq(SentChunk) /\ lastEmitted = LastOf(sent)
      /\ Pairs(sent) /\ (inUtterance <=> LeftOpen(sent))
      /\ vad \in Vad /\ judged \in Seq(BOOLEAN) /\ Remembers(vad, judged, Len(judged))
  BY DEF VoiceInv, VoiceTypes
<1>2. Judgements(chunk) \in Seq(Vad) /\ Len(Judgements(chunk)) = Len(chunk)
  BY <1>1, JudgementsRemember
<1>3. \A k \in 1..Len(chunk) :
          Judgements(chunk)[k] \in Vad /\ Remembers(Judgements(chunk)[k], judged \o chunk, Len(judged) + k)
  BY <1>1, JudgementsRemember
<1>4. judged \o chunk \in Seq(BOOLEAN) /\ Len(judged \o chunk) = Len(judged) + Len(chunk) /\ Len(judged) \in Nat
      /\ Len(chunk) \in Nat
  BY <1>1, Concatenated
<1>5. Len(chunk) \in 1..Len(chunk)
  BY <1>4
<1>6. Processed(chunk).vad = Judgements(chunk)[Len(chunk)]
  BY <1>1, <1>2, ProcessedIs
<1>7. Processed(chunk).open \in BOOLEAN /\ Processed(chunk).sent \in Seq(SentChunk)
      /\ Processed(chunk).last = LastOf(Processed(chunk).sent)
  BY <1>1, <1>2, ProcessedIs
<1>8. Pairs(Processed(chunk).sent) /\ (Processed(chunk).open <=> LeftOpen(Processed(chunk).sent))
  BY <1>1, <1>2, ProcessedIs
<1>9. Processed(chunk).open => \E k \in 1..Len(chunk) : Judgements(chunk)[k].active
  BY <1>1, <1>2, ProcessedIs
<1>10. ASSUME Processed(chunk).open
       PROVE  \E n \in (Len(judged \o chunk) - FramesPerChunk + 1)..Len(judged \o chunk) : SpeechIn(judged \o chunk, n)
  <2>1. PICK k \in 1..Len(chunk) : Judgements(chunk)[k].active
    BY <1>9, <1>10
  <2>2. Remembers(Judgements(chunk)[k], judged \o chunk, Len(judged) + k)
    BY <1>3
  <2>3. SpeechIn(judged \o chunk, Len(judged) + k)
    BY <2>1, <2>2 DEF Remembers
  <2>4. Len(judged) + k \in (Len(judged \o chunk) - FramesPerChunk + 1)..Len(judged \o chunk)
    BY <1>4
  <2> QED
    BY <2>3, <2>4
<1>11. Processed(chunk).vad \in Vad /\ Remembers(Processed(chunk).vad, judged \o chunk, Len(judged \o chunk))
  BY <1>3, <1>4, <1>5, <1>6
<1> QED
  BY <1>4, <1>7, <1>8, <1>10, <1>11

LEMMA DrainKeeps == ASSUME VoiceInv, ~ended, NEW speech \in BOOLEAN, DrainFrame(speech) PROVE VoiceInv'
<1> USE FramesAssumption
<1>1. ~ended /\ ended' = ended /\ emitSilence' = emitSilence
  BY DEF DrainFrame
<1>2. VoiceTypes
  BY DEF VoiceInv
<1>3. PICK chunk \in Seq(BOOLEAN) : chunk = Append(pending, speech) /\ chunk # <<>> /\ Len(chunk) = Len(pending) + 1
  <2>1. pending \in Seq(BOOLEAN)
    BY <1>2 DEF VoiceTypes
  <2> QED
    BY <2>1, FrameMore
<1>4. CASE Len(pending) + 1 < FramesPerChunk
  <2>1. pending' = chunk /\ UNCHANGED <<vad, inUtterance, lastEmitted, sent, judged>>
    BY <1>3, <1>4 DEF DrainFrame
  <2>2. VoiceTypes'
    BY <1>1, <1>2, <1>3, <1>4, <2>1 DEF VoiceTypes
  <2>3. (~ended => Remembers(vad, judged, Len(judged)))'
    BY <1>1, <2>1 DEF VoiceInv, Remembers, SpeechIn
  <2>4. /\ Pairs(sent)'
        /\ (~ended => (inUtterance <=> LeftOpen(sent)))'
        /\ (inUtterance => OnLately)'
        /\ (ended => ~inUtterance)'
    BY <1>1, <2>1, Zenon DEF VoiceInv, OnLately, SpeechIn, Pairs, LeftOpen, MarksOf
  <2> QED
    BY <2>2, <2>3, <2>4 DEF VoiceInv
<1>5. CASE Len(pending) + 1 >= FramesPerChunk
  <2>1. Len(chunk) <= FramesPerChunk
    BY <1>2, <1>3 DEF VoiceTypes
  <2>2. PICK done : done = Processed(chunk)
    OBVIOUS
  <2>3. PICK all : all = judged \o chunk
    OBVIOUS
  <2>4. /\ pending' = <<>> /\ vad' = done.vad /\ inUtterance' = done.open /\ lastEmitted' = done.last
        /\ sent' = done.sent /\ judged' = all
    <3>1. ~(Len(pending) + 1 < FramesPerChunk)
      BY <1>2, <1>5 DEF VoiceTypes
    <3> QED
      BY <1>3, <2>2, <2>3, <3>1 DEF DrainFrame, ProcessChunk
  <2>5. /\ done.vad \in Vad /\ done.open \in BOOLEAN
        /\ done.sent \in Seq(SentChunk) /\ done.last = LastOf(done.sent) /\ all \in Seq(BOOLEAN)
    BY <1>1, <1>3, <2>1, <2>2, <2>3, ChunkKeeps
  <2>6. Remembers(done.vad, all, Len(all)) /\ Pairs(done.sent) /\ (done.open <=> LeftOpen(done.sent))
    BY <1>1, <1>3, <2>1, <2>2, <2>3, ChunkKeeps
  <2>7. done.open => \E n \in (Len(all) - FramesPerChunk + 1)..Len(all) : SpeechIn(all, n)
    BY <1>1, <1>3, <2>1, <2>2, <2>3, ChunkKeeps
  <2>8. VoiceTypes'
    BY <1>1, <1>2, <2>4, <2>5 DEF VoiceTypes, LastOf
  <2>9. (~ended => Remembers(vad, judged, Len(judged)))'
    BY <2>4, <2>6 DEF Remembers, SpeechIn
  <2>10. Pairs(sent)' /\ (inUtterance <=> LeftOpen(sent))'
    BY <2>4, <2>6 DEF Pairs, LeftOpen, MarksOf
  <2>11. (inUtterance => OnLately)'
    BY <2>4, <2>7 DEF OnLately, SpeechIn
  <2> QED
    BY <1>1, <2>8, <2>9, <2>10, <2>11 DEF VoiceInv
<1> QED
  BY <1>2, <1>4, <1>5 DEF VoiceTypes

LEMMA FormatKeeps == ASSUME VoiceInv, NEW f \in PcmFormats, ReportFormat(f) PROVE VoiceInv'
<1> USE FramesAssumption
<1>1. /\ ended' = ended /\ emitSilence' = emitSilence
      /\ vad' = Quiet /\ pending' = <<>> /\ inUtterance' = FALSE /\ lastEmitted' = {}
      /\ judged' = <<>> /\ sent' = <<>>
  BY DEF ReportFormat
<1>2. emitSilence \in BOOLEAN /\ ended \in BOOLEAN
  BY DEF VoiceInv, VoiceTypes
<1>3. VoiceTypes'
  BY <1>1, <1>2, QuietRemembers, NothingSent, NothingPending DEF VoiceTypes, LastOf
<1>4. Remembers(vad, judged, Len(judged))'
  <2>1. Remembers(Quiet, <<>>, Len(<<>>))
    BY QuietRemembers, NothingSent
  <2> QED
    BY <1>1, <2>1 DEF Remembers, SpeechIn
<1>5. Pairs(sent)' /\ ~LeftOpen(sent)'
  BY <1>1, NothingSent DEF Pairs, LeftOpen, MarksOf
<1> QED
  BY <1>1, <1>3, <1>4, <1>5 DEF VoiceInv

\* At most one short frame comes after the whole ones, and they were fewer than a chunk's.
LEMMA RestChunkFits ==
    ASSUME pending \in Seq(BOOLEAN), NEW speech \in BOOLEAN
    PROVE  /\ RestChunk(speech) \in Seq(BOOLEAN)
           /\ Len(RestChunk(speech)) \in Len(pending)..(Len(pending) + 1)
<1>0. PICK rest : rest = IF unframed = 0 THEN <<>> ELSE <<speech>>
  OBVIOUS
<1>1. rest \in Seq(BOOLEAN) /\ Len(rest) \in 0..1
  <2>1. <<>> \in Seq(BOOLEAN) /\ Len(<<>>) = 0
    OBVIOUS
  <2>2. <<speech>> \in Seq(BOOLEAN) /\ Len(<<speech>>) = 1
    OBVIOUS
  <2>3. CASE unframed = 0
    <3>1. rest = <<>>
      BY <1>0, <2>3
    <3> QED
      BY <2>1, <3>1
  <2>4. CASE unframed # 0
    <3>1. rest = <<speech>>
      BY <1>0, <2>4
    <3> QED
      BY <2>2, <3>1
  <2> QED
    BY <2>3, <2>4
<1>2. pending \o rest \in Seq(BOOLEAN) /\ Len(pending \o rest) = Len(pending) + Len(rest)
  BY <1>1, Concatenated
<1>3. RestChunk(speech) = pending \o rest
  BY <1>0 DEF RestChunk
<1> QED
  <2>1. Len(pending) \in Nat
    OBVIOUS
  <2> QED
    BY <1>1, <1>2, <1>3, <2>1

LEMMA EndKeeps == ASSUME VoiceInv, NEW speech \in BOOLEAN, EndStream(speech) PROVE VoiceInv'
<1> USE FramesAssumption
<1>1. ~ended /\ ended' = TRUE /\ emitSilence' = emitSilence /\ pending' = <<>> /\ vad' = Quiet /\ inUtterance' = FALSE
  BY DEF EndStream
<1>2. VoiceTypes
  BY DEF VoiceInv
<1>3. CASE RestChunk(speech) # <<>>
  <2> DEFINE chunk == RestChunk(speech)
  <2>1. PICK done : done = Processed(chunk)
    OBVIOUS
  <2>2. PICK all : all = judged \o chunk
    OBVIOUS
  <2>3. sent' = done.sent /\ lastEmitted' = done.last /\ judged' = all
    BY <1>3, <2>1, <2>2 DEF EndStream
  <2>4. chunk \in Seq(BOOLEAN) /\ Len(chunk) <= FramesPerChunk
    BY <1>2, RestChunkFits DEF VoiceTypes
  <2>0. chunk # <<>>
    BY <1>3
  <2> HIDE DEF chunk
  <2>5. done.sent \in Seq(SentChunk) /\ done.last = LastOf(done.sent) /\ all \in Seq(BOOLEAN)
    BY <1>1, <2>0, <2>1, <2>2, <2>4, ChunkKeeps
  <2>6. Pairs(done.sent)
    BY <1>1, <2>0, <2>1, <2>4, ChunkKeeps
  <2>7. VoiceTypes'
    BY <1>1, <1>2, <2>3, <2>5, QuietRemembers, NothingSent, NothingPending DEF VoiceTypes, LastOf
  <2>8. Pairs(sent)'
    BY <2>3, <2>6 DEF Pairs, MarksOf
  <2> QED
    BY <1>1, <2>7, <2>8 DEF VoiceInv
<1>4. CASE RestChunk(speech) = <<>>
  <2>1. sent' = sent /\ lastEmitted' = lastEmitted /\ judged' = judged
    BY <1>4 DEF EndStream
  <2>2. VoiceTypes'
    BY <1>1, <1>2, <2>1, QuietRemembers, NothingSent, NothingPending DEF VoiceTypes, LastOf
  <2>3. Pairs(sent)'
    BY <2>1 DEF VoiceInv, Pairs, MarksOf
  <2> QED
    BY <1>1, <2>2, <2>3 DEF VoiceInv
<1> QED
  BY <1>3, <1>4

\* The counts of a pipeline: what normalize() made of the bytes, and where it went.
SamplesInv ==
    /\ inputFormat \in PcmFormats /\ bytesIn \in Nat /\ buffers \in Nat
    /\ normalized \in Nat /\ unframed \in Nat
    /\ CutsCostLittle /\ NoSampleIsLost
    /\ ended => unframed = 0

LEMMA FormatsAre ==
    ASSUME NEW f \in PcmFormats
    PROVE  f.width \in Nat \ {0} /\ f.rate \in Nat \ {0} /\ TargetRate \in Nat \ {0}
  BY SamplesAssumption

LEMMA Quotients ==
    ASSUME NEW a \in Int, NEW b \in Nat \ {0}, NEW q, q = a \div b
    PROVE  \E rest \in 0..(b - 1) : q \in Int /\ a = q * b + rest
<1>1. a % b \in 0..(b - 1) /\ a \div b \in Int /\ a = (a \div b) * b + (a % b)
  BY Divided
<1> QED
  BY <1>1

\* What one buffer costs.
LEMMA BufferCosts ==
    ASSUME NEW w \in Nat \ {0}, NEW r \in Nat \ {0}, NEW t \in Nat \ {0}, NEW len \in Nat,
           NEW n, n = len \div w, NEW out, out = (2 * n * t + r) \div (2 * r)
    PROVE  /\ out \in Nat
           /\ 2 * w * r * out <= 2 * t * len + w * r
           /\ 2 * w * r * out + (2 * t * (w - 1) + w * r) >= 2 * t * len
<1>1. n \in Int /\ n * w <= len /\ len <= n * w + (w - 1)
  <2>1. PICK rest \in 0..(w - 1) : n \in Int /\ len = n * w + rest
    <3>1. PICK a \in Int : a = len
      OBVIOUS
    <3>2. n = a \div w
      BY <3>1
    <3>3. \E rest \in 0..(w - 1) : n \in Int /\ a = n * w + rest
      BY <3>2, Quotients, Zenon
    <3> QED
      BY <3>1, <3>3, Zenon
  <2>2. PICK q \in Int : q = n * w
    BY <2>1
  <2>3. len = q + rest
    BY <2>1, <2>2
  <2>4. q <= len /\ len <= q + (w - 1)
    BY <2>3
  <2> QED
    BY <2>1, <2>2, <2>4
<1>2. n \in Nat
  <2>1. SUFFICES ASSUME n + 1 <= 0 PROVE FALSE
    BY <1>1
  <2>2. (n + 1) * w <= 0 * w /\ (n + 1) * w = n * w + w
    BY <1>1, <2>1, MulGrows
  <2> QED
    BY <1>1, <2>2
<1>3. PICK p \in Nat : p = n * t
  BY <1>2
<1>4. 2 * n * t + r = 2 * p + r /\ 2 * p + r \in Nat /\ 2 * r \in Nat \ {0}
  BY <1>2, <1>3
<1>5. /\ out \in Int /\ out * (2 * r) <= 2 * p + r /\ 2 * p + r <= out * (2 * r) + (2 * r - 1)
  <2>1. PICK a \in Nat : a = 2 * p + r
    BY <1>4
  <2>2. PICK b \in Nat \ {0} : b = 2 * r
    BY <1>4
  <2>3. out = a \div b
    BY <1>4, <2>1, <2>2
  <2>4. PICK rest \in 0..(b - 1) : out \in Int /\ a = out * b + rest
    <3>1. a \in Int
      OBVIOUS
    <3> QED
      BY <2>3, <3>1, Quotients, Zenon
  <2>5. PICK q \in Int : q = out * b
    BY <2>4
  <2>6. q <= a /\ a <= q + (b - 1)
    BY <2>4, <2>5
  <2>7. q = out * (2 * r)
    BY <2>2, <2>5
  <2> QED
    BY <2>1, <2>2, <2>4, <2>6, <2>7
<1>6. out \in Nat
  <2>1. SUFFICES ASSUME out + 1 <= 0 PROVE FALSE
    BY <1>5
  <2>2. (out + 1) * (2 * r) <= 0 * (2 * r) /\ (out + 1) * (2 * r) = out * (2 * r) + 2 * r
    BY <1>4, <1>5, <2>1, MulGrows
  <2> QED
    BY <1>4, <1>5, <2>2
<1>7. PICK o \in Nat : o = out * r
  BY <1>6
<1>8. out * (2 * r) = 2 * o /\ 2 * w * r * out = 2 * (o * w) /\ o * w \in Nat /\ w * r = r * w /\ r * w \in Nat
  BY <1>6, <1>7
<1>9. PICK q \in Nat : q = n * w
  BY <1>2
<1>10. p * w = q * t /\ q * t \in Nat
  BY <1>2, <1>3, <1>9
<1>11. 2 * (o * w) <= 2 * (q * t) + r * w
  <2>1. (2 * o) * w <= (2 * p + r) * w
    BY <1>5, <1>8, MulGrows
  <2>2. (2 * p + r) * w = 2 * (p * w) + r * w /\ (2 * o) * w = 2 * (o * w)
    OBVIOUS
  <2> QED
    BY <1>10, <2>1, <2>2
<1>12. 2 * (q * t) <= 2 * (o * w) + r * w
  <2>1. (2 * p + r) * w <= (2 * o + 2 * r) * w
    BY <1>5, <1>8, MulGrows
  <2>2. (2 * p + r) * w = 2 * (p * w) + r * w /\ (2 * o + 2 * r) * w = 2 * (o * w) + 2 * (r * w)
    OBVIOUS
  <2> QED
    BY <1>8, <1>10, <2>1, <2>2
<1>13. q * t <= len * t /\ len * t <= (q + (w - 1)) * t
  BY <1>1, <1>9, MulGrows
<1>14. (q + (w - 1)) * t = q * t + t * (w - 1) /\ len * t \in Nat /\ t * (w - 1) \in Nat
       /\ 2 * t * len = 2 * (len * t) /\ 2 * t * (w - 1) = 2 * (t * (w - 1))
  OBVIOUS
<1>15. out \in Nat /\ 2 * w * r * out <= 2 * t * len + w * r
  BY <1>6, <1>8, <1>10, <1>11, <1>13, <1>14
<1> QED
  BY <1>8, <1>10, <1>12, <1>13, <1>14, <1>15

LEMMA OneMoreBuffer ==
    ASSUME NEW w \in Nat \ {0}, NEW r \in Nat \ {0}, NEW t \in Nat \ {0}, NEW len \in Nat,
           NEW g \in Nat, NEW b \in Nat, NEW m \in Nat, NEW out \in Nat,
           2 * w * r * out <= 2 * t * len + w * r,
           2 * w * r * out + (2 * t * (w - 1) + w * r) >= 2 * t * len,
           2 * w * r * m <= 2 * t * g + w * r * b,
           2 * w * r * m + (2 * t * (w - 1) + w * r) * b >= 2 * t * g
    PROVE  /\ 2 * w * r * (m + out) <= 2 * t * (g + len) + w * r * (b + 1)
           /\ 2 * w * r * (m + out) + (2 * t * (w - 1) + w * r) * (b + 1) >= 2 * t * (g + len)
<1>1. PICK a \in Nat : a = w * r
  OBVIOUS
<1>2. PICK d \in Nat : d = 2 * t * (w - 1) + w * r
  OBVIOUS
<1>3. PICK e \in Nat : e = 2 * w * r
  OBVIOUS
<1>4. PICK s \in Nat : s = 2 * t
  OBVIOUS
<1>5. e * (m + out) = e * m + e * out /\ s * (g + len) = s * g + s * len
      /\ a * (b + 1) = a * b + a /\ d * (b + 1) = d * b + d
  OBVIOUS
<1>6. e * m \in Nat /\ e * out \in Nat /\ s * g \in Nat /\ s * len \in Nat /\ a * b \in Nat /\ d * b \in Nat
  OBVIOUS
<1>7. e * out <= s * len + a /\ e * out + d >= s * len /\ e * m <= s * g + a * b /\ e * m + d * b >= s * g
  BY <1>1, <1>2, <1>3, <1>4
<1>8. e * (m + out) <= s * (g + len) + a * (b + 1) /\ e * (m + out) + d * (b + 1) >= s * (g + len)
  BY <1>5, <1>6, <1>7
<1> QED
  BY <1>1, <1>2, <1>3, <1>4, <1>8

LEMMA OneMoreFrame == ASSUME NEW x \in Nat, NEW f \in Nat PROVE (x + 1) * f = x * f + f /\ x * f \in Nat
  OBVIOUS

\* A pipeline that has got nothing has cost nothing.
LEMMA NothingCosts ==
    ASSUME NEW w \in Nat \ {0}, NEW r \in Nat \ {0}, NEW t \in Nat \ {0}, NEW n, n = 0
    PROVE  /\ 2 * w * r * n <= 2 * t * n + w * r * n
           /\ 2 * w * r * n + (2 * t * (w - 1) + w * r) * n >= 2 * t * n
  OBVIOUS

LEMMA SamplesStart == VoiceInit => SamplesInv
<1> SUFFICES ASSUME VoiceInit PROVE SamplesInv
  OBVIOUS
<1>1. /\ inputFormat \in PcmFormats /\ bytesIn = 0 /\ buffers = 0 /\ normalized = 0 /\ unframed = 0
      /\ judged = <<>> /\ pending = <<>> /\ ended = FALSE
  BY DEF VoiceInit
<1>2. CutsCostLittle
  BY <1>1, FormatsAre, NothingCosts DEF CutsCostLittle
<1>3. NoSampleIsLost
  BY <1>1, NothingSent, SamplesAssumption DEF NoSampleIsLost
<1> QED
  BY <1>1, <1>2, <1>3 DEF SamplesInv

LEMMA PushCounts == ASSUME VoiceInv, SamplesInv, NEW len \in BufferSizes, Push(len) PROVE SamplesInv'
<1>1. /\ inputFormat \in PcmFormats /\ bytesIn \in Nat /\ buffers \in Nat
      /\ normalized \in Nat /\ unframed \in Nat /\ len \in Nat
  BY SamplesAssumption DEF SamplesInv
<1>2. PICK w \in Nat \ {0}, r \in Nat \ {0} : w = inputFormat.width /\ r = inputFormat.rate
  BY <1>1, FormatsAre
<1>3. TargetRate \in Nat \ {0}
  BY SamplesAssumption
<1>4. PICK out : out = Normalized(len)
  OBVIOUS
<1>5. out = (2 * (len \div w) * TargetRate + r) \div (2 * r)
  BY <1>2, <1>4 DEF Normalized
<1>6. /\ out \in Nat
      /\ 2 * w * r * out <= 2 * TargetRate * len + w * r
      /\ 2 * w * r * out + (2 * TargetRate * (w - 1) + w * r) >= 2 * TargetRate * len
  BY <1>1, <1>3, <1>5, BufferCosts
<1>7. /\ ~ended /\ bytesIn' = bytesIn + len /\ buffers' = buffers + 1
      /\ normalized' = normalized + out /\ unframed' = unframed + out
      /\ inputFormat' = inputFormat /\ ended' = ended /\ pending' = pending /\ judged' = judged
  BY <1>4 DEF Push, detecting
<1>8. /\ 2 * w * r * normalized <= 2 * TargetRate * bytesIn + w * r * buffers
      /\ 2 * w * r * normalized + (2 * TargetRate * (w - 1) + w * r) * buffers >= 2 * TargetRate * bytesIn
  BY <1>2 DEF SamplesInv, CutsCostLittle
<1>9. /\ 2 * w * r * normalized' <= 2 * TargetRate * bytesIn' + w * r * buffers'
      /\ 2 * w * r * normalized' + (2 * TargetRate * (w - 1) + w * r) * buffers' >= 2 * TargetRate * bytesIn'
  BY <1>1, <1>3, <1>6, <1>7, <1>8, OneMoreBuffer
<1>10. CutsCostLittle'
  BY <1>2, <1>7, <1>9 DEF CutsCostLittle
<1>11. PICK k \in Nat : k = (Len(judged) + Len(pending)) * FrameSamples
  <2>1. Len(judged) \in Nat /\ Len(pending) \in Nat /\ FrameSamples \in Nat
    BY SamplesAssumption DEF VoiceInv, VoiceTypes
  <2> QED
    BY <2>1
<1>12. NoSampleIsLost'
  <2>1. normalized = k + unframed
    BY <1>7, <1>11 DEF SamplesInv, NoSampleIsLost
  <2>2. normalized' = k + unframed'
    BY <1>1, <1>6, <1>7, <2>1
  <2> QED
    BY <1>7, <1>11, <2>2 DEF NoSampleIsLost
<1> QED
  BY <1>1, <1>6, <1>7, <1>10, <1>12 DEF SamplesInv

LEMMA DrainCounts == ASSUME VoiceInv, SamplesInv, NEW speech \in BOOLEAN, DrainFrame(speech) PROVE SamplesInv'
<1>1. /\ FrameSamples \in Nat \ {0} /\ normalized \in Nat /\ unframed \in Nat
      /\ pending \in Seq(BOOLEAN) /\ judged \in Seq(BOOLEAN) /\ Len(pending) < FramesPerChunk
  BY SamplesAssumption DEF SamplesInv, VoiceInv, VoiceTypes
<1>2. /\ unframed' = unframed - FrameSamples /\ unframed >= FrameSamples
      /\ UNCHANGED <<inputFormat, bytesIn, buffers, normalized, ended>>
  BY <1>1 DEF DrainFrame, Framed, buffering
<1>3. ~ended
  BY <1>1, <1>2 DEF SamplesInv
<1>4. PICK chunk \in Seq(BOOLEAN) : chunk = Append(pending, speech) /\ Len(chunk) = Len(pending) + 1
  BY <1>1, FrameMore
<1>5. Len(judged') + Len(pending') = Len(judged) + Len(pending) + 1
  <2>1. CASE Len(pending) + 1 < FramesPerChunk
    <3>1. pending' = chunk /\ judged' = judged
      BY <1>4, <2>1 DEF DrainFrame
    <3> QED
      BY <1>1, <1>4, <3>1
  <2>2. CASE ~(Len(pending) + 1 < FramesPerChunk)
    <3>1. pending' = <<>> /\ judged' = judged \o chunk
      BY <1>4, <2>2 DEF DrainFrame, ProcessChunk
    <3>2. Len(judged \o chunk) = Len(judged) + Len(chunk)
      BY <1>1, <1>4, Concatenated
    <3> QED
      BY <1>1, <1>4, <3>1, <3>2, NothingSent
  <2> QED
    BY <2>1, <2>2
<1>6. normalized = (Len(judged) + Len(pending)) * FrameSamples + unframed
  BY <1>3 DEF SamplesInv, NoSampleIsLost
<1>7. normalized = (Len(judged') + Len(pending')) * FrameSamples + unframed'
  <2>1. PICK x \in Nat : x = Len(judged) + Len(pending)
    BY <1>1
  <2>2. (x + 1) * FrameSamples = x * FrameSamples + FrameSamples /\ x * FrameSamples \in Nat
    BY <1>1, OneMoreFrame
  <2>3. Len(judged') + Len(pending') = x + 1
    BY <1>5, <2>1
  <2>4. normalized = x * FrameSamples + unframed
    BY <1>6, <2>1
  <2>5. normalized = (x + 1) * FrameSamples + unframed'
    BY <1>1, <1>2, <2>2, <2>4
  <2> QED
    BY <2>3, <2>5
<1>8. NoSampleIsLost'
  BY <1>2, <1>7 DEF NoSampleIsLost
<1>9. CutsCostLittle'
  BY <1>2 DEF SamplesInv, CutsCostLittle
<1> QED
  BY <1>1, <1>2, <1>3, <1>8, <1>9 DEF SamplesInv

LEMMA SamplesKeep == VoiceInv /\ SamplesInv /\ [VoiceNext]_voiceVars => SamplesInv'
<1> SUFFICES ASSUME VoiceInv, SamplesInv, [VoiceNext]_voiceVars PROVE SamplesInv'
  OBVIOUS
<1>1. CASE UNCHANGED voiceVars
  BY <1>1 DEF voiceVars, buffering, detecting, SamplesInv, CutsCostLittle, NoSampleIsLost
<1>2. CASE \E len \in BufferSizes : Push(len)
  BY <1>2, PushCounts
<1>3. CASE \E speech \in BOOLEAN : DrainFrame(speech)
  BY <1>3, DrainCounts
<1>4. ASSUME NEW speech \in BOOLEAN, EndStream(speech) PROVE SamplesInv'
  <2>1. ended' = TRUE /\ unframed' = 0 /\ UNCHANGED <<inputFormat, bytesIn, buffers, normalized>>
    BY <1>4 DEF EndStream, buffering
  <2> QED
    BY <2>1 DEF SamplesInv, CutsCostLittle, NoSampleIsLost
<1>5. ASSUME NEW f \in PcmFormats, ReportFormat(f) PROVE SamplesInv'
  <2>1. /\ inputFormat' = f /\ bytesIn' = 0 /\ buffers' = 0 /\ normalized' = 0 /\ unframed' = 0
        /\ judged' = <<>> /\ pending' = <<>>
    BY <1>5 DEF ReportFormat
  <2>2. CutsCostLittle'
    BY <2>1, FormatsAre, NothingCosts DEF CutsCostLittle
  <2>3. NoSampleIsLost'
    BY <2>1, NothingSent, SamplesAssumption DEF NoSampleIsLost
  <2> QED
    BY <2>1, <2>2, <2>3 DEF SamplesInv
<1> QED
  BY <1>1, <1>2, <1>3, <1>4, <1>5 DEF VoiceNext

LEMMA VoiceRests ==
    ASSUME VoiceInv, UNCHANGED <<emitSilence, vad, pending, inUtterance, lastEmitted, ended, judged, sent>>
    PROVE  VoiceInv'
<1>1. VoiceTypes'
  BY DEF VoiceInv, VoiceTypes, LastOf
<1>2. (~ended => Remembers(vad, judged, Len(judged)))'
  BY DEF VoiceInv, Remembers, SpeechIn
<1>3. /\ Pairs(sent)'
      /\ (~ended => (inUtterance <=> LeftOpen(sent)))'
      /\ (inUtterance => OnLately)'
      /\ (ended => ~inUtterance)'
  BY Zenon DEF VoiceInv, OnLately, SpeechIn, Pairs, LeftOpen, MarksOf
<1> QED
  BY <1>1, <1>2, <1>3 DEF VoiceInv

LEMMA VoiceKeeps == VoiceInv /\ SamplesInv /\ [VoiceNext]_voiceVars => VoiceInv'
<1> SUFFICES ASSUME VoiceInv, SamplesInv, [VoiceNext]_voiceVars PROVE VoiceInv'
  OBVIOUS
<1>1. CASE UNCHANGED voiceVars
  <2>1. UNCHANGED <<emitSilence, vad, pending, inUtterance, lastEmitted, ended, judged, sent>>
    BY <1>1 DEF voiceVars, detecting
  <2> QED
    BY <2>1, VoiceRests
<1>2. CASE \E len \in BufferSizes : Push(len)
  <2>1. UNCHANGED <<emitSilence, vad, pending, inUtterance, lastEmitted, ended, judged, sent>>
    BY <1>2 DEF Push, detecting
  <2> QED
    BY <2>1, VoiceRests
<1>3. CASE \E speech \in BOOLEAN : DrainFrame(speech)
  <2>1. PICK speech \in BOOLEAN : DrainFrame(speech)
    BY <1>3
  <2>2. ~ended
    BY <2>1, SamplesAssumption DEF SamplesInv, DrainFrame, Framed
  <2> QED
    BY <2>1, <2>2, DrainKeeps
<1>4. CASE \E speech \in BOOLEAN : EndStream(speech)
  BY <1>4, EndKeeps
<1>5. CASE \E f \in PcmFormats : ReportFormat(f)
  BY <1>5, FormatKeeps
<1> QED
  BY <1>1, <1>2, <1>3, <1>4, <1>5 DEF VoiceNext

LEMMA VoiceFits == VoiceInv => DetectorRemembers /\ UtterancesPair /\ SilenceEndsIt
<1> SUFFICES ASSUME VoiceInv PROVE DetectorRemembers /\ UtterancesPair /\ SilenceEndsIt
  OBVIOUS
<1>1. VoiceTypes
  BY DEF VoiceInv
<1>2. \A n : SpeechOn(n) <=> SpeechIn(judged, n)
  BY Zenon DEF SpeechOn, SpeechIn
<1>3. DetectorRemembers
  BY <1>2 DEF VoiceInv, Remembers, DetectorRemembers
<1>4. Marks = MarksOf(sent)
  BY <1>1 DEF Marks, MarksOf, VoiceTypes
<1>5. Pairs(sent) /\ (~ended => (inUtterance <=> LeftOpen(sent)))
  BY DEF VoiceInv
<1>6. UtterancesPair
  BY <1>4, <1>5, Zenon DEF UtterancesPair, Pairs, LeftOpen
<1>7. SilenceEndsIt
  BY <1>2, Zenon DEF SilenceEndsIt, OnLately, VoiceInv
<1> QED
  BY <1>3, <1>6, <1>7

-----------------------------------------------------------------------------
(* The parser of a WAV stream *)

\* Where the parser can stand after the header: only sound is passed on, and only of a known format.
ParserStates ==
    {p \in [state : {"chunks", "data", "failed"}, held : Seq(Nat), formats : Seq(Nat), out : Seq(Nat)] :
        (p.state # "data" => p.out = <<>>) /\ (p.state = "data" => p.formats # <<>>)}

LEMMA DoneIs ==
    ASSUME NEW s, NEW b, NEW fmts, NEW out
    PROVE  /\ Done(s, b, fmts, out).state = s /\ Done(s, b, fmts, out).held = b
           /\ Done(s, b, fmts, out).formats = fmts /\ Done(s, b, fmts, out).out = out
  BY DEF Done

LEMMA DoneFits ==
    ASSUME NEW s \in {"chunks", "data", "failed"}, NEW b \in Seq(Nat), NEW fmts \in Seq(Nat),
           NEW out \in Seq(Nat), s # "data" => out = <<>>, s = "data" => fmts # <<>>
    PROVE  Done(s, b, fmts, out) \in ParserStates
  BY DEF Done, ParserStates

LEMMA StateParts ==
    ASSUME NEW p \in ParserStates
    PROVE  /\ p.state \in {"chunks", "data", "failed"} /\ p.held \in Seq(Nat)
           /\ p.formats \in Seq(Nat) /\ p.out \in Seq(Nat)
           /\ p.state # "data" => p.out = <<>>
           /\ p.state = "data" => p.formats # <<>>
           /\ p = Done(p.state, p.held, p.formats, p.out)
  BY DEF Done, ParserStates

LEMMA FromIs ==
    ASSUME NEW b \in Seq(Nat), NEW i \in 1..(Len(b) + 1)
    PROVE  /\ From(b, i) \in Seq(Nat) /\ Len(From(b, i)) = Len(b) - i + 1
           /\ \A k \in 1..(Len(b) - i + 1) : From(b, i)[k] = b[i + k - 1]
<1>1. Len(b) \in Nat /\ Len(b) \in (i - 1)..Len(b)
  OBVIOUS
<1>2. From(b, i) \in Seq(Nat)
  BY <1>1, SubSeqProperties DEF From
<1>3. Len(From(b, i)) = IF i <= Len(b) THEN Len(b) - i + 1 ELSE 0
  BY <1>1, SubSeqProperties DEF From
<1>4. \A k \in 1..(Len(b) - i + 1) : From(b, i)[k] = b[i + k - 1]
  BY <1>1, SubSeqProperties DEF From
<1>5. Len(From(b, i)) = Len(b) - i + 1
  BY <1>1, <1>3
<1> QED
  BY <1>2, <1>4, <1>5

LEMMA EmptyIs == <<>> \in Seq(Nat) /\ Len(<<>>) = 0
  OBVIOUS

\* A chunk that has come takes something away, and what has not come takes nothing.
LEMMA OneChunkIs ==
    ASSUME NEW p \in ParserStates
    PROVE  /\ OneChunk(p) \in ParserStates
           /\ \/ OneChunk(p) = p
              \/ OneChunk(p).state # "chunks"
              \/ Len(OneChunk(p).held) + 2 <= Len(p.held)
           /\ p.state # "chunks" => OneChunk(p) = p
           /\ Len(p.held) < 2 => OneChunk(p) = p
<1> USE StreamsAssumption
<1>1. PICK b \in Seq(Nat), fmts \in Seq(Nat) : b = p.held /\ fmts = p.formats
  BY StateParts
<1>2. Len(b) \in Nat
  OBVIOUS
<1>3. CASE p.state # "chunks" \/ Len(b) < 2
  BY <1>1, <1>3 DEF OneChunk
<1>4. CASE p.state = "chunks" /\ Len(b) >= 2
  <2>1. b[1] \in Nat /\ b[2] \in Nat /\ ~(Len(b) < 2)
    BY <1>2, <1>4
  <2>2. ASSUME b[1] = data, fmts = <<>> PROVE OneChunk(p) = Done("failed", <<>>, fmts, <<>>)
    BY <1>1, <1>4, <2>1, <2>2 DEF OneChunk
  <2>3. ASSUME b[1] = data, fmts # <<>> PROVE OneChunk(p) = Done("data", <<>>, fmts, From(b, 3))
    BY <1>1, <1>4, <2>1, <2>3 DEF OneChunk
  <2>4. ASSUME b[1] # data, b[2] > MaxSize PROVE OneChunk(p) = Done("failed", <<>>, fmts, <<>>)
    BY <1>1, <1>4, <2>1, <2>4 DEF OneChunk
  <2>5. ASSUME b[1] # data, ~(b[2] > MaxSize), Len(b) < 2 + b[2] PROVE OneChunk(p) = p
    BY <1>1, <1>4, <2>1, <2>5 DEF OneChunk
  <2>6. ASSUME b[1] # data, ~(b[2] > MaxSize), ~(Len(b) < 2 + b[2]), b[1] = fmt, b[2] = 0
        PROVE OneChunk(p) = Done("failed", <<>>, fmts, <<>>)
    BY <1>1, <1>4, <2>1, <2>6 DEF OneChunk
  <2>7. ASSUME b[1] # data, ~(b[2] > MaxSize), ~(Len(b) < 2 + b[2]), ~(b[1] = fmt /\ b[2] = 0)
        PROVE OneChunk(p) = Done("chunks", From(b, 3 + b[2]), IF b[1] = fmt THEN Append(fmts, b[3]) ELSE fmts, <<>>)
    BY <1>1, <1>4, <2>1, <2>7 DEF OneChunk
  <2>8. CASE OneChunk(p) = Done("failed", <<>>, fmts, <<>>)
    <3>1. OneChunk(p) \in ParserStates
      BY <2>8, EmptyIs, DoneFits
    <3>2. OneChunk(p).state # "chunks"
      BY <2>8, DoneIs
    <3> QED
      BY <1>1, <1>4, <2>1, <3>1, <3>2
  <2>9. CASE OneChunk(p) = p
    BY <2>9
  <2>10. CASE b[1] = data /\ fmts # <<>>
    <3>1. From(b, 3) \in Seq(Nat)
      BY <1>2, <1>4, FromIs
    <3>2. OneChunk(p) \in ParserStates
      BY <2>3, <2>10, <3>1, EmptyIs, DoneFits
    <3>3. OneChunk(p).state # "chunks"
      BY <2>3, <2>10, DoneIs
    <3> QED
      BY <1>1, <1>4, <2>1, <3>2, <3>3
  <2>11. CASE b[1] # data /\ ~(b[2] > MaxSize) /\ ~(Len(b) < 2 + b[2]) /\ ~(b[1] = fmt /\ b[2] = 0)
    <3>1. PICK more : more = IF b[1] = fmt THEN Append(fmts, b[3]) ELSE fmts
      OBVIOUS
    <3>2. more \in Seq(Nat)
      <4>1. CASE b[1] = fmt
        <5>1. b[2] > 0 /\ 3 \in 1..Len(b)
          BY <1>2, <2>1, <2>11, <4>1
        <5>2. b[3] \in Nat
          BY <5>1
        <5> QED
          BY <3>1, <4>1, <5>2
      <4>2. CASE b[1] # fmt
        BY <3>1, <4>2
      <4> QED
        BY <4>1, <4>2
    <3>3. 3 + b[2] \in 1..(Len(b) + 1)
      BY <1>2, <2>1, <2>11
    <3>4. From(b, 3 + b[2]) \in Seq(Nat) /\ Len(From(b, 3 + b[2])) = Len(b) - (3 + b[2]) + 1
      BY <3>3, FromIs
    <3>5. OneChunk(p) = Done("chunks", From(b, 3 + b[2]), more, <<>>)
      BY <2>7, <2>11, <3>1
    <3>6. OneChunk(p) \in ParserStates
      BY <3>2, <3>4, <3>5, EmptyIs, DoneFits
    <3>7. OneChunk(p).held = From(b, 3 + b[2])
      BY <3>5, DoneIs
    <3>8. Len(OneChunk(p).held) + 2 <= Len(p.held)
      BY <1>1, <1>2, <2>1, <3>4, <3>7
    <3> QED
      BY <1>1, <1>4, <2>1, <3>6, <3>8
  <2> QED
    BY <2>2, <2>4, <2>5, <2>6, <2>8, <2>9, <2>10, <2>11
<1> QED
  BY <1>2, <1>3, <1>4

\* More bytes, where the parser stands.
Fed(p, c) ==
    IF p.state = "chunks" THEN Done("chunks", p.held \o c, p.formats, <<>>)
    ELSE IF p.state = "data" THEN Done("data", p.held, p.formats, p.out \o c)
    ELSE p

LEMMA FedFits ==
    ASSUME NEW p \in ParserStates, NEW c \in Seq(Nat) PROVE Fed(p, c) \in ParserStates
<1>1. CASE p.state = "chunks"
  <2>1. p.held \o c \in Seq(Nat)
    BY StateParts, Concatenated
  <2>2. Done("chunks", p.held \o c, p.formats, <<>>) \in ParserStates
    BY <2>1, StateParts, EmptyIs, DoneFits
  <2> QED
    BY <1>1, <2>2 DEF Fed
<1>2. CASE p.state = "data"
  <2>1. p.out \o c \in Seq(Nat)
    BY StateParts, Concatenated
  <2>2. Done("data", p.held, p.formats, p.out \o c) \in ParserStates
    BY <1>2, <2>1, StateParts, DoneFits
  <2> QED
    BY <1>2, <2>2 DEF Fed
<1>3. CASE p.state # "chunks" /\ p.state # "data"
  BY <1>3 DEF Fed
<1> QED
  BY <1>1, <1>2, <1>3

\* What follows a position is followed by more.
LEMMA FromMore ==
    ASSUME NEW b \in Seq(Nat), NEW c \in Seq(Nat), NEW i \in 1..(Len(b) + 1)
    PROVE  From(b \o c, i) = From(b, i) \o c
<1>1. PICK u \in Seq(Nat) : u = b \o c
  BY Concatenated
<1>2. Len(b) \in Nat /\ Len(c) \in Nat /\ Len(u) = Len(b) + Len(c)
  BY <1>1, Concatenated
<1>3. (\A k \in 1..Len(b) : u[k] = b[k]) /\ (\A k \in 1..Len(c) : u[Len(b) + k] = c[k])
  BY <1>1, Concatenated
<1>4. i \in 1..(Len(u) + 1)
  BY <1>2
<1>5. PICK v \in Seq(Nat) : v = From(u, i)
  BY <1>4, FromIs
<1>6. Len(v) = Len(u) - i + 1 /\ \A k \in 1..(Len(u) - i + 1) : v[k] = u[i + k - 1]
  BY <1>4, <1>5, FromIs
<1>7. PICK w \in Seq(Nat) : w = From(b, i)
  BY FromIs
<1>8. Len(w) = Len(b) - i + 1 /\ \A k \in 1..(Len(b) - i + 1) : w[k] = b[i + k - 1]
  BY <1>7, FromIs
<1>9. PICK z \in Seq(Nat) : z = w \o c
  BY Concatenated
<1>10. Len(z) = Len(w) + Len(c)
  BY <1>9, Concatenated
<1>11. (\A k \in 1..Len(w) : z[k] = w[k]) /\ (\A k \in 1..Len(c) : z[Len(w) + k] = c[k])
  BY <1>9, Concatenated
<1>12. Len(v) = Len(z)
  BY <1>2, <1>6, <1>8, <1>10
<1>13. ASSUME NEW k \in 1..Len(v) PROVE v[k] = z[k]
  <2>1. v[k] = u[i + k - 1]
    BY <1>6
  <2>2. CASE k <= Len(w)
    <3>1. k \in 1..Len(w) /\ k \in 1..(Len(b) - i + 1) /\ i + k - 1 \in 1..Len(b)
      BY <1>2, <1>8, <2>2
    <3> QED
      BY <1>3, <1>8, <1>11, <2>1, <3>1
  <2>3. CASE k > Len(w)
    <3>1. k - Len(w) \in 1..Len(c) /\ k = Len(w) + (k - Len(w)) /\ i + k - 1 = Len(b) + (k - Len(w))
      BY <1>2, <1>8, <1>10, <1>12, <2>3
    <3>2. z[k] = c[k - Len(w)]
      BY <1>11, <3>1
    <3>3. u[i + k - 1] = c[k - Len(w)]
      BY <1>3, <3>1
    <3> QED
      BY <2>1, <3>2, <3>3
  <2> QED
    BY <1>2, <1>8, <2>2, <2>3
<1>14. v = z
  BY <1>12, <1>13, SeqEqual
<1> QED
  BY <1>1, <1>5, <1>7, <1>9, <1>14

\* A chunk that has come is the same whatever comes after it.
LEMMA FedChunk ==
    ASSUME NEW p \in ParserStates, NEW c \in Seq(Nat), OneChunk(p) # p
    PROVE  OneChunk(Fed(p, c)) = Fed(OneChunk(p), c)
<1> USE StreamsAssumption
<1>1. PICK b \in Seq(Nat), fmts \in Seq(Nat) : b = p.held /\ fmts = p.formats
  BY StateParts
<1>2. p.state = "chunks" /\ Len(b) \in Nat /\ Len(b) >= 2
  <2>1. p.state = "chunks" /\ ~(Len(b) < 2)
    BY <1>1, OneChunkIs
  <2> QED
    BY <2>1
<1>3. PICK u \in Seq(Nat) : u = b \o c
  BY Concatenated
<1>4. Len(c) \in Nat /\ Len(u) = Len(b) + Len(c)
  BY <1>3, Concatenated
<1>5. \A k \in 1..Len(b) : u[k] = b[k]
  BY <1>3, Concatenated
<1>6. u[1] = b[1] /\ u[2] = b[2] /\ b[1] \in Nat /\ b[2] \in Nat /\ Len(u) \in Nat /\ ~(Len(u) < 2)
  BY <1>2, <1>4, <1>5
<1>7. PICK q \in ParserStates : q = Fed(p, c)
  BY FedFits
<1>8. q.state = "chunks" /\ q.held = u /\ q.formats = fmts
  <2>1. q = Done("chunks", u, fmts, <<>>)
    BY <1>1, <1>2, <1>3, <1>7 DEF Fed
  <2> QED
    BY <2>1, DoneIs
<1>9. CASE b[1] = data /\ fmts = <<>>
  <2>1. OneChunk(p) = Done("failed", <<>>, fmts, <<>>)
    BY <1>1, <1>2, <1>9 DEF OneChunk
  <2>2. OneChunk(q) = Done("failed", <<>>, fmts, <<>>)
    BY <1>6, <1>8, <1>9 DEF OneChunk
  <2>3. Fed(OneChunk(p), c) = OneChunk(p)
    BY <2>1, DoneIs DEF Fed
  <2> QED
    BY <1>7, <2>1, <2>2, <2>3
<1>10. CASE b[1] = data /\ fmts # <<>>
  <2>1. OneChunk(p) = Done("data", <<>>, fmts, From(b, 3))
    BY <1>1, <1>2, <1>10 DEF OneChunk
  <2>2. OneChunk(q) = Done("data", <<>>, fmts, From(u, 3))
    BY <1>6, <1>8, <1>10 DEF OneChunk
  <2>3. From(u, 3) = From(b, 3) \o c
    <3>1. 3 \in 1..(Len(b) + 1)
      BY <1>2
    <3>2. From(b \o c, 3) = From(b, 3) \o c
      BY <3>1, FromMore
    <3> QED
      BY <1>3, <3>2
  <2>4. Fed(OneChunk(p), c) = Done("data", <<>>, fmts, From(b, 3) \o c)
    BY <2>1, DoneIs DEF Fed
  <2> QED
    BY <1>7, <2>2, <2>3, <2>4
<1>11. CASE b[1] # data /\ b[2] > MaxSize
  <2>1. OneChunk(p) = Done("failed", <<>>, fmts, <<>>)
    BY <1>1, <1>2, <1>11 DEF OneChunk
  <2>2. OneChunk(q) = Done("failed", <<>>, fmts, <<>>)
    BY <1>6, <1>8, <1>11 DEF OneChunk
  <2>3. Fed(OneChunk(p), c) = OneChunk(p)
    BY <2>1, DoneIs DEF Fed
  <2> QED
    BY <1>7, <2>1, <2>2, <2>3
<1>12. CASE b[1] # data /\ ~(b[2] > MaxSize) /\ Len(b) < 2 + b[2]
  <2>1. OneChunk(p) = p
    BY <1>1, <1>2, <1>12 DEF OneChunk
  <2> QED
    BY <2>1
<1>13. CASE b[1] # data /\ ~(b[2] > MaxSize) /\ ~(Len(b) < 2 + b[2]) /\ b[1] = fmt /\ b[2] = 0
  <2>1. OneChunk(p) = Done("failed", <<>>, fmts, <<>>)
    BY <1>1, <1>2, <1>13 DEF OneChunk
  <2>2. ~(Len(u) < 2 + u[2])
    BY <1>4, <1>6, <1>13
  <2>3. OneChunk(q) = Done("failed", <<>>, fmts, <<>>)
    BY <1>6, <1>8, <1>13, <2>2 DEF OneChunk
  <2>4. Fed(OneChunk(p), c) = OneChunk(p)
    BY <2>1, DoneIs DEF Fed
  <2> QED
    BY <1>7, <2>1, <2>3, <2>4
<1>14. CASE b[1] # data /\ ~(b[2] > MaxSize) /\ ~(Len(b) < 2 + b[2]) /\ ~(b[1] = fmt /\ b[2] = 0)
  <2>1. PICK more : more = IF b[1] = fmt THEN Append(fmts, b[3]) ELSE fmts
    OBVIOUS
  <2>2. OneChunk(p) = Done("chunks", From(b, 3 + b[2]), more, <<>>)
    BY <1>1, <1>2, <1>14, <2>1 DEF OneChunk
  <2>3. ~(Len(u) < 2 + u[2])
    BY <1>2, <1>4, <1>6, <1>14
  <2>4. more = IF u[1] = fmt THEN Append(fmts, u[3]) ELSE fmts
    <3>1. CASE b[1] = fmt
      <4>1. 3 \in 1..Len(b)
        BY <1>2, <1>6, <1>14, <3>1
      <4>2. u[3] = b[3]
        BY <1>5, <4>1
      <4> QED
        BY <1>6, <2>1, <3>1, <4>2
    <3>2. CASE b[1] # fmt
      BY <1>6, <2>1, <3>2
    <3> QED
      BY <3>1, <3>2
  <2>5. OneChunk(q) = Done("chunks", From(u, 3 + u[2]), more, <<>>)
    BY <1>6, <1>8, <1>14, <2>3, <2>4 DEF OneChunk
  <2>6. 3 + b[2] \in 1..(Len(b) + 1)
    <3>1. ~(Len(b) < 2 + b[2]) /\ b[2] \in Nat /\ Len(b) \in Nat
      BY <1>2, <1>6, <1>14
    <3> QED
      BY <3>1
  <2>7. From(u, 3 + u[2]) = From(b, 3 + b[2]) \o c
    <3>1. From(b \o c, 3 + b[2]) = From(b, 3 + b[2]) \o c
      BY <2>6, FromMore
    <3> QED
      BY <1>3, <1>6, <3>1
  <2>8. Fed(OneChunk(p), c) = Done("chunks", From(b, 3 + b[2]) \o c, more, <<>>)
    BY <2>2, DoneIs DEF Fed
  <2> QED
    BY <1>7, <2>5, <2>7, <2>8
<1> QED
  BY <1>9, <1>10, <1>11, <1>12, <1>13, <1>14

\* The parser after each of n rounds, from p on.
Rounds(p, n) ==
    {f \in [0..n -> ParserStates] : f[0] = p /\ \A k \in 1..n : f[k] = OneChunk(f[k - 1])}

LEMMA OneRoundMore ==
    ASSUME NEW p \in ParserStates, NEW n \in Nat, NEW f \in Rounds(p, n)
    PROVE  [k \in 0..(n + 1) |-> IF k = n + 1 THEN OneChunk(f[n]) ELSE f[k]] \in Rounds(p, n + 1)
<1> DEFINE g == [k \in 0..(n + 1) |-> IF k = n + 1 THEN OneChunk(f[n]) ELSE f[k]]
<1>1. f \in [0..n -> ParserStates] /\ f[0] = p /\ \A k \in 1..n : f[k] = OneChunk(f[k - 1])
  BY DEF Rounds
<1>2. f[n] \in ParserStates
  BY <1>1
<1>3. OneChunk(f[n]) \in ParserStates
  BY <1>2, OneChunkIs
<1>4. g \in [0..(n + 1) -> ParserStates] /\ g[0] = p
  BY <1>1, <1>3
<1>5. ASSUME NEW k \in 1..(n + 1) PROVE g[k] = OneChunk(g[k - 1])
  <2>1. k - 1 \in 0..n /\ k - 1 # n + 1 /\ k - 1 \in 0..(n + 1) /\ k \in 0..(n + 1)
    OBVIOUS
  <2>2. g[k - 1] = f[k - 1]
    BY <2>1
  <2>3. CASE k = n + 1
    <3>1. g[k] = OneChunk(f[n]) /\ k - 1 = n
      BY <2>1, <2>3
    <3> QED
      BY <2>2, <3>1
  <2>4. CASE k # n + 1
    <3>1. k \in 1..n
      BY <2>4
    <3>2. g[k] = f[k]
      BY <2>1, <2>4
    <3> QED
      BY <1>1, <2>2, <3>1, <3>2
  <2> QED
    BY <2>3, <2>4
<1> HIDE DEF g
<1>6. g \in Rounds(p, n + 1)
  BY <1>4, <1>5 DEF Rounds
<1> QED
  BY <1>6 DEF g

LEMMA RoundsGoOn ==
    ASSUME NEW p \in ParserStates, NEW n \in Nat
    PROVE  Rounds(p, n) # {}
<1> DEFINE S == {i \in Nat : Rounds(p, i) # {}}
<1>1. 0 \in S
  <2>1. [k \in 0..0 |-> p] \in Rounds(p, 0)
    BY DEF Rounds
  <2> QED
    BY <2>1
<1>2. ASSUME NEW i \in S PROVE i + 1 \in S
  <2>1. i \in Nat /\ Rounds(p, i) # {}
    OBVIOUS
  <2>2. PICK f \in Rounds(p, i) : TRUE
    BY <2>1
  <2>3. Rounds(p, i + 1) # {}
    BY <2>1, OneRoundMore
  <2> QED
    BY <2>1, <2>3
<1>3. S \in SUBSET Nat
  OBVIOUS
<1> HIDE DEF S
<1>4. S = Nat
  BY <1>1, <1>2, <1>3, NatInduct
<1> QED
  BY <1>4 DEF S

\* Each round that does something takes two symbols at least, or is the last.
LEMMA RoundsRest ==
    ASSUME NEW p \in ParserStates, NEW n \in Nat, NEW f \in Rounds(p, n), Len(p.held) <= n
    PROVE  f[n] \in ParserStates /\ OneChunk(f[n]) = f[n]
<1>1. f \in [0..n -> ParserStates] /\ f[0] = p /\ \A k \in 1..n : f[k] = OneChunk(f[k - 1])
  BY DEF Rounds
<1>2. \A k \in 0..n : f[k] \in ParserStates /\ Len(f[k].held) \in Nat
  <2> SUFFICES ASSUME NEW k \in 0..n PROVE f[k] \in ParserStates /\ Len(f[k].held) \in Nat
    OBVIOUS
  <2>1. f[k] \in ParserStates
    BY <1>1
  <2>2. f[k].held \in Seq(Nat)
    BY <2>1, StateParts
  <2> QED
    BY <2>1, <2>2
<1> DEFINE Left(i) == Len(f[i].held)
<1> DEFINE Fine(i) == i > n \/ OneChunk(f[i]) = f[i] \/ Left(i) + 2 * i <= Left(0)
<1> DEFINE S == {i \in Nat : Fine(i)}
<1>11. \A k \in 0..n : Left(k) \in Nat
  BY <1>2
<1>12. Left(0) = Len(p.held) /\ Left(n) = Len(f[n].held)
  BY <1>1
<1>13. \A q \in ParserStates : OneChunk(q) = q \/ OneChunk(q).state # "chunks" \/ Len(OneChunk(q).held) + 2 <= Len(q.held)
  BY OneChunkIs
<1>14. \A k \in 1..n : f[k] = f[k - 1] \/ f[k].state # "chunks" \/ Left(k) + 2 <= Left(k - 1)
  <2> SUFFICES ASSUME NEW k \in 1..n
               PROVE  f[k] = f[k - 1] \/ f[k].state # "chunks" \/ Left(k) + 2 <= Left(k - 1)
    OBVIOUS
  <2>1. k - 1 \in 0..n
    OBVIOUS
  <2>2. f[k] = OneChunk(f[k - 1]) /\ f[k - 1] \in ParserStates
    BY <1>1, <1>2, <2>1
  <2> QED
    BY <1>13, <2>2
<1> HIDE DEF Left
<1>3. 0 \in S
  <2>1. Left(0) + 2 * 0 <= Left(0)
    BY <1>11
  <2> QED
    BY <2>1
<1>4. ASSUME NEW i \in S PROVE i + 1 \in S
  <2>1. i \in Nat /\ Fine(i)
    OBVIOUS
  <2>2. Fine(i + 1)
    <3>1. CASE i + 1 > n
      BY <3>1
    <3>2. CASE i + 1 <= n
      <4>1. i \in 0..n /\ i + 1 \in 1..n /\ i + 1 \in 0..n /\ (i + 1) - 1 = i /\ ~(i > n)
        BY <2>1, <3>2
      <4>2. f[i + 1] = OneChunk(f[i])
        BY <1>1, <4>1
      <4>3. CASE OneChunk(f[i]) = f[i]
        <5>1. OneChunk(f[i + 1]) = f[i + 1]
          BY <4>2, <4>3
        <5> QED
          BY <5>1
      <4>4. CASE OneChunk(f[i]) # f[i]
        <5>1. Left(i) + 2 * i <= Left(0)
          BY <2>1, <4>1, <4>4
        <5>2. f[i + 1].state # "chunks" \/ Left(i + 1) + 2 <= Left(i)
          BY <1>14, <4>1, <4>2, <4>4
        <5>3. f[i + 1].state # "chunks" => OneChunk(f[i + 1]) = f[i + 1]
          BY <1>2, <4>1, OneChunkIs
        <5>4. Left(i) \in Nat /\ Left(i + 1) \in Nat /\ Left(0) \in Nat
          BY <1>11, <4>1
        <5>5. Left(i + 1) + 2 <= Left(i) => Left(i + 1) + 2 * (i + 1) <= Left(0)
          BY <2>1, <5>1, <5>4
        <5> QED
          BY <5>2, <5>3, <5>5
      <4> QED
        BY <4>3, <4>4
    <3> QED
      BY <2>1, <3>1, <3>2
  <2> HIDE DEF Fine
  <2> QED
    BY <2>1, <2>2
<1>5. S \in SUBSET Nat
  OBVIOUS
<1> HIDE DEF S
<1>6. S = Nat
  BY <1>3, <1>4, <1>5, NatInduct
<1>7. OneChunk(f[n]) = f[n] \/ Left(n) + 2 * n <= Left(0)
  <2>1. n \in S /\ ~(n > n)
    BY <1>6
  <2> QED
    BY <2>1 DEF S
<1>8. f[n] \in ParserStates
  BY <1>2
<1>9. Left(n) \in Nat /\ Left(0) \in Nat /\ Left(0) <= n
  BY <1>11, <1>12
<1>10. ASSUME Left(n) + 2 * n <= Left(0) PROVE OneChunk(f[n]) = f[n]
  <2>1. Left(n) < 2
    BY <1>9, <1>10
  <2> QED
    BY <1>8, <1>12, <2>1, OneChunkIs
<1> QED
  BY <1>7, <1>8, <1>10

\* Rounds that rest have come to the same end, however many they are.
LEMMA RoundsMeet ==
    ASSUME NEW p \in ParserStates, NEW n \in Nat, NEW m \in Nat, n <= m,
           NEW f \in Rounds(p, n), NEW g \in Rounds(p, m), OneChunk(f[n]) = f[n]
    PROVE  g[m] = f[n]
<1>1. f[0] = p /\ \A k \in 1..n : f[k] = OneChunk(f[k - 1])
  BY DEF Rounds
<1>2. g[0] = p /\ \A k \in 1..m : g[k] = OneChunk(g[k - 1])
  BY DEF Rounds
<1> DEFINE S == {i \in Nat : i > m \/ g[i] = IF i <= n THEN f[i] ELSE f[n]}
<1>3. 0 \in S
  BY <1>1, <1>2
<1>4. ASSUME NEW i \in S PROVE i + 1 \in S
  <2>1. i \in Nat /\ (i > m \/ g[i] = IF i <= n THEN f[i] ELSE f[n])
    OBVIOUS
  <2> HIDE DEF S
  <2>2. CASE i + 1 > m
    BY <2>1, <2>2 DEF S
  <2>3. CASE i + 1 <= m
    <3>1. g[i + 1] = OneChunk(g[i]) /\ ~(i > m)
      <4>1. i + 1 \in 1..m /\ (i + 1) - 1 = i /\ ~(i > m)
        BY <2>1, <2>3
      <4> QED
        BY <1>2, <4>1
    <3>2. CASE i + 1 <= n
      <4>1. i + 1 \in 1..n /\ (i + 1) - 1 = i /\ i <= n
        BY <2>1, <3>2
      <4>2. f[i + 1] = OneChunk(f[i]) /\ g[i] = f[i]
        BY <1>1, <2>1, <3>1, <4>1
      <4>3. g[i + 1] = f[i + 1]
        BY <3>1, <4>2
      <4> QED
        BY <2>1, <3>2, <4>3 DEF S
    <3>3. CASE ~(i + 1 <= n)
      <4>1. i = n \/ ~(i <= n)
        BY <2>1, <3>3
      <4>2. g[i] = f[n]
        BY <2>1, <3>1, <4>1
      <4>3. g[i + 1] = f[n]
        BY <3>1, <4>2
      <4> QED
        BY <2>1, <3>3, <4>3 DEF S
    <3> QED
      BY <3>2, <3>3
  <2> QED
    BY <2>1, <2>2, <2>3
<1>5. S \in SUBSET Nat
  OBVIOUS
<1> HIDE DEF S
<1>6. S = Nat
  BY <1>3, <1>4, <1>5, NatInduct
<1>7. g[m] = IF m <= n THEN f[m] ELSE f[n]
  <2>1. m \in S /\ ~(m > m)
    BY <1>6
  <2> QED
    BY <2>1 DEF S
<1>8. CASE m <= n
  <2>1. m = n
    BY <1>8
  <2> QED
    BY <1>7, <1>8, <2>1
<1>9. CASE ~(m <= n)
  BY <1>7, <1>9
<1> QED
  BY <1>8, <1>9

\* Chunks(p) is where enough rounds lead.
LEMMA ChunksAre ==
    ASSUME NEW p \in ParserStates
    PROVE  \E f \in Rounds(p, Len(p.held)) : Chunks(p) = f[Len(p.held)]
<1> DEFINE after[i \in 0..Len(p.held)] == IF i = 0 THEN p ELSE OneChunk(after[i - 1])
<1>1. PICK n \in Nat : n = Len(p.held)
  <2>1. p.held \in Seq(Nat)
    BY StateParts
  <2> QED
    BY <2>1
<1>2. Chunks(p) = after[n]
  BY <1>1 DEF Chunks
<1>3. PICK f \in Rounds(p, n) : TRUE
  BY RoundsGoOn
<1>4. f \in [0..n -> ParserStates] /\ f[0] = p /\ \A k \in 1..n : f[k] = OneChunk(f[k - 1])
  BY <1>3 DEF Rounds
<1>5. \A k \in 0..n : f[k] = IF k = 0 THEN p ELSE OneChunk(f[k - 1])
  <2>1. \A k \in 0..n : k = 0 \/ k \in 1..n
    OBVIOUS
  <2> QED
    BY <1>4, <2>1
<1>6. f = [i \in 0..n |-> IF i = 0 THEN p ELSE OneChunk(f[i - 1])]
  BY <1>4, <1>5
<1>7. after = [i \in 0..n |-> IF i = 0 THEN p ELSE OneChunk(after[i - 1])]
  BY <1>1, <1>6, Zenon
<1> HIDE DEF after
<1>8. \A k \in 0..n : after[k] = IF k = 0 THEN p ELSE OneChunk(after[k - 1])
  BY <1>7
<1> DEFINE S == {i \in Nat : i > n \/ after[i] = f[i]}
<1>9. 0 \in S
  BY <1>4, <1>8
<1>10. ASSUME NEW i \in S PROVE i + 1 \in S
  <2>1. i \in Nat /\ (i > n \/ after[i] = f[i])
    OBVIOUS
  <2> HIDE DEF S
  <2>2. CASE i + 1 > n
    BY <2>1, <2>2 DEF S
  <2>3. CASE i + 1 <= n
    <3>1. i + 1 \in 0..n /\ i + 1 \in 1..n /\ i + 1 # 0 /\ (i + 1) - 1 = i /\ ~(i > n)
      BY <2>1, <2>3
    <3>2. after[i + 1] = OneChunk(after[i]) /\ f[i + 1] = OneChunk(f[i])
      BY <1>4, <1>8, <3>1
    <3>3. after[i + 1] = f[i + 1]
      BY <2>1, <3>1, <3>2
    <3> QED
      BY <2>1, <3>3 DEF S
  <2> QED
    BY <2>1, <2>2, <2>3
<1>11. S \in SUBSET Nat
  OBVIOUS
<1> HIDE DEF S
<1>12. S = Nat
  BY <1>9, <1>10, <1>11, NatInduct
<1>13. after[n] = f[n]
  <2>1. n \in S /\ ~(n > n)
    BY <1>12
  <2> QED
    BY <2>1 DEF S
<1> QED
  BY <1>1, <1>2, <1>3, <1>13

LEMMA ChunksRest ==
    ASSUME NEW p \in ParserStates
    PROVE  Chunks(p) \in ParserStates /\ OneChunk(Chunks(p)) = Chunks(p)
<1>1. PICK n \in Nat : n = Len(p.held)
  <2>1. p.held \in Seq(Nat)
    BY StateParts
  <2> QED
    BY <2>1
<1>2. PICK f \in Rounds(p, n) : Chunks(p) = f[n]
  BY <1>1, ChunksAre
<1>3. f[n] \in ParserStates /\ OneChunk(f[n]) = f[n]
  BY <1>1, RoundsRest
<1> QED
  BY <1>2, <1>3

\* Rounds that rest lead to Chunks(p), whatever their number.
LEMMA RoundsLead ==
    ASSUME NEW p \in ParserStates, NEW m \in Nat, NEW g \in Rounds(p, m), OneChunk(g[m]) = g[m]
    PROVE  g[m] = Chunks(p)
<1>1. PICK n \in Nat : n = Len(p.held)
  <2>1. p.held \in Seq(Nat)
    BY StateParts
  <2> QED
    BY <2>1
<1>2. PICK f \in Rounds(p, n) : Chunks(p) = f[n]
  BY <1>1, ChunksAre
<1>3. OneChunk(f[n]) = f[n]
  BY <1>1, RoundsRest
<1>4. CASE n <= m
  BY <1>2, <1>3, <1>4, RoundsMeet
<1>5. CASE m <= n
  BY <1>2, <1>5, RoundsMeet
<1> QED
  BY <1>4, <1>5

LEMMA ChunksOfRested ==
    ASSUME NEW p \in ParserStates, OneChunk(p) = p PROVE Chunks(p) = p
<1>1. PICK g : g = [k \in 0..0 |-> p]
  OBVIOUS
<1>2. g \in Rounds(p, 0) /\ g[0] = p
  BY <1>1 DEF Rounds
<1>3. OneChunk(g[0]) = g[0]
  BY <1>2
<1> QED
  BY <1>2, <1>3, RoundsLead

LEMMA ChunksGoOn ==
    ASSUME NEW p \in ParserStates PROVE Chunks(OneChunk(p)) = Chunks(p)
<1>1. PICK q \in ParserStates : q = OneChunk(p)
  BY OneChunkIs
<1>2. PICK n \in Nat : n = Len(q.held)
  <2>1. q.held \in Seq(Nat)
    BY StateParts
  <2> QED
    BY <2>1
<1>3. PICK f \in Rounds(q, n) : Chunks(q) = f[n]
  BY <1>2, ChunksAre
<1>4. f \in [0..n -> ParserStates] /\ f[0] = q /\ \A k \in 1..n : f[k] = OneChunk(f[k - 1])
  BY <1>3 DEF Rounds
<1>5. OneChunk(f[n]) = f[n]
  BY <1>2, <1>3, RoundsRest
<1> DEFINE g == [k \in 0..(n + 1) |-> IF k = 0 THEN p ELSE f[k - 1]]
<1>6. g \in [0..(n + 1) -> ParserStates] /\ g[0] = p /\ g[n + 1] = f[n]
  <2>1. \A k \in 0..(n + 1) : k = 0 \/ k - 1 \in 0..n
    OBVIOUS
  <2>2. \A k \in 0..(n + 1) : (IF k = 0 THEN p ELSE f[k - 1]) \in ParserStates
    BY <1>4, <2>1
  <2>3. n + 1 \in 0..(n + 1) /\ n + 1 # 0 /\ (n + 1) - 1 = n /\ 0 \in 0..(n + 1)
    OBVIOUS
  <2> QED
    BY <2>2, <2>3
<1>7. ASSUME NEW k \in 1..(n + 1) PROVE g[k] = OneChunk(g[k - 1])
  <2>1. k \in 0..(n + 1) /\ k - 1 \in 0..(n + 1) /\ k # 0 /\ (k - 1 = 0 \/ k - 1 \in 1..n)
    OBVIOUS
  <2>2. g[k] = f[k - 1]
    BY <2>1
  <2>3. CASE k - 1 = 0
    <3>1. g[k - 1] = p /\ f[k - 1] = q
      BY <1>4, <1>6, <2>3
    <3> QED
      BY <1>1, <2>2, <3>1
  <2>4. CASE k - 1 \in 1..n
    <3>1. g[k - 1] = f[(k - 1) - 1]
      BY <2>1, <2>4
    <3> QED
      BY <1>4, <2>2, <2>4, <3>1
  <2> QED
    BY <2>1, <2>3, <2>4
<1> HIDE DEF g
<1>8. g \in Rounds(p, n + 1)
  BY <1>6, <1>7 DEF Rounds
<1>9. n + 1 \in Nat /\ OneChunk(g[n + 1]) = g[n + 1]
  BY <1>5, <1>6
<1>10. g[n + 1] = Chunks(p)
  BY <1>8, <1>9, RoundsLead
<1> QED
  BY <1>1, <1>3, <1>6, <1>10

\* Chunks may be taken before more bytes come: what is found of them is the same.
LEMMA ChunksMayCome ==
    ASSUME NEW p \in ParserStates, NEW c \in Seq(Nat)
    PROVE  Chunks(Fed(p, c)) = Chunks(Fed(Chunks(p), c))
<1> DEFINE Fine(q) == Chunks(Fed(q, c)) = Chunks(Fed(Chunks(q), c))
<1> DEFINE S == {n \in Nat : \A q \in ParserStates : Len(q.held) <= n => Fine(q)}
<1>1. ASSUME NEW q \in ParserStates, OneChunk(q) = q PROVE Fine(q)
  BY <1>1, ChunksOfRested
<1>2. ASSUME NEW q \in ParserStates, OneChunk(q) # q, Fine(OneChunk(q)) PROVE Fine(q)
  <2>1. OneChunk(Fed(q, c)) = Fed(OneChunk(q), c)
    BY <1>2, FedChunk
  <2>2. Chunks(Fed(q, c)) = Chunks(Fed(OneChunk(q), c))
    <3>1. Fed(q, c) \in ParserStates
      BY FedFits
    <3>2. Chunks(OneChunk(Fed(q, c))) = Chunks(Fed(q, c))
      BY <3>1, ChunksGoOn
    <3> QED
      BY <2>1, <3>2
  <2>3. Chunks(OneChunk(q)) = Chunks(q)
    BY ChunksGoOn
  <2> QED
    BY <1>2, <2>2, <2>3
<1> HIDE DEF Fine
<1>3. 0 \in S
  <2> SUFFICES ASSUME NEW q \in ParserStates, Len(q.held) <= 0 PROVE Fine(q)
    OBVIOUS
  <2>1. q.held \in Seq(Nat)
    BY StateParts
  <2>2. Len(q.held) < 2
    BY <2>1
  <2>3. OneChunk(q) = q
    BY <2>2, OneChunkIs
  <2> QED
    BY <1>1, <2>3
<1>4. ASSUME NEW n \in S PROVE n + 1 \in S
  <2>1. n \in Nat /\ \A q \in ParserStates : Len(q.held) <= n => Fine(q)
    OBVIOUS
  <2>2. ASSUME NEW q \in ParserStates, Len(q.held) <= n + 1 PROVE Fine(q)
    <3>1. CASE OneChunk(q) = q
      BY <1>1, <3>1
    <3>2. CASE OneChunk(q) # q
      <4>1. PICK r \in ParserStates : r = OneChunk(q)
        BY OneChunkIs
      <4>2. r.state # "chunks" \/ Len(r.held) + 2 <= Len(q.held)
        BY <3>2, <4>1, OneChunkIs
      <4>3. CASE r.state # "chunks"
        <5>1. OneChunk(r) = r
          BY <4>3, OneChunkIs
        <5>2. Fine(r)
          BY <1>1, <5>1
        <5> QED
          BY <1>2, <3>2, <4>1, <5>2
      <4>4. CASE Len(r.held) + 2 <= Len(q.held)
        <5>1. r.held \in Seq(Nat) /\ q.held \in Seq(Nat)
          BY StateParts
        <5>2. Len(r.held) <= n
          BY <2>1, <2>2, <4>4, <5>1
        <5>3. Fine(r)
          BY <2>1, <5>2
        <5> QED
          BY <1>2, <3>2, <4>1, <5>3
      <4> QED
        BY <4>2, <4>3, <4>4
    <3> QED
      BY <3>1, <3>2
  <2> QED
    BY <2>1, <2>2
<1>5. S \in SUBSET Nat
  OBVIOUS
<1> HIDE DEF S
<1>6. S = Nat
  BY <1>3, <1>4, <1>5, NatInduct
<1>7. PICK n \in Nat : n = Len(p.held)
  <2>1. p.held \in Seq(Nat)
    BY StateParts
  <2> QED
    BY <2>1
<1>8. Len(p.held) <= n
  BY <1>7
<1>9. Fine(p)
  BY <1>6, <1>8 DEF S
<1> QED
  BY <1>9 DEF Fine

\* Where a stream can be taken for a WAVE.
RiffAt(s, i) == s[i] = Name(1) /\ s[i + 1] = Name(2) /\ s[i + 2] = Name(3) /\ s[i + 3] = Name(3)
WaveAt(s, i) == i + 5 <= Len(s) /\ RiffAt(s, i) /\ s[i + 5] = WAVE
FirstWave(s, i) == WaveAt(s, i) /\ \A j \in 1..(i - 1) : ~WaveAt(s, j)

LEMMA RiffIs ==
    /\ RIFF \in Seq(Nat) /\ Len(RIFF) = 4
    /\ RIFF[1] = Name(1) /\ RIFF[2] = Name(2) /\ RIFF[3] = Name(3) /\ RIFF[4] = Name(3)
<1> USE StreamsAssumption
<1>1. Name(1) \in Nat /\ Name(2) \in Nat /\ Name(3) \in Nat
  BY DEF Name
<1>2. ASSUME NEW a \in Nat, NEW b \in Nat, NEW c \in Nat, NEW d \in Nat
      PROVE  /\ <<a, b, c, d>> \in Seq(Nat) /\ Len(<<a, b, c, d>>) = 4
             /\ <<a, b, c, d>>[1] = a /\ <<a, b, c, d>>[2] = b /\ <<a, b, c, d>>[3] = c /\ <<a, b, c, d>>[4] = d
  OBVIOUS
<1> QED
  BY <1>1, <1>2 DEF RIFF

LEMMA PieceIs ==
    ASSUME NEW b \in Seq(Nat), NEW i \in Nat \ {0}, NEW k \in Nat, i <= k + 1, k <= Len(b)
    PROVE  /\ SubSeq(b, i, k) \in Seq(Nat) /\ Len(SubSeq(b, i, k)) = k - i + 1
           /\ \A j \in 1..(k - i + 1) : SubSeq(b, i, k)[j] = b[i + j - 1]
<1>1. i \in Int /\ k \in Int /\ \A j \in i..k : b[j] \in Nat
  OBVIOUS
<1>2. SubSeq(b, i, k) \in Seq(Nat)
  BY <1>1, SubSeqProperties
<1>3. Len(SubSeq(b, i, k)) = IF i <= k THEN k - i + 1 ELSE 0
  BY <1>1, SubSeqProperties
<1>4. \A j \in 1..(k - i + 1) : SubSeq(b, i, k)[j] = b[i + j - 1]
  BY <1>1, SubSeqProperties
<1>5. Len(SubSeq(b, i, k)) = k - i + 1
  BY <1>3
<1> QED
  BY <1>2, <1>4, <1>5

LEMMA PiecesJoin ==
    ASSUME NEW b \in Seq(Nat), NEW i \in Nat \ {0}, NEW k \in Nat, NEW n \in Nat,
           i <= k + 1, k <= n, n <= Len(b)
    PROVE  SubSeq(b, i, k) \o SubSeq(b, k + 1, n) = SubSeq(b, i, n)
<1>1. PICK u \in Seq(Nat) : u = SubSeq(b, i, k) /\ Len(u) = k - i + 1
  <2>1. k <= Len(b)
    OBVIOUS
  <2>2. SubSeq(b, i, k) \in Seq(Nat) /\ Len(SubSeq(b, i, k)) = k - i + 1
    BY <2>1, PieceIs
  <2> QED
    BY <2>2
<1>2. \A j \in 1..(k - i + 1) : u[j] = b[i + j - 1]
  BY <1>1, PieceIs
<1>3. PICK v \in Seq(Nat) : v = SubSeq(b, k + 1, n) /\ Len(v) = n - k
  <2>1. k + 1 \in Nat \ {0} /\ k + 1 <= n + 1
    OBVIOUS
  <2>2. SubSeq(b, k + 1, n) \in Seq(Nat) /\ Len(SubSeq(b, k + 1, n)) = n - (k + 1) + 1
    BY <2>1, PieceIs
  <2>3. n - (k + 1) + 1 = n - k
    OBVIOUS
  <2> QED
    BY <2>2, <2>3
<1>4. \A j \in 1..(n - k) : v[j] = b[k + j]
  <2>1. k + 1 \in Nat \ {0} /\ k + 1 <= n + 1
    OBVIOUS
  <2>2. \A j \in 1..(n - (k + 1) + 1) : SubSeq(b, k + 1, n)[j] = b[(k + 1) + j - 1]
    BY <2>1, PieceIs
  <2>3. \A j \in 1..(n - k) : j \in 1..(n - (k + 1) + 1) /\ (k + 1) + j - 1 = k + j
    OBVIOUS
  <2> QED
    BY <1>3, <2>2, <2>3
<1>5. PICK w \in Seq(Nat) : w = SubSeq(b, i, n) /\ Len(w) = n - i + 1
  <2>1. i <= n + 1
    OBVIOUS
  <2> QED
    BY <2>1, PieceIs
<1>6. \A j \in 1..(n - i + 1) : w[j] = b[i + j - 1]
  <2>1. i <= n + 1
    OBVIOUS
  <2> QED
    BY <1>5, <2>1, PieceIs
<1>7. PICK z \in Seq(Nat) : z = u \o v
  BY Concatenated
<1>8. Len(z) = Len(u) + Len(v)
  BY <1>7, Concatenated
<1>9. (\A j \in 1..Len(u) : z[j] = u[j]) /\ (\A j \in 1..Len(v) : z[Len(u) + j] = v[j])
  BY <1>7, Concatenated
<1>10. Len(z) = Len(w)
  BY <1>1, <1>3, <1>5, <1>8
<1>11. ASSUME NEW j \in 1..Len(z) PROVE z[j] = w[j]
  <2>1. w[j] = b[i + j - 1]
    BY <1>5, <1>6, <1>10
  <2>2. CASE j <= Len(u)
    BY <1>1, <1>2, <1>9, <2>1, <2>2
  <2>3. CASE j > Len(u)
    <3>1. j - Len(u) \in 1..Len(v) /\ j - Len(u) \in 1..(n - k) /\ j = Len(u) + (j - Len(u))
          /\ k + (j - Len(u)) = i + j - 1
      BY <1>1, <1>3, <1>8, <2>3
    <3>2. z[j] = v[j - Len(u)]
      BY <1>9, <3>1
    <3>3. v[j - Len(u)] = b[i + j - 1]
      BY <1>4, <3>1
    <3> QED
      BY <2>1, <3>2, <3>3
  <2> QED
    BY <1>1, <2>2, <2>3
<1>12. z = w
  BY <1>10, <1>11, SeqEqual
<1> QED
  BY <1>1, <1>3, <1>5, <1>7, <1>12

LEMMA SignaturesAre ==
    ASSUME NEW b \in Seq(Nat)
    PROVE  Signatures(b) = {i \in 1..(Len(b) - 3) : RiffAt(b, i)}
<1>1. ASSUME NEW i \in 1..(Len(b) - 3) PROVE SubSeq(b, i, i + 3) = RIFF <=> RiffAt(b, i)
  <2>1. i \in Nat \ {0} /\ i + 3 \in Nat /\ i <= (i + 3) + 1 /\ i + 3 <= Len(b)
    OBVIOUS
  <2>2. PICK u \in Seq(Nat) : u = SubSeq(b, i, i + 3) /\ Len(u) = (i + 3) - i + 1
    BY <2>1, PieceIs
  <2>3. \A j \in 1..((i + 3) - i + 1) : u[j] = b[i + j - 1]
    BY <2>1, <2>2, PieceIs
  <2>4. Len(u) = 4 /\ u[1] = b[i] /\ u[2] = b[i + 1] /\ u[3] = b[i + 2] /\ u[4] = b[i + 3]
    <3>1. Len(u) = 4 /\ 1..((i + 3) - i + 1) = 1..4 /\ i + 1 - 1 = i /\ i + 2 - 1 = i + 1 /\ i + 3 - 1 = i + 2 /\ i + 4 - 1 = i + 3
      BY <2>1, <2>2
    <3>2. 1 \in 1..4 /\ 2 \in 1..4 /\ 3 \in 1..4 /\ 4 \in 1..4
      OBVIOUS
    <3> QED
      BY <2>3, <3>1, <3>2
  <2>5. ASSUME u = RIFF PROVE RiffAt(b, i)
    BY <2>4, <2>5, RiffIs DEF RiffAt
  <2>6. ASSUME RiffAt(b, i) PROVE u = RIFF
    <3>1. u[1] = RIFF[1] /\ u[2] = RIFF[2] /\ u[3] = RIFF[3] /\ u[4] = RIFF[4]
      BY <2>4, <2>6, RiffIs DEF RiffAt
    <3>2. \A j \in 1..Len(u) : j = 1 \/ j = 2 \/ j = 3 \/ j = 4
      BY <2>4
    <3>3. \A j \in 1..Len(u) : u[j] = RIFF[j]
      BY <3>1, <3>2
    <3>4. RIFF \in Seq(Nat) /\ Len(RIFF) = Len(u)
      BY <2>4, RiffIs
    <3> QED
      BY <3>3, <3>4, SeqEqual
  <2> QED
    BY <2>2, <2>5, <2>6
<1> QED
  BY <1>1 DEF Signatures

\* The first of some positions.
LEMMA FirstIs ==
    ASSUME NEW S \in SUBSET Nat, S # {}
    PROVE  First(S) \in S /\ \A j \in S : First(S) <= j
<1>1. \E i \in S : \A j \in S : i <= j
  BY LeastOfSome
<1> QED
  BY <1>1, Zenon DEF First

LEMMA FromFrom ==
    ASSUME NEW b \in Seq(Nat), NEW i \in 1..(Len(b) + 1), NEW k \in Nat \ {0}, i + k - 1 <= Len(b) + 1
    PROVE  From(From(b, i), k) = From(b, i + k - 1)
<1>0. Len(b) \in Nat
  OBVIOUS
<1>1. PICK u \in Seq(Nat) : u = From(b, i) /\ Len(u) = Len(b) - i + 1
  BY FromIs
<1>2. \A j \in 1..(Len(b) - i + 1) : u[j] = b[i + j - 1]
  BY <1>1, FromIs
<1>3. k \in 1..(Len(u) + 1) /\ i + k - 1 \in 1..(Len(b) + 1)
  BY <1>0, <1>1
<1>4. PICK v \in Seq(Nat) : v = From(u, k) /\ Len(v) = Len(u) - k + 1
  BY <1>3, FromIs
<1>5. \A j \in 1..(Len(u) - k + 1) : v[j] = u[k + j - 1]
  BY <1>3, <1>4, FromIs
<1>6. PICK w \in Seq(Nat) : w = From(b, i + k - 1) /\ Len(w) = Len(b) - (i + k - 1) + 1
  BY <1>3, FromIs
<1>7. \A j \in 1..(Len(b) - (i + k - 1) + 1) : w[j] = b[(i + k - 1) + j - 1]
  BY <1>3, <1>6, FromIs
<1>8. Len(v) = Len(w)
  BY <1>0, <1>1, <1>4, <1>6
<1>9. ASSUME NEW j \in 1..Len(v) PROVE v[j] = w[j]
  <2>1. j \in 1..(Len(u) - k + 1) /\ j \in 1..(Len(b) - (i + k - 1) + 1) /\ k + j - 1 \in 1..(Len(b) - i + 1)
        /\ i + (k + j - 1) - 1 = (i + k - 1) + j - 1
    BY <1>0, <1>1, <1>4
  <2>2. v[j] = u[k + j - 1] /\ u[k + j - 1] = b[i + (k + j - 1) - 1] /\ w[j] = b[(i + k - 1) + j - 1]
    BY <1>2, <1>5, <1>7, <2>1
  <2> QED
    BY <2>1, <2>2
<1>10. v = w
  BY <1>8, <1>9, SeqEqual
<1> QED
  BY <1>1, <1>4, <1>6, <1>10

\* Where the fourth symbol after the mark lies, and the one behind the format
\* name: both places are within the symbols or directly behind them.
LEMMA AfterTheMark ==
    ASSUME NEW m \in Nat \ {0}, NEW l \in Nat, m + 5 <= l
    PROVE  /\ m \in 1..(l + 1)
           /\ m + 5 - 1 <= l + 1 /\ m + 5 - 1 = (m + 3) + 1
           /\ m + 7 - 1 <= l + 1 /\ m + 7 - 1 = m + 6
<1>1. m <= l + 1
  OBVIOUS
<1>2. m + 5 - 1 <= l + 1 /\ m + 5 - 1 = (m + 3) + 1
  OBVIOUS
<1>3. m + 7 - 1 <= l + 1 /\ m + 7 - 1 = m + 6
  OBVIOUS
<1> QED
  BY <1>1, <1>2, <1>3

\* The search: what it leaves behind is no header, and what it stops at is the first one.
LEMMA SyncedIs ==
    ASSUME NEW s \in Seq(Nat), NEW b \in Seq(Nat), NEW off \in Nat, off + Len(b) <= Len(s),
           \A k \in 1..Len(b) : b[k] = s[off + k], \A i \in 1..off : ~WaveAt(s, i)
    PROVE  \/ /\ Synced(b).state = "sync"
              /\ \E cut \in 0..Len(b) : /\ Synced(b).held = From(b, cut + 1)
                                        /\ \A i \in 1..(off + cut) : ~WaveAt(s, i)
           \/ /\ Synced(b).state = "chunks"
              /\ \E i \in 1..(Len(b) - 5) : /\ Synced(b).held = From(b, i + 6)
                                            /\ FirstWave(s, off + i)
<1> USE StreamsAssumption
<1>0. Len(b) \in Nat
  OBVIOUS
<1>1. ASSUME NEW k \in 1..(Len(b) - 3) PROVE RiffAt(b, k) <=> RiffAt(s, off + k)
  <2>1. k \in 1..Len(b) /\ k + 1 \in 1..Len(b) /\ k + 2 \in 1..Len(b) /\ k + 3 \in 1..Len(b)
    BY <1>0
  <2>2. off + (k + 1) = off + k + 1 /\ off + (k + 2) = off + k + 2 /\ off + (k + 3) = off + k + 3
    OBVIOUS
  <2>3. b[k] = s[off + k] /\ b[k + 1] = s[off + k + 1] /\ b[k + 2] = s[off + k + 2] /\ b[k + 3] = s[off + k + 3]
    BY <2>1, <2>2
  <2> QED
    BY <2>3, Zenon DEF RiffAt
<1>2. \A k \in 1..(Len(b) - 3) : k \notin Signatures(b) => ~WaveAt(s, off + k)
  BY <1>1, SignaturesAre DEF WaveAt
<1>3. ASSUME NEW m \in 0..Len(b), m <= Len(b) - 3 \/ m = 0, \A k \in 1..m : k \notin Signatures(b)
      PROVE  \A i \in 1..(off + m) : ~WaveAt(s, i)
  <2> SUFFICES ASSUME NEW i \in 1..(off + m) PROVE ~WaveAt(s, i)
    OBVIOUS
  <2>1. CASE i \in 1..off
    BY <2>1
  <2>2. CASE i \notin 1..off
    <3>1. i - off \in 1..m /\ i = off + (i - off)
      BY <2>2
    <3>2. i - off \in 1..(Len(b) - 3)
      BY <1>0, <1>3, <3>1
    <3> QED
      BY <1>2, <1>3, <3>1, <3>2
  <2> QED
    BY <2>1, <2>2
<1>4. CASE Signatures(b) = {}
  <2>1. Synced(b).state = "sync" /\ Synced(b).held = KeepTail(b)
    BY <1>4 DEF Synced
  <2>2. CASE Len(b) > 3
    <3>1. KeepTail(b) = From(b, (Len(b) - 3) + 1)
      BY <1>0, <2>2 DEF KeepTail, TailKept
    <3>2. Len(b) - 3 \in 0..Len(b)
      BY <1>0, <2>2
    <3>3. \A i \in 1..(off + (Len(b) - 3)) : ~WaveAt(s, i)
      <4>1. PICK m \in 0..Len(b) : m = Len(b) - 3 /\ m <= Len(b) - 3
        <5>1. \A a \in Int : a <= a
          OBVIOUS
        <5>2. Len(b) - 3 \in Int
          BY <1>0
        <5> QED
          BY <3>2, <5>1, <5>2
      <4>2. \A k \in 1..m : k \notin Signatures(b)
        BY <1>4
      <4> QED
        BY <1>3, <4>1, <4>2
    <3> QED
      BY <2>1, <3>1, <3>2, <3>3
  <2>3. CASE Len(b) <= 3
    <3>1. KeepTail(b) = b
      BY <1>0, <2>3 DEF KeepTail, TailKept
    <3>2. From(b, 0 + 1) = b
      BY SubSeqFull DEF From
    <3>3. \A i \in 1..(off + 0) : ~WaveAt(s, i)
      OBVIOUS
    <3>4. 0 \in 0..Len(b)
      BY <1>0
    <3> QED
      BY <2>1, <3>1, <3>2, <3>3, <3>4
  <2> QED
    BY <1>0, <2>2, <2>3
<1>5. CASE Signatures(b) # {}
  <2>1. Signatures(b) \in SUBSET Nat
    BY SignaturesAre
  <2>2. PICK m \in Signatures(b) : m = First(Signatures(b)) /\ \A j \in Signatures(b) : m <= j
    BY <1>5, <2>1, FirstIs
  <2>10. m \in 1..(Len(b) - 3) /\ RiffAt(b, m) /\ RiffAt(s, off + m)
    BY <1>1, <2>2, SignaturesAre
  <2>3. m \in Nat \ {0} /\ m \in 1..(Len(b) - 3) /\ m <= Len(b) - 3
    BY <1>0, <2>10
  <2>4. \A i \in 1..(off + (m - 1)) : ~WaveAt(s, i)
    <3>1. \A k \in 1..(m - 1) : k \notin Signatures(b)
      BY <2>2, <2>3
    <3>2. m - 1 \in 0..Len(b) /\ m - 1 <= Len(b) - 3
      BY <1>0, <2>3
    <3> QED
      BY <1>3, <3>1, <3>2
  <2>5. PICK found \in Seq(Nat) : found = From(b, m) /\ Len(found) = Len(b) - m + 1
    <3>1. m \in 1..(Len(b) + 1)
      BY <1>0, <2>3
    <3> QED
      BY <3>1, FromIs
  <2>6. \A k \in 1..(Len(b) - m + 1) : found[k] = b[m + k - 1]
    <3>1. m \in 1..(Len(b) + 1)
      BY <1>0, <2>3
    <3> QED
      BY <2>5, <3>1, FromIs
  <2>7. Synced(b) = IF Len(found) < 6 THEN [state |-> "sync", held |-> found]
                    ELSE IF found[6] # WAVE THEN [state |-> "sync", held |-> From(found, 5)]
                    ELSE [state |-> "chunks", held |-> From(found, 6 + 1)]
    BY <1>5, <2>2, <2>5, Zenon DEF Synced, HeaderSymbols
  <2>8. CASE Len(found) < 6
    <3>1. Synced(b).state = "sync" /\ Synced(b).held = found
      BY <2>7, <2>8
    <3>2. m - 1 \in 0..Len(b) /\ (m - 1) + 1 = m
      BY <1>0, <2>3
    <3> QED
      BY <2>4, <2>5, <3>1, <3>2
  <2>9. CASE ~(Len(found) < 6)
    <3>0. m + 5 <= Len(b)
      BY <1>0, <2>3, <2>5, <2>9
    <3>1. m + 5 <= Len(b) /\ found[6] = b[m + 5] /\ b[m + 5] = s[off + m + 5]
      <4>1. m + 5 <= Len(b) /\ 6 \in 1..(Len(b) - m + 1) /\ m + 6 - 1 = m + 5 /\ m + 5 \in 1..Len(b)
            /\ off + (m + 5) = off + m + 5
        <5>1. m >= 1 /\ m \in Int /\ Len(b) \in Int
          BY <1>0, <2>3
        <5>2. m + 6 - 1 = m + 5 /\ off + (m + 5) = off + m + 5
          BY <5>1
        <5>3. 6 <= Len(b) - m + 1 /\ Len(b) - m + 1 \in Int
          BY <3>0, <5>1
        <5>4. 6 \in 1..(Len(b) - m + 1) /\ m + 5 \in 1..Len(b)
          BY <3>0, <5>1, <5>3
        <5> QED
          BY <3>0, <5>2, <5>4
      <4>2. found[6] = b[m + 5]
        <5>1. 6 \in 1..(Len(b) - m + 1) /\ m + 6 - 1 = m + 5
          BY <4>1
        <5>2. found[6] = b[m + 6 - 1]
          BY <2>6, <5>1
        <5> QED
          BY <5>1, <5>2
      <4>3. b[m + 5] = s[off + (m + 5)]
        BY <4>1
      <4> QED
        BY <3>0, <4>1, <4>2, <4>3
    <3>2. CASE found[6] # WAVE
      <4>1. Synced(b).state = "sync" /\ Synced(b).held = From(found, 5)
        BY <2>7, <2>9, <3>2
      <4>2. From(found, 5) = From(b, (m + 3) + 1) /\ m + 3 \in 0..Len(b)
        <5>1. m \in 1..(Len(b) + 1) /\ 5 \in Nat \ {0} /\ m + 5 - 1 <= Len(b) + 1 /\ m + 5 - 1 = (m + 3) + 1
          <6>1. m \in 1..(Len(b) + 1)
            BY <1>0, <2>3, <3>0, AfterTheMark
          <6>2. m + 5 - 1 <= Len(b) + 1
            BY <1>0, <2>3, <3>0, AfterTheMark
          <6>3. m + 5 - 1 = (m + 3) + 1
            BY <1>0, <2>3, <3>0, AfterTheMark
          <6> QED
            BY <6>1, <6>2, <6>3
        <5>2. From(From(b, m), 5) = From(b, m + 5 - 1)
          BY <5>1, FromFrom
        <5> QED
          BY <1>0, <2>3, <2>5, <3>0, <5>1, <5>2
      <4>3. ASSUME NEW i \in 1..(off + (m + 3)) PROVE ~WaveAt(s, i)
        <5>1. CASE i \in 1..(off + (m - 1))
          BY <2>4, <5>1
        <5>2. CASE i = off + m
          BY <3>1, <3>2, <5>2 DEF WaveAt
        <5>3. CASE i = off + m + 1 \/ i = off + m + 2 \/ i = off + m + 3
          <6>1. s[i] = Name(2) \/ s[i] = Name(3)
            BY <2>3, <2>10, <5>3 DEF RiffAt
          <6>2. s[i] # Name(1)
            BY <6>1 DEF Name
          <6> QED
            BY <6>2 DEF WaveAt, RiffAt
        <5>4. i \in 1..(off + (m - 1)) \/ i = off + m \/ i = off + m + 1 \/ i = off + m + 2 \/ i = off + m + 3
          BY <2>3
        <5> QED
          BY <5>1, <5>2, <5>3, <5>4
      <4> QED
        BY <4>1, <4>2, <4>3
    <3>3. CASE found[6] = WAVE
      <4>1. Synced(b).state = "chunks" /\ Synced(b).held = From(found, 7)
        BY <2>7, <2>9, <3>3
      <4>2. From(found, 7) = From(b, m + 6)
        <5>1. m \in 1..(Len(b) + 1) /\ 7 \in Nat \ {0} /\ m + 7 - 1 <= Len(b) + 1 /\ m + 7 - 1 = m + 6
          <6>1. m \in 1..(Len(b) + 1)
            BY <1>0, <2>3, <3>0, AfterTheMark
          <6>2. m + 7 - 1 <= Len(b) + 1
            BY <1>0, <2>3, <3>0, AfterTheMark
          <6>3. m + 7 - 1 = m + 6
            BY <1>0, <2>3, <3>0, AfterTheMark
          <6> QED
            BY <6>1, <6>2, <6>3
        <5>2. From(From(b, m), 7) = From(b, m + 7 - 1)
          BY <5>1, FromFrom
        <5> QED
          BY <2>5, <5>1, <5>2
      <4>3. off + m + 5 <= Len(s) /\ m \in 1..(Len(b) - 5)
        BY <1>0, <2>3, <3>0
      <4>4. WaveAt(s, off + m)
        BY <2>3, <2>10, <3>1, <3>3, <4>3 DEF WaveAt
      <4>5. FirstWave(s, off + m)
        <5>1. 1..((off + m) - 1) = 1..(off + (m - 1))
          BY <2>3
        <5>2. \A j \in 1..((off + m) - 1) : ~WaveAt(s, j)
          BY <2>4, <5>1
        <5> QED
          BY <4>4, <5>2, Zenon DEF FirstWave
      <4> QED
        BY <4>1, <4>2, <4>3, <4>5
    <3> QED
      BY <3>2, <3>3
  <2> QED
    BY <2>8, <2>9
<1> QED
  BY <1>4, <1>5

\* While the header is searched for, what is held is the end of what was read, and no header begins
\* before it.
Searching ==
    /\ Len(held) <= read
    /\ \A k \in 1..Len(held) : held[k] = stream[(read - Len(held)) + k]
    /\ \A i \in 1..(read - Len(held)) : ~WaveAt(stream, i)
    /\ formats = <<>> /\ pcm = <<>>

\* After it the parser stands where the bytes since the first header lead, all at once.
Parsing ==
    \E i \in 1..Len(stream) :
        /\ FirstWave(stream, i) /\ i + 5 <= read
        /\ Done(parsing, held, formats, pcm) \in ParserStates
        /\ Done(parsing, held, formats, pcm) = ChunksOf(SubSeq(stream, i + 6, read), <<>>)

WavTypes ==
    /\ stream \in Seq(Nat) /\ read \in Nat /\ read <= Len(stream)
    /\ parsing \in {"sync", "chunks", "data", "failed"}
    /\ held \in Seq(Nat) /\ formats \in Seq(Nat) /\ pcm \in Seq(Nat)

WavInv == WavTypes /\ (parsing = "sync" => Searching) /\ (parsing # "sync" => Parsing)

LEMMA WavStarts == WavInit => WavInv
<1> SUFFICES ASSUME WavInit PROVE WavInv
  OBVIOUS
<1>1. stream \in Seq(Nat) /\ read = 0 /\ parsing = "sync" /\ held = <<>> /\ formats = <<>> /\ pcm = <<>>
  BY StreamsAssumption DEF WavInit
<1>2. Len(stream) \in Nat /\ 0 <= Len(stream)
  BY <1>1
<1>3. WavTypes
  BY <1>1, <1>2, EmptyIs DEF WavTypes
<1>4. Searching
  BY <1>1, EmptyIs DEF Searching
<1> QED
  BY <1>1, <1>3, <1>4 DEF WavInv

\* Where the chunks lead that are there now, a parser that has passed the header stands.
LEMMA StandsThere ==
    ASSUME NEW b \in Seq(Nat), NEW fmts \in Seq(Nat)
    PROVE  ChunksOf(b, fmts) \in ParserStates
<1>1. Done("chunks", b, fmts, <<>>) \in ParserStates
  BY EmptyIs, DoneFits
<1> QED
  BY <1>1, ChunksRest DEF ChunksOf

LEMMA HeaderFound ==
    ASSUME WavInv, parsing = "sync", NEW n \in Nat \ {0}, PushBytes(n) PROVE WavInv'
<1>1. WavTypes /\ Searching
  BY DEF WavInv
<1>2. stream' = stream /\ read' = read + n /\ read + n <= Len(stream) /\ Len(stream) \in Nat
  BY <1>1 DEF PushBytes, WavTypes
<1>3. PICK s \in Seq(Nat) : s = stream
  BY <1>1 DEF WavTypes
<1>4. PICK h \in Nat : h = Len(held)
  BY <1>1 DEF WavTypes
<1>5. PICK off \in Nat : off = read - h
  <2>1. h <= read /\ read \in Nat
    BY <1>1, <1>4 DEF WavTypes, Searching
  <2> QED
    BY <2>1
<1>6. read \in Nat /\ read = off + h
  BY <1>1, <1>4, <1>5 DEF WavTypes
<1>7. PICK c \in Seq(Nat) : c = SubSeq(stream, read + 1, read + n) /\ Len(c) = n
  <2>1. read + 1 \in Nat \ {0} /\ read + n \in Nat /\ read + 1 <= (read + n) + 1 /\ read + n <= Len(s)
    BY <1>2, <1>3, <1>6
  <2>2. SubSeq(s, read + 1, read + n) \in Seq(Nat)
    BY <2>1, PieceIs
  <2>3. Len(SubSeq(s, read + 1, read + n)) = (read + n) - (read + 1) + 1
    BY <2>1, PieceIs
  <2>4. (read + n) - (read + 1) + 1 = n
    BY <1>6
  <2> QED
    BY <1>3, <2>2, <2>3, <2>4
<1>8. \A j \in 1..n : c[j] = s[read + j]
  <2>1. read + 1 \in Nat \ {0} /\ read + n \in Nat /\ read + 1 <= (read + n) + 1 /\ read + n <= Len(s)
    BY <1>2, <1>3, <1>6
  <2>2. \A j \in 1..((read + n) - (read + 1) + 1) : SubSeq(s, read + 1, read + n)[j] = s[(read + 1) + j - 1]
    BY <2>1, PieceIs
  <2>3. \A j \in 1..n : j \in 1..((read + n) - (read + 1) + 1) /\ (read + 1) + j - 1 = read + j
    BY <1>6
  <2> QED
    BY <1>3, <1>7, <2>2, <2>3
<1>9. PICK b \in Seq(Nat) : b = held \o c
  BY <1>1, Concatenated DEF WavTypes
<1>10. Len(b) = h + n
  <2>1. held \in Seq(Nat)
    BY <1>1 DEF WavTypes
  <2> QED
    BY <1>4, <1>7, <1>9, <2>1, Concatenated
<1>11. \A k \in 1..Len(b) : b[k] = s[off + k]
  <2>1. held \in Seq(Nat)
    BY <1>1 DEF WavTypes
  <2>2. \A k \in 1..h : b[k] = held[k]
    BY <1>4, <1>7, <1>9, <2>1, Concatenated
  <2>3. \A k \in 1..n : b[h + k] = c[k]
    BY <1>4, <1>7, <1>9, <2>1, Concatenated
  <2>4. \A k \in 1..h : held[k] = s[off + k]
    BY <1>1, <1>3, <1>4, <1>5 DEF Searching
  <2> SUFFICES ASSUME NEW k \in 1..Len(b) PROVE b[k] = s[off + k]
    OBVIOUS
  <2>5. CASE k <= h
    <3>1. k \in 1..h
      BY <2>5
    <3> QED
      BY <2>2, <2>4, <3>1
  <2>6. CASE k > h
    <3>1. k - h \in 1..n /\ k = h + (k - h) /\ read + (k - h) = off + k
      BY <1>6, <1>10, <2>6
    <3>2. b[k] = c[k - h] /\ c[k - h] = s[read + (k - h)]
      BY <1>8, <2>3, <3>1
    <3> QED
      BY <3>1, <3>2
  <2> QED
    BY <2>5, <2>6
<1>12. off + Len(b) = read' /\ off + Len(b) <= Len(s)
  BY <1>2, <1>3, <1>6, <1>10
<1>13. \A i \in 1..off : ~WaveAt(s, i)
  BY <1>1, <1>3, <1>4, <1>5 DEF Searching
<1>14. PICK r : r = Synced(b)
  OBVIOUS
<1>15. CASE r.state = "sync"
  <2>1. PICK cut \in 0..Len(b) : r.held = From(b, cut + 1) /\ \A i \in 1..(off + cut) : ~WaveAt(s, i)
    BY <1>11, <1>12, <1>13, <1>14, <1>15, SyncedIs
  <2>2. held' = r.held /\ UNCHANGED <<parsing, formats, pcm>>
    BY <1>7, <1>9, <1>14, <1>15 DEF PushBytes
  <2>3. cut + 1 \in 1..(Len(b) + 1) /\ Len(b) - (cut + 1) + 1 = Len(b) - cut /\ Len(b) - cut \in Nat
    BY <1>10
  <2>4. held' \in Seq(Nat) /\ Len(held') = Len(b) - cut
    BY <2>1, <2>2, <2>3, FromIs
  <2>5. \A k \in 1..(Len(b) - cut) : held'[k] = b[(cut + 1) + k - 1]
    <3>1. \A k \in 1..(Len(b) - (cut + 1) + 1) : From(b, cut + 1)[k] = b[(cut + 1) + k - 1]
      BY <2>3, FromIs
    <3> QED
      BY <2>1, <2>2, <2>3, <3>1
  <2>6. WavTypes'
    BY <1>1, <1>2, <1>6, <2>2, <2>4 DEF WavTypes
  <2>7. read' - Len(held') = off + cut /\ Len(held') <= read'
    BY <1>10, <1>12, <2>3, <2>4
  <2>8. ASSUME NEW k \in 1..Len(held') PROVE held'[k] = stream'[(read' - Len(held')) + k]
    <3>1. (cut + 1) + k - 1 \in 1..Len(b) /\ off + ((cut + 1) + k - 1) = (off + cut) + k /\ k \in 1..(Len(b) - cut)
      BY <1>10, <2>3, <2>4
    <3>2. b[(cut + 1) + k - 1] = s[off + ((cut + 1) + k - 1)]
      BY <1>11, <3>1
    <3> QED
      BY <1>2, <1>3, <2>5, <2>7, <3>1, <3>2
  <2>9. \A i \in 1..(read' - Len(held')) : ~WaveAt(stream', i)
    BY <1>2, <1>3, <2>1, <2>7
  <2>10. Searching'
    <3>1. formats' = <<>> /\ pcm' = <<>>
      BY <1>1, <2>2 DEF Searching
    <3>2. \A i \in 1..(read' - Len(held')) : ~WaveAt(stream, i)'
      BY <2>9 DEF WaveAt, RiffAt
    <3> QED
      BY <2>7, <2>8, <3>1, <3>2 DEF Searching
  <2> QED
    BY <2>2, <2>6, <2>10 DEF WavInv
<1>16. CASE r.state # "sync"
  <2>1. PICK i \in 1..(Len(b) - 5) : r.held = From(b, i + 6) /\ FirstWave(s, off + i)
    BY <1>11, <1>12, <1>13, <1>14, <1>16, SyncedIs
  <2>2. PICK u \in Seq(Nat) : u = r.held /\ u = From(b, i + 6) /\ Len(u) = Len(b) - (i + 6) + 1
    <3>1. i + 6 \in 1..(Len(b) + 1)
      BY <1>10
    <3> QED
      BY <2>1, <3>1, FromIs
  <2>3. \A k \in 1..(Len(b) - (i + 6) + 1) : u[k] = b[(i + 6) + k - 1]
    <3>1. i + 6 \in 1..(Len(b) + 1)
      BY <1>10
    <3> QED
      BY <2>2, <3>1, FromIs
  <2>4. PICK p \in ParserStates : p = ChunksOf(u, <<>>)
    BY EmptyIs, StandsThere
  <2>5. parsing' = p.state /\ held' = p.held /\ formats' = p.formats /\ pcm' = p.out
    <3>1. formats = <<>>
      BY <1>1 DEF Searching
    <3> QED
      BY <1>7, <1>9, <1>14, <1>16, <2>2, <2>4, <3>1 DEF PushBytes
  <2>6. Done(parsing', held', formats', pcm') = p
    BY <2>5, StateParts
  <2>7. p.state \in {"chunks", "data", "failed"} /\ p.held \in Seq(Nat) /\ p.formats \in Seq(Nat) /\ p.out \in Seq(Nat)
    BY StateParts
  <2>8. parsing' # "sync" /\ WavTypes'
    <3>1. stream' \in Seq(Nat) /\ read' \in Nat /\ read' <= Len(stream')
      <4>1. stream \in Seq(Nat)
        BY <1>1 DEF WavTypes
      <4> QED
        BY <1>2, <1>6, <4>1
    <3>2. parsing' \in {"chunks", "data", "failed"}
      BY <2>5, <2>7
    <3>3. held' \in Seq(Nat) /\ formats' \in Seq(Nat) /\ pcm' \in Seq(Nat)
      BY <2>5, <2>7
    <3>4. parsing' # "sync" /\ parsing' \in {"sync", "chunks", "data", "failed"}
      BY <3>2
    <3> QED
      BY <3>1, <3>3, <3>4, Zenon DEF WavTypes
  <2>9. u = SubSeq(s, (off + i) + 6, read')
    <3>1. PICK k \in Nat \ {0} : k = (off + i) + 6
      OBVIOUS
    <3>2. PICK e \in Nat : e = read'
      BY <1>12
    <3>3. k <= e + 1 /\ e <= Len(s) /\ e - k + 1 = Len(b) - (i + 6) + 1 /\ Len(b) - (i + 6) + 1 \in Nat
      <4>1. PICK l \in Nat : l = Len(b)
        BY <1>10
      <4>2. i \in 1..(l - 5) /\ e = off + l /\ e <= Len(s)
        BY <1>12, <3>2, <4>1
      <4>3. k <= e + 1 /\ e - k + 1 = l - (i + 6) + 1 /\ l - (i + 6) + 1 \in Nat
        BY <3>1, <4>2
      <4> QED
        BY <4>1, <4>2, <4>3
    <3>4. PICK w \in Seq(Nat) : w = SubSeq(s, k, e)
      BY <3>3, PieceIs
    <3>5. Len(w) = e - k + 1
      BY <3>3, <3>4, PieceIs
    <3>6. \A j \in 1..(e - k + 1) : w[j] = s[k + j - 1]
      BY <3>3, <3>4, PieceIs
    <3>7. Len(w) = Len(u)
      BY <2>2, <3>3, <3>5
    <3>8. ASSUME NEW j \in 1..Len(u) PROVE u[j] = w[j]
      <4>1. j \in 1..(Len(b) - (i + 6) + 1) /\ j \in 1..(e - k + 1) /\ (i + 6) + j - 1 \in 1..Len(b)
            /\ off + ((i + 6) + j - 1) = k + j - 1
        BY <1>10, <2>2, <3>1, <3>3
      <4>2. u[j] = b[(i + 6) + j - 1] /\ b[(i + 6) + j - 1] = s[off + ((i + 6) + j - 1)] /\ w[j] = s[k + j - 1]
        BY <1>11, <2>3, <3>6, <4>1
      <4> QED
        BY <4>1, <4>2
    <3>9. u = w
      BY <3>7, <3>8, SeqEqual
    <3> QED
      BY <3>1, <3>2, <3>4, <3>9
  <2>10. off + i \in 1..Len(s) /\ (off + i) + 5 <= read'
    BY <1>10, <1>12
  <2>11. Parsing'
    <3>1. PICK k \in 1..Len(s) : k = off + i
      BY <2>10
    <3>2. FirstWave(s, k) /\ k + 5 <= read' /\ Done(parsing', held', formats', pcm') \in ParserStates
          /\ Done(parsing', held', formats', pcm') = ChunksOf(SubSeq(s, k + 6, read'), <<>>)
      BY <2>1, <2>4, <2>6, <2>9, <2>10, <3>1
    <3>3. stream' = s
      BY <1>2, <1>3
    <3>4. k \in 1..Len(stream')
      BY <3>3
    <3>5. FirstWave(stream', k) /\ Done(parsing', held', formats', pcm') = ChunksOf(SubSeq(stream', k + 6, read'), <<>>)
      BY <3>2, <3>3
    <3> QED
      BY <3>2, <3>4, <3>5, Zenon DEF Parsing, FirstWave, WaveAt, RiffAt, ChunksOf, Chunks, OneChunk
  <2> QED
    BY <2>8, <2>11 DEF WavInv
<1> QED
  BY <1>15, <1>16

LEMMA ParserGoesOn ==
    ASSUME WavInv, parsing # "sync", NEW n \in Nat \ {0}, PushBytes(n) PROVE WavInv'
<1>1. WavTypes /\ Parsing
  BY DEF WavInv
<1>2. stream' = stream /\ read' = read + n /\ read + n <= Len(stream) /\ read \in Nat /\ read' \in Nat
  BY <1>1 DEF PushBytes, WavTypes
<1>3. PICK s \in Seq(Nat) : s = stream
  BY <1>1 DEF WavTypes
<1>4. PICK i \in 1..Len(s) :
        /\ FirstWave(s, i) /\ i + 5 <= read
        /\ Done(parsing, held, formats, pcm) \in ParserStates
        /\ Done(parsing, held, formats, pcm) = ChunksOf(SubSeq(s, i + 6, read), <<>>)
  BY <1>1, <1>3 DEF Parsing
<1>5. PICK u \in Seq(Nat) : u = SubSeq(s, i + 6, read)
  <2>1. i + 6 \in Nat \ {0} /\ i + 6 <= read + 1 /\ read <= Len(s)
    BY <1>1, <1>2, <1>3, <1>4 DEF WavTypes
  <2> QED
    BY <1>2, <2>1, PieceIs
<1>6. PICK c \in Seq(Nat) : c = SubSeq(s, read + 1, read + n)
  <2>1. read + 1 \in Nat \ {0} /\ read + n \in Nat /\ read + 1 <= (read + n) + 1 /\ read + n <= Len(s)
    BY <1>2, <1>3
  <2> QED
    BY <2>1, PieceIs
<1>7. u \o c = SubSeq(s, i + 6, read')
  <2>1. i + 6 \in Nat \ {0} /\ i + 6 <= read + 1 /\ read <= read + n /\ read + n <= Len(s) /\ read + n \in Nat
    BY <1>2, <1>3, <1>4
  <2>2. SubSeq(s, i + 6, read) \o SubSeq(s, read + 1, read + n) = SubSeq(s, i + 6, read + n)
    BY <1>2, <2>1, PiecesJoin
  <2> QED
    BY <1>2, <1>5, <1>6, <2>2
<1>8. PICK p \in ParserStates : p = Done("chunks", u, <<>>, <<>>)
  BY EmptyIs, DoneFits
<1>9. PICK q \in ParserStates : q = Chunks(p) /\ q = Done(parsing, held, formats, pcm)
  BY <1>4, <1>5, <1>8 DEF ChunksOf
<1>10. q.state = parsing /\ q.held = held /\ q.formats = formats /\ q.out = pcm
  BY <1>9, DoneIs
<1>11. ChunksOf(u \o c, <<>>) = Chunks(Fed(q, c))
  <2>1. p.state = "chunks" /\ p.held = u /\ p.formats = <<>>
    BY <1>8, DoneIs
  <2>2. Fed(p, c) = Done("chunks", u \o c, <<>>, <<>>)
    BY <2>1 DEF Fed
  <2>3. Chunks(Fed(p, c)) = Chunks(Fed(q, c))
    BY <1>9, ChunksMayCome
  <2> QED
    BY <2>2, <2>3 DEF ChunksOf
<1>12. PICK f \in ParserStates : f = Fed(q, c)
  BY FedFits
<1>13. f.state # "chunks" => Chunks(f) = f
  BY OneChunkIs, ChunksOfRested
<1>14. PICK r \in ParserStates : r = Chunks(f)
  BY ChunksRest
<1>15. parsing' = r.state /\ held' = r.held /\ formats' = r.formats /\ pcm' = r.out
  <2>1. CASE parsing = "failed"
    <3>1. UNCHANGED <<parsing, held, formats, pcm>>
      BY <2>1 DEF PushBytes
    <3>2. f = q
      BY <1>10, <1>12, <2>1 DEF Fed
    <3>3. r = q
      BY <1>10, <1>13, <1>14, <2>1, <3>2
    <3> QED
      BY <1>10, <3>1, <3>3
  <2>2. CASE parsing = "data"
    <3>0. PICK out : out = pcm \o c
      OBVIOUS
    <3>1. pcm' = out /\ UNCHANGED <<parsing, held, formats>>
      BY <1>3, <1>6, <2>2, <3>0 DEF PushBytes
    <3>2. f = Done("data", held, formats, out)
      BY <1>10, <1>12, <2>2, <3>0 DEF Fed
    <3>3. f.state = "data" /\ f.held = held /\ f.formats = formats /\ f.out = out
      BY <3>2, DoneIs
    <3>4. r = f
      BY <1>13, <1>14, <3>3
    <3> QED
      BY <2>2, <3>1, <3>3, <3>4
  <2>3. CASE parsing = "chunks"
    <3>1. f = Done("chunks", held \o c, formats, <<>>)
      BY <1>10, <1>12, <2>3 DEF Fed
    <3>2. r = ChunksOf(held \o c, formats)
      BY <1>14, <3>1 DEF ChunksOf
    <3> QED
      BY <1>3, <1>6, <2>3, <3>2 DEF PushBytes
  <2> QED
    BY <1>1, <2>1, <2>2, <2>3 DEF WavTypes
<1>16. Done(parsing', held', formats', pcm') = r
  BY <1>15, StateParts
<1>17. r.state \in {"chunks", "data", "failed"} /\ r.held \in Seq(Nat) /\ r.formats \in Seq(Nat) /\ r.out \in Seq(Nat)
  BY StateParts
<1>18. parsing' # "sync" /\ WavTypes'
  <2>1. stream' \in Seq(Nat) /\ read' \in Nat /\ read' <= Len(stream')
    <3>1. stream \in Seq(Nat)
      BY <1>1 DEF WavTypes
    <3> QED
      BY <1>2, <3>1
  <2>2. parsing' \in {"chunks", "data", "failed"}
    BY <1>15, <1>17
  <2>3. held' \in Seq(Nat) /\ formats' \in Seq(Nat) /\ pcm' \in Seq(Nat)
    BY <1>15, <1>17
  <2>4. parsing' # "sync" /\ parsing' \in {"sync", "chunks", "data", "failed"}
    BY <2>2
  <2> QED
    BY <2>1, <2>3, <2>4, Zenon DEF WavTypes
<1>19. r = ChunksOf(SubSeq(s, i + 6, read'), <<>>)
  BY <1>7, <1>11, <1>12, <1>14
<1>20. Parsing'
  <2>1. stream' = s /\ i + 5 <= read'
    BY <1>2, <1>3, <1>4
  <2>2. i \in 1..Len(stream') /\ FirstWave(stream', i)
        /\ Done(parsing', held', formats', pcm') = ChunksOf(SubSeq(stream', i + 6, read'), <<>>)
    BY <1>4, <1>16, <1>19, <2>1
  <2> QED
    BY <1>16, <2>1, <2>2, Zenon DEF Parsing, FirstWave, WaveAt, RiffAt, ChunksOf, Chunks, OneChunk
<1> QED
  BY <1>18, <1>20 DEF WavInv

LEMMA WavKeeps == WavInv /\ [WavNext]_wavVars => WavInv'
<1> SUFFICES ASSUME WavInv, [WavNext]_wavVars PROVE WavInv'
  OBVIOUS
<1>1. CASE UNCHANGED wavVars
  <2>1. UNCHANGED <<stream, read, parsing, held, formats, pcm>>
    BY <1>1 DEF wavVars
  <2>2. WavTypes'
    BY <2>1 DEF WavInv, WavTypes
  <2>3. (parsing = "sync" => Searching)'
    BY <2>1, Zenon DEF WavInv, Searching, WaveAt, RiffAt
  <2>4. (parsing # "sync" => Parsing)'
    <3>1. SUFFICES ASSUME parsing' # "sync" PROVE Parsing'
      OBVIOUS
    <3>2. Parsing
      BY <2>1, <3>1 DEF WavInv
    <3>3. PICK i \in 1..Len(stream) :
            /\ FirstWave(stream, i) /\ i + 5 <= read
            /\ Done(parsing, held, formats, pcm) \in ParserStates
            /\ Done(parsing, held, formats, pcm) = ChunksOf(SubSeq(stream, i + 6, read), <<>>)
      BY <3>2 DEF Parsing
    <3>4. /\ i \in 1..Len(stream') /\ FirstWave(stream', i) /\ i + 5 <= read'
          /\ Done(parsing', held', formats', pcm') \in ParserStates
          /\ Done(parsing', held', formats', pcm') = ChunksOf(SubSeq(stream', i + 6, read'), <<>>)
      BY <2>1, <3>3
    <3> QED
      BY <3>4, Zenon DEF Parsing, FirstWave, WaveAt, RiffAt, ChunksOf, Chunks, OneChunk
  <2> QED
    BY <2>2, <2>3, <2>4 DEF WavInv
<1>2. CASE WavNext
  <2>1. PICK n \in Nat \ {0} : PushBytes(n)
    <3>1. Len(stream) \in Nat
      BY DEF WavInv, WavTypes
    <3> QED
      BY <1>2, <3>1 DEF WavNext
  <2>2. CASE parsing = "sync"
    BY <2>1, <2>2, HeaderFound
  <2>3. CASE parsing # "sync"
    BY <2>1, <2>3, ParserGoesOn
  <2> QED
    BY <2>2, <2>3
<1> QED
  BY <1>1, <1>2

LEMMA WavFits == WavInv => CutsDoNotShow
<1> SUFFICES ASSUME WavInv PROVE CutsDoNotShow
  OBVIOUS
<1>1. WavTypes
  BY DEF WavInv
<1>2. PICK s \in Seq(Nat) : s = stream
  BY <1>1 DEF WavTypes
<1>3. read \in Nat /\ read <= Len(s)
  BY <1>1, <1>2 DEF WavTypes
<1>4. PICK b \in Seq(Nat) : b = SubSeq(s, 1, read)
  <2>1. 1 \in Nat \ {0} /\ 1 <= read + 1
    BY <1>3
  <2> QED
    BY <1>3, <2>1, PieceIs
<1>5. Len(b) = read
  <2>1. 1 \in Nat \ {0} /\ 1 <= read + 1 /\ read - 1 + 1 = read
    BY <1>3
  <2>2. Len(SubSeq(s, 1, read)) = read - 1 + 1
    BY <1>3, <2>1, PieceIs
  <2> QED
    BY <1>4, <2>1, <2>2
<1>6. \A k \in 1..read : b[k] = s[k]
  <2>1. 1 \in Nat \ {0} /\ 1 <= read + 1
    BY <1>3
  <2>2. \A k \in 1..(read - 1 + 1) : SubSeq(s, 1, read)[k] = s[1 + k - 1]
    BY <1>3, <2>1, PieceIs
  <2>3. \A k \in 1..read : k \in 1..(read - 1 + 1) /\ 1 + k - 1 = k
    BY <1>3
  <2> QED
    BY <1>4, <2>2, <2>3
<1>7. \A i \in Nat \ {0} : i \in Starts(b) <=> i + 5 <= read /\ WaveAt(s, i)
  <2> SUFFICES ASSUME NEW i \in Nat \ {0} PROVE i \in Starts(b) <=> i + 5 <= read /\ WaveAt(s, i)
    OBVIOUS
  <2>1. i \in Starts(b) <=> i \in 1..(read - 3) /\ RiffAt(b, i) /\ i + 5 <= read /\ b[i + 5] = WAVE
    BY <1>5, SignaturesAre DEF Starts
  <2>2. CASE i + 5 <= read
    <3>1. i \in 1..read /\ i + 1 \in 1..read /\ i + 2 \in 1..read /\ i + 3 \in 1..read /\ i + 5 \in 1..read
          /\ i \in 1..(read - 3) /\ i + 5 <= Len(s)
      BY <1>3, <2>2
    <3>2. b[i] = s[i] /\ b[i + 1] = s[i + 1] /\ b[i + 2] = s[i + 2] /\ b[i + 3] = s[i + 3] /\ b[i + 5] = s[i + 5]
      BY <1>6, <3>1
    <3>3. RiffAt(b, i) <=> RiffAt(s, i)
      BY <3>2, Zenon DEF RiffAt
    <3>4. WaveAt(s, i) <=> RiffAt(b, i) /\ b[i + 5] = WAVE
      BY <3>1, <3>2, <3>3 DEF WaveAt
    <3> QED
      BY <2>1, <2>2, <3>1, <3>4
  <2>3. CASE ~(i + 5 <= read)
    BY <2>1, <2>3
  <2> QED
    BY <2>2, <2>3
<1>8. Starts(b) \in SUBSET (Nat \ {0})
  BY SignaturesAre DEF Starts
<1>9. PICK whole : whole = Meaning(b)
  OBVIOUS
<1>10. CASE parsing = "sync"
  <2>1. Searching
    BY <1>10 DEF WavInv
  <2>2. ASSUME Signatures(held) = {} PROVE whole.state = "sync"
    <3>1. PICK h \in Nat : h = Len(held) /\ h <= read
      BY <1>1, <2>1 DEF WavTypes, Searching
    <3>2. PICK off \in Nat : off = read - h
      <4>1. h <= read /\ read \in Nat
        BY <1>3, <3>1
      <4> QED
        BY <4>1
    <3>3. \A k \in 1..h : held[k] = s[off + k]
      BY <1>2, <2>1, <3>1, <3>2 DEF Searching
    <3>4. \A i \in 1..off : ~WaveAt(s, i)
      BY <1>2, <2>1, <3>1, <3>2 DEF Searching
    <3>5. \A k \in 1..(h - 3) : ~RiffAt(held, k)
      <4>1. held \in Seq(Nat)
        BY <1>1 DEF WavTypes
      <4> QED
        BY <2>2, <3>1, <4>1, SignaturesAre
    <3>6. ASSUME NEW i \in Starts(b) PROVE FALSE
      <4>1. i \in Nat \ {0} /\ i + 5 <= read /\ WaveAt(s, i)
        BY <1>7, <1>8
      <4>2. i \notin 1..off
        BY <3>4, <4>1
      <4>3. PICK k \in Nat : k = i - off
        BY <4>1, <4>2
      <4>4. k \in 1..h /\ k + 1 \in 1..h /\ k + 2 \in 1..h /\ k + 3 \in 1..h /\ k \in 1..(h - 3)
        BY <1>3, <3>1, <3>2, <4>1, <4>2, <4>3
      <4>5. off + k = i /\ off + (k + 1) = i + 1 /\ off + (k + 2) = i + 2 /\ off + (k + 3) = i + 3
        BY <4>1, <4>3
      <4>6. held[k] = s[i] /\ held[k + 1] = s[i + 1] /\ held[k + 2] = s[i + 2] /\ held[k + 3] = s[i + 3]
        BY <3>3, <4>4, <4>5
      <4>7. RiffAt(held, k)
        BY <4>1, <4>6 DEF WaveAt, RiffAt
      <4> QED
        BY <3>5, <4>4, <4>7
    <3>7. whole = Done("sync", <<>>, <<>>, <<>>)
      BY <1>9, <3>6 DEF Meaning
    <3> QED
      BY <3>7, DoneIs
  <2> QED
    BY <1>2, <1>4, <1>9, <1>10, <2>2 DEF CutsDoNotShow
<1>11. CASE parsing # "sync"
  <2>1. Parsing
    BY <1>11 DEF WavInv
  <2>2. PICK i \in 1..Len(s) :
          /\ FirstWave(s, i) /\ i + 5 <= read
          /\ Done(parsing, held, formats, pcm) \in ParserStates
          /\ Done(parsing, held, formats, pcm) = ChunksOf(SubSeq(s, i + 6, read), <<>>)
    BY <1>2, <2>1 DEF Parsing
  <2>3. i \in Nat \ {0} /\ i \in Starts(b)
    BY <1>7, <2>2 DEF FirstWave
  <2>4. First(Starts(b)) = i
    <3>1. PICK m \in Starts(b) : m = First(Starts(b)) /\ \A j \in Starts(b) : m <= j
      <4>1. Starts(b) \in SUBSET Nat /\ Starts(b) # {}
        BY <1>8, <2>3
      <4> QED
        BY <4>1, FirstIs
    <3>2. m \in Nat \ {0} /\ m <= i /\ WaveAt(s, m)
      BY <1>7, <1>8, <2>3, <3>1
    <3>3. m \notin 1..(i - 1)
      BY <2>2, <3>2 DEF FirstWave
    <3>4. m = i
      BY <2>3, <3>2, <3>3
    <3> QED
      BY <3>1, <3>4
  <2>5. From(b, i + 6) = SubSeq(s, i + 6, read)
    <3>1. i + 6 \in 1..(Len(b) + 1) /\ i + 6 \in Nat \ {0} /\ i + 6 <= read + 1 /\ Len(b) - (i + 6) + 1 = read - (i + 6) + 1
      BY <1>3, <1>5, <2>2, <2>3
    <3>2. PICK v \in Seq(Nat) : v = From(b, i + 6)
      BY <3>1, FromIs
    <3>3. Len(v) = read - (i + 6) + 1
      BY <3>1, <3>2, FromIs
    <3>4. \A j \in 1..(read - (i + 6) + 1) : v[j] = b[(i + 6) + j - 1]
      <4>1. \A j \in 1..(Len(b) - (i + 6) + 1) : From(b, i + 6)[j] = b[(i + 6) + j - 1]
        BY <3>1, FromIs
      <4> QED
        BY <3>1, <3>2, <4>1
    <3>5. PICK w \in Seq(Nat) : w = SubSeq(s, i + 6, read)
      BY <1>3, <3>1, PieceIs
    <3>6. Len(w) = read - (i + 6) + 1
      BY <1>3, <3>1, <3>5, PieceIs
    <3>7. \A j \in 1..(read - (i + 6) + 1) : w[j] = s[(i + 6) + j - 1]
      BY <1>3, <3>1, <3>5, PieceIs
    <3>8. ASSUME NEW j \in 1..Len(v) PROVE v[j] = w[j]
      <4>1. j \in 1..(read - (i + 6) + 1) /\ (i + 6) + j - 1 \in 1..read
        BY <1>3, <2>3, <3>3
      <4> QED
        BY <1>6, <3>4, <3>7, <4>1
    <3>9. v = w
      BY <3>3, <3>6, <3>8, SeqEqual
    <3> QED
      BY <3>2, <3>5, <3>9
  <2>6. whole = Done(parsing, held, formats, pcm)
    <3>1. Starts(b) # {}
      BY <2>3
    <3>2. Meaning(b) = ChunksOf(From(b, i + 6), <<>>)
      BY <2>4, <3>1, Zenon DEF Meaning, HeaderSymbols
    <3> QED
      BY <1>9, <2>2, <2>5, <3>2
  <2>7. whole.state = parsing /\ whole.formats = formats /\ whole.out = pcm
    BY <2>6, DoneIs
  <2>8. pcm # <<>> => formats # <<>>
    BY <2>2, <2>6, <2>7, StateParts
  <2> QED
    BY <1>2, <1>4, <1>9, <1>11, <2>7, <2>8 DEF CutsDoNotShow
<1> QED
  BY <1>10, <1>11

-----------------------------------------------------------------------------
(* The media of a conversation, in one specification *)

\* What holds of the agent, the router and the service, whichever part a behaviour is about: the agent
\* alone may interrupt itself, and then no service was ever started.
TextsInv ==
    /\ AgentInv /\ RouterInv /\ ServiceInv
    /\ IF part = "agent" THEN bind = "none" /\ halt = "no" ELSE OneAtATime

LEMMA TextsKeep ==
    ASSUME TextsInv, [MCNext]_allVars PROVE TextsInv'
<1>1. CASE part = "text" /\ TextNext /\ UNCHANGED <<part, audioVars, vars>>
  <2>1. TextInv' /\ part' = part
    BY <1>1, TextKeeps DEF TextsInv, TextInv
  <2> QED
    BY <1>1, <2>1 DEF TextsInv, TextInv
<1>2. CASE part = "agent" /\ AgentNext /\ UNCHANGED <<part, audioVars, vars, serviceVars, routerVars, posts>>
  <2>1. AgentInv'
    BY <1>2, AgentKeeps DEF TextsInv
  <2>2. lineOf' = lineOf
    BY <1>2 DEF AgentNext, AskTurn, Settle, Skip, ModelAnswers, Voices, LineEnds, NoteText, GoesIdle
  <2>3. RouterInv' /\ ServiceInv'
    BY <1>2, <2>2, BridgeRests DEF TextsInv
  <2> QED
    BY <1>2, <2>1, <2>3 DEF TextsInv, serviceVars
<1>3. CASE UNCHANGED <<part, textVars>>
  <2>1. AgentInv' /\ lineOf' = lineOf
    BY <1>3, AgentRests DEF TextsInv, textVars
  <2>2. RouterInv' /\ ServiceInv'
    BY <1>3, <2>1, BridgeRests DEF TextsInv, textVars
  <2>3. OneAtATime => OneAtATime'
    BY <1>3 DEF OneAtATime, UnderWay, textVars, agentVars, routerVars
  <2>4. UNCHANGED <<part, bind, halt>>
    BY <1>3 DEF textVars, serviceVars
  <2> QED
    BY <2>1, <2>2, <2>3, <2>4 DEF TextsInv
<1> QED
  BY <1>1, <1>2, <1>3 DEF MCNext, allVars

LEMMA TextsStart == MCInit => TextsInv
BY TextStart DEF MCInit, TextInit, TextInv, TextsInv

\* Whichever part a behaviour is about, each part of it is a behaviour of its own.
LEMMA EachPlays == MCSpec => CaptureSpec /\ PlaybackSpec /\ RecorderSpec
<1>1. MCInit => CaptureInit /\ PlaybackInit /\ RecorderInit
  BY DEF MCInit
<1>2. [MCNext]_allVars => [CaptureNext]_captureVars
  BY DEF MCNext, allVars, audioVars
<1>3. [MCNext]_allVars => [PlaybackNext]_playbackVars
  BY DEF MCNext, allVars, audioVars
<1>4. [MCNext]_allVars => [RecorderNext]_recorderVars
  BY DEF MCNext, allVars, audioVars
<1> QED
  BY <1>1, <1>2, <1>3, <1>4, PTL DEF MCSpec, CaptureSpec, PlaybackSpec, RecorderSpec

\* For any number of candidates, players and pieces: one source and one player at a time, the source
\* that was asked for, and nothing of a reply that was cut off (localScrcpy.ts, callAudio.ts).
THEOREM OneOfEach == MCSpec => []OneSourceOnePlayer
<1>1. (OnlyOneRuns /\ PinIsKept) /\ (OnePlayer /\ NothingStaleIsHeard) => OneSourceOnePlayer
  BY DEF OneSourceOnePlayer
<1> QED
  BY <1>1, OneSourceAtATime, OneVoiceAtATime, EachPlays, PTL

\* The same of the recording, in the run that has all the media.
THEOREM RecordingsStayWhole == MCSpec => []RecordingIsWhole
  BY RecordingStaysWhole, EachPlays, PTL

\* For any lines, questions and limits, asked by a caller at any time or by a customer's texts: what is
\* written under a question is its answer, and of the turns of a line only the newest can be heard.
THEOREM AnswersAlwaysFit == MCSpec => []AnswersFit
<1>1. TextsInv => AnswersFit
  BY TextFits DEF TextsInv
<1>2. TextsInv /\ [MCNext]_allVars => TextsInv'
  BY TextsKeep
<1> QED
  BY <1>1, <1>2, TextsStart, PTL DEF MCSpec

\* For any customers, messages, posts, memory and lives of the service: a message is answered once and
\* in order, none at the cost of another, and a service that has stopped says nothing.
THEOREM TextsAreAlwaysAnswered == MCSpec => []TextsAreAnswered
<1>1. TextsInv => TextsAreAnswered
  BY TextFits DEF TextsInv
<1>2. TextsInv /\ [MCNext]_allVars => TextsInv'
  BY TextsKeep
<1> QED
  BY <1>1, <1>2, TextsStart, PTL DEF MCSpec

\* The parser, the resampler and the pipeline do nothing that is not theirs.
LEMMA SoundPlays ==
    /\ MCInit => WavInit /\ ResamplerInit /\ VoiceInit
    /\ [MCNext]_allVars => [WavNext]_wavVars /\ [ResamplerNext]_resamplerVars /\ [VoiceNext]_voiceVars
<1>1. MCInit => WavInit /\ ResamplerInit /\ VoiceInit
  BY DEF MCInit
<1>2. [MCNext]_allVars => [WavNext]_wavVars
  BY DEF MCNext, allVars, audioVars
<1>3. [MCNext]_allVars => [ResamplerNext]_resamplerVars
  BY DEF MCNext, allVars, audioVars
<1>4. [MCNext]_allVars => [VoiceNext]_voiceVars
  BY DEF MCNext, allVars, audioVars
<1> QED
  BY <1>1, <1>2, <1>3, <1>4

\* For any stream and any cut of it: what the parser has passed on, the formats it has reported and where
\* it stands are what the bytes mean in one piece, and no sound comes before its format (wavStream.ts).
THEOREM CutsNeverShow == MCSpec => []CutsDoNotShow
<1>1. MCInit => WavInv
  BY SoundPlays, WavStarts
<1>2. WavInv /\ [MCNext]_allVars => WavInv'
  BY SoundPlays, WavKeeps
<1> QED
  BY <1>1, <1>2, WavFits, PTL DEF MCSpec

\* For any two rates, any length of stream and any cut of it, bytes between two samples too: the samples
\* are those of the stream in one piece, each counted once and none before what it is made from has
\* come, and no buffer is written past its end (resample.ts).
THEOREM SeamsNeverShow == MCSpec => [](ChunksDoNotShow /\ BuffersSuffice)
<1>1. MCInit => ResamplerInv
  BY SoundPlays, ResamplerStarts
<1>2. ResamplerInv /\ [MCNext]_allVars => ResamplerInv'
  BY SoundPlays, ResamplerKeeps
<1> QED
  BY <1>1, <1>2, ResamplerFits, PTL DEF MCSpec

PipelineInv == VoiceInv /\ SamplesInv

LEMMA PipelineHolds == MCSpec => []PipelineInv
<1>1. MCInit => PipelineInv
  BY SoundPlays, VoiceStarts, SamplesStart DEF PipelineInv
<1>2. PipelineInv /\ [MCNext]_allVars => PipelineInv'
  BY SoundPlays, VoiceKeeps, SamplesKeep DEF PipelineInv
<1> QED
  BY <1>1, <1>2, PTL DEF MCSpec

\* For any run lengths and any size of chunk: the detector is on exactly when the frames so far say so,
\* wherever they were cut and whatever the format did; the starts and ends a reader is sent
\* alternate, and the last start has no end exactly while an utterance is open; and none stays open
\* once a whole chunk has passed in which the detector was off (vad.ts, pipeline.ts, dualStream.ts).
THEOREM SpeechIsMarked == MCSpec => [](DetectorRemembers /\ UtterancesPair /\ SilenceEndsIt)
<1>1. PipelineInv => DetectorRemembers /\ UtterancesPair /\ SilenceEndsIt
  BY VoiceFits DEF PipelineInv
<1> QED
  BY <1>1, PipelineHolds, PTL

\* For any formats, rates and cuts into buffers: a buffer is never off by a whole sample of the source
\* and half a one of the target, and every sample it became is in a frame or waits for one (pcm.ts,
\* pipeline.ts).
THEOREM CutsStayCheap == MCSpec => [](CutsCostLittle /\ NoSampleIsLost)
<1>1. PipelineInv => CutsCostLittle /\ NoSampleIsLost
  BY DEF PipelineInv, SamplesInv
<1> QED
  BY <1>1, PipelineHolds, PTL

\* All of it: whatever the cuts, the parser and the resampler make the same of the bytes, the pipeline
\* makes nearly the same, and its utterances are those of the frames it judged.
THEOREM SoundStaysWhole == MCSpec => []SoundIsWhole
<1>1. CutsDoNotShow /\ (ChunksDoNotShow /\ BuffersSuffice) /\ (CutsCostLittle /\ NoSampleIsLost)
      /\ (DetectorRemembers /\ UtterancesPair /\ SilenceEndsIt) => SoundIsWhole
  BY DEF SoundIsWhole
<1> QED
  BY <1>1, CutsNeverShow, SeamsNeverShow, SpeechIsMarked, CutsStayCheap, PTL

=============================================================================
