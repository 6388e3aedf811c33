------------------------ MODULE Orchestrator_proofs ------------------------
(***************************************************************************)
(* Proofs about the call loop, for any pool of devices.  The inductive     *)
(* invariant says how far a call's resources have come at each await of    *)
(* its thread (Shape), and that its stream is open exactly while it holds  *)
(* the session key (Billed).                                               *)
(***************************************************************************)
EXTENDS Orchestrator, TLAPS

AfterOpen == {"starting", "greeting", "live", "draining", "closingAudio", "terminating"}

InTeardown == {"draining", "closingAudio", "terminating", "hangingUp", "notifying"}

Shape(c) ==
    /\ c.at = "none" <=> c = NoCall
    /\ c.at = "none" <=> c.machine = "idle"
    /\ c.at = "notifying" <=> c.machine = "ended"
    /\ c.at = "answering" => c.machine = "incoming"
    /\ c.at = "opening" => c.machine = "answered"
    /\ c.at \in {"starting", "greeting", "live"} => c.machine # "incoming"
    /\ c.machine = "incoming" => ~c.answered
    /\ c.machine \in {"answered", "talking"} => c.answered
    /\ c.outcome = "missed" => c.at \in InTeardown /\ ~c.answered
    /\ c.stream = "open" => c.at \in AfterOpen /\ c.answered
    /\ c.stream = "none" => c.turns = 0 /\ ~c.asking
    /\ c.at \in {"answering", "opening"} => c.stream = "none"
    /\ c.recording => c.at \in AfterOpen \ {"terminating"}
    /\ c.capture => c.at \in {"greeting", "live", "draining"}
    /\ c.timer => c.at = "live"

Billed == \A d \in Devices : session[d] = "call" <=> call[d].stream = "open"

Shapes == \A d \in Devices : Shape(call[d])

IInv == TypeOK /\ Shapes /\ Billed

-----------------------------------------------------------------------------
(* What the effects do to one ActiveCall *)

\* e is c after something that runs beside the call's own thread.
Kept(c, e) ==
    /\ e \in ActiveCall
    /\ e.at = c.at /\ e.answered = c.answered /\ e.stream = c.stream
    /\ e.recording = c.recording /\ e.capture = c.capture /\ e.timer = c.timer
    /\ e.machine = c.machine \/ (c.machine = "answered" /\ e.machine = "talking" /\ c.at # "opening")
    /\ e.outcome = c.outcome \/ e.outcome \in {"completed", "failed"}
    /\ c.stream = "none" => e.turns = c.turns /\ e.asking = c.asking

\* A call in flight keeps its shape through what runs beside it.
LEMMA KeptShape ==
    ASSUME NEW c \in ActiveCall, NEW e, c.at # "none", Shape(c), Kept(c, e)
    PROVE  Shape(e)
  BY DEF Kept, Shape, AfterOpen, InTeardown, NoCall

\* requestEnd() sets an outcome and a reason once, and resolves `finished'.
LEMMA RequestEndKept ==
    ASSUME NEW c \in ActiveCall, NEW outcome \in {"completed", "failed"}
    PROVE  /\ Kept(c, RequestEnd(c, outcome))
           /\ RequestEnd(c, outcome).machine = c.machine
           /\ RequestEnd(c, outcome).turns = c.turns
           /\ RequestEnd(c, outcome).asking = c.asking
           /\ RequestEnd(c, outcome).lines = c.lines
  BY DEF Kept, RequestEnd, OrElse, ActiveCall, Null, Outcome, Reason

\* markTalking() does nothing but to take an answered call to talking.
LEMMA MarkTalkingKept ==
    ASSUME NEW c \in ActiveCall, c.at # "opening"
    PROVE  /\ Kept(c, MarkTalking(c))
           /\ MarkTalking(c).turns = c.turns
           /\ MarkTalking(c).asking = c.asking
           /\ MarkTalking(c).lines = c.lines
  BY DEF Kept, MarkTalking, ActiveCall, CallState

LEMMA KeptTrans ==
    ASSUME NEW c \in ActiveCall, NEW e, NEW f, Kept(c, e), Kept(e, f)
    PROVE  Kept(c, f)
  BY DEF Kept

\* A turn that leaves the chain changes nothing but the chain.
LEMMA TurnDoneKept ==
    ASSUME NEW c \in ActiveCall, c.stream # "none"
    PROVE  /\ Kept(c, TurnDone(c))
           /\ TurnDone(c).machine = c.machine
           /\ TurnDone(c).lines = c.lines
<1> DEFINE n == IF c.ahead > 0 THEN c.ahead - 1 ELSE 0
<1>1. n \in Nat
  BY DEF ActiveCall
<1>2. TurnDone(c) = [c EXCEPT !.asking = FALSE, !.ahead = n]
  BY DEF TurnDone, ActiveCall
<1> HIDE DEF n
<1> QED
  BY <1>1, <1>2 DEF Kept, ActiveCall

\* speak() marks talking, adds a line and may ask for the end - or does nothing,
\* when the call has ended.
LEMMA SpeakKept ==
    ASSUME NEW c \in ActiveCall, c.at # "opening",
           NEW audio \in BOOLEAN, NEW text \in BOOLEAN, NEW hangUp \in BOOLEAN
    PROVE  /\ Kept(c, Speak(c, audio, text, hangUp))
           /\ c.machine = "ended" => Speak(c, audio, text, hangUp) = c
<1> DEFINE played == IF audio THEN MarkTalking(c) ELSE c
           said   == IF text THEN [played EXCEPT !.lines = @ + 1] ELSE played
<1>1. Kept(c, c)
  BY DEF Kept
<1>2. Kept(c, played)
  BY <1>1, MarkTalkingKept
<1>3. Kept(played, said)
  <2>1. played \in ActiveCall
    BY <1>2 DEF Kept
  <2> HIDE DEF played
  <2> QED
    BY <2>1 DEF Kept, ActiveCall
<1>4. Kept(c, said)
  <2> HIDE DEF played, said
  <2> QED
    BY <1>2, <1>3, KeptTrans
<1>5. said \in ActiveCall
  BY <1>3 DEF Kept
<1>6. Kept(said, RequestEnd(said, "completed"))
  BY <1>5, RequestEndKept
<1>7. Kept(c, RequestEnd(said, "completed"))
  <2> HIDE DEF played, said
  <2> QED
    BY <1>4, <1>6, KeptTrans
<1> QED
  BY <1>1, <1>4, <1>7 DEF Speak

\* teardown() starts: the thread moves on, the timer is off.
LEMMA EnterTeardownFields ==
    ASSUME NEW c \in ActiveCall
    PROVE  LET e == EnterTeardown(c)
           IN  /\ e \in ActiveCall /\ e.at = "draining" /\ e.timer = FALSE
               /\ e.machine = c.machine /\ e.answered = c.answered
               /\ e.outcome = c.outcome /\ e.stream = c.stream
               /\ e.recording = c.recording /\ e.capture = c.capture
               /\ e.turns = c.turns /\ e.asking = c.asking /\ e.lines = c.lines
<1> DEFINE n == c.turns + (IF c.asking THEN 1 ELSE 0)
<1>1. n \in Nat
  BY DEF ActiveCall
<1>2. EnterTeardown(c) = [c EXCEPT !.at = "draining", !.timer = FALSE, !.ahead = n]
  BY DEF EnterTeardown
<1> HIDE DEF n
<1> QED
  BY <1>1, <1>2 DEF ActiveCall, Point

\* A step of the set-up that throws: teardown() starts with an outcome.
LEMMA FailFields ==
    ASSUME NEW c \in ActiveCall, NEW why \in Reason
    PROVE  LET e == Fail(c, why)
           IN  /\ e \in ActiveCall /\ e.at = "draining" /\ e.timer = FALSE
               /\ e.machine = c.machine /\ e.answered = c.answered
               /\ e.outcome = "missed" => c.outcome = "missed" \/ c.machine = "incoming"
               /\ e.stream = c.stream
               /\ e.recording = c.recording /\ e.capture = c.capture
               /\ e.turns = c.turns /\ e.asking = c.asking /\ e.lines = c.lines
<1> DEFINE f == [c EXCEPT !.outcome = OrElse(@, IF c.machine = "incoming" THEN "missed" ELSE "failed"),
                          !.why = OrElse(@, why)]
<1>1. /\ f \in ActiveCall
      /\ f.machine = c.machine /\ f.answered = c.answered /\ f.stream = c.stream
      /\ f.outcome = "missed" => c.outcome = "missed" \/ c.machine = "incoming"
      /\ f.recording = c.recording /\ f.capture = c.capture
      /\ f.turns = c.turns /\ f.asking = c.asking /\ f.lines = c.lines
  BY DEF ActiveCall, OrElse, Outcome, Reason, Null
<1>2. Fail(c, why) = EnterTeardown(f)
  BY DEF Fail
<1> HIDE DEF f
<1>3. LET e == EnterTeardown(f)
      IN  /\ e \in ActiveCall /\ e.at = "draining" /\ e.timer = FALSE
          /\ e.machine = f.machine /\ e.answered = f.answered
          /\ e.outcome = f.outcome /\ e.stream = f.stream
          /\ e.recording = f.recording /\ e.capture = f.capture
          /\ e.turns = f.turns /\ e.asking = f.asking /\ e.lines = f.lines
  BY <1>1, EnterTeardownFields
<1> QED
  BY <1>1, <1>2, <1>3

-----------------------------------------------------------------------------
(* One step of one call *)

\* The moves of one device that the abstract life cycle knows: c and s are its call
\* and the holder of its session key before the step, e and t after it.
Legal(c, s, e, t) ==
    \/ e.machine = c.machine /\ (s = "call" <=> t = "call")
    \/ /\ s = "call" <=> t = "call"
       /\ <<c.machine, e.machine>> \in {<<"idle", "incoming">>, <<"incoming", "answered">>,
                                       <<"answered", "talking">>, <<"ended", "idle">>}
    \/ c.machine \in {"incoming", "answered", "talking"} /\ e.machine = "ended"
       /\ s # "call" /\ t # "call"
    \/ e.machine = c.machine /\ c.machine = "answered" /\ s # "call" /\ t = "call"
    \/ e.machine = c.machine /\ s = "call" /\ t # "call"

\* What the proof asks of every step.
Quiet == \A d \in Devices : call[d].machine = "ended" /\ call'[d].machine = "ended" =>
             call'[d].lines = call[d].lines

Good == IInv' /\ Quiet /\ [Lifecycle!Next]_(Lifecycle!vars)

Others == watching' \in BOOLEAN
          /\ line' \in [Devices -> {"quiet", "ringing", "up"}]
          /\ phase' \in [Devices -> {"online", "incoming", "in-call"}]
          /\ hits' \in [Devices -> 0..MaxPolls]

\* A step changes one call, to one of the right shape, in a legal move.
LEMMA OneCall ==
    ASSUME IInv, NEW d \in Devices, NEW e \in ActiveCall,
           NEW t \in {"free", "call", "manual"},
           call' = [call EXCEPT ![d] = e],
           session' = [session EXCEPT ![d] = t],
           Others,
           Shape(e),
           t = "call" <=> e.stream = "open",
           Legal(call[d], session[d], e, t),
           call[d].machine = "ended" /\ e.machine = "ended" => e.lines = call[d].lines
    PROVE  Good
<1>1. TypeOK'
  BY DEF IInv, TypeOK, Others
<1>2. Shapes' /\ Billed'
  BY DEF IInv, TypeOK, Shapes, Billed
<1>3. Quiet
  BY DEF IInv, TypeOK, Quiet
<1> DEFINE state == [x \in Devices |-> call[x].machine]
           meter == [x \in Devices |-> session[x] = "call"]
<1>4. /\ state' = [state EXCEPT ![d] = e.machine]
      /\ meter' = [meter EXCEPT ![d] = (t = "call")]
      /\ state[d] = call[d].machine
      /\ meter[d] <=> session[d] = "call"
      /\ state \in [Devices -> CallState]
      /\ meter \in [Devices -> BOOLEAN]
  BY DEF IInv, TypeOK, ActiveCall
<1>5. e.machine = call[d].machine => state' = state
  BY <1>4
<1>6. (session[d] = "call" <=> t = "call") => meter' = meter
  BY <1>4
<1>7. [Lifecycle!Next]_(Lifecycle!vars)
  <2>1. CASE e.machine = call[d].machine /\ (session[d] = "call" <=> t = "call")
    BY <2>1, <1>5, <1>6 DEF Lifecycle!vars
  <2>2. CASE /\ session[d] = "call" <=> t = "call"
             /\ <<call[d].machine, e.machine>> \in {<<"idle", "incoming">>, <<"incoming", "answered">>,
                                       <<"answered", "talking">>, <<"ended", "idle">>}
    <3>1. meter' = meter
      BY <2>2, <1>6
    <3> QED
      BY <2>2, <3>1, <1>4 DEF Lifecycle!Next, Lifecycle!Ring, Lifecycle!Answer,
                              Lifecycle!Talk, Lifecycle!Rest, Lifecycle!Move
  <2>3. CASE /\ call[d].machine \in {"incoming", "answered", "talking"} /\ e.machine = "ended"
             /\ session[d] # "call" /\ t # "call"
    <3>1. meter' = meter /\ ~meter[d]
      BY <2>3, <1>4, <1>6
    <3> QED
      BY <2>3, <3>1, <1>4 DEF Lifecycle!Next, Lifecycle!End, Lifecycle!Move
  <2>4. CASE /\ e.machine = call[d].machine /\ call[d].machine = "answered"
             /\ session[d] # "call" /\ t = "call"
    <3>1. state' = state
      BY <2>4, <1>5
    <3> QED
      BY <2>4, <3>1, <1>4 DEF Lifecycle!Next, Lifecycle!StartMeter
  <2>5. CASE e.machine = call[d].machine /\ session[d] = "call" /\ t # "call"
    <3>1. state' = state
      BY <2>5, <1>5
    <3> QED
      BY <2>5, <3>1, <1>4 DEF Lifecycle!Next, Lifecycle!StopMeter
  <2> QED
    BY <2>1, <2>2, <2>3, <2>4, <2>5 DEF Legal
<1> QED
  BY <1>1, <1>2, <1>3, <1>7 DEF Good, IInv

\* The facts every step starts from.
LEMMA Facts ==
    ASSUME IInv, NEW d \in Devices
    PROVE  /\ call[d] \in ActiveCall /\ Shape(call[d])
           /\ session[d] \in {"free", "call", "manual"}
           /\ session[d] = "call" <=> call[d].stream = "open"
           /\ session = [session EXCEPT ![d] = session[d]]
           /\ call = [call EXCEPT ![d] = call[d]]
           /\ call[d].at # "none" => call[d].machine # "idle"
  BY DEF IInv, TypeOK, Shapes, Billed, Shape

\* Something beside the call's own thread touches one call.
LEMMA KeptGood ==
    ASSUME IInv, NEW d \in Devices, NEW e, call[d].at # "none", Kept(call[d], e),
           call' = [call EXCEPT ![d] = e],
           UNCHANGED session, Others,
           call[d].machine = "ended" /\ e.machine = "ended" => e.lines = call[d].lines
    PROVE  Good
<1>1. e \in ActiveCall /\ Shape(e)
  BY Facts, KeptShape DEF Kept
<1>2. session' = [session EXCEPT ![d] = session[d]]
  BY Facts
<1>3. session[d] = "call" <=> e.stream = "open"
  BY Facts DEF Kept
<1>4. Legal(call[d], session[d], e, session[d])
  BY DEF Kept, Legal
<1> QED
  BY <1>1, <1>2, <1>3, <1>4, Facts, OneCall

\* A step of the world, or of the watch, touches no call.
LEMMA NoCallTouched ==
    ASSUME IInv, UNCHANGED call, Others,
           session' \in [Devices -> {"free", "call", "manual"}],
           \A d \in Devices : session'[d] = "call" <=> session[d] = "call"
    PROVE  Good
<1>1. IInv'
  BY DEF IInv, TypeOK, Others, Shapes, Billed
<1>2. Quiet
  BY DEF Quiet
<1>3. UNCHANGED Lifecycle!vars
  BY DEF Lifecycle!vars
<1> QED
  BY <1>1, <1>2, <1>3 DEF Good

-----------------------------------------------------------------------------
(* The steps *)

LEMMA StartStep == ASSUME IInv, Start PROVE Good
<1> USE DEF Start
<1>1. Others
  BY DEF IInv, TypeOK, Others
<1> QED
  BY <1>1, NoCallTouched DEF IInv, TypeOK

LEMMA StopStep == ASSUME IInv, Stop PROVE Good
<1> USE DEF Stop
<1>1. Others
  BY DEF IInv, TypeOK, Others
<1> QED
  BY <1>1, NoCallTouched DEF IInv, TypeOK

LEMMA PollAsksStep == ASSUME IInv, NEW d \in Devices, PollAsks(d) PROVE Good
<1> USE DEF PollAsks
<1>1. hits' \in [Devices -> 0..MaxPolls]
  BY PoolAssumption DEF IInv, TypeOK
<1>2. Others
  BY <1>1 DEF IInv, TypeOK, Others
<1> QED
  BY <1>2, NoCallTouched DEF IInv, TypeOK

LEMMA PassMoves ==
    ASSUME IInv, NEW d \in Devices, hits[d] > 0, PassMovesOn(d)
    PROVE  hits' \in [Devices -> 0..MaxPolls]
<1> DEFINE left == [hits EXCEPT ![d] = @ - 1]
<1>1. left \in [Devices -> 0..MaxPolls]
  BY PoolAssumption DEF IInv, TypeOK
<1>2. CASE hits' = left
  BY <1>1, <1>2
<1>3. ASSUME NEW e \in Devices \ {d}, hits[e] < MaxPolls, hits' = [left EXCEPT ![e] = @ + 1]
      PROVE  hits' \in [Devices -> 0..MaxPolls]
  <2>1. left[e] = hits[e]
    BY DEF IInv, TypeOK
  <2>2. left[e] + 1 \in 0..MaxPolls
    BY <1>1, <1>3, <2>1, PoolAssumption
  <2> HIDE DEF left
  <2> QED
    BY <1>1, <1>3, <2>2
<1> QED
  BY <1>2, <1>3 DEF PassMovesOn

\* A registered call has the shape of one that is being answered.
LEMMA NewCallShape ==
    /\ NewCall \in ActiveCall /\ Shape(NewCall)
    /\ NewCall.at = "answering" /\ NewCall.machine = "incoming" /\ NewCall.stream = "none"
<1>1. NewCall \in ActiveCall
  BY DEF NewCall, NoCall, ActiveCall, Point, CallState, Outcome, Reason, Null
<1> QED
  BY <1>1 DEF NewCall, NoCall, Shape, AfterOpen, InTeardown, Null

\* The set-up of a call throws where its shape was right.
LEMMA FailShape ==
    ASSUME NEW c \in ActiveCall, Shape(c), NEW why \in Reason,
           c.at \in {"answering", "opening", "starting", "greeting"}
    PROVE  Shape(Fail(c, why))
<1> DEFINE e == Fail(c, why)
<1>1. /\ e.at = "draining" /\ e.timer = FALSE
      /\ e.machine = c.machine /\ e.answered = c.answered
      /\ e.outcome = "missed" => c.outcome = "missed" \/ c.machine = "incoming"
      /\ e.stream = c.stream
      /\ e.recording = c.recording /\ e.capture = c.capture
      /\ e.turns = c.turns /\ e.asking = c.asking
  BY FailFields
<1>2. e # NoCall
  BY <1>1 DEF NoCall
<1>3. c.machine \notin {"idle", "ended"}
  BY DEF Shape
<1> HIDE DEF e
<1>4. Shape(e)
  BY <1>1, <1>2, <1>3 DEF Shape, AfterOpen, InTeardown
<1> QED
  BY <1>4 DEF e

LEMMA PollResumesStep == ASSUME IInv, NEW d \in Devices, PollResumes(d) PROVE Good
<1>1. hits' \in [Devices -> 0..MaxPolls] /\ UNCHANGED <<watching, line, session>>
  BY PassMoves DEF PollResumes
<1>2. CASE UNCHANGED <<phase, call>>
  <2>1. Others
    BY <1>1, <1>2 DEF IInv, TypeOK, Others
  <2> QED
    BY <1>1, <1>2, <2>1, NoCallTouched DEF IInv, TypeOK
<1>3. CASE /\ ~HasCallOn(d)
           /\ phase' = [phase EXCEPT ![d] = "incoming"]
           /\ \/ session[d] = "free" /\ call' = [call EXCEPT ![d] = NewCall]
              \/ session[d] # "free" /\ call' = [call EXCEPT ![d] = Fail(NewCall, "held")]
              \/ call' = [call EXCEPT ![d] = Fail(NewCall, "other")]
  <2>1. Others
    BY <1>1, <1>3 DEF IInv, TypeOK, Others
  <2>2. call[d].at = "none" /\ call[d].machine = "idle" /\ call[d].stream = "none"
    BY <1>3, Facts DEF HasCallOn, Shape, NoCall
  <2>3. PICK e \in {NewCall, Fail(NewCall, "held"), Fail(NewCall, "other")} :
            call' = [call EXCEPT ![d] = e]
    BY <1>3
  <2>4. e \in ActiveCall /\ Shape(e) /\ e.machine = "incoming" /\ e.stream = "none"
    <3>1. ASSUME NEW why \in Reason
          PROVE  /\ Fail(NewCall, why) \in ActiveCall /\ Shape(Fail(NewCall, why))
                 /\ Fail(NewCall, why).machine = "incoming" /\ Fail(NewCall, why).stream = "none"
      BY NewCallShape, FailFields, FailShape
    <3>2. "held" \in Reason /\ "other" \in Reason
      BY DEF Reason
    <3> QED
      BY NewCallShape, <2>3, <3>1, <3>2
  <2>5. session' = [session EXCEPT ![d] = session[d]]
    BY <1>1, Facts
  <2>6. Legal(call[d], session[d], e, session[d])
    BY <2>2, <2>4 DEF Legal
  <2> QED
    BY <2>1, <2>2, <2>3, <2>4, <2>5, <2>6, Facts, OneCall
<1> QED
  BY <1>2, <1>3 DEF PollResumes

\* A throw in the set-up is a good step.
LEMMA FailGood ==
    ASSUME IInv, NEW d \in Devices, NEW why \in Reason,
           call[d].at \in {"answering", "opening", "starting", "greeting"},
           call' = [call EXCEPT ![d] = Fail(call[d], why)],
           UNCHANGED session, Others
    PROVE  Good
<1> DEFINE c == call[d]
           e == Fail(c, why)
<1>1. c \in ActiveCall /\ Shape(c)
  BY Facts
<1>2. e \in ActiveCall /\ Shape(e)
  BY <1>1, FailFields, FailShape
<1>3. e.machine = c.machine /\ e.stream = c.stream /\ e.lines = c.lines
  BY <1>1, FailFields
<1>4. Legal(c, session[d], e, session[d])
  BY <1>3 DEF Legal
<1>5. session' = [session EXCEPT ![d] = session[d]]
  BY Facts
<1> QED
  BY <1>2, <1>3, <1>4, <1>5, Facts, OneCall

LEMMA AnswerStep == ASSUME IInv, NEW d \in Devices, Answer(d) PROVE Good
<1> DEFINE c  == call[d]
           up == [c EXCEPT !.answered = TRUE, !.machine = "answered"]
<1>1. c \in ActiveCall /\ Shape(c) /\ c.at = "answering" /\ c.machine = "incoming"
      /\ UNCHANGED <<watching, session, hits>>
  BY Facts DEF Answer, Shape
<1>2. "other" \in Reason
  BY DEF Reason
<1>3. CASE call' = [call EXCEPT ![d] = Fail(@, "other")] /\ UNCHANGED <<line, phase>>
  <2>1. Others
    BY <1>1, <1>3 DEF IInv, TypeOK, Others
  <2> QED
    BY <1>1, <1>2, <1>3, <2>1, FailGood
<1>4. CASE /\ line' = [line EXCEPT ![d] = IF @ = "ringing" THEN "up" ELSE @]
           /\ phase' = [phase EXCEPT ![d] = "in-call"]
           /\ \/ call' = [call EXCEPT ![d] = [up EXCEPT !.at = "opening"]]
              \/ call' = [call EXCEPT ![d] = Fail(up, "other")]
  <2>1. Others
    BY <1>1, <1>4 DEF IInv, TypeOK, Others
  <2>2. /\ up \in ActiveCall /\ up.answered /\ up.machine = "answered" /\ up.at = c.at
        /\ up.stream = "none" /\ up.outcome = c.outcome /\ ~up.recording
        /\ ~up.capture /\ up.turns = 0 /\ ~up.asking /\ ~up.timer /\ c.outcome # "missed"
    BY <1>1 DEF ActiveCall, CallState, Shape, InTeardown, AfterOpen
  <2>3. PICK e \in {[up EXCEPT !.at = "opening"], Fail(up, "other")} : call' = [call EXCEPT ![d] = e]
    BY <1>4
  <2> HIDE DEF up
  <2>4. /\ e \in ActiveCall /\ e.answered /\ e.machine = "answered" /\ e.at \in {"opening", "draining"}
        /\ e.stream = "none" /\ e.outcome # "missed" /\ ~e.recording
        /\ ~e.capture /\ e.turns = 0 /\ ~e.asking /\ ~e.timer
    <3>1. CASE e = [up EXCEPT !.at = "opening"]
      BY <2>2, <3>1 DEF ActiveCall, Point
    <3>2. CASE e = Fail(up, "other")
      <4>1. /\ e \in ActiveCall /\ e.at = "draining" /\ e.timer = FALSE
            /\ e.machine = up.machine /\ e.answered = up.answered
            /\ e.outcome = "missed" => up.outcome = "missed" \/ up.machine = "incoming"
            /\ e.stream = up.stream
            /\ e.recording = up.recording /\ e.capture = up.capture
            /\ e.turns = up.turns /\ e.asking = up.asking
        BY <2>2, <3>2, <1>2, FailFields
      <4> QED
        BY <2>2, <4>1
    <3> QED
      BY <2>3, <3>1, <3>2
  <2>5. Shape(e)
    BY <2>4 DEF Shape, AfterOpen, InTeardown, NoCall
  <2>6. session[d] # "call" /\ session' = [session EXCEPT ![d] = session[d]]
    BY <1>1, Facts DEF Shape
  <2>7. Legal(c, session[d], e, session[d])
    BY <1>1, <2>4 DEF Legal
  <2> QED
    BY <1>1, <2>1, <2>3, <2>4, <2>5, <2>6, <2>7, Facts, OneCall
<1> QED
  BY <1>3, <1>4 DEF Answer

LEMMA OpenSessionStep == ASSUME IInv, NEW d \in Devices, OpenSession(d) PROVE Good
<1> DEFINE c == call[d]
<1>1. c \in ActiveCall /\ Shape(c) /\ c.at = "opening" /\ UNCHANGED <<watching, line, phase, hits>>
  BY Facts DEF OpenSession
<1>2. Others
  BY <1>1 DEF IInv, TypeOK, Others
<1>3. CASE call' = [call EXCEPT ![d] = Fail(@, "other")] /\ UNCHANGED session
  BY <1>1, <1>2, <1>3, FailGood DEF Reason
<1>4. ASSUME NEW recording \in BOOLEAN, session[d] = "free",
             session' = [session EXCEPT ![d] = "call"],
             call' = [call EXCEPT ![d].at = "starting", ![d].stream = "open", ![d].recording = recording]
      PROVE  Good
  <2> DEFINE e == [c EXCEPT !.at = "starting", !.stream = "open", !.recording = recording]
  <2>1. call' = [call EXCEPT ![d] = e]
    BY <1>4, <1>1 DEF IInv, TypeOK
  <2>2. /\ e \in ActiveCall /\ e.at = "starting" /\ e.stream = "open"
        /\ e.machine = c.machine /\ e.answered = c.answered /\ e.outcome = c.outcome
        /\ e.capture = c.capture /\ e.timer = c.timer
    BY <1>1 DEF ActiveCall, Point
  <2> HIDE DEF e
  <2>3. Shape(e) /\ c.machine = "answered"
    BY <1>1, <2>2 DEF Shape, AfterOpen, InTeardown, NoCall
  <2>4. Legal(c, session[d], e, "call")
    BY <2>2, <2>3, <1>4 DEF Legal
  <2> QED
    BY <1>2, <1>4, <2>1, <2>2, <2>3, <2>4, OneCall
<1> QED
  BY <1>3, <1>4 DEF OpenSession

LEMMA StartCaptureStep == ASSUME IInv, NEW d \in Devices, StartCapture(d) PROVE Good
<1> DEFINE c == call[d]
           e == [c EXCEPT !.at = "greeting", !.capture = TRUE]
<1>1. c \in ActiveCall /\ Shape(c) /\ c.at = "starting" /\ UNCHANGED <<watching, line, phase, session, hits>>
  BY Facts DEF StartCapture
<1>2. Others
  BY <1>1 DEF IInv, TypeOK, Others
<1>3. CASE call' = [call EXCEPT ![d] = Fail(@, "other")]
  BY <1>1, <1>2, <1>3, FailGood DEF Reason
<1>4. CASE call' = [call EXCEPT ![d].at = "greeting", ![d].capture = TRUE]
  <2>1. call' = [call EXCEPT ![d] = e]
    BY <1>4, <1>1 DEF IInv, TypeOK
  <2>2. /\ e \in ActiveCall /\ e.at = "greeting" /\ e.stream = c.stream
        /\ e.machine = c.machine /\ e.answered = c.answered /\ e.outcome = c.outcome
        /\ e.timer = c.timer /\ e.turns = c.turns /\ e.asking = c.asking /\ e.lines = c.lines
    BY <1>1 DEF ActiveCall, Point
  <2> HIDE DEF e
  <2>3. Shape(e)
    BY <1>1, <2>2 DEF Shape, AfterOpen, InTeardown, NoCall
  <2>4. Legal(c, session[d], e, session[d])
    BY <2>2 DEF Legal
  <2> QED
    BY <1>1, <1>2, <2>1, <2>2, <2>3, <2>4, Facts, OneCall
<1> QED
  BY <1>3, <1>4 DEF StartCapture

LEMMA GreetStep == ASSUME IInv, NEW d \in Devices, Greet(d) PROVE Good
<1> DEFINE c == call[d]
<1>1. c \in ActiveCall /\ Shape(c) /\ c.at = "greeting" /\ UNCHANGED <<watching, line, phase, session, hits>>
  BY Facts DEF Greet
<1>2. Others
  BY <1>1 DEF IInv, TypeOK, Others
<1>3. CASE call' = [call EXCEPT ![d] = Fail(@, "other")]
  BY <1>1, <1>2, <1>3, FailGood DEF Reason
<1>4. ASSUME NEW f, Kept(c, f), call' = [call EXCEPT ![d] = [f EXCEPT !.at = "live", !.timer = TRUE]]
      PROVE  Good
  <2> DEFINE e == [f EXCEPT !.at = "live", !.timer = TRUE]
  <2>1. f \in ActiveCall /\ f.at = "greeting" /\ Shape(f)
    BY <1>1, <1>4, KeptShape DEF Kept
  <2>2. /\ e \in ActiveCall /\ e.at = "live" /\ e.stream = f.stream
        /\ e.machine = f.machine /\ e.answered = f.answered /\ e.outcome = f.outcome
        /\ e.recording = f.recording
        /\ e.turns = f.turns /\ e.asking = f.asking
    BY <2>1 DEF ActiveCall, Point
  <2>3. call' = [call EXCEPT ![d] = e]
    BY <1>4
  <2> HIDE DEF e
  <2>4. Shape(e) /\ c.machine # "ended"
    BY <1>1, <2>1, <2>2 DEF Shape, AfterOpen, InTeardown, NoCall
  <2>5. Legal(c, session[d], e, session[d])
    BY <1>4, <2>2 DEF Kept, Legal
  <2>6. session[d] = "call" <=> e.stream = "open"
    BY <1>4, <2>2, Facts DEF Kept
  <2> QED
    BY <1>1, <1>2, <2>2, <2>3, <2>4, <2>5, <2>6, Facts, OneCall
<1>5. Kept(c, c)
  BY <1>1 DEF Kept
<1>6. CASE call' = [call EXCEPT ![d].at = "live", ![d].timer = TRUE]
  <2>1. call' = [call EXCEPT ![d] = [c EXCEPT !.at = "live", !.timer = TRUE]]
    BY <1>6, <1>1 DEF IInv, TypeOK
  <2> QED
    BY <2>1, <1>4, <1>5
<1>7. ASSUME NEW audio \in BOOLEAN, NEW text \in BOOLEAN, NEW hangUp \in BOOLEAN,
             call' = [call EXCEPT ![d] = [Speak(@, audio, text, hangUp)
                                            EXCEPT !.at = "live", !.timer = TRUE]]
      PROVE  Good
  <2>1. Kept(c, Speak(c, audio, text, hangUp))
    BY <1>1, SpeakKept
  <2> QED
    BY <1>7, <2>1, <1>4
<1> QED
  BY <1>3, <1>6, <1>7 DEF Greet

LEMMA FinishStep == ASSUME IInv, NEW d \in Devices, Finish(d) PROVE Good
<1> DEFINE c == call[d]
           e == EnterTeardown(c)
<1>1. c \in ActiveCall /\ Shape(c) /\ c.at = "live" /\ UNCHANGED <<watching, line, phase, session, hits>>
      /\ call' = [call EXCEPT ![d] = e]
  BY Facts DEF Finish
<1>2. Others
  BY <1>1 DEF IInv, TypeOK, Others
<1>3. /\ e \in ActiveCall /\ e.at = "draining" /\ e.timer = FALSE
      /\ e.machine = c.machine /\ e.answered = c.answered
      /\ e.outcome = c.outcome /\ e.stream = c.stream
      /\ e.recording = c.recording /\ e.capture = c.capture
      /\ e.turns = c.turns /\ e.asking = c.asking /\ e.lines = c.lines
  BY <1>1, EnterTeardownFields
<1> HIDE DEF e
<1>4. Shape(e)
  BY <1>1, <1>3 DEF Shape, AfterOpen, InTeardown, NoCall
<1>5. Legal(c, session[d], e, session[d])
  BY <1>3 DEF Legal
<1> QED
  BY <1>1, <1>2, <1>3, <1>4, <1>5, Facts, OneCall

LEMMA FarEndAudioStep == ASSUME IInv, NEW d \in Devices, FarEndAudio(d) PROVE Good
<1>1. call[d] \in ActiveCall /\ Shape(call[d]) /\ UNCHANGED <<watching, line, phase, session, hits>>
  BY Facts DEF FarEndAudio
<1>2. call[d].at \notin {"none", "opening"}
  BY <1>1 DEF FarEndAudio, Shape
<1>3. Others
  BY <1>1 DEF IInv, TypeOK, Others
<1> QED
  BY <1>1, <1>2, <1>3, MarkTalkingKept, KeptGood DEF FarEndAudio

LEMMA TurnArrivesStep == ASSUME IInv, NEW d \in Devices, TurnArrives(d) PROVE Good
<1> DEFINE c == call[d]
           e == [c EXCEPT !.turns = @ + 1]
<1>1. c \in ActiveCall /\ Shape(c) /\ c.stream = "open" /\ c.at # "none"
      /\ UNCHANGED <<watching, line, phase, session, hits>>
  BY Facts DEF TurnArrives, Shape, AfterOpen
<1>2. Others
  BY <1>1 DEF IInv, TypeOK, Others
<1>3. Kept(c, e) /\ e.lines = c.lines
  BY <1>1 DEF Kept, ActiveCall
<1>4. call' = [call EXCEPT ![d] = e]
  BY <1>1 DEF TurnArrives, IInv, TypeOK
<1> QED
  BY <1>1, <1>2, <1>3, <1>4, KeptGood

LEMMA HandleTurnStep == ASSUME IInv, NEW d \in Devices, HandleTurn(d) PROVE Good
<1> DEFINE c     == call[d]
           taken == [c EXCEPT !.turns = @ - 1]
           heard == [MarkTalking(taken) EXCEPT !.lines = @ + 1]
<1>1. c \in ActiveCall /\ Shape(c) /\ c.turns > 0 /\ c.stream # "none" /\ c.at \notin {"none", "opening"}
      /\ UNCHANGED <<watching, line, phase, session, hits>>
  <2>1. c \in ActiveCall /\ Shape(c) /\ c.turns > 0 /\ UNCHANGED <<watching, line, phase, session, hits>>
    BY Facts DEF HandleTurn
  <2>2. c.stream # "none"
    BY <2>1 DEF Shape
  <2>3. c.at # "none"
    BY <2>1 DEF Shape, NoCall
  <2> QED
    BY <2>1, <2>2, <2>3 DEF Shape
<1>2. Others
  BY <1>1 DEF IInv, TypeOK, Others
<1>3. Kept(c, taken) /\ taken.machine = c.machine /\ taken.lines = c.lines
  BY <1>1 DEF Kept, ActiveCall
<1>4. taken \in ActiveCall /\ taken.at # "opening" /\ taken.stream # "none"
  BY <1>1, <1>3 DEF Kept
<1>5. Kept(c, TurnDone(taken)) /\ TurnDone(taken).lines = c.lines
  <2>1. /\ Kept(taken, TurnDone(taken)) /\ TurnDone(taken).lines = taken.lines
    BY <1>4, TurnDoneKept
  <2> HIDE DEF taken
  <2> QED
    BY <1>1, <1>3, <2>1, KeptTrans
<1>6. Kept(taken, MarkTalking(taken))
  BY <1>4, MarkTalkingKept
<1>7. Kept(c, heard) /\ heard \in ActiveCall /\ heard.stream # "none"
  <2> DEFINE m == MarkTalking(taken)
  <2>1. Kept(c, m) /\ m \in ActiveCall /\ m.stream # "none"
    BY <1>1, <1>3, <1>4, <1>6, KeptTrans DEF Kept
  <2> HIDE DEF m
  <2>2. Kept(m, [m EXCEPT !.lines = @ + 1])
    BY <2>1 DEF Kept, ActiveCall
  <2> DEFINE h == [m EXCEPT !.lines = @ + 1]
  <2>3. Kept(m, h)
    BY <2>2
  <2> HIDE DEF h
  <2>4. Kept(c, h) /\ h \in ActiveCall /\ h.stream # "none"
    BY <2>1, <2>3, KeptTrans DEF Kept
  <2> QED
    BY <2>4 DEF h, m
<1>8. Kept(c, [heard EXCEPT !.asking = TRUE])
  <2> DEFINE h == heard
             a == [h EXCEPT !.asking = TRUE]
  <2>1. Kept(c, h) /\ h \in ActiveCall /\ h.stream # "none"
    BY <1>7
  <2> HIDE DEF heard
  <2> HIDE DEF h
  <2>2. Kept(h, a)
    BY <2>1 DEF Kept, ActiveCall
  <2> HIDE DEF a
  <2>3. Kept(c, a)
    BY <2>1, <2>2, <1>1, KeptTrans
  <2> QED
    BY <2>3 DEF a, h
<1>9. Kept(c, TurnDone(heard))
  BY <1>1, <1>7, TurnDoneKept, KeptTrans
<1>10. \E e : /\ Kept(c, e) /\ call' = [call EXCEPT ![d] = e]
              /\ c.machine = "ended" => e.lines = c.lines
  BY <1>3, <1>5, <1>8, <1>9 DEF HandleTurn
<1> QED
  BY <1>1, <1>2, <1>10, KeptGood

LEMMA AgentRepliesStep == ASSUME IInv, NEW d \in Devices, AgentReplies(d) PROVE Good
<1> DEFINE c == call[d]
<1>1. c \in ActiveCall /\ Shape(c) /\ c.stream # "none" /\ c.at \notin {"none", "opening"}
      /\ UNCHANGED <<watching, line, phase, session, hits>>
  <2>1. c \in ActiveCall /\ Shape(c) /\ c.asking /\ UNCHANGED <<watching, line, phase, session, hits>>
    BY Facts DEF AgentReplies
  <2>2. c.stream # "none"
    BY <2>1 DEF Shape
  <2>3. c.at # "none"
    BY <2>1 DEF Shape, NoCall
  <2> QED
    BY <2>1, <2>2, <2>3 DEF Shape
<1>2. Others
  BY <1>1 DEF IInv, TypeOK, Others
<1>3. Kept(c, TurnDone(c)) /\ TurnDone(c).lines = c.lines
  BY <1>1, TurnDoneKept
<1>4. ASSUME NEW audio \in BOOLEAN, NEW text \in BOOLEAN, NEW hangUp \in BOOLEAN
      PROVE  /\ Kept(c, TurnDone(Speak(c, audio, text, hangUp)))
             /\ c.machine = "ended" => TurnDone(Speak(c, audio, text, hangUp)).lines = c.lines
  <2>1. Kept(c, Speak(c, audio, text, hangUp))
        /\ (c.machine = "ended" => Speak(c, audio, text, hangUp) = c)
    BY <1>1, SpeakKept
  <2>2. Speak(c, audio, text, hangUp) \in ActiveCall /\ Speak(c, audio, text, hangUp).stream # "none"
    BY <1>1, <2>1 DEF Kept
  <2> QED
    BY <1>1, <1>3, <2>1, <2>2, TurnDoneKept, KeptTrans
<1>5. \E e : /\ Kept(c, e) /\ call' = [call EXCEPT ![d] = e]
             /\ c.machine = "ended" => e.lines = c.lines
  BY <1>3, <1>4 DEF AgentReplies
<1> QED
  BY <1>1, <1>2, <1>5, KeptGood

\* The stream of a call closes: the call is asked to end.
LEMMA ClosedFields ==
    ASSUME NEW c \in ActiveCall
    PROVE  LET e == [RequestEnd(c, "failed") EXCEPT !.stream = "closed"]
           IN  /\ e \in ActiveCall /\ e.at = c.at /\ e.timer = c.timer
               /\ e.machine = c.machine /\ e.answered = c.answered
               /\ e.outcome = "missed" => c.outcome = "missed"
               /\ e.stream = "closed"
               /\ e.recording = c.recording /\ e.capture = c.capture /\ e.lines = c.lines
<1> DEFINE r == RequestEnd(c, "failed")
<1>1. Kept(c, r) /\ r.machine = c.machine /\ r.lines = c.lines
  BY RequestEndKept
<1> HIDE DEF r
<1>2. r \in ActiveCall
  BY <1>1 DEF Kept
<1>3. LET e == [r EXCEPT !.stream = "closed"]
      IN  /\ e \in ActiveCall /\ e.at = c.at /\ e.timer = c.timer
          /\ e.machine = c.machine /\ e.answered = c.answered
          /\ e.outcome = "missed" => c.outcome = "missed"
          /\ e.stream = "closed"
          /\ e.recording = c.recording /\ e.capture = c.capture /\ e.lines = c.lines
  BY <1>1, <1>2 DEF Kept, ActiveCall
<1> QED
  BY <1>3 DEF r

LEMMA StreamClosesStep == ASSUME IInv, NEW d \in Devices, StreamCloses(d) PROVE Good
<1> DEFINE c == call[d]
           e == [RequestEnd(c, "failed") EXCEPT !.stream = "closed"]
<1>1. c \in ActiveCall /\ Shape(c) /\ c.stream = "open" /\ session[d] = "call"
      /\ UNCHANGED <<watching, line, phase, hits>>
      /\ call' = [call EXCEPT ![d] = e] /\ session' = [session EXCEPT ![d] = "free"]
  BY Facts DEF StreamCloses
<1>2. Others
  BY <1>1 DEF IInv, TypeOK, Others
<1>3. /\ e \in ActiveCall /\ e.at = c.at /\ e.timer = c.timer
      /\ e.machine = c.machine /\ e.answered = c.answered
      /\ e.outcome = "missed" => c.outcome = "missed"
      /\ e.stream = "closed"
      /\ e.recording = c.recording /\ e.capture = c.capture /\ e.lines = c.lines
  BY <1>1, ClosedFields
<1> HIDE DEF e
<1>4. Shape(e)
  BY <1>1, <1>3 DEF Shape, AfterOpen, InTeardown, NoCall
<1>5. Legal(c, session[d], e, "free")
  BY <1>1, <1>3 DEF Legal
<1> QED
  BY <1>1, <1>2, <1>3, <1>4, <1>5, OneCall

LEMMA ProbeLineStep == ASSUME IInv, NEW d \in Devices, ProbeLine(d) PROVE Good
<1> DEFINE c == call[d]
<1>1. c \in ActiveCall /\ Shape(c) /\ c.timer /\ UNCHANGED <<watching, line, phase, session, hits>>
  BY Facts DEF ProbeLine
<1>2. Others /\ c.at # "none"
  BY <1>1 DEF IInv, TypeOK, Others, Shape
<1>3. PICK answer \in {"idle", "error"} : call' = [call EXCEPT ![d].probes = @ \cup {answer}]
  BY DEF ProbeLine
<1> DEFINE e == [c EXCEPT !.probes = @ \cup {answer}]
<1>4. call' = [call EXCEPT ![d] = e]
  BY <1>3
<1>5. Kept(c, e) /\ e.lines = c.lines
  BY <1>1 DEF Kept, ActiveCall
<1> QED
  BY <1>1, <1>2, <1>4, <1>5, KeptGood

LEMMA ProbeAnswersStep == ASSUME IInv, NEW d \in Devices, ProbeAnswers(d) PROVE Good
<1> DEFINE c == call[d]
<1>1. c \in ActiveCall /\ Shape(c) /\ UNCHANGED <<watching, line, phase, session, hits>>
  BY Facts DEF ProbeAnswers
<1>2. PICK answer \in c.probes :
          LET rest == [c EXCEPT !.probes = @ \ {answer}]
          IN  call' = [call EXCEPT ![d] =
                  IF answer = "idle" THEN RequestEnd(rest, "completed")
                                     ELSE RequestEnd(rest, "failed")]
  BY DEF ProbeAnswers
<1> DEFINE rest == [c EXCEPT !.probes = @ \ {answer}]
<1>3. Others /\ c.at # "none"
  BY <1>1, <1>2 DEF IInv, TypeOK, Others, Shape, NoCall
<1>4. Kept(c, rest) /\ rest.lines = c.lines /\ rest \in ActiveCall
  BY <1>1 DEF Kept, ActiveCall
<1>5. PICK e \in {RequestEnd(rest, "completed"), RequestEnd(rest, "failed")} :
          call' = [call EXCEPT ![d] = e]
  BY <1>2
<1> HIDE DEF rest
<1>6. Kept(rest, e) /\ e.lines = rest.lines
  BY <1>4, <1>5, RequestEndKept
<1>7. Kept(c, e) /\ e.lines = c.lines
  BY <1>1, <1>4, <1>6, KeptTrans
<1> QED
  BY <1>1, <1>3, <1>5, <1>7, KeptGood

LEMMA EndCallStep == ASSUME IInv, NEW d \in Devices, EndCall(d) PROVE Good
<1>1. call[d] \in ActiveCall /\ call[d].at # "none" /\ UNCHANGED <<watching, line, phase, session, hits>>
  BY Facts DEF EndCall, HasCallOn
<1>2. Others
  BY <1>1 DEF IInv, TypeOK, Others
<1>3. PICK outcome \in {"completed", "failed"} :
          call' = [call EXCEPT ![d] = RequestEnd(@, outcome)]
  BY DEF EndCall
<1>4. /\ Kept(call[d], RequestEnd(call[d], outcome))
      /\ RequestEnd(call[d], outcome).lines = call[d].lines
  BY <1>1, RequestEndKept
<1> QED
  BY <1>1, <1>2, <1>3, <1>4, KeptGood

LEMMA DrainStep == ASSUME IInv, NEW d \in Devices, Drain(d) PROVE Good
<1> DEFINE e == [call[d] EXCEPT !.finished = TRUE]
<1>1. call[d] \in ActiveCall /\ call[d].at # "none" /\ UNCHANGED <<watching, line, phase, session, hits>>
      /\ call' = [call EXCEPT ![d] = e]
  BY Facts DEF Drain, HasCallOn
<1>2. Others
  BY <1>1 DEF IInv, TypeOK, Others
<1>3. Kept(call[d], e) /\ e.lines = call[d].lines
  BY <1>1 DEF Kept, ActiveCall
<1> QED
  BY <1>1, <1>2, <1>3, KeptGood

LEMMA StopCaptureStep == ASSUME IInv, NEW d \in Devices, StopCapture(d) PROVE Good
<1> DEFINE c == call[d]
           e == [c EXCEPT !.at = "closingAudio", !.capture = FALSE]
<1>1. c \in ActiveCall /\ Shape(c) /\ c.at = "draining" /\ UNCHANGED <<watching, line, phase, session, hits>>
      /\ call' = [call EXCEPT ![d] = e]
  BY Facts DEF StopCapture
<1>2. Others
  BY <1>1 DEF IInv, TypeOK, Others
<1>3. /\ e \in ActiveCall /\ e.at = "closingAudio" /\ e.stream = c.stream
      /\ e.machine = c.machine /\ e.answered = c.answered /\ e.outcome = c.outcome
      /\ e.timer = c.timer /\ e.recording = c.recording /\ ~e.capture
      /\ e.turns = c.turns /\ e.asking = c.asking /\ e.lines = c.lines
  BY <1>1 DEF ActiveCall, Point
<1> HIDE DEF e
<1>4. Shape(e)
  BY <1>1, <1>3 DEF Shape, AfterOpen, InTeardown, NoCall
<1>5. Legal(c, session[d], e, session[d])
  BY <1>3 DEF Legal
<1> QED
  BY <1>1, <1>2, <1>3, <1>4, <1>5, Facts, OneCall

LEMMA CloseAudioStep == ASSUME IInv, NEW d \in Devices, CloseAudio(d) PROVE Good
<1> DEFINE c == call[d]
           e == [c EXCEPT !.at = "terminating", !.recording = FALSE]
<1>1. c \in ActiveCall /\ Shape(c) /\ c.at = "closingAudio" /\ UNCHANGED <<watching, line, phase, session, hits>>
      /\ call' = [call EXCEPT ![d] = e]
  BY Facts DEF CloseAudio
<1>2. Others
  BY <1>1 DEF IInv, TypeOK, Others
<1>3. /\ e \in ActiveCall /\ e.at = "terminating" /\ e.stream = c.stream
      /\ e.machine = c.machine /\ e.answered = c.answered /\ e.outcome = c.outcome
      /\ e.timer = c.timer /\ ~e.recording /\ e.capture = c.capture
      /\ e.turns = c.turns /\ e.asking = c.asking /\ e.lines = c.lines
  BY <1>1 DEF ActiveCall, Point
<1> HIDE DEF e
<1>4. Shape(e)
  BY <1>1, <1>3 DEF Shape, AfterOpen, InTeardown, NoCall
<1>5. Legal(c, session[d], e, session[d])
  BY <1>3 DEF Legal
<1> QED
  BY <1>1, <1>2, <1>3, <1>4, <1>5, Facts, OneCall

LEMMA TerminatedStep == ASSUME IInv, NEW d \in Devices, Terminated(d) PROVE Good
<1> DEFINE c    == call[d]
           next == [c EXCEPT !.at = "hangingUp"]
           over == [RequestEnd(next, "failed") EXCEPT !.stream = "closed"]
<1>1. c \in ActiveCall /\ Shape(c) /\ c.at = "terminating" /\ UNCHANGED <<watching, line, phase, hits>>
      /\ session' = [session EXCEPT ![d] = "free"]
      /\ call' = [call EXCEPT ![d] = IF next.stream = "open" THEN over ELSE next]
  BY Facts DEF Terminated
<1>2. Others
  BY <1>1 DEF IInv, TypeOK, Others
<1>3. /\ next \in ActiveCall /\ next.at = "hangingUp" /\ next.stream = c.stream
      /\ next.machine = c.machine /\ next.answered = c.answered /\ next.outcome = c.outcome
      /\ next.timer = c.timer /\ next.recording = c.recording /\ next.capture = c.capture
      /\ next.turns = c.turns /\ next.asking = c.asking /\ next.lines = c.lines
  BY <1>1 DEF ActiveCall, Point
<1>4. /\ over \in ActiveCall /\ over.at = next.at /\ over.timer = next.timer
      /\ over.machine = next.machine /\ over.answered = next.answered
      /\ over.outcome = "missed" => next.outcome = "missed"
      /\ over.stream = "closed"
      /\ over.recording = next.recording /\ over.capture = next.capture /\ over.lines = next.lines
  BY <1>3, ClosedFields
<1> DEFINE e == IF next.stream = "open" THEN over ELSE next
<1> HIDE DEF over, next
<1>5. e \in ActiveCall /\ Shape(e) /\ e.stream # "open" /\ e.machine = c.machine /\ e.lines = c.lines
  <2>1. CASE e = next /\ next.stream # "open"
    BY <1>1, <1>3, <2>1 DEF Shape, AfterOpen, InTeardown, NoCall
  <2>2. CASE e = over
    BY <1>1, <1>3, <1>4, <2>2 DEF Shape, AfterOpen, InTeardown, NoCall
  <2> QED
    BY <2>1, <2>2
<1> HIDE DEF e
<1>6. Legal(c, session[d], e, "free")
  BY <1>5 DEF Legal
<1>7. call' = [call EXCEPT ![d] = e]
  BY <1>1 DEF e
<1> QED
  BY <1>1, <1>2, <1>5, <1>6, <1>7, OneCall

LEMMA HangUpStep == ASSUME IInv, NEW d \in Devices, HangUp(d) PROVE Good
<1> DEFINE c == call[d]
           o == OrElse(c.outcome, IF c.answered THEN "completed" ELSE "missed")
           e == [c EXCEPT !.at = "notifying", !.machine = "ended", !.outcome = o]
<1>1. c \in ActiveCall /\ Shape(c) /\ c.at = "hangingUp" /\ UNCHANGED <<watching, session, hits>>
      /\ call' = [call EXCEPT ![d] = e]
  BY Facts DEF HangUp
<1>2. Others
  BY <1>1 DEF HangUp, IInv, TypeOK, Others
<1>3. o \in Outcome /\ (o = "missed" => c.outcome = "missed" \/ ~c.answered)
  BY <1>1 DEF OrElse, ActiveCall, Outcome, Null
<1> HIDE DEF o
<1>4. /\ e \in ActiveCall /\ e.at = "notifying" /\ e.stream = c.stream
      /\ e.machine = "ended" /\ e.answered = c.answered /\ e.outcome = o
      /\ e.timer = c.timer /\ e.recording = c.recording /\ e.capture = c.capture
      /\ e.turns = c.turns /\ e.asking = c.asking /\ e.lines = c.lines
  BY <1>1, <1>3 DEF ActiveCall, Point, CallState
<1> HIDE DEF e
<1>5. Shape(e)
  BY <1>1, <1>3, <1>4 DEF Shape, AfterOpen, InTeardown, NoCall
<1>6. c.machine \in {"incoming", "answered", "talking"} /\ c.stream # "open"
  BY <1>1 DEF Shape, AfterOpen, ActiveCall, CallState
<1>7. Legal(c, session[d], e, session[d])
  BY <1>4, <1>6, Facts DEF Legal
<1> QED
  BY <1>1, <1>2, <1>4, <1>5, <1>7, Facts, OneCall

LEMMA NotifiedStep == ASSUME IInv, NEW d \in Devices, Notified(d) PROVE Good
<1>1. call[d] \in ActiveCall /\ Shape(call[d]) /\ call[d].at = "notifying"
      /\ UNCHANGED <<watching, line, phase, session, hits>>
      /\ call' = [call EXCEPT ![d] = NoCall]
  BY Facts DEF Notified
<1>2. Others
  BY <1>1 DEF IInv, TypeOK, Others
<1>3. NoCall \in ActiveCall /\ NoCall.machine = "idle" /\ NoCall.stream = "none"
  BY DEF NoCall, ActiveCall, Point, CallState, Outcome, Reason, Null
<1>4. Shape(NoCall)
  BY DEF NoCall, Shape, AfterOpen, InTeardown, Null
<1>5. call[d].machine = "ended" /\ call[d].stream # "open"
  BY <1>1 DEF Shape, AfterOpen
<1>6. Legal(call[d], session[d], NoCall, session[d])
  BY <1>3, <1>5 DEF Legal
<1> QED
  BY <1>1, <1>2, <1>3, <1>4, <1>5, <1>6, Facts, OneCall

LEMMA WorldStep == ASSUME IInv, NEW d \in Devices, World(d) PROVE Good
<1>1. UNCHANGED call
  BY DEF World, Rings, LineDrops, Listen, StopListening, PhasePolled
<1>2. Others
  <2>1. CASE Rings(d)
    BY <2>1 DEF Rings, IInv, TypeOK, Others
  <2>2. CASE LineDrops(d)
    BY <2>2 DEF LineDrops, IInv, TypeOK, Others
  <2>3. CASE Listen(d)
    BY <2>3 DEF Listen, IInv, TypeOK, Others
  <2>4. CASE StopListening(d)
    BY <2>4 DEF StopListening, IInv, TypeOK, Others
  <2>5. CASE PhasePolled(d)
    BY <2>5 DEF PhasePolled, IInv, TypeOK, Others
  <2> QED
    BY <2>1, <2>2, <2>3, <2>4, <2>5 DEF World
<1>3. /\ session' \in [Devices -> {"free", "call", "manual"}]
      /\ \A x \in Devices : session'[x] = "call" <=> session[x] = "call"
  BY DEF World, Rings, LineDrops, Listen, StopListening, PhasePolled, IInv, TypeOK
<1> QED
  BY <1>1, <1>2, <1>3, NoCallTouched

LEMMA Step == ASSUME IInv, [Next]_vars PROVE Good
<1>1. CASE UNCHANGED vars
  BY <1>1, NoCallTouched DEF vars, IInv, TypeOK, Others
<1>2. CASE Start \/ Stop
  BY <1>2, StartStep, StopStep
<1>3. ASSUME NEW d \in Devices,
             \/ PollAsks(d) \/ PollResumes(d)
             \/ Setup(d) \/ Teardown(d) \/ Turns(d) \/ Beside(d)
             \/ ProbeLine(d) \/ ProbeAnswers(d) \/ World(d)
      PROVE  Good
  <2>1. CASE Setup(d)
    BY <2>1, AnswerStep, OpenSessionStep, StartCaptureStep, GreetStep, FinishStep DEF Setup
  <2>2. CASE Teardown(d)
    BY <2>2, StopCaptureStep, CloseAudioStep, TerminatedStep, HangUpStep, NotifiedStep DEF Teardown
  <2>3. CASE Turns(d)
    BY <2>3, HandleTurnStep, AgentRepliesStep DEF Turns
  <2>4. CASE Beside(d)
    BY <2>4, TurnArrivesStep, FarEndAudioStep, StreamClosesStep, EndCallStep, DrainStep DEF Beside
  <2> QED
    BY <1>3, <2>1, <2>2, <2>3, <2>4, PollAsksStep, PollResumesStep, ProbeLineStep,
       ProbeAnswersStep, WorldStep
<1> QED
  BY <1>1, <1>2, <1>3 DEF Next

LEMMA Start0 == Init => IInv /\ Lifecycle!Init
<1> SUFFICES ASSUME Init PROVE IInv /\ Lifecycle!Init
  OBVIOUS
<1>1. NoCall \in ActiveCall /\ Shape(NoCall) /\ NoCall.stream = "none" /\ NoCall.machine = "idle"
  BY DEF NoCall, ActiveCall, Point, CallState, Outcome, Reason, Null, Shape, AfterOpen, InTeardown
<1>2. IInv
  <2>1. 0 \in 0..MaxPolls
    BY PoolAssumption
  <2>2. TypeOK
    BY <1>1, <2>1 DEF Init, TypeOK
  <2>3. Shapes /\ Billed
    BY <1>1 DEF Init, Shapes, Billed
  <2> QED
    BY <2>2, <2>3 DEF IInv
<1>3. Lifecycle!Init
  BY <1>1 DEF Init, Lifecycle!Init
<1> QED
  BY <1>2, <1>3

-----------------------------------------------------------------------------
(* The theorems *)

\* The inductive invariant holds throughout.
THEOREM Invariance == Spec => []IInv
<1>1. IInv /\ [Next]_vars => IInv'
  BY Step DEF Good
<1> QED
  BY Start0, <1>1, PTL DEF Spec

\* Every variable of the call loop keeps its type, in a pool of any size.
THEOREM TypeCorrect == Spec => []TypeOK
<1>1. IInv => TypeOK
  BY DEF IInv
<1> QED
  BY Invariance, <1>1, PTL

\* A call that has ended holds no capture, recorder, timer or open stream, wherever
\* its set-up had thrown and whoever asked it to end.
THEOREM NothingIsLeaked == Spec => []EndedCallHoldsNothing
<1>1. IInv => EndedCallHoldsNothing
  BY DEF IInv, Shapes, Shape, AfterOpen, EndedCallHoldsNothing
<1> QED
  BY Invariance, <1>1, PTL

\* A call recorded as missed was not answered.
THEOREM MissedIsHonest == Spec => []MissedMeansUnanswered
<1>1. IInv => MissedMeansUnanswered
  BY DEF IInv, Shapes, Shape, MissedMeansUnanswered
<1> QED
  BY Invariance, <1>1, PTL

\* No transcript line is added to a call that has ended.
THEOREM SilenceAfterEnd == Spec => NothingSaidAfterEnd
<1>1. IInv /\ [Next]_vars => [Quiet]_vars
  BY Step DEF Good
<1>2. [Quiet]_vars => [\A d \in Devices : call[d].machine = "ended" /\ call'[d].machine = "ended" =>
                          call'[d].lines = call[d].lines]_vars
  BY DEF Quiet
<1> QED
  BY Invariance, <1>1, <1>2, PTL DEF Spec, NothingSaidAfterEnd

\* Every step of the call loop is a step of the abstract life cycle, or none of its
\* business.
THEOREM Refinement == Spec => ImplementsLifecycle
<1>1. Init => Lifecycle!Init
  BY Start0
<1>2. IInv /\ [Next]_vars => [Lifecycle!Next]_(Lifecycle!vars)
  BY Step DEF Good
<1> QED
  BY Invariance, <1>1, <1>2, PTL DEF Spec, ImplementsLifecycle, Lifecycle!Spec
=============================================================================
