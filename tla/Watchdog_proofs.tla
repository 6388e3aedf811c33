--------------------------- MODULE Watchdog_proofs ---------------------------
(***************************************************************************)
(* Proofs about the watchdog beside the call loop, for any pool of phones: *)
(* the call loop keeps its inductive invariant although sweeps end several *)
(* calls at once, and a call that was given up stays one whose end has     *)
(* been requested - which is why asking once is enough.                    *)
(***************************************************************************)
EXTENDS Watchdog, Orchestrator_proofs

WInv == IInv /\ WatchdogTypeOK /\ AskedMeansEnding

\* Nothing takes an end request back while the call is in flight.
Stays == \A d \in Devices : call[d].finished /\ call'[d].at # "none" => call'[d].finished

-----------------------------------------------------------------------------
(* The effects on one call *)

LEMMA EnterTeardownStays == ASSUME NEW c \in ActiveCall PROVE EnterTeardown(c).finished = c.finished
<1> DEFINE n == c.turns + (IF c.asking THEN 1 ELSE 0)
<1>1. EnterTeardown(c) = [c EXCEPT !.at = "draining", !.timer = FALSE, !.ahead = n]
  BY DEF EnterTeardown
<1> HIDE DEF n
<1> QED
  BY <1>1 DEF ActiveCall

LEMMA FailStays == ASSUME NEW c \in ActiveCall, NEW why \in Reason PROVE Fail(c, why).finished = c.finished
<1> DEFINE f == [c EXCEPT !.outcome = OrElse(@, IF c.machine = "incoming" THEN "missed" ELSE "failed"),
                          !.why = OrElse(@, why)]
<1>1. f \in ActiveCall /\ f.finished = c.finished
  BY DEF ActiveCall, OrElse, Outcome, Reason, Null
<1>2. Fail(c, why) = EnterTeardown(f)
  BY DEF Fail
<1> HIDE DEF f
<1> QED
  BY <1>1, <1>2, EnterTeardownStays

LEMMA RequestEndFinishes ==
    ASSUME NEW c \in ActiveCall, NEW outcome PROVE RequestEnd(c, outcome).finished = TRUE
  BY DEF RequestEnd, ActiveCall

LEMMA TurnDoneStays == ASSUME NEW c \in ActiveCall PROVE TurnDone(c).finished = c.finished
<1> DEFINE n == IF c.ahead > 0 THEN c.ahead - 1 ELSE 0
<1>1. TurnDone(c) = [c EXCEPT !.asking = FALSE, !.ahead = n]
  BY DEF TurnDone, ActiveCall
<1> HIDE DEF n
<1> QED
  BY <1>1 DEF ActiveCall

\* speak() may ask for the end, never take it back.
LEMMA SpeakStays ==
    ASSUME NEW c \in ActiveCall, c.at # "opening", c.finished,
           NEW audio \in BOOLEAN, NEW text \in BOOLEAN, NEW hangUp \in BOOLEAN
    PROVE  Speak(c, audio, text, hangUp).finished
<1> DEFINE played == IF audio THEN MarkTalking(c) ELSE c
           said   == IF text THEN [played EXCEPT !.lines = @ + 1] ELSE played
<1>1. played \in ActiveCall /\ played.finished
  BY MarkTalkingKept DEF Kept, MarkTalking, ActiveCall
<1>2. said \in ActiveCall /\ said.finished
  <2> HIDE DEF played
  <2> QED
    BY <1>1 DEF ActiveCall
<1>3. RequestEnd(said, "completed").finished
  <2> HIDE DEF said
  <2> QED
    BY <1>2, RequestEndFinishes
<1> QED
  BY <1>2, <1>3 DEF Speak

-----------------------------------------------------------------------------
(* The steps of the call loop *)

\* A step that changes one call and does not take back its end.
LEMMA OneChange ==
    ASSUME IInv, NEW d \in Devices, NEW e, call' = [call EXCEPT ![d] = e],
           call[d].finished /\ e.at # "none" => e.finished
    PROVE  Stays
  BY DEF IInv, TypeOK, Stays

LEMMA PollResumesStays == ASSUME IInv, NEW d \in Devices, PollResumes(d) PROVE Stays
<1>1. CASE UNCHANGED call
  BY <1>1 DEF Stays
<1>2. ASSUME NEW e, ~HasCallOn(d), call' = [call EXCEPT ![d] = e] PROVE Stays
  <2>1. call[d] = NoCall
    BY <1>2, Facts DEF HasCallOn, Shape
  <2>2. ~call[d].finished
    BY <2>1 DEF NoCall
  <2> QED
    BY <1>2, <2>2, OneChange
<1>3. \/ UNCHANGED call
      \/ ~HasCallOn(d) /\ call' = [call EXCEPT ![d] = NewCall]
      \/ ~HasCallOn(d) /\ call' = [call EXCEPT ![d] = Fail(NewCall, "held")]
      \/ ~HasCallOn(d) /\ call' = [call EXCEPT ![d] = Fail(NewCall, "other")]
  BY DEF PollResumes
<1> QED
  BY <1>1, <1>2, <1>3

LEMMA SetupStays == ASSUME IInv, NEW d \in Devices, Setup(d) PROVE Stays
<1> DEFINE c == call[d]
<1>1. c \in ActiveCall /\ "other" \in Reason
  BY Facts DEF Reason
<1>2. CASE call' = [call EXCEPT ![d] = Fail(@, "other")]
  BY <1>1, <1>2, FailStays, OneChange
<1>3. CASE Answer(d)
  <2> DEFINE up == [c EXCEPT !.answered = TRUE, !.machine = "answered"]
  <2>1. up \in ActiveCall /\ up.finished = c.finished
    BY <1>1 DEF ActiveCall, CallState
  <2>2. CASE call' = [call EXCEPT ![d] = [up EXCEPT !.at = "opening"]]
    <3>1. [up EXCEPT !.at = "opening"].finished = c.finished
      BY <1>1 DEF ActiveCall
    <3> QED
      BY <2>2, <3>1, OneChange
  <2>3. CASE call' = [call EXCEPT ![d] = Fail(up, "other")]
    <3> HIDE DEF up
    <3>1. Fail(up, "other").finished = c.finished
      BY <1>1, <2>1, FailStays
    <3> QED
      BY <2>3, <3>1, OneChange
  <2> QED
    BY <1>2, <1>3, <2>2, <2>3 DEF Answer
<1>4. CASE OpenSession(d)
  <2>1. ASSUME NEW recording \in BOOLEAN,
               call' = [call EXCEPT ![d].at = "starting", ![d].stream = "open",
                                    ![d].recording = recording]
        PROVE  Stays
    <3>1. call' = [call EXCEPT ![d] = [c EXCEPT !.at = "starting", !.stream = "open",
                                               !.recording = recording]]
      BY <2>1 DEF IInv, TypeOK
    <3> QED
      BY <1>1, <3>1, OneChange DEF ActiveCall
  <2> QED
    BY <1>2, <1>4, <2>1 DEF OpenSession
<1>5. CASE StartCapture(d)
  <2>1. CASE call' = [call EXCEPT ![d].at = "greeting", ![d].capture = TRUE]
    <3>1. call' = [call EXCEPT ![d] = [c EXCEPT !.at = "greeting", !.capture = TRUE]]
      BY <2>1 DEF IInv, TypeOK
    <3> QED
      BY <1>1, <3>1, OneChange DEF ActiveCall
  <2> QED
    BY <1>2, <1>5, <2>1 DEF StartCapture
<1>6. CASE Greet(d)
  <2>1. CASE call' = [call EXCEPT ![d].at = "live", ![d].timer = TRUE]
    <3>1. call' = [call EXCEPT ![d] = [c EXCEPT !.at = "live", !.timer = TRUE]]
      BY <2>1 DEF IInv, TypeOK
    <3> QED
      BY <1>1, <3>1, OneChange DEF ActiveCall
  <2>2. ASSUME NEW audio \in BOOLEAN, NEW text \in BOOLEAN, NEW hangUp \in BOOLEAN,
               call' = [call EXCEPT ![d] = [Speak(@, audio, text, hangUp)
                                              EXCEPT !.at = "live", !.timer = TRUE]]
        PROVE  Stays
    <3> DEFINE s == Speak(c, audio, text, hangUp)
    <3>1. c.at # "opening"
      BY <1>6 DEF Greet
    <3>2. s \in ActiveCall /\ (c.finished => s.finished)
      BY <1>1, <3>1, SpeakKept, SpeakStays DEF Kept
    <3> HIDE DEF s
    <3>3. [s EXCEPT !.at = "live", !.timer = TRUE].finished = s.finished
      BY <3>2 DEF ActiveCall
    <3>4. call' = [call EXCEPT ![d] = [s EXCEPT !.at = "live", !.timer = TRUE]]
      BY <2>2 DEF s
    <3> QED
      BY <3>2, <3>3, <3>4, OneChange
  <2> QED
    BY <1>2, <1>6, <2>1, <2>2 DEF Greet
<1>7. CASE Finish(d)
  BY <1>1, <1>7, EnterTeardownStays, OneChange DEF Finish
<1> QED
  BY <1>3, <1>4, <1>5, <1>6, <1>7 DEF Setup

LEMMA TeardownStays == ASSUME IInv, NEW d \in Devices, Teardown(d) PROVE Stays
<1> DEFINE c == call[d]
<1>1. c \in ActiveCall
  BY Facts
<1>2. CASE StopCapture(d)
  <2>1. call' = [call EXCEPT ![d] = [c EXCEPT !.at = "closingAudio", !.capture = FALSE]]
    BY <1>2 DEF StopCapture, IInv, TypeOK
  <2> QED
    BY <1>1, <2>1, OneChange DEF ActiveCall
<1>3. CASE CloseAudio(d)
  <2>1. call' = [call EXCEPT ![d] = [c EXCEPT !.at = "terminating", !.recording = FALSE]]
    BY <1>3 DEF CloseAudio, IInv, TypeOK
  <2> QED
    BY <1>1, <2>1, OneChange DEF ActiveCall
<1>4. CASE Terminated(d)
  <2> DEFINE next == [c EXCEPT !.at = "hangingUp"]
             shut == [RequestEnd(next, "failed") EXCEPT !.stream = "closed"]
  <2>1. next \in ActiveCall /\ next.finished = c.finished
    BY <1>1 DEF ActiveCall, Point
  <2>2. shut.finished
    <3> HIDE DEF next
    <3> QED
      BY <2>1 DEF RequestEnd, ActiveCall
  <2>3. call' = [call EXCEPT ![d] = IF next.stream = "open" THEN shut ELSE next]
    BY <1>4 DEF Terminated
  <2> HIDE DEF next, shut
  <2> QED
    BY <2>1, <2>2, <2>3, OneChange
<1>5. CASE HangUp(d)
  <2> DEFINE last == OrElse(c.outcome, IF c.answered THEN "completed" ELSE "missed")
  <2>1. call' = [call EXCEPT ![d] = [c EXCEPT !.at = "notifying", !.machine = "ended", !.outcome = last]]
    BY <1>5 DEF HangUp, IInv, TypeOK
  <2> HIDE DEF last
  <2> QED
    BY <1>1, <2>1, OneChange DEF ActiveCall
<1>6. CASE Notified(d)
  BY <1>6, OneChange DEF Notified, NoCall
<1> QED
  BY <1>2, <1>3, <1>4, <1>5, <1>6 DEF Teardown

LEMMA TurnsStay == ASSUME IInv, NEW d \in Devices, Turns(d) PROVE Stays
<1> DEFINE c == call[d]
<1>1. c \in ActiveCall
  BY Facts
<1>2. CASE HandleTurn(d)
  <2> DEFINE taken == [c EXCEPT !.turns = @ - 1]
             heard == [MarkTalking(taken) EXCEPT !.lines = @ + 1]
             asked == [heard EXCEPT !.asking = TRUE]
  <2>1. taken \in ActiveCall /\ taken.finished = c.finished
    BY <1>1, <1>2 DEF HandleTurn, ActiveCall
  <2>2. heard \in ActiveCall /\ heard.finished = taken.finished
    <3> HIDE DEF taken
    <3> QED
      BY <2>1 DEF MarkTalking, ActiveCall, CallState
  <2>3. asked.finished = heard.finished
    <3> HIDE DEF heard
    <3> QED
      BY <2>2 DEF ActiveCall
  <2>4. \/ call' = [call EXCEPT ![d] = TurnDone(taken)]
        \/ call' = [call EXCEPT ![d] = asked]
        \/ call' = [call EXCEPT ![d] = TurnDone(heard)]
    BY <1>2 DEF HandleTurn
  <2> HIDE DEF taken, heard, asked
  <2>5. TurnDone(taken).finished = c.finished /\ TurnDone(heard).finished = c.finished
    BY <2>1, <2>2, TurnDoneStays
  <2> QED
    BY <2>1, <2>2, <2>3, <2>4, <2>5, OneChange
<1>3. CASE AgentReplies(d)
  <2>1. CASE call' = [call EXCEPT ![d] = TurnDone(@)]
    BY <1>1, <2>1, TurnDoneStays, OneChange
  <2>2. ASSUME NEW audio \in BOOLEAN, NEW text \in BOOLEAN, NEW hangUp \in BOOLEAN,
               call' = [call EXCEPT ![d] = TurnDone(Speak(@, audio, text, hangUp))]
        PROVE  Stays
    <3> DEFINE s == Speak(c, audio, text, hangUp)
    <3>1. c.at # "opening"
      BY <1>3, Facts DEF AgentReplies, Shape
    <3>2. s \in ActiveCall /\ (c.finished => s.finished)
      BY <1>1, <3>1, SpeakKept, SpeakStays DEF Kept
    <3>3. call' = [call EXCEPT ![d] = TurnDone(s)]
      BY <2>2
    <3> HIDE DEF s
    <3> QED
      BY <3>2, <3>3, TurnDoneStays, OneChange
  <2> QED
    BY <1>3, <2>1, <2>2 DEF AgentReplies
<1> QED
  BY <1>2, <1>3 DEF Turns

LEMMA BesideStays == ASSUME IInv, NEW d \in Devices, Beside(d) PROVE Stays
<1> DEFINE c == call[d]
<1>1. c \in ActiveCall
  BY Facts
<1>2. CASE TurnArrives(d)
  <2>1. call' = [call EXCEPT ![d] = [c EXCEPT !.turns = @ + 1]]
    BY <1>2 DEF TurnArrives, IInv, TypeOK
  <2> QED
    BY <1>1, <2>1, OneChange DEF ActiveCall
<1>3. CASE FarEndAudio(d)
  <2>1. MarkTalking(c).finished = c.finished
    BY <1>1 DEF MarkTalking, ActiveCall
  <2> QED
    BY <1>3, <2>1, OneChange DEF FarEndAudio
<1>4. CASE StreamCloses(d)
  <2> DEFINE r == RequestEnd(c, "failed")
  <2>1. r \in ActiveCall /\ r.finished
    BY <1>1, RequestEndKept, RequestEndFinishes DEF Kept
  <2>2. call' = [call EXCEPT ![d] = [r EXCEPT !.stream = "closed"]]
    BY <1>4 DEF StreamCloses
  <2> HIDE DEF r
  <2>3. [r EXCEPT !.stream = "closed"].finished
    BY <2>1 DEF ActiveCall
  <2> QED
    BY <2>2, <2>3, OneChange
<1>5. CASE EndCall(d)
  <2>1. PICK outcome \in {"completed", "failed"} : call' = [call EXCEPT ![d] = RequestEnd(@, outcome)]
    BY <1>5 DEF EndCall
  <2> QED
    BY <1>1, <2>1, RequestEndFinishes, OneChange
<1>6. CASE Drain(d)
  <2>1. call' = [call EXCEPT ![d] = [c EXCEPT !.finished = TRUE]]
    BY <1>6 DEF Drain, IInv, TypeOK
  <2> QED
    BY <1>1, <2>1, OneChange DEF ActiveCall
<1> QED
  BY <1>2, <1>3, <1>4, <1>5, <1>6 DEF Beside

LEMMA ProbesStay == ASSUME IInv, NEW d \in Devices, ProbeLine(d) \/ ProbeAnswers(d) PROVE Stays
<1> DEFINE c == call[d]
<1>1. c \in ActiveCall
  BY Facts
<1>2. CASE ProbeLine(d)
  <2>1. PICK answer \in {"idle", "error"} :
            call' = [call EXCEPT ![d].probes = @ \cup {answer}]
    BY <1>2 DEF ProbeLine
  <2>2. call' = [call EXCEPT ![d] = [c EXCEPT !.probes = @ \cup {answer}]]
    BY <2>1 DEF IInv, TypeOK
  <2> QED
    BY <1>1, <2>2, OneChange DEF ActiveCall
<1>3. CASE ProbeAnswers(d)
  <2>1. PICK answer \in c.probes :
            LET rest == [c EXCEPT !.probes = @ \ {answer}]
            IN  call' = [call EXCEPT ![d] =
                    IF answer = "idle" THEN RequestEnd(rest, "completed")
                                       ELSE RequestEnd(rest, "failed")]
    BY <1>3 DEF ProbeAnswers
  <2> DEFINE rest == [c EXCEPT !.probes = @ \ {answer}]
  <2>2. rest \in ActiveCall
    BY <1>1 DEF ActiveCall
  <2>3. \/ call' = [call EXCEPT ![d] = RequestEnd(rest, "completed")]
        \/ call' = [call EXCEPT ![d] = RequestEnd(rest, "failed")]
    BY <2>1
  <2> HIDE DEF rest
  <2> QED
    BY <2>2, <2>3, RequestEndFinishes, OneChange
<1> QED
  BY <1>2, <1>3

\* No step of the call loop takes an end request back.
LEMMA NextStays == ASSUME IInv, [Next]_vars PROVE Stays
<1>1. CASE UNCHANGED call
  BY <1>1 DEF Stays
<1>2. ASSUME NEW d \in Devices,
             \/ PollAsks(d) \/ PollResumes(d)
             \/ Setup(d) \/ Teardown(d) \/ Turns(d) \/ Beside(d)
             \/ ProbeLine(d) \/ ProbeAnswers(d) \/ World(d)
      PROVE  Stays
  <2>1. CASE PollAsks(d) \/ World(d)
    BY <1>1, <2>1 DEF PollAsks, World, Rings, LineDrops, Listen, StopListening, PhasePolled
  <2> QED
    BY <1>2, <2>1, PollResumesStays, SetupStays, TeardownStays, TurnsStay, BesideStays, ProbesStay
<1> QED
  BY <1>1, <1>2 DEF Next, Start, Stop, vars

-----------------------------------------------------------------------------
(* The watchdog beside it *)

\* What the watchdog does beside a step of the call loop.
Looked == Seen(TRUE)

\* What every step keeps of the books: the calls given up are in flight and asked to end.
LEMMA BooksKept ==
    ASSUME WInv, Stays, ended' \subseteq ended, \A d \in ended' : call'[d].at # "none"
    PROVE  AskedMeansEnding'
  BY DEF WInv, WatchdogTypeOK, AskedMeansEnding, Stays, HasCallOn

\* A call in flight gets no younger than the books say, and only while it is there.
LEMMA SeenStep ==
    ASSUME WInv, Looked, IInv', Stays
    PROVE  WInv'
<1>1. AskedMeansEnding'
  BY BooksKept DEF Looked, Seen
<1>2. /\ age' \in [Devices -> {"fresh", "stalled", "overrun"}]
      /\ UNCHANGED <<patrol, closing>>
      /\ ended' \subseteq Devices
  BY DEF Looked, Seen, WInv, WatchdogTypeOK
<1>3. \A d \in Devices : age'[d] # "fresh" \/ d \in ended' => call'[d].at # "none"
  BY DEF Looked, Seen
<1> QED
  BY <1>1, <1>2, <1>3 DEF WInv, WatchdogTypeOK, HasCallOn

\* A sweep requests the end of every overdue call at once: each of them keeps its
\* shape, and is on the books from now on.
LEMMA SweepStep == ASSUME WInv, Sweep PROVE WInv'
<1>1. ASSUME NEW d \in Devices
      PROVE  /\ call'[d] \in ActiveCall /\ Shape(call'[d])
             /\ call'[d].stream = call[d].stream
             /\ call'[d].at = call[d].at
             /\ Overdue(d) => call'[d].finished
             /\ call[d].finished => call'[d].finished
  <2> DEFINE r == RequestEnd(call[d], "failed")
  <2>1. call[d] \in ActiveCall /\ Shape(call[d])
    BY Facts DEF WInv
  <2>2. Kept(call[d], r) /\ r.finished
    BY <2>1, RequestEndKept, RequestEndFinishes
  <2>3. call'[d] = IF Overdue(d) THEN r ELSE call[d]
    BY DEF Sweep
  <2>4. Overdue(d) => call[d].at # "none"
    BY DEF Overdue, HasCallOn
  <2> HIDE DEF r
  <2> QED
    BY <2>1, <2>2, <2>3, <2>4, KeptShape DEF Kept
<1>2. call' \in [Devices -> ActiveCall]
  BY <1>1 DEF Sweep
<1>3. IInv'
  BY <1>1, <1>2 DEF WInv, IInv, TypeOK, Shapes, Billed, Sweep
<1>4. \A d \in ended' : d \in Devices /\ call'[d].at # "none" /\ call'[d].finished
  <2>1. \A d \in ended : d \in Devices /\ call[d].at # "none" /\ call[d].finished
    BY DEF WInv, WatchdogTypeOK, AskedMeansEnding, HasCallOn
  <2>2. \A d \in Devices : Overdue(d) => call[d].at # "none"
    BY DEF Overdue, HasCallOn
  <2> QED
    BY <1>1, <2>1, <2>2 DEF Sweep
<1>5. WatchdogTypeOK'
  BY <1>1, <1>4 DEF Sweep, WInv, WatchdogTypeOK, HasCallOn
<1> QED
  BY <1>3, <1>4, <1>5 DEF WInv, AskedMeansEnding, HasCallOn

LEMMA SweptStep == ASSUME WInv, NEW d \in Devices, Swept(d) PROVE WInv'
<1>1. /\ session' \in [Devices -> {"free", "call", "manual"}]
      /\ \A x \in Devices : session'[x] = "call" <=> session[x] = "call"
  BY DEF Swept, WInv, IInv, TypeOK
<1>2. IInv'
  BY <1>1 DEF Swept, WInv, IInv, TypeOK, Shapes, Billed
<1> QED
  BY <1>2 DEF Swept, WInv, WatchdogTypeOK, AskedMeansEnding, HasCallOn

LEMMA WatchdogStep == ASSUME WInv, [WatchdogNext]_watchdogVars PROVE WInv'
<1>1. CASE UNCHANGED watchdogVars
  BY <1>1 DEF watchdogVars, vars, WInv, IInv, TypeOK, Shapes, Billed, WatchdogTypeOK,
              AskedMeansEnding, HasCallOn
<1>2. CASE Enable
  <2>1. IInv' /\ UNCHANGED call
    BY <1>2, StartStep DEF Enable, Start, WInv, Good
  <2> QED
    BY <1>2, <2>1 DEF Enable, WInv, WatchdogTypeOK, AskedMeansEnding, HasCallOn
<1>3. CASE Sweep
  BY <1>3, SweepStep
<1>4. ASSUME [Next]_vars, Looked PROVE WInv'
  <2>1. IInv' /\ Stays
    BY <1>4, Step, NextStays DEF WInv, Good
  <2> QED
    BY <1>4, <2>1, SeenStep
<1>5. CASE Seen(Stop)
  <2>1. Stop /\ Looked
    BY <1>5 DEF Seen, Looked
  <2> QED
    BY <1>4, <2>1 DEF Next
<1>6. ASSUME NEW d \in Devices, Elapse(d) PROVE WInv'
  BY <1>6 DEF Elapse, vars, WInv, IInv, TypeOK, Shapes, Billed, WatchdogTypeOK,
              AskedMeansEnding, HasCallOn
<1>7. ASSUME NEW d \in Devices,
             \/ Seen(PollAsks(d)) \/ Seen(PollResumes(d))
             \/ Seen(Setup(d)) \/ Seen(Teardown(d)) \/ Seen(Turns(d)) \/ Seen(Beside(d))
             \/ Seen(ProbeLine(d)) \/ Seen(ProbeAnswers(d)) \/ Seen(World(d))
      PROVE  WInv'
  <2>1. Looked
    BY <1>7 DEF Seen, Looked
  <2>2. \/ PollAsks(d) \/ PollResumes(d)
        \/ Setup(d) \/ Teardown(d) \/ Turns(d) \/ Beside(d)
        \/ ProbeLine(d) \/ ProbeAnswers(d) \/ World(d)
    BY <1>7 DEF Seen
  <2>3. Next
    BY <2>2 DEF Next
  <2> QED
    BY <1>4, <2>1, <2>3
<1> QED
  BY <1>1, <1>2, <1>3, <1>5, <1>6, <1>7, SweptStep DEF WatchdogNext

-----------------------------------------------------------------------------
(* The theorems *)

\* With sweeps beside it, the call loop keeps the invariant that bounds its resources.
THEOREM WatchdogInvariance == WatchdogSpec => []WInv
<1>1. WatchdogInit => WInv
  <2>1. WatchdogInit => IInv
    BY Start0 DEF WatchdogInit
  <2> QED
    BY <2>1 DEF WatchdogInit, WInv, WatchdogTypeOK, AskedMeansEnding
<1>2. WInv /\ [WatchdogNext]_watchdogVars => WInv'
  BY WatchdogStep
<1> QED
  BY <1>1, <1>2, PTL DEF WatchdogSpec

\* The watchdog's books keep their types and name calls in flight only.
THEOREM BooksAreTrue == WatchdogSpec => []WatchdogTypeOK
<1>1. WInv => WatchdogTypeOK
  BY DEF WInv
<1> QED
  BY WatchdogInvariance, <1>1, PTL

\* Asking once is enough: the end of a call on the books is never taken back.
THEOREM OnceIsEnough == WatchdogSpec => []AskedMeansEnding
<1>1. WInv => AskedMeansEnding
  BY DEF WInv
<1> QED
  BY WatchdogInvariance, <1>1, PTL
=============================================================================
