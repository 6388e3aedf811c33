---------------------------- MODULE Orchestrator ----------------------------
(***************************************************************************)
(* The call loop: packages/orchestrator/src/orchestrator.ts, with the      *)
(* per-call state machine of stateMachine.ts.                              *)
(*                                                                         *)
(* call[d] is the ActiveCall of device d (NoCall when `calls' has none for *)
(* it); its field `at' is the await the call's own thread of control       *)
(* (handleIncomingCall, runCall, teardown) stands at.  Turns, hang-up      *)
(* probes, polls and end requests run beside that thread, in any order.    *)
(* An awaited operation may fail; the stores write synchronously, so a     *)
(* save settles within the job that makes it.                              *)
(***************************************************************************)
EXTENDS Naturals, FiniteSets

CONSTANTS
    Devices,    \* the phones of the pool
    MaxPolls,   \* bound: passes of poll() waiting on one device
    MaxLines    \* bound: caller turns of one call

ASSUME PoolAssumption == MaxPolls \in Nat /\ MaxLines \in Nat

VARIABLES
    watching,   \* the poll timer is set: start() without stop()
    line,       \* what the phone is really doing: "quiet", "ringing" or "up"
    phase,      \* the device's phase in the DeviceManager
    session,    \* who holds the realtime session key: "free", "call" or "manual"
    hits,       \* passes of poll() waiting for the detector's answer
    call        \* the call in flight on each device

vars == <<watching, line, phase, session, hits, call>>

Null == "null"

Point == {"none", "answering", "opening", "starting", "greeting", "live",
          "draining", "closingAudio", "terminating", "hangingUp", "notifying"}

CallState == {"idle", "incoming", "answered", "talking", "ended"}

Outcome == {"completed", "failed", "missed"}

\* Why the call ends: its session key was held, or anything else.
Reason == {"held", "other"}

ActiveCall ==
    [at : Point, machine : CallState, answered : BOOLEAN,
     finished : BOOLEAN, outcome : Outcome \cup {Null}, why : Reason \cup {Null},
     stream : {"none", "open", "closed"}, recording : BOOLEAN, capture : BOOLEAN,
     timer : BOOLEAN, probes : SUBSET {"idle", "error"},
     asking : BOOLEAN, turns : Nat, ahead : Nat, lines : Nat]

NoCall ==
    [at |-> "none", machine |-> "idle", answered |-> FALSE,
     finished |-> FALSE, outcome |-> Null, why |-> Null,
     stream |-> "none", recording |-> FALSE, capture |-> FALSE,
     timer |-> FALSE, probes |-> {},
     asking |-> FALSE, turns |-> 0, ahead |-> 0, lines |-> 0]

\* hasCallOn()
HasCallOn(d) == call[d].at # "none"

Init ==
    /\ watching = FALSE
    /\ line = [d \in Devices |-> "quiet"]
    /\ phase = [d \in Devices |-> "online"]
    /\ session = [d \in Devices |-> "free"]
    /\ hits = [d \in Devices |-> 0]
    /\ call = [d \in Devices |-> NoCall]

-----------------------------------------------------------------------------
(* Effects on one ActiveCall *)

\* x ??= y
OrElse(x, y) == IF x = Null THEN y ELSE x

\* markTalking()
MarkTalking(c) == IF c.machine = "answered" THEN [c EXCEPT !.machine = "talking"] ELSE c

\* requestEnd()
RequestEnd(c, outcome) ==
    [c EXCEPT !.outcome = OrElse(@, outcome), !.why = OrElse(@, "other"), !.finished = TRUE]

\* teardown() up to its first await: the hang-up timer is cleared and the turns
\* chained so far are waited for (the ones chained later are not).
EnterTeardown(c) ==
    [c EXCEPT !.at = "draining", !.timer = FALSE,
              !.ahead = c.turns + (IF c.asking THEN 1 ELSE 0)]

\* The catch of handleIncomingCall(), then its finally.
Fail_AlwaysMissed(c, why) ==
    EnterTeardown([c EXCEPT !.outcome = OrElse(@, "missed"), !.why = OrElse(@, why)])

Fail(c, why) ==
    EnterTeardown([c EXCEPT !.outcome = OrElse(@, IF c.machine = "incoming" THEN "missed" ELSE "failed"),
                            !.why = OrElse(@, why)])

-----------------------------------------------------------------------------
(* The pool watch *)

Start == /\ ~watching
         /\ watching' = TRUE
         /\ UNCHANGED <<line, phase, session, hits, call>>

Stop == /\ watching
        /\ watching' = FALSE
        /\ UNCHANGED <<line, phase, session, hits, call>>

\* poll() asks the detector about a device that has no call; a pass under way
\* visits the pool whether or not the watch has been stopped since.
Pollable(d) == phase[d] \in {"online", "incoming"} /\ ~HasCallOn(d)

PollAsks(d) ==
    /\ watching
    /\ Pollable(d)
    /\ hits[d] < MaxPolls
    /\ hits' = [hits EXCEPT ![d] = @ + 1]
    /\ UNCHANGED <<watching, line, phase, session, call>>

\* The pass that stands at d is done, or goes on to a later device.
PassMovesOn(d) ==
    LET left == [hits EXCEPT ![d] = @ - 1]
    IN  \/ hits' = left
        \/ \E e \in Devices \ {d} : /\ Pollable(e)
                                    /\ hits[e] < MaxPolls
                                    /\ hits' = [left EXCEPT ![e] = @ + 1]

\* A call is registered and taken up to its first real await: the state machine
\* and the device go to incoming, the record is saved, and the session key is
\* pre-flighted - a key somebody holds, or a failed save, refuses the call.
NewCall == [NoCall EXCEPT !.at = "answering", !.machine = "incoming"]

\* The detector answers poll(): there is no call, or there is one (it may be over
\* by now) and handleIncomingCall() runs - it throws when the device has got a
\* call in the meantime, and starts one otherwise.
PollResumes_NoRecheck(d) ==
    /\ hits[d] > 0
    /\ PassMovesOn(d)
    /\ UNCHANGED <<watching, line, session>>
    /\ \/ UNCHANGED <<phase, call>>
       \/ /\ phase' = [phase EXCEPT ![d] = "incoming"]
          /\ call' = [call EXCEPT ![d] = IF session[d] = "free" THEN NewCall ELSE Fail(NewCall, "held")]

PollResumes(d) ==
    /\ hits[d] > 0
    /\ PassMovesOn(d)
    /\ UNCHANGED <<watching, line, session>>
    /\ \/ UNCHANGED <<phase, call>>
       \/ /\ ~HasCallOn(d)
          /\ phase' = [phase EXCEPT ![d] = "incoming"]
          /\ \/ session[d] = "free" /\ call' = [call EXCEPT ![d] = NewCall]
             \/ session[d] # "free" /\ call' = [call EXCEPT ![d] = Fail(NewCall, "held")]
             \/ call' = [call EXCEPT ![d] = Fail(NewCall, "other")]

-----------------------------------------------------------------------------
(* runCall() *)

\* answer() settles.  It reports success whether or not the phone was ringing;
\* the save that follows may fail.
Answer(d) ==
    /\ call[d].at = "answering"
    /\ \/ /\ call' = [call EXCEPT ![d] = Fail(@, "other")]
          /\ UNCHANGED <<line, phase>>
       \/ LET up == [call[d] EXCEPT !.answered = TRUE, !.machine = "answered"]
          IN  /\ line' = [line EXCEPT ![d] = IF @ = "ringing" THEN "up" ELSE @]
              /\ phase' = [phase EXCEPT ![d] = "in-call"]
              /\ \/ call' = [call EXCEPT ![d] = [up EXCEPT !.at = "opening"]]
                 \/ call' = [call EXCEPT ![d] = Fail(up, "other")]
    /\ UNCHANGED <<watching, session, hits>>

\* sessions.open() settles: a key taken since the pre-flight throws.  With the
\* stream come its wiring, the audio session and the recorder (if it can be built).
OpenSession(d) ==
    /\ call[d].at = "opening"
    /\ \/ /\ session[d] = "free"
          /\ session' = [session EXCEPT ![d] = "call"]
          /\ \E recording \in BOOLEAN :
                call' = [call EXCEPT ![d].at = "starting", ![d].stream = "open",
                                     ![d].recording = recording]
       \/ call' = [call EXCEPT ![d] = Fail(@, "other")] /\ UNCHANGED session
    /\ UNCHANGED <<watching, line, phase, hits>>

\* capture.start() settles.
StartCapture(d) ==
    /\ call[d].at = "starting"
    /\ \/ call' = [call EXCEPT ![d].at = "greeting", ![d].capture = TRUE]
       \/ call' = [call EXCEPT ![d] = Fail(@, "other")]
    /\ UNCHANGED <<watching, line, phase, session, hits>>

\* speak(): audio marks the call as talking, text is a transcript line, and a
\* reply may end the call.  A call that has ended says nothing.
Speak(c, audio, text, hangUp) ==
    LET played == IF audio THEN MarkTalking(c) ELSE c
        said   == IF text THEN [played EXCEPT !.lines = @ + 1] ELSE played
    IN  IF c.machine = "ended" THEN c
        ELSE IF hangUp THEN RequestEnd(said, "completed") ELSE said

\* greet() settles - with nothing to say, with a line, or with an error - and the
\* hang-up watch starts.
Greet(d) ==
    /\ call[d].at = "greeting"
    /\ \/ call' = [call EXCEPT ![d].at = "live", ![d].timer = TRUE]
       \/ \E audio, text, hangUp \in BOOLEAN :
             call' = [call EXCEPT ![d] = [Speak(@, audio, text, hangUp)
                                            EXCEPT !.at = "live", !.timer = TRUE]]
       \/ call' = [call EXCEPT ![d] = Fail(@, "other")]
    /\ UNCHANGED <<watching, line, phase, session, hits>>

\* `await active.finished' resolves.
Finish(d) ==
    /\ call[d].at = "live"
    /\ call[d].finished
    /\ call' = [call EXCEPT ![d] = EnterTeardown(@)]
    /\ UNCHANGED <<watching, line, phase, session, hits>>

-----------------------------------------------------------------------------
(* Beside the call's own thread: audio, turns, the stream, the hang-up watch *)

\* sttSink(): far-end audio, as soon as the capture may produce it.
FarEndAudio(d) ==
    /\ call[d].capture \/ call[d].at = "starting"
    /\ call[d].machine = "answered"
    /\ call' = [call EXCEPT ![d] = MarkTalking(@)]
    /\ UNCHANGED <<watching, line, phase, session, hits>>

\* A final turn arrives and is chained; the stream delivers until it closes.
TurnArrives(d) ==
    /\ call[d].stream = "open"
    /\ call[d].turns + call[d].lines < MaxLines
    /\ call' = [call EXCEPT ![d].turns = @ + 1]
    /\ UNCHANGED <<watching, line, phase, session, hits>>

\* A turn leaves the chain: teardown waits for one less.
TurnDone(c) == [c EXCEPT !.asking = FALSE, !.ahead = IF @ > 0 THEN @ - 1 ELSE 0]

\* onTurn() of the first chained turn: dropped once the call has ended; otherwise
\* a transcript line, then - unless the save fails - the agent is asked.
HandleTurn_NoEndCheck(d) ==
    /\ call[d].turns > 0
    /\ ~call[d].asking
    /\ LET taken == [call[d] EXCEPT !.turns = @ - 1]
           heard == [MarkTalking(taken) EXCEPT !.lines = @ + 1]
       IN  \/ call' = [call EXCEPT ![d] = [heard EXCEPT !.asking = TRUE]]
           \/ call' = [call EXCEPT ![d] = TurnDone(heard)]
    /\ UNCHANGED <<watching, line, phase, session, hits>>

HandleTurn(d) ==
    /\ call[d].turns > 0
    /\ ~call[d].asking
    /\ LET taken == [call[d] EXCEPT !.turns = @ - 1]
           heard == [MarkTalking(taken) EXCEPT !.lines = @ + 1]
       IN  \/ taken.machine = "ended" /\ call' = [call EXCEPT ![d] = TurnDone(taken)]
           \/ taken.machine # "ended" /\ call' = [call EXCEPT ![d] = [heard EXCEPT !.asking = TRUE]]
           \/ taken.machine # "ended" /\ call' = [call EXCEPT ![d] = TurnDone(heard)]
    /\ UNCHANGED <<watching, line, phase, session, hits>>

\* The agent settles: silence, an error, or a reply that is spoken.
AgentReplies(d) ==
    /\ call[d].asking
    /\ \/ call' = [call EXCEPT ![d] = TurnDone(@)]
       \/ \E audio, text, hangUp \in BOOLEAN :
             call' = [call EXCEPT ![d] = TurnDone(Speak(@, audio, text, hangUp))]
    /\ UNCHANGED <<watching, line, phase, session, hits>>

\* The call's stream closes under it, by itself or because the operator stopped
\* the session of that key.
StreamCloses(d) ==
    /\ session[d] = "call"
    /\ session' = [session EXCEPT ![d] = "free"]
    /\ call' = [call EXCEPT ![d] = [RequestEnd(@, "failed") EXCEPT !.stream = "closed"]]
    /\ UNCHANGED <<watching, line, phase, hits>>

\* One interval of the hang-up watch: the probe reads the line now, or fails, and
\* answers later; intervals do not wait for each other.  An unreadable line ("unknown")
\* and one still in use have no effect.
ProbeLine(d) ==
    /\ call[d].timer
    /\ \E answer \in {"idle", "error"} :
          /\ answer = "idle" => line[d] = "quiet"
          /\ call' = [call EXCEPT ![d].probes = @ \cup {answer}]
    /\ UNCHANGED <<watching, line, phase, session, hits>>

ProbeAnswers_SwallowError(d) ==
    /\ \E answer \in call[d].probes :
          LET rest == [call[d] EXCEPT !.probes = @ \ {answer}]
          IN  call' = [call EXCEPT ![d] =
                  IF answer = "idle" THEN RequestEnd(rest, "completed") ELSE rest]
    /\ UNCHANGED <<watching, line, phase, session, hits>>

ProbeAnswers(d) ==
    /\ \E answer \in call[d].probes :
          LET rest == [call[d] EXCEPT !.probes = @ \ {answer}]
          IN  call' = [call EXCEPT ![d] =
                  IF answer = "idle" THEN RequestEnd(rest, "completed")
                                     ELSE RequestEnd(rest, "failed")]
    /\ UNCHANGED <<watching, line, phase, session, hits>>

\* endCall(): the dashboard or the watchdog asks for the call to end.
EndCall(d) ==
    /\ HasCallOn(d)
    /\ \E outcome \in {"completed", "failed"} :
          call' = [call EXCEPT ![d] = RequestEnd(@, outcome)]
    /\ UNCHANGED <<watching, line, phase, session, hits>>

\* drain(): finish() without an outcome, after the watch has stopped.
Drain(d) ==
    /\ ~watching
    /\ HasCallOn(d)
    /\ call' = [call EXCEPT ![d].finished = TRUE]
    /\ UNCHANGED <<watching, line, phase, session, hits>>

-----------------------------------------------------------------------------
(* teardown() *)

\* The turns waited for are done: the capture stops, the audio session closes.
StopCapture_SkipTerminate(d) ==
    /\ call[d].at = "draining"
    /\ call[d].ahead = 0
    /\ call' = [call EXCEPT ![d].at = IF call[d].capture THEN "closingAudio" ELSE "hangingUp",
                            ![d].capture = FALSE]
    /\ UNCHANGED <<watching, line, phase, session, hits>>

StopCapture(d) ==
    /\ call[d].at = "draining"
    /\ call[d].ahead = 0
    /\ call' = [call EXCEPT ![d].at = "closingAudio", ![d].capture = FALSE]
    /\ UNCHANGED <<watching, line, phase, session, hits>>

\* The recording is finalised and sessions.close() called.
CloseAudio(d) ==
    /\ call[d].at = "closingAudio"
    /\ call' = [call EXCEPT ![d].at = "terminating", ![d].recording = FALSE]
    /\ UNCHANGED <<watching, line, phase, session, hits>>

\* sessions.close() settles: whoever held the key, the session is gone.  A stream
\* that was still open reports its close, which counts as a failure of a call
\* that has no outcome yet.
Terminated(d) ==
    /\ call[d].at = "terminating"
    /\ session' = [session EXCEPT ![d] = "free"]
    /\ LET next == [call[d] EXCEPT !.at = "hangingUp"]
       IN  call' = [call EXCEPT ![d] =
               IF next.stream = "open"
               THEN [RequestEnd(next, "failed") EXCEPT !.stream = "closed"]
               ELSE next]
    /\ UNCHANGED <<watching, line, phase, hits>>

\* The hang-up is tried, the device released, the call ended, its outcome fixed
\* and the final record saved; each guarded step may fail without the rest.
HangUp(d) ==
    /\ call[d].at = "hangingUp"
    /\ line' \in {line, [line EXCEPT ![d] = "quiet"]}
    /\ phase' = [phase EXCEPT ![d] = "online"]
    /\ call' = [call EXCEPT ![d].at = "notifying", ![d].machine = "ended",
                            ![d].outcome = OrElse(@, IF call[d].answered THEN "completed" ELSE "missed")]
    /\ UNCHANGED <<watching, session, hits>>

\* The agent has been told (it abandons the reply it was still making), and the
\* call leaves the map.
Notified(d) ==
    /\ call[d].at = "notifying"
    /\ call' = [call EXCEPT ![d] = NoCall]
    /\ UNCHANGED <<watching, line, phase, session, hits>>

-----------------------------------------------------------------------------
(* The world around it *)

Rings(d) ==
    /\ line[d] = "quiet"
    /\ line' = [line EXCEPT ![d] = "ringing"]
    /\ UNCHANGED <<watching, phase, session, hits, call>>

\* The caller gives up, or the far end hangs up.
LineDrops(d) ==
    /\ line[d] # "quiet"
    /\ line' = [line EXCEPT ![d] = "quiet"]
    /\ UNCHANGED <<watching, phase, session, hits, call>>

\* The operator's Listen button, which needs a phone that is ringing or in a call.
Listen(d) ==
    /\ phase[d] \in {"incoming", "in-call"}
    /\ session[d] = "free"
    /\ session' = [session EXCEPT ![d] = "manual"]
    /\ UNCHANGED <<watching, line, phase, hits, call>>

StopListening(d) ==
    /\ session[d] = "manual"
    /\ session' = [session EXCEPT ![d] = "free"]
    /\ UNCHANGED <<watching, line, phase, hits, call>>

\* The runtime's call-state poll writes the phase it has read off the phone, maybe
\* some time ago (module DevicePool has that poll in full).
PhasePolled(d) ==
    /\ \E seen \in {"online", "incoming", "in-call"} \ {phase[d]} :
          phase' = [phase EXCEPT ![d] = seen]
    /\ UNCHANGED <<watching, line, session, hits, call>>

-----------------------------------------------------------------------------
\* The awaits of a call, each of which settles one way or another.
Setup(d) == Answer(d) \/ OpenSession(d) \/ StartCapture(d) \/ Greet(d) \/ Finish(d)

Teardown(d) == StopCapture(d) \/ CloseAudio(d) \/ Terminated(d) \/ HangUp(d) \/ Notified(d)

Turns(d) == HandleTurn(d) \/ AgentReplies(d)

Beside(d) == TurnArrives(d) \/ FarEndAudio(d) \/ StreamCloses(d) \/ EndCall(d) \/ Drain(d)

World(d) == Rings(d) \/ LineDrops(d) \/ Listen(d) \/ StopListening(d) \/ PhasePolled(d)

Next ==
    \/ Start \/ Stop
    \/ \E d \in Devices :
          \/ PollAsks(d) \/ PollResumes(d)
          \/ Setup(d) \/ Teardown(d) \/ Turns(d) \/ Beside(d)
          \/ ProbeLine(d) \/ ProbeAnswers(d) \/ World(d)

Spec == Init /\ [][Next]_vars

\* Every awaited operation settles (the model and the speech service have time
\* limits, adb commands are killed after 15 s), chained turns are handled, the
\* hang-up timer fires, its probes answer, and a quiet line is at last readable.
Settling ==
    \A d \in Devices :
        /\ WF_vars(Setup(d)) /\ WF_vars(Teardown(d)) /\ WF_vars(Turns(d))
        /\ WF_vars(ProbeLine(d) /\ line[d] = "quiet") /\ WF_vars(ProbeAnswers(d))

FairSpec == Spec /\ Settling

-----------------------------------------------------------------------------
TypeOK ==
    /\ watching \in BOOLEAN
    /\ line \in [Devices -> {"quiet", "ringing", "up"}]
    /\ phase \in [Devices -> {"online", "incoming", "in-call"}]
    /\ session \in [Devices -> {"free", "call", "manual"}]
    /\ hits \in [Devices -> 0..MaxPolls]
    /\ call \in [Devices -> ActiveCall]

-----------------------------------------------------------------------------
(* Properties that hold *)

\* The call loop implements the abstract life cycle: legal state changes only, one
\* call per device though polls overlap, no billed session outside an answered
\* call, and none left when the call ends.
Lifecycle == INSTANCE CallLifecycle WITH
    state <- [d \in Devices |-> call[d].machine],
    meter <- [d \in Devices |-> session[d] = "call"]

ImplementsLifecycle == Lifecycle!Spec

\* By the time a call has ended, everything its set-up may have started is
\* stopped, however far the set-up had come.
EndedCallHoldsNothing ==
    \A d \in Devices : call[d].machine = "ended" =>
        ~call[d].capture /\ ~call[d].recording /\ ~call[d].timer /\ call[d].stream # "open"

\* Once a call has ended nothing more is written to its transcript, whichever
\* turns and replies were still under way.
NothingSaidAfterEnd ==
    [][\A d \in Devices : call[d].machine = "ended" /\ call'[d].machine = "ended" =>
          call'[d].lines = call[d].lines]_vars

\* A call recorded as missed was never answered.
MissedMeansUnanswered == \A d \in Devices : call[d].outcome = "missed" => ~call[d].answered

\* A call that is asked to end is taken down and its device released.
EndIsHonoured == \A d \in Devices : call[d].finished ~> ~HasCallOn(d)

\* A live call whose far end is gone is noticed, unless the phone rings anew first.
HangUpNoticed ==
    \A d \in Devices : call[d].at = "live" /\ line[d] = "quiet" ~>
                          call[d].at # "live" \/ line[d] # "quiet"

-----------------------------------------------------------------------------
(* Claims of the source that the code does not keep *)

\* A call whose session key is already held is left to ring out (orchestrator.ts:405):
\* its own steps neither hang the phone up nor close the session that held the key.
RefusedCallRingsOut ==
    [][\A d \in Devices : call[d].why = "held" /\ call'[d].at # call[d].at =>
          /\ line[d] = "ringing" => line'[d] = "ringing"
          /\ session[d] = "manual" => session'[d] = "manual"]_vars

\* A call that is asked to end comes to its end, and so does one the far end has left, though every
\* probe of its line throws.
CallsEnd == EndIsHonoured /\ HangUpNoticed
=============================================================================
