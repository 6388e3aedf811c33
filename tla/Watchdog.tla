------------------------------ MODULE Watchdog ------------------------------
(***************************************************************************)
(* packages/orchestrator/src/watchdog.ts beside the call loop: the sweep   *)
(* that ends calls which have gone on or been silent for too long and      *)
(* closes realtime sessions with no call behind them.                      *)
(*                                                                         *)
(* The clock is abstract: `age' says what the time passed amounts to, and  *)
(* it may pass at any moment.  The key of a session is its device: one     *)
(* channel per phone.                                                      *)
(***************************************************************************)
EXTENDS Orchestrator

VARIABLES
    patrol,     \* the sweep's timer runs (enable() starts it, disable() leaves it)
    age,        \* of the call on a device: "fresh", "stalled" (no sign of life for
                \* stallMs) or "overrun" (in flight for maxCallMs)
    ended,      \* the devices whose call has been asked to end
    closing     \* the devices whose stray session the sweep is closing

watchdogVars == <<vars, patrol, age, ended, closing>>

WatchdogInit ==
    /\ Init
    /\ patrol = FALSE
    /\ age = [d \in Devices |-> "fresh"]
    /\ ended = {}
    /\ closing = {}

-----------------------------------------------------------------------------
\* A state change or a transcript line is a sign of life.
Touched(d) == call'[d].machine # call[d].machine \/ call'[d].lines > call[d].lines

\* A step of the call loop, as the watchdog sees it.  A call that is gone is
\* forgotten: the next one of the device has another id.
Seen(step) ==
    /\ step
    /\ age' = [d \in Devices |->
                  IF call'[d].at = "none" \/ (age[d] = "stalled" /\ Touched(d))
                  THEN "fresh" ELSE age[d]]
    /\ ended' = {d \in ended : call'[d].at # "none"}
    /\ UNCHANGED <<patrol, closing>>

\* Autopilot.enable() starts both timers.
Enable ==
    /\ Start
    /\ patrol' = TRUE
    /\ UNCHANGED <<age, ended, closing>>

Elapse(d) ==
    /\ HasCallOn(d)
    /\ \/ age[d] = "fresh" /\ age' = [age EXCEPT ![d] = "stalled"]
       \/ age[d] # "overrun" /\ age' = [age EXCEPT ![d] = "overrun"]
    /\ UNCHANGED <<vars, patrol, ended, closing>>

\* judge(): a call still ringing cannot stall.
Overdue(d) ==
    /\ HasCallOn(d)
    /\ d \notin ended
    /\ age[d] = "overrun" \/ (age[d] = "stalled" /\ call[d].answered)

\* A session with no call behind it, which is not a manual one of a phone that is
\* ringing or in a call.
Stray_NeverManual(d) == session[d] = "call" /\ ~HasCallOn(d)

Stray(d) ==
    /\ session[d] # "free"
    /\ ~HasCallOn(d)
    /\ ~(session[d] = "manual" /\ phase[d] \in {"incoming", "in-call"})

\* One sweep.  It judges every call and starts to close every stray session in one
\* go; until the last of them is closed no other sweep begins.
Sweep_EndAnswered ==
    /\ patrol
    /\ closing = {}
    /\ ended' = ended \cup {d \in Devices : Overdue(d)}
    /\ call' = [d \in Devices |->
                   IF Overdue(d) /\ call[d].answered THEN RequestEnd(call[d], "failed") ELSE call[d]]
    /\ closing' = {d \in Devices : Stray(d)}
    /\ UNCHANGED <<watching, line, phase, session, hits, patrol, age>>

Sweep ==
    /\ patrol
    /\ closing = {}
    /\ ended' = ended \cup {d \in Devices : Overdue(d)}
    /\ call' = [d \in Devices |->
                   IF Overdue(d) THEN RequestEnd(call[d], "failed") ELSE call[d]]
    /\ closing' = {d \in Devices : Stray(d)}
    /\ UNCHANGED <<watching, line, phase, session, hits, patrol, age>>

\* The close of a stray session settles; the operator may have closed it first.
Swept(d) ==
    /\ d \in closing
    /\ closing' = closing \ {d}
    /\ session' = [session EXCEPT ![d] = IF @ = "manual" THEN "free" ELSE @]
    /\ UNCHANGED <<watching, line, phase, hits, call, patrol, age, ended>>

-----------------------------------------------------------------------------
WatchdogNext ==
    \/ Enable
    \/ Seen(Stop)
    \/ Sweep
    \/ \E d \in Devices :
          \/ Elapse(d) \/ Swept(d)
          \/ Seen(PollAsks(d)) \/ Seen(PollResumes(d))
          \/ Seen(Setup(d)) \/ Seen(Teardown(d)) \/ Seen(Turns(d)) \/ Seen(Beside(d))
          \/ Seen(ProbeLine(d)) \/ Seen(ProbeAnswers(d)) \/ Seen(World(d))

WatchdogSpec == WatchdogInit /\ [][WatchdogNext]_watchdogVars

\* The sweep's timer fires, its closes settle (close() waits 8 s at most), and of the
\* call loop everything settles but sessions.open(), which nothing limits: it may be
\* parked behind a full pool or a silent handshake.
FairWatchdogSpec ==
    /\ WatchdogSpec
    /\ WF_watchdogVars(Sweep)
    /\ \A d \in Devices :
          /\ WF_watchdogVars(Swept(d))
          /\ WF_watchdogVars(Seen(Setup(d) /\ call[d].at # "opening"))
          /\ WF_watchdogVars(Seen(Teardown(d)))
          /\ WF_watchdogVars(Seen(Turns(d)))

-----------------------------------------------------------------------------
(* Properties *)

\* The variables keep their types, and the books name calls in flight only.
WatchdogTypeOK ==
    /\ patrol \in BOOLEAN
    /\ age \in [Devices -> {"fresh", "stalled", "overrun"}]
    /\ ended \cup closing \subseteq Devices
    /\ \A d \in Devices : age[d] # "fresh" \/ d \in ended => HasCallOn(d)

\* A call is asked to end only once, so the request has to have taken hold: a call
\* the watchdog has given up is one whose end has been requested.
AskedMeansEnding == \A d \in ended : HasCallOn(d) /\ call[d].finished

\* A call that has run for maxCallMs is over in the end, and its phone is free; unless
\* its sessions.open() never settles: then it has been asked to end, and stays.
OverrunEndsOrHangs ==
    \A d \in Devices :
        age[d] = "overrun" ~> (~HasCallOn(d) \/ [](call[d].at = "opening" /\ call[d].finished))

\* A session without a call is closed once its phone is at rest: it cannot be
\* billed on, whoever has opened it.
StraySessionCloses ==
    \A d \in Devices : patrol /\ session[d] # "free" /\ phase[d] = "online" /\ ~HasCallOn(d)
                         ~> session[d] = "free" \/ phase[d] # "online" \/ HasCallOn(d)

\* The watchdog is there for calls whose loop is "still sitting in an await that
\* will never resolve" (watchdog.ts:4).  But what it resolves is not what a call that
\* opens its session waits for: that one keeps its phone.
WedgedCallFreed == \A d \in Devices : patrol /\ age[d] = "overrun" ~> ~HasCallOn(d)

\* Nothing is billed for ever: a call past its limit ends or has yet to get its session, and a session
\* that no call owns is closed once its phone is at rest.
NothingBillsForEver == OverrunEndsOrHangs /\ StraySessionCloses
=============================================================================
