---------------------------- MODULE CallDetection ----------------------------
(* What adb can tell of a call on one phone: four readings, one after the     *)
(* other, while the phone goes on living.  The Autopilot's poll answers what  *)
(* they report; the watch of a live call ends it when they report nothing.    *)
(*                                                                            *)
(* A build of Android prints the audio mode in a field, or only a log of its  *)
(* changes, or never raises it and prints the pid that holds it.              *)
EXTENDS Naturals, Sequences

VARIABLES
    build,          \* what this phone's dumps print
    onPhone,        \* the call: whose it is, and how far
    calledBefore,   \* an app has had a call since the phone was started
    onScreen,       \* "home", "app", "words" (an accept-like word in a chat), "incoming"
    probe,          \* the detection under way
    seen,           \* what the phone has been through since it began
    unanswered,     \* adb has left one of its readings unanswered
    found,          \* what the last one reported
    attended        \* the Autopilot's call: "none", "live app" and "live cellular"; "taken over" and
                    \* "cut off" for one that it should not have begun, or not have ended

detectVars == <<build, onPhone, calledBefore, onScreen, probe, seen, unanswered, found, attended>>

Quiet == [owner |-> "none", stage |-> "none"]
AppCall(stage) == [owner |-> "app", stage |-> stage]
Absent == [present |-> FALSE, channel |-> "none", stage |-> "none"]
NoProbe == [at |-> "idle", for |-> "none", mode |-> "unknown", pid |-> FALSE, named |-> FALSE, ui |-> FALSE]

Builds == [mode : {"field", "log", "never"}, namesOwner : BOOLEAN, known : BOOLEAN]

\* The call is the one there was at the beginning; there was a call; there was the look of a call.
NothingSeen == [same |-> TRUE, some |-> FALSE, look |-> FALSE]
Sight(call, screen, before) ==
    [same |-> before.same, some |-> before.some \/ call # Quiet,
     look |-> before.look \/ call.stage = "ringing" \/ screen = "words"]

DetectInit ==
    /\ build \in Builds
    /\ onPhone = Quiet /\ calledBefore = FALSE /\ onScreen = "home"
    /\ probe = NoProbe /\ seen = NothingSeen /\ unanswered = FALSE /\ found = Absent /\ attended = "none"

----------------------------------------------------------------------------
(* The phone *)

Witness ==
    seen' = IF probe.at = "idle" THEN NothingSeen
            ELSE Sight(onPhone', onScreen', [seen EXCEPT !.same = @ /\ onPhone' = onPhone])

CallMoves ==
    /\ \/ onPhone = Quiet /\ onPhone' \in {AppCall("ringing"), [owner |-> "cellular", stage |-> "ringing"],
                                            AppCall("up")}
       \/ onPhone.stage = "ringing" /\ onPhone' = [onPhone EXCEPT !.stage = "up"]
       \/ onPhone # Quiet /\ onPhone' = Quiet
    /\ onScreen' = CASE onPhone' = AppCall("ringing") -> "incoming"
                     [] onPhone'.owner = "app" /\ onPhone # onPhone' -> "app"
                     [] OTHER -> "home"
    /\ calledBefore' = (calledBefore \/ onPhone'.owner = "app")
    /\ Witness
    /\ UNCHANGED <<build, probe, unanswered, found, attended>>

\* The operator opens the app, a chat of it, or another one.  A ringing app covers the screen.
ScreenMoves ==
    /\ onPhone # AppCall("ringing")
    /\ onScreen' \in {"home", "app", "words"} \ {onScreen}
    /\ UNCHANGED onPhone /\ Witness
    /\ UNCHANGED <<build, calledBefore, probe, unanswered, found, attended>>

\* dumpsys audio.  The log of a build that has the field keeps the last change it saw.
Field ==
    IF build.mode = "log" THEN "unknown"
    ELSE IF build.mode = "field" /\ onPhone = AppCall("up") THEN "in_communication"
    ELSE IF onPhone.stage = "ringing" THEN "ringtone" ELSE "normal"
LastLogged ==
    IF build.mode = "log" /\ onPhone # AppCall("up") THEN "normal"
    ELSE IF onPhone = AppCall("up") \/ calledBefore THEN "in_communication" ELSE "unknown"
HoldsPid == build.mode = "never" /\ onPhone = AppCall("up")

----------------------------------------------------------------------------
(* AdbCallChannelDetector.detect *)

\* parseAudioModeState: the current field, and the log only where there is none.

AudioMode_LogFirst(field, logged) == IF logged # "unknown" THEN logged ELSE field

AudioMode(field, logged) == IF field # "unknown" THEN field ELSE logged

\* A mode that is normal has no owner, whatever the log remembers.
OwnerNamed(mode) == mode # "normal" /\ build.namesOwner

\* Either sign is a call in an app.

AudioCall(p) == p.mode = "in_communication" \/ p.pid

ChannelOf(named) == IF named /\ build.known THEN "app" ELSE "voip"

BeginProbe(purpose) ==
    /\ probe.at = "idle"
    /\ \/ purpose = "poll" /\ attended \notin {"live app", "live cellular"}
       \/ purpose = "watch" /\ attended \in {"live app", "live cellular"}
    /\ probe' = [NoProbe EXCEPT !.at = "telephony", !.for = purpose]
    /\ seen' = Sight(onPhone, onScreen, NothingSeen) /\ unanswered' = FALSE
    /\ UNCHANGED <<build, onPhone, calledBefore, onScreen, found, attended>>

Report(result) ==
    /\ found' = result
    /\ probe' = [NoProbe EXCEPT !.at = "reported", !.for = probe.for]
    /\ UNCHANGED <<build, onPhone, calledBefore, onScreen, seen, unanswered, attended>>

GoOn(p, silent) ==
    /\ probe' = p
    /\ unanswered' = (unanswered \/ silent)
    /\ UNCHANGED <<build, onPhone, calledBefore, onScreen, seen, found, attended>>

WatchesCellular == probe.for = "watch" /\ attended = "live cellular"

\* telephony.registry has the last word on a call of the network.
ReadTelephony ==
    /\ probe.at = "telephony" /\ ~WatchesCellular
    /\ \/ /\ onPhone.owner = "cellular"
          /\ Report([present |-> TRUE, channel |-> "cellular",
                     stage |-> IF onPhone.stage = "ringing" THEN "ringing" ELSE "in-progress"])
       \/ onPhone.owner # "cellular" /\ GoOn([probe EXCEPT !.at = "audio"], FALSE)
       \/ GoOn([probe EXCEPT !.at = "audio"], TRUE)

ReadAudio ==
    /\ probe.at = "audio"
    /\ \/ LET mode == AudioMode(Field, LastLogged)
          IN \E psAnswers \in IF HoldsPid THEN BOOLEAN ELSE {FALSE} :
                GoOn([probe EXCEPT !.at = "screen", !.mode = mode, !.pid = HoldsPid,
                                   !.named = psAnswers \/ OwnerNamed(mode)], FALSE)
       \/ GoOn([probe EXCEPT !.at = "screen"], TRUE)

\* Whose window is in front, and only when it is an app that calls, what is in it.
ReadScreen ==
    /\ probe.at = "screen"
    /\ \/ /\ onScreen # "home" /\ build.known
          /\ GoOn([probe EXCEPT !.at = "ui", !.ui = TRUE], FALSE)
       \/ /\ onScreen = "home" \/ ~build.known
          /\ GoOn([probe EXCEPT !.at = "ui"], FALSE)
       \/ GoOn([probe EXCEPT !.at = "ui"], TRUE)

\* hasIncomingCallUi
LooksIncoming == onScreen \in {"incoming", "words"}

InProgress(p) ==
    IF AudioCall(p) THEN [present |-> TRUE, channel |-> ChannelOf(p.named), stage |-> "in-progress"]
    ELSE Absent

ReadUi ==
    /\ probe.at = "ui"
    /\ \/ probe.ui /\ LooksIncoming /\ Report([present |-> TRUE, channel |-> "app", stage |-> "ringing"])
       \/ ~(probe.ui /\ LooksIncoming) /\ Report(InProgress(probe))
       \/ /\ probe.ui /\ LooksIncoming
          /\ Report(InProgress(probe))      \* the dump came back empty

----------------------------------------------------------------------------
(* What is done about it *)

Settled == seen' = NothingSeen /\ unanswered' = FALSE /\ found' = Absent

\* poll(): a call that is reported is attended to.
PollActs ==
    /\ probe.at = "reported" /\ probe.for = "poll"
    /\ probe' = NoProbe
    /\ attended' = CASE ~found.present -> "none"
                     [] found.stage = "in-progress" /\ found.channel # "cellular" -> "taken over"
                     [] found.channel = "cellular" -> "live cellular"
                     [] OTHER -> "live app"
    /\ UNCHANGED <<build, onPhone, calledBefore, onScreen>> /\ Settled

\* hangupState and the watch: no call there is the far end hanging up.
WatchActs ==
    /\ probe.at = "reported" /\ probe.for = "watch"
    /\ probe' = NoProbe
    /\ attended' = IF found.present THEN attended
                   ELSE IF seen.same /\ onPhone = AppCall("up") THEN "cut off" ELSE "none"
    /\ UNCHANGED <<build, onPhone, calledBefore, onScreen>> /\ Settled

\* A call of the network is asked for directly; a phone that does not answer ends it, too.
WatchesTelephony ==
    /\ probe.at = "telephony" /\ WatchesCellular
    /\ probe' = NoProbe
    /\ \/ onPhone.owner = "cellular" /\ UNCHANGED attended
       \/ attended' = "none"
    /\ UNCHANGED <<build, onPhone, calledBefore, onScreen>> /\ Settled

DetectNext ==
    \/ CallMoves \/ ScreenMoves
    \/ \E purpose \in {"poll", "watch"} : BeginProbe(purpose)
    \/ ReadTelephony \/ ReadAudio \/ ReadScreen \/ ReadUi
    \/ PollActs \/ WatchActs \/ WatchesTelephony

\* The watch's interval fires, and adb answers or times out.
DetectFairness ==
    /\ WF_detectVars(BeginProbe("watch"))
    /\ WF_detectVars(ReadTelephony \/ ReadAudio \/ ReadScreen \/ ReadUi)
    /\ WF_detectVars(PollActs \/ WatchActs \/ WatchesTelephony)

DetectSpec == DetectInit /\ [][DetectNext]_detectVars /\ DetectFairness

----------------------------------------------------------------------------
(* Properties *)

JustReported == probe.at = "reported"

\* Nothing is reported of a phone that had no call all the while, unless a chat on its screen reads
\* like one: neither a log nor an owner that outlived the last call (whatsAppDetector.ts:234-247).
NoPhantomCall ==
    JustReported /\ found.present => seen.some \/ seen.look

\* A call that was up all the while is seen, on every build, whenever adb answered
\* (whatsAppDetector.ts:34-40, :110).
CallIsSeen ==
    JustReported /\ ~unanswered /\ seen.same /\ onPhone.stage = "up" => found.present

\* A call in an app is only said to ring when its incoming screen was there.
RingingIsSeenRinging ==
    JustReported /\ found.stage = "ringing" => seen.look

\* A call in an app whose far end has hung up is noticed, and so ends, unless there is a new one or
\* a chat that reads like one (orchestrator.ts:656).
EndIsNoticed ==
    (attended = "live app" /\ onPhone = Quiet /\ onScreen # "words")
        ~> (attended # "live app" \/ onPhone # Quiet \/ onScreen = "words")

\* "only a ringing call may be auto-answered" (whatsAppDetector.ts:83): the Autopilot never
\* attends to a call that somebody is already having on the phone.
OnlyRingingIsAnswered == attended # "taken over"

\* "A probe that fails reads as "unknown", which the watch treats as "still connected""
\* (autopilot.ts:419-420): a call that is up the whole time is not ended by its own watch.
FailedProbeIsUnknown == attended # "cut off"

\* What a probe reports is what the phone does, though it looks at one thing after another: no call
\* that is not there, none missed, and ringing for what rings.
DetectionIsRight == NoPhantomCall /\ CallIsSeen /\ RingingIsSeenRinging
=============================================================================
