----------------------------- MODULE Phone_proofs ------------------------------
(* What is promised of one phone and its screen, proved for every value of   *)
(* the constants: what a probe of its calls may answer, the readers of the   *)
(* screen, the taps that answer, place and end a call, and the numbers a     *)
(* card holds.                                                               *)
EXTENDS MCPhone, FiniteSetTheorems, SequenceTheorems, WellFoundedInduction, TLAPS

-----------------------------------------------------------------------------
(* The probe *)

Calls == {Quiet, AppCall("ringing"), AppCall("up"),
          [owner |-> "cellular", stage |-> "ringing"], [owner |-> "cellular", stage |-> "up"]}

DetectTypes ==
    /\ build \in Builds /\ onPhone \in Calls /\ unanswered \in BOOLEAN
    /\ onScreen = "incoming" => onPhone = AppCall("ringing")
    /\ seen \in [same : BOOLEAN, some : BOOLEAN, look : BOOLEAN]
    /\ probe \in [at : {"idle", "telephony", "audio", "screen", "ui", "reported"},
                  for : {"none", "poll", "watch"}, mode : {"unknown", "in_communication", "ringtone", "normal"},
                  pid : BOOLEAN, named : BOOLEAN, ui : BOOLEAN]

\* While a probe is under way nothing of a call escapes it, ...
NothingEscapes ==
    probe.at # "idle" => /\ onPhone # Quiet => seen.some
                         /\ onPhone.stage = "ringing" \/ onScreen = "words" => seen.look

\* ... what it has read was so when it was read, ...
ReadingsWereTrue == probe.at # "idle" /\ AudioCall(probe) => seen.some

\* ... and it has read what there was all the while.
ReadingsAreThorough ==
    ~unanswered /\ seen.same /\ onPhone.stage = "up"
        => /\ probe.at \in {"audio", "screen", "ui"} => onPhone.owner = "app"
           /\ probe.at \in {"screen", "ui"} => AudioCall(probe)

DetectInv == DetectTypes /\ NothingEscapes /\ ReadingsWereTrue /\ ReadingsAreThorough /\ DetectionIsRight

LEMMA DetectStarts == DetectInit => DetectInv
<1> SUFFICES ASSUME DetectInit PROVE DetectInv
  OBVIOUS
<1>1. probe = NoProbe /\ seen = NothingSeen /\ unanswered = FALSE /\ onPhone = Quiet /\ onScreen = "home"
      /\ build \in Builds
  BY DEF DetectInit
<1>2. DetectTypes
  BY <1>1 DEF DetectTypes, Calls, NoProbe, NothingSeen
<1>3. probe.at = "idle" /\ onPhone.stage = "none"
  BY <1>1 DEF NoProbe, Quiet
<1> QED
  BY <1>2, <1>3 DEF DetectInv, NothingEscapes, ReadingsWereTrue, ReadingsAreThorough, DetectionIsRight,
                    NoPhantomCall, CallIsSeen, RingingIsSeenRinging, JustReported

\* The phone moves while a probe is under way, or not.
LEMMA PhoneMoves ==
    ASSUME DetectInv, Witness, UNCHANGED <<build, probe, unanswered, found>>, onPhone' \in Calls,
           onScreen' = "incoming" => onPhone' = AppCall("ringing")
    PROVE  DetectInv'
<1>1. DetectTypes
  BY DEF DetectInv
<1>2. CASE probe.at = "idle"
  <2>1. seen' = NothingSeen
    BY <1>2 DEF Witness
  <2>2. DetectTypes'
    BY <1>1, <2>1 DEF DetectTypes, NothingSeen
  <2> QED
    BY <1>2, <2>2 DEF DetectInv, NothingEscapes, ReadingsWereTrue, ReadingsAreThorough, DetectionIsRight,
                      NoPhantomCall, CallIsSeen, RingingIsSeenRinging, JustReported
<1>3. CASE probe.at # "idle"
  <2>1. seen' = Sight(onPhone', onScreen', [seen EXCEPT !.same = @ /\ onPhone' = onPhone])
    BY <1>3 DEF Witness
  <2>2. /\ seen'.same = (seen.same /\ onPhone' = onPhone)
        /\ seen'.some = (seen.some \/ onPhone' # Quiet)
        /\ seen'.look = (seen.look \/ onPhone'.stage = "ringing" \/ onScreen' = "words")
        /\ seen' \in [same : BOOLEAN, some : BOOLEAN, look : BOOLEAN]
    BY <1>1, <2>1 DEF Sight, DetectTypes
  <2>3. DetectTypes'
    BY <1>1, <2>2 DEF DetectTypes
  <2>4. NothingEscapes'
    BY <2>2 DEF NothingEscapes
  <2>5. ReadingsWereTrue'
    BY <2>2 DEF DetectInv, ReadingsWereTrue, AudioCall
  <2>6. ReadingsAreThorough'
    BY <2>2 DEF DetectInv, ReadingsAreThorough, AudioCall
  <2>7. NoPhantomCall' /\ RingingIsSeenRinging'
    BY <2>2 DEF DetectInv, DetectionIsRight, NoPhantomCall, RingingIsSeenRinging, JustReported
  <2>8. CallIsSeen'
    BY <2>2 DEF DetectInv, DetectionIsRight, CallIsSeen, JustReported
  <2> QED
    BY <2>3, <2>4, <2>5, <2>6, <2>7, <2>8 DEF DetectInv, DetectionIsRight
<1> QED
  BY <1>2, <1>3

\* A reading that ends the probe.
LEMMA ProbeReports ==
    ASSUME DetectInv, NEW result, Report(result), probe.at # "idle",
           result.present => seen.some \/ seen.look,
           ~unanswered /\ seen.same /\ onPhone.stage = "up" => result.present,
           result.stage = "ringing" => seen.look
    PROVE  DetectInv'
<1>1. /\ found' = result /\ probe' = [NoProbe EXCEPT !.at = "reported", !.for = probe.for]
      /\ UNCHANGED <<build, onPhone, calledBefore, onScreen, seen, unanswered, attended>>
  BY DEF Report
<1>2. DetectTypes
  BY DEF DetectInv
<1>3. DetectTypes' /\ probe'.at = "reported" /\ ~AudioCall(probe')
  BY <1>1, <1>2 DEF DetectTypes, NoProbe, AudioCall
<1>4. NothingEscapes' /\ ReadingsWereTrue' /\ ReadingsAreThorough'
  <2>1. NothingEscapes'
    BY <1>1 DEF DetectInv, NothingEscapes
  <2> QED
    BY <1>3, <2>1 DEF ReadingsWereTrue, ReadingsAreThorough, AudioCall
<1>5. NoPhantomCall'
  BY <1>1 DEF NoPhantomCall
<1>6. CallIsSeen'
  BY <1>1 DEF CallIsSeen
<1>7. RingingIsSeenRinging'
  BY <1>1 DEF RingingIsSeenRinging
<1> QED
  BY <1>3, <1>4, <1>5, <1>6, <1>7 DEF DetectInv, DetectionIsRight

\* A reading after which there is another one.
LEMMA ProbeGoesOn ==
    ASSUME DetectInv, NEW p, NEW silent \in BOOLEAN, GoOn(p, silent), probe.at # "idle",
           p \in [at : {"audio", "screen", "ui"}, for : {"none", "poll", "watch"},
                  mode : {"unknown", "in_communication", "ringtone", "normal"},
                  pid : BOOLEAN, named : BOOLEAN, ui : BOOLEAN],
           AudioCall(p) => seen.some,
           ~unanswered /\ ~silent /\ seen.same /\ onPhone.stage = "up"
               => onPhone.owner = "app" /\ (p.at \in {"screen", "ui"} => AudioCall(p))
    PROVE  DetectInv'
<1>1. /\ probe' = p /\ unanswered' = (unanswered \/ silent)
      /\ UNCHANGED <<build, onPhone, calledBefore, onScreen, seen, found, attended>>
  BY DEF GoOn
<1>2. DetectTypes
  BY DEF DetectInv
<1>3. DetectTypes'
  BY <1>1, <1>2 DEF DetectTypes
<1>4. NothingEscapes'
  BY <1>1 DEF DetectInv, NothingEscapes
<1>5. ReadingsWereTrue'
  BY <1>1 DEF ReadingsWereTrue
<1>6. ReadingsAreThorough'
  BY <1>1 DEF ReadingsAreThorough
<1>7. probe'.at # "reported"
  BY <1>1
<1> QED
  BY <1>3, <1>4, <1>5, <1>6, <1>7 DEF DetectInv, DetectionIsRight, NoPhantomCall, CallIsSeen,
                                      RingingIsSeenRinging, JustReported

\* A probe that is over.
LEMMA ProbeEnds ==
    ASSUME DetectInv, probe' = NoProbe, Settled, UNCHANGED <<build, onPhone, calledBefore, onScreen>>
    PROVE  DetectInv'
<1>1. DetectTypes
  BY DEF DetectInv
<1>2. DetectTypes' /\ probe'.at = "idle"
  BY <1>1 DEF DetectTypes, NoProbe, Settled, NothingSeen
<1> QED
  BY <1>2 DEF DetectInv, NothingEscapes, ReadingsWereTrue, ReadingsAreThorough, DetectionIsRight,
              NoPhantomCall, CallIsSeen, RingingIsSeenRinging, JustReported

LEMMA DetectKeeps == DetectInv /\ [DetectNext]_detectVars => DetectInv'
<1> SUFFICES ASSUME DetectInv, [DetectNext]_detectVars PROVE DetectInv'
  OBVIOUS
<1>0. DetectTypes /\ NothingEscapes /\ ReadingsWereTrue /\ ReadingsAreThorough
  BY DEF DetectInv
<1>1. CASE CallMoves
  <2>1. onPhone' \in Calls
    BY <1>0, <1>1 DEF CallMoves, Calls, DetectTypes, Quiet, AppCall
  <2>2. onScreen' = "incoming" => onPhone' = AppCall("ringing")
    BY <1>1 DEF CallMoves
  <2> QED
    BY <1>1, <2>1, <2>2, PhoneMoves DEF CallMoves
<1>2. CASE ScreenMoves
  <2>1. onPhone' = onPhone /\ onScreen' \in {"home", "app", "words"}
    BY <1>2 DEF ScreenMoves
  <2> QED
    BY <1>0, <1>2, <2>1, PhoneMoves DEF ScreenMoves, DetectTypes
<1>3. ASSUME NEW purpose \in {"poll", "watch"}, BeginProbe(purpose) PROVE DetectInv'
  <2>1. /\ probe' = [NoProbe EXCEPT !.at = "telephony", !.for = purpose] /\ unanswered' = FALSE
        /\ seen' = Sight(onPhone, onScreen, NothingSeen) /\ UNCHANGED <<build, onPhone, onScreen, found>>
    BY <1>3 DEF BeginProbe
  <2>2. /\ seen'.some = (onPhone # Quiet)
        /\ seen'.look = (onPhone.stage = "ringing" \/ onScreen = "words")
        /\ seen' \in [same : BOOLEAN, some : BOOLEAN, look : BOOLEAN]
    BY <2>1 DEF Sight, NothingSeen
  <2>3. probe'.at = "telephony" /\ ~AudioCall(probe')
    BY <2>1 DEF NoProbe, AudioCall
  <2>4. DetectTypes'
    BY <1>0, <2>1, <2>2 DEF DetectTypes, NoProbe
  <2>5. NothingEscapes'
    BY <2>1, <2>2 DEF NothingEscapes
  <2> QED
    BY <2>3, <2>4, <2>5 DEF DetectInv, ReadingsWereTrue, ReadingsAreThorough, AudioCall, DetectionIsRight,
                            NoPhantomCall, CallIsSeen, RingingIsSeenRinging, JustReported
<1>4. CASE ReadTelephony
  <2> DEFINE p == [probe EXCEPT !.at = "audio"]
  <2>1. probe.at = "telephony"
    BY <1>4 DEF ReadTelephony
  <2>2. CASE /\ onPhone.owner = "cellular"
             /\ Report([present |-> TRUE, channel |-> "cellular",
                        stage |-> IF onPhone.stage = "ringing" THEN "ringing" ELSE "in-progress"])
    <3>1. onPhone # Quiet
      BY <2>2 DEF Quiet
    <3>2. seen.some /\ (onPhone.stage = "ringing" => seen.look)
      BY <1>0, <2>1, <3>1 DEF NothingEscapes
    <3> QED
      BY <2>1, <2>2, <3>2, ProbeReports
  <2>3. /\ p.at = "audio" /\ AudioCall(p) = AudioCall(probe)
        /\ p \in [at : {"audio", "screen", "ui"}, for : {"none", "poll", "watch"},
                  mode : {"unknown", "in_communication", "ringtone", "normal"},
                  pid : BOOLEAN, named : BOOLEAN, ui : BOOLEAN]
    BY <1>0 DEF DetectTypes, AudioCall
  <2>4. AudioCall(p) => seen.some
    BY <1>0, <2>1, <2>3 DEF ReadingsWereTrue
  <2>5. CASE onPhone.owner # "cellular" /\ GoOn(p, FALSE)
    <3>1. onPhone.stage = "up" => onPhone.owner = "app"
      BY <1>0, <2>5 DEF DetectTypes, Calls, Quiet, AppCall
    <3> HIDE DEF p
    <3> QED
      BY <2>1, <2>3, <2>4, <2>5, <3>1, ProbeGoesOn
  <2>6. CASE GoOn(p, TRUE)
    <3> HIDE DEF p
    <3> QED
      BY <2>1, <2>3, <2>4, <2>6, ProbeGoesOn
  <2> QED
    BY <1>4, <2>2, <2>5, <2>6 DEF ReadTelephony
<1>5. CASE ReadAudio
  <2>1. probe.at = "audio"
    BY <1>5 DEF ReadAudio
  <2>2. CASE GoOn([probe EXCEPT !.at = "screen"], TRUE)
    <3> DEFINE p == [probe EXCEPT !.at = "screen"]
    <3>1. /\ AudioCall(p) = AudioCall(probe)
          /\ p \in [at : {"audio", "screen", "ui"}, for : {"none", "poll", "watch"},
                    mode : {"unknown", "in_communication", "ringtone", "normal"},
                    pid : BOOLEAN, named : BOOLEAN, ui : BOOLEAN]
      BY <1>0 DEF DetectTypes, AudioCall
    <3>2. AudioCall(p) => seen.some
      BY <1>0, <2>1, <3>1 DEF ReadingsWereTrue
    <3> HIDE DEF p
    <3>3. GoOn(p, TRUE)
      BY <2>2 DEF p
    <3> QED
      BY <2>1, <3>1, <3>2, <3>3, ProbeGoesOn
  <2>3. ASSUME NEW psAnswers \in BOOLEAN, NEW mode, mode = AudioMode(Field, LastLogged),
               GoOn([probe EXCEPT !.at = "screen", !.mode = mode, !.pid = HoldsPid,
                                  !.named = psAnswers \/ OwnerNamed(mode)], FALSE)
        PROVE  DetectInv'
    <3> DEFINE p == [probe EXCEPT !.at = "screen", !.mode = mode, !.pid = HoldsPid,
                                  !.named = psAnswers \/ OwnerNamed(mode)]
    <3>1. mode \in {"unknown", "in_communication", "ringtone", "normal"}
      BY <2>3 DEF AudioMode, Field, LastLogged
    <3>2. build.namesOwner \in BOOLEAN /\ build.mode \in {"field", "log", "never"}
      BY <1>0 DEF DetectTypes, Builds
    <3>3. HoldsPid \in BOOLEAN /\ OwnerNamed(mode) \in BOOLEAN
      BY <3>2 DEF HoldsPid, OwnerNamed
    <3>4. /\ p.at = "screen" /\ p.mode = mode /\ p.pid = HoldsPid
          /\ p \in [at : {"audio", "screen", "ui"}, for : {"none", "poll", "watch"},
                    mode : {"unknown", "in_communication", "ringtone", "normal"},
                    pid : BOOLEAN, named : BOOLEAN, ui : BOOLEAN]
      BY <1>0, <3>1, <3>3 DEF DetectTypes
    <3>5. mode = "in_communication" => onPhone = AppCall("up")
      BY <2>3, <3>2 DEF AudioMode, Field, LastLogged
    <3>6. onPhone = AppCall("up") => mode = "in_communication" \/ HoldsPid
      BY <2>3, <3>2 DEF AudioMode, Field, LastLogged, HoldsPid, AppCall
    <3>7. AudioCall(p) <=> onPhone = AppCall("up")
      BY <3>4, <3>5, <3>6 DEF AudioCall, HoldsPid
    <3>8. AudioCall(p) => seen.some
      <4>1. AppCall("up") # Quiet
        BY DEF AppCall, Quiet
      <4> QED
        BY <1>0, <2>1, <3>7, <4>1 DEF NothingEscapes
    <3>9. ~unanswered /\ seen.same /\ onPhone.stage = "up" => onPhone.owner = "app" /\ AudioCall(p)
      <4> SUFFICES ASSUME ~unanswered, seen.same, onPhone.stage = "up" PROVE onPhone.owner = "app" /\ AudioCall(p)
        OBVIOUS
      <4>1. onPhone.owner = "app"
        BY <1>0, <2>1 DEF ReadingsAreThorough
      <4>2. onPhone = AppCall("up")
        BY <1>0, <4>1 DEF DetectTypes, Calls, Quiet, AppCall
      <4> QED
        BY <3>7, <4>1, <4>2
    <3> HIDE DEF p
    <3>10. GoOn(p, FALSE)
      BY <2>3 DEF p
    <3> QED
      BY <2>1, <3>4, <3>8, <3>9, <3>10, ProbeGoesOn
  <2> QED
    BY <1>5, <2>2, <2>3 DEF ReadAudio
<1>6. CASE ReadScreen
  <2>1. probe.at = "screen"
    BY <1>6 DEF ReadScreen
  <2>2. PICK p \in {[probe EXCEPT !.at = "ui", !.ui = TRUE], [probe EXCEPT !.at = "ui"]}, silent \in BOOLEAN : GoOn(p, silent)
    BY <1>6 DEF ReadScreen
  <2>3. /\ AudioCall(p) = AudioCall(probe)
        /\ p \in [at : {"audio", "screen", "ui"}, for : {"none", "poll", "watch"},
                  mode : {"unknown", "in_communication", "ringtone", "normal"},
                  pid : BOOLEAN, named : BOOLEAN, ui : BOOLEAN]
    BY <1>0, <2>2 DEF DetectTypes, AudioCall
  <2>4. AudioCall(p) => seen.some
    BY <1>0, <2>1, <2>3 DEF ReadingsWereTrue
  <2>5. ~unanswered /\ seen.same /\ onPhone.stage = "up" => onPhone.owner = "app" /\ AudioCall(p)
    BY <1>0, <2>1, <2>3 DEF ReadingsAreThorough
  <2> QED
    BY <2>1, <2>2, <2>3, <2>4, <2>5, ProbeGoesOn
<1>7. CASE ReadUi
  <2>1. probe.at = "ui"
    BY <1>7 DEF ReadUi
  <2>2. CASE LooksIncoming /\ Report([present |-> TRUE, channel |-> "app", stage |-> "ringing"])
    <3>1. onScreen = "incoming" => onPhone.stage = "ringing"
      BY <1>0 DEF DetectTypes, AppCall
    <3>2. seen.look
      BY <1>0, <2>1, <2>2, <3>1 DEF LooksIncoming, NothingEscapes
    <3> QED
      BY <2>1, <2>2, <3>2, ProbeReports
  <2>3. CASE Report(InProgress(probe))
    <3> DEFINE result == InProgress(probe)
    <3>1. result.present = AudioCall(probe) /\ result.stage # "ringing"
      BY DEF InProgress, Absent, AudioCall
    <3>2. AudioCall(probe) => seen.some
      BY <1>0, <2>1 DEF ReadingsWereTrue
    <3>3. ~unanswered /\ seen.same /\ onPhone.stage = "up" => AudioCall(probe)
      BY <1>0, <2>1 DEF ReadingsAreThorough
    <3> HIDE DEF result
    <3>4. Report(result)
      BY <2>3 DEF result
    <3> QED
      BY <2>1, <3>1, <3>2, <3>3, <3>4, ProbeReports
  <2> QED
    BY <1>7, <2>2, <2>3 DEF ReadUi
<1>8. CASE PollActs \/ WatchActs \/ WatchesTelephony
  BY <1>8, ProbeEnds DEF PollActs, WatchActs, WatchesTelephony
<1>9. CASE UNCHANGED detectVars
  BY <1>9 DEF detectVars, DetectInv, DetectTypes, NothingEscapes, ReadingsWereTrue, ReadingsAreThorough,
              AudioCall, DetectionIsRight, NoPhantomCall, CallIsSeen, RingingIsSeenRinging, JustReported
<1> QED
  BY <1>1, <1>2, <1>3, <1>4, <1>5, <1>6, <1>7, <1>8, <1>9 DEF DetectNext

\* What a probe reports is so, on every build, however the call and the screen move between its
\* readings and whichever of them go unanswered (whatsAppDetector.ts).
THEOREM ProbesAreRight == DetectSpec => []DetectionIsRight
<1>1. DetectInv => DetectionIsRight
  BY DEF DetectInv
<1> QED
  BY <1>1, DetectStarts, DetectKeeps, PTL DEF DetectSpec

-----------------------------------------------------------------------------
(* The readers of a screen *)

\* Only the first in line has the phone, and what there is of a reader was written by it.
DumpTypes ==
    /\ shows \in Nat /\ chain \in Seq(Readers)
    /\ step \in [Readers -> {"idle", "waiting", "dumping", "reading"}]
    /\ running \subseteq Readers
    /\ file \in [Readers -> {Nothing} \cup [by : Readers, of : Nat]]
    /\ xml \in [Readers -> {Nothing} \cup [by : Readers, of : Nat]]

OneHasThePhone ==
    /\ \A r \in Readers : step[r] \in {"dumping", "reading"} => chain # <<>> /\ Head(chain) = r
    /\ \A r \in running : step[r] = "dumping"

AskersWait == \A r \in Readers : step[r] # "idle" => \E i \in 1..Len(chain) : chain[i] = r

OwnFiles ==
    /\ \A r \in Readers : file[r] # Nothing => file[r].by = r
    /\ \A r \in Readers : xml[r] # Nothing => xml[r].by = r

DumpInv == DumpTypes /\ OneHasThePhone /\ AskersWait /\ OwnFiles

\* A line without its first is a line of all the others; one more is added behind them.
LEMMA TheOthersWait ==
    ASSUME NEW S, NEW q \in Seq(S), q # <<>>, NEW x, x # Head(q), \E i \in 1..Len(q) : q[i] = x
    PROVE  \E i \in 1..Len(Tail(q)) : Tail(q)[i] = x
<1>1. PICK i \in 1..Len(q) : q[i] = x
  OBVIOUS
<1>2. /\ Len(q) \in Nat /\ Head(q) = q[1] /\ Len(Tail(q)) = Len(q) - 1
      /\ \A k \in 1..(Len(q) - 1) : Tail(q)[k] = q[k + 1]
  OBVIOUS
<1>3. i # 1 /\ i - 1 \in 1..(Len(q) - 1) /\ (i - 1) + 1 = i
  BY <1>1, <1>2
<1> QED
  BY <1>1, <1>2, <1>3

LEMMA OneMoreWaits ==
    ASSUME NEW S, NEW q \in Seq(S), NEW e \in S
    PROVE  /\ Append(q, e) \in Seq(S) /\ Len(Append(q, e)) = Len(q) + 1
           /\ \A i \in 1..Len(q) : Append(q, e)[i] = q[i]
           /\ Append(q, e)[Len(q) + 1] = e
OBVIOUS

LEMMA DumpStarts == DumpInit => DumpInv
<1> SUFFICES ASSUME DumpInit PROVE DumpInv
  OBVIOUS
<1>1. DumpTypes
  BY DEF DumpInit, DumpTypes
<1>2. OneHasThePhone /\ AskersWait /\ OwnFiles
  BY DEF DumpInit, OneHasThePhone, AskersWait, OwnFiles
<1> QED
  BY <1>1, <1>2 DEF DumpInv

\* A reader has its answer, or gives up, or tries again.
LEMMA TurnEnds ==
    ASSUME DumpInv, NEW r \in Readers, step[r] \in {"dumping", "reading"},
           NEW answer \in {Nothing} \cup [by : Readers, of : Nat], answer # Nothing => answer.by = r,
           running' = running \ {r}, UNCHANGED <<shows, file>>,
           Finish(r, answer) \/ (step' = [step EXCEPT ![r] = "waiting"] /\ UNCHANGED <<chain, xml>>)
    PROVE  DumpInv'
<1>0. DumpTypes /\ OneHasThePhone /\ AskersWait /\ OwnFiles
  BY DEF DumpInv
<1>1. /\ chain \in Seq(Readers) /\ step \in [Readers -> {"idle", "waiting", "dumping", "reading"}]
      /\ xml \in [Readers -> {Nothing} \cup [by : Readers, of : Nat]] /\ running \subseteq Readers
  BY <1>0 DEF DumpTypes
<1>2. chain # <<>> /\ Head(chain) = r
  BY <1>0 DEF OneHasThePhone
<1>3. \A s \in Readers : s # r => step[s] \notin {"dumping", "reading"}
  BY <1>0, <1>2 DEF OneHasThePhone
<1>4. /\ step' \in [Readers -> {"idle", "waiting", "dumping", "reading"}]
      /\ \A s \in Readers : step'[s] \notin {"dumping", "reading"}
  BY <1>1, <1>3 DEF Finish
<1>5. running' = {}
  <2>1. \A s \in running : s = r
    BY <1>0, <1>1, <1>3 DEF OneHasThePhone
  <2> QED
    BY <2>1
<1>6. chain' \in Seq(Readers)
  <2>1. Tail(chain) \in Seq(Readers)
    BY <1>1, <1>2
  <2> QED
    BY <1>1, <2>1 DEF Finish, Leave
<1>7. xml' = xml \/ xml' = [xml EXCEPT ![r] = answer]
  BY DEF Finish
<1>8. xml' \in [Readers -> {Nothing} \cup [by : Readers, of : Nat]]
  BY <1>1, <1>7
<1>9. DumpTypes'
  BY <1>0, <1>4, <1>5, <1>6, <1>8 DEF DumpTypes
<1>10. OneHasThePhone'
  BY <1>4, <1>5 DEF OneHasThePhone
<1>11. OwnFiles'
  BY <1>0, <1>1, <1>7 DEF OwnFiles
<1>12. AskersWait'
  <2>1. CASE Finish(r, answer)
    <3>1. chain' = Tail(chain) /\ step' = [step EXCEPT ![r] = "idle"]
      BY <2>1 DEF Finish, Leave
    <3>2. \A s \in Readers : step'[s] # "idle" => s # r /\ step[s] # "idle"
      BY <1>1, <3>1
    <3>3. ASSUME NEW s \in Readers, step'[s] # "idle" PROVE \E i \in 1..Len(Tail(chain)) : Tail(chain)[i] = s
      <4>1. s # Head(chain) /\ \E i \in 1..Len(chain) : chain[i] = s
        BY <1>0, <1>2, <3>2, <3>3 DEF AskersWait
      <4>2. chain \in Seq(Readers) /\ chain # <<>>
        BY <1>1, <1>2
      <4> QED
        BY <4>1, <4>2, TheOthersWait, Zenon
    <3> QED
      BY <3>1, <3>3 DEF AskersWait
  <2>2. CASE step' = [step EXCEPT ![r] = "waiting"] /\ UNCHANGED <<chain, xml>>
    BY <1>0, <1>1, <2>2 DEF AskersWait
  <2> QED
    BY <2>1, <2>2
<1> QED
  BY <1>9, <1>10, <1>11, <1>12 DEF DumpInv

LEMMA DumpKeeps == DumpInv /\ [DumpNext]_dumpVars => DumpInv'
<1> SUFFICES ASSUME DumpInv, [DumpNext]_dumpVars PROVE DumpInv'
  OBVIOUS
<1>0. DumpTypes /\ OneHasThePhone /\ AskersWait /\ OwnFiles
  BY DEF DumpInv
<1>1. /\ chain \in Seq(Readers) /\ step \in [Readers -> {"idle", "waiting", "dumping", "reading"}]
      /\ xml \in [Readers -> {Nothing} \cup [by : Readers, of : Nat]] /\ running \subseteq Readers
      /\ file \in [Readers -> {Nothing} \cup [by : Readers, of : Nat]] /\ shows \in Nat
  BY <1>0 DEF DumpTypes
<1>2. CASE UNCHANGED dumpVars
  BY <1>0, <1>2 DEF dumpVars, DumpInv, DumpTypes, OneHasThePhone, AskersWait, OwnFiles
<1>3. CASE ScreenChanges
  <2>1. shows' \in Nat
    BY <1>1, <1>3 DEF ScreenChanges
  <2> QED
    BY <1>0, <1>3, <2>1 DEF ScreenChanges, DumpInv, DumpTypes, OneHasThePhone, AskersWait, OwnFiles
<1>4. ASSUME NEW r \in Readers, Ask(r) PROVE DumpInv'
  <2>1. /\ step[r] = "idle" /\ step' = [step EXCEPT ![r] = "waiting"] /\ chain' = Append(chain, r)
        /\ xml' = [xml EXCEPT ![r] = Nothing] /\ UNCHANGED <<shows, running, file>>
    BY <1>4 DEF Ask
  <2>2. chain' \in Seq(Readers) /\ (chain # <<>> => chain' # <<>> /\ Head(chain') = Head(chain))
    BY <1>1, <2>1
  <2>3. /\ step' \in [Readers -> {"idle", "waiting", "dumping", "reading"}]
        /\ \A s \in Readers : step'[s] \in {"dumping", "reading"} => step[s] = step'[s]
        /\ \A s \in Readers : s # r => step'[s] = step[s]
    BY <1>1, <2>1
  <2>4. xml' \in [Readers -> {Nothing} \cup [by : Readers, of : Nat]]
    BY <1>1, <2>1
  <2>5. DumpTypes'
    BY <1>0, <2>1, <2>2, <2>3, <2>4 DEF DumpTypes
  <2>6. OneHasThePhone'
    BY <1>0, <1>1, <2>1, <2>2, <2>3 DEF OneHasThePhone
  <2>7. OwnFiles'
    BY <1>0, <1>1, <2>1 DEF OwnFiles
  <2>8. AskersWait'
    <3>1. /\ Len(chain) \in Nat /\ Len(chain') = Len(chain) + 1 /\ chain'[Len(chain) + 1] = r
          /\ \A i \in 1..Len(chain) : chain'[i] = chain[i]
      BY <1>1, <2>1, OneMoreWaits
    <3>2. \A s \in Readers : s # r /\ step'[s] # "idle" => \E i \in 1..Len(chain) : chain[i] = s
      BY <1>0, <2>3 DEF AskersWait
    <3> QED
      BY <3>1, <3>2 DEF AskersWait
  <2> QED
    BY <2>5, <2>6, <2>7, <2>8 DEF DumpInv
<1>5. ASSUME NEW r \in Readers, StartDump(r) PROVE DumpInv'
  <2>1. /\ step[r] = "waiting" /\ Head(chain) = r
        /\ step' = [step EXCEPT ![r] = "dumping"]
        /\ running' = running \cup {r} \/ running' = running
        /\ UNCHANGED <<shows, chain, file, xml>>
    BY <1>5 DEF StartDump, HasTurn
  <2>2. chain # <<>>
    <3>1. \E i \in 1..Len(chain) : chain[i] = r
      BY <1>0, <2>1 DEF AskersWait
    <3> QED
      BY <3>1
  <2>3. DumpTypes'
    BY <1>0, <1>1, <2>1 DEF DumpTypes
  <2>4. OneHasThePhone'
    BY <1>0, <1>1, <2>1, <2>2 DEF OneHasThePhone
  <2>5. OwnFiles'
    BY <1>0, <2>1 DEF OwnFiles
  <2>6. AskersWait'
    BY <1>0, <1>1, <2>1 DEF AskersWait
  <2> QED
    BY <2>3, <2>4, <2>5, <2>6 DEF DumpInv
<1>6. ASSUME NEW r \in Readers, DumpExits(r) PROVE DumpInv'
  <2>1. /\ step[r] = "dumping" /\ running' = running \ {r} /\ step' = [step EXCEPT ![r] = "reading"]
        /\ file' = [file EXCEPT ![r] = [by |-> r, of |-> shows]] \/ file' = file
        /\ UNCHANGED <<shows, chain, xml>>
    BY <1>6 DEF DumpExits, PathOf
  <2>2. file' \in [Readers -> {Nothing} \cup [by : Readers, of : Nat]]
    BY <1>1, <2>1
  <2>3. DumpTypes'
    BY <1>0, <1>1, <2>1, <2>2 DEF DumpTypes
  <2>4. OneHasThePhone'
    BY <1>0, <1>1, <2>1 DEF OneHasThePhone
  <2>5. OwnFiles'
    BY <1>0, <1>1, <2>1 DEF OwnFiles
  <2>6. AskersWait'
    BY <1>0, <1>1, <2>1 DEF AskersWait
  <2> QED
    BY <2>3, <2>4, <2>5, <2>6 DEF DumpInv
<1>7. ASSUME NEW r \in Readers, DumpFails(r) PROVE DumpInv'
  <2>1. /\ step[r] = "dumping" /\ running' = running \ {r} /\ UNCHANGED <<shows, file>>
        /\ Finish(r, Nothing) \/ (step' = [step EXCEPT ![r] = "waiting"] /\ UNCHANGED <<chain, xml>>)
    BY <1>7 DEF DumpFails, Fail
  <2> QED
    BY <2>1, TurnEnds
<1>8. ASSUME NEW r \in Readers, StrayExits(r) PROVE DumpInv'
  <2>1. /\ file' = [file EXCEPT ![r] = [by |-> r, of |-> shows]] \/ file' = file
        /\ UNCHANGED <<shows, chain, step, running, xml>>
    BY <1>8 DEF StrayExits, PathOf
  <2>2. file' \in [Readers -> {Nothing} \cup [by : Readers, of : Nat]]
    BY <1>1, <2>1
  <2>3. DumpTypes' /\ OneHasThePhone' /\ AskersWait'
    BY <1>0, <2>1, <2>2 DEF DumpTypes, OneHasThePhone, AskersWait
  <2>4. OwnFiles'
    BY <1>0, <1>1, <2>1 DEF OwnFiles
  <2> QED
    BY <2>3, <2>4 DEF DumpInv
<1>9. ASSUME NEW r \in Readers, ReadFile(r) PROVE DumpInv'
  <2>1. /\ step[r] = "reading" /\ UNCHANGED <<shows, running, file>>
        /\ \/ Finish(r, file[r]) /\ file[r] # Nothing
           \/ Finish(r, Nothing) \/ (step' = [step EXCEPT ![r] = "waiting"] /\ UNCHANGED <<chain, xml>>)
    BY <1>9 DEF ReadFile, Fail, PathOf
  <2>2. running' = running \ {r}
    BY <1>0, <2>1 DEF OneHasThePhone
  <2>3. file[r] # Nothing => file[r].by = r
    BY <1>0 DEF OwnFiles
  <2>4. file[r] \in {Nothing} \cup [by : Readers, of : Nat]
    BY <1>1
  <2>5. CASE Finish(r, file[r])
    BY <2>1, <2>2, <2>3, <2>4, <2>5, TurnEnds
  <2>6. CASE Finish(r, Nothing) \/ (step' = [step EXCEPT ![r] = "waiting"] /\ UNCHANGED <<chain, xml>>)
    BY <2>1, <2>2, <2>6, TurnEnds
  <2> QED
    BY <2>1, <2>5, <2>6
<1> QED
  BY <1>2, <1>3, <1>4, <1>5, <1>6, <1>7, <1>8, <1>9 DEF DumpNext

LEMMA DumpFits == DumpInv => OneDumpAtATime /\ ReadsItsOwn
<1> SUFFICES ASSUME DumpInv PROVE OneDumpAtATime /\ ReadsItsOwn
  OBVIOUS
<1>1. DumpTypes /\ OneHasThePhone /\ OwnFiles
  BY DEF DumpInv
<1>2. CASE running = {}
  BY <1>1, <1>2, FS_EmptySet DEF OneDumpAtATime, OwnFiles, ReadsItsOwn
<1>3. CASE running # {}
  <2>1. PICK r \in running : TRUE
    BY <1>3
  <2>2. running = {r}
    BY <1>1, <2>1 DEF DumpTypes, OneHasThePhone
  <2>3. Cardinality(running) = 1
    BY <2>2, FS_Singleton
  <2> QED
    BY <1>1, <2>3 DEF OneDumpAtATime, OwnFiles, ReadsItsOwn
<1> QED
  BY <1>2, <1>3

\* For any readers, retries and dumps that adb has lost sight of: one dump is under way, and what a
\* reader gets was written for it (uiDump.ts).
THEOREM OneReaderAtATime == DumpSpec => [](OneDumpAtATime /\ ReadsItsOwn)
  BY DumpStarts, DumpKeeps, DumpFits, PTL DEF DumpSpec

\* Of some natural numbers one is the least.
LEMMA LeastOfSome ==
    ASSUME NEW S \in SUBSET Nat, S # {}
    PROVE  \E m \in S : \A k \in S : m <= k
<1> DEFINE R == {r \in Nat \X Nat : r[1] < r[2]}
<1>1. IsWellFoundedOn(R, Nat)
  BY NatLessThanWellFounded DEF OpToRel
<1>2. \A y \in Nat, x \in Nat : <<y, x>> \in R <=> y < x
  OBVIOUS
<1> HIDE DEF R
<1>3. PICK x \in S : \A y \in S : ~(<<y, x>> \in R)
  BY <1>1, WFMin
<1>4. ASSUME NEW k \in S PROVE x <= k
  <2>1. k \in Nat /\ x \in Nat /\ ~(k < x)
    BY <1>2, <1>3
  <2> QED
    BY <2>1
<1> QED
  BY <1>4

-----------------------------------------------------------------------------
(* The tap that answers *)

LEMMA InSeq == ASSUME NEW S, NEW q \in Seq(S), NEW i \in DOMAIN q PROVE q[i] \in S
  OBVIOUS

\* The first control of a dump that fits is one that fits.
LEMMA FirstOne ==
    ASSUME NEW controls \in Seq(Controls), NEW good \in SUBSET (DOMAIN controls), good # {}
    PROVE  (CHOOSE i \in good : \A j \in good : i <= j) \in good
<1>1. good \in SUBSET Nat
  <2>1. DOMAIN controls \subseteq Nat
    OBVIOUS
  <2> QED
    BY <2>1
<1>2. \E i \in good : \A j \in good : i <= j
  BY <1>1, LeastOfSome
<1> QED
  BY <1>2

\* Of the controls under a spot the phone takes one that has none of the others within it.
LEMMA TopmostOne ==
    ASSUME NEW controls \in Seq(Controls), NEW there \in SUBSET (DOMAIN controls), there # {},
           \A i \in there : controls[i].from < controls[i].to
    PROVE  /\ (CHOOSE i \in there : \A j \in there : ~Encloses(controls[i], controls[j])) \in there
           /\ \A j \in there :
                 ~Encloses(controls[CHOOSE i \in there : \A k \in there : ~Encloses(controls[i], controls[k])], controls[j])
<1> DEFINE widths == {controls[i].to - controls[i].from : i \in there}
<1>1. \A i \in there : controls[i].to \in Nat /\ controls[i].from \in Nat
  <2> TAKE i \in there
  <2>1. controls[i] \in Controls
    BY InSeq
  <2> QED
    BY <2>1 DEF Controls
<1>2. \A i \in there : controls[i].to - controls[i].from \in Nat
  BY <1>1
<1>3. widths \in SUBSET Nat /\ widths # {}
  BY <1>2
<1>4. PICK m \in widths : \A w \in widths : m <= w
  <2> HIDE DEF widths
  <2> QED
    BY <1>3, LeastOfSome
<1>5. PICK i \in there : m = controls[i].to - controls[i].from
  OBVIOUS
<1>6. \A j \in there : controls[i].to - controls[i].from <= controls[j].to - controls[j].from
  BY <1>4, <1>5
<1>7. \A j \in there : ~Encloses(controls[i], controls[j])
  BY <1>1, <1>2, <1>6 DEF Encloses
<1> QED
  BY <1>7

\* Under the centre of the button that is found lies no control that refuses the call.
LEMMA TheRightOne ==
    ASSUME layout \in Layouts["answer"], FindAnswerButton(layout) # NoControl
    PROVE  ~Refuses(Under(layout, NodeCentre(FindAnswerButton(layout))))
<1>1. /\ layout \in Seq(Controls)
      /\ \A i \in DOMAIN layout : layout[i].from < layout[i].to
      /\ \A i, k \in DOMAIN layout :
               \/ i = k \/ Encloses(layout[i], layout[k]) \/ Encloses(layout[k], layout[i])
               \/ layout[i].to <= layout[k].from \/ layout[k].to <= layout[i].from
  BY LayoutsAssumption
<1> DEFINE Fits(c) == IsAnswerNode(c) /\ \A i \in DOMAIN layout : Refuses(layout[i]) => ~Encloses(c, layout[i])
           good == {i \in DOMAIN layout : Fits(layout[i])}
<1>2. good # {} /\ FindAnswerButton(layout) = layout[CHOOSE i \in good : \A j \in good : i <= j]
  BY DEF FindAnswerButton, FirstThat, Refuses
<1>3. PICK b \in good : b = (CHOOSE i \in good : \A j \in good : i <= j)
  <2>1. good \in SUBSET (DOMAIN layout)
    OBVIOUS
  <2> HIDE DEF good
  <2> QED
    BY <1>1, <1>2, <2>1, FirstOne
<1>4. /\ b \in DOMAIN layout /\ IsAnswerNode(layout[b])
      /\ \A i \in DOMAIN layout : Refuses(layout[i]) => ~Encloses(layout[b], layout[i])
      /\ FindAnswerButton(layout) = layout[b]
  BY <1>2, <1>3
<1> HIDE DEF good
<1>5. PICK spot \in Nat : /\ spot = NodeCentre(layout[b])
                          /\ layout[b].from <= spot /\ spot < layout[b].to
  <2>1. layout[b] \in Controls
    BY <1>1, <1>4, InSeq
  <2>2. /\ layout[b].from \in Nat /\ layout[b].to \in Nat /\ layout[b].from < layout[b].to
    BY <1>1, <1>4, <2>1 DEF Controls
  <2> QED
    BY <2>2 DEF NodeCentre
<1> DEFINE there == {i \in DOMAIN layout : layout[i].from <= spot /\ spot < layout[i].to}
<1>6. b \in there /\ there # {} /\ there \in SUBSET (DOMAIN layout)
  BY <1>4, <1>5
<1>7. PICK u \in there : /\ u = (CHOOSE i \in there : \A j \in there : ~Encloses(layout[i], layout[j]))
                         /\ \A j \in there : ~Encloses(layout[u], layout[j])
  <2>1. \A i \in there : layout[i].from < layout[i].to
    BY <1>1
  <2> HIDE DEF there
  <2> QED
    BY <1>1, <1>6, <2>1, TopmostOne
<1>8. Under(layout, spot) = layout[u]
  BY <1>6, <1>7 DEF Under
<1>9. ~Refuses(layout[b])
  BY <1>4 DEF IsAnswerNode, Refuses
<1>10. CASE u = b
  BY <1>4, <1>5, <1>8, <1>9, <1>10
<1>11. CASE u # b
  <2>1. ~Encloses(layout[u], layout[b])
    BY <1>6, <1>7
  <2>2. ~(layout[u].to <= layout[b].from) /\ ~(layout[b].to <= layout[u].from)
    <3>1. /\ layout[u].from <= spot /\ spot < layout[u].to
          /\ layout[b].from <= spot /\ spot < layout[b].to
      BY <1>5
    <3>2. layout[u] \in Controls /\ layout[b] \in Controls
      BY <1>1, <1>4, InSeq
    <3>3. /\ layout[u].from \in Nat /\ layout[u].to \in Nat
          /\ layout[b].from \in Nat /\ layout[b].to \in Nat
      BY <3>2 DEF Controls
    <3> QED
      BY <3>1, <3>3
  <2>3. Encloses(layout[b], layout[u])
    BY <1>1, <1>4, <1>11, <2>1, <2>2
  <2>4. ~Refuses(layout[u])
    BY <1>4, <2>3
  <2> QED
    BY <1>4, <1>5, <1>8, <2>4
<1> QED
  BY <1>10, <1>11

\* The control under a tap that a dump led to; and what is known of the keyguard, once it was asked for.
VoipInv ==
    /\ job \in {"answer", "dial", "end"} /\ unread \in BOOLEAN /\ lock \in {"none", "swipe", "pin"}
    /\ layout = <<>> \/ layout \in Layouts[job]
    /\ DumpNeverRejects
    /\ job # "end" /\ ~unread => /\ at = "open" => (knows.locked <=> lock # "none")
                                 /\ at \in {"reading", "ocr", "tap", "tapped"} => lock = "none"

LEMMA VoipStarts == VoipInit => VoipInv
<1> SUFFICES ASSUME VoipInit PROVE VoipInv
  OBVIOUS
<1>1. /\ job \in {"answer", "dial", "end"} /\ unread \in BOOLEAN /\ lock \in {"none", "swipe", "pin"}
      /\ layout = <<>> /\ at = "asked"
  BY DEF VoipInit
<1>2. hit.by = "nobody"
  BY DEF VoipInit, NoHit
<1>3. DumpNeverRejects
  BY <1>2 DEF DumpNeverRejects
<1> QED
  BY <1>1, <1>3 DEF VoipInv

LEMMA VoipKeeps == VoipInv /\ [VoipNext]_voipVars => VoipInv'
<1> SUFFICES ASSUME VoipInv, [VoipNext]_voipVars PROVE VoipInv'
  OBVIOUS
<1>1. CASE UNCHANGED voipVars
  BY <1>1 DEF voipVars, VoipInv, DumpNeverRejects
<1>2. CASE ScreenComes
  BY <1>2 DEF ScreenComes, VoipInv, DumpNeverRejects
<1>3. CASE CallIsOver
  BY <1>3 DEF CallIsOver, VoipInv, DumpNeverRejects
<1>4. CASE BeginJob
  BY <1>4 DEF BeginJob, VoipInv, DumpNeverRejects
<1>5. CASE StateKnown
  <2>1. PICK powerAnswers \in BOOLEAN, windowAnswers \in BOOLEAN :
            /\ knows' = Knows(powerAnswers => lit, windowAnswers /\ lock # "none", windowAnswers /\ lock = "pin")
            /\ unread' = (unread \/ ~powerAnswers \/ ~windowAnswers)
    BY <1>5 DEF StateKnown, ReadState
  <2>2. /\ at' = "open" => knows'.locked = FALSE
        /\ at' \in {"wake", "dismiss", "open"}
    BY <1>5, <2>1 DEF StateKnown, Knows
  <2>3. UNCHANGED <<job, lock, layout, hit>>
    BY <1>5 DEF StateKnown
  <2> QED
    BY <2>1, <2>2, <2>3 DEF VoipInv, DumpNeverRejects, Knows
<1>6. CASE WakeUp
  <2>1. PICK powerAnswers \in BOOLEAN, windowAnswers \in BOOLEAN :
            /\ knows' = Knows(powerAnswers => lit, windowAnswers /\ lock # "none", windowAnswers /\ lock = "pin")
            /\ unread' = (unread \/ ~powerAnswers \/ ~windowAnswers)
    BY <1>6 DEF WakeUp, ReadState
  <2>2. at' \in {"dismiss", "open"} /\ UNCHANGED <<job, lock, layout, hit>>
    BY <1>6 DEF WakeUp
  <2> QED
    BY <2>1, <2>2 DEF VoipInv, DumpNeverRejects, Knows
<1>7. CASE DismissKeyguard
  <2>1. PICK windowAnswers \in BOOLEAN :
            /\ knows' = Knows(lit, windowAnswers /\ lock' # "none", windowAnswers /\ lock' = "pin")
            /\ unread' = (unread \/ ~windowAnswers)
    BY <1>7 DEF DismissKeyguard
  <2>2. at' = "open" /\ lock' \in {"none", "swipe", "pin"} /\ UNCHANGED <<job, layout, hit>>
    BY <1>7 DEF DismissKeyguard, VoipInv
  <2> QED
    BY <2>1, <2>2 DEF VoipInv, DumpNeverRejects, Knows
<1>8. CASE OpenOrRefuse
  BY <1>8 DEF OpenOrRefuse, RefusesLock, VoipInv, DumpNeverRejects
<1>9. CASE CommandFails
  BY <1>9 DEF CommandFails, VoipInv, DumpNeverRejects
<1>10. CASE ReadControls
  <2>1. /\ at = "reading" /\ UNCHANGED <<job, lock, knows, unread, layout>>
        /\ \/ /\ Find(layout) # NoControl
              /\ at' = "tap" /\ hit' = [by |-> "dump", on |-> Under(layout, NodeCentre(Find(layout)))]
           \/ at' \in {"ocr", "reading", "failed"} /\ hit' = hit
    BY <1>10 DEF ReadControls, Aim, GoesOn
  <2>2. DumpNeverRejects'
    <3>1. CASE hit' = hit
      BY <2>1, <3>1 DEF VoipInv, DumpNeverRejects
    <3>2. CASE /\ Find(layout) # NoControl
               /\ hit' = [by |-> "dump", on |-> Under(layout, NodeCentre(Find(layout)))]
      <4> SUFFICES ASSUME job = "answer" PROVE ~Refuses(hit'.on)
        BY <2>1 DEF DumpNeverRejects
      <4>1. FindAnswerButton(layout) # NoControl /\ hit'.on = Under(layout, NodeCentre(FindAnswerButton(layout)))
        BY <3>2 DEF Find
      <4>2. layout \in Layouts["answer"]
        <5>1. layout # <<>>
          <6> SUFFICES ASSUME layout = <<>> PROVE FALSE
            OBVIOUS
          <6>1. DOMAIN layout = {}
            OBVIOUS
          <6> QED
            BY <4>1, <6>1 DEF FindAnswerButton, FirstThat
        <5> QED
          BY <5>1 DEF VoipInv
      <4> QED
        BY <4>1, <4>2, TheRightOne
    <3> QED
      BY <2>1, <3>1, <3>2
  <2> QED
    BY <2>1, <2>2 DEF VoipInv
<1>11. CASE ReadFrame
  <2>1. /\ at = "ocr" /\ UNCHANGED <<job, lock, knows, unread, layout>>
        /\ at' \in {"tap", "reading", "failed"}
        /\ hit' = hit \/ hit'.by = "ocr"
    BY <1>11 DEF ReadFrame, Aim, OcrFails, GoesOn
  <2> QED
    BY <2>1 DEF VoipInv, DumpNeverRejects
<1>12. CASE Tap
  BY <1>12 DEF Tap, VoipInv, DumpNeverRejects
<1> QED
  BY <1>1, <1>2, <1>3, <1>4, <1>5, <1>6, <1>7, <1>8, <1>9, <1>10, <1>11, <1>12 DEF VoipNext

LEMMA VoipFits == VoipInv => DumpNeverRejects /\ NoTapIntoKeyguard
  BY DEF VoipInv, NoTapIntoKeyguard

\* For any screens whose controls lie within or beside each other, and any number of readings: no tap
\* that a dump led to rejects a caller, and none goes into a keyguard that was reported (voipAnswerer.ts).
THEOREM TapsAreHarmless == VoipSpec => [](DumpNeverRejects /\ NoTapIntoKeyguard)
  BY VoipStarts, VoipKeeps, VoipFits, PTL DEF VoipSpec

-----------------------------------------------------------------------------
(* The numbers of a card *)

\* An access prefix is two zeros.
LEMMA AccessIsTwoZeros ==
    ASSUME NEW d \in Seq(Nat)
    PROVE  IsAccess(d) <=> Len(d) >= 2 /\ d[1] = 0 /\ d[2] = 0
<1> DEFINE zeros == <<0, 0>>
<1>1. zeros \in Seq(Nat) /\ Len(zeros) = 2 /\ zeros[1] = 0 /\ zeros[2] = 0
  OBVIOUS
<1> HIDE DEF zeros
<1>2. SubSeq(zeros, 1, 2) = zeros
  BY <1>1, SubSeqFull
<1>3. CASE Len(d) >= 2
  <2>1. /\ SubSeq(d, 1, 2) \in Seq(Nat) /\ Len(SubSeq(d, 1, 2)) = 2
        /\ SubSeq(d, 1, 2)[1] = d[1] /\ SubSeq(d, 1, 2)[2] = d[2]
    <3>1. \A i \in 1..2 : d[i] \in Nat
      BY <1>3
    <3> QED
      BY <3>1, SubSeqProperties
  <2>2. IsAccess(d) <=> zeros = SubSeq(d, 1, 2)
    BY <1>1, <1>2, <1>3 DEF IsAccess, IsPrefix, zeros
  <2>3. ASSUME d[1] = 0, d[2] = 0 PROVE zeros = SubSeq(d, 1, 2)
    <3>1. \A i \in 1..Len(zeros) : zeros[i] = SubSeq(d, 1, 2)[i]
      BY <1>1, <2>1, <2>3
    <3> QED
      BY <1>1, <2>1, <3>1, SeqEqual
  <2> QED
    BY <1>1, <1>3, <2>1, <2>2, <2>3
<1>4. CASE ~(Len(d) >= 2)
  BY <1>1, <1>4 DEF IsAccess, IsPrefix, zeros
<1> QED
  BY <1>3, <1>4

\* What precedes a number leaves its last digits alone.
LEMMA SuffixOfThePart ==
    ASSUME NEW x \in Seq(Nat), NEW n \in Seq(Nat), Len(n) >= SignificantDigits
    PROVE  Suffix(x \o n) = SubSeq(n, Len(n) - SignificantDigits + 1, Len(n))
<1>1. SignificantDigits \in Nat /\ SignificantDigits > 0 /\ Len(n) \in Nat /\ Len(x) \in Nat
  BY NumbersAssumption
<1>2. x \o n \in Seq(Nat) /\ Len(x \o n) = Len(x) + Len(n)
  BY ConcatProperties
<1>3. CASE Len(x) + Len(n) <= SignificantDigits
  <2>1. x = <<>> /\ Len(n) = SignificantDigits
    BY <1>1, <1>3
  <2>2. x \o n = n
    BY <2>1, ConcatEmptySeq
  <2>3. SubSeq(n, 1, Len(n)) = n
    BY SubSeqFull
  <2>4. Suffix(x \o n) = n
    BY <1>2, <1>3, <2>2 DEF Suffix
  <2> QED
    BY <1>1, <2>1, <2>3, <2>4
<1>4. CASE ~(Len(x) + Len(n) <= SignificantDigits)
  <2> DEFINE from == Len(x) + Len(n) - SignificantDigits + 1
  <2>1. /\ from \in Len(x) + 1 .. Len(x) + Len(n)
        /\ Len(x) + Len(n) \in Len(x) + 1 .. Len(x) + Len(n)
        /\ from - Len(x) = Len(n) - SignificantDigits + 1
        /\ Len(x) + Len(n) - Len(x) = Len(n)
    BY <1>1
  <2>2. Suffix(x \o n) = SubSeq(x \o n, from, Len(x) + Len(n))
    BY <1>1, <1>2, <1>4 DEF Suffix
  <2> HIDE DEF from
  <2>3. SubSeq(x \o n, from, Len(x) + Len(n)) = SubSeq(n, from - Len(x), Len(x) + Len(n) - Len(x))
    BY <2>1, SubSeqOfConcat2
  <2> QED
    BY <2>1, <2>2, <2>3
<1> QED
  BY <1>3, <1>4

LEMMA Joined ==
    ASSUME NEW a \in Seq(Nat), NEW b \in Seq(Nat)
    PROVE  /\ a \o b \in Seq(Nat) /\ Len(a \o b) = Len(a) + Len(b)
           /\ \A i \in 1 .. Len(a) + Len(b) : (a \o b)[i] = IF i <= Len(a) THEN a[i] ELSE b[i - Len(a)]
  BY ConcatProperties

LEMMA SubSeqOfJoined ==
    ASSUME NEW a \in Seq(Nat), NEW b \in Seq(Nat),
           NEW i \in Len(a) + 1 .. Len(a) + Len(b), NEW k \in Len(a) + 1 .. Len(a) + Len(b)
    PROVE  SubSeq(a \o b, i, k) = SubSeq(b, i - Len(a), k - Len(a))
  BY SubSeqOfConcat2

LEMMA CutsTwo ==
    ASSUME NEW z \in Seq(Nat), Len(z) = 2, NEW d \in Seq(Nat), d # <<>>
    PROVE  SubSeq(z \o d, 3, Len(z \o d)) = d
<1>1. Len(z \o d) = 2 + Len(d) /\ Len(d) \in Nat /\ Len(d) > 0
  <2>1. Len(z \o d) = Len(z) + Len(d)
    BY Joined
  <2>2. Len(d) \in Nat /\ Len(d) > 0
    OBVIOUS
  <2> QED
    BY <2>1, <2>2
<1>2. PICK last \in Nat : last = 2 + Len(d)
  BY <1>1
<1>3. 3 \in Len(z) + 1 .. Len(z) + Len(d) /\ last \in Len(z) + 1 .. Len(z) + Len(d)
  BY <1>1, <1>2
<1>4. SubSeq(z \o d, 3, last) = SubSeq(d, 3 - Len(z), last - Len(z))
  BY <1>3, SubSeqOfJoined
<1>5. 3 - Len(z) = 1 /\ last - Len(z) = Len(d)
  BY <1>1, <1>2
<1>6. SubSeq(d, 1, Len(d)) = d
  BY SubSeqFull
<1> QED
  BY <1>1, <1>2, <1>4, <1>5, <1>6

LEMMA CutsTheTrunk ==
    ASSUME NEW z \in Seq(Nat), Len(z) = 1, z[1] = 0, NEW d \in Seq(Nat), d # <<>>
    PROVE  /\ WithoutTrunk(z \o d) = d
           /\ z \o d \in Seq(Nat) /\ Len(z \o d) = 1 + Len(d) /\ (z \o d)[2] = d[1]
<1> DEFINE whole == z \o d
<1>1. /\ whole \in Seq(Nat) /\ Len(whole) = 1 + Len(d) /\ Len(d) \in Nat /\ Len(d) > 0
      /\ \A i \in 1 .. 1 + Len(d) : whole[i] = IF i <= 1 THEN z[i] ELSE d[i - 1]
  <2>1. Len(d) \in Nat /\ Len(d) > 0
    OBVIOUS
  <2>2. /\ whole \in Seq(Nat) /\ Len(whole) = Len(z) + Len(d)
        /\ \A i \in 1 .. Len(z) + Len(d) : whole[i] = IF i <= Len(z) THEN z[i] ELSE d[i - Len(z)]
    BY Joined
  <2> HIDE DEF whole
  <2> QED
    BY <2>1, <2>2
<1>2. whole # <<>> /\ whole[1] = 0 /\ whole[2] = d[1]
  <2>1. 1 \in 1 .. 1 + Len(d) /\ 2 \in 1 .. 1 + Len(d) /\ 2 - 1 = 1
    BY <1>1
  <2> HIDE DEF whole
  <2> QED
    BY <1>1, <2>1
<1>3. /\ Tail(whole) \in Seq(Nat) /\ Len(Tail(whole)) = Len(whole) - 1
      /\ \A i \in 1 .. Len(Tail(whole)) : Tail(whole)[i] = whole[i + 1]
  <2> HIDE DEF whole
  <2> QED
    BY <1>1, <1>2, HeadTailProperties
<1> HIDE DEF whole
<1>4. Len(Tail(whole)) = Len(d)
  BY <1>1, <1>3
<1>5. \A i \in 1 .. Len(Tail(whole)) : Tail(whole)[i] = d[i]
  <2> TAKE i \in 1 .. Len(Tail(whole))
  <2>1. i + 1 \in 1 .. 1 + Len(d) /\ ~(i + 1 <= 1) /\ (i + 1) - 1 = i
    BY <1>1, <1>4
  <2> QED
    BY <1>1, <1>3, <2>1
<1>6. Tail(whole) = d
  BY <1>3, <1>4, <1>5, SeqEqual
<1>7. Head(whole) = 0 /\ Len(whole) > 1
  BY <1>1, <1>2
<1> QED
  BY <1>1, <1>2, <1>6, <1>7 DEF WithoutTrunk, whole

LEMMA ConcatThree ==
    ASSUME NEW a \in Seq(Nat), NEW b \in Seq(Nat), NEW c \in Seq(Nat)
    PROVE  (a \o b) \o c = a \o (b \o c)
  BY ConcatAssociative

LEMMA TwoInFront ==
    ASSUME NEW z \in Seq(Nat), Len(z) = 2, z[1] = 0, z[2] = 0, NEW d \in Seq(Nat)
    PROVE  /\ z \o d \in Seq(Nat) /\ Len(z \o d) >= 2 /\ (z \o d)[1] = 0 /\ (z \o d)[2] = 0
<1>1. Len(d) \in Nat /\ 1 \in 1 .. Len(z) + Len(d) /\ 2 \in 1 .. Len(z) + Len(d)
  OBVIOUS
<1> QED
  BY <1>1, Joined

\* How a number reads after each of the prefixes it may be written with.
LEMMA Readings ==
    ASSUME NEW n \in Numbers
    PROVE  /\ n \in Seq(Nat) /\ HomeCode \o n \in Seq(Nat) /\ <<0>> \o n \in Seq(Nat)
           /\ ~IsAccess(n) /\ ~IsAccess(HomeCode \o n) /\ ~IsAccess(<<0>> \o n)
           /\ IsAccess(<<0, 0>> \o HomeCode \o n)
           /\ LET d == <<0, 0>> \o HomeCode \o n IN SubSeq(d, 3, Len(d)) = HomeCode \o n
           /\ WithoutTrunk(n) = n /\ WithoutTrunk(HomeCode \o n) = HomeCode \o n
           /\ WithoutTrunk(<<0>> \o n) = n
           /\ IsPrefix(HomeCode, HomeCode \o n) /\ IsComplete(HomeCode \o n, HomeCode)
           /\ Distinct(n) => ~IsComplete(n, HomeCode)
<1>1. /\ n \in Seq(Nat) /\ n # <<>> /\ n[1] # 0 /\ Len(n) >= SignificantDigits
      /\ HomeCode \in Seq(Nat) /\ HomeCode # <<>> /\ HomeCode[1] # 0 /\ SignificantDigits \in Nat
  BY NumbersAssumption
<1>2. /\ HomeCode \o n \in Seq(Nat) /\ Len(HomeCode \o n) = Len(HomeCode) + Len(n)
      /\ (HomeCode \o n)[1] = HomeCode[1] /\ HomeCode \o n # <<>>
  <2>1. 1 \in 1 .. Len(HomeCode) + Len(n) /\ 1 <= Len(HomeCode)
    BY <1>1
  <2> QED
    BY <1>1, <2>1, ConcatProperties
<1>3. <<0>> \in Seq(Nat) /\ Len(<<0>>) = 1 /\ <<0>>[1] = 0 /\ <<0, 0>> \in Seq(Nat) /\ Len(<<0, 0>>) = 2
      /\ <<0, 0>>[1] = 0 /\ <<0, 0>>[2] = 0
  OBVIOUS
<1>4. /\ <<0>> \o n \in Seq(Nat) /\ (<<0>> \o n)[2] = n[1] /\ Len(<<0>> \o n) = 1 + Len(n)
      /\ WithoutTrunk(<<0>> \o n) = n
  BY <1>1, <1>3, CutsTheTrunk
<1>5. ~IsAccess(n) /\ ~IsAccess(HomeCode \o n) /\ ~IsAccess(<<0>> \o n)
  BY <1>1, <1>2, <1>4, AccessIsTwoZeros
<1>6. <<0, 0>> \o HomeCode \o n = <<0, 0>> \o (HomeCode \o n)
  BY <1>1, <1>3, ConcatThree
<1>7. IsAccess(<<0, 0>> \o HomeCode \o n)
  <2>1. /\ <<0, 0>> \o (HomeCode \o n) \in Seq(Nat) /\ Len(<<0, 0>> \o (HomeCode \o n)) >= 2
        /\ (<<0, 0>> \o (HomeCode \o n))[1] = 0 /\ (<<0, 0>> \o (HomeCode \o n))[2] = 0
    BY <1>2, <1>3, TwoInFront
  <2> QED
    BY <1>6, <2>1, AccessIsTwoZeros
<1>8. LET d == <<0, 0>> \o HomeCode \o n IN SubSeq(d, 3, Len(d)) = HomeCode \o n
  BY <1>2, <1>3, <1>6, CutsTwo
<1>9. WithoutTrunk(n) = n /\ WithoutTrunk(HomeCode \o n) = HomeCode \o n
  <2>1. Head(n) = n[1] /\ Head(HomeCode \o n) = (HomeCode \o n)[1]
    BY <1>1, <1>2
  <2> QED
    BY <1>1, <1>2, <2>1 DEF WithoutTrunk
<1>10. WithoutTrunk(<<0>> \o n) = n
  BY <1>4
<1>11. IsPrefix(HomeCode, HomeCode \o n)
  <2>1. 1 \in 1 .. Len(HomeCode) /\ Len(HomeCode) \in 1 .. Len(HomeCode)
    BY <1>1
  <2>2. SubSeq(HomeCode \o n, 1, Len(HomeCode)) = SubSeq(HomeCode, 1, Len(HomeCode))
    BY <1>1, <2>1, SubSeqOfConcat1
  <2>3. Len(HomeCode) <= Len(HomeCode \o n)
    BY <1>1, <1>2
  <2> QED
    BY <2>2, <2>3 DEF IsPrefix
<1>12. IsComplete(HomeCode \o n, HomeCode)
  <2>1. Len(HomeCode \o n) - Len(HomeCode) = Len(n)
    BY <1>1, <1>2
  <2> QED
    BY <1>1, <1>11, <2>1 DEF IsComplete
<1>13. Distinct(n) => ~IsComplete(n, HomeCode)
  BY DEF Distinct, IsComplete
<1> QED
  BY <1>1, <1>2, <1>4, <1>5, <1>7, <1>8, <1>9, <1>10, <1>11, <1>12, <1>13

\* What each spelling is filed under and dialled as.
LEMMA EverySpelling ==
    ASSUME NEW n \in Numbers, NEW form \in Forms, defaultCountryCode \in CountryCodes
    PROVE  /\ defaultCountryCode = HomeCode /\ Distinct(n) => E164(Spelled(form, n)) = HomeCode \o n
           /\ E164(Spelled(form, n)) \in {n, HomeCode \o n, <<0>> \o n}
           /\ Distinct(n) /\ form # "jid" => DeepLinkDigits(Spelled(form, n)) = E164(Spelled(form, n))
<1> USE Readings
<1>1. defaultCountryCode \in {<<>>, HomeCode} /\ HomeCode # <<>>
  BY NumbersAssumption
<1>2. CASE form \in {"plus", "jid"}
  <2>1. Spelled(form, n).mark = form /\ Spelled(form, n).digits = HomeCode \o n /\ form # "none"
    BY <1>2 DEF Spelled
  <2>2. E164(Spelled(form, n)) = HomeCode \o n
    BY <2>1 DEF E164
  <2>3. form # "jid" => DeepLinkDigits(Spelled(form, n)) = HomeCode \o n
    BY <1>2, <2>1 DEF DeepLinkDigits
  <2> QED
    BY <2>2, <2>3
<1>3. CASE form = "access"
  <2>1. Spelled(form, n).mark = "none" /\ Spelled(form, n).digits = <<0, 0>> \o HomeCode \o n
    BY <1>3 DEF Spelled
  <2>2. E164(Spelled(form, n)) = HomeCode \o n
    BY <2>1 DEF E164
  <2>3. DeepLinkDigits(Spelled(form, n)) = HomeCode \o n
    BY <2>1 DEF DeepLinkDigits
  <2> QED
    BY <2>2, <2>3
<1>4. CASE form \in {"trunk", "national"}
  <2>1. /\ Spelled(form, n).mark = "none" /\ Spelled(form, n).digits \in {n, <<0>> \o n}
        /\ ~IsAccess(Spelled(form, n).digits) /\ WithoutTrunk(Spelled(form, n).digits) = n
    BY <1>4 DEF Spelled
  <2>2. CASE defaultCountryCode = <<>>
    BY <1>1, <2>1, <2>2 DEF E164, DeepLinkDigits
  <2>3. CASE defaultCountryCode = HomeCode
    <3>1. E164(Spelled(form, n)) = IF IsComplete(n, HomeCode) THEN n ELSE HomeCode \o n
      BY <1>1, <2>1, <2>3 DEF E164, WithCountryCode
    <3>2. DeepLinkDigits(Spelled(form, n)) = IF IsPrefix(HomeCode, n) THEN n ELSE HomeCode \o n
      BY <1>1, <2>1, <2>3 DEF DeepLinkDigits
    <3> QED
      BY <3>1, <3>2 DEF Distinct
  <2> QED
    BY <1>1, <2>2, <2>3
<1>5. CASE form = "bare"
  <2>1. /\ Spelled(form, n).mark = "none" /\ Spelled(form, n).digits = HomeCode \o n
    BY <1>5 DEF Spelled
  <2>2. CASE defaultCountryCode = <<>>
    BY <1>1, <2>1, <2>2 DEF E164, DeepLinkDigits
  <2>3. CASE defaultCountryCode = HomeCode
    <3> DEFINE whole == HomeCode \o n
    <3>1. /\ ~IsAccess(whole) /\ WithoutTrunk(whole) = whole /\ IsPrefix(HomeCode, whole)
          /\ IsComplete(whole, HomeCode) /\ Spelled(form, n).digits = whole
      BY <2>1
    <3> HIDE DEF whole
    <3>2. E164(Spelled(form, n)) = whole
      BY <1>1, <2>1, <2>3, <3>1 DEF E164, WithCountryCode
    <3>3. DeepLinkDigits(Spelled(form, n)) = whole
      BY <1>1, <2>1, <2>3, <3>1 DEF DeepLinkDigits
    <3> QED
      BY <3>2, <3>3 DEF whole
  <2> QED
    BY <1>1, <2>2, <2>3
<1> QED
  BY <1>2, <1>3, <1>4, <1>5 DEF Forms

\* Whatever a card holds is one of the spellings of its owner's number.
NumbersInv ==
    /\ defaultCountryCode \in CountryCodes
    /\ \/ owner = <<>> /\ card = {}
       \/ owner \in Numbers /\ \A e \in card : \E form \in Forms : e = NormalizePhone(Spelled(form, owner))

LEMMA NumbersStart == NumbersInit => NumbersInv
  BY DEF NumbersInit, NumbersInv

LEMMA NumbersKeep == NumbersInv /\ [NumbersNext]_numberVars => NumbersInv'
<1> SUFFICES ASSUME NumbersInv, [NumbersNext]_numberVars PROVE NumbersInv'
  OBVIOUS
<1> DEFINE Is(e, form, n) == e = NormalizePhone(Spelled(form, n))
<1>1. CASE UNCHANGED numberVars
  <2>1. defaultCountryCode' = defaultCountryCode /\ owner' = owner /\ card' = card
    BY <1>1 DEF numberVars
  <2>2. \A form, n : NormalizePhone(Spelled(form, n))' = NormalizePhone(Spelled(form, n))
    BY <2>1 DEF NormalizePhone, Known, E164, WithCountryCode, Spelled
  <2> QED
    BY <2>1, <2>2 DEF NumbersInv
<1>2. CASE NumbersNext
  <2>1. PICK form \in Forms, n \in Numbers : AddPhone(form, n) \/ RemovePhone(form, n)
    BY <1>2 DEF NumbersNext
  <2>2. /\ defaultCountryCode' = defaultCountryCode /\ owner \in {<<>>, n} /\ owner' = n
        /\ \A e \in card' : e \in card \/ e = NormalizePhone(Spelled(form, n))
    BY <2>1, NumbersAssumption DEF AddPhone, RemovePhone
  <2>3. \A f : NormalizePhone(Spelled(f, owner))' = NormalizePhone(Spelled(f, n))
    BY <2>2 DEF NormalizePhone, Known, E164, WithCountryCode, Spelled
  <2>4. n # <<>>
    BY NumbersAssumption
  <2>5. \A e \in card : \E f \in Forms : e = NormalizePhone(Spelled(f, n))
    <3>1. CASE owner = <<>>
      BY <3>1, NumbersAssumption DEF NumbersInv
    <3>2. CASE owner = n /\ owner # <<>>
      BY <3>2 DEF NumbersInv
    <3> QED
      BY <2>2, <2>4, <3>1, <3>2
  <2>6. \A e \in card' : \E f \in Forms : e = NormalizePhone(Spelled(f, n))
    BY <2>2, <2>5
  <2> QED
    BY <2>2, <2>3, <2>6 DEF NumbersInv
<1> QED
  BY <1>1, <1>2

LEMMA NumbersFit == NumbersInv => NumbersMeet
<1> SUFFICES ASSUME NumbersInv PROVE NumbersMeet
  OBVIOUS
<1>1. EverySpellingMeets
  <2> SUFFICES ASSUME defaultCountryCode = HomeCode, owner # <<>>, Distinct(owner), card # {},
                      NEW form \in Forms
               PROVE  card = {NormalizePhone(Spelled(form, owner))}
    BY DEF EverySpellingMeets
  <2>1. owner \in Numbers /\ defaultCountryCode \in CountryCodes /\ HomeCode # <<>>
    BY NumbersAssumption DEF NumbersInv
  <2> DEFINE entry == [known |-> TRUE, key |-> HomeCode \o owner, suffix |-> Suffix(HomeCode \o owner)]
  <2>2. \A f \in Forms : NormalizePhone(Spelled(f, owner)) = entry
    <3> TAKE f \in Forms
    <3>1. E164(Spelled(f, owner)) = HomeCode \o owner
      BY <2>1, EverySpelling
    <3>2. Known(Spelled(f, owner)) = TRUE
      BY <2>1 DEF Known
    <3> QED
      BY <3>1, <3>2 DEF NormalizePhone
  <2> HIDE DEF entry
  <2>3. \A e \in card : e = entry
    BY <2>2 DEF NumbersInv
  <2>4. card = {entry}
    BY <2>3
  <2> QED
    BY <2>2, <2>4
<1>2. SuffixMeets
  <2> SUFFICES ASSUME owner # <<>>, NEW form \in Forms, NEW e \in card
               PROVE  NormalizePhone(Spelled(form, owner)).suffix = e.suffix
    BY DEF SuffixMeets
  <2>1. owner \in Numbers /\ defaultCountryCode \in CountryCodes
    BY DEF NumbersInv
  <2>2. /\ owner \in Seq(Nat) /\ HomeCode \in Seq(Nat) /\ Len(owner) >= SignificantDigits
    BY <2>1, NumbersAssumption
  <2> DEFINE last == SubSeq(owner, Len(owner) - SignificantDigits + 1, Len(owner))
  <2>3. \A f \in Forms : NormalizePhone(Spelled(f, owner)).suffix = last
    <3> TAKE f \in Forms
    <3>1. E164(Spelled(f, owner)) \in {owner, HomeCode \o owner, <<0>> \o owner}
      BY <2>1, EverySpelling
    <3>2. <<>> \o owner = owner /\ <<>> \in Seq(Nat) /\ <<0>> \in Seq(Nat)
      BY <2>2, ConcatEmptySeq
    <3>3. Suffix(HomeCode \o owner) = last
      BY <2>2, SuffixOfThePart
    <3>4. Suffix(<<0>> \o owner) = last
      BY <2>2, <3>2, SuffixOfThePart
    <3>5. Suffix(owner) = last
      <4>1. Suffix(<<>> \o owner) = last
        BY <2>2, <3>2, SuffixOfThePart
      <4> QED
        BY <3>2, <4>1
    <3> HIDE DEF last
    <3>6. Suffix(E164(Spelled(f, owner))) = last
      BY <3>1, <3>3, <3>4, <3>5
    <3> QED
      BY <3>6 DEF NormalizePhone
  <2> HIDE DEF last
  <2>4. PICK f \in Forms : e = NormalizePhone(Spelled(f, owner))
    BY DEF NumbersInv
  <2> QED
    BY <2>3, <2>4
<1>3. DialsTheCard
  <2> SUFFICES ASSUME owner # <<>>, Distinct(owner), NEW form \in Forms \ {"jid"}
               PROVE  DeepLinkDigits(Spelled(form, owner)) = NormalizePhone(Spelled(form, owner)).key
    BY DEF DialsTheCard
  <2>1. owner \in Numbers /\ defaultCountryCode \in CountryCodes
    BY DEF NumbersInv
  <2>2. DeepLinkDigits(Spelled(form, owner)) = E164(Spelled(form, owner))
    BY <2>1, EverySpelling
  <2> QED
    BY <2>2 DEF NormalizePhone
<1> QED
  BY <1>1, <1>2, <1>3 DEF NumbersMeet
-----------------------------------------------------------------------------
(* The phone: each part of a behaviour is a behaviour of its own *)

LEMMA EachStarts == MCInit => DetectInv /\ DumpInv /\ VoipInv /\ NumbersInv
  BY DetectStarts, DumpStarts, VoipStarts, NumbersStart DEF MCInit

LEMMA EachKeeps ==
    [MCNext]_allVars =>
      /\ [DetectNext]_detectVars /\ [DumpNext]_dumpVars
      /\ [VoipNext]_voipVars /\ [NumbersNext]_numberVars
  BY DEF MCNext, allVars

\* For any readers, screens and readings: a reader has the phone to itself and gets what was written
\* for it, and no tap that a dump led to rejects a caller or goes into a keyguard (uiDump.ts,
\* voipAnswerer.ts).
THEOREM ScreensStayHandled == MCSpec => []ScreensAreHandled
<1>1. DumpInv /\ VoipInv /\ [MCNext]_allVars => DumpInv' /\ VoipInv'
  BY EachKeeps, DumpKeeps, VoipKeeps
<1>2. DumpInv /\ VoipInv => ScreensAreHandled
  BY DumpFits, VoipFits DEF ScreensAreHandled
<1> QED
  BY <1>1, <1>2, EachStarts, PTL DEF MCSpec

\* For any numbers, home country and length of a suffix: one card for one number however it is
\* written, and what is dialled is the number of the card (phone.ts, voipDialer.ts).
THEOREM NumbersAlwaysMeet == MCSpec => []NumbersMeet
<1>1. NumbersInv /\ [MCNext]_allVars => NumbersInv'
  BY EachKeeps, NumbersKeep
<1> QED
  BY <1>1, NumbersFit, EachStarts, PTL DEF MCSpec

\* For any phone: a probe that answers has seen the call it tells of, names no direction it has no
\* witness for, and is silent about a call only where the phone gave it no way to know
\* (callDetection.ts).
THEOREM ProbesStayRight == MCSpec => []DetectionIsRight
<1>1. DetectInv /\ [MCNext]_allVars => DetectInv'
  BY EachKeeps, DetectKeeps
<1>2. DetectInv => DetectionIsRight
  BY DEF DetectInv
<1> QED
  BY <1>1, <1>2, EachStarts, PTL DEF MCSpec
=============================================================================
