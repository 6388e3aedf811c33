----------------------------- MODULE DevicePool -----------------------------
(***************************************************************************)
(* The pool of phones: packages/device-manager/src/deviceManager.ts        *)
(* reconciles its records with `adb devices' every 5 s, and                *)
(* apps/desktop/electron/service/runtime.ts reads every phone's telephony  *)
(* state every 2 s and moves the phase of its record.                      *)
(*                                                                         *)
(* Both ask adb and await the answer, for up to 15 s.  Nothing keeps two   *)
(* listings from being in flight together; the reading pass keeps itself   *)
(* from overlapping, but works from the records as they were when it       *)
(* began.                                                                  *)
(***************************************************************************)
EXTENDS Naturals, FiniteSets

CONSTANTS
    Devices,        \* the phones
    MaxListings,    \* how many `adb devices' may be in flight together
    NoDevice

ASSUME ListingsAssumption == MaxListings \in Nat \ {0}
ASSUME NoDeviceAssumption == NoDevice \notin Devices

VARIABLES
    attached,   \* the world: the phones adb would list as "device" now
    line,       \* the world: what goes on on a phone's line
    adbUp,      \* the world: adb answers; otherwise its commands time out
    known,      \* DeviceManager.devices; adb = "none" for a phone it has not met
    listings,   \* the `adb devices' answered or failed and not yet acted on
    callStates, \* Runtime.callStates; "none" for a phone without an entry
    pass,       \* pollCallStates() under way
    next        \* the phase a caller of setPhase is about to write

vars == <<attached, line, adbUp, known, listings, callStates, pass, next>>

Lines == {"quiet", "ringing", "up", "voip"}     \* "voip": ringing or up in a calling app
AdbStates == {"none", "offline", "device"}     \* "offline": unauthorized as well
Phases == {"unknown", "online", "incoming", "in-call", "offline"}
CallStates == {"none", "idle", "ringing", "offhook", "unknown"}
Slots == 1..MaxListings

Record == [adb : AdbStates, phase : Phases]
Unmet == [adb |-> "none", phase |-> "unknown"]
Offline == [adb |-> "offline", phase |-> "offline"]

NoListing == [at |-> "none", saw |-> {}]
NoPass == [left |-> {}, saw |-> [d \in Devices |-> "unknown"], reading |-> NoDevice, got |-> "none"]

Init ==
    /\ attached = {}
    /\ line = [d \in Devices |-> "quiet"]
    /\ adbUp = TRUE
    /\ known = [d \in Devices |-> Unmet]
    /\ listings = [l \in Slots |-> NoListing]
    /\ callStates = [d \in Devices |-> "none"]
    /\ pass = NoPass
    /\ next = [d \in Devices |-> "none"]

-----------------------------------------------------------------------------
(* The world. *)

\* A cable is pulled or put back, a wireless endpoint drops or returns, this
\* computer is authorised on the phone's screen.
Replug(d) ==
    /\ attached' = IF d \in attached THEN attached \ {d} ELSE attached \cup {d}
    /\ UNCHANGED <<line, adbUp, known, listings, callStates, pass, next>>

\* The network rings, an app rings, the far end hangs up.
LineMoves(d) ==
    /\ \/ line[d] = "quiet" /\ \E n \in {"ringing", "voip"} : line' = [line EXCEPT ![d] = n]
       \/ line[d] # "quiet" /\ line' = [line EXCEPT ![d] = "quiet"]
    /\ UNCHANGED <<attached, adbUp, known, listings, callStates, pass, next>>

AdbFlips ==
    /\ adbUp' = ~adbUp
    /\ UNCHANGED <<attached, line, known, listings, callStates, pass, next>>

-----------------------------------------------------------------------------
(* DeviceManager.refresh(). *)

\* adb answers a listing that a timer's tick or reconnectKnown() has asked for,
\* or the listing is killed by its time limit; refresh() has yet to act on it.
List(l) ==
    /\ listings[l].at = "none"
    /\ listings' = [listings EXCEPT ![l] = IF adbUp THEN [at |-> "answered", saw |-> attached]
                                                    ELSE [at |-> "failed", saw |-> {}]]
    /\ UNCHANGED <<attached, line, adbUp, known, callStates, pass, next>>

\* The records a listing may leave.  A record whose adb state is the listed
\* one is left alone, and an attached phone keeps the phase of its record,
\* "offline" included.  A phone not listed as "device" is either not listed, and
\* put offline if it is known, or listed in another state, and put offline
\* unless its record has that state.
Refreshed(record, listed) ==
    IF listed
    THEN {IF record.adb = "device" THEN record
          ELSE [adb |-> "device",
                phase |-> IF record.phase = "unknown" THEN "online" ELSE record.phase]}
    ELSE {Offline} \cup {r \in {record} : r.adb # "device"}

Reconcile(l) ==
    /\ listings[l].at = "answered"
    /\ known' \in [Devices -> Record]
    /\ \A d \in Devices : known'[d] \in Refreshed(known[d], d \in listings[l].saw)
    /\ listings' = [listings EXCEPT ![l] = NoListing]
    /\ UNCHANGED <<attached, line, adbUp, callStates, pass, next>>

MarkAllOffline(l) ==
    /\ listings[l].at = "failed"
    /\ known' = [d \in Devices |-> IF known[d].adb = "none" THEN Unmet ELSE Offline]
    /\ listings' = [listings EXCEPT ![l] = NoListing]
    /\ UNCHANGED <<attached, line, adbUp, callStates, pass, next>>

-----------------------------------------------------------------------------
(* Runtime.pollCallStates(). *)

callPolling == pass.left # {}

\* Telephony knows nothing of a call in an app.
Telephony(l) == CASE l = "ringing" -> "ringing" [] l = "up" -> "offhook" [] OTHER -> "idle"

\* What a pass keeps of a record: the phase of an attached phone.
Seen(record) == IF record.adb = "device" THEN record.phase ELSE "detached"

PollBegins ==
    /\ ~callPolling
    /\ pass' = [NoPass EXCEPT !.left = {d \in Devices : known[d].adb # "none"},
                              !.saw = [d \in Devices |-> Seen(known[d])]]
    /\ pass'.left # {}
    /\ UNCHANGED <<attached, line, adbUp, known, listings, callStates, next>>

Done_KeepReading(d) ==
    pass' = [pass EXCEPT !.left = @ \ {d}, !.saw[d] = "unknown"]

\* The pass is done with d; after its last phone the next tick may begin one.
Done(d) ==
    pass' = IF pass.left = {d} THEN NoPass
            ELSE [pass EXCEPT !.left = @ \ {d}, !.saw[d] = "unknown",
                              !.reading = NoDevice, !.got = "none"]

Skip(d) ==
    /\ d \in pass.left
    /\ pass.reading = NoDevice
    /\ pass.saw[d] = "detached"
    /\ callStates' = [callStates EXCEPT ![d] = "none"]
    /\ Done(d)
    /\ UNCHANGED <<attached, line, adbUp, known, listings, next>>

\* The telephony state is read; the pass has yet to resume with it.
Read(d) ==
    /\ d \in pass.left
    /\ pass.reading = NoDevice
    /\ pass.saw[d] # "detached"
    /\ pass' = [pass EXCEPT !.reading = d,
                            !.got = IF adbUp /\ d \in attached THEN Telephony(line[d])
                                                                   ELSE "unknown"]
    /\ UNCHANGED <<attached, line, adbUp, known, listings, callStates, next>>

PhaseFor(state, old) ==
    CASE state = "ringing" -> "incoming"
      [] state = "offhook" -> "in-call"
      [] state = "idle" -> "online"
      [] OTHER -> old

SetPhase(d, phase) ==
    known' = IF known[d].adb = "none" THEN known ELSE [known EXCEPT ![d].phase = phase]

\* A reading that failed ends the pass without releasing it.
Apply_NoFinally(d) ==
    /\ pass.reading = d
    /\ pass.got # "unknown"
    /\ callStates' = [callStates EXCEPT ![d] = pass.got]
    /\ LET old == pass.saw[d]
           phase == PhaseFor(pass.got, old)
       IN  IF callStates[d] # pass.got /\ phase # old THEN SetPhase(d, phase)
                                                      ELSE UNCHANGED known
    /\ Done(d)
    /\ UNCHANGED <<attached, line, adbUp, listings, next>>

\* The answer is compared with the last one, the phase with the one the record
\* had when the pass began.
Apply(d) ==
    /\ pass.reading = d
    /\ callStates' = [callStates EXCEPT ![d] = pass.got]
    /\ LET old == pass.saw[d]
           phase == PhaseFor(pass.got, old)
       IN  IF callStates[d] # pass.got /\ phase # old THEN SetPhase(d, phase)
                                                      ELSE UNCHANGED known
    /\ Done(d)
    /\ UNCHANGED <<attached, line, adbUp, listings, next>>

-----------------------------------------------------------------------------
(* Those who work a phone: the operator's console and the call loop.  Each *)
(* awaits a command to the phone and then writes the phase it left it in.  *)
(* One at a time works a phone.                                            *)

\* An outgoing call, in the dialer or in WhatsApp.
Dial(d) ==
    /\ next[d] = "none" /\ known[d].adb # "none"
    /\ adbUp /\ d \in attached
    /\ line[d] = "quiet" /\ \E n \in {"up", "voip"} : line' = [line EXCEPT ![d] = n]
    /\ next' = [next EXCEPT ![d] = "in-call"]
    /\ UNCHANGED <<attached, adbUp, known, listings, callStates, pass>>

\* A call found ringing, which the call loop then reports.
Detect(d) ==
    /\ next[d] = "none"
    /\ known[d].adb = "device" /\ known[d].phase \in {"online", "incoming"}
    /\ adbUp /\ d \in attached
    /\ line[d] \in {"ringing", "voip"}
    /\ next' = [next EXCEPT ![d] = "incoming"]
    /\ UNCHANGED <<attached, line, adbUp, known, listings, callStates, pass>>

Answer(d) ==
    /\ next[d] = "none" /\ known[d].adb # "none"
    /\ adbUp /\ d \in attached
    /\ line[d] \in {"ringing", "voip"}
    /\ line' = [line EXCEPT ![d] = IF @ = "ringing" THEN "up" ELSE @]
    /\ next' = [next EXCEPT ![d] = "in-call"]
    /\ UNCHANGED <<attached, adbUp, known, listings, callStates, pass>>

\* Best effort: a command that fails is swallowed and the line stays as it is.
HangUp(d) ==
    /\ next[d] = "none" /\ known[d].adb # "none"
    /\ \/ UNCHANGED line
       \/ adbUp /\ d \in attached /\ line' = [line EXCEPT ![d] = "quiet"]
    /\ next' = [next EXCEPT ![d] = "online"]
    /\ UNCHANGED <<attached, adbUp, known, listings, callStates, pass>>

WritePhase(d) ==
    /\ next[d] # "none"
    /\ SetPhase(d, next[d])
    /\ next' = [next EXCEPT ![d] = "none"]
    /\ UNCHANGED <<attached, line, adbUp, listings, callStates, pass>>

-----------------------------------------------------------------------------
World == AdbFlips \/ \E d \in Devices : Replug(d) \/ LineMoves(d)
Refresh(l) == List(l) \/ Reconcile(l) \/ MarkAllOffline(l)
PollCallStates == PollBegins \/ \E d \in Devices : Skip(d) \/ Read(d) \/ Apply(d)
Work(d) == Dial(d) \/ Detect(d) \/ Answer(d) \/ HangUp(d) \/ WritePhase(d)

Next ==
    \/ World
    \/ \E l \in Slots : Refresh(l)
    \/ PollCallStates
    \/ \E d \in Devices : Work(d)

Spec == Init /\ [][Next]_vars

\* Both timers keep firing, every adb command is answered or killed by its
\* 15 s limit, and a phase about to be written is.
FairSpec ==
    /\ Spec
    /\ \A l \in Slots : WF_vars(Refresh(l))
    /\ WF_vars(PollCallStates)
    /\ \A d \in Devices : WF_vars(WritePhase(d))

-----------------------------------------------------------------------------
\* Every variable has its type, and only a phone being visited is being read.
TypeOK ==
    /\ attached \subseteq Devices
    /\ line \in [Devices -> Lines]
    /\ adbUp \in BOOLEAN
    /\ known \in [Devices -> Record]
    /\ listings \in [Slots -> [at : {"none", "answered", "failed"}, saw : SUBSET Devices]]
    /\ callStates \in [Devices -> CallStates]
    /\ pass \in [left : SUBSET Devices, saw : [Devices -> Phases \cup {"detached"}],
                 reading : Devices \cup {NoDevice}, got : CallStates]
    /\ next \in [Devices -> {"none", "incoming", "in-call", "online"}]
    /\ pass.reading \in pass.left \cup {NoDevice}

-----------------------------------------------------------------------------
\* However listings overlap, fail and are applied out of order: once a phone's
\* connection rests, its record agrees with it for good (refresh(), the
\* vanished phones of deviceManager.ts:91-106 included).
AdbSettles ==
    \A d \in Devices :
        /\ <>[](adbUp /\ d \in attached) => <>[](known[d].adb = "device")
        /\ <>[](adbUp /\ d \notin attached) => <>[](known[d].adb # "device")

\* Passes are never lost to a failed or late reading: once phone and line
\* rest, the telephony state on show is the line's (pollCallStates()).
LineSettles ==
    \A d \in Devices, l \in Lines :
        <>[](adbUp /\ d \in attached /\ line[d] = l) => <>[](callStates[d] = Telephony(l))

\* A phone at rest in the pool, with no older ring in the pass under way.
AtRest(d) ==
    /\ known[d] = [adb |-> "device", phase |-> "online"]
    /\ callStates[d] = "idle"
    /\ pass.saw[d] # "incoming"

\* A cellular call that rings on a phone at rest in the pool gets that phone
\* shown as ringing, unless the ring, the phone or adb goes first or the call
\* is taken (pollCallStates(), whichever phase and listing it races).
RingReachesThePool ==
    \A d \in Devices :
        (AtRest(d) /\ line[d] = "ringing") ~>
            (\/ known[d].phase \in {"incoming", "in-call"}
             \/ line[d] # "ringing"
             \/ known[d].adb # "device" \/ d \notin attached \/ ~adbUp)

-----------------------------------------------------------------------------
\* What runtime.ts:650-652 says, "Poll every online phone's telephony state and
\* reflect it in the device phase (ringing -> incoming, offhook -> in-call,
\* idle -> online)", of a phone that stays attached and quiet.
IdlePhoneBackInPool ==
    \A d \in Devices :
        <>[](adbUp /\ d \in attached /\ line[d] = "quiet" /\ next[d] = "none")
            => <>[](known[d].phase = "online")

\* When the cable, the adb server and the line come to rest, the records show them as they are; and a
\* ring on a phone at rest is shown while it lasts.
RecordsSettle == AdbSettles /\ LineSettles /\ RingReachesThePool
=============================================================================
