---------------------------- MODULE ManualListen ----------------------------
(* Listen: the operator hears a call of one phone.  A session for a channel,  *)
(* the one scrcpy capture that feeds the phone's sound into it, the key that  *)
(* protects the session while the phone is in a call, and the sweep that      *)
(* closes it afterwards.  The sweep's timer is the Autopilot's.               *)
EXTENDS Naturals, FiniteSets

CONSTANTS
    Channels,
    MaxStarts           \* times the operator clicks Listen

VARIABLES
    onCall,             \* the phone rings or is in a call
    listening,          \* per channel: its session is "none", "opening" or "open"
    manual,             \* manualSessions
    bridge,             \* the capture: the channel it feeds, in a set, and whether it was told to stop
    watching,           \* the watchdog's timer runs
    starts,
    cut                 \* channels whose session was swept during a call of the phone

listenVars == <<onCall, listening, manual, bridge, watching, starts, cut>>

NoBridge == [feeds |-> {}, stopping |-> FALSE]

ListenInit ==
    /\ onCall = FALSE /\ watching \in BOOLEAN
    /\ listening = [c \in Channels |-> "none"]
    /\ manual = {} /\ bridge = NoBridge /\ starts = 0 /\ cut = {}

PhaseChanges ==
    /\ onCall' = ~onCall
    /\ UNCHANGED <<listening, manual, bridge, watching, starts, cut>>

\* enable() starts the timer and disable() leaves it; a shutdown, by a reload, stops it.
WatchStarts ==
    /\ ~watching /\ watching' = TRUE
    /\ UNCHANGED <<onCall, listening, manual, bridge, starts, cut>>

WatchStops ==
    /\ watching /\ watching' = FALSE
    /\ UNCHANGED <<onCall, listening, manual, bridge, starts, cut>>

----------------------------------------------------------------------------
\* A key that is taken is refused by the manager, and the failure takes the key's protection away.
StartSession(c) ==
    /\ onCall /\ starts < MaxStarts
    /\ starts' = starts + 1
    /\ IF listening[c] = "none"
       THEN /\ listening' = [listening EXCEPT ![c] = "opening"]
            /\ manual' = manual \union {c}
       ELSE /\ manual' = manual \ {c}
            /\ UNCHANGED listening
    /\ UNCHANGED <<onCall, bridge, watching, cut>>

\* The session is open; the capture is attached unless one is there, or scrcpy is not.
Opened(c) ==
    /\ listening[c] = "opening"
    /\ listening' = [listening EXCEPT ![c] = "open"]
    /\ \/ bridge.feeds = {} /\ bridge' = [NoBridge EXCEPT !.feeds = {c}]
       \/ UNCHANGED bridge
    /\ UNCHANGED <<onCall, manual, watching, starts, cut>>

OpenFails(c) ==
    /\ listening[c] = "opening"
    /\ listening' = [listening EXCEPT ![c] = "none"]
    /\ manual' = manual \ {c}
    /\ UNCHANGED <<onCall, bridge, watching, starts, cut>>

StopSession(c) ==
    /\ listening[c] # "none" \/ c \in manual
    /\ listening' = [listening EXCEPT ![c] = "none"]
    /\ manual' = manual \ {c}
    /\ bridge' = IF bridge.feeds = {c} THEN [bridge EXCEPT !.stopping = TRUE] ELSE bridge
    /\ UNCHANGED <<onCall, watching, starts, cut>>

\* The server ends the session, or its connection breaks.
SessionLost(c) ==
    /\ listening[c] = "open"
    /\ listening' = [listening EXCEPT ![c] = "none"]
    /\ UNCHANGED <<onCall, manual, bridge, watching, starts, cut>>

\* scrcpy has gone: because it was told to, or by itself.
BridgeExits ==
    /\ bridge.feeds # {}
    /\ bridge' = NoBridge
    /\ UNCHANGED <<onCall, listening, manual, watching, starts, cut>>

----------------------------------------------------------------------------
\* isSessionSweepable
Sweepable(c) == ~(c \in manual /\ onCall)

Sweep ==
    /\ watching
    /\ \E c \in Channels : listening[c] # "none" /\ Sweepable(c)
    /\ listening' = [c \in Channels |-> IF Sweepable(c) THEN "none" ELSE listening[c]]
    \* a session that was still connecting is refused, and gives its key back
    /\ manual' = manual \ {c \in Channels : listening[c] = "opening" /\ Sweepable(c)}
    /\ cut' = IF onCall THEN cut \union {c \in Channels : listening[c] # "none" /\ Sweepable(c)}
              ELSE cut
    /\ UNCHANGED <<onCall, bridge, watching, starts>>

ListenNext ==
    \/ PhaseChanges \/ WatchStarts \/ WatchStops \/ BridgeExits \/ Sweep
    \/ \E c \in Channels :
        StartSession(c) \/ Opened(c) \/ OpenFails(c) \/ StopSession(c) \/ SessionLost(c)

\* The sweep's interval fires while it is set; scrcpy exits once it is told to; a connection is
\* made or refused in bounded time.
ListenFairness ==
    /\ WF_listenVars(Sweep)
    /\ WF_listenVars(bridge.stopping /\ BridgeExits)
    /\ \A c \in Channels : WF_listenVars(Opened(c) \/ OpenFails(c))

ListenSpec == ListenInit /\ [][ListenNext]_listenVars /\ ListenFairness

----------------------------------------------------------------------------
(* Properties *)

SomeListen == \E c \in Channels : listening[c] # "none"

\* With the sweep at work, no session outlives the call it was opened for by more than a sweep
\* (runtime.ts:344-347), whatever was clicked meanwhile.
IdleListenSwept == (SomeListen /\ ~onCall /\ watching) ~> (~SomeListen \/ onCall \/ ~watching)

\* "A Listen session is open only while the device is ringing or on a call; once the phase returns
\* to online the watchdog's stray sweep closes it" (runtime.ts:171-172).
IdleListenCloses == (SomeListen /\ ~onCall) ~> (~SomeListen \/ onCall)

\* "Membership here is what keeps a session *on* a call from being swept as stray"
\* (runtime.ts:172-173).
ListenSurvivesCall == cut = {}
=============================================================================
