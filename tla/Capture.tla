------------------------------- MODULE Capture ------------------------------
(***************************************************************************)
(* The far end of one call: ScrcpyAudioCapture                             *)
(* (packages/orchestrator/src/scrcpyCapture.ts) tries the audio sources of *)
(* a phone, best first, each through a ScrcpyBridge of its own             *)
(* (packages/scrcpy-bridge/src/bridge.ts), which runs one scrcpy process   *)
(* and reads what it records from a pipe.  All of them are given the same  *)
(* sink, the call's RemoteInStream.                                        *)
(***************************************************************************)
EXTENDS Naturals, FiniteSets

CONSTANT MaxSources         \* the length of REMOTE_IN_SOURCES

ASSUME SourcesAssumption == MaxSources \in Nat \ {0}

Sources == 1..MaxSources

VARIABLES
    pinned,         \* an operator's override: one candidate, and no fallback
    stage,          \* of the call: "answered", "starting", "live", "over"
    trying,         \* the source whose bridge tryStart() watches, in a set
    process,        \* scrcpy: "none", "running", "stopping", "unborn", "exited", "finished"
    headerRead,     \* sources whose format has been parsed
    unread,         \* sources with bytes in their pipe
    handle,         \* the bridge the call was given, in a set
    enders,         \* who called end() on the sink: sources, or 0 for the call
    heardFrom,      \* sources whose samples the sink took
    refused         \* sources whose samples came after its end: push() throws

captureVars == <<pinned, stage, trying, process, headerRead, unread, handle, enders, heardFrom, refused>>
sink == <<enders, heardFrom, refused>>

Candidates == IF pinned THEN {1} ELSE Sources
Alive(s) == process[s] \in {"running", "stopping"}
Ended == enders # {}

CaptureInit ==
    /\ pinned \in BOOLEAN
    /\ stage = "answered"
    /\ trying = {} /\ handle = {}
    /\ process = [s \in Sources |-> "none"]
    /\ headerRead = {} /\ unread = {}
    /\ enders = {} /\ heardFrom = {} /\ refused = {}

-----------------------------------------------------------------------------
(* One attempt after the other. *)

\* stop(): SIGTERM, once, to a process that still runs.
Stopped(p, s) == IF p[s] = "running" THEN [p EXCEPT ![s] = "stopping"] ELSE p
Started(p, s) == [p EXCEPT ![s] = "running"]

\* start(): the first candidate.
BeginCapture ==
    /\ stage = "answered"
    /\ stage' = "starting"
    /\ trying' = {1}
    /\ process' = Started(process, 1)
    /\ UNCHANGED <<pinned, headerRead, unread, handle, sink>>

\* fail(): on to the next candidate, or, when none is left, start() throws and the call is taken down,
\* which ends its audio session and with it the sink.  `p' is what has become of the processes.
GiveUp(s, p, ends) ==
    LET stopped == Stopped(p, s)
    IN IF s + 1 \in Candidates
       THEN /\ trying' = {s + 1} /\ process' = Started(stopped, s + 1)
            /\ enders' = ends
            /\ UNCHANGED stage
       ELSE /\ trying' = {} /\ process' = stopped
            /\ enders' = ends \cup {0}
            /\ stage' = "over"

\* What happens to a source matters to tryStart() only while it is the one being tried.
Lost(s, p, ends) ==
    IF s \in trying THEN GiveUp(s, p, ends)
    ELSE process' = p /\ enders' = ends /\ UNCHANGED <<stage, trying>>

StartTimesOut ==
    \E s \in trying :
        /\ GiveUp(s, process, enders)
        /\ UNCHANGED <<pinned, headerRead, unread, handle, heardFrom, refused>>

\* A line of scrcpy's that begins with ERROR or WARN.
ErrorLine(s) ==
    /\ Alive(s)
    /\ Lost(s, process, enders)
    /\ UNCHANGED <<pinned, headerRead, unread, handle, heardFrom, refused>>

\* The binary is missing: an error, and perhaps a close event after it.
SpawnError(s) ==
    /\ process[s] = "running" /\ s \notin headerRead \cup unread
    /\ Lost(s, [process EXCEPT ![s] = "unborn"], enders)
    /\ UNCHANGED <<pinned, headerRead, unread, handle, heardFrom, refused>>

-----------------------------------------------------------------------------
(* Bytes. *)

Records(s) ==
    /\ Alive(s)
    /\ unread' = unread \cup {s}
    /\ UNCHANGED <<pinned, stage, trying, process, headerRead, handle, sink>>

Takes(s) ==
    IF Ended THEN refused' = refused \cup {s} /\ UNCHANGED heardFrom
    ELSE heardFrom' = heardFrom \cup {s} /\ UNCHANGED refused

\* consume(): the header makes the source the one, and what follows it are samples.
ReadHeader(s) ==
    /\ s \in unread \ headerRead
    /\ unread' = unread \ {s}
    /\ headerRead' = headerRead \cup {s}
    /\ IF s \in trying THEN stage' = "live" /\ trying' = {} /\ handle' = {s}
       ELSE UNCHANGED <<stage, trying, handle>>
    /\ UNCHANGED <<pinned, process, sink>>

ReadSamples(s) ==
    /\ s \in unread \cap headerRead
    /\ unread' = unread \ {s}
    /\ Takes(s)
    /\ UNCHANGED <<pinned, stage, trying, process, headerRead, handle, enders>>

\* What came is not WAV: an error, and the process is stopped.
ReadGarbage(s) ==
    /\ s \in unread \ headerRead
    /\ unread' = unread \ {s}
    /\ Lost(s, Stopped(process, s), enders)
    /\ UNCHANGED <<pinned, headerRead, handle, heardFrom, refused>>

-----------------------------------------------------------------------------
(* Endings. *)

ProcessExits(s) ==
    /\ Alive(s) \/ process[s] = "unborn"
    /\ process' = [process EXCEPT ![s] = "exited"]
    /\ UNCHANGED <<pinned, stage, trying, headerRead, unread, handle, sink>>

\* finish(): once the pipe has been quiet, the bridge ends its sink and says that it is done.
EndsSink(s) == enders \cup {s}
FinishRun_Once(s) ==
    /\ process[s] = "exited" /\ s \notin unread /\ ~Ended
    /\ Lost(s, [process EXCEPT ![s] = "finished"], EndsSink(s))
    /\ UNCHANGED <<pinned, headerRead, unread, handle, heardFrom, refused>>

FinishRun(s) ==
    /\ process[s] = "exited" /\ s \notin unread
    /\ Lost(s, [process EXCEPT ![s] = "finished"], EndsSink(s))
    /\ UNCHANGED <<pinned, headerRead, unread, handle, heardFrom, refused>>

\* teardown(): the capture is told to stop, and the audio session is closed without waiting for it.
StopHandle == IF handle = {} THEN process ELSE Stopped(process, CHOOSE s \in handle : TRUE)
CallEnds ==
    /\ stage = "live"
    /\ stage' = "over"
    /\ process' = StopHandle
    /\ enders' = enders \cup {0}
    /\ UNCHANGED <<pinned, trying, headerRead, unread, handle, heardFrom, refused>>

CaptureNext ==
    \/ BeginCapture \/ StartTimesOut \/ CallEnds
    \/ \E s \in Sources :
        \/ ErrorLine(s) \/ SpawnError(s) \/ Records(s)
        \/ ReadHeader(s) \/ ReadSamples(s) \/ ReadGarbage(s)
        \/ ProcessExits(s) \/ FinishRun(s)

CaptureSpec == CaptureInit /\ [][CaptureNext]_captureVars

-----------------------------------------------------------------------------
(* Properties. *)

\* One process at a time is left to run: every source that was given up, lost its handle or outlived
\* its call has been told to stop, so that no phone is recorded by a capture nobody holds.
OnlyOneRuns ==
    /\ Cardinality({s \in Sources : process[s] = "running"}) <= 1
    /\ \A s \in Sources : process[s] = "running" => s \in trying \cup handle
    /\ stage = "over" => \A s \in Sources : process[s] # "running"

\* An operator's source is the only one that is ever recorded.
PinIsKept == pinned => \A s \in Sources \ {1} : process[s] = "none"

\* Whatever the sources do, the call learns before long whether it can hear.
CaptureSettles == stage = "starting" ~> stage \in {"live", "over"}

\* Every process that was told to stop is gone in the end, and its pipe with it.
ProcessesGo == \A s \in Sources : process[s] = "stopping" ~> process[s] = "finished"

\* scrcpyCapture.ts:6: it "walks the preference list until one works": a call that starts on a later
\* source hears it.
FallbackIsHeard == stage = "live" /\ (\A s \in handle : process[s] = "running") => ~Ended
=============================================================================
