--------------------------- MODULE RealtimeStream ---------------------------
(***************************************************************************)
(* packages/aai-client/src/realtime.ts: one stream, from connect() to the  *)
(* close event that its owner hears.  A stream is connected once: its      *)
(* socket is only given back by destroy(), which the owner, the session    *)
(* manager, keeps for a close() that throws, and none does.  Closing       *)
(* always asks for the Termination, as the manager does.                   *)
(*                                                                         *)
(* The socket is that of the `ws' package.  It emits "error", a tick       *)
(* later, for a handshake that was broken off, and an "error" that nobody  *)
(* listens to ends the process: voiceAgent.ts:848-856 tells of both.       *)
(***************************************************************************)
EXTENDS RetryPolicy

CONSTANTS
    StreamRates,        \* RealtimeParams.sampleRate
    MaxCloseCalls,      \* bound: calls of close()
    MaxTold             \* bound: messages of the server

\* The rates a line may ask for.
LegalRates == 8000..96000

ASSUME StreamAssumption ==
    /\ StreamRates \subseteq LegalRates
    /\ MaxCloseCalls \in Nat /\ MaxTold \in Nat

VARIABLES
    streamRate, chunkBytes,
    wireIs,         \* readyState of the socket; "none" before connect(); CLOSING is "closing"
                    \* if we began it and "left" if the service did, or the network
    streamState,    \* RealtimeStream._state
    errorHeard,     \* the socket has an "error" listener
    connectIs,      \* connect()'s promise: "none", "pending", "resolved", "rejected"
    begun,          \* Begin has come
    terminateSent,
    inClose,        \* calls of close() that await the Termination
    closeCalls,     \* calls of close() made
    told,           \* what the owner was told, oldest first
    closedBy,       \* the code of the socket's end, or 0
    alive           \* the process is there

wireVars == <<wireIs, errorHeard, connectIs>>
streamVars == <<streamRate, chunkBytes, wireVars, streamState, begun, terminateSent, inClose,
                closeCalls, told, closedBy, alive>>

AtLeast(a, b) == IF a > b THEN a ELSE b

StreamInit ==
    /\ streamRate \in StreamRates
    /\ chunkBytes = AtLeast(1600, (streamRate * 2) \div 10)
    /\ wireIs = "none" /\ streamState = "closed" /\ errorHeard = FALSE
    /\ connectIs = "none" /\ begun = FALSE /\ terminateSent = FALSE
    /\ inClose = 0 /\ closeCalls = 0 /\ told = <<>> /\ closedBy = 0 /\ alive = TRUE

-----------------------------------------------------------------------------
(* connect() *)

StreamConnect ==
    /\ alive /\ wireIs = "none"
    /\ wireIs' = "connecting" /\ streamState' = "connecting"
    /\ errorHeard' = TRUE /\ connectIs' = "pending"
    /\ UNCHANGED <<streamRate, chunkBytes, begun, terminateSent, inClose, closeCalls, told, closedBy, alive>>

\* onOpen: connect() resolves, and cleanup() takes the "error" listener off for good.
StreamOpens ==
    /\ alive /\ wireIs = "connecting"
    /\ wireIs' = "open" /\ streamState' = "open"
    /\ errorHeard' = FALSE /\ connectIs' = "resolved"
    /\ told' = Append(told, "open")
    /\ UNCHANGED <<streamRate, chunkBytes, begun, terminateSent, inClose, closeCalls, closedBy, alive>>

\* onError, and the "close" that follows it in the same job.
HandshakeFails ==
    /\ alive /\ wireIs = "connecting"
    /\ wireIs' = "closed" /\ streamState' = "closed"
    /\ errorHeard' = FALSE /\ connectIs' = "rejected"
    /\ told' = told \o <<"error", "close">> /\ closedBy' = 1006
    /\ UNCHANGED <<streamRate, chunkBytes, begun, terminateSent, inClose, closeCalls, alive>>

-----------------------------------------------------------------------------
(* handleMessage() and handleClose() *)

\* Begin, with a warning when the model served is not the one asked for.
Begins(served) ==
    /\ alive /\ wireIs = "open" /\ ~begun
    /\ begun' = TRUE
    /\ told' = told \o (IF served THEN <<"begin">> ELSE <<"warn", "begin">>)
    /\ UNCHANGED <<streamRate, chunkBytes, wireVars, streamState, terminateSent, inClose, closeCalls,
                   closedBy, alive>>

\* Any other message is an event; an Error frame is an error, and what cannot be read a notice.
Relays(event) ==
    /\ alive /\ wireIs \in {"open", "closing"} /\ connectIs = "resolved"
    /\ Len(told) < MaxTold
    /\ told' = Append(told, event)
    /\ UNCHANGED <<streamRate, chunkBytes, wireVars, streamState, begun, terminateSent, inClose,
                   closeCalls, closedBy, alive>>

\* Termination: each close() goes on behind its await, and the first one closes the socket
\* if it is still open.
Terminated ==
    /\ alive /\ wireIs \in {"open", "closing"} /\ inClose > 0
    /\ told' = Append(told, "termination")
    /\ inClose' = 0 /\ wireIs' = "closing" /\ streamState' = "closed"
    /\ UNCHANGED <<streamRate, chunkBytes, errorHeard, connectIs, begun, terminateSent, closeCalls,
                   closedBy, alive>>

\* The codes that have a meaning of their own are told before the end is.
IsNamed(code) == code \in {1008, 3005, 3006, 3008, 3009}
Report(code) ==
    CASE IsNamed(code) -> <<"error", "close">>
      [] AdjustChunkSize(code) -> <<"warn", "notice", "close">>
      [] OTHER -> <<"close">>

\* After a 3007 the recommended chunk is half as long, and not below 50 ms in whole bytes.
Corrected == AtLeast(AtLeast(64, streamRate \div 10), chunkBytes \div 2)

\* The service begins the close, or the connection breaks: the socket is CLOSING, nothing
\* comes or goes over it any more, and nobody is told before it is closed.
PeerLeaves ==
    /\ alive /\ wireIs = "open"
    /\ wireIs' = "left"
    /\ UNCHANGED <<streamRate, chunkBytes, streamState, errorHeard, connectIs, begun, terminateSent,
                   inClose, closeCalls, told, closedBy, alive>>

\* The socket is closed, at whichever end that began; whoever is in close() goes on.
StreamCloses(code) ==
    /\ alive /\ wireIs \in {"left", "closing"}
    /\ wireIs' = "closed" /\ streamState' = "closed" /\ closedBy' = code
    /\ chunkBytes' = IF AdjustChunkSize(code) THEN Corrected ELSE chunkBytes
    /\ told' = told \o Report(code)
    /\ inClose' = 0
    /\ UNCHANGED <<streamRate, errorHeard, connectIs, begun, terminateSent, closeCalls, alive>>

\* The socket emits an "error" to nobody: for a handshake that was broken off, or a frame that
\* is against the protocol.
ErrorUnheard ==
    /\ alive /\ ~errorHeard
    /\ wireIs \in {"open", "closing"}
    /\ alive' = FALSE
    /\ UNCHANGED <<streamRate, chunkBytes, wireVars, streamState, begun, terminateSent, inClose,
                   closeCalls, told, closedBy>>

-----------------------------------------------------------------------------
(* close() *)

AskTermination ==
    /\ wireIs = "open"
    /\ streamState' = "terminating" /\ terminateSent' = TRUE /\ inClose' = inClose + 1
    /\ UNCHANGED wireVars

\* connectReject() takes the listeners off, the one for "error" too.
BreakOff ==
    /\ wireIs = "connecting"
    /\ wireIs' = "closing" /\ streamState' = "closed"
    /\ errorHeard' = FALSE /\ connectIs' = "rejected"
    /\ UNCHANGED <<terminateSent, inClose>>

NothingToClose ==
    /\ wireIs \notin {"open", "connecting"}
    /\ streamState' = "closed"
    /\ UNCHANGED <<wireVars, terminateSent, inClose>>

StreamClose ==
    /\ alive /\ closeCalls < MaxCloseCalls
    /\ closeCalls' = closeCalls + 1
    /\ AskTermination \/ BreakOff \/ NothingToClose
    /\ UNCHANGED <<streamRate, chunkBytes, begun, told, closedBy, alive>>

\* The 8 s of one of them are over.
GivesUpWaiting ==
    /\ alive /\ inClose > 0
    /\ inClose' = inClose - 1
    /\ told' = Append(told, "warn")
    /\ wireIs' = IF wireIs = "open" THEN "closing" ELSE wireIs
    /\ streamState' = "closed"
    /\ UNCHANGED <<streamRate, chunkBytes, errorHeard, connectIs, begun, terminateSent, closeCalls,
                   closedBy, alive>>

\* 410 is an answer to the handshake and no code of a socket.
StreamNext ==
    \/ StreamConnect \/ StreamOpens \/ HandshakeFails
    \/ \E served \in BOOLEAN : Begins(served)
    \/ \E event \in {"event", "error", "notice"} : Relays(event)
    \/ Terminated \/ PeerLeaves
    \/ \E code \in Codes \ {410} : StreamCloses(code)
    \/ ErrorUnheard
    \/ StreamClose \/ GivesUpWaiting

StreamSpec == StreamInit /\ [][StreamNext]_streamVars

-----------------------------------------------------------------------------
(* Properties *)

Count(event) == Cardinality({i \in DOMAIN told : told[i] = event})

StreamTypeOK ==
    /\ wireIs \in {"none", "connecting", "open", "left", "closing", "closed"}
    /\ streamState \in {"connecting", "open", "terminating", "closed"}
    /\ (connectIs = "none") = (wireIs = "none")
    /\ inClose \in 0..closeCalls

\* The state that is shown is true, but for the moment between the service's close and the end of the
\* socket: "open" and "terminating" only of a socket that we have not closed, the latter only while
\* somebody waits for the Termination; an ended socket leaves nobody waiting.
StateIsTrue ==
    /\ streamState = "open" => wireIs \in {"open", "left"} /\ inClose = 0
    /\ streamState = "terminating" => wireIs \in {"open", "left"} /\ inClose > 0
    /\ wireIs = "closed" => inClose = 0 /\ connectIs # "pending"

\* The owner is told of the end of a socket once, last, and of every end; it frees the slot by it
\* (manager.ts:226).
EndIsTold ==
    /\ wireIs = "closed" <=> Count("close") = 1
    /\ Count("close") > 0 => Count("close") = 1 /\ told[Len(told)] = "close"

\* What the reconnect policy calls fatal, and what it says wants more patience, was told as an
\* error first (realtime.ts:96: "an irrecoverable stream failure is emitted on `error`").
FatalIsTold ==
    closedBy # 0 /\ (Fatal(closedBy) \/ Capacity(closedBy)) => Count("error") > 0

\* The recommended chunk lasts from 50 to 1000 ms (docs/DECISIONS.md:70), which is streamRate / 10
\* bytes of 16-bit samples and 2 * streamRate.  That is not so at every rate: the correction rounds
\* down, and at 11025 Hz leaves 1102 bytes, which are 49.98 ms.
ChunkIsLegal == chunkBytes * 10 >= streamRate /\ chunkBytes <= 2 * streamRate

\* However often it is corrected, the recommended chunk is not above 1000 ms, less than a byte short
\* of 50 ms at any rate, and not short of them where 50 ms are a whole number of bytes.
ChunkIsLegalToAByte ==
    /\ chunkBytes <= 2 * streamRate
    /\ (chunkBytes + 1) * 10 > streamRate
    /\ streamRate % 10 = 0 => ChunkIsLegal

\* An open socket that we close was sent Terminate.
ClosedWithTerminate ==
    wireIs = "closing" /\ connectIs = "resolved" => terminateSent

StreamIsHonest ==
    StreamTypeOK /\ StateIsTrue /\ EndIsTold /\ FatalIsTold /\ ChunkIsLegalToAByte /\ ClosedWithTerminate

\* manager.ts:193: "without being able to kill the host process": broken by ErrorUnheard.
NothingKillsTheProcess == alive

\* connect() settles and every close() returns, though the server says nothing.
StreamSettles ==
    /\ connectIs = "pending" ~> connectIs # "pending"
    /\ inClose > 0 ~> inClose = 0 \/ ~alive
=============================================================================
