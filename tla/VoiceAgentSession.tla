-------------------------- MODULE VoiceAgentSession -------------------------
(***************************************************************************)
(* packages/aai-client/src/voiceAgent.ts: one Voice Agent conversation     *)
(* over a WebSocket.  connect() and resume() settle on session.ready or on *)
(* whatever ends the socket first; close() asks the service for its last   *)
(* word before it lets go.  A session object may be connected again, each  *)
(* time over a socket of its own: socket n belongs to connection n.        *)
(***************************************************************************)
EXTENDS Naturals, Sequences, FiniteSets

CONSTANTS
    MaxSockets,     \* bound: connections of one session object
    MaxClosers,     \* bound: calls of close()
    Reconnecting    \* the owner connects again although a close() is waiting

ASSUME VoiceAssumption ==
    /\ MaxSockets \in Nat /\ MaxClosers \in Nat
    /\ Reconnecting \in BOOLEAN

Sockets == 1..MaxSockets
NoSocket == 0

VARIABLES
    wire,           \* a socket: "none", "connecting", "open", "closing" (by us), "gone"
    ws,             \* the session's socket
    vaState,        \* VoiceAgentSession._state
    everReady,
    promise,        \* what connect() returned: "none", "pending", "resolved", "rejected"
    readyTimer,
    closeEvents,    \* "close" events emitted for a connection
    late,           \* the kinds of events emitted for a connection after its "close"
    closers         \* the calls of close() that await session.ended: whose socket,
                    \* and whether it has come or its time is up

vaVars == <<wire, ws, vaState, everReady, promise, readyTimer, closeEvents, late, closers>>

VaInit ==
    /\ wire = [n \in Sockets |-> "none"]
    /\ ws = NoSocket /\ vaState = "idle" /\ everReady = FALSE
    /\ promise = [n \in Sockets |-> "none"] /\ readyTimer = FALSE
    /\ closeEvents = [n \in Sockets |-> 0] /\ late = {}
    /\ closers = <<>>

Live(n) == wire[n] \in {"connecting", "open"}
Pending == ws # NoSocket /\ promise[ws] = "pending"

\* Events of a socket reach the session while its listeners are on it.
Listening(n) == ws = n
\* An event of the session, on account of socket n.
Emitted(n, kind) == late' = IF closeEvents[n] > 0 THEN late \cup {kind} ELSE late

-----------------------------------------------------------------------------
\* finalize(): once per connection.  It lets go of the socket, rejects a connect()
\* that still waits, and says "close".
Finalize ==
    IF ws = NoSocket
    THEN UNCHANGED <<ws, readyTimer, vaState, promise, closeEvents>>
    ELSE /\ ws' = NoSocket /\ readyTimer' = FALSE
         /\ vaState' = IF vaState = "error" THEN "error" ELSE "closed"
         /\ promise' = IF Pending THEN [promise EXCEPT ![ws] = "rejected"] ELSE promise
         /\ closeEvents' = [closeEvents EXCEPT ![ws] = @ + 1]

\* A failure of the handshake itself leaves "error" behind.
FinalizeFailed ==
    /\ ws' = NoSocket /\ readyTimer' = FALSE
    /\ vaState' = IF Pending \/ vaState = "error" THEN "error" ELSE "closed"
    /\ promise' = IF Pending THEN [promise EXCEPT ![ws] = "rejected"] ELSE promise
    /\ closeEvents' = [closeEvents EXCEPT ![ws] = @ + 1]

\* connect() and resume(), through openSocket().
VaConnect(n) ==
    /\ ws = NoSocket
    /\ wire[n] = "none" /\ (n > 1 => wire[n - 1] # "none")
    /\ Reconnecting \/ closers = <<>>
    /\ wire' = [wire EXCEPT ![n] = "connecting"]
    /\ ws' = n /\ everReady' = FALSE /\ vaState' = "connecting" /\ readyTimer' = TRUE
    /\ promise' = [promise EXCEPT ![n] = "pending"]
    /\ UNCHANGED <<closeEvents, late, closers>>

\* The socket opens.  "open" is emitted, then the configuration is sent.
VaOpens(n) ==
    /\ Listening(n) /\ wire[n] = "connecting"
    /\ wire' = [wire EXCEPT ![n] = "open"]
    /\ vaState' = "configuring"
    /\ Emitted(n, "open")
    /\ UNCHANGED <<ws, everReady, promise, readyTimer, closeEvents, closers>>

\* session.ready: what the caller of connect() waits for.
VaReady(n) ==
    /\ Listening(n) /\ wire[n] = "open" /\ vaState = "configuring"
    /\ vaState' = "ready" /\ everReady' = TRUE
    /\ promise' = IF Pending THEN [promise EXCEPT ![n] = "resolved"] ELSE promise
    /\ readyTimer' = FALSE
    /\ Emitted(n, "ready")
    /\ UNCHANGED <<wire, ws, closeEvents, closers>>

\* Any other frame of the service is handed on as an event, and so is one that
\* nobody can read.
VaRelay(n) ==
    /\ Listening(n) /\ wire[n] \in {"open", "closing"}
    /\ Emitted(n, "frame")
    /\ UNCHANGED <<wire, ws, vaState, everReady, promise, readyTimer, closeEvents, closers>>

\* session.error instead of session.ready: the socket is not left behind.
VaRefused_Left(n) ==
    /\ Listening(n) /\ wire[n] = "open" /\ Pending
    /\ FinalizeFailed
    /\ UNCHANGED <<wire, everReady, late, closers>>

VaRefused(n) ==
    /\ Listening(n) /\ wire[n] = "open" /\ Pending
    /\ FinalizeFailed
    /\ wire' = [wire EXCEPT ![n] = "gone"]
    /\ UNCHANGED <<everReady, late, closers>>

\* An "error" of the socket, which its "close" follows.
VaSocketError(n) ==
    /\ Listening(n) /\ Live(n)
    /\ IF Pending
       THEN /\ vaState' = "error" /\ readyTimer' = FALSE
            /\ promise' = [promise EXCEPT ![n] = "rejected"]
            /\ UNCHANGED late
       ELSE Emitted(n, "error") /\ UNCHANGED <<vaState, readyTimer, promise>>
    /\ UNCHANGED <<wire, ws, everReady, closeEvents, closers>>

\* The socket is closed, by the service or by us.  A close() that waits on it for
\* session.ended has its answer, unless it was taken off the socket.
VaSocketCloses(n) ==
    /\ wire[n] \in {"connecting", "open", "closing"}
    /\ wire' = [wire EXCEPT ![n] = "gone"]
    /\ IF Listening(n)
       THEN /\ FinalizeFailed
            /\ closers' = [i \in DOMAIN closers |->
                              IF closers[i].on = n THEN [closers[i] EXCEPT !.over = TRUE] ELSE closers[i]]
       ELSE UNCHANGED <<ws, readyTimer, vaState, promise, closeEvents, closers>>
    /\ UNCHANGED <<everReady, late>>

\* No session.ready in readyTimeoutMs.
VaReadyTimeout ==
    /\ readyTimer /\ ws # NoSocket
    /\ FinalizeFailed
    /\ wire' = [wire EXCEPT ![ws] = "gone"]
    /\ UNCHANGED <<everReady, late, closers>>

-----------------------------------------------------------------------------
\* close(): nothing to close; or session.end is sent and its answer awaited; or the
\* socket is closed at once: before session.ready, by force, or while another
\* close() is waiting.
VaClose(force) ==
    /\ ws # NoSocket
    /\ IF everReady /\ wire[ws] = "open" /\ vaState # "ending" /\ ~force
       THEN /\ Len(closers) < MaxClosers
            /\ vaState' = "ending"
            /\ closers' = Append(closers, [on |-> ws, over |-> FALSE])
            /\ UNCHANGED <<wire, ws, readyTimer, promise, closeEvents>>
       ELSE /\ wire' = IF Live(ws) THEN [wire EXCEPT ![ws] = "closing"] ELSE wire
            /\ Finalize
            /\ UNCHANGED closers
    /\ UNCHANGED <<everReady, late>>

\* session.ended: each waiting close() has its answer.
VaEnded(n) ==
    /\ Listening(n) /\ wire[n] = "open" /\ vaState = "ending"
    /\ closers' = [i \in DOMAIN closers |-> [closers[i] EXCEPT !.over = TRUE]]
    /\ Emitted(n, "ended")
    /\ UNCHANGED <<wire, ws, vaState, everReady, promise, readyTimer, closeEvents>>

VaEndTimeout_OnClose(i) ==
    /\ ~closers[i].over /\ wire[closers[i].on] = "gone"
    /\ closers' = [closers EXCEPT ![i].over = TRUE]
    /\ Emitted(closers[i].on, "warn")
    /\ UNCHANGED <<wire, ws, vaState, everReady, promise, readyTimer, closeEvents>>

\* endTimeoutMs are over.  Nobody but the answer clears this timer: another close() or
\* destroy() may have let go of the socket and said "close" meanwhile, and the
\* warning is emitted all the same.
VaEndTimeout(i) ==
    /\ ~closers[i].over
    /\ closers' = [closers EXCEPT ![i].over = TRUE]
    /\ Emitted(closers[i].on, "warn")
    /\ UNCHANGED <<wire, ws, vaState, everReady, promise, readyTimer, closeEvents>>

\* The rest of close(): it closes the socket it was called on and finalizes the
\* session as it is now.
VaCloses ==
    /\ closers # <<>> /\ Head(closers).over
    /\ LET n == Head(closers).on IN
       wire' = IF Live(n) THEN [wire EXCEPT ![n] = "closing"] ELSE wire
    /\ Finalize
    /\ closers' = Tail(closers)
    /\ UNCHANGED <<everReady, late>>

VaDestroy ==
    /\ ws # NoSocket
    /\ wire' = [wire EXCEPT ![ws] = "gone"]
    /\ Finalize
    /\ UNCHANGED <<everReady, late, closers>>

VaNext ==
    \/ \E n \in Sockets : VaConnect(n) \/ VaOpens(n) \/ VaReady(n) \/ VaRelay(n) \/ VaRefused(n)
    \/ \E n \in Sockets : VaSocketError(n) \/ VaSocketCloses(n) \/ VaEnded(n)
    \/ \E force \in BOOLEAN : VaClose(force)
    \/ \E i \in DOMAIN closers : VaEndTimeout(i)
    \/ VaReadyTimeout \/ VaCloses \/ VaDestroy

VaSpec == VaInit /\ [][VaNext]_vaVars

\* Timers fire; a socket that failed, or that we close, is closed in the end.
VaSocketGoes(n) == (wire[n] = "closing" \/ (vaState = "error" /\ ws = n)) /\ VaSocketCloses(n)

-----------------------------------------------------------------------------
\* Types; and the session's state agrees with its socket and its timer.
VaTypeOK ==
    /\ wire \in [Sockets -> {"none", "connecting", "open", "closing", "gone"}]
    /\ ws \in Sockets \cup {NoSocket}
    /\ vaState \in {"idle", "connecting", "configuring", "ready", "ending", "closed", "error"}
    /\ promise \in [Sockets -> {"none", "pending", "resolved", "rejected"}]
    /\ readyTimer => Pending
    /\ vaState \in {"ready", "ending"} => everReady /\ ws # NoSocket
    /\ ws = NoSocket => vaState \in {"idle", "closed", "error"}

\* No socket is left open behind the session's back: whatever refuses, times out or
\* is closed, in any order, the service is not left with a conversation that is
\* billed and that nobody can end (voiceAgent.ts finalize(): "exactly once per
\* connection").
NoOrphanSocket == \A n \in Sockets : Live(n) => ws = n

\* "close" is said once for each connection, however many ends it comes to (finalize():
\* "emitted a single time"), and of what the service or the socket did nothing is told
\* behind it.  What may follow it is the warning of a close() that was still waiting
\* when another one, or destroy(), let go of the socket.
CloseEndsTheTale ==
    /\ \A n \in Sockets : closeEvents[n] <= 1
    /\ late \subseteq {"warn"}

\* Every connect() settles, also one that is closed or destroyed during the
\* handshake (finalize(): nothing can deliver session.ready any more).
ConnectSettles == \A n \in Sockets : promise[n] = "pending" ~> promise[n] # "pending"

\* A session that has asked for its end comes to it, though the service keeps
\* silent: close() is bounded.
EndingEnds == vaState = "ending" ~> ws = NoSocket

\* Every socket has one owner who can end it, and its end is said once, behind all that came from it.
SocketsAreOwned == VaTypeOK /\ NoOrphanSocket /\ CloseEndsTheTale
=============================================================================
