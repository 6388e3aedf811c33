--------------------------- MODULE SessionManager ---------------------------
(***************************************************************************)
(* RealtimeSessionManager (packages/aai-client/src/manager.ts) together    *)
(* with the connect / close slice of the RealtimeStream it drives          *)
(* (packages/aai-client/src/realtime.ts).                                  *)
(*                                                                         *)
(* One element of Opens is one call of open(): it creates at most one      *)
(* stream, so the call also names the stream, its socket and its           *)
(* ManagedSession record.  An action is one job of the event loop.  The    *)
(* continuations of an await are microtasks and run before the next socket *)
(* event or timer (NoMicrotask); calls of open() and close() may be made   *)
(* from anywhere, a microtask included.                                    *)
(***************************************************************************)
EXTENDS Integers, Sequences, FiniteSets

CONSTANTS
    Opens,          \* calls of open()
    Keys,           \* session keys (deviceId, channelId)
    MaxConcurrent,  \* opts.maxConcurrent
    TempToken,      \* auth mode: TRUE mints a token first, FALSE is "server-key"
    MaxCloses,      \* bound: close() calls in flight on one stream
    None            \* no session under a key

ASSUME SessionAssumption ==
    /\ IsFiniteSet(Keys)
    /\ MaxConcurrent \in Nat \ {0}
    /\ MaxCloses \in Nat \ {0}
    /\ TempToken \in BOOLEAN
    /\ None \notin Opens

VARIABLES
    pc,         \* where each open() call stands
    key,        \* the key each open() call was given
    sessions,   \* the map: key -> stream (open() call), or None
    phase,      \* ManagedSession.phase
    socket,     \* readyState of the stream's WebSocket ("none": not created)
    terminated, \* streams that have sent Terminate
    waiting,    \* close() calls that await the server's Termination
    closing,    \* close() calls whose stream.close() has resolved
    queue,      \* FIFO of parked open() calls
    queued      \* the observability counter behind queuedCount

vars == <<pc, key, sessions, phase, socket, terminated, waiting, closing, queue, queued>>

OpenState == {"idle", "queued", "granted", "minting", "connecting", "opened",
              "rejected", "failed"}
SocketState == {"none", "connecting", "open", "closing", "closed"}
Phase == {"new", "open", "closing", "closed"}

Size(map) == Cardinality({k \in Keys : map[k] # None})

NoMicrotask == \A o \in Opens : pc[o] \notin {"granted", "rejected"} /\ closing[o] = 0

Init ==
    /\ pc = [o \in Opens |-> "idle"]
    /\ key \in [Opens -> Keys]
    /\ sessions = [k \in Keys |-> None]
    /\ phase = [o \in Opens |-> "new"]
    /\ socket = [o \in Opens |-> "none"]
    /\ terminated = {}
    /\ waiting = [o \in Opens |-> 0]
    /\ closing = [o \in Opens |-> 0]
    /\ queue = <<>>
    /\ queued = 0

-----------------------------------------------------------------------------
(* Slots *)

\* acquireSlot(): a slot when the map is below the bound, else a place in the queue.
AcquireSlot(o) ==
    IF Size(sessions) < MaxConcurrent
    THEN pc' = [pc EXCEPT ![o] = "granted"] /\ UNCHANGED <<queue, queued>>
    ELSE /\ pc' = [pc EXCEPT ![o] = "queued"]
         /\ queue' = Append(queue, o)
         /\ queued' = queued + 1

\* releaseSlot() and drainQueue(), run when the map has become `map' and the
\* calls stand at `pcs': at most one waiter is granted, and `queued' loses one
\* for the release and one more for the grant.
ReleaseSlot_KeepWaiter(pcs, map) ==
    LET grants == queue # <<>> /\ Size(map) < MaxConcurrent
        drop   == IF grants THEN 2 ELSE 1
    IN  /\ sessions' = map
        /\ pc' = IF grants THEN [pcs EXCEPT ![Head(queue)] = "granted"] ELSE pcs
        /\ queued' = IF queued < drop THEN 0 ELSE queued - drop
        /\ UNCHANGED queue

ReleaseSlot_Unclamped(pcs, map) ==
    LET grants == queue # <<>> /\ Size(map) < MaxConcurrent
        drop   == IF grants THEN 2 ELSE 1
    IN  /\ sessions' = map
        /\ pc' = IF grants THEN [pcs EXCEPT ![Head(queue)] = "granted"] ELSE pcs
        /\ queue' = IF grants THEN Tail(queue) ELSE queue
        /\ queued' = queued - drop

ReleaseSlot(pcs, map) ==
    LET grants == queue # <<>> /\ Size(map) < MaxConcurrent
        drop   == IF grants THEN 2 ELSE 1
    IN  /\ sessions' = map
        /\ pc' = IF grants THEN [pcs EXCEPT ![Head(queue)] = "granted"] ELSE pcs
        /\ queue' = IF grants THEN Tail(queue) ELSE queue
        /\ queued' = IF queued < drop THEN 0 ELSE queued - drop

\* The catch of open(): forget the key, whoever holds it, and return the slot.
OpenFails_KeepEntry(o) == ReleaseSlot([pc EXCEPT ![o] = "failed"], sessions)

OpenFails(o) ==
    ReleaseSlot([pc EXCEPT ![o] = "failed"], [sessions EXCEPT ![key[o]] = None])

-----------------------------------------------------------------------------
(* open() *)

\* open() up to its first await: the duplicate check, then the slot.
Open(o) ==
    /\ pc[o] = "idle"
    /\ IF sessions[key[o]] # None
       THEN pc' = [pc EXCEPT ![o] = "failed"] /\ UNCHANGED <<queue, queued>>
       ELSE AcquireSlot(o)
    /\ UNCHANGED <<key, sessions, phase, socket, terminated, waiting, closing>>

\* Put the new stream under its key, subscribe to it and start its connect().
Register(o) ==
    /\ pc' = [pc EXCEPT ![o] = "connecting"]
    /\ sessions' = [sessions EXCEPT ![key[o]] = o]
    /\ phase' = [phase EXCEPT ![o] = "open"]
    /\ socket' = [socket EXCEPT ![o] = "connecting"]
    /\ UNCHANGED <<key, terminated, waiting, closing, queue, queued>>

\* The call resumes with its slot: the second duplicate check, then the token
\* or, with a server key, the registration in the same job.
Granted(o) ==
    /\ pc[o] = "granted"
    /\ \/ /\ sessions[key[o]] # None
          /\ OpenFails(o)
          /\ UNCHANGED <<key, phase, socket, terminated, waiting, closing>>
       \/ /\ sessions[key[o]] = None
          /\ TempToken
          /\ pc' = [pc EXCEPT ![o] = "minting"]
          /\ UNCHANGED <<key, sessions, phase, socket, terminated, waiting, closing, queue, queued>>
       \/ /\ sessions[key[o]] = None
          /\ ~TempToken
          /\ Register(o)

\* mintRealtimeToken() answers, or throws into the catch.
Minted(o) == NoMicrotask /\ pc[o] = "minting" /\ Register(o)

MintFails(o) ==
    /\ NoMicrotask
    /\ pc[o] = "minting"
    /\ OpenFails(o)
    /\ UNCHANGED <<key, phase, socket, terminated, waiting, closing>>

\* A rejected connect() reaches the catch.
Rejected(o) ==
    /\ pc[o] = "rejected"
    /\ OpenFails(o)
    /\ UNCHANGED <<key, phase, socket, terminated, waiting, closing>>

-----------------------------------------------------------------------------
(* Socket events *)

\* The stream's "close" listener: it acts on the session that holds the key
\* now, if that one is still in phase "open".
OnStreamClose_ForgetRelease(o, pcs) ==
    LET held == sessions[key[o]]
    IN  IF held # None /\ phase[held] = "open"
        THEN /\ phase' = [phase EXCEPT ![held] = "closed"]
             /\ pc' = pcs /\ sessions' = [sessions EXCEPT ![key[o]] = None]
             /\ UNCHANGED <<queue, queued>>
        ELSE pc' = pcs /\ UNCHANGED <<phase, sessions, queue, queued>>

OnStreamClose(o, pcs) ==
    LET held == sessions[key[o]]
    IN  IF held # None /\ phase[held] = "open"
        THEN /\ phase' = [phase EXCEPT ![held] = "closed"]
             /\ ReleaseSlot(pcs, [sessions EXCEPT ![key[o]] = None])
        ELSE pc' = pcs /\ UNCHANGED <<phase, sessions, queue, queued>>

SocketOpens(o) ==
    /\ NoMicrotask
    /\ socket[o] = "connecting"
    /\ socket' = [socket EXCEPT ![o] = "open"]
    /\ pc' = [pc EXCEPT ![o] = "opened"]
    /\ UNCHANGED <<key, sessions, phase, terminated, waiting, closing, queue, queued>>

\* The handshake fails: `ws' emits "error", which rejects connect(), and then
\* "close" in the same job, before the rejection reaches the catch.
ConnectFails(o) ==
    /\ NoMicrotask
    /\ socket[o] = "connecting"
    /\ socket' = [socket EXCEPT ![o] = "closed"]
    /\ OnStreamClose(o, [pc EXCEPT ![o] = "rejected"])
    /\ UNCHANGED <<key, terminated, waiting, closing>>

\* The socket closes, at whichever end the close began; every close() that
\* awaits the Termination resolves with it.
SocketCloses(o) ==
    /\ NoMicrotask
    /\ socket[o] \in {"open", "closing"}
    /\ socket' = [socket EXCEPT ![o] = "closed"]
    /\ OnStreamClose(o, pc)
    /\ closing' = [closing EXCEPT ![o] = @ + waiting[o]]
    /\ waiting' = [waiting EXCEPT ![o] = 0]
    /\ UNCHANGED <<key, terminated>>

\* The server answers Terminate with Termination.
Termination(o) ==
    /\ NoMicrotask
    /\ socket[o] = "open"
    /\ waiting[o] > 0
    /\ closing' = [closing EXCEPT ![o] = @ + waiting[o]]
    /\ waiting' = [waiting EXCEPT ![o] = 0]
    /\ UNCHANGED <<pc, key, sessions, phase, socket, terminated, queue, queued>>

\* The 8 s timer of one close() fires before any answer.
TerminationTimeout_AfterClose(o) ==
    /\ NoMicrotask
    /\ waiting[o] > 0
    /\ socket[o] # "open"
    /\ waiting' = [waiting EXCEPT ![o] = @ - 1]
    /\ closing' = [closing EXCEPT ![o] = @ + 1]
    /\ UNCHANGED <<pc, key, sessions, phase, socket, terminated, queue, queued>>

TerminationTimeout(o) ==
    /\ NoMicrotask
    /\ waiting[o] > 0
    /\ waiting' = [waiting EXCEPT ![o] = @ - 1]
    /\ closing' = [closing EXCEPT ![o] = @ + 1]
    /\ UNCHANGED <<pc, key, sessions, phase, socket, terminated, queue, queued>>

-----------------------------------------------------------------------------
(* close() and closeAll() *)

\* teardown() of the sessions in S up to stream.close()'s first await: an open
\* socket is sent Terminate and awaited; a connecting one is closed at once and
\* its connect() rejected; anything later has nothing left to wait for.
StartTeardown_NoTerminate(S) ==
    LET young == {o \in S : socket[o] = "connecting"}
    IN  /\ phase' = [o \in Opens |-> IF o \in S THEN "closing" ELSE phase[o]]
        /\ closing' = [o \in Opens |-> IF o \in S THEN closing[o] + 1 ELSE closing[o]]
        /\ socket' = [o \in Opens |-> IF o \in young THEN "closing" ELSE socket[o]]
        /\ pc' = [o \in Opens |-> IF o \in young THEN "rejected" ELSE pc[o]]
        /\ UNCHANGED <<key, sessions, queue, queued, waiting, terminated>>

StartTeardown(S) ==
    LET live == {o \in S : socket[o] = "open"}
        young == {o \in S : socket[o] = "connecting"}
    IN  /\ phase' = [o \in Opens |-> IF o \in S THEN "closing" ELSE phase[o]]
        /\ terminated' = terminated \cup live
        /\ waiting' = [o \in Opens |-> IF o \in live THEN waiting[o] + 1 ELSE waiting[o]]
        /\ closing' = [o \in Opens |-> IF o \in S \ live THEN closing[o] + 1 ELSE closing[o]]
        /\ socket' = [o \in Opens |-> IF o \in young THEN "closing" ELSE socket[o]]
        /\ pc' = [o \in Opens |-> IF o \in young THEN "rejected" ELSE pc[o]]
        /\ UNCHANGED <<key, sessions, queue, queued>>

MayClose(o) == o # None /\ waiting[o] + closing[o] < MaxCloses

Close(k) == MayClose(sessions[k]) /\ StartTeardown({sessions[k]})

CloseAll ==
    LET all == {sessions[k] : k \in Keys} \ {None}
    IN  /\ all # {}
        /\ \A o \in all : MayClose(o)
        /\ StartTeardown(all)

\* stream.close() has resolved: the socket is closed if it still was open, the
\* key is forgotten, whoever holds it, and the slot returned.
TeardownDone(o) ==
    /\ closing[o] > 0
    /\ closing' = [closing EXCEPT ![o] = @ - 1]
    /\ socket' = [socket EXCEPT ![o] = IF @ = "open" THEN "closing" ELSE @]
    /\ phase' = [phase EXCEPT ![o] = "closed"]
    /\ ReleaseSlot(pc, [sessions EXCEPT ![key[o]] = None])
    /\ UNCHANGED <<key, terminated, waiting>>

-----------------------------------------------------------------------------
Microtask(o) == Granted(o) \/ Rejected(o) \/ TeardownDone(o)

Handshake(o) == SocketOpens(o) \/ ConnectFails(o)

Mint(o) == Minted(o) \/ MintFails(o)

Next ==
    \/ \E o \in Opens :
          \/ Open(o) \/ Microtask(o) \/ Mint(o) \/ Handshake(o)
          \/ SocketCloses(o) \/ Termination(o) \/ TerminationTimeout(o)
    \/ \E k \in Keys : Close(k)
    \/ CloseAll

Spec == Init /\ [][Next]_vars

\* The event loop runs its jobs, a handshake or a token request answers one way
\* or the other, and timers fire.  The server owes nothing once a session is open.
Loop == \A o \in Opens :
    /\ WF_vars(Microtask(o))
    /\ WF_vars(Handshake(o))
    /\ WF_vars(Mint(o))
    /\ WF_vars(TerminationTimeout(o))

\* Every call ends: whoever opened a session closes it.
CallsEnd == \A k \in Keys : WF_vars(Close(k))

FairSpec == Spec /\ Loop /\ CallsEnd

-----------------------------------------------------------------------------
TypeOK ==
    /\ pc \in [Opens -> OpenState]
    /\ key \in [Opens -> Keys]
    /\ sessions \in [Keys -> Opens \cup {None}]
    /\ phase \in [Opens -> Phase]
    /\ socket \in [Opens -> SocketState]
    /\ terminated \subseteq Opens
    /\ waiting \in [Opens -> Nat]
    /\ closing \in [Opens -> Nat]
    /\ queue \in Seq(Opens)
    /\ queued \in Nat

-----------------------------------------------------------------------------
(* Properties that hold *)

\* No stranded caller: while anyone is parked, some session is in the map or some
\* caller is on its way there with a slot, so a release is still to come.
NoStrandedCaller ==
    queue # <<>> => \/ \E k \in Keys : sessions[k] # None
                    \/ \E o \in Opens : pc[o] \in {"granted", "minting"}

\* The queue and the calls agree: exactly the parked calls are queued, once each.
QueueMatchesCalls ==
    /\ \A o \in Opens : pc[o] = "queued" <=> \E i \in DOMAIN queue : queue[i] = o
    /\ \A i, j \in DOMAIN queue : queue[i] = queue[j] => i = j

\* isOpen() never answers for a dead stream: an entry whose socket has closed is
\* about to be removed by a job that is already queued.
NoDeadEntry ==
    \A k \in Keys : sessions[k] # None /\ socket[sessions[k]] = "closed" =>
        closing[sessions[k]] > 0 \/ pc[sessions[k]] = "rejected"

\* An open() that has thrown leaves nothing behind: its stream is not in the map.
FailedOpenLeavesNoEntry == \A o \in Opens : pc[o] = "failed" => \A k \in Keys : sessions[k] # o

\* The client never closes an open socket without having sent Terminate.
TerminateBeforeClose ==
    [][\A o \in Opens : socket[o] = "open" /\ socket'[o] = "closing" => o \in terminated]_vars

\* Every close() returns, though the server never answers.
CloseReturns == \A o \in Opens : waiting[o] + closing[o] > 0 ~> waiting[o] + closing[o] = 0

\* Every open() settles: no caller is parked for ever.
OpenSettles == \A o \in Opens : pc[o] # "idle" ~> pc[o] \in {"opened", "failed"}

-----------------------------------------------------------------------------
(* Claims of the source that the code does not keep *)

\* "Enforces a bound on concurrent sessions" (manager.ts:26).
BoundEnforced == Size(sessions) <= MaxConcurrent

\* "Close a single session, always sending Terminate" (manager.ts:159): a stream
\* that is live and was never sent Terminate can still be reached by its key.
LiveStreamReachable ==
    \A o \in Opens : pc[o] = "opened" /\ socket[o] = "open" /\ o \notin terminated
                     => sessions[key[o]] = o

\* What the map shows is a session that lives or is just being removed: isOpen() never answers for
\* a dead stream, and an open() that has thrown leaves nothing behind.
EntriesAreLive == NoDeadEntry /\ FailedOpenLeavesNoEntry

\* As long as calls end, no open() is parked for ever; and every close() returns, though the server
\* never says Termination.
NobodyIsKeptWaiting == CloseReturns /\ OpenSettles
=============================================================================
