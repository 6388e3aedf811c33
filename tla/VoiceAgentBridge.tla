-------------------------- MODULE VoiceAgentBridge --------------------------
(***************************************************************************)
(* packages/orchestrator/src/voiceAgentBridge.ts: one call carried by the  *)
(* Voice Agent.  The service hears the caller, decides when to speak, and  *)
(* sends replies over a socket; the orchestrator asks for the greeting     *)
(* while it sets the call up, and for one reply per caller turn, one turn  *)
(* at a time.                                                              *)
(*                                                                         *)
(* The protocol does not say what a reply answers.  The model does: reply  *)
(* n answers turn n and reply 0 is the greeting, so that what the bridge   *)
(* pairs can be compared with what belongs together.                       *)
(***************************************************************************)
EXTENDS Naturals, Sequences

CONSTANTS
    MaxTurns        \* bound: the caller's turns

ASSUME TurnsAssumption == MaxTurns \in Nat \ {0}

Turns == 1..MaxTurns
Greeting == 0
Replies == {Greeting} \cup Turns

VARIABLES
    socket,         \* of the call: "none", "connecting", "open", "closing", "closed"
    registered,     \* the bridge has the call in `calls'
    persona,        \* "silent": an inline one without a greeting; "greets": any other
    heard,          \* turns the service has finalized: turnOrder + 1
    started,        \* the service: replies begun
    speaking,       \* the service: the reply begun and not done, in a set
    greeting,       \* replies parked in the greeting slot
    greeter,        \* onAnswered(): "due", "waiting", "done"
    welcome,        \* what it was given
    ready,          \* replies done before anyone asked
    waiting,        \* turns waiting in takeReply()
    work,           \* the orchestrator's chain: turns to answer, the current one first
    answers         \* what each turn was given

vars == <<socket, registered, persona, heard, started, speaking, greeting, greeter,
          welcome, ready, waiting, work, answers>>

service == <<started, speaking>>
greetings == <<greeting, greeter, welcome>>
replies == <<ready, waiting, work, answers>>

Init ==
    /\ socket = "none"
    /\ registered = FALSE
    /\ persona \in {"greets", "silent"}
    /\ heard = 0
    /\ started = {} /\ speaking = {}
    /\ greeting = {} /\ greeter = "due" /\ welcome = {}
    /\ ready = <<>> /\ waiting = <<>> /\ work = <<>>
    /\ answers = [t \in Turns |-> {}]

Live == socket \in {"open", "closing"}      \* events still arrive
closed == socket \in {"closing", "closed"}

-----------------------------------------------------------------------------
(* Opening and closing. *)

Open ==
    /\ socket = "none"
    /\ socket' = "connecting"
    /\ UNCHANGED <<registered, persona, heard, service, greetings, replies>>

Connected ==
    /\ socket = "connecting"
    /\ socket' = "open" /\ registered' = TRUE
    /\ UNCHANGED <<persona, heard, service, greetings, replies>>

ConnectFails ==
    /\ socket = "connecting"
    /\ socket' = "closed"
    /\ UNCHANGED <<registered, persona, heard, service, greetings, replies>>

\* Everyone waiting is told that nothing comes.
ReleaseAll ==
    /\ greeter' = IF greeter = "waiting" THEN "done" ELSE greeter
    /\ waiting' = <<>>
    /\ work' = IF waiting = <<>> THEN work ELSE Tail(work)
    /\ UNCHANGED <<greeting, welcome, ready, answers>>

\* The orchestrator's teardown, once the call is set up.  It has waited for
\* the turns it found; turns may have been chained since.
Close ==
    /\ registered
    /\ greeter = "done"
    /\ registered' = FALSE
    /\ socket' = IF socket = "open" THEN "closing" ELSE socket
    /\ ReleaseAll
    /\ UNCHANGED <<persona, heard, service>>

SocketCloses ==
    /\ Live
    /\ socket' = "closed"
    /\ ReleaseAll
    /\ UNCHANGED <<registered, persona, heard, service>>

-----------------------------------------------------------------------------
(* What the service sends. *)

\* A finalized turn of the caller: no greeting can come any more.  A turn
\* without text is not one the orchestrator asks a reply for.
UserTranscript ==
    /\ Live
    /\ heard < MaxTurns
    /\ heard' = heard + 1
    /\ greeter' = IF greeter = "waiting" THEN "done" ELSE greeter
    /\ work' \in {work, Append(work, heard + 1)}
    /\ UNCHANGED <<socket, registered, persona, service, greeting, welcome, ready, waiting, answers>>

\* The service speaks of its own accord, to the last turn it has heard.
ReplyStarted ==
    /\ Live
    /\ speaking = {}
    /\ heard \notin started
    /\ heard = Greeting => persona # "silent"
    /\ started' = started \cup {heard} /\ speaking' = {heard}
    /\ UNCHANGED <<socket, registered, persona, heard, greetings, replies>>

\* Resolve the promise of turn t, the current one: a second result, of a turn
\* the orchestrator has gone on from, is lost.
Resolve(t, result) ==
    IF work # <<>> /\ t = Head(work)
    THEN answers' = [answers EXCEPT ![t] = result] /\ work' = Tail(work)
    ELSE UNCHANGED <<answers, work>>

\* The reply is parked whoever waits.
SettleReply_Park(r) ==
    /\ ready' = Append(ready, r)
    /\ UNCHANGED <<greetings, waiting, work, answers>>

\* A reply nobody waits for yet is thrown away.
SettleReply_Drop(r) ==
    /\ IF waiting = <<>>
       THEN UNCHANGED <<waiting, work, answers>>
       ELSE Resolve(Head(waiting), {r}) /\ waiting' = Tail(waiting)
    /\ UNCHANGED <<greetings, ready>>

\* Before the caller has finished a turn a reply is the greeting; after, it
\* goes to the first who waits.
SettleReply(r) ==
    IF heard = 0
    THEN /\ IF greeter = "waiting"
            THEN greeter' = "done" /\ welcome' = {r} /\ UNCHANGED greeting
            ELSE greeting' = {r} /\ UNCHANGED <<greeter, welcome>>
         /\ UNCHANGED replies
    ELSE /\ IF waiting = <<>>
            THEN ready' = Append(ready, r) /\ UNCHANGED <<waiting, work, answers>>
            ELSE Resolve(Head(waiting), {r}) /\ waiting' = Tail(waiting) /\ UNCHANGED ready
         /\ UNCHANGED greetings

\* Said to the end, or cut off by the caller: both are done.
ReplyDone ==
    /\ Live
    /\ \E r \in speaking : SettleReply(r)
    /\ speaking' = {}
    /\ UNCHANGED <<socket, registered, persona, heard, started>>

-----------------------------------------------------------------------------
(* What the orchestrator asks. *)

\* onAnswered(), once the session is open.
TakeGreeting ==
    /\ registered
    /\ greeter = "due"
    /\ IF persona = "silent"
       THEN greeter' = "done" /\ UNCHANGED <<welcome, greeting>>
       ELSE IF greeting # {}
       THEN greeter' = "done" /\ welcome' = greeting /\ greeting' = {}
       ELSE /\ greeter' = IF closed \/ heard > 0 THEN "done" ELSE "waiting"
            /\ UNCHANGED <<welcome, greeting>>
    /\ UNCHANGED <<socket, registered, persona, heard, service, replies>>

GreetingTimeout ==
    /\ greeter = "waiting"
    /\ greeter' = "done"
    /\ UNCHANGED <<socket, registered, persona, heard, service, welcome, greeting, replies>>

\* The newest of the parked replies is taken.
TakeReply_Newest ==
    /\ work # <<>> /\ waiting = <<>>
    /\ IF ~registered
       THEN Resolve(Head(work), {}) /\ UNCHANGED <<ready, waiting>>
       ELSE IF ready # <<>>
       THEN /\ Resolve(Head(work), {ready[Len(ready)]})
            /\ ready' = SubSeq(ready, 1, Len(ready) - 1) /\ UNCHANGED waiting
       ELSE IF closed
       THEN Resolve(Head(work), {}) /\ UNCHANGED <<ready, waiting>>
       ELSE waiting' = <<Head(work)>> /\ UNCHANGED <<ready, work, answers>>
    /\ UNCHANGED <<socket, registered, persona, heard, service, greetings>>

\* onFinalTurn() of the current turn.  A call the bridge has forgotten, or
\* that is closed with nothing parked, has no reply.
TakeReply ==
    /\ work # <<>> /\ waiting = <<>>
    /\ IF ~registered
       THEN Resolve(Head(work), {}) /\ UNCHANGED <<ready, waiting>>
       ELSE IF ready # <<>>
       THEN Resolve(Head(work), {Head(ready)}) /\ ready' = Tail(ready) /\ UNCHANGED waiting
       ELSE IF closed
       THEN Resolve(Head(work), {}) /\ UNCHANGED <<ready, waiting>>
       ELSE waiting' = <<Head(work)>> /\ UNCHANGED <<ready, work, answers>>
    /\ UNCHANGED <<socket, registered, persona, heard, service, greetings>>

\* No timer is set.
ReplyTimeout_Unarmed == FALSE /\ UNCHANGED vars

ReplyTimeout ==
    /\ waiting # <<>>
    /\ Resolve(Head(waiting), {})
    /\ waiting' = Tail(waiting)
    /\ UNCHANGED <<socket, registered, persona, heard, service, greetings, ready>>

-----------------------------------------------------------------------------
Service == UserTranscript \/ ReplyStarted \/ ReplyDone \/ SocketCloses
Asked == TakeGreeting \/ TakeReply
Timers == GreetingTimeout \/ ReplyTimeout

Next == Open \/ Connected \/ ConnectFails \/ Close \/ Service \/ Asked \/ Timers

Spec == Init /\ [][Next]_vars

\* The orchestrator goes on with what is settled, and timers fire.  Nothing is
\* assumed of the service.
Settling ==
    /\ WF_vars(TakeGreeting) /\ WF_vars(TakeReply)
    /\ WF_vars(GreetingTimeout) /\ WF_vars(ReplyTimeout)

FairSpec == Spec /\ Settling

-----------------------------------------------------------------------------
\* Every variable has its type.
TypeOK ==
    /\ socket \in {"none", "connecting", "open", "closing", "closed"}
    /\ registered \in BOOLEAN
    /\ persona \in {"greets", "silent"}
    /\ heard \in 0..MaxTurns
    /\ started \subseteq Replies /\ speaking \subseteq started
    /\ greeting \subseteq Replies /\ welcome \subseteq Replies
    /\ greeter \in {"due", "waiting", "done"}
    /\ ready \in Seq(Replies) /\ waiting \in Seq(Turns) /\ work \in Seq(Turns)
    /\ answers \in [Turns -> SUBSET Replies]

-----------------------------------------------------------------------------
Elems(q) == {q[i] : i \in 1..Len(q)}
Increasing(q) == \A i, j \in 1..Len(q) : i < j => q[i] < q[j]

\* The places a finished reply can be in.
Parked == Elems(ready)
Given == UNION {answers[t] : t \in Turns}

\* A finished reply is somewhere, and in one place: a timer that has fired, a
\* close or a turn without text loses none and doubles none
\* (settleReply(), takeReply(), takeGreeting()).
EveryReplyIsKept ==
    /\ started \ speaking = greeting \cup welcome \cup Parked \cup Given
    /\ greeting \cap welcome = {} /\ (greeting \cup welcome) \cap (Parked \cup Given) = {}
    /\ Parked \cap Given = {}
    /\ \A s, t \in Turns : s # t => answers[s] \cap answers[t] = {}

\* No turn waits for a reply that is there: the queues of replies and of those
\* waiting for one are never both occupied, and only the turn being answered
\* waits (voiceAgentBridge.ts:149-152).
NobodyWaitsBesideAReply ==
    /\ ready = <<>> \/ waiting = <<>>
    /\ waiting # <<>> => work # <<>> /\ waiting = <<Head(work)>>

\* Replies are handed out in the order they were said: whatever a timeout or a
\* skipped turn has shifted, no turn is given something older than an earlier
\* turn was given, and nothing older than that is still to come.
RepliesStayInOrder ==
    /\ \A s, t \in Turns : s < t => \A q \in answers[s], r \in answers[t] : q < r
    /\ Increasing(ready)
    /\ \A q \in Given, r \in Parked : q < r

\* What keeps replies in order: the service begins them in order, turns are
\* answered in order, and a turn with an answer has been gone on from.
InOrderSoFar ==
    /\ \A q, r \in speaking : q = r
    /\ \A r \in started : r <= heard
    /\ \A q \in started \ speaking, r \in speaking : q < r
    /\ greeter # "done" => welcome = {}
    /\ Increasing(work) /\ \A t \in Elems(work) : t <= heard
    /\ \A s \in Turns : answers[s] # {} => s <= heard /\ \A t \in Elems(work) : s < t

IInv ==
    /\ TypeOK
    /\ EveryReplyIsKept
    /\ NobodyWaitsBesideAReply
    /\ RepliesStayInOrder
    /\ InOrderSoFar

\* Whatever the service does or leaves undone, call set-up is not held up by
\* the greeting, and every turn is settled so that the next can be
\* (the two timeouts, the close handler).
SetUpGoesOn == (registered /\ greeter # "done") ~> (greeter = "done" \/ ~registered)
TurnsAreSettled ==
    \A t \in Turns : t \in Elems(work) ~> t \notin Elems(work)

-----------------------------------------------------------------------------
\* What voiceAgentBridge.ts:164-166 says, "A reply that completes before any
\* caller turn has been finalized is the greeting; one that completes after is
\* an answer": the greeting is never handed to a turn as its answer.
GreetingIsNoAnswer == Greeting \notin Given

\* Neither the set-up of a call nor a turn waits for ever on a service that says nothing.
NobodyWaitsForEver == SetUpGoesOn /\ TurnsAreSettled
=============================================================================
