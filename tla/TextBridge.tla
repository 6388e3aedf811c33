----------------------------- MODULE TextBridge -----------------------------
(***************************************************************************)
(* WhatsApp text: apps/desktop/electron/service/whatsappText.ts (webhook   *)
(* listener), packages/whatsapp/src/cloudApi.ts (transport) and router.ts, *)
(* with a thread of its own for every customer and the agent behind it.    *)
(* A turn of the agent is the message it answers.                          *)
(*                                                                         *)
(* The sender is outside: it posts a message again when no answer of the   *)
(* 2xx kind has reached it, which may be so at any time.                   *)
(***************************************************************************)
EXTENDS AgentTurns

CONSTANTS
    MaxSeen,        \* TextMessageRouterOptions.maxSeenMessages
    MaxPosts,       \* bound: posts that are accepted
    MaxLives        \* bound: services built, one after another

ASSUME TextAssumption == MaxSeen \in Nat \ {0} /\ MaxPosts \in Nat /\ MaxLives \in Nat \ {0}

VARIABLES
    life,           \* the number of the service
    bind,           \* its listener: "none", "pending", "bound", "failed" or "closed"
    halt,           \* stop(): "no", "waiting" for the bind, "draining" or "done"
    subscribed,     \* the router listens to the transport
    chain,          \* TextMessageRouter.queues: the messages of a customer, the
                    \* first one being answered
    step,           \* of the first one: "idle", "asking" or "sending"
    seen,           \* the remembered ids, oldest first
    posts,          \* those so far
    enqueued, answered, \* of this service, per customer: the messages enqueued and the
                    \* replies sent, in order
    forgotten       \* ids pushed out of the memory of this service

serviceVars == <<life, bind, halt, subscribed>>
routerVars == <<chain, step, seen, enqueued, answered, forgotten>>
textVars == <<agentVars, serviceVars, routerVars, posts>>

TextInit ==
    /\ AgentInit
    /\ life = 1 /\ bind = "none" /\ halt = "no" /\ subscribed = FALSE
    /\ chain = [l \in Lines |-> <<>>] /\ step = [l \in Lines |-> "idle"]
    /\ seen = <<>> /\ posts = 0
    /\ enqueued = [l \in Lines |-> <<>>] /\ answered = [l \in Lines |-> <<>>]
    /\ forgotten = {}

In(x, s) == \E i \in DOMAIN s : s[i] = x

-----------------------------------------------------------------------------
(* The service *)

\* start(): the router subscribes, then the port is bound.
StartText ==
    /\ bind = "none" /\ halt = "no"
    /\ bind' = "pending" /\ subscribed' = TRUE
    /\ UNCHANGED <<agentVars, routerVars, life, halt, posts>>

Bound ==
    /\ bind = "pending"
    /\ \/ bind' = "bound" /\ UNCHANGED subscribed
       \/ bind' = "failed" /\ subscribed' = FALSE
    /\ UNCHANGED <<agentVars, routerVars, life, halt, posts>>

StopText ==
    /\ halt = "no"
    /\ halt' = "waiting"
    /\ UNCHANGED <<agentVars, routerVars, life, bind, subscribed, posts>>

\* A bind still under way is awaited, so that there is a server to close.
CloseText ==
    /\ halt = "waiting" /\ bind # "pending"
    /\ halt' = "draining"
    /\ bind' = IF bind = "bound" THEN "closed" ELSE bind
    /\ subscribed' = FALSE
    /\ UNCHANGED <<agentVars, routerVars, life, posts>>

\* drain(): as long as a conversation has a chain.
Drained ==
    /\ halt = "draining"
    /\ \A l \in Lines : chain[l] = <<>>
    /\ halt' = "done"
    /\ UNCHANGED <<agentVars, routerVars, life, bind, subscribed, posts>>

\* Another service, with another router and another agent, after a stop or a crash.
Rebuild ==
    /\ life < MaxLives
    /\ halt = "done" \/ bind = "bound"
    /\ life' = life + 1
    /\ bind' = "none" /\ halt' = "no" /\ subscribed' = FALSE
    /\ chain' = [l \in Lines |-> <<>>] /\ step' = [l \in Lines |-> "idle"]
    /\ seen' = <<>> /\ forgotten' = {}
    /\ enqueued' = [l \in Lines |-> <<>>] /\ answered' = [l \in Lines |-> <<>>]
    /\ turnAt' = [t \in Questions |-> "none"] /\ aborted' = {}
    /\ inFlight' = [l \in Lines |-> NoTurn] /\ history' = [l \in Lines |-> <<>>]
    /\ UNCHANGED <<lineOf, interrupted, idle, notes, posts>>

-----------------------------------------------------------------------------
(* The webhook *)

\* enqueue(): each conversation has a chain of its own.
Enqueue(t) ==
    LET l == lineOf[t] IN
    /\ chain' = [chain EXCEPT ![l] = Append(@, t)]
    /\ enqueued' = [enqueued EXCEPT ![l] = IF In(t, @) THEN @ ELSE Append(@, t)]
    /\ UNCHANGED <<step, seen, answered, forgotten>>

\* deliver() and handleWebhook(): 200 once it is accepted.
\* A delivery that finds no listener, is not signed or not of text changes nothing.
Deliver(t) ==
    /\ posts < MaxPosts
    /\ posts' = posts + 1
    /\ bind = "bound" /\ subscribed
    /\ Enqueue(t)
    /\ UNCHANGED <<agentVars, serviceVars>>

-----------------------------------------------------------------------------
(* The router *)

\* remember(): the oldest id makes room.
Remember(t) ==
    /\ seen' = IF In(t, seen) THEN seen
               ELSE IF Len(seen) = MaxSeen THEN Append(Tail(seen), t) ELSE Append(seen, t)
    /\ forgotten' = IF ~In(t, seen) /\ Len(seen) = MaxSeen THEN forgotten \cup {Head(seen)} ELSE forgotten

Advance(l) == /\ chain' = [chain EXCEPT ![l] = Tail(@)]
              /\ step' = [step EXCEPT ![l] = "idle"]

\* answer(): a redelivery is dropped; an id is remembered before the agent is asked.
Begin_Unchained(l) ==
    /\ chain[l] # <<>>
    /\ \E t \in Questions :
       /\ In(t, chain[l]) /\ ~In(t, seen)
       /\ Remember(t) /\ AskTurn(t)
       /\ chain' = [chain EXCEPT ![l] = <<t>> \o SelectSeq(@, LAMBDA u : u # t)]
       /\ step' = [step EXCEPT ![l] = "asking"]
    /\ UNCHANGED <<serviceVars, enqueued, answered, posts>>

Begin(l) ==
    /\ chain[l] # <<>> /\ step[l] = "idle"
    /\ LET t == Head(chain[l]) IN
       \/ /\ In(t, seen)
          /\ Advance(l)
          /\ UNCHANGED <<agentVars, seen, forgotten>>
       \/ /\ ~In(t, seen)
          /\ Remember(t) /\ AskTurn(t)
          /\ step' = [step EXCEPT ![l] = "asking"]
          /\ UNCHANGED chain
    /\ UNCHANGED <<serviceVars, enqueued, answered, posts>>

\* The agent has a reply to send, or none.
HasReply(l) ==
    /\ step[l] = "asking"
    /\ \/ turnAt[Head(chain[l])] = "replied" /\ step' = [step EXCEPT ![l] = "sending"] /\ UNCHANGED chain
       \/ turnAt[Head(chain[l])] = "skipped" /\ Advance(l)
    /\ UNCHANGED <<agentVars, serviceVars, seen, enqueued, answered, forgotten, posts>>

\* send() settles; a failure is reported and not tried again.
Send(l) ==
    /\ step[l] = "sending"
    /\ answered' \in {answered, [answered EXCEPT ![l] = Append(@, Head(chain[l]))]}
    /\ Advance(l)
    /\ UNCHANGED <<agentVars, serviceVars, seen, enqueued, forgotten, posts>>

TurnGoes(t) == Settle(t) /\ UNCHANGED <<serviceVars, routerVars, posts>>

TextNext ==
    \/ StartText \/ Bound \/ StopText \/ CloseText \/ Drained \/ Rebuild
    \/ \E t \in Questions : Deliver(t) \/ TurnGoes(t)
    \/ \E l \in Lines : Begin(l) \/ HasReply(l) \/ Send(l)

TextSpec == TextInit /\ [][TextNext]_textVars

\* A bind, a close, a request of the model and one of the network settle: each has a
\* time limit; and what is queued is taken up.
TextFairness ==
    /\ WF_textVars(Bound) /\ WF_textVars(CloseText) /\ WF_textVars(Drained)
    /\ \A t \in Questions : WF_textVars(TurnGoes(t))
    /\ \A l \in Lines : WF_textVars(Begin(l)) /\ WF_textVars(HasReply(l)) /\ WF_textVars(Send(l))

-----------------------------------------------------------------------------
\* Types; and a step under way belongs to the first message of a chain.
TextTypeOK ==
    /\ AgentTypeOK
    /\ life \in 1..MaxLives
    /\ bind \in {"none", "pending", "bound", "failed", "closed"}
    /\ halt \in {"no", "waiting", "draining", "done"}
    /\ subscribed => bind \in {"pending", "bound"}
    /\ \A l \in Lines : step[l] # "idle" => chain[l] # <<>>
    /\ Len(seen) <= MaxSeen

\* A message is answered once by a service, however often it is posted, unless its
\* id was pushed out of the memory (router.ts, the set of seen ids).
AnsweredOnce ==
    \A l \in Lines : \A i, j \in DOMAIN answered[l] :
        answered[l][i] = answered[l][j] => i = j \/ answered[l][i] \in forgotten

\* Replies to a customer go out in the order in which the messages came in, though
\* each takes its own time to answer (router.ts, a chain per conversation).
RepliesInOrder ==
    \A l \in Lines : \A i, j \in DOMAIN answered[l] :
        i < j /\ {answered[l][i], answered[l][j]} \cap forgotten = {} =>
            \E p, q \in DOMAIN enqueued[l] :
                p < q /\ enqueued[l][p] = answered[l][i] /\ enqueued[l][q] = answered[l][j]

\* A customer's next message never costs the answer to the one before: the agent's
\* supersession, which is meant for voice, is out of reach of text.
NoTextSuperseded == bind # "none" => ~interrupted

\* When stop() has returned, nothing listens and nothing is said any more: neither a
\* bind that came late nor a turn that was under way survives it (whatsappText.ts,
\* `starting' and router.stop()).
StoppedIsQuiet ==
    halt = "done" => /\ bind \notin {"pending", "bound"}
                     /\ \A l \in Lines : step[l] = "idle" /\ UnderWay(l) = {}

\* A message that was acknowledged is dealt with: its chain moves on, also past a
\* turn that failed and while the service stops.
AcceptedIsSettled ==
    \A t \in Questions : In(t, chain[lineOf[t]]) ~> ~In(t, chain[lineOf[t]])

\* Of several turns on one line only the newest can be heard, and what is written under a question is
\* its answer.
AnswersFit == TextTypeOK /\ OneLiveTurn /\ AnswersFitQuestions

\* A customer's messages are answered once, in their order, none at the cost of another; and a
\* service that was stopped is silent.
TextsAreAnswered == AnsweredOnce /\ RepliesInOrder /\ NoTextSuperseded /\ StoppedIsQuiet
=============================================================================
