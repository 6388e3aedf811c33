----------------------------- MODULE AgentTurns -----------------------------
(***************************************************************************)
(* packages/agent/src/agent.ts: the brain that answers a line.  A turn is  *)
(* one request of the model and one of the synthesizer; a newer turn of    *)
(* the same line supersedes it.  packages/agent/src/conversation.ts keeps  *)
(* what was said, also between calls.                                      *)
(***************************************************************************)
EXTENDS Naturals, Sequences, FiniteSets

CONSTANTS
    Lines,      \* conversations: a device and a channel
    Questions,
    NoTurn,
    MaxNotes    \* bound: text messages noted on a line by others

ASSUME AgentAssumption == NoTurn \notin Questions /\ MaxNotes \in Nat

Going == {"asking", "voicing"}

VARIABLES
    turnAt,         \* of a turn: "none", "asking" the model, "voicing" its answer,
                    \* "replied", or "skipped"
    lineOf,         \* the line a turn was asked on last
    aborted,        \* turns whose controller has been aborted
    inFlight,       \* LlmCallAgent.inFlight
    history,        \* Conversation.messages
    interrupted,    \* LlmCallAgent.interrupted is not 0
    idle,           \* conversations nobody has added to for idleTtlMs
    notes

agentVars == <<turnAt, lineOf, aborted, inFlight, history, interrupted, idle, notes>>

AgentInit ==
    /\ turnAt = [t \in Questions |-> "none"]
    /\ lineOf \in [Questions -> Lines]
    /\ aborted = {}
    /\ inFlight = [l \in Lines |-> NoTurn]
    /\ history = [l \in Lines |-> <<>>]
    /\ interrupted = FALSE /\ idle = {} /\ notes = 0

Said(role, t) == [role |-> role, of |-> t]
UnderWay(l) == {t \in Questions : lineOf[t] = l /\ turnAt[t] \in Going}

-----------------------------------------------------------------------------
\* onFinalTurn() up to the model: what was being generated answers the wrong question.
AskTurn(t) ==
    LET l == lineOf[t] IN
    /\ turnAt[t] \notin Going
    /\ aborted' = (aborted \ {t}) \cup ({inFlight[l]} \ {NoTurn})
    /\ interrupted' = (interrupted \/ inFlight[l] # NoTurn)
    /\ inFlight' = [inFlight EXCEPT ![l] = t]
    /\ turnAt' = [turnAt EXCEPT ![t] = "asking"]
    /\ history' = [history EXCEPT ![l] = Append(@, Said("user", t))]
    /\ idle' = idle \ {l}
    /\ UNCHANGED <<lineOf, notes>>

\* The turn is over; its slot is cleared unless a newer turn has it.
Release(t) == inFlight' = [inFlight EXCEPT ![lineOf[t]] = IF @ = t THEN NoTurn ELSE @]

\* An answer that is late, empty or an error is skipped.
Skip(t) ==
    /\ turnAt[t] \in Going
    /\ turnAt' = [turnAt EXCEPT ![t] = "skipped"]
    /\ Release(t)
    /\ UNCHANGED <<lineOf, aborted, history, interrupted, idle, notes>>

\* complete() resolves with words; the caller may have cut in meanwhile.
ModelAnswers(t) ==
    /\ turnAt[t] = "asking" /\ t \notin aborted
    /\ turnAt' = [turnAt EXCEPT ![t] = "voicing"]
    /\ UNCHANGED <<lineOf, aborted, inFlight, history, interrupted, idle, notes>>

\* The speech is there: if nobody has cut in, it was said.
Voices_Stale(t) ==
    /\ turnAt[t] = "voicing"
    /\ turnAt' = [turnAt EXCEPT ![t] = "replied"]
    /\ history' = [history EXCEPT ![lineOf[t]] = Append(@, Said("assistant", t))]
    /\ idle' = idle \ {lineOf[t]}
    /\ Release(t)
    /\ UNCHANGED <<lineOf, aborted, interrupted, notes>>

Voices(t) ==
    /\ turnAt[t] = "voicing" /\ t \notin aborted
    /\ turnAt' = [turnAt EXCEPT ![t] = "replied"]
    /\ history' = [history EXCEPT ![lineOf[t]] = Append(@, Said("assistant", t))]
    /\ idle' = idle \ {lineOf[t]}
    /\ Release(t)
    /\ UNCHANGED <<lineOf, aborted, interrupted, notes>>

\* onCallEnded(): the reply under way is abandoned, and idle conversations go.
LineEnds(l) ==
    /\ aborted' = aborted \cup ({inFlight[l]} \ {NoTurn})
    /\ inFlight' = [inFlight EXCEPT ![l] = NoTurn]
    /\ history' = [k \in Lines |-> IF k \in idle THEN <<>> ELSE history[k]]
    /\ UNCHANGED <<turnAt, lineOf, interrupted, idle, notes>>

\* noteTextMessage(), of either side, and the greeting of onAnswered()
NoteText(l, role) ==
    /\ notes < MaxNotes
    /\ notes' = notes + 1
    /\ history' = [history EXCEPT ![l] = Append(@, Said(role, NoTurn))]
    /\ idle' = idle \ {l}
    /\ UNCHANGED <<turnAt, lineOf, aborted, inFlight, interrupted>>

\* Half an hour passes, which no turn takes.
GoesIdle(l) ==
    /\ l \notin idle /\ history[l] # <<>> /\ UnderWay(l) = {}
    /\ idle' = idle \cup {l}
    /\ UNCHANGED <<turnAt, lineOf, aborted, inFlight, history, interrupted, notes>>

Settle(t) == Skip(t) \/ ModelAnswers(t) \/ Voices(t)

AgentNext ==
    \/ \E t \in Questions : turnAt[t] = "none" /\ AskTurn(t)
    \/ \E t \in Questions : Settle(t)
    \/ \E l \in Lines : LineEnds(l) \/ GoesIdle(l) \/ \E role \in {"user", "assistant"} : NoteText(l, role)

-----------------------------------------------------------------------------
\* Types; and a turn that is in flight on a line is being generated.
AgentTypeOK ==
    /\ turnAt \in [Questions -> Going \cup {"none", "replied", "skipped"}]
    /\ lineOf \in [Questions -> Lines]
    /\ aborted \subseteq Questions
    /\ \A l \in Lines : inFlight[l] # NoTurn => inFlight[l] \in UnderWay(l)
    /\ idle \subseteq Lines /\ notes \in 0..MaxNotes /\ interrupted \in BOOLEAN

\* Of the turns being generated for a line, only the newest one can still be heard:
\* whatever supersedes, ends or fails meanwhile, the others have been told to stop
\* (agent.ts onFinalTurn, the abort and the guarded release).
OneLiveTurn ==
    \A l \in Lines : UnderWay(l) \ aborted \subseteq {inFlight[l]}

\* No reply answers a question the caller has since replaced by another: in the
\* conversation no other turn was asked between a question and its answer, so the
\* model never reads an answer under another turn's question.  A text that somebody
\* notes on the line meanwhile may stand there (agent.ts:179-186).
Asks(m) == m.role = "user" /\ m.of # NoTurn
AnswersFitQuestions ==
    \A l \in Lines : \A j \in DOMAIN history[l] :
        LET a == history[l][j] IN
        a.role = "assistant" /\ a.of # NoTurn =>
            \E i \in 1..(j - 1) :
                /\ history[l][i] = Said("user", a.of)
                /\ \A k \in (i + 1)..(j - 1) : ~Asks(history[l][k])
=============================================================================
