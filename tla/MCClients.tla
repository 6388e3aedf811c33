------------------------------ MODULE MCClients -----------------------------
(* The session manager and the clients of the remote services, each on its    *)
(* own: `part' says which one a behaviour is about.  They share no state.     *)
EXTENDS SessionManager, VoiceAgentSession, RestClients, RealtimeStream, Speech

VARIABLE part

clientVars == <<vaVars, restVars, policyVars, agentVars, speechVars, streamVars>>
allVars == <<part, vars, clientVars>>

PlainConf ==
    [requested |-> "silent", ttsKey |-> FALSE, ttsModel |-> NotSet, llmKey |-> FALSE, llmModel |-> FALSE,
     ttsBase |-> FALSE, llmBase |-> FALSE, engine |-> NotSet, piperModel |-> FALSE, installed |-> {}]

MCInit ==
    /\ part \in {"manager", "voice", "rest", "retry", "stored", "speech", "stream"}
    /\ Init /\ VaInit /\ RestInit /\ PolicyInit /\ StoredInit /\ StreamInit
    /\ part = "manager" \/ key = [o \in Opens |-> CHOOSE k \in Keys : TRUE]
    /\ part = "rest" \/ ~abortable
    /\ part = "stream" \/ streamRate = CHOOSE r \in StreamRates : TRUE
    /\ IF part = "speech" THEN SpeechInit
       ELSE /\ conf = PlainConf /\ voice = Silent /\ aborted = FALSE /\ utterance = "none" /\ due = FALSE
            /\ engineRuns = FALSE /\ wavWritten = FALSE /\ workDir = FALSE

MCNext ==
    \/ part = "manager" /\ Next /\ UNCHANGED <<part, clientVars>>
    \/ part = "voice" /\ VaNext /\ UNCHANGED <<part, vars, restVars, policyVars, agentVars, speechVars, streamVars>>
    \/ part = "rest" /\ RestNext /\ UNCHANGED <<part, vars, vaVars, policyVars, agentVars, speechVars, streamVars>>
    \/ part = "retry" /\ PolicyNext /\ UNCHANGED <<part, vars, vaVars, restVars, agentVars, speechVars, streamVars>>
    \/ part = "stored" /\ StoredNext /\ UNCHANGED <<part, vars, vaVars, restVars, policyVars, speechVars, streamVars>>
    \/ part = "speech" /\ SpeechNext /\ UNCHANGED <<part, vars, vaVars, restVars, policyVars, agentVars, streamVars>>
    \/ part = "stream" /\ StreamNext /\ UNCHANGED <<part, vars, vaVars, restVars, policyVars, agentVars, speechVars>>

\* Timers fire; a socket that failed, or that we close, is closed in the end; the prompt steps of a
\* client are taken; the service of a poll answers.
MCFairness ==
    /\ \A o \in Opens :
        /\ WF_vars(part = "manager" /\ Microtask(o))
        /\ WF_vars(part = "manager" /\ Handshake(o))
        /\ WF_vars(part = "manager" /\ Mint(o))
        /\ WF_vars(part = "manager" /\ TerminationTimeout(o))
    /\ \A k \in Keys : WF_vars(part = "manager" /\ Close(k))
    /\ WF_vaVars(part = "voice" /\ VaReadyTimeout)
    /\ WF_vaVars(part = "voice" /\ VaCloses)
    /\ \A i \in 1..MaxClosers : WF_vaVars(part = "voice" /\ i \in DOMAIN closers /\ VaEndTimeout(i))
    /\ \A n \in Sockets : WF_vaVars(part = "voice" /\ VaSocketGoes(n))
    /\ WF_restVars(part = "rest" /\ Ask)
    /\ WF_restVars(part = "rest" /\ Wake)
    /\ WF_restVars(part = "rest" /\ Expire)
    /\ WF_restVars(part = "rest" /\ Passes)
    /\ WF_restVars(part = "rest" /\ Oversleeps)
    /\ WF_restVars(part = "rest" /\ Polled)
    /\ WF_streamVars(part = "stream" /\ (StreamOpens \/ HandshakeFails))
    /\ WF_streamVars(part = "stream" /\ GivesUpWaiting)
    /\ WF_speechVars(part = "speech" /\ TimesOut)
    /\ WF_speechVars(part = "speech" /\ ReadWav)

MCSpec == MCInit /\ [][MCNext]_allVars /\ MCFairness

\* A line that fails is tried again a bounded number of times, never in a hot loop; and an agent kept
\* by the service speaks at the rate a session takes.
PoliciesHold == PolicyTypeOK /\ WaitingIsBounded /\ NeverHot /\ RateKept

\* No session is left with its socket open or its end untold, by the Voice Agent's client or by the stream.
SessionsEndOnce == SocketsAreOwned /\ StreamIsHonest

\* Every promise of a client settles though its service is silent, and a reply the caller has talked
\* over is not spoken.
ClientsSettle ==
    ConnectSettles /\ EndingEnds /\ ChatSettles /\ PollSettles /\ UtteranceEnds /\ NeverTalksOver /\ StreamSettles
=============================================================================
